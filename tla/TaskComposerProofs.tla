------------------------- MODULE TaskComposerProofs -------------------------
(***************************************************************************)
(* Theorems about TaskComposer for any tasks, plans, digests, polls and    *)
(* bounds: the types of the calls under way (TypeInv) and what an approval *)
(* on its way and a run to come rest on (SeenInv).  With them, the tasks   *)
(* that the client steers live by TaskLife, the timer follows what the     *)
(* screen shows, and the screen what a waiting task waits for.             *)
(***************************************************************************)
EXTENDS TaskComposer, TLAPS

Statuses == Active \cup Final \cup {"absent", "purged"}

\* Types of an answer and of a call.
Replies ==
  [task : Tasks \cup {None}, status : Active \cup Final \cup {"none"},
   plan : Plans \cup {None}, proposal : Digests \cup {None}]

Stages == {"idle", "sent", "working", "saved", "answered", "asking", "told"}

CallRecords ==
  [at : Stages, task : Tasks \cup {None}, digest : Digests \cup {None}, answer : Replies]

\* A call that is about a task knows which.
Aimed(c) ==
  \/ call[c].at \in {"working", "saved", "asking", "told"}
  \/ call[c].at = "sent" /\ c \notin {"load", "submit"}
  => call[c].task \in Tasks

CallInv == call \in [Calls -> CallRecords] /\ \A c \in Calls : Aimed(c)

LifeTypes ==
  /\ status \in [Tasks -> Statuses]
  /\ plan \in [Tasks -> Plans \cup {None}]
  /\ proposal \in [Tasks -> Digests \cup {None}]
  /\ ticket \in [Tasks -> BOOLEAN]

ScreenTypes ==
  /\ result \in Replies
  /\ activePlan \in Plans \cup {None}
  /\ activeProp \in Digests \cup {None}
  /\ polling \in BOOLEAN
  /\ threads \subseteq Tasks
  /\ detours \in 0..MaxDetours
  /\ seen \subseteq Tasks \X Digests

TypeInv == CallInv /\ LifeTypes /\ ScreenTypes

-----------------------------------------------------------------------------
(* How a call changes *)

LEMMA NothingIsReply == Nothing \in Replies /\ Nothing.task = None
BY DEF Nothing, Answer, Replies

LEMMA RestingTypes == Resting \in CallRecords /\ Resting.at = "idle"
BY NothingIsReply DEF Resting, CallRecords, Stages

LEMMA AnswerTypes ==
  ASSUME NEW t \in Tasks \cup {None}, NEW u \in Active \cup Final \cup {"none"},
         NEW p \in Plans \cup {None}, NEW d \in Digests \cup {None}
  PROVE  Answer(t, u, p, d) \in Replies /\ Answer(t, u, p, d).task = t
BY DEF Answer, Replies

\* One call becomes another record.
Becomes(c, r) ==
  /\ call' = [call EXCEPT ![c] = r]
  /\ r \in CallRecords
  /\ \/ r.at \in {"working", "saved", "asking", "told"}
     \/ r.at = "sent" /\ c \notin {"load", "submit"}
     => r.task \in Tasks

LEMMA BecomesTyped ==
  ASSUME CallInv, NEW c \in Calls, NEW r, Becomes(c, r)
  PROVE  /\ CallInv' /\ call'[c] = r
         /\ \A v \in Calls \ {c} : call'[v] = call[v]
BY DEF CallInv, Becomes, Aimed

LEMMA Going ==
  ASSUME CallInv, NEW c \in Calls, NEW from, NEW to \in Stages, Goes(c, from, to),
         call[c].task \in Tasks
  PROVE  /\ CallInv' /\ call'[c].at = to /\ call'[c].task = call[c].task
         /\ call'[c].digest = call[c].digest
         /\ \A v \in Calls \ {c} : call'[v] = call[v]
<1> DEFINE r == [call[c] EXCEPT !.at = to]
<1>1. call' = [call EXCEPT ![c] = r] /\ call[c] \in CallRecords
  BY DEF Goes, CallInv
<1>2. r \in CallRecords /\ r.at = to /\ r.task = call[c].task /\ r.digest = call[c].digest
  BY <1>1 DEF CallRecords
<1> HIDE DEF r
<1>3. Becomes(c, r)
  BY <1>1, <1>2 DEF Becomes
<1> QED
  BY <1>2, <1>3, BecomesTyped

LEMMA Answering ==
  ASSUME CallInv, NEW c \in Calls, NEW from, NEW to \in {"answered", "told"}, NEW a \in Replies,
         a.task \in Tasks, Answers(c, from, to, a)
  PROVE  /\ CallInv' /\ call'[c].at = to
         /\ \A v \in Calls \ {c} : call'[v] = call[v]
<1> DEFINE r == [call[c] EXCEPT !.at = to, !.task = a.task, !.answer = a]
<1>1. call' = [call EXCEPT ![c] = r] /\ call[c] \in CallRecords
  BY DEF Answers, CallInv
<1> DEFINE t == a.task
<1>2. t \in Tasks
  OBVIOUS
<1> HIDE DEF t
<1>3. LET q == [call[c] EXCEPT !.at = to, !.task = t, !.answer = a]
      IN  q \in CallRecords /\ q.at = to /\ q.task = t
  BY <1>1, <1>2 DEF CallRecords, Stages
<1>4. r \in CallRecords /\ r.at = to /\ r.task = t
  BY <1>3 DEF t
<1> HIDE DEF r
<1>5. Becomes(c, r)
  BY <1>1, <1>2, <1>4 DEF Becomes
<1> QED
  BY <1>4, <1>5, BecomesTyped

LEMMA Returning ==
  ASSUME CallInv, NEW c \in Calls, NEW from, Returns(c, from)
  PROVE  /\ CallInv' /\ call'[c].at = "idle"
         /\ \A v \in Calls \ {c} : call'[v] = call[v]
<1>1. Becomes(c, Resting)
  BY RestingTypes DEF Returns, Becomes
<1> QED
  BY <1>1, RestingTypes, BecomesTyped

LEMMA Starting ==
  ASSUME CallInv, NEW c \in Calls, NEW at \in {"sent", "asking"}, NEW t \in Tasks,
         NEW d \in Digests \cup {None},
         call' = [call EXCEPT ![c] = [Resting EXCEPT !.at = at, !.task = t, !.digest = d]]
  PROVE  /\ CallInv' /\ call'[c].at = at /\ call'[c].task = t /\ call'[c].digest = d
         /\ \A v \in Calls \ {c} : call'[v] = call[v]
<1> DEFINE r == [Resting EXCEPT !.at = at, !.task = t, !.digest = d]
<1>1. r \in CallRecords /\ r.at = at /\ r.task = t /\ r.digest = d
  BY RestingTypes DEF CallRecords, Stages
<1> HIDE DEF r
<1>2. Becomes(c, r)
  BY <1>1 DEF Becomes, r
<1> QED
  BY <1>1, <1>2, BecomesTyped

\* A click of a button with a task on the screen.
LEMMA Clicking ==
  ASSUME TypeInv, NEW c \in Forms, NEW d \in Digests \cup {None}, Click(c, d)
  PROVE  /\ CallInv' /\ call'[c].at = "sent" /\ call'[c].task = result.task
         /\ call'[c].digest = d /\ result.task \in Tasks
         /\ \A v \in Calls \ {c} : call'[v] = call[v]
         /\ UNCHANGED <<life, screen, threads>> /\ call[c].at = "idle"
<1>1. c \in Calls /\ result.task \in Tasks
  BY DEF Calls, Click, TypeInv, ScreenTypes, Replies
<1> QED
  BY <1>1, Starting DEF Click, TypeInv, Busy

-----------------------------------------------------------------------------
(* What an approval rests on *)

\* The digest of an approval on its way was on the screen; a task that a thread
\* can take up with a ticket has a proposal that was, unless a newer one has been
\* saved and is about to be put to the user.
AskedSeen ==
  call["approve"].at = "sent" => <<call["approve"].task, call["approve"].digest>> \in seen

Takeable(t) ==
  t \in threads /\ ticket[t] /\ status[t] = "accepted"

Superseded(t) == \E c \in Calls : call[c].at = "saved" /\ call[c].task = t

TakeableSeen ==
  \A t \in AskTasks : Takeable(t) /\ ~Superseded(t) => <<t, proposal[t]>> \in seen

Threaded == \A t \in AskTasks : status[t] = "absent" => t \notin threads

SeenInv == AskedSeen /\ TakeableSeen /\ Threaded

Inv == TypeInv /\ SeenInv

LEMMA Names ==
  /\ Forms \cup {"other"} \subseteq Calls /\ Polls \subseteq Calls
  /\ \A c \in {"load", "submit", "draft", "propose", "approve", "cancel"} : c \in Calls
BY DEF Calls, Forms

\* Every step of the abstract life keeps its types.
LEMMA LifeTyped ==
  ASSUME LifeTypes, NEW t \in Tasks, LifeStep(t)
  PROVE  LifeTypes'
<1> USE DEF LifeTypes, Statuses, Turn
<1>1. CASE Submit(t) \/ Refuse(t)
  BY <1>1 DEF Submit, Refuse, Active, Final
<1>2. CASE Explore(t) \/ Publish(t) \/ Run(t)
  BY <1>2 DEF Explore, Publish, Run, Active
<1>3. CASE Resume(t) \/ Cancel(t) \/ Purge(t)
  BY <1>3 DEF Resume, Cancel, Purge, Active, Final
<1>4. CASE \E p \in Plans : Draft(t, p)
  BY <1>4 DEF Draft
<1>5. CASE \E d \in Digests : Offer(t, d) \/ Approve(t, d)
  BY <1>5 DEF Offer, Approve, Active
<1>6. CASE \E r \in Outcomes : Settle(t, r)
  BY <1>6 DEF Settle, Outcomes, Active, Final
<1> QED
  BY <1>1, <1>2, <1>3, <1>4, <1>5, <1>6 DEF LifeStep

\* A step after which nothing more can be taken up, in which no saved proposal
\* is forgotten and no approval sent, keeps SeenInv.
LEMMA Kept ==
  ASSUME Inv, seen \subseteq seen',
         call'["approve"].at = "sent" => call'["approve"] = call["approve"],
         \A t \in AskTasks :
           /\ Takeable(t)' => Takeable(t) /\ proposal'[t] = proposal[t]
           /\ status'[t] = "absent" => status[t] = "absent" /\ (t \in threads' => t \in threads),
         \A c \in Calls, t \in AskTasks :
           Takeable(t)' /\ call[c].at = "saved" /\ call[c].task = t => call'[c] = call[c]
  PROVE  SeenInv'
<1>1. AskedSeen'
  BY DEF Inv, SeenInv, AskedSeen
<1>2. Threaded'
  BY DEF Inv, SeenInv, Threaded
<1>3. ASSUME NEW t \in AskTasks, Takeable(t)', ~Superseded(t)'
      PROVE  <<t, proposal'[t]>> \in seen'
  <2>1. Takeable(t) /\ proposal'[t] = proposal[t]
    BY <1>3
  <2>2. ~Superseded(t)
    BY <1>3 DEF Superseded
  <2> QED
    BY <2>1, <2>2 DEF Inv, SeenInv, TakeableSeen
<1>4. TakeableSeen'
  BY <1>3 DEF TakeableSeen
<1> QED
  BY <1>1, <1>2, <1>4 DEF SeenInv

\* The form of it that most steps take: one call moves, and the engine does not.
LEMMA OneCallMoves ==
  ASSUME Inv, CallInv', UNCHANGED <<life, threads>>, seen \subseteq seen',
         NEW c \in Calls, \A v \in Calls \ {c} : call'[v] = call[v],
         call[c].at # "saved", call'[c].at = "sent" => c # "approve"
  PROVE  SeenInv' /\ LifeTypes'
<1>1. LifeTypes'
  BY DEF Inv, TypeInv, LifeTypes, life
<1>2. \A t \in AskTasks :
        /\ Takeable(t)' => Takeable(t) /\ proposal'[t] = proposal[t]
        /\ status'[t] = "absent" => status[t] = "absent" /\ (t \in threads' => t \in threads)
  BY DEF Takeable, life
<1>3. call'["approve"].at = "sent" => call'["approve"] = call["approve"]
  BY Names
<1>4. \A v \in Calls, t \in AskTasks :
        Takeable(t)' /\ call[v].at = "saved" /\ call[v].task = t => call'[v] = call[v]
  OBVIOUS
<1> QED
  BY <1>1, <1>2, <1>3, <1>4, Kept

-----------------------------------------------------------------------------
(* The buttons *)

LEMMA ReloadStep == Inv /\ ReloadClick => Inv'
<1> SUFFICES ASSUME Inv, ReloadClick PROVE Inv'
  OBVIOUS
<1> DEFINE r == [call["load"] EXCEPT !.at = "sent"]
<1>1. "load" \in Calls /\ call["load"] \in CallRecords /\ call["load"].at = "idle"
  BY Names DEF Inv, TypeInv, CallInv, ReloadClick, Busy
<1>2. r \in CallRecords /\ r.at = "sent"
  BY <1>1 DEF CallRecords, Stages
<1> HIDE DEF r
<1>3. Becomes("load", r)
  BY <1>2 DEF Becomes, ReloadClick, r
<1>4. /\ CallInv' /\ call'["load"].at = "sent"
      /\ \A v \in Calls \ {"load"} : call'[v] = call[v]
  BY <1>1, <1>2, <1>3, BecomesTyped DEF Inv, TypeInv
<1>5. SeenInv' /\ LifeTypes'
  BY <1>1, <1>4, OneCallMoves DEF ReloadClick
<1>6. ScreenTypes'
  BY ComposerAssumption DEF Inv, TypeInv, ScreenTypes, ReloadClick, Counted, screen
<1> QED
  BY <1>4, <1>5, <1>6 DEF Inv, TypeInv

LEMMA SubmitStep == Inv /\ SubmitClick => Inv'
<1> SUFFICES ASSUME Inv, SubmitClick PROVE Inv'
  OBVIOUS
<1> DEFINE r == [call["submit"] EXCEPT !.at = "sent"]
<1>1. "submit" \in Calls /\ call["submit"] \in CallRecords /\ call["submit"].at = "idle"
  BY Names DEF Inv, TypeInv, CallInv, SubmitClick, Busy
<1>2. r \in CallRecords /\ r.at = "sent"
  BY <1>1 DEF CallRecords, Stages
<1> HIDE DEF r
<1>3. Becomes("submit", r)
  BY <1>2 DEF Becomes, SubmitClick, r
<1>4. /\ CallInv' /\ call'["submit"].at = "sent"
      /\ \A v \in Calls \ {"submit"} : call'[v] = call[v]
  BY <1>1, <1>2, <1>3, BecomesTyped DEF Inv, TypeInv
<1>5. SeenInv' /\ LifeTypes'
  BY <1>1, <1>4, OneCallMoves DEF SubmitClick
<1>6. ScreenTypes'
  BY NothingIsReply DEF Inv, TypeInv, ScreenTypes, SubmitClick
<1> QED
  BY <1>4, <1>5, <1>6 DEF Inv, TypeInv

\* The buttons that send a request about the task on the screen, except approve.
LEMMA ClickStep == Inv /\ (DraftClick \/ ProposeClick \/ CancelClick) => Inv'
<1> SUFFICES ASSUME Inv, DraftClick \/ ProposeClick \/ CancelClick PROVE Inv'
  OBVIOUS
<1>1. PICK c \in {"draft", "propose", "cancel"} : Click(c, None)
  BY DEF DraftClick, ProposeClick, CancelClick
<1>2. c \in Calls /\ c \in Forms /\ c # "approve"
  BY Names DEF Forms
<1>3. /\ CallInv' /\ call'[c].at = "sent" /\ call[c].at = "idle"
      /\ \A v \in Calls \ {c} : call'[v] = call[v]
      /\ UNCHANGED <<life, screen, threads>>
  BY <1>1, <1>2, Clicking DEF Inv
<1>4. UNCHANGED seen /\ detours' \in 0..MaxDetours
  BY ComposerAssumption DEF DraftClick, ProposeClick, CancelClick, Counted, Inv, TypeInv, ScreenTypes
<1>5. SeenInv' /\ LifeTypes'
  BY <1>2, <1>3, <1>4, OneCallMoves
<1>6. ScreenTypes'
  BY <1>3, <1>4 DEF Inv, TypeInv, ScreenTypes, screen
<1> QED
  BY <1>3, <1>5, <1>6 DEF Inv, TypeInv

\* The digest that approve sends is the one that is marked as seen.
LEMMA ApproveClickStep == Inv /\ ApproveClick => Inv'
<1> SUFFICES ASSUME Inv, ApproveClick PROVE Inv'
  OBVIOUS
<1>1. ShownProposal \in Digests
  BY DEF ApproveClick, ShownProposal, Coalesce, Inv, TypeInv, ScreenTypes, Replies
<1>2. /\ CallInv' /\ call'["approve"].task = result.task
      /\ call'["approve"].digest = ShownProposal /\ result.task \in Tasks
      /\ \A v \in Calls \ {"approve"} : call'[v] = call[v]
      /\ UNCHANGED <<life, screen, threads>> /\ call["approve"].at = "idle"
  BY <1>1, Names, Clicking DEF Inv, ApproveClick, SentDigest, Forms
<1>3. seen' = seen \cup {<<result.task, ShownProposal>>} /\ UNCHANGED detours
  BY DEF ApproveClick
<1>4. ScreenTypes'
  BY <1>1, <1>2, <1>3 DEF Inv, TypeInv, ScreenTypes, screen
<1>5. LifeTypes'
  BY <1>2 DEF Inv, TypeInv, LifeTypes, life
<1>6. AskedSeen'
  BY <1>2, <1>3 DEF AskedSeen
<1>7. Threaded'
  BY <1>2 DEF Inv, SeenInv, Threaded, life
<1>8. ASSUME NEW t \in AskTasks, Takeable(t)', ~Superseded(t)'
      PROVE  <<t, proposal'[t]>> \in seen'
  <2>1. Takeable(t) /\ proposal'[t] = proposal[t]
    BY <1>2, <1>8 DEF Takeable, life
  <2>2. ~Superseded(t)
    BY <1>2, <1>8 DEF Superseded
  <2> QED
    BY <1>3, <2>1, <2>2 DEF Inv, SeenInv, TakeableSeen
<1>9. TakeableSeen'
  BY <1>8 DEF TakeableSeen
<1> QED
  BY <1>2, <1>4, <1>5, <1>6, <1>7, <1>9 DEF Inv, TypeInv, SeenInv

LEMMA OtherClickStep == ASSUME Inv, NEW t \in Tasks, OtherClick(t) PROVE Inv'
<1>1. call' = [call EXCEPT !["other"] = [Resting EXCEPT !.at = "sent", !.task = t]]
  BY DEF OtherClick
<1> DEFINE r == [Resting EXCEPT !.at = "sent", !.task = t]
<1>2. r \in CallRecords /\ r.at = "sent" /\ r.task = t
  BY RestingTypes DEF CallRecords, Stages
<1> HIDE DEF r
<1>3. "other" \in Calls /\ call["other"].at = "idle"
  BY Names DEF OtherClick, Busy
<1>4. Becomes("other", r)
  BY <1>1, <1>2 DEF Becomes, r
<1>5. /\ CallInv' /\ call'["other"].at = "sent"
      /\ \A v \in Calls \ {"other"} : call'[v] = call[v]
  BY <1>2, <1>3, <1>4, BecomesTyped DEF Inv, TypeInv
<1>6. SeenInv' /\ LifeTypes'
  BY <1>3, <1>5, OneCallMoves DEF OtherClick
<1>7. ScreenTypes'
  BY ComposerAssumption DEF Inv, TypeInv, ScreenTypes, OtherClick, Counted, screen
<1> QED
  BY <1>5, <1>6, <1>7 DEF Inv, TypeInv

LEMMA RefreshStep == ASSUME Inv, NEW q \in Polls, Refresh(q) PROVE Inv'
<1>1. q \in Calls /\ result.task \in Tasks /\ call[q].at = "idle"
  BY Names DEF Refresh, HasId, Busy, Inv, TypeInv, ScreenTypes, Replies
<1> DEFINE r == [Resting EXCEPT !.at = "asking", !.task = result.task]
<1>2. r \in CallRecords /\ r.at = "asking" /\ r.task = result.task
  BY <1>1, RestingTypes DEF CallRecords, Stages
<1> HIDE DEF r
<1>3. Becomes(q, r)
  BY <1>1, <1>2 DEF Becomes, Refresh, r
<1>4. /\ CallInv' /\ call'[q].at = "asking"
      /\ \A v \in Calls \ {q} : call'[v] = call[v]
  BY <1>1, <1>2, <1>3, BecomesTyped DEF Inv, TypeInv
<1>5. SeenInv' /\ LifeTypes'
  BY <1>1, <1>4, OneCallMoves DEF Refresh
<1>6. ScreenTypes'
  BY DEF Inv, TypeInv, ScreenTypes, Refresh, screen
<1> QED
  BY <1>4, <1>5, <1>6 DEF Inv, TypeInv

-----------------------------------------------------------------------------
(* Answers *)

\* A call that comes back, with whatever its function does to the screen.
LEMMA BackStep ==
  ASSUME Inv, NEW c \in Calls, NEW from \in {"answered", "told", "sent", "asking"},
         Returns(c, from), UNCHANGED <<life, threads, seen>>, ScreenTypes'
  PROVE  Inv'
<1>1. CallInv' /\ call'[c].at = "idle" /\ \A v \in Calls \ {c} : call'[v] = call[v]
  BY Returning DEF Inv, TypeInv
<1>2. call[c].at # "saved"
  BY DEF Returns
<1>3. SeenInv' /\ LifeTypes'
  BY <1>1, <1>2, OneCallMoves
<1> QED
  BY <1>1, <1>3 DEF Inv, TypeInv

LEMMA ScreenStepTyped == Inv /\ ScreenStep => Inv'
<1> SUFFICES ASSUME Inv, ScreenStep PROVE Inv'
  OBVIOUS
<1>1. \A c \in Calls : call[c].answer \in Replies
  BY DEF Inv, TypeInv, CallInv, CallRecords
<1>2. /\ "submit" \in Calls /\ "draft" \in Calls /\ "cancel" \in Calls
      /\ "load" \in Calls /\ "propose" \in Calls /\ "approve" \in Calls
  BY Names
<1> USE DEF Follow, Replies
<1>3. ScreenTypes /\ (result'.status \in Polled) \in BOOLEAN
  BY DEF Inv, TypeInv
<1>4. CASE SubmitReturns
  <2>1. ScreenTypes'
    BY <1>1, <1>2, <1>3, <1>4 DEF ScreenTypes, SubmitReturns
  <2> QED
    BY <1>2, <1>4, <2>1, BackStep DEF SubmitReturns
<1>5. CASE DraftReturns
  <2>1. ScreenTypes'
    BY <1>1, <1>2, <1>3, <1>5 DEF ScreenTypes, DraftReturns
  <2> QED
    BY <1>2, <1>5, <2>1, BackStep DEF DraftReturns
<1>6. CASE CancelReturns
  <2>1. ScreenTypes'
    BY <1>1, <1>2, <1>3, <1>6 DEF ScreenTypes, CancelReturns
  <2> QED
    BY <1>2, <1>6, <2>1, BackStep DEF CancelReturns
<1>7. CASE LoadReturns
  <2>1. ScreenTypes'
    BY <1>1, <1>2, <1>3, <1>7 DEF ScreenTypes, LoadReturns
  <2> QED
    BY <1>2, <1>7, <2>1, BackStep DEF LoadReturns
<1>8. CASE ProposeReturns
  <2>1. ScreenTypes'
    BY <1>1, <1>2, <1>3, <1>8 DEF ScreenTypes, ProposeReturns
  <2> QED
    BY <1>2, <1>8, <2>1, BackStep DEF ProposeReturns
<1>9. CASE ApproveReturns
  <2>1. ScreenTypes'
    BY <1>1, <1>2, <1>3, <1>9 DEF ScreenTypes, ApproveReturns
  <2> QED
    BY <1>2, <1>9, <2>1, BackStep DEF ApproveReturns
<1> QED
  BY <1>4, <1>5, <1>6, <1>7, <1>8, <1>9 DEF ScreenStep

LEMMA RefreshReturnsStep == ASSUME Inv, NEW q \in Polls, RefreshReturns(q) PROVE Inv'
<1>1. q \in Calls /\ call[q].answer \in Replies
  BY Names DEF Inv, TypeInv, CallInv, CallRecords
<1>2. ScreenTypes'
  BY <1>1 DEF RefreshReturns, FollowRefreshed, Follow, Coalesce, Replies, Inv, TypeInv, ScreenTypes
<1> QED
  BY <1>1, <1>2, BackStep DEF RefreshReturns

\* What the engine tells about a task that is there.
LEMMA TaskReadStep == ASSUME Inv, NEW c \in Calls, TaskRead(c) PROVE Inv'
<1> DEFINE t == call[c].task
           a == Answer(t, status[t], plan[t], proposal[t])
<1>1. call[c].at = "asking" /\ UNCHANGED <<life, screen, threads, detours, seen>>
  BY DEF TaskRead
<1>2. t \in Tasks
  BY <1>1 DEF Inv, TypeInv, CallInv, Aimed
<1>3. ScreenTypes'
  BY <1>1 DEF Inv, TypeInv, ScreenTypes, screen
<1>4. CASE status[t] \in {"absent", "purged"}
  BY <1>1, <1>3, <1>4, BackStep DEF TaskRead
<1>5. CASE status[t] \notin {"absent", "purged"}
  <2>1. /\ status[t] \in Active \cup Final \cup {"none"}
        /\ plan[t] \in Plans \cup {None} /\ proposal[t] \in Digests \cup {None}
    BY <1>2, <1>5 DEF Inv, TypeInv, LifeTypes, Statuses
  <2>2. a \in Replies /\ a.task = t
    BY <1>2, <2>1, AnswerTypes
  <2>3. Answers(c, "asking", "told", a)
    BY <1>5 DEF TaskRead
  <2> HIDE DEF a
  <2>4. CallInv' /\ call'[c].at = "told" /\ \A v \in Calls \ {c} : call'[v] = call[v]
    BY <1>2, <2>2, <2>3, Answering DEF Inv, TypeInv
  <2>5. SeenInv' /\ LifeTypes'
    BY <1>1, <2>4, OneCallMoves
  <2> QED
    BY <1>3, <2>4, <2>5 DEF Inv, TypeInv
<1> QED
  BY <1>4, <1>5

-----------------------------------------------------------------------------
(* Steps of the engine that leave the tasks alone *)

LEMMA ListStep == Inv /\ ListHandled => Inv'
<1> SUFFICES ASSUME Inv, ListHandled PROVE Inv'
  OBVIOUS
<1>1. /\ call["load"].at = "sent" /\ UNCHANGED <<life, screen, threads, detours, seen>>
      /\ "load" \in Calls
  BY Names DEF ListHandled
<1>2. ScreenTypes'
  BY <1>1 DEF Inv, TypeInv, ScreenTypes, screen
<1>3. CASE Returns("load", "sent")
  BY <1>1, <1>2, <1>3, BackStep
<1>4. ASSUME NEW t \in Tasks,
             call' = [call EXCEPT !["load"].at = "asking", !["load"].task = t]
      PROVE  Inv'
  <2> DEFINE r == [call["load"] EXCEPT !.at = "asking", !.task = t]
  <2>1. call["load"] \in CallRecords
    BY <1>1 DEF Inv, TypeInv, CallInv
  <2>2. r \in CallRecords /\ r.at = "asking" /\ r.task = t
    BY <2>1 DEF CallRecords, Stages
  <2> HIDE DEF r
  <2>3. Becomes("load", r)
    BY <1>4, <2>2 DEF Becomes, r
  <2>4. /\ CallInv' /\ call'["load"].at = "asking"
        /\ \A v \in Calls \ {"load"} : call'[v] = call[v]
    BY <1>1, <2>2, <2>3, BecomesTyped DEF Inv, TypeInv
  <2>5. SeenInv' /\ LifeTypes'
    BY <1>1, <2>4, OneCallMoves
  <2> QED
    BY <1>2, <2>4, <2>5 DEF Inv, TypeInv
<1> QED
  BY <1>3, <1>4 DEF ListHandled, Listed

LEMMA RejectedStep == ASSUME Inv, NEW c \in Calls, Rejected(c) PROVE Inv'
<1>1. Returns(c, "sent") /\ UNCHANGED <<life, screen, threads, detours, seen>>
  BY DEF Rejected
<1>2. ScreenTypes'
  BY <1>1 DEF Inv, TypeInv, ScreenTypes, screen
<1> QED
  BY <1>1, <1>2, BackStep

LEMMA DraftBeginsStep == Inv /\ DraftBegins => Inv'
<1> SUFFICES ASSUME Inv, DraftBegins PROVE Inv'
  OBVIOUS
<1>1. /\ call["draft"].at = "sent" /\ Goes("draft", "sent", "working")
      /\ UNCHANGED <<life, screen, threads, detours, seen>> /\ "draft" \in Calls
  BY Names DEF DraftBegins, Goes
<1>2. call["draft"].task \in Tasks
  BY <1>1 DEF Inv, TypeInv, CallInv, Aimed
<1>3. /\ CallInv' /\ call'["draft"].at = "working"
      /\ \A v \in Calls \ {"draft"} : call'[v] = call[v]
  BY <1>1, <1>2, Going DEF Inv, TypeInv, Stages
<1>4. SeenInv' /\ LifeTypes'
  BY <1>1, <1>3, OneCallMoves
<1>5. ScreenTypes'
  BY <1>1 DEF Inv, TypeInv, ScreenTypes, screen
<1> QED
  BY <1>3, <1>4, <1>5 DEF Inv, TypeInv

-----------------------------------------------------------------------------
(* Steps of the engine that change a task *)

\* A step of one task, beside which one call moves and none is sent.  If the task
\* can be taken up afterwards, it could before, with the same proposal.
LEMMA OneTaskMoves ==
  ASSUME Inv, CallInv', ScreenTypes', NEW t \in Tasks, LifeStep(t),
         NEW c \in Calls, \A v \in Calls \ {c} : call'[v] = call[v],
         call'[c] = call[c] \/ call'[c].at # "sent",
         call[c].at = "saved" /\ call'[c] # call[c]
           => status'[call[c].task] # "accepted",
         seen \subseteq seen',
         \A u \in AskTasks :
           /\ Takeable(u)' => Takeable(u) /\ proposal'[u] = proposal[u]
           /\ status'[u] = "absent" => status[u] = "absent" /\ (u \in threads' => u \in threads)
  PROVE  Inv'
<1>1. LifeTypes'
  BY LifeTyped DEF Inv, TypeInv
<1>2. call'["approve"].at = "sent" => call'["approve"] = call["approve"]
  BY Names
<1>3. \A v \in Calls, u \in AskTasks :
        Takeable(u)' /\ call[v].at = "saved" /\ call[v].task = u => call'[v] = call[v]
  BY DEF Takeable
<1>4. SeenInv'
  BY <1>2, <1>3, Kept
<1> QED
  BY <1>1, <1>4 DEF Inv, TypeInv

\* The tasks that nobody touched.
LEMMA TurnOthers ==
  ASSUME Inv, NEW t \in Tasks, NEW s, Turn(t, s)
  PROVE  status'[t] = s /\ \A u \in Tasks \ {t} : status'[u] = status[u]
BY DEF Turn, Inv, TypeInv, LifeTypes

LEMMA SubmitHandledStep == Inv /\ SubmitHandled => Inv'
<1> SUFFICES ASSUME Inv, SubmitHandled PROVE Inv'
  OBVIOUS
<1>1. PICK t \in Tasks :
        /\ \/ /\ Submit(t)
              /\ threads' = IF t \in AskTasks THEN threads ELSE threads \cup {t}
           \/ Refuse(t) /\ UNCHANGED threads
        /\ Answers("submit", "sent", "answered", Answer(t, status'[t], None, None))
        /\ UNCHANGED <<screen, detours, seen>>
  BY DEF SubmitHandled
<1>2. LifeStep(t) /\ UNCHANGED <<plan, proposal, ticket>> /\ "submit" \in Calls
  BY <1>1, Names DEF LifeStep, Submit, Refuse
<1>3. status[t] = "absent" /\ status'[t] \in {"accepted", "blocked"}
      /\ \A u \in Tasks \ {t} : status'[u] = status[u]
  BY <1>1, TurnOthers DEF Submit, Refuse
<1> DEFINE a == Answer(t, status'[t], None, None)
<1>4. a \in Replies /\ a.task = t
  BY <1>3, AnswerTypes DEF Active, Final
<1>5. Answers("submit", "sent", "answered", a)
  BY <1>1
<1> HIDE DEF a
<1>6. CallInv' /\ call'["submit"].at = "answered"
      /\ \A v \in Calls \ {"submit"} : call'[v] = call[v]
  BY <1>2, <1>4, <1>5, Answering DEF Inv, TypeInv
<1>7. ScreenTypes'
  BY <1>1 DEF Inv, TypeInv, ScreenTypes, screen
<1>8. \A u \in AskTasks :
        /\ Takeable(u)' => Takeable(u) /\ proposal'[u] = proposal[u]
        /\ status'[u] = "absent" => status[u] = "absent" /\ (u \in threads' => u \in threads)
  BY <1>1, <1>2, <1>3, LifeAssumption DEF Takeable, Inv, SeenInv, Threaded
<1>9. call["submit"].at # "saved" /\ UNCHANGED seen
  BY <1>1 DEF Answers
<1> QED
  BY <1>2, <1>6, <1>7, <1>8, <1>9, OneTaskMoves

LEMMA DraftHandledStep == Inv /\ DraftHandled => Inv'
<1> SUFFICES ASSUME Inv, DraftHandled PROVE Inv'
  OBVIOUS
<1> DEFINE t == call["draft"].task
<1>1. "draft" \in Calls /\ call["draft"].at = "working"
      /\ UNCHANGED <<screen, threads, detours, seen>>
  BY Names DEF DraftHandled, Answers, Returns
<1>2. t \in Tasks
  BY <1>1 DEF Inv, TypeInv, CallInv, Aimed
<1>3. ScreenTypes'
  BY <1>1 DEF Inv, TypeInv, ScreenTypes, screen
<1>4. ASSUME NEW p \in Plans, Answers("draft", "working", "answered", Answer(t, "none", p, None)),
             Draft(t, p)
      PROVE  Inv'
  <2> DEFINE a == Answer(t, "none", p, None)
  <2>1. a \in Replies /\ a.task = t
    BY <1>2, AnswerTypes
  <2> HIDE DEF a, t
  <2>2. Answers("draft", "working", "answered", a)
    BY <1>4 DEF a
  <2>3. CallInv' /\ call'["draft"].at = "answered"
        /\ \A v \in Calls \ {"draft"} : call'[v] = call[v]
    BY <1>1, <1>2, <2>1, <2>2, Answering DEF Inv, TypeInv
  <2>4. LifeStep(t) /\ UNCHANGED <<status, proposal, ticket>>
    BY <1>4 DEF LifeStep, Draft
  <2>5. \A u \in AskTasks :
          /\ Takeable(u)' => Takeable(u) /\ proposal'[u] = proposal[u]
          /\ status'[u] = "absent" => status[u] = "absent" /\ (u \in threads' => u \in threads)
    BY <1>1, <2>4 DEF Takeable
  <2> QED
    BY <1>1, <1>2, <1>3, <2>3, <2>4, <2>5, OneTaskMoves
<1>5. ASSUME Returns("draft", "working"), UNCHANGED life PROVE Inv'
  <2>1. CallInv' /\ call'["draft"].at = "idle"
        /\ \A v \in Calls \ {"draft"} : call'[v] = call[v]
    BY <1>1, <1>5, Returning DEF Inv, TypeInv
  <2>2. SeenInv' /\ LifeTypes'
    BY <1>1, <1>5, <2>1, OneCallMoves
  <2> QED
    BY <1>3, <2>1, <2>2 DEF Inv, TypeInv
<1> QED
  BY <1>4, <1>5 DEF DraftHandled

LEMMA ProposeBeginsStep == ASSUME Inv, NEW c \in Calls, ProposeBegins(c) PROVE Inv'
<1> DEFINE t == call[c].task
<1>1. /\ c \in {"propose", "other"} /\ Goes(c, "sent", "working") /\ call[c].at = "sent"
      /\ Explore(t) /\ UNCHANGED <<screen, threads, detours, seen>>
  BY DEF ProposeBegins, Goes
<1>2. t \in Tasks
  BY <1>1 DEF Inv, TypeInv, CallInv, Aimed
<1>3. CallInv' /\ call'[c].at = "working" /\ \A v \in Calls \ {c} : call'[v] = call[v]
  BY <1>1, <1>2, Going DEF Inv, TypeInv, Stages
<1>4. ScreenTypes'
  BY <1>1 DEF Inv, TypeInv, ScreenTypes, screen
<1> HIDE DEF t
<1>5. LifeStep(t) /\ UNCHANGED <<plan, proposal, ticket>> /\ status'[t] = "exploring"
      /\ \A u \in Tasks \ {t} : status'[u] = status[u]
  BY <1>1, <1>2, TurnOthers DEF LifeStep, Explore
<1>6. \A u \in AskTasks :
        /\ Takeable(u)' => Takeable(u) /\ proposal'[u] = proposal[u]
        /\ status'[u] = "absent" => status[u] = "absent" /\ (u \in threads' => u \in threads)
  BY <1>1, <1>2, <1>5, LifeAssumption DEF Takeable
<1> QED
  BY <1>1, <1>2, <1>3, <1>4, <1>5, <1>6, OneTaskMoves

\* A proposal is replaced under a task that can be taken up: its call is at
\* "saved" from now on, and the lock is kept until it is published.
LEMMA ProposalSavedStep == ASSUME Inv, NEW c \in Calls, ProposalSaved(c) PROVE Inv'
<1> DEFINE t == call[c].task
<1>1. /\ c \in {"propose", "other"} /\ LockFree /\ Goes(c, "working", "saved")
      /\ call[c].at = "working" /\ UNCHANGED <<screen, threads, detours, seen>>
      /\ \E d \in Digests : Offer(t, d)
  BY DEF ProposalSaved, Goes
<1>2. t \in Tasks
  BY <1>1 DEF Inv, TypeInv, CallInv, Aimed
<1>3. CallInv' /\ call'[c].at = "saved" /\ call'[c].task = t
      /\ \A v \in Calls \ {c} : call'[v] = call[v]
  BY <1>1, <1>2, Going DEF Inv, TypeInv, Stages
<1>4. ScreenTypes'
  BY <1>1 DEF Inv, TypeInv, ScreenTypes, screen
<1> HIDE DEF t
<1>5. LifeStep(t) /\ UNCHANGED <<status, plan, ticket>>
      /\ \A u \in Tasks \ {t} : proposal'[u] = proposal[u]
  BY <1>1, <1>2 DEF LifeStep, Offer, Inv, TypeInv, LifeTypes
<1>6. LifeTypes'
  BY <1>2, <1>5, LifeTyped DEF Inv, TypeInv
<1>7. AskedSeen' /\ Threaded'
  BY <1>1, <1>3, <1>5, Names DEF Inv, SeenInv, AskedSeen, Threaded
<1>8. ASSUME NEW u \in AskTasks, Takeable(u)', ~Superseded(u)'
      PROVE  <<u, proposal'[u]>> \in seen'
  <2>1. u # t
    BY <1>3, <1>8 DEF Superseded
  <2>2. Takeable(u) /\ proposal'[u] = proposal[u]
    BY <1>1, <1>5, <1>8, <2>1, LifeAssumption DEF Takeable
  <2>3. ~Superseded(u)
    BY <1>1 DEF LockFree, Superseded
  <2> QED
    BY <1>1, <2>2, <2>3 DEF Inv, SeenInv, TakeableSeen
<1>9. TakeableSeen'
  BY <1>8 DEF TakeableSeen
<1> QED
  BY <1>3, <1>4, <1>6, <1>7, <1>9 DEF Inv, TypeInv, SeenInv

\* A proposal that was saved is published, or its task is gone.
LEMMA ProposeHandledStep == ASSUME Inv, NEW c \in Calls, ProposeHandled(c) PROVE Inv'
<1> DEFINE t == call[c].task
           On(from) == IF c = "other" THEN Returns(c, from) ELSE Goes(c, from, "asking")
<1>1. /\ c \in {"propose", "other"} /\ call[c].at \in {"working", "saved"}
      /\ UNCHANGED <<screen, threads, detours, seen>>
  BY DEF ProposeHandled, Goes, Returns
<1>2. t \in Tasks
  BY <1>1 DEF Inv, TypeInv, CallInv, Aimed
<1>3. ScreenTypes'
  BY <1>1 DEF Inv, TypeInv, ScreenTypes, screen
<1>4. ASSUME NEW from, On(from) \/ Returns(c, from)
      PROVE  CallInv' /\ call'[c].at \in {"asking", "idle"}
             /\ \A v \in Calls \ {c} : call'[v] = call[v]
  <2>1. CASE Returns(c, from)
    BY <2>1, Returning DEF Inv, TypeInv
  <2>2. CASE Goes(c, from, "asking")
    BY <1>2, <2>2, Going DEF Inv, TypeInv, Stages
  <2> QED
    BY <1>4, <2>1, <2>2
<1>5. \/ On("saved") /\ Publish(t)
      \/ On("working") /\ Settle(t, "failed")
      \/ On("working") /\ status[t] = "canceled" /\ UNCHANGED life
      \/ (Returns(c, "saved") \/ Returns(c, "working")) /\ status[t] = "purged" /\ UNCHANGED life
  BY DEF ProposeHandled
<1>6. /\ CallInv' /\ call'[c].at \in {"asking", "idle"}
      /\ \A v \in Calls \ {c} : call'[v] = call[v]
  BY <1>4, <1>5
<1> HIDE DEF t, On
<1>7. CASE Publish(t) \/ Settle(t, "failed")
  <2>1. LifeStep(t) /\ UNCHANGED <<plan, proposal, ticket>>
    BY <1>7 DEF LifeStep, Publish, Settle, Outcomes
  <2>2. status'[t] \in {"waiting_for_approval", "failed"}
        /\ \A u \in Tasks \ {t} : status'[u] = status[u]
    BY <1>2, <1>7, TurnOthers DEF Publish, Settle
  <2>3. \A u \in AskTasks :
          /\ Takeable(u)' => Takeable(u) /\ proposal'[u] = proposal[u]
          /\ status'[u] = "absent" => status[u] = "absent" /\ (u \in threads' => u \in threads)
    BY <1>1, <1>2, <2>1, <2>2, LifeAssumption DEF Takeable
  <2>4. status'[call[c].task] # "accepted"
    BY <2>2 DEF t
  <2> QED
    BY <1>1, <1>2, <1>3, <1>6, <2>1, <2>3, <2>4, OneTaskMoves
<1>8. CASE UNCHANGED life /\ status[t] \in {"canceled", "purged"}
  <2>1. LifeTypes'
    BY <1>8 DEF Inv, TypeInv, LifeTypes, life
  <2>2. \A u \in AskTasks :
          /\ Takeable(u)' => Takeable(u) /\ proposal'[u] = proposal[u]
          /\ status'[u] = "absent" => status[u] = "absent" /\ (u \in threads' => u \in threads)
    BY <1>1, <1>8 DEF Takeable, life
  <2>3. \A v \in Calls, u \in AskTasks :
          Takeable(u)' /\ call[v].at = "saved" /\ call[v].task = u => call'[v] = call[v]
    BY <1>6, <1>8 DEF Takeable, life, t
  <2>4. call'["approve"].at = "sent" => call'["approve"] = call["approve"]
    BY <1>1, <1>6, Names
  <2>5. SeenInv'
    BY <1>1, <2>2, <2>3, <2>4, Kept
  <2> QED
    BY <1>3, <1>6, <2>1, <2>5 DEF Inv, TypeInv
<1> QED
  BY <1>5, <1>7, <1>8

\* The task becomes one that can be taken up, with the digest that was seen.
LEMMA ApproveHandledStep == Inv /\ ApproveHandled => Inv'
<1> SUFFICES ASSUME Inv, ApproveHandled PROVE Inv'
  OBVIOUS
<1> DEFINE t == call["approve"].task
           d == call["approve"].digest
<1>1. /\ LockFree /\ Goes("approve", "sent", "asking") /\ Approve(t, d)
      /\ call["approve"].at = "sent" /\ "approve" \in Calls
      /\ threads' = threads \cup {t} /\ UNCHANGED <<screen, detours, seen>>
  BY Names DEF ApproveHandled, Goes
<1>2. t \in Tasks /\ <<t, d>> \in seen
  BY <1>1 DEF Inv, TypeInv, CallInv, Aimed, SeenInv, AskedSeen
<1>3. CallInv' /\ call'["approve"].at = "asking"
      /\ \A v \in Calls \ {"approve"} : call'[v] = call[v]
  BY <1>1, <1>2, Going DEF Inv, TypeInv, Stages
<1>4. ScreenTypes'
  BY <1>1, <1>2 DEF Inv, TypeInv, ScreenTypes, screen
<1> HIDE DEF t, d
<1>5. proposal[t] = d /\ UNCHANGED <<plan, proposal>>
      /\ status' = [status EXCEPT ![t] = "accepted"]
      /\ ticket' = [ticket EXCEPT ![t] = TRUE]
  BY <1>1 DEF Approve, Turn
<1>6. LifeTypes'
  BY <1>2, <1>5 DEF Inv, TypeInv, LifeTypes, Statuses, Active
<1>7. AskedSeen'
  BY <1>3 DEF AskedSeen
<1>8. Threaded'
  BY <1>1, <1>2, <1>5, LifeAssumption DEF Inv, TypeInv, LifeTypes, SeenInv, Threaded
<1>9. ASSUME NEW u \in AskTasks, Takeable(u)'
      PROVE  <<u, proposal'[u]>> \in seen'
  <2>1. CASE u = t
    BY <1>1, <1>2, <1>5, <2>1
  <2>2. CASE u # t
    <3>1. Takeable(u)
      BY <1>1, <1>5, <1>9, <2>2, LifeAssumption DEF Takeable, Inv, TypeInv, LifeTypes
    <3>2. ~Superseded(u)
      BY <1>1 DEF LockFree, Superseded
    <3> QED
      BY <1>1, <1>5, <3>1, <3>2 DEF Inv, SeenInv, TakeableSeen
  <2> QED
    BY <2>1, <2>2
<1>10. TakeableSeen'
  BY <1>9 DEF TakeableSeen
<1> QED
  BY <1>3, <1>4, <1>6, <1>7, <1>8, <1>10 DEF Inv, TypeInv, SeenInv

LEMMA CancelHandledStep == Inv /\ CancelHandled => Inv'
<1> SUFFICES ASSUME Inv, CancelHandled PROVE Inv'
  OBVIOUS
<1> DEFINE t == call["cancel"].task
           a == Answer(t, "canceled", None, None)
<1>1. /\ Answers("cancel", "sent", "answered", a) /\ call["cancel"].at = "sent"
      /\ Cancel(t) /\ UNCHANGED <<screen, threads, detours, seen>> /\ "cancel" \in Calls
  BY Names DEF CancelHandled, Answers
<1>2. t \in Tasks
  BY <1>1 DEF Inv, TypeInv, CallInv, Aimed
<1>3. a \in Replies /\ a.task = t
  BY <1>2, AnswerTypes DEF Final
<1> HIDE DEF a, t
<1>4. CallInv' /\ call'["cancel"].at = "answered"
      /\ \A v \in Calls \ {"cancel"} : call'[v] = call[v]
  BY <1>1, <1>2, <1>3, Answering DEF Inv, TypeInv
<1>5. ScreenTypes'
  BY <1>1 DEF Inv, TypeInv, ScreenTypes, screen
<1>6. LifeStep(t) /\ UNCHANGED <<plan, proposal, ticket>> /\ status'[t] = "canceled"
      /\ \A u \in Tasks \ {t} : status'[u] = status[u]
  BY <1>1, <1>2, TurnOthers DEF LifeStep, Cancel
<1>7. \A u \in AskTasks :
        /\ Takeable(u)' => Takeable(u) /\ proposal'[u] = proposal[u]
        /\ status'[u] = "absent" => status[u] = "absent" /\ (u \in threads' => u \in threads)
  BY <1>1, <1>2, <1>6, LifeAssumption DEF Takeable
<1> QED
  BY <1>1, <1>2, <1>4, <1>5, <1>6, <1>7, OneTaskMoves

\* The threads and the history screen, which touch no call.
LEMMA TaskStep ==
  ASSUME Inv, NEW t \in Tasks, Execute(t) \/ RunEnds(t) \/ HistoryActs(t)
  PROVE  Inv'
<1>1. UNCHANGED <<screen, call, threads, seen>> /\ detours' \in 0..MaxDetours
  BY ComposerAssumption
  DEF Execute, RunEnds, HistoryActs, Counted, Inv, TypeInv, ScreenTypes
<1>2. Run(t) \/ (\E r \in {"completed", "failed"} : Settle(t, r)) \/ Cancel(t) \/ Purge(t)
  BY DEF Execute, RunEnds, HistoryActs
<1>3. LifeStep(t)
  BY <1>2 DEF LifeStep, Outcomes
<1>4. status'[t] \in {"running", "completed", "failed", "canceled", "purged"}
      /\ \A u \in Tasks \ {t} : status'[u] = status[u]
  BY <1>2, TurnOthers DEF Run, Settle, Cancel, Purge
<1>5. \A u \in Tasks \ {t} : ticket'[u] = ticket[u] /\ proposal'[u] = proposal[u]
  BY <1>2 DEF Run, Settle, Cancel, Purge, Inv, TypeInv, LifeTypes
<1>6. \A u \in AskTasks :
        /\ Takeable(u)' => Takeable(u) /\ proposal'[u] = proposal[u]
        /\ status'[u] = "absent" => status[u] = "absent" /\ (u \in threads' => u \in threads)
  BY <1>1, <1>4, <1>5, LifeAssumption DEF Takeable
<1>7. CallInv' /\ ScreenTypes'
  BY <1>1 DEF Inv, TypeInv, CallInv, Aimed, ScreenTypes, screen
<1>8. "load" \in Calls
  BY Names
<1> QED
  BY <1>1, <1>3, <1>6, <1>7, <1>8, OneTaskMoves

\* A restart forgets the threads, and with them everything that could be taken up.
LEMMA RestartStep == Inv /\ Restart => Inv'
<1> SUFFICES ASSUME Inv, Restart PROVE Inv'
  OBVIOUS
<1>1. /\ threads' = {} /\ UNCHANGED <<screen, seen>>
      /\ \A c \in Calls : call'[c] = Resting
           \/ (call'[c] = call[c] /\ call[c].at \notin {"sent", "working", "saved", "asking"})
  BY DEF Restart
<1>2. CallInv'
  <2>1. call' \in [Calls -> CallRecords]
    BY RestingTypes DEF Restart, Inv, TypeInv, CallInv
  <2>2. ASSUME NEW c \in Calls PROVE Aimed(c)'
    BY <1>1, RestingTypes DEF Aimed, Inv, TypeInv, CallInv
  <2> QED
    BY <2>1, <2>2 DEF CallInv
<1>3. LifeTypes'
  BY DEF Restart, Interrupt, Inv, TypeInv, LifeTypes, Statuses, Final
<1>4. ScreenTypes'
  BY <1>1, ComposerAssumption DEF Restart, Counted, Inv, TypeInv, ScreenTypes, screen
<1>5. AskedSeen' /\ TakeableSeen' /\ Threaded'
  BY <1>1, RestingTypes, Names DEF AskedSeen, TakeableSeen, Takeable, Threaded
<1> QED
  BY <1>2, <1>3, <1>4, <1>5 DEF Inv, TypeInv, SeenInv

-----------------------------------------------------------------------------
(* The specification *)

LEMMA InitInv == Init => Inv
<1> SUFFICES ASSUME Init PROVE Inv
  OBVIOUS
<1> USE ComposerAssumption, LifeAssumption DEF Init
<1>1. /\ call \in [Calls -> CallRecords]
      /\ \A c \in Calls : call[c].at \in {"idle", "sent"}
      /\ \A c \in Calls : call[c].at = "sent" => c = "load"
  BY RestingTypes DEF CallRecords, Stages
<1>2. CallInv
  BY <1>1 DEF CallInv, Aimed
<1>3. LifeTypes
  <2>1. status \in [Tasks -> Statuses]
    BY DEF Statuses, Active
  <2>2. Old # {} => (CHOOSE q \in Plans : TRUE) \in Plans
                    /\ (CHOOSE e \in Digests : TRUE) \in Digests
    OBVIOUS
  <2> QED
    BY <2>1, <2>2 DEF LifeTypes
<1>4. ScreenTypes
  <2>1. /\ result = Nothing /\ activePlan = None /\ activeProp = None /\ polling = FALSE
        /\ threads = {} /\ detours = 0 /\ seen = {}
    OBVIOUS
  <2>2. 0 \in 0..MaxDetours
    OBVIOUS
  <2> QED
    BY <2>1, <2>2, NothingIsReply, Zenon DEF ScreenTypes
<1>5. SeenInv
  BY <1>1, Names DEF SeenInv, AskedSeen, TakeableSeen, Takeable, Threaded
<1> QED
  BY <1>2, <1>3, <1>4, <1>5 DEF Inv, TypeInv

LEMMA NextInv == Inv /\ [Next]_vars => Inv'
<1> SUFFICES ASSUME Inv, [Next]_vars PROVE Inv'
  OBVIOUS
<1>1. CASE UserStep
  BY <1>1, ReloadStep, SubmitStep, ClickStep, ApproveClickStep, OtherClickStep, TaskStep
  DEF UserStep
<1>2. CASE EngineStep
  <2>1. CASE \/ SubmitHandled \/ ListHandled \/ DraftBegins \/ DraftHandled
             \/ ApproveHandled \/ CancelHandled
    BY <2>1, SubmitHandledStep, ListStep, DraftBeginsStep, DraftHandledStep,
       ApproveHandledStep, CancelHandledStep
  <2>2. CASE \E c \in Forms \cup {"other"} :
               \/ ProposeBegins(c) \/ ProposalSaved(c) \/ ProposeHandled(c)
               \/ Rejected(c) \/ TaskRead(c)
    BY <2>2, Names, ProposeBeginsStep, ProposalSavedStep, ProposeHandledStep, RejectedStep,
       TaskReadStep
  <2>3. CASE \E t \in Tasks : Execute(t) \/ RunEnds(t)
    BY <2>3, TaskStep
  <2> QED
    BY <1>2, <2>1, <2>2, <2>3 DEF EngineStep
<1>3. CASE ScreenStep
  BY <1>3, ScreenStepTyped
<1>4. CASE Restart
  BY <1>4, RestartStep
<1>5. CASE \E q \in Polls : Refresh(q) \/ PollStep(q)
  BY <1>5, Names, RefreshStep, RefreshReturnsStep, TaskReadStep DEF PollStep
<1>6. CASE UNCHANGED vars
  BY <1>6 DEF vars, life, screen, Inv, TypeInv, CallInv, Aimed, LifeTypes, ScreenTypes,
     SeenInv, AskedSeen, TakeableSeen, Takeable, Superseded, Threaded
<1> QED
  BY <1>1, <1>2, <1>3, <1>4, <1>5, <1>6 DEF Next

LEMMA InvHolds == Spec => []Inv
<1> QED
  BY InitInv, NextInv, PTL DEF Spec

\* What the screen, the calls under way and the history variables can be, however
\* many tasks, plans, polls and buttons there are.
THEOREM TypeCorrect == Spec => []TypeOK
<1>1. Inv => TypeOK
  BY DEF Inv, TypeInv, CallInv, Aimed, LifeTypes, ScreenTypes, TypeOK, CallRecords,
     Replies, Stages
<1> QED
  BY <1>1, InvHolds, PTL

\* Only the threads make a task run.
LEMMA OnlyExecuteRuns ==
  ASSUME Inv, Next, NEW t \in Tasks, status[t] # "running", status'[t] = "running"
  PROVE  Execute(t)
<1> USE DEF Inv, TypeInv, LifeTypes, Turn
<1>1. status' # status
  OBVIOUS
<1>2. CASE UserStep
  <2>1. PICK u \in Tasks : HistoryActs(u)
    BY <1>1, <1>2 DEF UserStep, ReloadClick, SubmitClick, DraftClick, ProposeClick,
       ApproveClick, CancelClick, OtherClick, Click, life
  <2> QED
    BY <2>1 DEF HistoryActs, Cancel, Purge
<1>3. CASE EngineStep
  <2>1. CASE SubmitHandled
    BY <2>1 DEF SubmitHandled, Submit, Refuse
  <2>2. CASE ListHandled \/ DraftBegins \/ DraftHandled
    BY <1>1, <2>2 DEF ListHandled, DraftBegins, DraftHandled, Draft, life
  <2>3. CASE ApproveHandled \/ CancelHandled
    BY <2>3 DEF ApproveHandled, CancelHandled, Approve, Cancel
  <2>4. CASE \E c \in Forms \cup {"other"} :
               \/ ProposeBegins(c) \/ ProposalSaved(c) \/ ProposeHandled(c)
    BY <1>1, <2>4 DEF ProposeBegins, ProposalSaved, ProposeHandled, Explore, Offer,
       Publish, Settle, life
  <2>5. CASE \E c \in Forms \cup {"other"} : Rejected(c) \/ TaskRead(c)
    BY <1>1, <2>5 DEF Rejected, TaskRead, life
  <2>6. CASE \E u \in Tasks : Execute(u) \/ RunEnds(u)
    <3>1. PICK u \in Tasks : Execute(u) \/ RunEnds(u)
      BY <2>6
    <3>2. CASE u = t
      BY <3>1, <3>2 DEF RunEnds, Settle
    <3>3. CASE u # t
      BY <3>1, <3>3 DEF Execute, RunEnds, Run, Settle
    <3> QED
      BY <3>2, <3>3
  <2> QED
    BY <1>3, <2>1, <2>2, <2>3, <2>4, <2>5, <2>6 DEF EngineStep
<1>4. CASE ScreenStep
  BY <1>1, <1>4 DEF ScreenStep, SubmitReturns, DraftReturns, CancelReturns, LoadReturns,
     ProposeReturns, ApproveReturns, life
<1>5. CASE Restart
  BY <1>5 DEF Restart, Interrupt
<1>6. CASE \E q \in Polls : Refresh(q) \/ PollStep(q)
  BY <1>1, <1>6 DEF Refresh, PollStep, TaskRead, RefreshReturns, life
<1> QED
  BY <1>2, <1>3, <1>4, <1>5, <1>6 DEF Next

\* A run that begins applies the proposal that was on the screen when the user
\* pressed "approve", for any number of tasks, proposals, windows' detours and
\* refreshes under way: a task that a thread can take up has been approved with the
\* digest that is still stored, or a newer proposal is being saved under the lock.
THEOREM RunsApplyWhatWasSeen == Spec => OnlySeenIsApplied
<1> DEFINE Applied ==
      \A t \in AskTasks : status[t] # "running" /\ status'[t] = "running" =>
        <<t, proposal[t]>> \in seen
<1>1. ASSUME Inv, [Next]_vars PROVE [Applied]_vars
  <2>1. CASE UNCHANGED vars
    BY <2>1
  <2>2. ASSUME Next, NEW t \in AskTasks, status[t] # "running", status'[t] = "running"
        PROVE  <<t, proposal[t]>> \in seen
    <3>1. Execute(t) /\ t \in Tasks
      BY <1>1, <2>2, LifeAssumption, OnlyExecuteRuns
    <3>2. Takeable(t)
      BY <2>2, <3>1 DEF Execute, Run, Takeable
    <3>3. ~Superseded(t)
      BY <3>1 DEF Execute, LockFree, Superseded
    <3> QED
      BY <1>1, <2>2, <3>2, <3>3 DEF Inv, SeenInv, TakeableSeen
  <2> QED
    BY <1>1, <2>1, <2>2
<1> QED
  BY <1>1, InvHolds, PTL DEF Spec, OnlySeenIsApplied

-----------------------------------------------------------------------------
(* The life of the tasks *)

\* What the user, the client and a restart do to the tasks of the engine.
LEMMA UserLives == ASSUME Inv, UserStep PROVE [LifeNext]_life
<1>1. CASE ReloadClick \/ SubmitClick \/ DraftClick \/ ProposeClick \/ ApproveClick \/ CancelClick
  BY <1>1 DEF ReloadClick, SubmitClick, DraftClick, ProposeClick, ApproveClick, CancelClick, Click
<1>2. CASE \E t \in Tasks : HistoryActs(t) \/ OtherClick(t)
  BY <1>2 DEF HistoryActs, OtherClick, LifeNext, LifeStep
<1> QED
  BY <1>1, <1>2 DEF UserStep

\* A propose under way is about a task, whichever window sent it.
LEMMA ProposeLives ==
  ASSUME Inv, NEW c \in Calls, ProposeBegins(c) \/ ProposalSaved(c) \/ ProposeHandled(c)
  PROVE  [LifeNext]_life
<1>1. c \in {"propose", "other"} /\ call[c].at \in {"sent", "working", "saved"}
  BY DEF ProposeBegins, ProposalSaved, ProposeHandled, Goes, Returns
<1>2. call[c].task \in Tasks
  BY <1>1 DEF Inv, TypeInv, CallInv, Aimed
<1>3. CASE ProposeBegins(c)
  BY <1>2, <1>3 DEF ProposeBegins, LifeNext, LifeStep
<1>4. CASE ProposalSaved(c)
  BY <1>2, <1>4 DEF ProposalSaved, LifeNext, LifeStep
<1>5. CASE ProposeHandled(c)
  <2>1. Publish(call[c].task) \/ Settle(call[c].task, "failed") \/ UNCHANGED life
    BY <1>5 DEF ProposeHandled
  <2> QED
    BY <1>2, <2>1 DEF LifeNext, LifeStep, Outcomes
<1> QED
  BY <1>3, <1>4, <1>5

LEMMA EngineLives == ASSUME Inv, EngineStep PROVE [LifeNext]_life
<1> USE DEF Inv, TypeInv, CallInv, Aimed
<1>1. CASE SubmitHandled
  BY <1>1 DEF SubmitHandled, LifeNext, LifeStep
<1>2. CASE ListHandled \/ DraftBegins
  BY <1>2 DEF ListHandled, DraftBegins
<1>3. CASE DraftHandled
  <2>1. CASE UNCHANGED life
    BY <2>1
  <2>2. CASE call["draft"].at = "working" /\ \E p \in Plans : Draft(call["draft"].task, p)
    BY <2>2, Names DEF LifeNext, LifeStep
  <2> QED
    BY <1>3, <2>1, <2>2 DEF DraftHandled, Answers
<1>4. CASE ApproveHandled
  <2>1. "approve" \in Calls /\ call["approve"].at = "sent"
        /\ Approve(call["approve"].task, call["approve"].digest)
    BY <1>4, Names DEF ApproveHandled, Goes
  <2>2. call["approve"].task \in Tasks
    BY <2>1
  <2>3. call["approve"].digest \in Digests
    BY <2>1, <2>2 DEF SeenInv, AskedSeen, ScreenTypes
  <2> QED
    BY <2>1, <2>2, <2>3 DEF LifeNext, LifeStep
<1>5. CASE CancelHandled
  BY <1>5, Names DEF CancelHandled, Answers, LifeNext, LifeStep
<1>6. CASE \E c \in Forms \cup {"other"} :
             ProposeBegins(c) \/ ProposalSaved(c) \/ ProposeHandled(c)
  BY <1>6, Names, ProposeLives
<1>7. CASE \E c \in Forms \cup {"other"} : Rejected(c) \/ TaskRead(c)
  BY <1>7 DEF Rejected, TaskRead
<1>8. CASE \E t \in Tasks : Execute(t) \/ RunEnds(t)
  BY <1>8 DEF Execute, RunEnds, LifeNext, LifeStep, Outcomes
<1> QED
  BY <1>1, <1>2, <1>3, <1>4, <1>5, <1>6, <1>7, <1>8 DEF EngineStep

\* Whatever the composer, a second window, the history screen and a restart do to
\* the engine, and in whatever order their requests come in, the tasks live by
\* TaskLife, the life that the engine's threads implement: what is proved of its
\* steps is true of a task that a client steers.
TasksLive == [][LifeNext]_life

THEOREM TasksLiveByTaskLife == Spec => TasksLive
<1>1. Inv /\ [Next]_vars => [LifeNext]_life
  <2> SUFFICES ASSUME Inv, [Next]_vars PROVE [LifeNext]_life
    OBVIOUS
  <2>1. CASE ScreenStep
    BY <2>1 DEF ScreenStep, SubmitReturns, DraftReturns, CancelReturns, LoadReturns,
       ProposeReturns, ApproveReturns
  <2>2. CASE Restart
    BY <2>2 DEF Restart, LifeNext
  <2>3. CASE \E q \in Polls : Refresh(q) \/ PollStep(q)
    BY <2>3 DEF Refresh, PollStep, TaskRead, RefreshReturns
  <2>4. CASE UNCHANGED vars
    BY <2>4 DEF vars
  <2> QED
    BY <2>1, <2>2, <2>3, <2>4, UserLives, EngineLives DEF Next
<1> QED
  BY <1>1, InvHolds, PTL DEF Spec, TasksLive

-----------------------------------------------------------------------------
(* The timer *)

\* The engine answers a cancel with the status it has written.
CancelSaid == call["cancel"].at = "answered" => call["cancel"].answer.status = "canceled"

LEMMA CancelStep == Inv /\ CancelSaid /\ [Next]_vars => CancelSaid'
<1> SUFFICES ASSUME Inv, CancelSaid, [Next]_vars PROVE CancelSaid'
  OBVIOUS
<1>t. /\ call \in [Calls -> CallRecords]
      /\ \A c \in {"load", "submit", "draft", "propose", "approve", "cancel", "other"} : c \in Calls
      /\ Polls \subseteq Calls
  BY Names DEF Inv, TypeInv, CallInv
<1>k. ASSUME call'["cancel"] = call["cancel"] \/ call'["cancel"].at # "answered"
      PROVE  CancelSaid'
  BY <1>k DEF CancelSaid
<1>1. CASE UserStep
  <2>1. CASE ReloadClick \/ SubmitClick
    BY <1>k, <1>t, <2>1 DEF ReloadClick, SubmitClick
  <2>2. ASSUME NEW c \in {"draft", "propose", "approve", "cancel"}, NEW d, Click(c, d)
        PROVE  CancelSaid'
    <3>1. call' = [call EXCEPT ![c] = [Resting EXCEPT !.at = "sent", !.task = result.task,
                                                      !.digest = d]]
      BY <2>2 DEF Click
    <3>2. [Resting EXCEPT !.at = "sent", !.task = result.task, !.digest = d].at = "sent"
      BY DEF Resting
    <3> QED
      BY <1>k, <1>t, <3>1, <3>2
  <2>3. CASE DraftClick \/ ProposeClick \/ ApproveClick \/ CancelClick
    BY <2>2, <2>3 DEF DraftClick, ProposeClick, ApproveClick, CancelClick
  <2>4. CASE \E t \in Tasks : HistoryActs(t) \/ OtherClick(t)
    BY <1>k, <1>t, <2>4 DEF HistoryActs, OtherClick
  <2> QED
    BY <1>1, <2>1, <2>3, <2>4 DEF UserStep
<1>g. ASSUME NEW c \in Calls, NEW from, NEW to, to # "answered", Goes(c, from, to)
      PROVE  CancelSaid'
  BY <1>g, <1>k, <1>t DEF Goes, CallRecords
<1>r. ASSUME NEW c \in Calls, NEW from, Returns(c, from) PROVE CancelSaid'
  BY <1>r, <1>k, <1>t, RestingTypes DEF Returns
<1>a. ASSUME NEW c \in Calls, NEW from, NEW to, NEW a, Answers(c, from, to, a),
             c # "cancel" \/ to # "answered"
      PROVE  CancelSaid'
  BY <1>a, <1>k, <1>t DEF Answers, CallRecords
<1>2. CASE EngineStep
  <2>1. CASE CancelHandled
    <3>1. call'["cancel"].answer = Answer(call["cancel"].task, "canceled", None, None)
      BY <1>t, <2>1 DEF CancelHandled, Answers, CallRecords
    <3> QED
      BY <3>1 DEF CancelSaid, Answer
  <2>2. CASE SubmitHandled \/ DraftBegins \/ DraftHandled \/ ApproveHandled
    BY <1>t, <1>a, <1>g, <1>r, <2>2 DEF SubmitHandled, DraftBegins, DraftHandled, ApproveHandled
  <2>3. CASE ListHandled
    BY <1>t, <1>k, <1>r, <2>3 DEF ListHandled
  <2>4. CASE \E c \in Forms \cup {"other"} :
               ProposeBegins(c) \/ ProposalSaved(c) \/ ProposeHandled(c)
    BY <1>t, <1>g, <1>r, <2>4 DEF ProposeBegins, ProposalSaved, ProposeHandled, Forms
  <2>5. CASE \E c \in Forms \cup {"other"} : Rejected(c) \/ TaskRead(c)
    BY <1>t, <1>a, <1>r, <2>5 DEF Rejected, TaskRead, Forms
  <2>6. CASE \E t \in Tasks : Execute(t) \/ RunEnds(t)
    BY <1>k, <2>6 DEF Execute, RunEnds
  <2> QED
    BY <1>2, <2>1, <2>2, <2>3, <2>4, <2>5, <2>6 DEF EngineStep
<1>3. CASE ScreenStep
  BY <1>3, <1>t, <1>r DEF ScreenStep, SubmitReturns, DraftReturns, CancelReturns, LoadReturns,
     ProposeReturns, ApproveReturns
<1>4. CASE Restart
  BY <1>4, <1>t, <1>k, RestingTypes DEF Restart
<1>5. CASE \E q \in Polls : Refresh(q) \/ PollStep(q)
  <2>1. ASSUME NEW q \in Polls, Refresh(q) PROVE CancelSaid'
    <3>1. [Resting EXCEPT !.at = "asking", !.task = result.task].at = "asking"
      BY DEF Resting
    <3> QED
      BY <1>k, <1>t, <2>1, <3>1 DEF Refresh
  <2>2. ASSUME NEW q \in Polls, PollStep(q) PROVE CancelSaid'
    BY <1>t, <1>a, <1>r, <2>2 DEF PollStep, TaskRead, RefreshReturns
  <2> QED
    BY <1>5, <2>1, <2>2
<1>6. CASE UNCHANGED vars
  BY <1>6, <1>k DEF vars
<1> QED
  BY <1>1, <1>2, <1>3, <1>4, <1>5, <1>6 DEF Next

\* The safety half of RestIsShown: a screen never shows a task as active without the
\* timer that would find out that it is not, whichever answer came last: one that
\* overtook a later one, a refresh that was asked before the timer stopped, an
\* answer about another task, or the first one after a restart of the engine.
ActiveIsPolled == result.status \in Active => polling

LEMMA TimerStep == CancelSaid /\ ActiveIsPolled /\ [Next]_vars => ActiveIsPolled'
<1> SUFFICES ASSUME CancelSaid, ActiveIsPolled, [Next]_vars PROVE ActiveIsPolled'
  OBVIOUS
<1> USE DEF ActiveIsPolled
<1>1. CASE UserStep
  <2>1. CASE SubmitClick
    BY <2>1 DEF SubmitClick, Nothing, Answer, Active
  <2>2. CASE UNCHANGED screen
    BY <2>2 DEF screen
  <2>3. SubmitClick \/ UNCHANGED screen
    BY <1>1 DEF UserStep, ReloadClick, DraftClick, ProposeClick, ApproveClick, CancelClick,
       HistoryActs, OtherClick, Click
  <2> QED
    BY <2>1, <2>2, <2>3
<1>2. CASE EngineStep \/ Restart
  <2>1. UNCHANGED screen
    BY <1>2 DEF EngineStep, SubmitHandled, ListHandled, DraftBegins, DraftHandled,
       ApproveHandled, CancelHandled, ProposeBegins, ProposalSaved, ProposeHandled,
       Rejected, TaskRead, Execute, RunEnds, Restart
  <2> QED
    BY <2>1 DEF screen
<1>3. CASE \E q \in Polls : Refresh(q) \/ TaskRead(q)
  BY <1>3 DEF Refresh, TaskRead, screen
<1>4. ASSUME Follow PROVE ActiveIsPolled'
  BY <1>4 DEF Follow, Polled
<1>5. CASE DraftReturns
  BY <1>5 DEF DraftReturns
<1>6. CASE CancelReturns
  BY <1>6 DEF CancelReturns, Returns, CancelSaid, Active
<1>7. CASE SubmitReturns \/ LoadReturns \/ ProposeReturns \/ ApproveReturns
  BY <1>4, <1>7 DEF SubmitReturns, LoadReturns, ProposeReturns, ApproveReturns
<1>8. CASE \E q \in Polls : RefreshReturns(q)
  BY <1>4, <1>8 DEF RefreshReturns, FollowRefreshed
<1>9. CASE UNCHANGED vars
  BY <1>9 DEF vars, screen
<1> QED
  BY <1>1, <1>2, <1>3, <1>5, <1>6, <1>7, <1>8, <1>9 DEF Next, ScreenStep, PollStep

\* An active task on the screen is looked after, for any tasks, buttons, refreshes
\* under way and detours.
THEOREM ActiveTasksArePolled == Spec => []ActiveIsPolled
<1>1. Init => CancelSaid /\ ActiveIsPolled
  BY Names DEF Init, CancelSaid, ActiveIsPolled, Nothing, Answer, Resting, Active
<1>2. Inv /\ CancelSaid /\ ActiveIsPolled /\ [Next]_vars => (CancelSaid /\ ActiveIsPolled)'
  BY CancelStep, TimerStep
<1> QED
  BY <1>1, <1>2, InvHolds, PTL DEF Spec

-----------------------------------------------------------------------------
(* What a waiting task is shown as *)

\* A call whose answer does not keep the proposal it comes with, or keeps none.
OneShot == {"submit", "approve"}

Waits(t) == status[t] = "waiting_for_approval"

\* An answer with what the engine accepts.
Right(t, a) == a.status = "waiting_for_approval" /\ a.proposal = proposal[t]

\* The calls that can still bring the screen something else about the task.
LateFor(t, c) ==
  /\ c # "draft"
  /\ \/ c \in OneShot /\ call[c].at = "asking" /\ call[c].task = t
     \/ /\ call[c].at \in {"answered", "told"} /\ call[c].answer.task = t
        /\ c \in OneShot \/ ~Right(t, call[c].answer)

Late(t) == {c \in Calls : LateFor(t, c)}

\* A screen that shows the task as active shows what the engine accepts.
Shows(t) ==
  result.task = t /\ result.status \in Active =>
    result.status = "waiting_for_approval" /\ ShownProposal = proposal[t]

\* The engine leaves the task waiting, with its proposal.
StaysWaiting(t) == Waits(t) /\ Waits(t)' /\ proposal'[t] = proposal[t]

\* The safety half of WaitingIsApprovable: while a task waits, no new answer about
\* it is wrong and a wrong one is gone once it has come; with none left, the next
\* refresh shows what the engine accepts, and no answer, click or restart undoes it.
ScreenSettles ==
  [][\A t \in Tasks : StaysWaiting(t) =>
       /\ Late(t)' \subseteq Late(t)
       /\ \A c \in Late(t) : call[c].at # "asking" /\ call'[c] # call[c] => c \notin Late(t)'
       /\ Late(t) = {} /\ Shows(t) => Shows(t)'
       /\ Late(t) = {} => \A q \in Polls :
            RefreshReturns(q) /\ call[q].answer.task = t => Shows(t)']_vars

\* A task waits for an approval of something.
WaitingInv == \A t \in Tasks : Waits(t) => proposal[t] # None

LEMMA InitWaiting == Init => WaitingInv
<1> SUFFICES ASSUME Init, NEW t \in Tasks, Waits(t) PROVE proposal[t] # None
  BY DEF WaitingInv
<1>1. t \in Old
  BY DEF Init, Waits
<1>2. proposal[t] = CHOOSE e \in Digests : TRUE
  BY <1>1 DEF Init
<1> QED
  BY <1>1, <1>2, LifeAssumption, ComposerAssumption

LEMMA WaitingStep == Inv /\ WaitingInv /\ [LifeNext]_life => WaitingInv'
<1> SUFFICES ASSUME Inv, WaitingInv, [LifeNext]_life, NEW t \in Tasks, Waits(t)'
             PROVE  proposal'[t] # None
  BY DEF WaitingInv
<1>t. status \in [Tasks -> Statuses] /\ proposal \in [Tasks -> Digests \cup {None}]
  BY DEF Inv, TypeInv, LifeTypes
<1>1. CASE UNCHANGED life
  BY <1>1 DEF life, WaitingInv, Waits
<1>2. CASE Interrupt
  BY <1>2, <1>t DEF Interrupt, WaitingInv, Waits
<1>3. ASSUME NEW u \in Tasks, LifeStep(u) PROVE proposal'[t] # None
  <2> USE DEF WaitingInv, Waits, Turn
  <2>1. CASE Submit(u) \/ Refuse(u) \/ Explore(u) \/ Publish(u) \/ Run(u)
    BY <1>t, <2>1 DEF Submit, Refuse, Explore, Publish, Run
  <2>2. CASE Resume(u) \/ Cancel(u) \/ Purge(u)
    BY <1>t, <2>2 DEF Resume, Cancel, Purge
  <2>3. CASE \E p \in Plans : Draft(u, p)
    BY <1>t, <2>3 DEF Draft
  <2>4. CASE \E d \in Digests : Offer(u, d) \/ Approve(u, d)
    BY <1>t, <2>4, LifeAssumption DEF Offer, Approve
  <2>5. CASE \E r \in Outcomes : Settle(u, r)
    BY <1>t, <2>5 DEF Settle, Outcomes
  <2> QED
    BY <1>3, <2>1, <2>2, <2>3, <2>4, <2>5 DEF LifeStep
<1> QED
  BY <1>1, <1>2, <1>3 DEF LifeNext

\* What a step may do to a call while task t waits: leave it, end it or take it
\* on, or answer it with the truth about t.
Calm(t, c) ==
  \/ c = "draft"
  \/ call'[c] = call[c]
  \/ call'[c].at \notin {"asking", "answered", "told"}
  \/ call'[c].at = "asking" /\ (c \in OneShot => call'[c].task # t)
  \/ call'[c].at = "answered" /\ call'[c].answer.task # t
  \/ /\ call[c].at = "asking" /\ call'[c].at = "told"
     /\ call'[c].answer.task = call[c].task
     /\ call[c].task = t => Right(t, call'[c].answer)

LEMMA CalmIsEnough ==
  ASSUME NEW t \in Tasks, StaysWaiting(t), NEW c \in Calls, Calm(t, c), LateFor(t, c)'
  PROVE  LateFor(t, c) /\ (call'[c] = call[c] \/ call[c].at = "asking")
BY DEF StaysWaiting, Calm, LateFor, Right, OneShot

LEMMA CalmUser == ASSUME Inv, NEW t \in Tasks, StaysWaiting(t), UserStep
                  PROVE  \A c \in Calls : Calm(t, c)
<1>t. call \in [Calls -> CallRecords] /\ Resting \in CallRecords
  BY RestingTypes DEF Inv, TypeInv, CallInv
<1>1. CASE ReloadClick \/ SubmitClick
  BY <1>1, <1>t DEF ReloadClick, SubmitClick, Calm, CallRecords
<1>2. ASSUME NEW f \in Calls, NEW u, NEW d,
             call' = [call EXCEPT ![f] = [Resting EXCEPT !.at = "sent", !.task = u, !.digest = d]]
      PROVE  \A c \in Calls : Calm(t, c)
  <2>1. [Resting EXCEPT !.at = "sent", !.task = u, !.digest = d].at = "sent"
    BY DEF Resting
  <2> QED
    BY <1>2, <1>t, <2>1 DEF Calm
<1>3. CASE DraftClick \/ ProposeClick \/ ApproveClick \/ CancelClick
  BY <1>2, <1>3, Names DEF DraftClick, ProposeClick, ApproveClick, CancelClick, Click
<1>4. ASSUME NEW u \in Tasks, HistoryActs(u) \/ OtherClick(u) PROVE \A c \in Calls : Calm(t, c)
  <2>1. CASE HistoryActs(u)
    BY <2>1 DEF HistoryActs, Calm
  <2>2. CASE OtherClick(u)
    <3>1. [Resting EXCEPT !.at = "sent", !.task = u].at = "sent"
      BY DEF Resting
    <3> QED
      BY <2>2, <1>t, <3>1 DEF OtherClick, Calm
  <2> QED
    BY <1>4, <2>1, <2>2
<1> QED
  BY <1>1, <1>3, <1>4 DEF UserStep

\* A read of task t answers with its rows.
LEMMA CalmRead == ASSUME Inv, NEW t \in Tasks, StaysWaiting(t), NEW r \in Calls, TaskRead(r)
                  PROVE  \A c \in Calls : Calm(t, c)
<1>t. call \in [Calls -> CallRecords] /\ Resting.at = "idle"
  BY RestingTypes DEF Inv, TypeInv, CallInv
<1>1. CASE Returns(r, "asking")
  BY <1>1, <1>t DEF Returns, Calm
<1>2. CASE Answers(r, "asking", "told", Answer(call[r].task, status[call[r].task],
                                               plan[call[r].task], proposal[call[r].task]))
  <2>1. /\ call[r].at = "asking" /\ call'[r].at = "told"
        /\ call'[r].answer = Answer(call[r].task, status[call[r].task],
                                    plan[call[r].task], proposal[call[r].task])
        /\ \A c \in Calls \ {r} : call'[c] = call[c]
    BY <1>2, <1>t DEF Answers, CallRecords
  <2> QED
    BY <2>1 DEF Calm, Answer, Right, StaysWaiting, Waits
<1> QED
  BY <1>1, <1>2 DEF TaskRead

LEMMA CalmEngine == ASSUME Inv, NEW t \in Tasks, StaysWaiting(t), EngineStep
                    PROVE  \A c \in Calls : Calm(t, c)
<1>t. /\ call \in [Calls -> CallRecords] /\ Resting.at = "idle"
      /\ status \in [Tasks -> Statuses]
  BY RestingTypes DEF Inv, TypeInv, CallInv, LifeTypes
<1>w. status[t] = "waiting_for_approval" /\ status'[t] = "waiting_for_approval"
  BY DEF StaysWaiting, Waits
<1>a. ASSUME NEW f \in Calls, NEW from, NEW a, a.task # t, Answers(f, from, "answered", a)
      PROVE  \A c \in Calls : Calm(t, c)
  <2>1. /\ call'[f].at = "answered" /\ call'[f].answer = a
        /\ \A c \in Calls \ {f} : call'[c] = call[c]
    BY <1>a, <1>t DEF Answers, CallRecords
  <2> QED
    BY <1>a, <2>1 DEF Calm
<1>g. ASSUME NEW f \in Calls, NEW from, NEW to, Goes(f, from, to),
             to \in {"working", "saved", "asking"},
             to = "asking" /\ f \in OneShot => call[f].task # t
      PROVE  \A c \in Calls : Calm(t, c)
  <2>1. /\ call'[f].at = to /\ call'[f].task = call[f].task
        /\ \A c \in Calls \ {f} : call'[c] = call[c]
    BY <1>g, <1>t DEF Goes, CallRecords
  <2> QED
    BY <1>g, <2>1 DEF Calm
<1>r. ASSUME NEW f \in Calls, NEW from, Returns(f, from) PROVE \A c \in Calls : Calm(t, c)
  BY <1>r, <1>t DEF Returns, Calm
<1>1. CASE SubmitHandled
  <2>1. PICK u \in Tasks : status[u] = "absent" /\
          Answers("submit", "sent", "answered", Answer(u, status'[u], None, None))
    BY <1>1 DEF SubmitHandled, NextTask
  <2> QED
    BY <1>a, <1>w, <2>1, Names DEF Answer
<1>2. CASE ListHandled
  <2>1. CASE Returns("load", "sent")
    BY <1>r, <2>1, Names
  <2>2. ASSUME NEW u, call' = [call EXCEPT !["load"].at = "asking", !["load"].task = u]
        PROVE  \A c \in Calls : Calm(t, c)
    BY <1>t, <2>2 DEF Calm, CallRecords, OneShot
  <2> QED
    BY <1>2, <2>1, <2>2 DEF ListHandled
<1>3. CASE DraftBegins
  <2>1. "draft" \in Calls /\ call' = [call EXCEPT !["draft"].at = "working"]
    BY <1>3, Names DEF DraftBegins, Goes
  <2> QED
    BY <1>t, <2>1 DEF Calm
<1>4. CASE DraftHandled
  BY <1>4, <1>t DEF DraftHandled, Answers, Returns, Calm
<1>5. CASE ApproveHandled
  <2>1. call["approve"].task # t
    BY <1>5, <1>t, <1>w DEF ApproveHandled, Approve, Turn
  <2> QED
    BY <1>5, <1>g, <2>1, Names DEF ApproveHandled
<1>6. CASE CancelHandled
  <2>1. call["cancel"].task # t
    BY <1>6, <1>t, <1>w DEF CancelHandled, Cancel, Turn
  <2> QED
    BY <1>6, <1>a, <2>1, Names DEF CancelHandled, Answer
<1>7. ASSUME NEW f \in Forms \cup {"other"}, ProposeBegins(f) \/ ProposalSaved(f) \/ ProposeHandled(f)
      PROVE  \A c \in Calls : Calm(t, c)
  <2>1. f \in Calls /\ f \notin OneShot
    BY <1>7, Names DEF ProposeBegins, ProposalSaved, ProposeHandled, OneShot
  <2>2. CASE ProposeBegins(f) \/ ProposalSaved(f)
    BY <2>1, <2>2, <1>g DEF ProposeBegins, ProposalSaved
  <2>3. CASE ProposeHandled(f)
    <3>1. \E from \in {"saved", "working"} : Returns(f, from) \/ Goes(f, from, "asking")
      BY <2>3 DEF ProposeHandled
    <3> QED
      BY <2>1, <3>1, <1>g, <1>r
  <2> QED
    BY <1>7, <2>2, <2>3
<1>8. ASSUME NEW f \in Forms \cup {"other"}, Rejected(f) \/ TaskRead(f)
      PROVE  \A c \in Calls : Calm(t, c)
  BY <1>8, <1>r, CalmRead, Names DEF Rejected
<1>9. CASE \E u \in Tasks : Execute(u) \/ RunEnds(u)
  BY <1>9 DEF Execute, RunEnds, Calm
<1> QED
  BY <1>1, <1>2, <1>3, <1>4, <1>5, <1>6, <1>7, <1>8, <1>9 DEF EngineStep

\* Answers about a waiting task do not become worse.
LEMMA LateShrinks ==
  ASSUME Inv, NEW t \in Tasks, StaysWaiting(t), Next
  PROVE  /\ Late(t)' \subseteq Late(t)
         /\ \A c \in Late(t) : call[c].at # "asking" /\ call'[c] # call[c] => c \notin Late(t)'
<1>t. call \in [Calls -> CallRecords] /\ Resting.at = "idle"
  BY RestingTypes DEF Inv, TypeInv, CallInv
<1>1. CASE UserStep \/ EngineStep
  BY <1>1, CalmUser, CalmEngine, CalmIsEnough DEF Late
<1>r. ASSUME NEW f \in Calls, NEW from, Returns(f, from) PROVE \A c \in Calls : Calm(t, c)
  BY <1>r, <1>t DEF Returns, Calm
<1>2. CASE ScreenStep
  <2>1. \A c \in Calls : Calm(t, c)
    BY <1>2, <1>r, Names DEF ScreenStep, SubmitReturns, DraftReturns, CancelReturns,
       LoadReturns, ProposeReturns, ApproveReturns
  <2> QED
    BY <2>1, CalmIsEnough DEF Late
<1>3. CASE Restart
  <2>1. \A c \in Calls : Calm(t, c)
    BY <1>3, <1>t DEF Restart, Calm
  <2> QED
    BY <2>1, CalmIsEnough DEF Late
<1>4. ASSUME NEW q \in Polls, Refresh(q) \/ PollStep(q) PROVE \A c \in Calls : Calm(t, c)
  <2>1. q \in Calls /\ q \notin OneShot
    BY Names, ComposerAssumption DEF OneShot, Forms
  <2>2. CASE Refresh(q)
    <3>1. [Resting EXCEPT !.at = "asking", !.task = result.task].at = "asking"
      BY DEF Resting
    <3> QED
      BY <1>t, <2>1, <2>2, <3>1 DEF Refresh, Calm
  <2>3. CASE TaskRead(q)
    BY <2>1, <2>3, CalmRead
  <2>4. CASE RefreshReturns(q)
    BY <1>r, <2>1, <2>4 DEF RefreshReturns
  <2> QED
    BY <1>4, <2>2, <2>3, <2>4 DEF PollStep
<1> QED
  BY <1>1, <1>2, <1>3, <1>4, CalmIsEnough DEF Next, Late

\* Without a late answer, every callback shows the truth about t or nothing of it.
LEMMA ShownStays ==
  ASSUME Inv, WaitingInv, NEW t \in Tasks, StaysWaiting(t), Late(t) = {}, Next
  PROVE  /\ Shows(t) => Shows(t)'
         /\ \A q \in Polls : RefreshReturns(q) /\ call[q].answer.task = t => Shows(t)'
<1>d. proposal[t] # None /\ proposal'[t] = proposal[t]
  BY DEF WaitingInv, StaysWaiting
<1>c. \A c \in Calls \ {"draft"} :
        call[c].at \in {"answered", "told"} /\ call[c].answer.task = t =>
          c \notin OneShot /\ Right(t, call[c].answer)
  BY DEF Late, LateFor
<1>n. Nothing.task # t
  BY ComposerAssumption DEF Nothing, Answer
<1>1. ASSUME NEW q \in Polls, RefreshReturns(q) PROVE Shows(t)'
  <2>1. q \in Calls \ {"draft"} /\ call[q].at = "told" /\ result' = call[q].answer
        /\ activeProp' = Coalesce(result'.proposal, activeProp)
    BY <1>1, Names, ComposerAssumption DEF RefreshReturns, Returns, Forms
  <2> QED
    BY <1>c, <1>d, <2>1 DEF Shows, ShownProposal, Coalesce, Right
<1>2. ASSUME Shows(t), UNCHANGED <<result, activeProp>> PROVE Shows(t)'
  BY <1>2, <1>d DEF Shows, ShownProposal
<1>3. CASE SubmitClick
  BY <1>3, <1>n DEF SubmitClick, Shows
<1>4. CASE SubmitReturns \/ ApproveReturns
  <2>1. PICK c \in OneShot : call[c].at \in {"answered", "told"} /\ result' = call[c].answer
    BY <1>4 DEF SubmitReturns, ApproveReturns, Returns, OneShot
  <2>2. call[c].answer.task # t
    BY <1>c, <2>1, Names DEF OneShot
  <2> QED
    BY <2>1, <2>2 DEF Shows
<1>5. CASE CancelReturns \/ LoadReturns \/ ProposeReturns
  <2>1. PICK c \in {"cancel", "load", "propose"} :
          call[c].at \in {"answered", "told"} /\ result' = call[c].answer
          /\ activeProp' \in {None, result'.proposal}
    BY <1>5 DEF CancelReturns, LoadReturns, ProposeReturns, Returns
  <2> QED
    BY <1>c, <1>d, <2>1, Names DEF Shows, ShownProposal, Coalesce, Right
<1>6. \/ UNCHANGED <<result, activeProp>>
      \/ SubmitClick \/ SubmitReturns \/ ApproveReturns
      \/ CancelReturns \/ LoadReturns \/ ProposeReturns
      \/ \E q \in Polls : RefreshReturns(q)
  <2>1. CASE UserStep
    BY <2>1 DEF UserStep, ReloadClick, DraftClick, ProposeClick, ApproveClick, CancelClick,
       HistoryActs, OtherClick, Click, screen
  <2>2. CASE EngineStep \/ Restart
    BY <2>2 DEF EngineStep, SubmitHandled, ListHandled, DraftBegins, DraftHandled,
       ApproveHandled, CancelHandled, ProposeBegins, ProposalSaved, ProposeHandled,
       Rejected, TaskRead, Execute, RunEnds, Restart, screen
  <2>3. CASE ScreenStep
    BY <2>3 DEF ScreenStep, DraftReturns
  <2>4. CASE \E q \in Polls : Refresh(q) \/ PollStep(q)
    BY <2>4 DEF Refresh, PollStep, TaskRead, screen
  <2> QED
    BY <2>1, <2>2, <2>3, <2>4 DEF Next
<1> QED
  BY <1>1, <1>2, <1>3, <1>4, <1>5, <1>6

\* The screen comes to show what a waiting task waits for and stays with it, for any
\* tasks, buttons, refreshes under way and detours: what WaitingIsApprovable takes
\* beyond it and ActiveTasksArePolled is only that answers come and the timer fires.
THEOREM WaitingComesThrough == Spec => ScreenSettles
<1> DEFINE Settles ==
      \A t \in Tasks : StaysWaiting(t) =>
        /\ Late(t)' \subseteq Late(t)
        /\ \A c \in Late(t) : call[c].at # "asking" /\ call'[c] # call[c] => c \notin Late(t)'
        /\ Late(t) = {} /\ Shows(t) => Shows(t)'
        /\ Late(t) = {} => \A q \in Polls :
             RefreshReturns(q) /\ call[q].answer.task = t => Shows(t)'
<1>1. Inv /\ WaitingInv /\ [Next]_vars => [Settles]_vars
  BY LateShrinks, ShownStays
<1>2. Inv /\ WaitingInv /\ [Next]_vars /\ [LifeNext]_life => WaitingInv'
  BY WaitingStep
<1> QED
  BY <1>1, <1>2, InitWaiting, InvHolds, TasksLiveByTaskLife, PTL
  DEF Spec, TasksLive, ScreenSettles

=============================================================================
