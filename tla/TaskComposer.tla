---------------------------- MODULE TaskComposer ----------------------------
(***************************************************************************)
(* The composer of the desktop client beside the life of the tasks it      *)
(* shows: task_composer_controller.dart, composed with TaskLife.           *)
(*                                                                         *)
(* The client is one thread of callbacks: what stands between two awaits   *)
(* is one step, and any other callback can come in at an await.  A call is *)
(* a client function on its way: its POST is sent, worked on by the engine *)
(* and answered; load, propose and approve go on with a getTask.  Timer    *)
(* and button share refreshTaskStatus, of which several can be under way.  *)
(* An error leaves the screen as it is: it ends its call at once.          *)
(***************************************************************************)
EXTENDS TaskLife, Naturals, FiniteSets

CONSTANTS
  Old,          \* tasks that an earlier session left waiting for approval
  Polls,        \* refreshTaskStatus calls that can be under way at once
  MaxAtOnce,    \* bound: functions that buttons have started and that are under way
  MaxDetours    \* bound: cancel, reload, another client's propose, a restart
                \* of the engine

VARIABLES
  result,     \* _lastSubmissionResult
  activePlan, \* _activePlan
  activeProp, \* _activeProposal
  polling,    \* _pollTimer is set
  call,       \* client functions under way
  threads,    \* tasks an execute thread was started for, in this engine process
  detours,    \* how many detours there were
  \* History, read by no action.
  seen        \* <<task, digest>> on the screen when the user approved

screen == <<result, activePlan, activeProp, polling>>
vars   == <<life, screen, call, threads, detours, seen>>

Forms == {"load", "submit", "draft", "propose", "approve", "cancel"}
\* "other" is a propose of another client of the engine, say a second window;
\* nobody here waits for its answer.
Calls == Forms \cup {"other"} \cup Polls

ASSUME ComposerAssumption ==
  /\ Tasks \subseteq Nat          \* ids are handed out in order, newest last
  /\ None \notin Tasks
  /\ Old \subseteq AskTasks /\ (Old # {} => Plans # {} /\ Digests # {})
  /\ \A t \in Old, u \in Tasks \ Old : t < u
  /\ Polls \cap (Forms \cup {"other"}) = {}
  /\ MaxAtOnce \in Nat /\ MaxDetours \in Nat

\* An EngineTaskStatus.
Answer(t, s, p, d) == [task |-> t, status |-> s, plan |-> p, proposal |-> d]
Nothing == Answer(None, "none", None, None)

Resting == [at |-> "idle", task |-> None, digest |-> None, answer |-> Nothing]

Coalesce(x, y) == IF x # None THEN x ELSE y

\* The getters activePlan and activeProposal.
ShownPlan     == Coalesce(activePlan, result.plan)
ShownProposal == Coalesce(activeProp, result.proposal)

Busy(c) == call[c].at # "idle"

\* A button can be pressed.
Patient == Cardinality({c \in Forms : Busy(c)}) < MaxAtOnce

\* Call c goes from one stage to another, about task t.
Goes(c, from, to) ==
  /\ call[c].at = from
  /\ call' = [call EXCEPT ![c].at = to]

Answers(c, from, to, a) ==
  /\ call[c].at = from
  /\ call' = [call EXCEPT ![c].at = to, ![c].task = a.task, ![c].answer = a]

Returns(c, from) ==
  /\ call[c].at = from
  /\ call' = [call EXCEPT ![c] = Resting]

Counted == detours < MaxDetours /\ detours' = detours + 1

\* A button that sends a request about the task on the screen.
Click(c, d) ==
  /\ Patient
  /\ ~Busy("load")
  /\ ~Busy(c)
  /\ result.task # None
  /\ call' = [call EXCEPT ![c] = [Resting EXCEPT !.at = "sent", !.task = result.task,
                                                 !.digest = d]]
  /\ UNCHANGED <<life, screen, threads>>

\* Variant: a task that waits for its user is not polled.
Moving == Active \ {"waiting_for_approval"}

Polled == Active

\* _startPollingIfNeeded, for the new result.
Follow == polling' = (result'.status \in Polled)

-----------------------------------------------------------------------------
\* Buttons of task_composer_screen.dart and what they check.

ReloadClick ==
  /\ Patient
  /\ ~Busy("load") /\ ~Busy("submit") /\ ~Busy("approve")
  /\ call' = [call EXCEPT !["load"].at = "sent"]
  /\ Counted
  /\ UNCHANGED <<life, screen, threads, seen>>

\* submitTask forgets the task on the screen before it sends the new one.
SubmitClick ==
  /\ Patient
  /\ \A c \in {"load", "submit", "approve", "propose"} : ~Busy(c)
  /\ result.status # "waiting_for_provider_input"
  /\ call' = [call EXCEPT !["submit"].at = "sent"]
  /\ result' = Nothing
  /\ activePlan' = None
  /\ activeProp' = None
  /\ UNCHANGED <<life, polling, threads, detours, seen>>

DraftClick ==
  /\ result.status \in {"accepted", "exploring"}
  /\ ShownPlan = None
  /\ ~Busy("propose")
  /\ Click("draft", None)
  /\ UNCHANGED <<detours, seen>>

ProposeClick ==
  /\ result.status = "accepted"
  /\ ShownPlan # None
  /\ ShownProposal = None
  /\ Click("propose", None)
  /\ UNCHANGED <<detours, seen>>

\* Variant: the digest is looked up again when the button is pressed, so that
\* an approval is never refused.
NewestDigest == proposal[result.task]

SentDigest == ShownProposal

ApproveClick ==
  /\ result.status = "waiting_for_approval"
  /\ ShownProposal # None
  /\ Click("approve", SentDigest)
  /\ seen' = seen \cup {<<result.task, ShownProposal>>}
  /\ UNCHANGED detours

CancelClick ==
  /\ result.status \in Active
  /\ Click("cancel", None)
  /\ Counted
  /\ UNCHANGED seen

OtherClick(t) ==
  /\ ~Busy("other")
  /\ status[t] # "absent"
  /\ call' = [call EXCEPT !["other"] = [Resting EXCEPT !.at = "sent", !.task = t]]
  /\ Counted
  /\ UNCHANGED <<life, screen, threads, seen>>

\* Variant: the id is not looked at.
AnyId == TRUE

HasId == result.task # None

\* refreshTaskStatus, by the timer, the button, or after an approval.
Refresh(q) ==
  /\ ~Busy(q)
  /\ HasId
  /\ call' = [call EXCEPT ![q] = [Resting EXCEPT !.at = "asking", !.task = result.task]]
  /\ UNCHANGED <<life, screen, threads, detours, seen>>

-----------------------------------------------------------------------------
\* The engine.

\* The lock of service.py, kept while a proposal is saved and published.
LockFree == \A c \in Calls : call[c].at # "saved"

\* The next task gets the next id.
NextTask(t) == status[t] = "absent" /\ \A u \in Tasks : u < t => status[u] # "absent"

\* A task that needs no approval is executed at once when it is talk only.
SubmitHandled ==
  \E t \in Tasks :
    /\ NextTask(t)
    /\ \/ /\ Submit(t)
          /\ threads' = IF t \in AskTasks THEN threads ELSE threads \cup {t}
       \/ Refuse(t) /\ UNCHANGED threads
    /\ Answers("submit", "sent", "answered", Answer(t, status'[t], None, None))
    /\ UNCHANGED <<screen, detours, seen>>

Listed == {t \in Tasks : status[t] \in Active \cup Final}

\* load goes on with the newest task of the history that is pending; with none
\* it is done.
ListHandled ==
  LET pending == {t \in Listed : status[t] \in Active} IN
  /\ call["load"].at = "sent"
  /\ IF pending = {}
       THEN Returns("load", "sent")
       ELSE \E t \in pending :
              /\ \A u \in pending : u <= t
              /\ call' = [call EXCEPT !["load"].at = "asking", !["load"].task = t]
  /\ UNCHANGED <<life, screen, threads, detours, seen>>

\* A request that fails one of its checks gets an error.
Rejected(c) ==
  LET t == call[c].task IN
  /\ c = "draft" \/ LockFree
  /\ Returns(c, "sent")
  /\ \/ c = "draft"   /\ status[t] \notin {"accepted", "exploring"}
     \/ c \in {"propose", "other"} /\ ~(/\ t \in AskTasks
                                        /\ status[t] \in {"accepted", "exploring"}
                                        /\ plan[t] # None)
     \/ c = "approve" /\ ~(/\ status[t] = "waiting_for_approval"
                           /\ plan[t] # None
                           /\ proposal[t] = call[c].digest)
     \/ c = "cancel"  /\ status[t] \notin Active
  /\ UNCHANGED <<life, screen, threads, detours, seen>>

\* plan-draft checks the status, works, and saves its plan whatever has become
\* of the task; or it finds no plan.
DraftBegins ==
  /\ Goes("draft", "sent", "working")
  /\ status[call["draft"].task] \in {"accepted", "exploring"}
  /\ UNCHANGED <<life, screen, threads, detours, seen>>

DraftHandled ==
  LET t == call["draft"].task IN
  \/ \E p \in Plans :
       /\ Answers("draft", "working", "answered", Answer(t, "none", p, None))
       /\ Draft(t, p)
       /\ UNCHANGED <<screen, threads, detours, seen>>
  \/ /\ Returns("draft", "working")
     /\ UNCHANGED <<life, screen, threads, detours, seen>>

ProposeBegins(c) ==
  /\ c \in {"propose", "other"}
  /\ LockFree
  /\ Goes(c, "sent", "working")
  /\ Explore(call[c].task)
  /\ UNCHANGED <<screen, threads, detours, seen>>

ProposalSaved(c) ==
  /\ c \in {"propose", "other"}
  /\ LockFree
  /\ Goes(c, "working", "saved")
  /\ \E d \in Digests : Offer(call[c].task, d)
  /\ UNCHANGED <<screen, threads, detours, seen>>

\* It is published, or failed, or was dropped for a canceled task.  A deleted
\* task has no record to answer with.
ProposeHandled(c) ==
  LET t == call[c].task
      On(from) == IF c = "other" THEN Returns(c, from) ELSE Goes(c, from, "asking")
  IN
  /\ c \in {"propose", "other"}
  /\ \/ On("saved") /\ Publish(t)
     \/ /\ LockFree
        /\ On("working")
        /\ \/ Settle(t, "failed")
           \/ status[t] = "canceled" /\ UNCHANGED life
     \/ /\ Returns(c, "saved") \/ Returns(c, "working")
        /\ status[t] = "purged"
        /\ UNCHANGED life
  /\ UNCHANGED <<screen, threads, detours, seen>>

ApproveHandled ==
  LET t == call["approve"].task IN
  /\ LockFree
  /\ Goes("approve", "sent", "asking")
  /\ Approve(t, call["approve"].digest)
  /\ threads' = threads \cup {t}
  /\ UNCHANGED <<screen, detours, seen>>

CancelHandled ==
  LET t == call["cancel"].task IN
  /\ LockFree
  /\ Answers("cancel", "sent", "answered", Answer(t, "canceled", None, None))
  /\ Cancel(t)
  /\ UNCHANGED <<screen, threads, detours, seen>>

\* task_status: the record with its plan and proposal, or 404.  The rows are
\* read one after the other; here at one instant.
TaskRead(c) ==
  LET t == call[c].task IN
  /\ call[c].at = "asking"
  /\ IF status[t] \in {"absent", "purged"}
       THEN Returns(c, "asking")
       ELSE Answers(c, "asking", "told", Answer(t, status[t], plan[t], proposal[t]))
  /\ UNCHANGED <<life, screen, threads, detours, seen>>

\* The execute threads.  No executor of the engine asks for provider input, and
\* "failed" stands for "blocked" too.
Execute(t) ==
  /\ LockFree /\ t \in threads
  /\ Run(t)
  /\ UNCHANGED <<screen, call, threads, detours, seen>>

RunEnds(t) ==
  /\ LockFree /\ t \in threads
  /\ status[t] = "running"
  /\ \E r \in {"completed", "failed"} : Settle(t, r)
  /\ UNCHANGED <<screen, call, threads, detours, seen>>

\* The history screen cancels and deletes tasks, whatever the composer shows.
HistoryActs(t) ==
  /\ LockFree
  /\ \/ Cancel(t) /\ Counted
     \/ Purge(t) /\ UNCHANGED detours
  /\ UNCHANGED <<screen, call, threads, seen>>

\* Everything the engine was at work on is lost and its clients get an error.
Restart ==
  /\ Counted
  /\ Interrupt
  /\ threads' = {}
  /\ call' = [c \in Calls |->
                IF call[c].at \in {"sent", "working", "saved", "asking"}
                  THEN Resting ELSE call[c]]
  /\ UNCHANGED <<screen, seen>>

-----------------------------------------------------------------------------
\* Answers that come back, each with the rest of its function up to the next
\* await or its end.

SubmitReturns ==
  /\ Returns("submit", "answered")
  /\ result' = call["submit"].answer
  /\ Follow
  /\ UNCHANGED <<life, activePlan, activeProp, threads, detours, seen>>

\* draftActivePlan keeps the plan, whatever task is on the screen by now.
DraftReturns ==
  /\ Returns("draft", "answered")
  /\ activePlan' = call["draft"].answer.plan
  /\ UNCHANGED <<life, result, activeProp, polling, threads, detours, seen>>

CancelReturns ==
  /\ Returns("cancel", "answered")
  /\ result' = call["cancel"].answer
  /\ activePlan' = None
  /\ activeProp' = None
  /\ polling' = FALSE
  /\ UNCHANGED <<life, threads, detours, seen>>

LoadReturns ==
  /\ Returns("load", "told")
  /\ result' = call["load"].answer
  /\ activePlan' = result'.plan
  /\ activeProp' = result'.proposal
  /\ Follow
  /\ UNCHANGED <<life, threads, detours, seen>>

ProposeReturns ==
  /\ Returns("propose", "told")
  /\ result' = call["propose"].answer
  /\ activeProp' = result'.proposal
  /\ Follow
  /\ UNCHANGED <<life, activePlan, threads, detours, seen>>

ApproveReturns ==
  /\ Returns("approve", "told")
  /\ result' = call["approve"].answer
  /\ Follow
  /\ UNCHANGED <<life, activePlan, activeProp, threads, detours, seen>>

\* Variant: a refresh leaves the timer to the button that started the task.
FollowLess == polling' = (polling /\ result'.status \in Polled)

FollowRefreshed == Follow

\* A refresh overwrites the result, whatever is on the screen by now, and what
\* it does not know stays as it was.
RefreshReturns(q) ==
  /\ Returns(q, "told")
  /\ result' = call[q].answer
  /\ activePlan' = Coalesce(result'.plan, activePlan)
  /\ activeProp' = Coalesce(result'.proposal, activeProp)
  /\ FollowRefreshed
  /\ UNCHANGED <<life, threads, detours, seen>>

-----------------------------------------------------------------------------
\* The screen is built, with nothing on it, and loads.
Init ==
  LET p == CHOOSE q \in Plans : TRUE
      d == CHOOSE e \in Digests : TRUE
  IN
    /\ status = [t \in Tasks |-> IF t \in Old THEN "waiting_for_approval" ELSE "absent"]
    /\ plan = [t \in Tasks |-> IF t \in Old THEN p ELSE None]
    /\ proposal = [t \in Tasks |-> IF t \in Old THEN d ELSE None]
    /\ ticket = [t \in Tasks |-> FALSE]
    /\ result = Nothing
    /\ activePlan = None
    /\ activeProp = None
    /\ polling = FALSE
    /\ call = [c \in Calls |-> IF c = "load" THEN [Resting EXCEPT !.at = "sent"] ELSE Resting]
    /\ threads = {}
    /\ detours = 0
    /\ seen = {}

UserStep ==
  \/ ReloadClick \/ SubmitClick \/ DraftClick \/ ProposeClick \/ ApproveClick
  \/ CancelClick
  \/ \E t \in Tasks : HistoryActs(t) \/ OtherClick(t)

EngineStep ==
  \/ SubmitHandled \/ ListHandled \/ DraftBegins \/ DraftHandled \/ ApproveHandled
  \/ CancelHandled
  \/ \E c \in Forms \cup {"other"} : ProposeBegins(c) \/ ProposalSaved(c) \/ ProposeHandled(c)
  \/ \E c \in Forms \cup {"other"} : Rejected(c) \/ TaskRead(c)
  \/ \E t \in Tasks : Execute(t) \/ RunEnds(t)

ScreenStep ==
  \/ SubmitReturns \/ DraftReturns \/ CancelReturns \/ LoadReturns
  \/ ProposeReturns \/ ApproveReturns

PollStep(q) == TaskRead(q) \/ RefreshReturns(q)

Next ==
  \/ UserStep \/ EngineStep \/ ScreenStep \/ Restart
  \/ \E q \in Polls : Refresh(q) \/ PollStep(q)

Spec == Init /\ [][Next]_vars

\* The engine answers, the client's event loop runs its callbacks, and the
\* timer, while it is set, fires.  No user has to press anything.
FairSpec ==
  /\ Spec
  /\ WF_vars(EngineStep)
  /\ WF_vars(ScreenStep)
  /\ \A q \in Polls : WF_vars(PollStep(q)) /\ WF_vars(polling /\ Refresh(q))

-----------------------------------------------------------------------------
\* The types of the screen and of the calls under way.
TypeOK ==
  LET Answered == [task : Tasks \cup {None},
                   status : Active \cup Final \cup {"none"},
                   plan : Plans \cup {None}, proposal : Digests \cup {None}]
  IN
  /\ result \in Answered
  /\ activePlan \in Plans \cup {None}
  /\ activeProp \in Digests \cup {None}
  /\ polling \in BOOLEAN
  /\ call \in [Calls -> [at : {"idle", "sent", "working", "saved", "answered",
                               "asking", "told"},
                         task : Tasks \cup {None}, digest : Digests \cup {None},
                         answer : Answered]]
  /\ \A c \in Calls : call[c].at \in {"asking", "told"} => call[c].task \in Tasks
  /\ threads \subseteq Tasks
  /\ detours \in 0..MaxDetours
  /\ seen \subseteq Tasks \X Digests

\* Whatever mixture of old and new answers the screen shows, and however late an
\* approval arrives, a run that begins applies the proposal that was on the
\* screen, under the title of its task, when the user pressed "approve".
OnlySeenIsApplied ==
  [][\A t \in AskTasks : status[t] # "running" /\ status'[t] = "running" =>
       <<t, proposal[t]>> \in seen]_vars

\* A task that has come to rest is not shown as active for ever: an answer that
\* overtook a later one is replaced, also after the timer was stopped.
RestIsShown ==
  \A t \in Tasks :
    <>[](status[t] \in Final) => <>[](result.task = t => result.status \in Final)

\* While a task waits for its user, a screen that shows it as active comes to
\* show the status and the proposal that the engine will accept.  (Not so after
\* it has shown the task as failed: see SettledOnlyReopenedByLateThread.)
WaitingIsApprovable ==
  \A t \in Tasks :
    <>[](status[t] = "waiting_for_approval") =>
      <>[](result.task = t /\ result.status \in Active =>
             /\ result.status = "waiting_for_approval"
             /\ ShownProposal = proposal[t])

-----------------------------------------------------------------------------
(* What the repository says, and the code does not do (see the findings).  *)

\* "A restart must not hide a pending approval" (load): if the history holds a
\* task that waits for approval, the screen goes on with a task that waits.
ApprovalIsNotHidden ==
  [][call["load"].at = "sent" /\ call'["load"].at = "asking"
       /\ (\E t \in Listed : status[t] = "waiting_for_approval")
     => status[call'["load"].task] = "waiting_for_approval"]_vars

=============================================================================
