---------------------------- MODULE PlanDrafting ----------------------------
(***************************************************************************)
(* From a request to its plan: submit's check of the models, and the       *)
(* plan-draft route of wisense_os/api.py with the exploration loop of      *)
(* wisense_os/agentic_explore.py it may fall back to.                      *)
(*                                                                         *)
(* One task.  Its drafts run one after the other in request threads, each  *)
(* with a model call to classify the request, a deterministic draft, and,  *)
(* when that finds no plan, a loop of model calls that look for the file.  *)
(* Every call lets time pass, in which the user edits the project or the   *)
(* task goes its way.  What concurrent drafts do to the plan row is in     *)
(* TaskCoordinator, what a settlement does to the budget in BudgetLedger.  *)
(***************************************************************************)
EXTENDS TargetResolution, ModelPolicy, Sequences

CONSTANTS
  Requests,      \* the requests a user may send
  Availabilities,\* sets of models the runtime may report at start
  Projects,      \* sets of files a project may begin with
  Turns,         \* turns of the loop (6 in the code)
  CloudTurns,    \* turns of the loop for a cloud model (4 in the code)
  MaxEdits       \* bound: files the user creates or deletes

ASSUME DraftingAssumption ==
  /\ Requests \subseteq [text : Seq(Names), endpoint : BOOLEAN, mode : Modes,
                         offline : BOOLEAN, chat : Models \cup {Nobody},
                         builder : Models \cup {Nobody}]
  /\ Availabilities \subseteq SUBSET Models
  /\ Projects \subseteq SUBSET Files
  /\ Turns \in Nat /\ CloudTurns \in Nat
  /\ MaxEdits \in Nat

VARIABLES
  disk,      \* the project's files
  avail,     \* the models available in this engine process
  request,   \* the task's request, as it was sent
  status,    \* "none" before submit; "left" when it is past drafting
  at,        \* where the draft under way stands
  turn,      \* turns of the loop that have used tools
  held,      \* a reservation of this draft, or of the last one, is pending
  why,       \* why the deterministic drafts found no plan
  intent,    \* [floor, kind] of the draft
  plan,      \* the task's plan row
  edits,     \* counter for MaxEdits
  \* History, read by no action.
  answer,    \* how the last draft ended: "plan" is saved, the hint of a refusal, "error"
  advice,    \* pairs of models of which the router recommends one
  located    \* the file the model found for the plan, if that is how it came

task == <<request, status, advice>>
loop == <<turn, held, why>>
vars == <<disk, avail, task, at, loop, intent, plan, answer, edits, located>>

NoIntent == [floor |-> "chat", kind |-> "chat"]

NoRequest == [text |-> <<>>, endpoint |-> FALSE, mode |-> "talk_only",
              offline |-> FALSE, chat |-> Nobody, builder |-> Nobody]

Hints == {"name_both_files", "name_one_path", "name_existing_file", "use_talk_only",
          "audit_is_read_only", "name_target_and_test"}

-----------------------------------------------------------------------------
\* The router's advice for the request the user is typing.
Recommend(complex) ==
  /\ status = "none"
  /\ advice' = Routes(complex, avail)
  /\ UNCHANGED <<disk, avail, request, status, at, loop, intent, plan, answer, edits,
                 located>>

\* submit: the models are checked once, here.
Submit(q) ==
  /\ status = "none"
  /\ request' = q
  /\ status' = IF Validates(q, avail) THEN "accepted" ELSE "blocked"
  /\ advice' = {}
  /\ UNCHANGED <<disk, avail, at, loop, intent, plan, answer, edits, located>>

\* "accepted" stands for exploring as well, in which a task is drafted and left
\* alike: a proposal is published, or it is executed, canceled or deleted.
Leave ==
  /\ status = "accepted"
  /\ status' = "left"
  /\ UNCHANGED <<disk, avail, request, advice, at, loop, intent, plan, answer, edits,
                 located>>

\* The user creates or deletes a file.
UserEdits(f) ==
  /\ edits < MaxEdits
  /\ edits' = edits + 1
  /\ disk' = IF f \in disk THEN disk \ {f} ELSE disk \cup {f}
  /\ UNCHANGED <<avail, task, at, loop, intent, plan, answer, located>>

-----------------------------------------------------------------------------
(* draft_task_plan *)

\* The status is checked, the floor is taken from the text and the files, and
\* the chat model is asked for its opinion.
Begin ==
  /\ at = "idle"
  /\ status = "accepted"
  /\ at' = "classifying"
  /\ \E targeted \in {r.file # None : r \in Resolutions(request.text, disk)} :
       \E floor \in {FloorKind(words, targeted) : words \in SUBSET Wordings} :
         intent' = [floor |-> floor, kind |-> floor]
  /\ answer' = "none" /\ located' = None
  /\ held' = FALSE
  /\ UNCHANGED <<disk, avail, task, turn, why, plan, edits>>

\* The opinion, or none: the call fails, or its answer is no valid one.
Classified ==
  /\ at = "classifying"
  /\ at' = "drafting"
  /\ \/ UNCHANGED intent
     \/ \E opinion \in Kinds :
          intent' = [intent EXCEPT !.kind = Merge(intent.floor, opinion)]
  /\ UNCHANGED <<disk, avail, task, loop, plan, answer, edits, located>>

\* The hint of a refusal.
Hint(reason, kind) ==
  CASE reason = "test_not_found" -> "name_both_files"
    [] reason = "ambiguous" -> "name_one_path"
    [] reason = "needs_one_named_file" -> "name_existing_file"
    [] reason = "root_missing" /\ kind \in TalkKinds -> "use_talk_only"
    [] reason = "root_missing" /\ kind = "audit" -> "audit_is_read_only"
    [] OTHER -> "name_target_and_test"

\* The route ends with draft d: its plan is saved whatever has become of the
\* task, or its reason is answered with a hint.  A saved plan counts as answered,
\* though the envelope that goes with it may still raise.
EndWith(d, by) ==
  /\ at' = "idle"
  /\ intent' = NoIntent
  /\ IF d.plan # None
       THEN plan' = d.plan /\ answer' = "plan" /\ located' = by
       ELSE answer' = Hint(d.reason, intent.kind) /\ UNCHANGED <<plan, located>>

\* The deterministic drafts: evidence for an endpoint, else an edit.
Drafts ==
  IF request.endpoint /\ EvidenceDrafts(disk) # {}
    THEN EvidenceDrafts(disk)
    ELSE EditDrafts(request.text, disk)

\* A project without files: its folder may be gone as well.
RootMissing ==
  /\ at = "drafting"
  /\ disk = {}
  /\ EndWith(Refused("root_missing"), None)
  /\ UNCHANGED <<disk, avail, task, loop, edits>>

PlanFound ==
  /\ at = "drafting"
  /\ \E d \in Drafts :
       d.plan # None /\ EndWith(d, None)
  /\ UNCHANGED <<disk, avail, task, loop, edits>>

IsCloud == request.chat \in CloudNames

Limit == IF IsCloud THEN CloudTurns ELSE Turns

\* Variant: a reservation that is refused is noted, and the loop begins.
AskAnyway(reserved) == ~(IsCloud /\ request.offline)

\* A cloud model is asked only online and with a reservation, which the ledger
\* may refuse.
MayAsk(reserved) == IsCloud => ~request.offline /\ reserved

\* Without a plan the chat model looks for the file, if it may be asked.
NoPlanFound ==
  /\ at = "drafting"
  /\ \E d \in Drafts :
       /\ d.plan = None
       /\ \E reserved \in (IF IsCloud /\ ~request.offline THEN BOOLEAN ELSE {FALSE}) :
            \/ /\ MayAsk(reserved)
               /\ at' = "locating"
               /\ turn' = 0
               /\ held' = reserved
               /\ why' = d.reason
               /\ UNCHANGED <<intent, plan, answer, located>>
            \/ ~MayAsk(reserved) /\ EndWith(d, None) /\ UNCHANGED loop
  /\ UNCHANGED <<disk, avail, task, edits>>

-----------------------------------------------------------------------------
(* locate_target_with_exploration *)

\* Variant: the limit is off by one.
OneMoreTurn == turn <= Limit

TurnLeft == turn < Limit

\* The model asks for tools, which read the project.  When no turn is left it is
\* asked once more, without tools.
UsesTools ==
  /\ at = "locating"
  /\ TurnLeft
  /\ turn' = turn + 1
  /\ UNCHANGED <<disk, avail, task, at, held, why, intent, plan, answer, edits, located>>

\* Variant: what was found replaces the request.
OnlyLocated(text, f) == <<f>>

\* The name of the file is put into the request, to be read there again.
Rewritten(text, f) == Append(text, f)

\* reconcile or release: of the route, or of its handler when that raised.
Settle == turn' = 0 /\ held' = FALSE /\ why' = "ok"

\* It answers with a file that exists: the request is drafted again with it.
Locates(f) ==
  /\ at = "locating"
  /\ f \in disk
  /\ \E d \in EditDrafts(Rewritten(request.text, f), disk) : EndWith(d, f)
  /\ Settle
  /\ UNCHANGED <<disk, avail, task, edits>>

\* Variant: after a bad answer the search begins anew.
SearchesAgain ==
  /\ at = "locating"
  /\ turn' = 0
  /\ UNCHANGED <<disk, avail, task, at, held, why, intent, plan, answer, edits, located>>

\* The call fails, or the answer names no file of the project.  So it goes on as
\* well when settling or the second draft raises: the handler settles, and the
\* first refusal is answered.
FindsNothing ==
  /\ at = "locating"
  /\ EndWith(Refused(why), None)
  /\ Settle
  /\ UNCHANGED <<disk, avail, task, edits>>

\* The route raises, and its client gets an error: a draft or an envelope reads a
\* file that is not UTF-8; or the handler raises in its turn, at its release, and
\* the reservation stays, or at its event, which clashes with that of another.
RouteRaises ==
  /\ at \in {"drafting", "locating"}
  /\ at' = "idle" /\ intent' = NoIntent /\ answer' = "error"
  /\ turn' = 0 /\ why' = "ok"
  /\ held' \in {held, FALSE}
  /\ UNCHANGED <<disk, avail, task, plan, edits, located>>

-----------------------------------------------------------------------------
Init ==
  /\ disk \in Projects
  /\ avail \in Availabilities
  /\ request = NoRequest
  /\ status = "none"
  /\ at = "idle"
  /\ turn = 0 /\ held = FALSE /\ why = "ok"
  /\ intent = NoIntent
  /\ plan = None
  /\ answer = "none"
  /\ edits = 0
  /\ advice = {}
  /\ located = None

DraftStep ==
  \/ Classified \/ RootMissing \/ PlanFound \/ NoPlanFound
  \/ UsesTools \/ FindsNothing \/ RouteRaises
  \/ \E f \in Files : Locates(f)

Next ==
  \/ \E complex \in BOOLEAN : Recommend(complex)
  \/ \E q \in Requests : Submit(q)
  \/ \E f \in Files : UserEdits(f)
  \/ Leave \/ Begin \/ DraftStep

Spec == Init /\ [][Next]_vars

\* Model calls have timeouts and the request thread is scheduled.
FairSpec == Spec /\ WF_vars(DraftStep)

-----------------------------------------------------------------------------
\* The types of the variables; a plan names an implementation file and a test,
\* and the loop stays within its turns.
TypeOK ==
  /\ disk \subseteq Files
  /\ avail \subseteq Models
  /\ request \in Requests \cup {NoRequest}
  /\ status \in {"none", "accepted", "blocked", "left"}
  /\ at \in {"idle", "classifying", "drafting", "locating"}
  /\ turn \in 0..Limit
  /\ held \in BOOLEAN
  /\ why \in Reasons \cup {"ok"}
  /\ intent \in [floor : Kinds, kind : Kinds]
  /\ plan \in Plans \cup {None}
  /\ answer \in Hints \cup {"none", "plan", "error"}
  /\ edits \in 0..MaxEdits
  /\ advice \subseteq [chat : Models \cup {Nobody}, builder : Models \cup {Nobody}]
  /\ located \in Files \cup {None}

\* An offline task has no call made to a cloud model: what submit checked by
\* profile holds for the calls of a later draft, whose own check is by name.
OfflineStaysLocal ==
  at \in {"classifying", "locating"} /\ request.offline => request.chat \notin CloudModels

\* The loop asks a model called cloud only while money for it is reserved, and
\* no draft that is answered leaves the reservation behind; only one that ends
\* in an error may, when the ledger fails the handler as well.
ReservedWhileAsked ==
  /\ at = "locating" => (held <=> IsCloud)
  /\ at # "locating" /\ held => answer = "error"

-----------------------------------------------------------------------------
\* The author of what the text shows to be a task is not told to talk instead,
\* whatever a model took it for.
TaskIsNotTalkedAway ==
  [][at # "idle" /\ at' = "idle" /\ intent.floor \in TaskKinds
     => answer' # "use_talk_only"]_vars

\* A draft of an edit ends with a plan.
EditPlanned == at # "idle" /\ at' = "idle" /\ answer' = "plan" /\ ~request.endpoint

\* What the user names in a request that is read as it is meant.
UserNames == {Means[n] : n \in Mentioned(request.text)} \cap disk
TextIsRead == \A n \in Mentioned(request.text) : ReadAsMeant(n)

\* As far as names are read as they are meant: the file the user named is the
\* file that is planned, whatever a model finds; of two named files no model
\* picks one; and with none named, a file the model found is the one that is
\* planned.
NamedFileIsTarget ==
  [][EditPlanned /\ TextIsRead =>
       LET named == UserNames \cap Impls IN
       \/ named = {plan'.impl}
       \/ /\ named = {}
          /\ located' \in Impls /\ ReadAsMeant(located') => plan'.impl = located']_vars

\* As far as names are read as they are meant: the planned test is named by the
\* user or found by the model, or else no other test has a claim of its kind to
\* cover the file: ambiguity refuses.
PlannedTestIsDecided ==
  [][EditPlanned /\ TextIsRead /\ (located' # None => ReadAsMeant(located')) =>
       LET named == (UserNames \cup {located'}) \cap Tests
           usual == ByConvention[plan'.impl] \cap disk
           users == Importers[plan'.impl] \cap disk
       IN
       \A t \in Tests \ {plan'.test} :
         /\ t \notin named
         /\ named = {} => t \notin usual
         /\ named \cup usual = {} => t \notin users]_vars

\* Models the router recommends are accepted at submit, for a request that is
\* neither offline nor for autopilot.
RecommendedIsAccepted ==
  [][status = "none" /\ status' = "blocked"
       /\ [chat |-> request'.chat, builder |-> request'.builder] \in advice
       /\ Nobody \notin {request'.chat, request'.builder}
     => request'.offline \/ request'.mode = "local_autopilot"]_vars

\* Every draft comes to an answer: the loop ends whatever the model asks for.
DraftAnswers == at # "idle" ~> at = "idle"

=============================================================================
