--------------------------- MODULE TaskCoordinator ---------------------------
(***************************************************************************)
(* The task coordinator (wisense_os/service.py) on its durable store       *)
(* (wisense_os/store.py), driven by the HTTP routes of wisense_os/api.py.  *)
(*                                                                         *)
(* A worker is one engine thread: the thread that serves a request, or the *)
(* thread a route starts for `execute` or `continue_with_provider_input`.  *)
(* A step of a worker is one stretch of code between two points where      *)
(* another thread, or the death of the process, can come in between: the   *)
(* acquisition of _execution_lock, a store write (every store call is one  *)
(* SQLite transaction), or a call into the executor.  A critical section   *)
(* that does one write is one step; one that does two keeps the lock over  *)
(* two steps, so that the process can die after the first.                 *)
(*                                                                         *)
(* A digest is the SHA-256 of a proposal's files and stands for them: the  *)
(* model has candidates and compares candidates.  A task id is a fresh     *)
(* uuid4, so an id whose row was purged is never used again.               *)
(***************************************************************************)
EXTENDS Naturals

CONSTANTS
  AskTasks,     \* ids of tasks submitted as ask_before_changes
  TalkTasks,    \* ids of tasks submitted as talk_only
  PilotTasks,   \* ids of tasks submitted as local_autopilot
  Workers,      \* engine threads that can be busy at the same time
  Plans,        \* reviewed plans: which files a patch has to consist of
  Texts,        \* file contents a builder can answer with for a plan
  None,         \* no row, no holder, nothing in hand
  MaxCalls,     \* bound: propose and provider-input requests of the clients
  MaxRestarts   \* bound: times the engine process dies and is started again

Tasks == AskTasks \cup TalkTasks \cup PilotTasks

\* A proposal's files, and the digest that stands for them.
Candidates == [plan : Plans, text : Texts]

\* What _record_executor_result can record.
Verdicts == {"completed", "failed", "blocked", "waiting_for_provider_input"}

ASSUME CoordinatorAssumption ==
  /\ AskTasks \cap (TalkTasks \cup PilotTasks) = {}
  /\ TalkTasks \cap PilotTasks = {}
  /\ None \notin Tasks \cup Workers \cup Plans \cup Candidates \cup Verdicts
  /\ MaxCalls \in Nat
  /\ MaxRestarts \in Nat

VARIABLES
  \* Durable: the tables of engine_state.db.
  status,     \* tasks.status; "absent" before the row, "purged" after it
  plan,       \* task_plans
  proposal,   \* task_proposals
  approval,   \* task_approvals: the digest the user confirmed
  \* Volatile: the threads of one engine process.
  lock,       \* holder of _execution_lock
  pc,         \* where each worker stands
  task,       \* the task it serves
  seen,       \* the plan it captured under the lock
  cand,       \* the candidate it holds: builder's answer or files to apply
  result,     \* the status its executor call asks to record
  \* History, read by no action: what the user has confirmed.
  granted,    \* candidates whose digest the user approved, per task
  unspent,    \* an approval made the task ready and no run has taken it yet
  \* Counters for the bounds.
  calls, restarts

tables  == <<status, plan, proposal, approval>>
hands   == <<task, seen, cand, result>>
history == <<granted, unspent>>
bounds  == <<calls, restarts>>
vars    == <<tables, lock, pc, hands, history, bounds>>

-----------------------------------------------------------------------------
\* contracts.py TaskStatus, split by what the coordinator does with it.
Cancellable == {"accepted", "exploring", "waiting_for_approval",
                "waiting_for_provider_input", "running"}
Terminal    == {"blocked", "completed", "failed", "canceled", "interrupted"}
Statuses    == Cancellable \cup Terminal \cup {"absent", "purged"}

\* idle       no request
\* drafting   plan-draft route, after its unlocked status check
\* proposing  executor.propose running, outside the lock
\* proposed   propose has returned, the lock is not yet taken
\* publishing proposal row saved, status not yet; lock held
\* approving  approval row saved, status not yet; lock held
\* prechecking, starting   execute, before and after its unlocked check
\* running    executor called, no project file written
\* writing    first project file written, tests or repair in progress
\* ran        executor returned, the lock is not yet taken
\* answering  continue_with_provider_input, waiting for the lock
\* conversing continue_conversation running; lock held
\* dead       ended by an exception outside every try, the run not recorded
Places == {"idle", "drafting", "proposing", "proposed", "publishing",
           "approving", "prechecking", "starting", "running", "writing",
           "ran", "answering", "conversing", "dead"}
Holding == {"publishing", "approving", "conversing"}

HasRow(t) == status[t] \notin {"absent", "purged"}

\* UPDATE tasks SET status ... WHERE task_id: no row, no effect.
WithStatus(t, s) == IF HasRow(t) THEN [status EXCEPT ![t] = s] ELSE status

\* provider_input_waiting_task(exclude_task_id=t) is not None.
OtherConversation(t) ==
  \E u \in Tasks \ {t} : status[u] = "waiting_for_provider_input"

\* Variant: the plan is not asked for.
PlannedOrNot(t) == TRUE

Planned(t) == plan[t] # None

\* Variant: a late thread does not look whether the user canceled.
CancelUnseen(t) == FALSE

\* _is_canceled: a purged row is not a canceled one.
Canceled(t) == status[t] = "canceled"

\* Variant: a task that ended without success can be proposed again.
PreparableAgain(t) == status[t] \in {"accepted", "exploring", "failed", "interrupted"}

Preparable(t) == status[t] \in {"accepted", "exploring"}

\* Variant: any digest approves the proposal that is there.
AnyDigestConfirms(t, d) == proposal[t] # None

\* The user's digest is that of the stored proposal.
DigestConfirms(t, d) == proposal[t] = d

\* Variant: execute trusts the status it read before it waited for the lock.
StillTrusted(t) == TRUE

\* execute reads the durable status again under the lock.
StillAccepted(t) == status[t] = "accepted"

\* execute's checks under the lock, for a task that is accepted.
Ready(t) ==
  \/ t \in TalkTasks
  \/ /\ Planned(t)
     /\ t \in AskTasks => /\ proposal[t] # None
                          /\ approval[t] = proposal[t]

-----------------------------------------------------------------------------
Serve(w, t, place) ==
  /\ pc' = [pc EXCEPT ![w] = place]
  /\ task' = [task EXCEPT ![w] = t]

MoveTo(w, place) ==
  /\ pc' = [pc EXCEPT ![w] = place]
  /\ UNCHANGED task

\* The request is answered, or the thread ends.
Finish(w) ==
  /\ pc' = [pc EXCEPT ![w] = "idle"]
  /\ task' = [task EXCEPT ![w] = None]
  /\ seen' = [seen EXCEPT ![w] = None]
  /\ cand' = [cand EXCEPT ![w] = None]
  /\ result' = [result EXCEPT ![w] = None]

LockFree == lock = None

\* Variant: a critical section is left without giving the lock back.
KeepLock == UNCHANGED lock

ReleaseLock == lock' = None

\* Variant: a blocked result is not recorded.
RecordedUnlessBlocked(t, r) ==
  IF Canceled(t) \/ r = "blocked" THEN status ELSE WithStatus(t, r)

\* What the last critical section of execute makes of result r.
Recorded(t, r) == IF Canceled(t) THEN status ELSE WithStatus(t, r)

\* Variant: the files are written without a look at the plan.
AnyFiles(w) == TRUE

\* The candidate consists of the files of the plan the run captured.
FilesOfPlan(w) == cand[w].plan = seen[w]

\* Variant: a started engine leaves the rows as it finds them.
RowsAsLeft == status

\* mark_interrupted_runs.
RowsMarked == [t \in Tasks |-> IF status[t] = "running" THEN "interrupted" ELSE status[t]]

-----------------------------------------------------------------------------
\* POST /tasks -> submit.  Model policy refuses, or the row is accepted; only
\* a talk-only task gets its execute thread here.
SubmitRefused(t) ==
  /\ status[t] = "absent"
  /\ status' = [status EXCEPT ![t] = "blocked"]
  /\ UNCHANGED <<plan, proposal, approval, lock, pc, hands, history, bounds>>

Submit(w, t) ==
  /\ status[t] = "absent"
  /\ pc[w] = "idle"
  /\ status' = [status EXCEPT ![t] = "accepted"]
  /\ IF t \in TalkTasks THEN Serve(w, t, "prechecking") ELSE UNCHANGED <<pc, task>>
  /\ UNCHANGED <<plan, proposal, approval, lock, seen, cand, result, history, bounds>>

\* POST /tasks/<id>/plan-draft.  The status is read once, without the lock;
\* locating the target can take model calls; save_plan replaces the row
\* whatever has become of the task meanwhile.
DraftPlan(w, t) ==
  /\ pc[w] = "idle"
  /\ status[t] \in {"accepted", "exploring"}
  /\ Serve(w, t, "drafting")
  /\ UNCHANGED <<tables, lock, seen, cand, result, history, bounds>>

DraftPlanReturns(w) ==
  /\ pc[w] = "drafting"
  /\ \/ \E p \in Plans : plan' = [plan EXCEPT ![task[w]] = p]
     \/ UNCHANGED plan      \* 422: no plan could be drafted
  /\ Finish(w)
  /\ UNCHANGED <<status, proposal, approval, lock, history, bounds>>

\* POST /tasks/<id>/propose -> prepare_proposal, first critical section.
PrepareProposal(w, t) ==
  /\ pc[w] = "idle"
  /\ LockFree
  /\ Preparable(t)
  /\ t \in AskTasks
  /\ Planned(t)
  /\ ~OtherConversation(t)
  /\ calls < MaxCalls
  /\ calls' = calls + 1
  /\ status' = [status EXCEPT ![t] = "exploring"]
  /\ Serve(w, t, "proposing")
  /\ seen' = [seen EXCEPT ![w] = plan[t]]
  /\ UNCHANGED <<plan, proposal, approval, lock, cand, result, history, restarts>>

\* Budget reservation and executor.propose, outside the lock.  An exception
\* and a missing proposal are recorded as failed, an exceeded budget as
\* blocked; a candidate has exactly the files of the captured plan.
ProposeReturns(w) ==
  /\ pc[w] = "proposing"
  /\ MoveTo(w, "proposed")
  /\ \/ \E x \in Texts :
          /\ cand' = [cand EXCEPT ![w] = [plan |-> seen[w], text |-> x]]
          /\ UNCHANGED result
     \/ /\ \E r \in {"failed", "blocked"} : result' = [result EXCEPT ![w] = r]
        /\ UNCHANGED cand
  /\ UNCHANGED <<tables, lock, seen, history, bounds>>

\* Settling the reservation raises (or the "exploring" event clashed): the
\* request ends in an error and the task stays as it is.
ProposalDropped(w) ==
  /\ pc[w] = "proposing"
  /\ Finish(w)
  /\ UNCHANGED <<tables, lock, history, bounds>>

\* prepare_proposal, last critical section, up to its first write.
RecordProposal(w) ==
  LET t == task[w] IN
  /\ pc[w] = "proposed"
  /\ LockFree
  /\ \/ /\ Canceled(t)
        /\ Finish(w)
        /\ UNCHANGED <<status, proposal, lock>>
     \/ /\ ~Canceled(t)
        /\ result[w] # None
        /\ status' = WithStatus(t, result[w])
        /\ Finish(w)
        /\ UNCHANGED <<proposal, lock>>
     \/ /\ ~Canceled(t)
        /\ result[w] = None
        /\ proposal' = [proposal EXCEPT ![t] = cand[w]]
        /\ lock' = w
        /\ MoveTo(w, "publishing")
        /\ UNCHANGED <<status, seen, cand, result>>
  /\ UNCHANGED <<plan, approval, history, bounds>>

PublishProposal(w) ==
  /\ pc[w] = "publishing"
  /\ status' = WithStatus(task[w], "waiting_for_approval")
  /\ ReleaseLock
  /\ Finish(w)
  /\ UNCHANGED <<plan, proposal, approval, history, bounds>>

\* POST /tasks/<id>/approve with digest d -> approve, up to save_approval.
Approve(w, t, d) ==
  /\ pc[w] = "idle"
  /\ LockFree
  /\ status[t] = "waiting_for_approval"
  /\ Planned(t)
  /\ DigestConfirms(t, d)
  /\ ~OtherConversation(t)
  /\ approval' = [approval EXCEPT ![t] = d]
  /\ granted' = [granted EXCEPT ![t] = @ \cup {d}]
  /\ lock' = w
  /\ Serve(w, t, "approving")
  /\ UNCHANGED <<status, plan, proposal, seen, cand, result, unspent, bounds>>

\* approve's status write; the route then starts the execute thread.
ApproveCommit(w) ==
  /\ pc[w] = "approving"
  /\ status' = WithStatus(task[w], "accepted")
  /\ unspent' = [unspent EXCEPT ![task[w]] = TRUE]
  /\ ReleaseLock
  /\ MoveTo(w, "prechecking")
  /\ UNCHANGED <<plan, proposal, approval, seen, cand, result, granted, bounds>>

\* POST /tasks/<id>/cancel -> cancel.
Cancel(t) ==
  /\ LockFree
  /\ status[t] \in Cancellable
  /\ status' = [status EXCEPT ![t] = "canceled"]
  /\ UNCHANGED <<plan, proposal, approval, lock, pc, hands, history, bounds>>

\* DELETE /tasks/<id> -> delete_task: every row of the task in one transaction.
DeleteTask(t) ==
  /\ LockFree
  /\ status[t] \in Terminal
  /\ status' = [status EXCEPT ![t] = "purged"]
  /\ plan' = [plan EXCEPT ![t] = None]
  /\ proposal' = [proposal EXCEPT ![t] = None]
  /\ approval' = [approval EXCEPT ![t] = None]
  /\ UNCHANGED <<lock, pc, hands, history, bounds>>

-----------------------------------------------------------------------------
\* execute: the status is read without the lock first ...
ExecutePrecheck(w) ==
  /\ pc[w] = "prechecking"
  /\ IF status[task[w]] = "accepted"
       THEN MoveTo(w, "starting") /\ UNCHANGED <<seen, cand, result>>
       ELSE Finish(w)
  /\ UNCHANGED <<tables, lock, history, bounds>>

\* ... and again under it: another thread may have taken the task.
ExecuteStandsDown(w) ==
  /\ pc[w] = "starting"
  /\ LockFree
  /\ ~StillAccepted(task[w])
  /\ Finish(w)
  /\ UNCHANGED <<tables, lock, history, bounds>>

Execute(w) ==
  LET t == task[w] IN
  /\ pc[w] = "starting"
  /\ LockFree
  /\ StillAccepted(t)
  /\ IF Ready(t)
       THEN /\ status' = [status EXCEPT ![t] = "running"]
            /\ MoveTo(w, "running")
            /\ seen' = [seen EXCEPT ![w] = IF t \in TalkTasks THEN None ELSE plan[t]]
            /\ cand' = [cand EXCEPT ![w] = IF t \in TalkTasks THEN None ELSE proposal[t]]
            /\ unspent' = [unspent EXCEPT ![t] = FALSE]
            /\ UNCHANGED result
       ELSE /\ status' = [status EXCEPT ![t] = "failed"]
            /\ Finish(w)
            /\ UNCHANGED unspent
  /\ UNCHANGED <<plan, proposal, approval, lock, granted, bounds>>

\* apply_proposal, outside the lock: the candidate has to consist of the files
\* of the plan the run captured; then the first project file is written.
ExecutorWrites(w) ==
  /\ pc[w] = "running"
  /\ task[w] \notin TalkTasks
  /\ FilesOfPlan(w)
  /\ MoveTo(w, "writing")
  /\ UNCHANGED <<tables, lock, seen, cand, result, history, bounds>>

\* The executor returns or raises (recorded as failed).  Before any write a
\* write task can only be refused.
ExecutorReturns(w) ==
  /\ pc[w] \in {"running", "writing"}
  /\ \E r \in IF pc[w] = "running" /\ task[w] \notin TalkTasks
                THEN {"failed", "blocked"} ELSE Verdicts :
       result' = [result EXCEPT ![w] = r]
  /\ MoveTo(w, "ran")
  /\ UNCHANGED <<tables, lock, seen, cand, history, bounds>>

\* Settling the reservation (talk only: an approved apply reserves nothing)
\* raises outside every try block: the thread ends with nothing recorded.
LedgerRaises(w) ==
  /\ pc[w] = "ran"
  /\ task[w] \notin AskTasks
  /\ MoveTo(w, "dead")
  /\ UNCHANGED <<tables, lock, seen, cand, result, history, bounds>>

\* execute, last critical section: nothing is recorded on a canceled task.
RecordResult(w) ==
  /\ pc[w] = "ran"
  /\ LockFree
  /\ status' = Recorded(task[w], result[w])
  /\ Finish(w)
  /\ UNCHANGED <<plan, proposal, approval, lock, history, bounds>>

\* POST /tasks/<id>/provider-input: the route's unlocked check ...
ProviderInput(w, t) ==
  /\ pc[w] = "idle"
  /\ status[t] = "waiting_for_provider_input"
  /\ calls < MaxCalls
  /\ calls' = calls + 1
  /\ Serve(w, t, "answering")
  /\ UNCHANGED <<tables, lock, seen, cand, result, history, restarts>>

\* ... and continue_with_provider_input, which keeps the lock over the
\* executor call.
ContinueConversation(w) ==
  LET t == task[w] IN
  /\ pc[w] = "answering"
  /\ LockFree
  /\ IF status[t] = "waiting_for_provider_input"
       THEN /\ status' = [status EXCEPT ![t] = "running"]
            /\ lock' = w
            /\ MoveTo(w, "conversing")
            /\ UNCHANGED <<seen, cand, result>>
       ELSE Finish(w) /\ UNCHANGED <<status, lock>>
  /\ UNCHANGED <<plan, proposal, approval, history, bounds>>

ConversationReturns(w) ==
  /\ pc[w] = "conversing"
  /\ \E r \in Verdicts : status' = WithStatus(task[w], r)
  /\ ReleaseLock
  /\ Finish(w)
  /\ UNCHANGED <<plan, proposal, approval, history, bounds>>

\* append_event reads MAX(sequence) + 1 and inserts in two statements; another
\* append on the same task in between makes the insert raise.  Critical
\* sections exclude each other, but plan-draft and the budget reservations of
\* propose and of a talk-only run append without the lock.
AppendsUnlocked(t) ==
  \E w \in Workers : /\ task[w] = t
                     /\ \/ pc[w] \in {"drafting", "proposing"}
                        \/ pc[w] = "running" /\ t \in TalkTasks

\* The critical sections such an exception cuts short between two writes, or
\* before the thread is started that was to run the task.  An append that
\* comes last, or inside a try, changes nothing that is modelled here.
EventClash(w) ==
  LET t == task[w] IN
  /\ AppendsUnlocked(t)
  /\ \/ /\ pc[w] = "approving"             \* "approved"
        /\ status' = WithStatus(t, "accepted")
        /\ unspent' = [unspent EXCEPT ![t] = TRUE]
        /\ ReleaseLock
        /\ Finish(w)
     \/ /\ pc[w] = "starting"              \* "applying", "exploring"
        /\ LockFree
        /\ StillAccepted(t)
        /\ Ready(t)
        /\ status' = [status EXCEPT ![t] = "running"]
        /\ unspent' = [unspent EXCEPT ![t] = FALSE]
        /\ MoveTo(w, "dead")
        /\ UNCHANGED <<lock, seen, cand, result>>
     \/ /\ pc[w] = "ran"                   \* "files_changed"
        /\ LockFree
        /\ t \in AskTasks
        /\ ~Canceled(t)
        /\ result[w] \in {"completed", "waiting_for_provider_input"}
        /\ MoveTo(w, "dead")
        /\ UNCHANGED <<status, unspent, lock, seen, cand, result>>
     \/ /\ pc[w] = "answering"             \* "provider_input_submitted"
        /\ LockFree
        /\ status[t] = "waiting_for_provider_input"
        /\ status' = [status EXCEPT ![t] = "running"]
        /\ MoveTo(w, "dead")
        /\ UNCHANGED <<unspent, lock, seen, cand, result>>
     \/ /\ pc[w] = "conversing"            \* "files_changed"
        /\ t \in AskTasks
        /\ ReleaseLock
        /\ MoveTo(w, "dead")
        /\ UNCHANGED <<status, unspent, seen, cand, result>>
  /\ UNCHANGED <<plan, proposal, approval, granted, bounds>>

\* The engine process dies and create_default_app starts the next one:
\* every thread is gone and mark_interrupted_runs settles what was running.
Restart ==
  /\ restarts < MaxRestarts
  /\ restarts' = restarts + 1
  /\ status' = RowsMarked
  /\ lock' = None
  /\ pc' = [w \in Workers |-> "idle"]
  /\ task' = [w \in Workers |-> None]
  /\ seen' = [w \in Workers |-> None]
  /\ cand' = [w \in Workers |-> None]
  /\ result' = [w \in Workers |-> None]
  /\ UNCHANGED <<plan, proposal, approval, history, calls>>

-----------------------------------------------------------------------------
Init ==
  /\ status = [t \in Tasks |-> "absent"]
  /\ plan = [t \in Tasks |-> None]
  /\ proposal = [t \in Tasks |-> None]
  /\ approval = [t \in Tasks |-> None]
  /\ lock = None
  /\ pc = [w \in Workers |-> "idle"]
  /\ task = [w \in Workers |-> None]
  /\ seen = [w \in Workers |-> None]
  /\ cand = [w \in Workers |-> None]
  /\ result = [w \in Workers |-> None]
  /\ granted = [t \in Tasks |-> {}]
  /\ unspent = [t \in Tasks |-> FALSE]
  /\ calls = 0
  /\ restarts = 0

\* What a client asks for.
Request ==
  \/ \E t \in Tasks : SubmitRefused(t) \/ Cancel(t) \/ DeleteTask(t)
  \/ \E w \in Workers, t \in Tasks :
       \/ Submit(w, t) \/ DraftPlan(w, t) \/ PrepareProposal(w, t)
       \/ ProviderInput(w, t)
       \/ \E d \in Candidates : Approve(w, t, d)

\* What a thread does on its own once it serves a task.
WorkerStep(w) ==
  \/ DraftPlanReturns(w)
  \/ ProposeReturns(w) \/ ProposalDropped(w) \/ RecordProposal(w) \/ PublishProposal(w)
  \/ ApproveCommit(w)
  \/ ExecutePrecheck(w) \/ ExecuteStandsDown(w) \/ Execute(w)
  \/ ExecutorWrites(w) \/ ExecutorReturns(w) \/ LedgerRaises(w) \/ RecordResult(w)
  \/ ContinueConversation(w) \/ ConversationReturns(w)
  \/ EventClash(w)

Next ==
  \/ Request
  \/ \E w \in Workers : WorkerStep(w)
  \/ Restart

Spec == Init /\ [][Next]_vars

\* Threads are scheduled and every executor call returns: model calls and test
\* runs have timeouts.  Clients need not ask for anything.
FairSpec == Spec /\ \A w \in Workers : WF_vars(WorkerStep(w))

-----------------------------------------------------------------------------
\* Every variable stays within its type: rows, threads and what they hold.
TypeOK ==
  /\ status \in [Tasks -> Statuses]
  /\ plan \in [Tasks -> Plans \cup {None}]
  /\ proposal \in [Tasks -> Candidates \cup {None}]
  /\ approval \in [Tasks -> Candidates \cup {None}]
  /\ lock \in Workers \cup {None}
  /\ pc \in [Workers -> Places]
  /\ task \in [Workers -> Tasks \cup {None}]
  /\ \A w \in Workers : pc[w] # "idle" => task[w] \in Tasks
  /\ \A w \in Workers : pc[w] = "proposing" => seen[w] \in Plans
  /\ \A w \in Workers : pc[w] = "proposed" /\ result[w] = None => cand[w] \in Candidates
  /\ \A w \in Workers : pc[w] = "ran" => result[w] \in Verdicts
  /\ seen \in [Workers -> Plans \cup {None}]
  /\ cand \in [Workers -> Candidates \cup {None}]
  /\ result \in [Workers -> Verdicts \cup {None}]
  /\ granted \in [Tasks -> SUBSET Candidates]
  /\ unspent \in [Tasks -> BOOLEAN]
  /\ calls \in 0..MaxCalls
  /\ restarts \in 0..MaxRestarts

\* Whatever overlapping proposals, re-drafted plans and restarts do to the
\* rows, a thread that writes files for an ask_before_changes task writes
\* files whose digest the user approved for that very task, and exactly the
\* files of the plan the run was started with (approve, execute, apply_proposal).
WritesApproved ==
  \A w \in Workers :
    pc[w] = "writing" /\ task[w] \in AskTasks =>
      /\ cand[w] \in granted[task[w]]
      /\ cand[w].plan = seen[w]

\* One approval starts one run: however many execute threads wait for the
\* lock, a run starts only on an approval no run has taken (the second status
\* check of execute; tests/test_foundation.py "a task approval must be
\* single-use").
ApprovalSingleUse ==
  [][\A w \in Workers :
       pc[w] = "starting" /\ pc'[w] \in {"running", "dead"} /\ task[w] \in AskTasks
         => unspent[task[w]]]_vars

\* A thread that gets the lock in execute and finds its task accepted finds
\* it complete as well: plan, proposal and an approval of that very proposal.
\* The checks of execute behind it never fail for a task approved in this
\* process; only a proposal being published under the lock breaks the match.
ExecuteFindsApproval ==
  \A w \in Workers :
    pc[w] = "starting" /\ LockFree /\ status[task[w]] = "accepted" => Ready(task[w])

\* A task shown as running has a thread that runs it, or one that died after
\* the run began: "running" is never left behind by a recorded run, by a
\* cancelation race or by a restart (execute, mark_interrupted_runs).
RunningHasWorker ==
  \A t \in Tasks : status[t] = "running" =>
    \E w \in Workers : /\ task[w] = t
                       /\ pc[w] \in {"running", "writing", "ran", "conversing", "dead"}

\* No late thread revives a task the user canceled or a restart interrupted:
\* it stays as it is until it is purged (_is_canceled before every record;
\* threads do not outlive the process).
ClosedIsFinal ==
  [][\A t \in Tasks :
       status[t] \in {"canceled", "interrupted"} => status'[t] \in {status[t], "purged"}]_vars

\* A completed, failed or blocked task changes its status again only by the
\* record of a thread that was already at work for it when it settled: a
\* proposal another request was preparing, or a second run of the same task.
SettledOnlyReopenedByLateThread ==
  [][\A t \in Tasks :
       status[t] \in {"completed", "failed", "blocked"}
         /\ status'[t] \notin {status[t], "purged"} =>
         \E w \in Workers : task[w] = t /\ pc[w] \in {"proposed", "publishing", "ran"}]_vars

\* A run ends: a running task gets another status, unless the thread that ran
\* it died on a ledger or event exception (then only a restart settles it).
RunSettles ==
  \A t \in Tasks :
    status[t] = "running" ~>
      \/ status[t] # "running"
      \/ \E w \in Workers : pc[w] = "dead" /\ task[w] = t

\* No thread waits for ever: the lock is always given back and every request
\* is answered.
WorkersReturn == \A w \in Workers : pc[w] # "idle" ~> pc[w] \in {"idle", "dead"}

\* The abstract life of a task: a candidate is its digest, an unspent approval
\* the ticket; the approval row and the threads are details.
TheLife == INSTANCE TaskLife WITH Digests <- Candidates, ticket <- unspent

\* With threads, a lock, rows written one at a time, clashes and restarts, the
\* coordinator does to a task only what TaskLife allows: a run takes a ticket
\* of its own, only an open task is settled or published, only a task still
\* accepted or exploring is explored, a purge needs a final status.
ImplementsTaskLife == TheLife!Life

-----------------------------------------------------------------------------
(***************************************************************************)
(* What the repository says of the program and the program does not do.    *)
(***************************************************************************)

\* cancel: "Discard a waiting or running task without further model/write
\* work."  A run that has not written yet writes nothing once it is canceled.
CancelStopsWrites ==
  [][\A w \in Workers :
       pc[w] = "running" /\ pc'[w] = "writing" => status[task[w]] # "canceled"]_vars

=============================================================================
