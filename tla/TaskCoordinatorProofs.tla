------------------------ MODULE TaskCoordinatorProofs ------------------------
(***************************************************************************)
(* Theorems about TaskCoordinator for any number of tasks, threads, plans  *)
(* and texts, and any bounds.  The inductive invariant is IInv: besides    *)
(* the properties themselves it says what the holder of _execution_lock    *)
(* can rely on (HoldingInv), that no thread works for a task that was      *)
(* interrupted (BusyInv), where an approved digest travels (GrantInv),     *)
(* that an accepted task with an approval has an unspent one (UnspentInv)  *)
(* and that its rows agree for the thread about to run it (MatchInv).      *)
(* Last come the lock, which is held only from inside a section, and a     *)
(* measure by which every thread nears its end.                            *)
(***************************************************************************)
EXTENDS TaskCoordinator, TLAPS

\* While a thread is inside a critical section of two steps it holds the lock
\* and its task is as the section's first step left it.
HoldingInv ==
  \A w \in Workers :
    /\ pc[w] \in Holding => lock = w
    /\ pc[w] = "publishing" => ~Canceled(task[w])
    /\ pc[w] = "approving" => /\ status[task[w]] = "waiting_for_approval"
                              /\ Planned(task[w])
                              /\ proposal[task[w]] # None
                              /\ approval[task[w]] = proposal[task[w]]
    /\ pc[w] = "conversing" => status[task[w]] = "running"

\* A thread serves a task that exists, and never an interrupted one.
BusyInv ==
  \A w \in Workers : pc[w] # "idle" => status[task[w]] \notin {"absent", "interrupted"}

\* An approval row, and the files a run holds, carry a digest the user approved.
GrantInv ==
  /\ \A t \in Tasks : approval[t] # None => approval[t] \in granted[t]
  /\ \A w \in Workers :
       pc[w] \in {"running", "writing"} /\ task[w] \in AskTasks => cand[w] \in granted[task[w]]
  /\ \A w \in Workers : pc[w] = "writing" => FilesOfPlan(w)

\* An accepted task that has an approval has not used it.
UnspentInv ==
  \A t \in Tasks :
    /\ status[t] = "absent" => approval[t] = None
    /\ status[t] = "accepted" /\ approval[t] # None => unspent[t]

\* The rows of an accepted task agree for the thread that is to execute it,
\* unless another proposal is being published for it.
MatchInv ==
  \A w \in Workers :
    /\ pc[w] \in {"prechecking", "starting"}
    /\ status[task[w]] = "accepted"
    /\ \A v \in Workers : ~(pc[v] = "publishing" /\ task[v] = task[w])
    => Ready(task[w])

IInv ==
  /\ TypeOK
  /\ RunningHasWorker
  /\ HoldingInv
  /\ BusyInv
  /\ GrantInv
  /\ UnspentInv
  /\ MatchInv

-----------------------------------------------------------------------------
\* No step takes a variable out of its type.
LEMMA TypeStep == TypeOK /\ [Next]_vars => TypeOK'
<1> SUFFICES ASSUME TypeOK, [Next]_vars PROVE TypeOK'
  OBVIOUS
<1> USE CoordinatorAssumption DEF TypeOK, Serve, MoveTo, Finish, ReleaseLock, LockFree, tables,
     hands, history, bounds, Statuses, Cancellable, Terminal, Verdicts, Places
<1>1. ASSUME NEW t \in Tasks, SubmitRefused(t) PROVE TypeOK'
  BY <1>1 DEF SubmitRefused
<1>2. ASSUME NEW t \in Tasks, Cancel(t) PROVE TypeOK'
  BY <1>2 DEF Cancel
<1>3. ASSUME NEW t \in Tasks, DeleteTask(t) PROVE TypeOK'
  BY <1>3 DEF DeleteTask
<1>4. ASSUME NEW w \in Workers, NEW t \in Tasks, Submit(w, t) PROVE TypeOK'
  BY <1>4 DEF Submit
<1>5. ASSUME NEW w \in Workers, NEW t \in Tasks, DraftPlan(w, t) PROVE TypeOK'
  BY <1>5 DEF DraftPlan
<1>6. ASSUME NEW w \in Workers, NEW t \in Tasks, PrepareProposal(w, t) PROVE TypeOK'
  BY <1>6 DEF PrepareProposal, Planned
<1>7. ASSUME NEW w \in Workers, NEW t \in Tasks, ProviderInput(w, t) PROVE TypeOK'
  BY <1>7 DEF ProviderInput
<1>8. ASSUME NEW w \in Workers, NEW t \in Tasks, NEW d \in Candidates,
     Approve(w, t, d) PROVE TypeOK'
  BY <1>8 DEF Approve
<1>9. ASSUME NEW w \in Workers, DraftPlanReturns(w) PROVE TypeOK'
  BY <1>9 DEF DraftPlanReturns
<1>10. ASSUME NEW w \in Workers, ProposeReturns(w) PROVE TypeOK'
  BY <1>10 DEF ProposeReturns, Candidates
<1>11. ASSUME NEW w \in Workers, ProposalDropped(w) PROVE TypeOK'
  BY <1>11 DEF ProposalDropped
<1>12. ASSUME NEW w \in Workers, RecordProposal(w) PROVE TypeOK'
  BY <1>12 DEF RecordProposal, WithStatus, HasRow, Canceled
<1>13. ASSUME NEW w \in Workers, PublishProposal(w) PROVE TypeOK'
  BY <1>13 DEF PublishProposal, WithStatus, HasRow
<1>14. ASSUME NEW w \in Workers, ApproveCommit(w) PROVE TypeOK'
  BY <1>14 DEF ApproveCommit, WithStatus, HasRow
<1>15. ASSUME NEW w \in Workers, ExecutePrecheck(w) PROVE TypeOK'
  BY <1>15 DEF ExecutePrecheck
<1>16. ASSUME NEW w \in Workers, ExecuteStandsDown(w) PROVE TypeOK'
  BY <1>16 DEF ExecuteStandsDown
<1>17. ASSUME NEW w \in Workers, Execute(w) PROVE TypeOK'
  <2>1. task[w] \in Tasks
    BY <1>17 DEF Execute
  <2>2. CASE Ready(task[w])
    <3>1. unspent' = [unspent EXCEPT ![task[w]] = FALSE]
      BY <1>17, <2>2 DEF Execute
    <3>2. unspent' \in [Tasks -> BOOLEAN]
      BY <2>1, <3>1
    <3> QED
      BY <1>17, <2>1, <2>2, <3>1, <3>2 DEF Execute
  <2>3. CASE ~Ready(task[w])
    BY <1>17, <2>1, <2>3 DEF Execute
  <2> QED
    BY <2>2, <2>3
<1>18. ASSUME NEW w \in Workers, ExecutorWrites(w) PROVE TypeOK'
  BY <1>18 DEF ExecutorWrites
<1>19. ASSUME NEW w \in Workers, ExecutorReturns(w) PROVE TypeOK'
  BY <1>19 DEF ExecutorReturns
<1>20. ASSUME NEW w \in Workers, LedgerRaises(w) PROVE TypeOK'
  BY <1>20 DEF LedgerRaises
<1>21. ASSUME NEW w \in Workers, RecordResult(w) PROVE TypeOK'
  BY <1>21 DEF RecordResult, Recorded, Canceled, WithStatus, HasRow
<1>22. ASSUME NEW w \in Workers, ContinueConversation(w) PROVE TypeOK'
  BY <1>22 DEF ContinueConversation
<1>23. ASSUME NEW w \in Workers, ConversationReturns(w) PROVE TypeOK'
  BY <1>23 DEF ConversationReturns, WithStatus, HasRow
<1>24. ASSUME NEW w \in Workers, EventClash(w) PROVE TypeOK'
  <2>1. CASE pc[w] = "approving"
    <3>1. task[w] \in Tasks /\ unspent' = [unspent EXCEPT ![task[w]] = TRUE]
      BY <1>24, <2>1 DEF EventClash
    <3>2. unspent' \in [Tasks -> BOOLEAN]
      BY <3>1
    <3> QED
      BY <1>24, <2>1, <3>1, <3>2 DEF EventClash, WithStatus, HasRow
  <2>2. CASE pc[w] = "starting"
    <3>1. task[w] \in Tasks /\ unspent' = [unspent EXCEPT ![task[w]] = FALSE]
      BY <1>24, <2>2 DEF EventClash
    <3>2. unspent' \in [Tasks -> BOOLEAN]
      BY <3>1
    <3> QED
      BY <1>24, <2>2, <3>1, <3>2 DEF EventClash
  <2>3. CASE pc[w] = "ran"
    BY <1>24, <2>3 DEF EventClash, WithStatus, HasRow
  <2>4. CASE pc[w] = "answering"
    BY <1>24, <2>4 DEF EventClash, WithStatus, HasRow
  <2>5. CASE pc[w] = "conversing"
    BY <1>24, <2>5 DEF EventClash, WithStatus, HasRow
  <2> QED
    BY <1>24, <2>1, <2>2, <2>3, <2>4, <2>5 DEF EventClash
<1>25. ASSUME Restart PROVE TypeOK'
  BY <1>25 DEF Restart, RowsMarked
<1>26. CASE UNCHANGED vars
  BY <1>26 DEF vars
<1> QED
  BY <1>1, <1>2, <1>3, <1>4, <1>5, <1>6, <1>7, <1>8, <1>9, <1>10, <1>11, <1>12, <1>13, <1>14,
       <1>15, <1>16, <1>17, <1>18, <1>19, <1>20, <1>21, <1>22, <1>23, <1>24, <1>25,
            <1>26 DEF Next, Request, WorkerStep

\* A thread leaves the places of a run only by recording a status that is not
\* running, by a canceled row, or by dying; a restart leaves no running row.
LEMMA RunStep == TypeOK /\ RunningHasWorker /\ [Next]_vars => RunningHasWorker'
<1> SUFFICES ASSUME TypeOK, RunningHasWorker, [Next]_vars PROVE RunningHasWorker'
  OBVIOUS
<1>0. /\ status \in [Tasks -> Statuses]
      /\ pc \in [Workers -> Places] /\ task \in [Workers -> Tasks \cup {None}]
      /\ \A w \in Workers : pc[w] # "idle" => task[w] \in Tasks
      /\ \A w \in Workers : pc[w] = "ran" => result[w] \in Verdicts
      /\ cand \in [Workers -> Candidates \cup {None}]
      /\ seen \in [Workers -> Plans \cup {None}]
      /\ result \in [Workers -> Verdicts \cup {None}]
  BY DEF TypeOK
<1> USE CoordinatorAssumption DEF RunningHasWorker, Serve, MoveTo, Finish, ReleaseLock,
     LockFree, tables, hands, history, bounds, 
        WithStatus, HasRow, Recorded, Canceled, Planned, Preparable, StillAccepted,
             DigestConfirms, RowsMarked
<1>1. ASSUME NEW t \in Tasks, SubmitRefused(t) PROVE RunningHasWorker'
  BY <1>1, <1>0 DEF SubmitRefused
<1>2. ASSUME NEW t \in Tasks, Cancel(t) PROVE RunningHasWorker'
  BY <1>2, <1>0 DEF Cancel
<1>3. ASSUME NEW t \in Tasks, DeleteTask(t) PROVE RunningHasWorker'
  BY <1>3, <1>0 DEF DeleteTask
<1>4. ASSUME NEW w \in Workers, NEW t \in Tasks, Submit(w, t) PROVE RunningHasWorker'
  BY <1>4, <1>0 DEF Submit
<1>5. ASSUME NEW w \in Workers, NEW t \in Tasks, DraftPlan(w, t) PROVE RunningHasWorker'
  BY <1>5, <1>0 DEF DraftPlan
<1>6. ASSUME NEW w \in Workers, NEW t \in Tasks, PrepareProposal(w, t) PROVE RunningHasWorker'
  BY <1>6, <1>0 DEF PrepareProposal
<1>7. ASSUME NEW w \in Workers, NEW t \in Tasks, ProviderInput(w, t) PROVE RunningHasWorker'
  BY <1>7, <1>0 DEF ProviderInput
<1>8. ASSUME NEW w \in Workers, NEW t \in Tasks, NEW d \in Candidates,
     Approve(w, t, d) PROVE RunningHasWorker'
  BY <1>8, <1>0 DEF Approve
<1>9. ASSUME NEW w \in Workers, DraftPlanReturns(w) PROVE RunningHasWorker'
  BY <1>9, <1>0 DEF DraftPlanReturns
<1>10. ASSUME NEW w \in Workers, ProposeReturns(w) PROVE RunningHasWorker'
  BY <1>10, <1>0 DEF ProposeReturns
<1>11. ASSUME NEW w \in Workers, ProposalDropped(w) PROVE RunningHasWorker'
  BY <1>11, <1>0 DEF ProposalDropped
<1>12. ASSUME NEW w \in Workers, RecordProposal(w) PROVE RunningHasWorker'
  BY <1>12, <1>0 DEF RecordProposal, Verdicts
<1>13. ASSUME NEW w \in Workers, PublishProposal(w) PROVE RunningHasWorker'
  BY <1>13, <1>0 DEF PublishProposal
<1>14. ASSUME NEW w \in Workers, ApproveCommit(w) PROVE RunningHasWorker'
  BY <1>14, <1>0 DEF ApproveCommit
<1>15. ASSUME NEW w \in Workers, ExecutePrecheck(w) PROVE RunningHasWorker'
  BY <1>15, <1>0 DEF ExecutePrecheck
<1>16. ASSUME NEW w \in Workers, ExecuteStandsDown(w) PROVE RunningHasWorker'
  BY <1>16, <1>0 DEF ExecuteStandsDown
<1>17. ASSUME NEW w \in Workers, Execute(w) PROVE RunningHasWorker'
  BY <1>17, <1>0 DEF Execute
<1>18. ASSUME NEW w \in Workers, ExecutorWrites(w) PROVE RunningHasWorker'
  BY <1>18, <1>0 DEF ExecutorWrites
<1>19. ASSUME NEW w \in Workers, ExecutorReturns(w) PROVE RunningHasWorker'
  BY <1>19, <1>0 DEF ExecutorReturns
<1>20. ASSUME NEW w \in Workers, LedgerRaises(w) PROVE RunningHasWorker'
  BY <1>20, <1>0 DEF LedgerRaises
<1>21. ASSUME NEW w \in Workers, RecordResult(w) PROVE RunningHasWorker'
  BY <1>21, <1>0 DEF RecordResult, Verdicts
<1>22. ASSUME NEW w \in Workers, ContinueConversation(w) PROVE RunningHasWorker'
  BY <1>22, <1>0 DEF ContinueConversation
<1>23. ASSUME NEW w \in Workers, ConversationReturns(w) PROVE RunningHasWorker'
  BY <1>23, <1>0 DEF ConversationReturns, Verdicts
<1>24. ASSUME NEW w \in Workers, EventClash(w) PROVE RunningHasWorker'
  BY <1>24, <1>0 DEF EventClash, Verdicts
<1>25. ASSUME Restart PROVE RunningHasWorker'
  BY <1>25, <1>0 DEF Restart
<1>26. CASE UNCHANGED vars
  BY <1>26, <1>0 DEF vars
<1> QED
  BY <1>1, <1>2, <1>3, <1>4, <1>5, <1>6, <1>7, <1>8, <1>9, <1>10, <1>11, <1>12, <1>13, <1>14,
       <1>15, <1>16, <1>17, <1>18, <1>19, <1>20, <1>21, <1>22, <1>23, <1>24, <1>25,
            <1>26 DEF Next, Request, WorkerStep

\* Every status write but a submission waits for the lock, so a holder's task
\* stays as the holder found it.
LEMMA HoldingStep == TypeOK /\ HoldingInv /\ [Next]_vars => HoldingInv'
<1> SUFFICES ASSUME TypeOK, HoldingInv, [Next]_vars PROVE HoldingInv'
  OBVIOUS
<1>0. /\ status \in [Tasks -> Statuses]
      /\ pc \in [Workers -> Places] /\ task \in [Workers -> Tasks \cup {None}]
      /\ \A w \in Workers : pc[w] # "idle" => task[w] \in Tasks
      /\ plan \in [Tasks -> Plans \cup {None}]
      /\ proposal \in [Tasks -> Candidates \cup {None}]
      /\ approval \in [Tasks -> Candidates \cup {None}]
  BY DEF TypeOK
<1> USE CoordinatorAssumption DEF HoldingInv, Holding, Serve, MoveTo, Finish, ReleaseLock,
     LockFree, tables, hands, history, bounds, 
        WithStatus, HasRow, Recorded, Canceled, Planned, Preparable, StillAccepted,
             DigestConfirms, RowsMarked
<1>1. ASSUME NEW t \in Tasks, SubmitRefused(t) PROVE HoldingInv'
  BY <1>1, <1>0 DEF SubmitRefused
<1>2. ASSUME NEW t \in Tasks, Cancel(t) PROVE HoldingInv'
  BY <1>2, <1>0 DEF Cancel
<1>3. ASSUME NEW t \in Tasks, DeleteTask(t) PROVE HoldingInv'
  BY <1>3, <1>0 DEF DeleteTask
<1>4. ASSUME NEW w \in Workers, NEW t \in Tasks, Submit(w, t) PROVE HoldingInv'
  BY <1>4, <1>0 DEF Submit
<1>5. ASSUME NEW w \in Workers, NEW t \in Tasks, DraftPlan(w, t) PROVE HoldingInv'
  BY <1>5, <1>0 DEF DraftPlan
<1>6. ASSUME NEW w \in Workers, NEW t \in Tasks, PrepareProposal(w, t) PROVE HoldingInv'
  BY <1>6, <1>0 DEF PrepareProposal
<1>7. ASSUME NEW w \in Workers, NEW t \in Tasks, ProviderInput(w, t) PROVE HoldingInv'
  BY <1>7, <1>0 DEF ProviderInput
<1>8. ASSUME NEW w \in Workers, NEW t \in Tasks, NEW d \in Candidates,
     Approve(w, t, d) PROVE HoldingInv'
  BY <1>8, <1>0 DEF Approve
<1>9. ASSUME NEW w \in Workers, DraftPlanReturns(w) PROVE HoldingInv'
  BY <1>9, <1>0 DEF DraftPlanReturns
<1>10. ASSUME NEW w \in Workers, ProposeReturns(w) PROVE HoldingInv'
  BY <1>10, <1>0 DEF ProposeReturns
<1>11. ASSUME NEW w \in Workers, ProposalDropped(w) PROVE HoldingInv'
  BY <1>11, <1>0 DEF ProposalDropped
<1>12. ASSUME NEW w \in Workers, RecordProposal(w) PROVE HoldingInv'
  BY <1>12, <1>0 DEF RecordProposal, Verdicts
<1>13. ASSUME NEW w \in Workers, PublishProposal(w) PROVE HoldingInv'
  BY <1>13, <1>0 DEF PublishProposal
<1>14. ASSUME NEW w \in Workers, ApproveCommit(w) PROVE HoldingInv'
  BY <1>14, <1>0 DEF ApproveCommit
<1>15. ASSUME NEW w \in Workers, ExecutePrecheck(w) PROVE HoldingInv'
  BY <1>15, <1>0 DEF ExecutePrecheck
<1>16. ASSUME NEW w \in Workers, ExecuteStandsDown(w) PROVE HoldingInv'
  BY <1>16, <1>0 DEF ExecuteStandsDown
<1>17. ASSUME NEW w \in Workers, Execute(w) PROVE HoldingInv'
  BY <1>17, <1>0 DEF Execute
<1>18. ASSUME NEW w \in Workers, ExecutorWrites(w) PROVE HoldingInv'
  BY <1>18, <1>0 DEF ExecutorWrites
<1>19. ASSUME NEW w \in Workers, ExecutorReturns(w) PROVE HoldingInv'
  BY <1>19, <1>0 DEF ExecutorReturns
<1>20. ASSUME NEW w \in Workers, LedgerRaises(w) PROVE HoldingInv'
  BY <1>20, <1>0 DEF LedgerRaises
<1>21. ASSUME NEW w \in Workers, RecordResult(w) PROVE HoldingInv'
  BY <1>21, <1>0 DEF RecordResult, Verdicts
<1>22. ASSUME NEW w \in Workers, ContinueConversation(w) PROVE HoldingInv'
  BY <1>22, <1>0 DEF ContinueConversation
<1>23. ASSUME NEW w \in Workers, ConversationReturns(w) PROVE HoldingInv'
  BY <1>23, <1>0 DEF ConversationReturns, Verdicts
<1>24. ASSUME NEW w \in Workers, EventClash(w) PROVE HoldingInv'
  BY <1>24, <1>0 DEF EventClash, Verdicts
<1>25. ASSUME Restart PROVE HoldingInv'
  BY <1>25, <1>0 DEF Restart
<1>26. CASE UNCHANGED vars
  BY <1>26, <1>0 DEF vars
<1> QED
  BY <1>1, <1>2, <1>3, <1>4, <1>5, <1>6, <1>7, <1>8, <1>9, <1>10, <1>11, <1>12, <1>13, <1>14,
       <1>15, <1>16, <1>17, <1>18, <1>19, <1>20, <1>21, <1>22, <1>23, <1>24, <1>25,
            <1>26 DEF Next, Request, WorkerStep

\* Only a restart interrupts a task, and no thread survives it.
LEMMA BusyStep == TypeOK /\ BusyInv /\ [Next]_vars => BusyInv'
<1> SUFFICES ASSUME TypeOK, BusyInv, [Next]_vars PROVE BusyInv'
  OBVIOUS
<1>0. /\ status \in [Tasks -> Statuses]
      /\ pc \in [Workers -> Places] /\ task \in [Workers -> Tasks \cup {None}]
      /\ \A w \in Workers : pc[w] # "idle" => task[w] \in Tasks
      /\ \A w \in Workers : pc[w] = "ran" => result[w] \in Verdicts
      /\ cand \in [Workers -> Candidates \cup {None}]
      /\ seen \in [Workers -> Plans \cup {None}]
      /\ result \in [Workers -> Verdicts \cup {None}]
  BY DEF TypeOK
<1> USE CoordinatorAssumption DEF BusyInv, Serve, MoveTo, Finish, ReleaseLock, LockFree,
     tables, hands, history, bounds, 
        WithStatus, HasRow, Recorded, Canceled, Planned, Preparable, StillAccepted,
             DigestConfirms, RowsMarked
<1>1. ASSUME NEW t \in Tasks, SubmitRefused(t) PROVE BusyInv'
  BY <1>1, <1>0 DEF SubmitRefused
<1>2. ASSUME NEW t \in Tasks, Cancel(t) PROVE BusyInv'
  BY <1>2, <1>0 DEF Cancel
<1>3. ASSUME NEW t \in Tasks, DeleteTask(t) PROVE BusyInv'
  BY <1>3, <1>0 DEF DeleteTask
<1>4. ASSUME NEW w \in Workers, NEW t \in Tasks, Submit(w, t) PROVE BusyInv'
  BY <1>4, <1>0 DEF Submit
<1>5. ASSUME NEW w \in Workers, NEW t \in Tasks, DraftPlan(w, t) PROVE BusyInv'
  BY <1>5, <1>0 DEF DraftPlan
<1>6. ASSUME NEW w \in Workers, NEW t \in Tasks, PrepareProposal(w, t) PROVE BusyInv'
  BY <1>6, <1>0 DEF PrepareProposal
<1>7. ASSUME NEW w \in Workers, NEW t \in Tasks, ProviderInput(w, t) PROVE BusyInv'
  BY <1>7, <1>0 DEF ProviderInput
<1>8. ASSUME NEW w \in Workers, NEW t \in Tasks, NEW d \in Candidates,
     Approve(w, t, d) PROVE BusyInv'
  BY <1>8, <1>0 DEF Approve
<1>9. ASSUME NEW w \in Workers, DraftPlanReturns(w) PROVE BusyInv'
  BY <1>9, <1>0 DEF DraftPlanReturns
<1>10. ASSUME NEW w \in Workers, ProposeReturns(w) PROVE BusyInv'
  BY <1>10, <1>0 DEF ProposeReturns
<1>11. ASSUME NEW w \in Workers, ProposalDropped(w) PROVE BusyInv'
  BY <1>11, <1>0 DEF ProposalDropped
<1>12. ASSUME NEW w \in Workers, RecordProposal(w) PROVE BusyInv'
  BY <1>12, <1>0 DEF RecordProposal, Verdicts
<1>13. ASSUME NEW w \in Workers, PublishProposal(w) PROVE BusyInv'
  BY <1>13, <1>0 DEF PublishProposal
<1>14. ASSUME NEW w \in Workers, ApproveCommit(w) PROVE BusyInv'
  BY <1>14, <1>0 DEF ApproveCommit
<1>15. ASSUME NEW w \in Workers, ExecutePrecheck(w) PROVE BusyInv'
  BY <1>15, <1>0 DEF ExecutePrecheck
<1>16. ASSUME NEW w \in Workers, ExecuteStandsDown(w) PROVE BusyInv'
  BY <1>16, <1>0 DEF ExecuteStandsDown
<1>17. ASSUME NEW w \in Workers, Execute(w) PROVE BusyInv'
  BY <1>17, <1>0 DEF Execute
<1>18. ASSUME NEW w \in Workers, ExecutorWrites(w) PROVE BusyInv'
  BY <1>18, <1>0 DEF ExecutorWrites
<1>19. ASSUME NEW w \in Workers, ExecutorReturns(w) PROVE BusyInv'
  BY <1>19, <1>0 DEF ExecutorReturns
<1>20. ASSUME NEW w \in Workers, LedgerRaises(w) PROVE BusyInv'
  BY <1>20, <1>0 DEF LedgerRaises
<1>21. ASSUME NEW w \in Workers, RecordResult(w) PROVE BusyInv'
  BY <1>21, <1>0 DEF RecordResult, Verdicts
<1>22. ASSUME NEW w \in Workers, ContinueConversation(w) PROVE BusyInv'
  BY <1>22, <1>0 DEF ContinueConversation
<1>23. ASSUME NEW w \in Workers, ConversationReturns(w) PROVE BusyInv'
  BY <1>23, <1>0 DEF ConversationReturns, Verdicts
<1>24. ASSUME NEW w \in Workers, EventClash(w) PROVE BusyInv'
  BY <1>24, <1>0 DEF EventClash, Verdicts
<1>25. ASSUME Restart PROVE BusyInv'
  BY <1>25, <1>0 DEF Restart
<1>26. CASE UNCHANGED vars
  BY <1>26, <1>0 DEF vars
<1> QED
  BY <1>1, <1>2, <1>3, <1>4, <1>5, <1>6, <1>7, <1>8, <1>9, <1>10, <1>11, <1>12, <1>13, <1>14,
       <1>15, <1>16, <1>17, <1>18, <1>19, <1>20, <1>21, <1>22, <1>23, <1>24, <1>25,
            <1>26 DEF Next, Request, WorkerStep

\* The approved digest is carried from the approval row into the thread.
LEMMA GrantStep == TypeOK /\ GrantInv /\ [Next]_vars => GrantInv'
<1> SUFFICES ASSUME TypeOK, GrantInv, [Next]_vars PROVE GrantInv'
  OBVIOUS
<1>0. /\ pc \in [Workers -> Places] /\ task \in [Workers -> Tasks \cup {None}]
      /\ \A w \in Workers : pc[w] # "idle" => task[w] \in Tasks
      /\ plan \in [Tasks -> Plans \cup {None}]
      /\ proposal \in [Tasks -> Candidates \cup {None}]
      /\ approval \in [Tasks -> Candidates \cup {None}]
      /\ cand \in [Workers -> Candidates \cup {None}]
      /\ seen \in [Workers -> Plans \cup {None}]
      /\ result \in [Workers -> Verdicts \cup {None}]
      /\ granted \in [Tasks -> SUBSET Candidates]
  BY DEF TypeOK
<1> USE CoordinatorAssumption DEF GrantInv, FilesOfPlan, Serve, MoveTo, Finish, ReleaseLock,
     LockFree, tables, hands, history, bounds, 
        WithStatus, HasRow, Recorded, Canceled, Planned, Preparable, StillAccepted,
             DigestConfirms, RowsMarked
<1>1. ASSUME NEW t \in Tasks, SubmitRefused(t) PROVE GrantInv'
  BY <1>1, <1>0 DEF SubmitRefused
<1>2. ASSUME NEW t \in Tasks, Cancel(t) PROVE GrantInv'
  BY <1>2, <1>0 DEF Cancel
<1>3. ASSUME NEW t \in Tasks, DeleteTask(t) PROVE GrantInv'
  BY <1>3, <1>0 DEF DeleteTask
<1>4. ASSUME NEW w \in Workers, NEW t \in Tasks, Submit(w, t) PROVE GrantInv'
  BY <1>4, <1>0 DEF Submit
<1>5. ASSUME NEW w \in Workers, NEW t \in Tasks, DraftPlan(w, t) PROVE GrantInv'
  BY <1>5, <1>0 DEF DraftPlan
<1>6. ASSUME NEW w \in Workers, NEW t \in Tasks, PrepareProposal(w, t) PROVE GrantInv'
  BY <1>6, <1>0 DEF PrepareProposal
<1>7. ASSUME NEW w \in Workers, NEW t \in Tasks, ProviderInput(w, t) PROVE GrantInv'
  BY <1>7, <1>0 DEF ProviderInput
<1>8. ASSUME NEW w \in Workers, NEW t \in Tasks, NEW d \in Candidates,
     Approve(w, t, d) PROVE GrantInv'
  BY <1>8, <1>0 DEF Approve
<1>9. ASSUME NEW w \in Workers, DraftPlanReturns(w) PROVE GrantInv'
  BY <1>9, <1>0 DEF DraftPlanReturns
<1>10. ASSUME NEW w \in Workers, ProposeReturns(w) PROVE GrantInv'
  BY <1>10, <1>0 DEF ProposeReturns
<1>11. ASSUME NEW w \in Workers, ProposalDropped(w) PROVE GrantInv'
  BY <1>11, <1>0 DEF ProposalDropped
<1>12. ASSUME NEW w \in Workers, RecordProposal(w) PROVE GrantInv'
  BY <1>12, <1>0 DEF RecordProposal, Candidates
<1>13. ASSUME NEW w \in Workers, PublishProposal(w) PROVE GrantInv'
  BY <1>13, <1>0 DEF PublishProposal
<1>14. ASSUME NEW w \in Workers, ApproveCommit(w) PROVE GrantInv'
  BY <1>14, <1>0 DEF ApproveCommit
<1>15. ASSUME NEW w \in Workers, ExecutePrecheck(w) PROVE GrantInv'
  BY <1>15, <1>0 DEF ExecutePrecheck
<1>16. ASSUME NEW w \in Workers, ExecuteStandsDown(w) PROVE GrantInv'
  BY <1>16, <1>0 DEF ExecuteStandsDown
<1>17. ASSUME NEW w \in Workers, Execute(w) PROVE GrantInv'
  BY <1>17, <1>0 DEF Execute, Ready
<1>18. ASSUME NEW w \in Workers, ExecutorWrites(w) PROVE GrantInv'
  BY <1>18, <1>0 DEF ExecutorWrites
<1>19. ASSUME NEW w \in Workers, ExecutorReturns(w) PROVE GrantInv'
  BY <1>19, <1>0 DEF ExecutorReturns
<1>20. ASSUME NEW w \in Workers, LedgerRaises(w) PROVE GrantInv'
  BY <1>20, <1>0 DEF LedgerRaises
<1>21. ASSUME NEW w \in Workers, RecordResult(w) PROVE GrantInv'
  BY <1>21, <1>0 DEF RecordResult
<1>22. ASSUME NEW w \in Workers, ContinueConversation(w) PROVE GrantInv'
  BY <1>22, <1>0 DEF ContinueConversation
<1>23. ASSUME NEW w \in Workers, ConversationReturns(w) PROVE GrantInv'
  BY <1>23, <1>0 DEF ConversationReturns
<1>24. ASSUME NEW w \in Workers, EventClash(w) PROVE GrantInv'
  BY <1>24, <1>0 DEF EventClash
<1>25. ASSUME Restart PROVE GrantInv'
  BY <1>25, <1>0 DEF Restart
<1>26. CASE UNCHANGED vars
  BY <1>26, <1>0 DEF vars
<1> QED
  BY <1>1, <1>2, <1>3, <1>4, <1>5, <1>6, <1>7, <1>8, <1>9, <1>10, <1>11, <1>12, <1>13, <1>14,
       <1>15, <1>16, <1>17, <1>18, <1>19, <1>20, <1>21, <1>22, <1>23, <1>24, <1>25,
            <1>26 DEF Next, Request, WorkerStep

\* A task is accepted a second time only by an approval, and a run takes the
\* status away with the approval.
LEMMA UnspentStep == TypeOK /\ HoldingInv /\ UnspentInv /\ [Next]_vars => UnspentInv'
<1> SUFFICES ASSUME TypeOK, HoldingInv, UnspentInv, [Next]_vars PROVE UnspentInv'
  OBVIOUS
<1>0. /\ status \in [Tasks -> Statuses]
      /\ pc \in [Workers -> Places] /\ task \in [Workers -> Tasks \cup {None}]
      /\ \A w \in Workers : pc[w] # "idle" => task[w] \in Tasks
      /\ \A w \in Workers : pc[w] = "ran" => result[w] \in Verdicts
      /\ plan \in [Tasks -> Plans \cup {None}]
      /\ proposal \in [Tasks -> Candidates \cup {None}]
      /\ approval \in [Tasks -> Candidates \cup {None}]
      /\ cand \in [Workers -> Candidates \cup {None}]
      /\ seen \in [Workers -> Plans \cup {None}]
      /\ result \in [Workers -> Verdicts \cup {None}]
      /\ unspent \in [Tasks -> BOOLEAN]
  BY DEF TypeOK
<1> USE CoordinatorAssumption DEF HoldingInv, UnspentInv, Serve, MoveTo, Finish, ReleaseLock,
     LockFree, tables, hands, history, bounds, 
        WithStatus, HasRow, Recorded, Canceled, Planned, Preparable, StillAccepted,
             DigestConfirms, RowsMarked
<1>1. ASSUME NEW t \in Tasks, SubmitRefused(t) PROVE UnspentInv'
  BY <1>1, <1>0 DEF SubmitRefused
<1>2. ASSUME NEW t \in Tasks, Cancel(t) PROVE UnspentInv'
  BY <1>2, <1>0 DEF Cancel
<1>3. ASSUME NEW t \in Tasks, DeleteTask(t) PROVE UnspentInv'
  BY <1>3, <1>0 DEF DeleteTask
<1>4. ASSUME NEW w \in Workers, NEW t \in Tasks, Submit(w, t) PROVE UnspentInv'
  BY <1>4, <1>0 DEF Submit
<1>5. ASSUME NEW w \in Workers, NEW t \in Tasks, DraftPlan(w, t) PROVE UnspentInv'
  BY <1>5, <1>0 DEF DraftPlan
<1>6. ASSUME NEW w \in Workers, NEW t \in Tasks, PrepareProposal(w, t) PROVE UnspentInv'
  BY <1>6, <1>0 DEF PrepareProposal
<1>7. ASSUME NEW w \in Workers, NEW t \in Tasks, ProviderInput(w, t) PROVE UnspentInv'
  BY <1>7, <1>0 DEF ProviderInput
<1>8. ASSUME NEW w \in Workers, NEW t \in Tasks, NEW d \in Candidates,
     Approve(w, t, d) PROVE UnspentInv'
  BY <1>8, <1>0 DEF Approve
<1>9. ASSUME NEW w \in Workers, DraftPlanReturns(w) PROVE UnspentInv'
  BY <1>9, <1>0 DEF DraftPlanReturns
<1>10. ASSUME NEW w \in Workers, ProposeReturns(w) PROVE UnspentInv'
  BY <1>10, <1>0 DEF ProposeReturns
<1>11. ASSUME NEW w \in Workers, ProposalDropped(w) PROVE UnspentInv'
  BY <1>11, <1>0 DEF ProposalDropped
<1>12. ASSUME NEW w \in Workers, RecordProposal(w) PROVE UnspentInv'
  BY <1>12, <1>0 DEF RecordProposal, Verdicts
<1>13. ASSUME NEW w \in Workers, PublishProposal(w) PROVE UnspentInv'
  BY <1>13, <1>0 DEF PublishProposal
<1>14. ASSUME NEW w \in Workers, ApproveCommit(w) PROVE UnspentInv'
  BY <1>14, <1>0 DEF ApproveCommit
<1>15. ASSUME NEW w \in Workers, ExecutePrecheck(w) PROVE UnspentInv'
  BY <1>15, <1>0 DEF ExecutePrecheck
<1>16. ASSUME NEW w \in Workers, ExecuteStandsDown(w) PROVE UnspentInv'
  BY <1>16, <1>0 DEF ExecuteStandsDown
<1>17. ASSUME NEW w \in Workers, Execute(w) PROVE UnspentInv'
  BY <1>17, <1>0 DEF Execute
<1>18. ASSUME NEW w \in Workers, ExecutorWrites(w) PROVE UnspentInv'
  BY <1>18, <1>0 DEF ExecutorWrites
<1>19. ASSUME NEW w \in Workers, ExecutorReturns(w) PROVE UnspentInv'
  BY <1>19, <1>0 DEF ExecutorReturns
<1>20. ASSUME NEW w \in Workers, LedgerRaises(w) PROVE UnspentInv'
  BY <1>20, <1>0 DEF LedgerRaises
<1>21. ASSUME NEW w \in Workers, RecordResult(w) PROVE UnspentInv'
  BY <1>21, <1>0 DEF RecordResult, Verdicts
<1>22. ASSUME NEW w \in Workers, ContinueConversation(w) PROVE UnspentInv'
  BY <1>22, <1>0 DEF ContinueConversation
<1>23. ASSUME NEW w \in Workers, ConversationReturns(w) PROVE UnspentInv'
  BY <1>23, <1>0 DEF ConversationReturns, Verdicts
<1>24. ASSUME NEW w \in Workers, EventClash(w) PROVE UnspentInv'
  BY <1>24, <1>0 DEF EventClash, Verdicts
<1>25. ASSUME Restart PROVE UnspentInv'
  BY <1>25, <1>0 DEF Restart
<1>26. CASE UNCHANGED vars
  BY <1>26, <1>0 DEF vars
<1> QED
  BY <1>1, <1>2, <1>3, <1>4, <1>5, <1>6, <1>7, <1>8, <1>9, <1>10, <1>11, <1>12, <1>13, <1>14,
       <1>15, <1>16, <1>17, <1>18, <1>19, <1>20, <1>21, <1>22, <1>23, <1>24, <1>25,
            <1>26 DEF Next, Request, WorkerStep

\* An execute thread waits for an accepted task whose rows only a publishing
\* thread can tear apart, and that one makes the task wait for approval again.
LEMMA MatchStep == TypeOK /\ HoldingInv /\ BusyInv /\ MatchInv /\ [Next]_vars => MatchInv'
<1> SUFFICES ASSUME TypeOK, HoldingInv, BusyInv, MatchInv, [Next]_vars PROVE MatchInv'
  OBVIOUS
<1>0. /\ status \in [Tasks -> Statuses]
      /\ pc \in [Workers -> Places] /\ task \in [Workers -> Tasks \cup {None}]
      /\ \A w \in Workers : pc[w] # "idle" => task[w] \in Tasks
      /\ \A w \in Workers : pc[w] = "ran" => result[w] \in Verdicts
      /\ plan \in [Tasks -> Plans \cup {None}]
      /\ proposal \in [Tasks -> Candidates \cup {None}]
      /\ approval \in [Tasks -> Candidates \cup {None}]
      /\ cand \in [Workers -> Candidates \cup {None}]
      /\ seen \in [Workers -> Plans \cup {None}]
      /\ result \in [Workers -> Verdicts \cup {None}]
  BY DEF TypeOK
<1> USE CoordinatorAssumption DEF Holding, Ready, HoldingInv, BusyInv, MatchInv, Serve, MoveTo,
     Finish, ReleaseLock, LockFree, tables, hands, history, bounds, 
        WithStatus, HasRow, Recorded, Canceled, Planned, Preparable, StillAccepted,
             DigestConfirms, RowsMarked
<1>1. ASSUME NEW t \in Tasks, SubmitRefused(t) PROVE MatchInv'
  BY <1>1, <1>0 DEF SubmitRefused
<1>2. ASSUME NEW t \in Tasks, Cancel(t) PROVE MatchInv'
  BY <1>2, <1>0 DEF Cancel
<1>3. ASSUME NEW t \in Tasks, DeleteTask(t) PROVE MatchInv'
  BY <1>3, <1>0 DEF DeleteTask
<1>4. ASSUME NEW w \in Workers, NEW t \in Tasks, Submit(w, t) PROVE MatchInv'
  BY <1>4, <1>0 DEF Submit
<1>5. ASSUME NEW w \in Workers, NEW t \in Tasks, DraftPlan(w, t) PROVE MatchInv'
  BY <1>5, <1>0 DEF DraftPlan
<1>6. ASSUME NEW w \in Workers, NEW t \in Tasks, PrepareProposal(w, t) PROVE MatchInv'
  BY <1>6, <1>0 DEF PrepareProposal
<1>7. ASSUME NEW w \in Workers, NEW t \in Tasks, ProviderInput(w, t) PROVE MatchInv'
  BY <1>7, <1>0 DEF ProviderInput
<1>8. ASSUME NEW w \in Workers, NEW t \in Tasks, NEW d \in Candidates,
     Approve(w, t, d) PROVE MatchInv'
  BY <1>8, <1>0 DEF Approve
<1>9. ASSUME NEW w \in Workers, DraftPlanReturns(w) PROVE MatchInv'
  BY <1>9, <1>0 DEF DraftPlanReturns
<1>10. ASSUME NEW w \in Workers, ProposeReturns(w) PROVE MatchInv'
  BY <1>10, <1>0 DEF ProposeReturns
<1>11. ASSUME NEW w \in Workers, ProposalDropped(w) PROVE MatchInv'
  BY <1>11, <1>0 DEF ProposalDropped
<1>12. ASSUME NEW w \in Workers, RecordProposal(w) PROVE MatchInv'
  BY <1>12, <1>0 DEF RecordProposal, Verdicts
<1>13. ASSUME NEW w \in Workers, PublishProposal(w) PROVE MatchInv'
  BY <1>13, <1>0 DEF PublishProposal
<1>14. ASSUME NEW w \in Workers, ApproveCommit(w) PROVE MatchInv'
  BY <1>14, <1>0 DEF ApproveCommit
<1>15. ASSUME NEW w \in Workers, ExecutePrecheck(w) PROVE MatchInv'
  BY <1>15, <1>0 DEF ExecutePrecheck
<1>16. ASSUME NEW w \in Workers, ExecuteStandsDown(w) PROVE MatchInv'
  BY <1>16, <1>0 DEF ExecuteStandsDown
<1>17. ASSUME NEW w \in Workers, Execute(w) PROVE MatchInv'
  BY <1>17, <1>0 DEF Execute
<1>18. ASSUME NEW w \in Workers, ExecutorWrites(w) PROVE MatchInv'
  BY <1>18, <1>0 DEF ExecutorWrites
<1>19. ASSUME NEW w \in Workers, ExecutorReturns(w) PROVE MatchInv'
  BY <1>19, <1>0 DEF ExecutorReturns
<1>20. ASSUME NEW w \in Workers, LedgerRaises(w) PROVE MatchInv'
  BY <1>20, <1>0 DEF LedgerRaises
<1>21. ASSUME NEW w \in Workers, RecordResult(w) PROVE MatchInv'
  BY <1>21, <1>0 DEF RecordResult, Verdicts
<1>22. ASSUME NEW w \in Workers, ContinueConversation(w) PROVE MatchInv'
  BY <1>22, <1>0 DEF ContinueConversation
<1>23. ASSUME NEW w \in Workers, ConversationReturns(w) PROVE MatchInv'
  BY <1>23, <1>0 DEF ConversationReturns, Verdicts
<1>24. ASSUME NEW w \in Workers, EventClash(w) PROVE MatchInv'
  BY <1>24, <1>0 DEF EventClash, Verdicts
<1>25. ASSUME Restart PROVE MatchInv'
  BY <1>25, <1>0 DEF Restart
<1>26. CASE UNCHANGED vars
  BY <1>26, <1>0 DEF vars
<1> QED
  BY <1>1, <1>2, <1>3, <1>4, <1>5, <1>6, <1>7, <1>8, <1>9, <1>10, <1>11, <1>12, <1>13, <1>14,
       <1>15, <1>16, <1>17, <1>18, <1>19, <1>20, <1>21, <1>22, <1>23, <1>24, <1>25,
            <1>26 DEF Next, Request, WorkerStep

-----------------------------------------------------------------------------
\* The invariant holds initially and every step preserves it.
LEMMA Inductive == Spec => []IInv
<1>1. Init => IInv
  BY CoordinatorAssumption
  DEF Init, IInv, TypeOK, RunningHasWorker, HoldingInv, BusyInv, GrantInv, UnspentInv, MatchInv,
      Holding, Statuses, Cancellable, Terminal, Places
<1>2. IInv /\ [Next]_vars => IInv'
  <2> SUFFICES ASSUME IInv, [Next]_vars PROVE IInv'
    OBVIOUS
  <2>1. TypeOK'
    BY TypeStep DEF IInv
  <2>2. RunningHasWorker'
    BY RunStep DEF IInv
  <2>3. HoldingInv'
    BY HoldingStep DEF IInv
  <2>4. BusyInv'
    BY BusyStep DEF IInv
  <2>5. GrantInv'
    BY GrantStep DEF IInv
  <2>6. UnspentInv'
    BY UnspentStep DEF IInv
  <2>7. MatchInv'
    BY MatchStep DEF IInv
  <2> QED
    BY <2>1, <2>2, <2>3, <2>4, <2>5, <2>6, <2>7 DEF IInv
<1> QED
  BY <1>1, <1>2, PTL DEF Spec

\* Type correctness.
THEOREM TypeCorrect == Spec => []TypeOK
<1>1. IInv => TypeOK
  BY DEF IInv
<1> QED
  BY <1>1, Inductive, PTL

\* A task shown as running is run by a thread, or its thread died after the run
\* began: no recording, cancelation race or restart leaves the status behind.
THEOREM RunningIsHonest == Spec => []RunningHasWorker
<1>1. IInv => RunningHasWorker
  BY DEF IInv
<1> QED
  BY <1>1, Inductive, PTL

\* Files are written for an ask_before_changes task only if the user approved
\* their digest for that task, and only the files of the captured plan.
THEOREM OnlyApprovedFilesAreWritten == Spec => []WritesApproved
<1>1. IInv => WritesApproved
  BY DEF IInv, GrantInv, WritesApproved, FilesOfPlan
<1> QED
  BY <1>1, Inductive, PTL

\* A thread that gets the lock in execute and finds its task accepted finds the
\* plan and a proposal that is the approved one.
THEOREM ExecuteIsPrepared == Spec => []ExecuteFindsApproval
<1>1. IInv => ExecuteFindsApproval
  <2> SUFFICES ASSUME IInv, NEW w \in Workers, pc[w] = "starting", LockFree,
                      status[task[w]] = "accepted"
               PROVE  Ready(task[w])
    BY DEF ExecuteFindsApproval
  <2>1. \A v \in Workers : pc[v] # "publishing"
    BY CoordinatorAssumption DEF IInv, HoldingInv, Holding, LockFree
  <2> QED
    BY <2>1 DEF IInv, MatchInv
<1> QED
  BY <1>1, Inductive, PTL

\* A run starts only on an approval that no run has taken.
THEOREM ApprovalIsSingleUse == Spec => ApprovalSingleUse
<1>1. IInv /\ [Next]_vars => [\A w \in Workers :
         pc[w] = "starting" /\ pc'[w] \in {"running", "dead"} /\ task[w] \in AskTasks
           => unspent[task[w]]]_vars
  <2> SUFFICES ASSUME IInv, [Next]_vars, NEW u \in Workers, pc[u] = "starting",
                      pc'[u] \in {"running", "dead"},
                           task[u] \in AskTasks PROVE unspent[task[u]]
    OBVIOUS
  <2>0. /\ pc \in [Workers -> Places] /\ task \in [Workers -> Tasks \cup {None}]
        /\ \A w \in Workers : pc[w] # "idle" => task[w] \in Tasks
    BY DEF IInv, TypeOK
  <2>00. UnspentInv
    BY DEF IInv
  <2> USE CoordinatorAssumption DEF UnspentInv, Holding, Serve, MoveTo, Finish, ReleaseLock,
       LockFree, tables, hands, history, bounds, 
          WithStatus, HasRow, Recorded, Canceled, Planned, Preparable, StillAccepted,
               DigestConfirms, RowsMarked
  <2>1. ASSUME NEW t \in Tasks, SubmitRefused(t) PROVE unspent[task[u]]
    BY <2>1, <2>0, <2>00 DEF SubmitRefused
  <2>2. ASSUME NEW t \in Tasks, Cancel(t) PROVE unspent[task[u]]
    BY <2>2, <2>0, <2>00 DEF Cancel
  <2>3. ASSUME NEW t \in Tasks, DeleteTask(t) PROVE unspent[task[u]]
    BY <2>3, <2>0, <2>00 DEF DeleteTask
  <2>4. ASSUME NEW w \in Workers, NEW t \in Tasks, Submit(w, t) PROVE unspent[task[u]]
    BY <2>4, <2>0, <2>00 DEF Submit
  <2>5. ASSUME NEW w \in Workers, NEW t \in Tasks, DraftPlan(w, t) PROVE unspent[task[u]]
    BY <2>5, <2>0, <2>00 DEF DraftPlan
  <2>6. ASSUME NEW w \in Workers, NEW t \in Tasks, PrepareProposal(w, t) PROVE unspent[task[u]]
    BY <2>6, <2>0, <2>00 DEF PrepareProposal
  <2>7. ASSUME NEW w \in Workers, NEW t \in Tasks, ProviderInput(w, t) PROVE unspent[task[u]]
    BY <2>7, <2>0, <2>00 DEF ProviderInput
  <2>8. ASSUME NEW w \in Workers, NEW t \in Tasks, NEW d \in Candidates,
       Approve(w, t, d) PROVE unspent[task[u]]
    BY <2>8, <2>0, <2>00 DEF Approve
  <2>9. ASSUME NEW w \in Workers, DraftPlanReturns(w) PROVE unspent[task[u]]
    BY <2>9, <2>0, <2>00 DEF DraftPlanReturns
  <2>10. ASSUME NEW w \in Workers, ProposeReturns(w) PROVE unspent[task[u]]
    BY <2>10, <2>0, <2>00 DEF ProposeReturns
  <2>11. ASSUME NEW w \in Workers, ProposalDropped(w) PROVE unspent[task[u]]
    BY <2>11, <2>0, <2>00 DEF ProposalDropped
  <2>12. ASSUME NEW w \in Workers, RecordProposal(w) PROVE unspent[task[u]]
    BY <2>12, <2>0, <2>00 DEF RecordProposal
  <2>13. ASSUME NEW w \in Workers, PublishProposal(w) PROVE unspent[task[u]]
    BY <2>13, <2>0, <2>00 DEF PublishProposal
  <2>14. ASSUME NEW w \in Workers, ApproveCommit(w) PROVE unspent[task[u]]
    BY <2>14, <2>0, <2>00 DEF ApproveCommit
  <2>15. ASSUME NEW w \in Workers, ExecutePrecheck(w) PROVE unspent[task[u]]
    BY <2>15, <2>0, <2>00 DEF ExecutePrecheck
  <2>16. ASSUME NEW w \in Workers, ExecuteStandsDown(w) PROVE unspent[task[u]]
    BY <2>16, <2>0, <2>00 DEF ExecuteStandsDown
  <2>17. ASSUME NEW w \in Workers, Execute(w) PROVE unspent[task[u]]
    BY <2>17, <2>0, <2>00 DEF Execute, Ready
  <2>18. ASSUME NEW w \in Workers, ExecutorWrites(w) PROVE unspent[task[u]]
    BY <2>18, <2>0, <2>00 DEF ExecutorWrites
  <2>19. ASSUME NEW w \in Workers, ExecutorReturns(w) PROVE unspent[task[u]]
    BY <2>19, <2>0, <2>00 DEF ExecutorReturns
  <2>20. ASSUME NEW w \in Workers, LedgerRaises(w) PROVE unspent[task[u]]
    BY <2>20, <2>0, <2>00 DEF LedgerRaises
  <2>21. ASSUME NEW w \in Workers, RecordResult(w) PROVE unspent[task[u]]
    BY <2>21, <2>0, <2>00 DEF RecordResult
  <2>22. ASSUME NEW w \in Workers, ContinueConversation(w) PROVE unspent[task[u]]
    BY <2>22, <2>0, <2>00 DEF ContinueConversation
  <2>23. ASSUME NEW w \in Workers, ConversationReturns(w) PROVE unspent[task[u]]
    BY <2>23, <2>0, <2>00 DEF ConversationReturns
  <2>24. ASSUME NEW w \in Workers, EventClash(w) PROVE unspent[task[u]]
    BY <2>24, <2>0, <2>00 DEF EventClash, Ready
  <2>25. ASSUME Restart PROVE unspent[task[u]]
    BY <2>25, <2>0, <2>00 DEF Restart
  <2>26. CASE UNCHANGED vars
    BY <2>26, <2>0, <2>00 DEF vars
  <2> QED
    BY <2>1, <2>2, <2>3, <2>4, <2>5, <2>6, <2>7, <2>8, <2>9, <2>10, <2>11, <2>12, <2>13, <2>14,
         <2>15, <2>16, <2>17, <2>18, <2>19, <2>20, <2>21, <2>22, <2>23, <2>24, <2>25,
              <2>26 DEF Next, Request, WorkerStep
<1> QED
  BY <1>1, Inductive, PTL DEF Spec, ApprovalSingleUse

\* A canceled or interrupted task keeps its status until it is purged.
THEOREM ClosedTasksStayClosed == Spec => ClosedIsFinal
<1>1. IInv /\ [Next]_vars => [\A t \in Tasks :
         status[t] \in {"canceled", "interrupted"} => status'[t] \in {status[t], "purged"}]_vars
  <2> SUFFICES ASSUME IInv, [Next]_vars, NEW u \in Tasks, status[u] \in {"canceled",
       "interrupted"} PROVE status'[u] \in {status[u], "purged"}
    OBVIOUS
  <2>0. /\ status \in [Tasks -> Statuses]
        /\ \A w \in Workers : pc[w] # "idle" => task[w] \in Tasks
    BY DEF IInv, TypeOK
  <2>00. HoldingInv /\ BusyInv
    BY DEF IInv
  <2> USE CoordinatorAssumption DEF HoldingInv, BusyInv, Holding, Serve, MoveTo, Finish,
       ReleaseLock, LockFree, tables, hands, history, bounds, 
          WithStatus, HasRow, Recorded, Canceled, Planned, Preparable, StillAccepted,
               DigestConfirms, RowsMarked
  <2>1. ASSUME NEW t \in Tasks, SubmitRefused(t) PROVE status'[u] \in {status[u], "purged"}
    BY <2>1, <2>0, <2>00 DEF SubmitRefused
  <2>2. ASSUME NEW t \in Tasks, Cancel(t) PROVE status'[u] \in {status[u], "purged"}
    BY <2>2, <2>0, <2>00 DEF Cancel, Cancellable
  <2>3. ASSUME NEW t \in Tasks, DeleteTask(t) PROVE status'[u] \in {status[u], "purged"}
    BY <2>3, <2>0, <2>00 DEF DeleteTask
  <2>4. ASSUME NEW w \in Workers, NEW t \in Tasks,
       Submit(w, t) PROVE status'[u] \in {status[u], "purged"}
    BY <2>4, <2>0, <2>00 DEF Submit
  <2>5. ASSUME NEW w \in Workers, NEW t \in Tasks,
       DraftPlan(w, t) PROVE status'[u] \in {status[u], "purged"}
    BY <2>5, <2>0, <2>00 DEF DraftPlan
  <2>6. ASSUME NEW w \in Workers, NEW t \in Tasks,
       PrepareProposal(w, t) PROVE status'[u] \in {status[u], "purged"}
    BY <2>6, <2>0, <2>00 DEF PrepareProposal
  <2>7. ASSUME NEW w \in Workers, NEW t \in Tasks,
       ProviderInput(w, t) PROVE status'[u] \in {status[u], "purged"}
    BY <2>7, <2>0, <2>00 DEF ProviderInput
  <2>8. ASSUME NEW w \in Workers, NEW t \in Tasks, NEW d \in Candidates,
       Approve(w, t, d) PROVE status'[u] \in {status[u], "purged"}
    BY <2>8, <2>0, <2>00 DEF Approve
  <2>9. ASSUME NEW w \in Workers, DraftPlanReturns(w) PROVE status'[u] \in {status[u], "purged"}
    BY <2>9, <2>0, <2>00 DEF DraftPlanReturns
  <2>10. ASSUME NEW w \in Workers, ProposeReturns(w) PROVE status'[u] \in {status[u], "purged"}
    BY <2>10, <2>0, <2>00 DEF ProposeReturns
  <2>11. ASSUME NEW w \in Workers, ProposalDropped(w) PROVE status'[u] \in {status[u], "purged"}
    BY <2>11, <2>0, <2>00 DEF ProposalDropped
  <2>12. ASSUME NEW w \in Workers, RecordProposal(w) PROVE status'[u] \in {status[u], "purged"}
    BY <2>12, <2>0, <2>00 DEF RecordProposal
  <2>13. ASSUME NEW w \in Workers, PublishProposal(w) PROVE status'[u] \in {status[u], "purged"}
    BY <2>13, <2>0, <2>00 DEF PublishProposal
  <2>14. ASSUME NEW w \in Workers, ApproveCommit(w) PROVE status'[u] \in {status[u], "purged"}
    BY <2>14, <2>0, <2>00 DEF ApproveCommit
  <2>15. ASSUME NEW w \in Workers, ExecutePrecheck(w) PROVE status'[u] \in {status[u], "purged"}
    BY <2>15, <2>0, <2>00 DEF ExecutePrecheck
  <2>16. ASSUME NEW w \in Workers, ExecuteStandsDown(w) PROVE status'[u] \in {status[u],
       "purged"}
    BY <2>16, <2>0, <2>00 DEF ExecuteStandsDown
  <2>17. ASSUME NEW w \in Workers, Execute(w) PROVE status'[u] \in {status[u], "purged"}
    BY <2>17, <2>0, <2>00 DEF Execute
  <2>18. ASSUME NEW w \in Workers, ExecutorWrites(w) PROVE status'[u] \in {status[u], "purged"}
    BY <2>18, <2>0, <2>00 DEF ExecutorWrites
  <2>19. ASSUME NEW w \in Workers, ExecutorReturns(w) PROVE status'[u] \in {status[u], "purged"}
    BY <2>19, <2>0, <2>00 DEF ExecutorReturns
  <2>20. ASSUME NEW w \in Workers, LedgerRaises(w) PROVE status'[u] \in {status[u], "purged"}
    BY <2>20, <2>0, <2>00 DEF LedgerRaises
  <2>21. ASSUME NEW w \in Workers, RecordResult(w) PROVE status'[u] \in {status[u], "purged"}
    BY <2>21, <2>0, <2>00 DEF RecordResult
  <2>22. ASSUME NEW w \in Workers, ContinueConversation(w) PROVE status'[u] \in {status[u],
       "purged"}
    BY <2>22, <2>0, <2>00 DEF ContinueConversation
  <2>23. ASSUME NEW w \in Workers, ConversationReturns(w) PROVE status'[u] \in {status[u],
       "purged"}
    BY <2>23, <2>0, <2>00 DEF ConversationReturns
  <2>24. ASSUME NEW w \in Workers, EventClash(w) PROVE status'[u] \in {status[u], "purged"}
    BY <2>24, <2>0, <2>00 DEF EventClash
  <2>25. ASSUME Restart PROVE status'[u] \in {status[u], "purged"}
    BY <2>25, <2>0, <2>00 DEF Restart
  <2>26. CASE UNCHANGED vars
    BY <2>26, <2>0, <2>00 DEF vars
  <2> QED
    BY <2>1, <2>2, <2>3, <2>4, <2>5, <2>6, <2>7, <2>8, <2>9, <2>10, <2>11, <2>12, <2>13, <2>14,
         <2>15, <2>16, <2>17, <2>18, <2>19, <2>20, <2>21, <2>22, <2>23, <2>24, <2>25,
              <2>26 DEF Next, Request, WorkerStep
<1> QED
  BY <1>1, Inductive, PTL DEF Spec, ClosedIsFinal

\* A settled task is reopened only by a thread that was at work for it.
THEOREM OnlyLateThreadsReopen == Spec => SettledOnlyReopenedByLateThread
<1>1. IInv /\ [Next]_vars => [\A t \in Tasks :
         status[t] \in {"completed", "failed", "blocked"}
           /\ status'[t] \notin {status[t], "purged"} =>
           \E w \in Workers : task[w] = t /\ pc[w] \in {"proposed", "publishing", "ran"}]_vars
  <2> SUFFICES ASSUME IInv, [Next]_vars, NEW u \in Tasks,
                      status[u] \in {"completed", "failed", "blocked"},
                      status'[u] \notin {status[u],
                           "purged"}
                                PROVE \E v \in Workers : task[v] = u /\ pc[v] \in {"proposed",
                                     "publishing", "ran"}
    OBVIOUS
  <2>0. /\ status \in [Tasks -> Statuses]
        /\ \A w \in Workers : pc[w] # "idle" => task[w] \in Tasks
    BY DEF IInv, TypeOK
  <2>00. HoldingInv
    BY DEF IInv
  <2> USE CoordinatorAssumption DEF HoldingInv, Holding, Serve, MoveTo, Finish, ReleaseLock,
       LockFree, tables, hands, history, bounds, 
          WithStatus, HasRow, Recorded, Canceled, Planned, Preparable, StillAccepted,
               DigestConfirms, RowsMarked
  <2>1. ASSUME NEW t \in Tasks,
       SubmitRefused(t) PROVE \E v \in Workers : task[v] = u /\ pc[v] \in {"proposed",
            "publishing", "ran"}
    BY <2>1, <2>0, <2>00 DEF SubmitRefused
  <2>2. ASSUME NEW t \in Tasks,
       Cancel(t) PROVE \E v \in Workers : task[v] = u /\ pc[v] \in {"proposed", "publishing",
            "ran"}
    BY <2>2, <2>0, <2>00 DEF Cancel, Cancellable
  <2>3. ASSUME NEW t \in Tasks,
       DeleteTask(t) PROVE \E v \in Workers : task[v] = u /\ pc[v] \in {"proposed",
            "publishing", "ran"}
    BY <2>3, <2>0, <2>00 DEF DeleteTask
  <2>4. ASSUME NEW w \in Workers, NEW t \in Tasks,
       Submit(w, t) PROVE \E v \in Workers : task[v] = u /\ pc[v] \in {"proposed",
            "publishing", "ran"}
    BY <2>4, <2>0, <2>00 DEF Submit
  <2>5. ASSUME NEW w \in Workers, NEW t \in Tasks,
       DraftPlan(w, t) PROVE \E v \in Workers : task[v] = u /\ pc[v] \in {"proposed",
            "publishing", "ran"}
    BY <2>5, <2>0, <2>00 DEF DraftPlan
  <2>6. ASSUME NEW w \in Workers, NEW t \in Tasks,
       PrepareProposal(w, t) PROVE \E v \in Workers : task[v] = u /\ pc[v] \in {"proposed",
            "publishing", "ran"}
    BY <2>6, <2>0, <2>00 DEF PrepareProposal
  <2>7. ASSUME NEW w \in Workers, NEW t \in Tasks,
       ProviderInput(w, t) PROVE \E v \in Workers : task[v] = u /\ pc[v] \in {"proposed",
            "publishing", "ran"}
    BY <2>7, <2>0, <2>00 DEF ProviderInput
  <2>8. ASSUME NEW w \in Workers, NEW t \in Tasks, NEW d \in Candidates,
       Approve(w, t, d) PROVE \E v \in Workers : task[v] = u /\ pc[v] \in {"proposed",
            "publishing", "ran"}
    BY <2>8, <2>0, <2>00 DEF Approve
  <2>9. ASSUME NEW w \in Workers,
       DraftPlanReturns(w) PROVE \E v \in Workers : task[v] = u /\ pc[v] \in {"proposed",
            "publishing", "ran"}
    BY <2>9, <2>0, <2>00 DEF DraftPlanReturns
  <2>10. ASSUME NEW w \in Workers,
       ProposeReturns(w) PROVE \E v \in Workers : task[v] = u /\ pc[v] \in {"proposed",
            "publishing", "ran"}
    BY <2>10, <2>0, <2>00 DEF ProposeReturns
  <2>11. ASSUME NEW w \in Workers,
       ProposalDropped(w) PROVE \E v \in Workers : task[v] = u /\ pc[v] \in {"proposed",
            "publishing", "ran"}
    BY <2>11, <2>0, <2>00 DEF ProposalDropped
  <2>12. ASSUME NEW w \in Workers,
       RecordProposal(w) PROVE \E v \in Workers : task[v] = u /\ pc[v] \in {"proposed",
            "publishing", "ran"}
    BY <2>12, <2>0, <2>00 DEF RecordProposal
  <2>13. ASSUME NEW w \in Workers,
       PublishProposal(w) PROVE \E v \in Workers : task[v] = u /\ pc[v] \in {"proposed",
            "publishing", "ran"}
    BY <2>13, <2>0, <2>00 DEF PublishProposal
  <2>14. ASSUME NEW w \in Workers,
       ApproveCommit(w) PROVE \E v \in Workers : task[v] = u /\ pc[v] \in {"proposed",
            "publishing", "ran"}
    BY <2>14, <2>0, <2>00 DEF ApproveCommit
  <2>15. ASSUME NEW w \in Workers,
       ExecutePrecheck(w) PROVE \E v \in Workers : task[v] = u /\ pc[v] \in {"proposed",
            "publishing", "ran"}
    BY <2>15, <2>0, <2>00 DEF ExecutePrecheck
  <2>16. ASSUME NEW w \in Workers,
       ExecuteStandsDown(w) PROVE \E v \in Workers : task[v] = u /\ pc[v] \in {"proposed",
            "publishing", "ran"}
    BY <2>16, <2>0, <2>00 DEF ExecuteStandsDown
  <2>17. ASSUME NEW w \in Workers,
       Execute(w) PROVE \E v \in Workers : task[v] = u /\ pc[v] \in {"proposed", "publishing",
            "ran"}
    BY <2>17, <2>0, <2>00 DEF Execute
  <2>18. ASSUME NEW w \in Workers,
       ExecutorWrites(w) PROVE \E v \in Workers : task[v] = u /\ pc[v] \in {"proposed",
            "publishing", "ran"}
    BY <2>18, <2>0, <2>00 DEF ExecutorWrites
  <2>19. ASSUME NEW w \in Workers,
       ExecutorReturns(w) PROVE \E v \in Workers : task[v] = u /\ pc[v] \in {"proposed",
            "publishing", "ran"}
    BY <2>19, <2>0, <2>00 DEF ExecutorReturns
  <2>20. ASSUME NEW w \in Workers,
       LedgerRaises(w) PROVE \E v \in Workers : task[v] = u /\ pc[v] \in {"proposed",
            "publishing", "ran"}
    BY <2>20, <2>0, <2>00 DEF LedgerRaises
  <2>21. ASSUME NEW w \in Workers,
       RecordResult(w) PROVE \E v \in Workers : task[v] = u /\ pc[v] \in {"proposed",
            "publishing", "ran"}
    BY <2>21, <2>0, <2>00 DEF RecordResult
  <2>22. ASSUME NEW w \in Workers,
       ContinueConversation(w) PROVE \E v \in Workers : task[v] = u /\ pc[v] \in {"proposed",
            "publishing", "ran"}
    BY <2>22, <2>0, <2>00 DEF ContinueConversation
  <2>23. ASSUME NEW w \in Workers,
       ConversationReturns(w) PROVE \E v \in Workers : task[v] = u /\ pc[v] \in {"proposed",
            "publishing", "ran"}
    BY <2>23, <2>0, <2>00 DEF ConversationReturns
  <2>24. ASSUME NEW w \in Workers,
       EventClash(w) PROVE \E v \in Workers : task[v] = u /\ pc[v] \in {"proposed",
            "publishing", "ran"}
    BY <2>24, <2>0, <2>00 DEF EventClash
  <2>25. ASSUME Restart PROVE \E v \in Workers : task[v] = u /\ pc[v] \in {"proposed",
       "publishing", "ran"}
    BY <2>25, <2>0, <2>00 DEF Restart
  <2>26. CASE UNCHANGED vars
    BY <2>26, <2>0, <2>00 DEF vars
  <2> QED
    BY <2>1, <2>2, <2>3, <2>4, <2>5, <2>6, <2>7, <2>8, <2>9, <2>10, <2>11, <2>12, <2>13, <2>14,
         <2>15, <2>16, <2>17, <2>18, <2>19, <2>20, <2>21, <2>22, <2>23, <2>24, <2>25,
              <2>26 DEF Next, Request, WorkerStep
<1> QED
  BY <1>1, Inductive, PTL DEF Spec, SettledOnlyReopenedByLateThread

-----------------------------------------------------------------------------
(* The lock goes round *)

\* How many steps a thread takes at most from a place until it is idle or dead.
StepsLeft(place) ==
  CASE place = "approving"                              -> 7
    [] place = "prechecking"                            -> 6
    [] place = "starting"                               -> 5
    [] place = "running"                                -> 4
    [] place \in {"proposing", "writing"}               -> 3
    [] place \in {"proposed", "ran", "answering"}       -> 2
    [] place \in {"drafting", "publishing", "conversing"} -> 1
    [] place \in {"idle", "dead"}                       -> 0

\* A thread takes the lock when it is free, works on without it, or gives it back.
Takes(w)   == lock = None /\ lock' = w /\ pc[w] \notin Holding /\ pc'[w] \in Holding
Without(w) == lock' = lock /\ pc[w] \notin Holding /\ pc'[w] \notin Holding
Returns(w) == lock' = None /\ pc[w] \in Holding /\ pc'[w] \notin Holding

OthersRest(w) == \A v \in Workers \ {w} : pc'[v] = pc[v]

\* A client's request gives an idle thread its work.
LEMMA RequestMoves ==
  ASSUME TypeOK, Request
  PROVE  \/ UNCHANGED <<lock, pc>>
         \/ \E w \in Workers : pc[w] = "idle" /\ OthersRest(w) /\ (Takes(w) \/ Without(w))
<1> USE DEF OthersRest, Takes, Without, Holding
<1>1. pc \in [Workers -> Places]
  BY DEF TypeOK
<1>2. CASE \E t \in Tasks : SubmitRefused(t) \/ Cancel(t) \/ DeleteTask(t)
  BY <1>2 DEF SubmitRefused, Cancel, DeleteTask
<1>3. CASE \E w \in Workers, t \in Tasks :
             Submit(w, t) \/ DraftPlan(w, t) \/ PrepareProposal(w, t) \/ ProviderInput(w, t)
  BY <1>1, <1>3 DEF Submit, DraftPlan, PrepareProposal, ProviderInput, Serve
<1>4. CASE \E w \in Workers, t \in Tasks, d \in Candidates : Approve(w, t, d)
  BY <1>1, <1>4 DEF Approve, Serve, LockFree
<1> QED
  BY <1>2, <1>3, <1>4 DEF Request

\* A step of its own brings a thread nearer to its end.
LEMMA WorkerMoves ==
  ASSUME TypeOK, NEW w \in Workers, WorkerStep(w)
  PROVE  /\ StepsLeft(pc'[w]) < StepsLeft(pc[w])
         /\ OthersRest(w)
         /\ Takes(w) \/ Without(w) \/ Returns(w)
<1> USE DEF OthersRest, Takes, Without, Returns, Holding, MoveTo, Finish, StepsLeft,
       ReleaseLock, LockFree
<1>1. pc \in [Workers -> Places]
  BY DEF TypeOK
<1>2. CASE DraftPlanReturns(w) \/ ProposeReturns(w) \/ ProposalDropped(w)
  BY <1>1, <1>2 DEF DraftPlanReturns, ProposeReturns, ProposalDropped
<1>3. CASE RecordProposal(w)
  BY <1>1, <1>3 DEF RecordProposal
<1>4. CASE PublishProposal(w) \/ ApproveCommit(w)
  BY <1>1, <1>4 DEF PublishProposal, ApproveCommit
<1>5. CASE ExecutePrecheck(w) \/ ExecuteStandsDown(w)
  BY <1>1, <1>5 DEF ExecutePrecheck, ExecuteStandsDown, tables
<1>6. CASE Execute(w)
  BY <1>1, <1>6 DEF Execute
<1>7. CASE ExecutorWrites(w) \/ ExecutorReturns(w) \/ LedgerRaises(w) \/ RecordResult(w)
  BY <1>1, <1>7 DEF ExecutorWrites, ExecutorReturns, LedgerRaises, RecordResult, tables
<1>8. CASE ContinueConversation(w) \/ ConversationReturns(w)
  BY <1>1, <1>8 DEF ContinueConversation, ConversationReturns
<1>9. CASE EventClash(w)
  BY <1>1, <1>9 DEF EventClash
<1> QED
  BY <1>2, <1>3, <1>4, <1>5, <1>6, <1>7, <1>8, <1>9 DEF WorkerStep

\* The lock is held exactly while a thread stands between the two writes of a
\* critical section: nobody waits for a lock that its holder took along, however a
\* section was left (an event clash and a restart included).
LockIsHeld ==
  /\ \A w \in Workers : lock = w <=> pc[w] \in Holding
  /\ LockFree \/ lock \in Workers

LEMMA LockStep == TypeOK /\ LockIsHeld /\ [Next]_vars => LockIsHeld'
<1> SUFFICES ASSUME TypeOK, LockIsHeld, [Next]_vars PROVE LockIsHeld'
  OBVIOUS
<1> USE CoordinatorAssumption DEF LockIsHeld, LockFree
<1>1. CASE Request
  BY <1>1, RequestMoves DEF OthersRest, Takes, Without
<1>2. CASE \E w \in Workers : WorkerStep(w)
  BY <1>2, WorkerMoves DEF OthersRest, Takes, Without, Returns
<1>3. CASE Restart
  BY <1>3 DEF Restart, Holding
<1>4. CASE UNCHANGED vars
  BY <1>4 DEF vars
<1> QED
  BY <1>1, <1>2, <1>3, <1>4 DEF Next

\* Whoever waits for the lock waits for a thread that is inside a critical section,
\* for any number of threads: exits by an exception and restarts leave no orphan.
THEOREM LockHasItsHolder == Spec => []LockIsHeld
<1>1. Init => LockIsHeld
  BY CoordinatorAssumption DEF Init, LockIsHeld, LockFree, Holding
<1> QED
  BY <1>1, LockStep, TypeCorrect, PTL DEF Spec

\* The safety half of WorkersReturn: at most seven steps of its own take a thread
\* from any place to its end, no step of another, no request and no restart sets it
\* back, and the holder of the lock gives it back with its very next step.
ThreadsAdvance ==
  [][\A w \in Workers :
       /\ WorkerStep(w) => StepsLeft(pc'[w]) < StepsLeft(pc[w])
       /\ pc[w] # "idle" => StepsLeft(pc'[w]) =< StepsLeft(pc[w])
       /\ lock = w /\ lock' # w => lock' = None
       /\ lock = w /\ WorkerStep(w) => lock' = None]_vars

\* Every thread runs down: with LockHasItsHolder, what WorkersReturn takes beyond it
\* is only that the scheduler lets the threads take their steps.
THEOREM ThreadsRunDown == Spec => ThreadsAdvance
<1> DEFINE Advances ==
      \A w \in Workers :
        /\ WorkerStep(w) => StepsLeft(pc'[w]) < StepsLeft(pc[w])
        /\ pc[w] # "idle" => StepsLeft(pc'[w]) =< StepsLeft(pc[w])
        /\ lock = w /\ lock' # w => lock' = None
        /\ lock = w /\ WorkerStep(w) => lock' = None
<1>1. ASSUME TypeOK, LockIsHeld, [Next]_vars PROVE [Advances]_vars
  <2> SUFFICES ASSUME Next PROVE Advances
    BY <1>1
  <2>1. ASSUME NEW p \in Places PROVE StepsLeft(p) \in Nat /\ StepsLeft("idle") = 0
    BY DEF StepsLeft, Places
  <2>2. \A w \in Workers : pc[w] \in Places
    BY <1>1 DEF TypeOK
  <2>3. ASSUME NEW w \in Workers, WorkerStep(w), lock = w PROVE lock' = None
    BY <1>1, <2>3, WorkerMoves DEF Takes, Without, Returns, LockIsHeld
  <2>4. ASSUME NEW w \in Workers
        PROVE  /\ pc[w] # "idle" => StepsLeft(pc'[w]) =< StepsLeft(pc[w])
               /\ lock = w /\ lock' # w => lock' = None
    <3>1. CASE Request
      BY <1>1, <2>1, <2>2, <3>1, RequestMoves, CoordinatorAssumption
      DEF OthersRest, Takes, Without, LockIsHeld
    <3>2. CASE \E v \in Workers : WorkerStep(v)
      <4>1. PICK v \in Workers : WorkerStep(v)
        BY <3>2
      <4>2. /\ StepsLeft(pc'[v]) < StepsLeft(pc[v])
            /\ OthersRest(v)
            /\ Takes(v) \/ Without(v) \/ Returns(v)
        BY <1>1, <4>1, WorkerMoves
      <4>3. StepsLeft(pc'[w]) =< StepsLeft(pc[w])
        <5>1. TypeOK'
          BY <1>1, TypeStep
        <5>2. pc'[v] \in Places
          BY <5>1 DEF TypeOK
        <5> QED
          BY <2>1, <2>2, <4>2, <5>2 DEF OthersRest
      <4>4. lock = w /\ lock' # w => lock' = None
        BY <4>2, CoordinatorAssumption DEF Takes, Without, Returns
      <4> QED
        BY <4>3, <4>4
    <3>3. CASE Restart
      BY <2>1, <2>2, <3>3 DEF Restart
    <3> QED
      BY <3>1, <3>2, <3>3 DEF Next
  <2> QED
    BY <1>1, <2>3, <2>4, WorkerMoves
<1> QED
  BY <1>1, TypeCorrect, LockHasItsHolder, PTL DEF Spec, ThreadsAdvance

=============================================================================
