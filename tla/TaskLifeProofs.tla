--------------------------- MODULE TaskLifeProofs ---------------------------
(***************************************************************************)
(* TaskCoordinator implements TaskLife, for any number of tasks, threads,  *)
(* plans and texts and any bounds: the initial states map to initial       *)
(* states, and every step of the coordinator is a step of the abstract     *)
(* life or changes nothing of it.  To the invariant of                     *)
(* TaskCoordinatorProofs it takes one more fact, about the threads that    *)
(* prepare a proposal (PrepareInv).                                        *)
(***************************************************************************)
EXTENDS TaskCoordinatorProofs

\* Only ask_before_changes tasks have a proposal prepared, and the thread that
\* publishes one finds the row it has written.
PrepareInv ==
  \A w \in Workers :
    /\ pc[w] \in {"proposing", "proposed", "publishing"} => task[w] \in AskTasks
    /\ pc[w] = "publishing" => proposal[task[w]] # None

\* PrepareInv is inductive next to the type and the lock: no other thread
\* deletes the task while its proposal is being published.
LEMMA PrepareStep == TypeOK /\ HoldingInv /\ PrepareInv /\ [Next]_vars => PrepareInv'
<1> SUFFICES ASSUME TypeOK, HoldingInv, PrepareInv, [Next]_vars PROVE PrepareInv'
  OBVIOUS
<1>0. /\ pc \in [Workers -> Places] /\ task \in [Workers -> Tasks \cup {None}]
      /\ \A w \in Workers : pc[w] # "idle" => task[w] \in Tasks
      /\ proposal \in [Tasks -> Candidates \cup {None}]
      /\ \A w \in Workers : pc[w] = "proposed" /\ result[w] = None => cand[w] \in Candidates
  BY DEF TypeOK
<1> USE CoordinatorAssumption DEF PrepareInv, HoldingInv, Holding, Serve, MoveTo, Finish,
      ReleaseLock, LockFree, tables, hands, history, bounds
<1>1. ASSUME NEW t \in Tasks, SubmitRefused(t) PROVE PrepareInv'
  BY <1>1, <1>0 DEF SubmitRefused
<1>2. ASSUME NEW t \in Tasks, Cancel(t) PROVE PrepareInv'
  BY <1>2, <1>0 DEF Cancel
<1>3. ASSUME NEW t \in Tasks, DeleteTask(t) PROVE PrepareInv'
  BY <1>3, <1>0 DEF DeleteTask
<1>4. ASSUME NEW w \in Workers, NEW t \in Tasks, Submit(w, t) PROVE PrepareInv'
  BY <1>4, <1>0 DEF Submit
<1>5. ASSUME NEW w \in Workers, NEW t \in Tasks, DraftPlan(w, t) PROVE PrepareInv'
  BY <1>5, <1>0 DEF DraftPlan
<1>6. ASSUME NEW w \in Workers, NEW t \in Tasks, PrepareProposal(w, t) PROVE PrepareInv'
  BY <1>6, <1>0 DEF PrepareProposal
<1>7. ASSUME NEW w \in Workers, NEW t \in Tasks, ProviderInput(w, t) PROVE PrepareInv'
  BY <1>7, <1>0 DEF ProviderInput
<1>8. ASSUME NEW w \in Workers, NEW t \in Tasks, NEW d \in Candidates,
     Approve(w, t, d) PROVE PrepareInv'
  BY <1>8, <1>0 DEF Approve
<1>9. ASSUME NEW w \in Workers, DraftPlanReturns(w) PROVE PrepareInv'
  BY <1>9, <1>0 DEF DraftPlanReturns
<1>10. ASSUME NEW w \in Workers, ProposeReturns(w) PROVE PrepareInv'
  BY <1>10, <1>0 DEF ProposeReturns
<1>11. ASSUME NEW w \in Workers, ProposalDropped(w) PROVE PrepareInv'
  BY <1>11, <1>0 DEF ProposalDropped
<1>12. ASSUME NEW w \in Workers, RecordProposal(w) PROVE PrepareInv'
  BY <1>12, <1>0 DEF RecordProposal
<1>13. ASSUME NEW w \in Workers, PublishProposal(w) PROVE PrepareInv'
  BY <1>13, <1>0 DEF PublishProposal
<1>14. ASSUME NEW w \in Workers, ApproveCommit(w) PROVE PrepareInv'
  BY <1>14, <1>0 DEF ApproveCommit
<1>15. ASSUME NEW w \in Workers, ExecutePrecheck(w) PROVE PrepareInv'
  BY <1>15, <1>0 DEF ExecutePrecheck
<1>16. ASSUME NEW w \in Workers, ExecuteStandsDown(w) PROVE PrepareInv'
  BY <1>16, <1>0 DEF ExecuteStandsDown
<1>17. ASSUME NEW w \in Workers, Execute(w) PROVE PrepareInv'
  BY <1>17, <1>0 DEF Execute
<1>18. ASSUME NEW w \in Workers, ExecutorWrites(w) PROVE PrepareInv'
  BY <1>18, <1>0 DEF ExecutorWrites
<1>19. ASSUME NEW w \in Workers, ExecutorReturns(w) PROVE PrepareInv'
  BY <1>19, <1>0 DEF ExecutorReturns
<1>20. ASSUME NEW w \in Workers, LedgerRaises(w) PROVE PrepareInv'
  BY <1>20, <1>0 DEF LedgerRaises
<1>21. ASSUME NEW w \in Workers, RecordResult(w) PROVE PrepareInv'
  BY <1>21, <1>0 DEF RecordResult
<1>22. ASSUME NEW w \in Workers, ContinueConversation(w) PROVE PrepareInv'
  BY <1>22, <1>0 DEF ContinueConversation
<1>23. ASSUME NEW w \in Workers, ConversationReturns(w) PROVE PrepareInv'
  BY <1>23, <1>0 DEF ConversationReturns
<1>24. ASSUME NEW w \in Workers, EventClash(w) PROVE PrepareInv'
  BY <1>24, <1>0 DEF EventClash
<1>25. ASSUME Restart PROVE PrepareInv'
  BY <1>25, <1>0 DEF Restart
<1>26. CASE UNCHANGED vars
  BY <1>26, <1>0 DEF vars
<1> QED
  BY <1>1, <1>2, <1>3, <1>4, <1>5, <1>6, <1>7, <1>8, <1>9, <1>10, <1>11, <1>12,
       <1>13, <1>14, <1>15, <1>16, <1>17, <1>18, <1>19, <1>20, <1>21, <1>22, <1>23,
       <1>24, <1>25, <1>26
  DEF Next, Request, WorkerStep

-----------------------------------------------------------------------------
\* Every step of the coordinator is a step of the abstract life or a stutter.
LEMMA LifeSimulation == IInv /\ PrepareInv /\ [Next]_vars => [TheLife!LifeNext]_(TheLife!life)
<1> SUFFICES ASSUME IInv, PrepareInv, [Next]_vars
             PROVE  TheLife!LifeNext \/ UNCHANGED TheLife!life
  OBVIOUS
<1>0. /\ TypeOK /\ HoldingInv /\ BusyInv /\ UnspentInv
      /\ pc \in [Workers -> Places] /\ task \in [Workers -> Tasks \cup {None}]
      /\ \A w \in Workers : pc[w] # "idle" => task[w] \in Tasks
      /\ status \in [Tasks -> Statuses]
  BY DEF IInv, TypeOK
<1>a. \A t \in Tasks : TheLife!LifeStep(t) => TheLife!LifeNext
  BY DEF TheLife!LifeNext
<1>b. \A t \in Tasks : status[t] \notin {"absent", "purged", "canceled", "interrupted"}
                          => TheLife!Open(t)
  BY <1>0 DEF Statuses, Cancellable, Terminal, TheLife!Open, TheLife!Active, TheLife!Final,
             TheLife!Closed
<1> USE CoordinatorAssumption DEF HoldingInv, BusyInv, UnspentInv, PrepareInv, Holding, Serve,
      MoveTo, Finish, ReleaseLock, LockFree, tables, hands, history, bounds, TheLife!life, TheLife!Turn
<1>1. ASSUME NEW t \in Tasks, SubmitRefused(t)
     PROVE  TheLife!LifeNext \/ UNCHANGED TheLife!life
  <2>1. TheLife!Refuse(t)
    BY <1>1, <1>0 DEF SubmitRefused, TheLife!Refuse
  <2> QED
    BY <2>1, <1>a DEF TheLife!LifeStep
<1>2. ASSUME NEW t \in Tasks, Cancel(t)
     PROVE  TheLife!LifeNext \/ UNCHANGED TheLife!life
  <2>1. TheLife!Cancel(t)
    BY <1>2, <1>0 DEF Cancel, Cancellable, TheLife!Active, TheLife!Cancel
  <2> QED
    BY <2>1, <1>a DEF TheLife!LifeStep
<1>3. ASSUME NEW t \in Tasks, DeleteTask(t)
     PROVE  TheLife!LifeNext \/ UNCHANGED TheLife!life
  <2>1. TheLife!Purge(t)
    BY <1>3, <1>0 DEF DeleteTask, Terminal, TheLife!Final, TheLife!Purge
  <2> QED
    BY <2>1, <1>a DEF TheLife!LifeStep
<1>4. ASSUME NEW w \in Workers, NEW t \in Tasks, Submit(w, t)
     PROVE  TheLife!LifeNext \/ UNCHANGED TheLife!life
  <2>1. TheLife!Submit(t)
    BY <1>4, <1>0 DEF Submit, TheLife!Submit
  <2> QED
    BY <2>1, <1>a DEF TheLife!LifeStep
<1>5. ASSUME NEW w \in Workers, NEW t \in Tasks, DraftPlan(w, t)
     PROVE  TheLife!LifeNext \/ UNCHANGED TheLife!life
  BY <1>5 DEF DraftPlan
<1>6. ASSUME NEW w \in Workers, NEW t \in Tasks, PrepareProposal(w, t)
     PROVE  TheLife!LifeNext \/ UNCHANGED TheLife!life
  <2>1. TheLife!Explore(t)
    BY <1>6, <1>0 DEF PrepareProposal, Preparable, Planned, TheLife!Explore
  <2> QED
    BY <2>1, <1>a DEF TheLife!LifeStep
<1>7. ASSUME NEW w \in Workers, NEW t \in Tasks, ProviderInput(w, t)
     PROVE  TheLife!LifeNext \/ UNCHANGED TheLife!life
  BY <1>7 DEF ProviderInput
<1>8. ASSUME NEW w \in Workers, NEW t \in Tasks, NEW d \in Candidates,
     Approve(w, t, d)
     PROVE  TheLife!LifeNext \/ UNCHANGED TheLife!life
  BY <1>8 DEF Approve
<1>9. ASSUME NEW w \in Workers, DraftPlanReturns(w)
     PROVE  TheLife!LifeNext \/ UNCHANGED TheLife!life
  <2>1. status[task[w]] # "absent" /\ task[w] \in Tasks
    BY <1>9, <1>0 DEF DraftPlanReturns
  <2>2. CASE UNCHANGED plan
    BY <1>9, <2>2 DEF DraftPlanReturns
  <2>3. ASSUME NEW p \in Plans, plan' = [plan EXCEPT ![task[w]] = p]
        PROVE  TheLife!LifeStep(task[w])
    <3>1. TheLife!Draft(task[w], p)
      BY <1>9, <2>1, <2>3 DEF DraftPlanReturns, TheLife!Draft
    <3> QED
      BY <3>1 DEF TheLife!LifeStep
  <2> QED
    BY <1>9, <2>1, <2>2, <2>3, <1>a DEF DraftPlanReturns
<1>10. ASSUME NEW w \in Workers, ProposeReturns(w)
     PROVE  TheLife!LifeNext \/ UNCHANGED TheLife!life
  BY <1>10 DEF ProposeReturns
<1>11. ASSUME NEW w \in Workers, ProposalDropped(w)
     PROVE  TheLife!LifeNext \/ UNCHANGED TheLife!life
  BY <1>11 DEF ProposalDropped
<1>12. ASSUME NEW w \in Workers, RecordProposal(w)
     PROVE  TheLife!LifeNext \/ UNCHANGED TheLife!life
  <2> DEFINE t == task[w]
  <2>1. t \in Tasks /\ t \in AskTasks /\ status[t] \notin {"absent", "interrupted"}
    BY <1>12, <1>0 DEF RecordProposal
  <2>2. CASE Canceled(t)
    BY <1>12, <2>2 DEF RecordProposal
  <2>3. CASE ~Canceled(t) /\ result[w] # None /\ HasRow(t)
    <3>1. TheLife!Open(t)
      BY <2>1, <2>3, <1>b DEF Canceled, HasRow
    <3>2. result[w] \in TheLife!Outcomes
      BY <1>0, <2>3 DEF TypeOK, Verdicts, TheLife!Outcomes
    <3>3. TheLife!Settle(t, result[w])
      BY <1>12, <2>3, <3>1 DEF RecordProposal, WithStatus, TheLife!Settle
    <3> QED
      BY <2>1, <3>2, <3>3, <1>a DEF TheLife!LifeStep
  <2>4. CASE ~Canceled(t) /\ result[w] # None /\ ~HasRow(t)
    BY <1>12, <2>4 DEF RecordProposal, WithStatus
  <2>5. CASE ~Canceled(t) /\ result[w] = None
    <3>1. cand[w] \in Candidates
      BY <1>12, <2>5, <1>0 DEF RecordProposal, TypeOK
    <3>2. TheLife!Offer(t, cand[w])
      BY <1>12, <2>1, <2>5 DEF RecordProposal, Canceled, TheLife!Offer, TheLife!Closed
    <3> QED
      BY <2>1, <3>1, <3>2, <1>a DEF TheLife!LifeStep
  <2> QED
    BY <2>2, <2>3, <2>4, <2>5
<1>13. ASSUME NEW w \in Workers, PublishProposal(w)
     PROVE  TheLife!LifeNext \/ UNCHANGED TheLife!life
  <2>1. /\ task[w] \in Tasks /\ proposal[task[w]] # None /\ ~Canceled(task[w])
        /\ status[task[w]] \notin {"absent", "interrupted"}
    BY <1>13, <1>0 DEF PublishProposal
  <2>2. CASE HasRow(task[w])
    <3>1. TheLife!Open(task[w])
      BY <2>1, <2>2, <1>b DEF Canceled, HasRow
    <3>2. TheLife!Publish(task[w])
      BY <1>13, <2>1, <2>2, <3>1 DEF PublishProposal, WithStatus, TheLife!Publish
    <3> QED
      BY <2>1, <3>2, <1>a DEF TheLife!LifeStep
  <2>3. CASE ~HasRow(task[w])
    BY <1>13, <2>3 DEF PublishProposal, WithStatus
  <2> QED
    BY <2>2, <2>3
<1>14. ASSUME NEW w \in Workers, ApproveCommit(w)
     PROVE  TheLife!LifeNext \/ UNCHANGED TheLife!life
  <2>1. task[w] \in Tasks /\ TheLife!Approve(task[w], proposal[task[w]])
    BY <1>14, <1>0 DEF ApproveCommit, WithStatus, HasRow, Planned, TheLife!Approve
  <2>2. proposal[task[w]] \in Candidates
    BY <1>14, <1>0 DEF ApproveCommit, TypeOK
  <2> QED
    BY <2>1, <2>2, <1>a DEF TheLife!LifeStep
<1>15. ASSUME NEW w \in Workers, ExecutePrecheck(w)
     PROVE  TheLife!LifeNext \/ UNCHANGED TheLife!life
  BY <1>15 DEF ExecutePrecheck
<1>16. ASSUME NEW w \in Workers, ExecuteStandsDown(w)
     PROVE  TheLife!LifeNext \/ UNCHANGED TheLife!life
  BY <1>16 DEF ExecuteStandsDown
<1>17. ASSUME NEW w \in Workers, Execute(w)
     PROVE  TheLife!LifeNext \/ UNCHANGED TheLife!life
  <2> DEFINE t == task[w]
  <2>1. t \in Tasks /\ status[t] = "accepted"
    BY <1>17, <1>0 DEF Execute, StillAccepted
  <2>2. CASE Ready(t)
    <3>1. TheLife!Run(t)
      BY <1>17, <1>0, <2>1, <2>2 DEF Execute, Ready, Planned, TheLife!Run
    <3> QED
      BY <2>1, <3>1, <1>a DEF TheLife!LifeStep
  <2>3. CASE ~Ready(t)
    <3>1. TheLife!Settle(t, "failed")
      BY <1>17, <2>1, <2>3, <1>b DEF Execute, TheLife!Settle
    <3> QED
      BY <2>1, <3>1, <1>a DEF TheLife!LifeStep, TheLife!Outcomes
  <2> QED
    BY <2>2, <2>3
<1>18. ASSUME NEW w \in Workers, ExecutorWrites(w)
     PROVE  TheLife!LifeNext \/ UNCHANGED TheLife!life
  BY <1>18 DEF ExecutorWrites
<1>19. ASSUME NEW w \in Workers, ExecutorReturns(w)
     PROVE  TheLife!LifeNext \/ UNCHANGED TheLife!life
  BY <1>19 DEF ExecutorReturns
<1>20. ASSUME NEW w \in Workers, LedgerRaises(w)
     PROVE  TheLife!LifeNext \/ UNCHANGED TheLife!life
  BY <1>20 DEF LedgerRaises
<1>21. ASSUME NEW w \in Workers, RecordResult(w)
     PROVE  TheLife!LifeNext \/ UNCHANGED TheLife!life
  <2> DEFINE t == task[w]
  <2>1. t \in Tasks /\ status[t] \notin {"absent", "interrupted"} /\ result[w] \in TheLife!Outcomes
    BY <1>21, <1>0 DEF RecordResult, TypeOK, Verdicts, TheLife!Outcomes
  <2>2. CASE ~Canceled(t) /\ HasRow(t)
    <3>1. TheLife!Settle(t, result[w])
      BY <1>21, <2>1, <2>2, <1>b DEF RecordResult, Recorded, WithStatus, HasRow, Canceled,
                                         TheLife!Settle
    <3> QED
      BY <2>1, <3>1, <1>a DEF TheLife!LifeStep
  <2>3. CASE Canceled(t) \/ ~HasRow(t)
    BY <1>21, <2>3 DEF RecordResult, Recorded, WithStatus
  <2> QED
    BY <2>2, <2>3
<1>22. ASSUME NEW w \in Workers, ContinueConversation(w)
     PROVE  TheLife!LifeNext \/ UNCHANGED TheLife!life
  <2>1. CASE status[task[w]] = "waiting_for_provider_input"
    <3>1. task[w] \in Tasks /\ TheLife!Resume(task[w])
      BY <1>22, <1>0, <2>1 DEF ContinueConversation, TheLife!Resume
    <3> QED
      BY <3>1, <1>a DEF TheLife!LifeStep
  <2>2. CASE status[task[w]] # "waiting_for_provider_input"
    BY <1>22, <2>2 DEF ContinueConversation
  <2> QED
    BY <2>1, <2>2
<1>23. ASSUME NEW w \in Workers, ConversationReturns(w)
     PROVE  TheLife!LifeNext \/ UNCHANGED TheLife!life
  <2>1. task[w] \in Tasks /\ status[task[w]] = "running"
    BY <1>23, <1>0 DEF ConversationReturns
  <2>2. PICK r \in Verdicts : status' = WithStatus(task[w], r)
    BY <1>23 DEF ConversationReturns
  <2>3. TheLife!Settle(task[w], r)
    BY <1>23, <2>1, <2>2, <1>b DEF ConversationReturns, WithStatus, HasRow, TheLife!Settle
  <2> QED
    BY <2>1, <2>3, <1>a DEF TheLife!LifeStep, Verdicts, TheLife!Outcomes
<1>24. ASSUME NEW w \in Workers, EventClash(w)
     PROVE  TheLife!LifeNext \/ UNCHANGED TheLife!life
  <2> DEFINE t == task[w]
  <2>0. pc[w] \in {"approving", "starting", "ran", "answering", "conversing"}
    BY <1>24 DEF EventClash
  <2>1. t \in Tasks
    BY <1>24, <1>0, <2>0 DEF EventClash
  <2>2. CASE pc[w] = "approving"
    <3>1. TheLife!Approve(t, proposal[t])
      BY <1>24, <1>0, <2>2 DEF EventClash, WithStatus, HasRow, Planned, TheLife!Approve
    <3>2. proposal[t] \in Candidates
      BY <1>0, <2>1, <2>2 DEF TypeOK
    <3> QED
      BY <2>1, <3>1, <3>2, <1>a DEF TheLife!LifeStep
  <2>3. CASE pc[w] = "starting"
    <3>1. TheLife!Run(t)
      BY <1>24, <1>0, <2>3 DEF EventClash, StillAccepted, Ready, Planned, TheLife!Run
    <3> QED
      BY <2>1, <3>1, <1>a DEF TheLife!LifeStep
  <2>4. CASE pc[w] = "answering"
    <3>1. TheLife!Resume(t)
      BY <1>24, <2>4 DEF EventClash, TheLife!Resume
    <3> QED
      BY <2>1, <3>1, <1>a DEF TheLife!LifeStep
  <2>5. CASE pc[w] \in {"ran", "conversing"}
    BY <1>24, <2>5 DEF EventClash
  <2> QED
    BY <2>0, <2>2, <2>3, <2>4, <2>5
<1>25. ASSUME Restart
     PROVE  TheLife!LifeNext \/ UNCHANGED TheLife!life
  <2>1. TheLife!Interrupt
    BY <1>25 DEF Restart, RowsMarked, TheLife!Interrupt
  <2> QED
    BY <2>1 DEF TheLife!LifeNext
<1>26. CASE UNCHANGED vars
  BY <1>26, <1>0 DEF vars
<1> QED
  BY <1>1, <1>2, <1>3, <1>4, <1>5, <1>6, <1>7, <1>8, <1>9, <1>10, <1>11, <1>12,
       <1>13, <1>14, <1>15, <1>16, <1>17, <1>18, <1>19, <1>20, <1>21, <1>22, <1>23,
       <1>24, <1>25, <1>26
  DEF Next, Request, WorkerStep

-----------------------------------------------------------------------------
\* The coordinator implements the abstract life of its tasks: whatever its
\* threads, its lock, its clashes and its restarts do, clients see no other
\* course of a task than one TaskLife allows.
THEOREM CoordinatorImplementsLife == Spec => ImplementsTaskLife
<1>1. Init => TheLife!LifeInit
  BY DEF Init, TheLife!LifeInit
<1>2. Spec => []PrepareInv
  <2>1. Init => PrepareInv
    BY DEF Init, PrepareInv
  <2>2. IInv /\ PrepareInv /\ [Next]_vars => PrepareInv'
    BY PrepareStep DEF IInv
  <2> QED
    BY <2>1, <2>2, Inductive, PTL DEF Spec
<1> QED
  BY <1>1, <1>2, LifeSimulation, Inductive, PTL DEF Spec, ImplementsTaskLife, TheLife!Life

=============================================================================
