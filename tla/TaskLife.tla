------------------------------ MODULE TaskLife ------------------------------
(***************************************************************************)
(* The life of a task as every reader of the store can rely on it: an      *)
(* abstract specification of wisense_os/service.py without threads, lock   *)
(* and approval rows.  TaskCoordinator implements it (MCTaskCoordinator);  *)
(* EventStream and TaskComposer put readers beside it.                     *)
(*                                                                         *)
(* A ticket is an approval that has made the task ready and that no run    *)
(* has taken yet: approve hands it out, execute takes it.                  *)
(***************************************************************************)

CONSTANTS
  Tasks,      \* task ids
  AskTasks,   \* those submitted as ask_before_changes
  Plans,      \* reviewed plans
  Digests,    \* proposals, told apart by their digest
  None        \* no row

ASSUME LifeAssumption ==
  /\ AskTasks \subseteq Tasks
  /\ None \notin Plans \cup Digests

VARIABLES
  status,     \* tasks.status; "absent" before the row, "purged" after it
  plan,       \* task_plans
  proposal,   \* task_proposals
  ticket      \* an approval has made the task ready and no run has taken it

life == <<status, plan, proposal, ticket>>

Active   == {"accepted", "exploring", "waiting_for_approval",
             "waiting_for_provider_input", "running"}
Final    == {"blocked", "completed", "failed", "canceled", "interrupted"}
\* No thread works for such a task, or none dares to touch it.
Closed   == {"canceled", "interrupted"}
Outcomes == {"completed", "failed", "blocked", "waiting_for_provider_input"}

\* The row is there and a thread at work may still write to it.
Open(t) == status[t] \in Active \cup (Final \ Closed)

Turn(t, s) == status' = [status EXCEPT ![t] = s]

-----------------------------------------------------------------------------
\* submit
Submit(t) ==
  /\ status[t] = "absent"
  /\ Turn(t, "accepted")
  /\ UNCHANGED <<plan, proposal, ticket>>

Refuse(t) ==
  /\ status[t] = "absent"
  /\ Turn(t, "blocked")
  /\ UNCHANGED <<plan, proposal, ticket>>

\* The plan-draft route saves its plan whatever has become of the task.
Draft(t, p) ==
  /\ status[t] # "absent"
  /\ plan' = [plan EXCEPT ![t] = p]
  /\ UNCHANGED <<status, proposal, ticket>>

\* prepare_proposal: the model is asked, ...
Explore(t) ==
  /\ t \in AskTasks
  /\ plan[t] # None
  /\ status[t] \in {"accepted", "exploring"}
  /\ Turn(t, "exploring")
  /\ UNCHANGED <<plan, proposal, ticket>>

\* ... its proposal replaces the one that is there, unless the user canceled
\* (a late thread may do so for a task that has settled or is gone) ...
Offer(t, d) ==
  /\ t \in AskTasks
  /\ status[t] \notin Closed \cup {"absent"}
  /\ proposal' = [proposal EXCEPT ![t] = d]
  /\ UNCHANGED <<status, plan, ticket>>

\* ... and is put to the user.
Publish(t) ==
  /\ Open(t)
  /\ proposal[t] # None
  /\ Turn(t, "waiting_for_approval")
  /\ UNCHANGED <<plan, proposal, ticket>>

\* approve: the digest is that of the stored proposal.
Approve(t, d) ==
  /\ status[t] = "waiting_for_approval"
  /\ plan[t] # None
  /\ proposal[t] = d
  /\ Turn(t, "accepted")
  /\ ticket' = [ticket EXCEPT ![t] = TRUE]
  /\ UNCHANGED <<plan, proposal>>

\* execute: a task that asks before changes needs a ticket and uses it up.
Run(t) ==
  /\ status[t] = "accepted"
  /\ t \in AskTasks => /\ ticket[t]
                       /\ plan[t] # None
                       /\ proposal[t] # None
  /\ Turn(t, "running")
  /\ ticket' = [ticket EXCEPT ![t] = FALSE]
  /\ UNCHANGED <<plan, proposal>>

\* A thread records how its run or its proposal ended.
Settle(t, r) ==
  /\ Open(t)
  /\ Turn(t, r)
  /\ UNCHANGED <<plan, proposal, ticket>>

\* continue_with_provider_input
Resume(t) ==
  /\ status[t] = "waiting_for_provider_input"
  /\ Turn(t, "running")
  /\ UNCHANGED <<plan, proposal, ticket>>

\* cancel
Cancel(t) ==
  /\ status[t] \in Active
  /\ Turn(t, "canceled")
  /\ UNCHANGED <<plan, proposal, ticket>>

\* delete_task
Purge(t) ==
  /\ status[t] \in Final
  /\ Turn(t, "purged")
  /\ plan' = [plan EXCEPT ![t] = None]
  /\ proposal' = [proposal EXCEPT ![t] = None]
  /\ UNCHANGED ticket

\* mark_interrupted_runs
Interrupt ==
  /\ status' = [t \in Tasks |-> IF status[t] = "running" THEN "interrupted" ELSE status[t]]
  /\ UNCHANGED <<plan, proposal, ticket>>

LifeInit ==
  /\ status = [t \in Tasks |-> "absent"]
  /\ plan = [t \in Tasks |-> None]
  /\ proposal = [t \in Tasks |-> None]
  /\ ticket = [t \in Tasks |-> FALSE]

LifeStep(t) ==
  \/ Submit(t) \/ Refuse(t) \/ Explore(t) \/ Publish(t) \/ Run(t)
  \/ Resume(t) \/ Cancel(t) \/ Purge(t)
  \/ \E p \in Plans : Draft(t, p)
  \/ \E d \in Digests : Offer(t, d) \/ Approve(t, d)
  \/ \E r \in Outcomes : Settle(t, r)

LifeNext == Interrupt \/ \E t \in Tasks : LifeStep(t)

Life == LifeInit /\ [][LifeNext]_life

=============================================================================
