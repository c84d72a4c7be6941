---------------------------- MODULE PatchExecutor ----------------------------
(***************************************************************************)
(* The native executor (wisense_os/patch_executor.py) on the files of one  *)
(* project: propose a full-file rewrite, apply it, run the named tests,    *)
(* repair at most once, restore or commit (wisense_os/workspace.py,        *)
(* wisense_os/patch_protocol.py, wisense_os/patch_limits.py).              *)
(*                                                                         *)
(* A run is one task's way through propose and apply_proposal.  A step is  *)
(* one file written or restored, one call of the model, one run of the     *)
(* tests or one commit: between two of them another run, the user's editor *)
(* or the death of the engine can come in.  Writing a whole candidate is a *)
(* loop over its files, in the model in any order.                         *)
(*                                                                         *)
(* A candidate has one text per reviewed file; its identity is the run and *)
(* the attempt it comes from, and of its size only the rewrite ceiling     *)
(* counts.  An answer that does not parse is a model call that failed.     *)
(***************************************************************************)
EXTENDS Naturals

CONSTANTS
  Runs,       \* tasks that reach the executor
  Files,      \* paths of the project
  TestFiles,  \* those named like a Python test file
  PlansOf,    \* the reviewed plans each run may come with
  Faults,     \* which failures the environment is capable of
  MaxEdits,   \* bound: changes the user makes to the files
  Absent,     \* no such file
  Torn,       \* opened for writing and not written to the end
  Base,       \* the text the file starts with
  Edited,     \* a text the user saved
  None        \* nothing in hand, no bytecode, no test has passed

\* write    writing a reviewed file raises OSError
\* restore  restoring one does
\* commit   git's output cannot be decoded, after the commit was made
\* crash    the engine process dies
\* cache    a __pycache__ directory cannot be removed
\* editor   the user saves files while a run works on them
FaultKinds == {"write", "restore", "commit", "crash", "cache", "editor"}

Plans == [files : SUBSET Files, create : SUBSET Files]

Attempts == {"approved", "repair"}
Candidates == [run : Runs, attempt : Attempts, size : {"reliable", "oversized"}]
Contents == {Absent, Torn, Base, Edited} \cup Candidates

ASSUME ExecutorAssumption ==
  /\ TestFiles \subseteq Files
  /\ PlansOf \in [Runs -> SUBSET Plans]
  /\ \A r \in Runs : \A p \in PlansOf[r] : p.create \subseteq p.files /\ p.files # {}
  /\ Faults \subseteq FaultKinds
  /\ MaxEdits \in Nat
  /\ {Absent, Torn, Base, Edited, None} \cap Candidates = {}
  /\ Base # Absent /\ Base # Torn /\ Edited # Absent /\ Edited # Torn
  /\ Absent # Torn /\ None \notin {Absent, Torn, Base, Edited}
  /\ None \notin [Files -> Contents]

VARIABLES
  disk,     \* text of every file of the project
  head,     \* text of every file in the last commit
  cache,    \* text a file's bytecode was compiled from
  pc,       \* where each run stands
  plan,     \* its reviewed plan
  cand,     \* the candidate it writes
  todo,     \* files its loop has still to write or to restore
  snap,     \* its snapshot of the reviewed files
  outcome,  \* what it returned
  \* History, read by no action.
  diffed,   \* the reviewed files as they were when the diffs were made
  tested,   \* what the last passing test run executed
  edits     \* counter for MaxEdits

project == <<disk, head, cache>>
hand    == <<plan, cand, snap>>
history == <<diffed, tested>>
vars    == <<project, pc, hand, todo, outcome, history, edits>>

-----------------------------------------------------------------------------
\* reading     propose has validated the plan and builds the prompt
\* asked       the builder has been called
\* proposed    the proposal is published; apply_proposal not yet called
\* writing     apply_candidate
\* testing     the named tests run
\* undoing     restore_snapshot after a failing test
\* repairing   _repair_once builds its prompt
\* asked_again the builder has been called for the repair
\* committing  the tests have passed
\* recovering  restore_snapshot in the except block of apply_proposal
Applying == {"writing", "testing", "undoing", "repairing", "asked_again",
             "committing", "recovering"}
Places == {"idle", "reading", "asked", "proposed", "ended"} \cup Applying

\* refused     failed, no reviewed file touched (rolled_back is False)
\* rolled_back failed, rolled_back is True
\* validated   the tests passed and nothing was committed
\* committed   the tests passed and git has the files
\* raised      an exception left apply_proposal
\* lost        the process died
Outcomes == {"open", "refused", "rolled_back", "validated", "committed",
             "raised", "lost"}

Reviewed(r) == plan[r].files

\* Variant: a path declared as new may exist already.
AcceptsExisting(p) ==
  \A f \in p.files : f \notin p.create => disk[f] # Absent

\* validate_plan_files: what is created is new, what is edited is there.
Valid(p) ==
  \A f \in p.files : IF f \in p.create THEN disk[f] = Absent ELSE disk[f] # Absent

\* _build_messages reads every reviewed file, the declared new ones too.
Readable(p) == \A f \in p.files : disk[f] # Absent

HasTests(p) == p.files \cap TestFiles # {}

At(r, place) == pc' = [pc EXCEPT ![r] = place]
End(r, o) == At(r, "ended") /\ outcome' = [outcome EXCEPT ![r] = o]

\* Enter a loop over the reviewed files.
Loop(r, place) ==
  /\ At(r, place)
  /\ todo' = [todo EXCEPT ![r] = Reviewed(r)]

TypeOK ==
  /\ disk \in [Files -> Contents]
  /\ head \in [Files -> Contents]
  /\ cache \in [Files -> Contents \cup {None}]
  /\ pc \in [Runs -> Places]
  /\ plan \in [Runs -> Plans \cup {None}]
  /\ cand \in [Runs -> Candidates \cup {None}]
  /\ todo \in [Runs -> SUBSET Files]
  /\ snap \in [Runs -> [Files -> Contents] \cup {None}]
  /\ outcome \in [Runs -> Outcomes]
  /\ diffed \in [Runs -> [Files -> Contents] \cup {None}]
  /\ tested \in [Runs -> [Files -> Contents] \cup {None}]
  /\ edits \in 0..MaxEdits

Init ==
  /\ disk \in [Files -> {Absent, Base}]
  /\ head = disk
  /\ cache = [f \in Files |-> None]
  /\ pc = [r \in Runs |-> "idle"]
  /\ plan = [r \in Runs |-> None]
  /\ cand = [r \in Runs |-> None]
  /\ todo = [r \in Runs |-> {}]
  /\ snap = [r \in Runs |-> None]
  /\ outcome = [r \in Runs |-> "open"]
  /\ diffed = [r \in Runs |-> None]
  /\ tested = [r \in Runs |-> None]
  /\ edits = 0

-----------------------------------------------------------------------------
(* propose: nothing is written. *)

\* validate_plan_files, first call.
Validate(r, p) ==
  /\ pc[r] = "idle"
  /\ plan' = [plan EXCEPT ![r] = p]
  /\ \/ Valid(p) /\ At(r, "reading") /\ UNCHANGED outcome
     \/ ~Valid(p) /\ End(r, "refused")
  /\ UNCHANGED <<project, cand, todo, snap, history, edits>>

\* The prompt is built from the files and the builder is called.
Ask(r) ==
  /\ pc[r] = "reading"
  /\ \/ /\ Readable(plan[r])
        /\ At(r, "asked")
        /\ UNCHANGED outcome
     \/ /\ ~Readable(plan[r])
        /\ End(r, "refused")
  /\ UNCHANGED <<project, hand, todo, history, edits>>

\* The model fails, or its answer does not parse for this plan.
NoCandidate(r) ==
  /\ pc[r] = "asked"
  /\ End(r, "refused")
  /\ UNCHANGED <<project, hand, todo, history, edits>>

\* The reviewed files of r in d.
Image(r, d) == [f \in Files |-> IF f \in Reviewed(r) THEN d[f] ELSE Absent]

\* diffs_against_workspace: the shown diffs say what the files hold now.
Shown(r) == Image(r, disk)

\* assert_rewrite_within_ceiling
WithinLimit(size) == size = "reliable"

\* A candidate: the ceiling is checked, digest and diffs are made of it.
Propose(r, size) ==
  /\ pc[r] = "asked"
  /\ \/ /\ WithinLimit(size)
        /\ At(r, "proposed")
        /\ cand' = [cand EXCEPT ![r] = [run |-> r, attempt |-> "approved", size |-> size]]
        /\ diffed' = [diffed EXCEPT ![r] = Shown(r)]
        /\ UNCHANGED outcome
     \/ /\ ~WithinLimit(size)
        /\ End(r, "refused")
        /\ UNCHANGED <<cand, diffed>>
  /\ UNCHANGED <<project, plan, todo, snap, tested, edits>>

-----------------------------------------------------------------------------
(* apply_proposal *)

\* Variant: a file that is not there yet is captured like the others.
SnapshotOfAll(r) ==
  [f \in Files |-> IF f \in plan[r].create THEN None ELSE Image(r, disk)[f]]

\* snapshot_reviewed_files
Snapshot(r) == Image(r, disk)

\* The plan is validated again and the reviewed files are kept in memory.
Begin(r) ==
  /\ pc[r] = "proposed"
  /\ \/ /\ Valid(plan[r])
        /\ snap' = [snap EXCEPT ![r] = Snapshot(r)]
        /\ Loop(r, "writing")
        /\ UNCHANGED outcome
     \/ /\ ~Valid(plan[r])
        /\ End(r, "refused")
        /\ UNCHANGED <<snap, todo>>
  /\ UNCHANGED <<project, plan, cand, history, edits>>

\* apply_candidate writes the next file.  After the last one the plan's test
\* files are looked up; a plan without any is a WorkspacePlanError.
Write(r, f) ==
  /\ pc[r] = "writing" /\ f \in todo[r]
  /\ disk' = [disk EXCEPT ![f] = cand[r]]
  /\ IF todo[r] # {f}
     THEN todo' = [todo EXCEPT ![r] = @ \ {f}] /\ UNCHANGED pc
     ELSE IF HasTests(plan[r])
          THEN At(r, "testing") /\ todo' = [todo EXCEPT ![r] = {}]
          ELSE Loop(r, "recovering")
  /\ UNCHANGED <<head, cache, hand, outcome, history, edits>>

\* Variant: the failure is reported and the files stay as they are.
ReportOnly(r) == End(r, "refused") /\ UNCHANGED todo

\* The except block of apply_proposal.
Recover(r) == Loop(r, "recovering") /\ UNCHANGED outcome

WriteFails(r, f) ==
  /\ "write" \in Faults
  /\ pc[r] = "writing" /\ f \in todo[r]
  /\ \E c \in {disk[f], Torn} : disk' = [disk EXCEPT ![f] = c]
  /\ Recover(r)
  /\ UNCHANGED <<head, cache, hand, history, edits>>

\* Variant: the bytecode caches stay.
KeepsCaches == SUBSET {f \in Files : cache[f] # None}

\* Bytecode that is still there when pytest starts and that Python takes for
\* current: _clear_pycache removes every cache directory it can remove.
LeftCaches ==
  IF "cache" \in Faults THEN SUBSET {f \in Files : cache[f] # None} ELSE {{}}

\* The reviewed files as pytest executes them.
Executed(r, left) ==
  Image(r, [f \in Files |-> IF f \in left THEN cache[f] ELSE disk[f]])

RunTests(r, left) ==
  /\ pc[r] = "testing"
  /\ cache' = [f \in Files |-> IF f \in left THEN cache[f] ELSE None]

TestsPass(r, left) ==
  /\ RunTests(r, left)
  /\ tested' = [tested EXCEPT ![r] = Executed(r, left)]
  /\ At(r, "committing")
  /\ UNCHANGED <<disk, head, hand, todo, outcome, diffed, edits>>

\* Variant: the second failure is reported before the files are restored.
FailedRepairReported(r) ==
  IF cand[r].attempt = "repair"
  THEN End(r, "rolled_back") /\ UNCHANGED todo
  ELSE Loop(r, "undoing") /\ UNCHANGED outcome

\* A failing test: restore_snapshot, before and after the repair.
Undo(r) == Loop(r, "undoing") /\ UNCHANGED outcome

TestsFail(r, left) ==
  /\ RunTests(r, left)
  /\ Undo(r)
  /\ UNCHANGED <<disk, head, hand, history, edits>>

\* The time limit is exceeded, or pytest cannot be started.
TestsStop(r, left) ==
  /\ RunTests(r, left)
  /\ Recover(r)
  /\ UNCHANGED <<disk, head, hand, history, edits>>

\* Variant: created files stay.
RestoreExisting(r, f) ==
  IF f \in plan[r].create THEN disk ELSE [disk EXCEPT ![f] = snap[r][f]]

\* Variant: the project is put back as a whole.
RestoreTree(r, f) == [Image(r, snap[r]) EXCEPT ![f] = snap[r][f]]

\* restore_snapshot: write the saved bytes, or unlink what was created.
RestoreFile(r, f) ==
  [disk EXCEPT ![f] = IF f \in plan[r].create THEN Absent ELSE snap[r][f]]

\* restore_snapshot takes the next file; what follows the last one depends on
\* who called it: apply_proposal before the repair, _repair_once after it, or
\* the except block.
Restore(r, f) ==
  /\ pc[r] \in {"undoing", "recovering"} /\ f \in todo[r]
  /\ disk' = RestoreFile(r, f)
  /\ todo' = [todo EXCEPT ![r] = @ \ {f}]
  /\ IF todo[r] # {f} THEN UNCHANGED <<pc, outcome>>
     ELSE IF pc[r] = "undoing" /\ cand[r].attempt = "approved"
          THEN At(r, "repairing") /\ UNCHANGED outcome
          ELSE End(r, "rolled_back")
  /\ UNCHANGED <<head, cache, hand, history, edits>>

\* An OSError while restoring is caught like any other; in the except block
\* itself it leaves apply_proposal.
RestoreFails(r, f) ==
  /\ "restore" \in Faults
  /\ pc[r] \in {"undoing", "recovering"} /\ f \in todo[r]
  /\ \E c \in {disk[f]} \cup (IF f \in plan[r].create THEN {} ELSE {Torn}) :
       disk' = [disk EXCEPT ![f] = c]
  /\ IF pc[r] = "undoing" THEN Recover(r) ELSE End(r, "raised") /\ UNCHANGED todo
  /\ UNCHANGED <<head, cache, hand, history, edits>>

-----------------------------------------------------------------------------
(* _repair_once *)

\* The restored files are read for the prompt: a file the plan creates is gone
\* again.
AskRepair(r) ==
  /\ pc[r] = "repairing"
  /\ IF Readable(plan[r])
     THEN At(r, "asked_again") /\ UNCHANGED <<todo, outcome>>
     ELSE Recover(r)
  /\ UNCHANGED <<project, hand, history, edits>>

NoRepair(r) ==
  /\ pc[r] = "asked_again"
  /\ Recover(r)
  /\ UNCHANGED <<project, hand, history, edits>>

\* The repair is written without a look at its size.
Repair(r, size) ==
  /\ pc[r] = "asked_again"
  /\ cand' = [cand EXCEPT ![r] = [run |-> r, attempt |-> "repair", size |-> size]]
  /\ Loop(r, "writing")
  /\ UNCHANGED <<project, plan, snap, outcome, history, edits>>

-----------------------------------------------------------------------------
(* _success and _git_commit_scoped *)

\* Variant: `git commit -a`.
WholeTree(r) == disk

\* git commit -- <reviewed files>: their text in the working tree, now.
Scoped(r) == [f \in Files |-> IF f \in Reviewed(r) THEN disk[f] ELSE head[f]]

Commit(r) ==
  /\ pc[r] = "committing"
  /\ head' = Scoped(r)
  /\ head' # head
  /\ End(r, "committed")
  /\ UNCHANGED <<disk, cache, hand, todo, history, edits>>

\* git is missing or refuses, or nothing differs from the last commit.
CommitRefused(r) ==
  /\ pc[r] = "committing"
  /\ End(r, "validated")
  /\ UNCHANGED <<project, hand, todo, history, edits>>

\* UnicodeDecodeError is a ValueError.  The repair's _success is called inside
\* apply_proposal's try block, that of the first attempt after it.
CommitRaises(r) ==
  /\ "commit" \in Faults
  /\ pc[r] = "committing"
  /\ head' \in {head, Scoped(r)}
  /\ IF cand[r].attempt = "repair" THEN Recover(r) ELSE End(r, "raised") /\ UNCHANGED todo
  /\ UNCHANGED <<disk, cache, hand, history, edits>>

-----------------------------------------------------------------------------
(* The environment *)

\* The engine dies; the snapshots were only in its memory.  A proposal is in
\* the store and is still there.
Crash ==
  /\ "crash" \in Faults
  /\ LET cut == {r \in Runs : pc[r] \in Applying \cup {"reading", "asked"}}
     IN /\ cut # {}
        /\ pc' = [r \in Runs |-> IF r \in cut THEN "ended" ELSE pc[r]]
        /\ outcome' = [r \in Runs |-> IF r \in cut THEN "lost" ELSE outcome[r]]
  /\ UNCHANGED <<project, hand, todo, history, edits>>

\* The user saves, creates or deletes a file.
UserEdits(f) ==
  /\ edits < MaxEdits
  /\ "editor" \in Faults \/ \A r \in Runs : pc[r] \notin Applying
  /\ \E c \in {Edited, Absent} \ {disk[f]} : disk' = [disk EXCEPT ![f] = c]
  /\ edits' = edits + 1
  /\ UNCHANGED <<head, cache, pc, hand, todo, outcome, history>>

\* The user's own Python compiles a file.
UserCompiles(f) ==
  /\ disk[f] \notin {Absent, Torn, cache[f]}
  /\ cache' = [cache EXCEPT ![f] = disk[f]]
  /\ UNCHANGED <<disk, head, pc, hand, todo, outcome, history, edits>>

Step(r) ==
  \/ \E p \in PlansOf[r] : Validate(r, p)
  \/ Ask(r)
  \/ NoCandidate(r)
  \/ \E size \in {"reliable", "oversized"} : Propose(r, size) \/ Repair(r, size)
  \/ Begin(r)
  \/ \E f \in Files : Write(r, f) \/ WriteFails(r, f) \/ Restore(r, f) \/ RestoreFails(r, f)
  \/ \E left \in LeftCaches : TestsPass(r, left) \/ TestsFail(r, left) \/ TestsStop(r, left)
  \/ AskRepair(r)
  \/ NoRepair(r)
  \/ Commit(r)
  \/ CommitRefused(r)
  \/ CommitRaises(r)

Environment == Crash \/ \E f \in Files : UserEdits(f) \/ UserCompiles(f)

Next == Environment \/ \E r \in Runs : Step(r)

Spec == Init /\ [][Next]_vars

-----------------------------------------------------------------------------
(* What apply_proposal promises. *)

\* f holds a text that run r wrote.
WrittenBy(r, f) == disk[f] \in {c \in Candidates : c.run = r}

Succeeded(r) == outcome[r] \in {"validated", "committed"}

\* A run that reports rolled_back has put every reviewed file back as its
\* snapshot has it, whichever of the writes, tests, restores and repair steps
\* failed on the way (patch_executor.py:156-176, 237-243).
RolledBackIsRestored ==
  [][\A r \in Runs :
       outcome[r] # "rolled_back" /\ outcome'[r] = "rolled_back"
         => \A f \in Reviewed(r) : disk'[f] = snap[r][f]]_vars

\* A run that reported a failure has left no text of its own and no half
\* written file behind, also when it failed before it had a snapshot.
NoTraceOfFailure ==
  \A r \in Runs : outcome[r] \in {"refused", "rolled_back"} =>
    \A f \in Reviewed(r) : ~WrittenBy(r, f) /\ disk[f] # Torn

\* A run that reports success leaves one candidate, in every reviewed file, and
\* the tests that passed executed exactly that candidate.
SuccessIsTested ==
  [][\A r \in Runs : ~Succeeded(r) /\ Succeeded(r)' =>
       \A f \in Reviewed(r) : disk'[f] = cand[r] /\ tested[r][f] = cand[r]]_vars

\* The repository's history gets only whole candidates that passed their tests,
\* and nothing of what the user has changed (_git_commit_scoped: never sweeping
\* any unrelated change).
CommittedIsTested ==
  \A f \in Files : head[f] \notin {Absent, Base} =>
    \E r \in Runs : /\ tested[r] # None
                    /\ head[f] \in {c \in Candidates : c.run = r}
                    /\ \A g \in Reviewed(r) : head[g] = head[f] /\ tested[r][g] = head[f]

\* Whatever fails and whoever else is at work, a file changes on disk or in the
\* last commit only by a run that has it in its plan and is applying it, or by
\* the user (restore_snapshot: no repository reset; path-scoped commit).
OnlyReviewedFilesChange ==
  [][\A f \in Files : disk'[f] # disk[f] \/ head'[f] # head[f] =>
       \/ edits' # edits /\ head' = head
       \/ \E r \in Runs : pc[r] \in Applying /\ f \in Reviewed(r)]_vars

-----------------------------------------------------------------------------
(* What the repository says and the executor does not do. *)

\* patch_executor.py:73-75, "a false PASS on broken code -- the one validator
\* failure that must never happen": a success rests on tests of this candidate.
NoFalsePass ==
  \A r \in Runs : Succeeded(r) => \A f \in Reviewed(r) : tested[r][f] = cand[r]
=============================================================================
