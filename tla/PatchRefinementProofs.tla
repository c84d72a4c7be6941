------------------------ MODULE PatchRefinementProofs ------------------------
(***************************************************************************)
(* The executor implements AtomicPatch: for any files, plans and failures, *)
(* when one run is alone in its project and the user's editor and the      *)
(* bytecode caches leave it alone while it works.                          *)
(***************************************************************************)
EXTENDS MCPatchExecutor, PatchExecutorProofs

\* One run, and nobody else at its files while it works.
Alone == /\ r0 \in Runs /\ \A r \in Runs : r = r0
         /\ Undisturbed

LEMMA InitRefines == ASSUME Alone PROVE Init => Atomic!Init
<1> SUFFICES ASSUME Init PROVE Atomic!Init
  OBVIOUS
<1>1. {Absent, Base} \subseteq Contents \ Candidates
  BY ExecutorAssumption DEF Contents
<1>2. pc[r0] = "idle" /\ outcome[r0] = "open" /\ disk \in [Files -> {Absent, Base}]
  BY DEF Init, Alone
<1>3. Relied \in [Files -> Contents \ Candidates]
  BY <1>1, <1>2 DEF Relied, Applying
<1>4. Verdict = "open"
  BY <1>2 DEF Verdict
<1> QED
  BY <1>3, <1>4 DEF Atomic!Init

\* What the user relies on is a text for every file.
LEMMA ReliedTypes ==
  ASSUME IInv, Alone
  PROVE  Relied \in [Files -> Contents]
<1>1. disk \in [Files -> Contents] /\ (pc[r0] \in Applying => snap[r0] \in [Files -> Contents])
  BY DEF IInv, TypeOK, PlaceInv, Alone
<1> QED
  BY <1>1 DEF Relied

\* A step that ends no run shows no other verdict.
LEMMA SameVerdict == ASSUME outcome'[r0] = outcome[r0] PROVE Verdict' = Verdict
BY DEF Verdict, Succeeded

\* Before and after the candidate is applied, the user relies on the disk.
LEMMA ReliesOnDisk ==
  ASSUME IInv, pc[r0] \notin Applying
  PROVE  Relied = disk
BY DEF Relied, IInv, TypeOK

\* While it is applied: on the snapshot, and on the disk for the other files.
LEMMA ReliesOnSnapshot ==
  ASSUME pc[r0] \in Applying
  PROVE  Relied = [f \in Files |-> IF f \in Reviewed(r0) THEN snap[r0][f] ELSE disk[f]]
BY DEF Relied

\* Steps that neither end the run nor change what it relies on.
LEMMA Within ==
  ASSUME IInv, IInv', Alone, pc[r0] \in Applying, pc'[r0] \in Applying,
         UNCHANGED <<plan, snap>>, outcome'[r0] = outcome[r0],
         \A f \in Files \ Reviewed(r0) : disk'[f] = disk[f]
  PROVE  UNCHANGED <<Relied, Verdict>>
<1>1. Relied' = Relied
  BY DEF Relied, Reviewed
<1> QED
  BY <1>1, SameVerdict

\* Before the candidate is applied a run can go on, or fail without a change.
LEMMA BeforeApplying ==
  ASSUME IInv, IInv', Alone, disk' = disk, pc[r0] \notin Applying, pc'[r0] \notin Applying,
         \/ outcome'[r0] = outcome[r0]
         \/ outcome[r0] = "open" /\ outcome'[r0] = "refused"
  PROVE  Atomic!Fail \/ UNCHANGED <<Relied, Verdict>>
<1>1. Relied' = Relied
  BY ReliesOnDisk DEF Relied, Reviewed, IInv, TypeOK
<1>2. CASE outcome'[r0] = outcome[r0]
  BY <1>1, <1>2, SameVerdict
<1>3. CASE outcome[r0] = "open" /\ outcome'[r0] = "refused"
  <2>1. Verdict = "open" /\ Verdict' = "failed"
    BY <1>3 DEF Verdict, Succeeded
  <2> QED
    BY <1>1, <2>1 DEF Atomic!Fail
<1> QED
  BY <1>2, <1>3

\* A run that ends raised or lost breaks the promise aloud.
LEMMA Broken ==
  ASSUME IInv', Alone, outcome[r0] = "open", outcome'[r0] \in {"raised", "lost"}
  PROVE  Atomic!Break
<1>1. Verdict = "open" /\ Verdict' = "broken"
  BY DEF Verdict, Succeeded
<1>2. Relied' \in [Files -> Contents]
  <2>1. disk' \in [Files -> Contents] /\ (pc'[r0] \in Applying => snap'[r0] \in [Files -> Contents])
    BY DEF IInv, TypeOK, PlaceInv, Alone
  <2> QED
    BY <2>1 DEF Relied
<1> QED
  BY <1>1, <1>2 DEF Atomic!Break

\* The last restored file: everything is as it was.
LEMMA PutBack ==
  ASSUME IInv, ExactInv, IInv', Alone, NEW f \in Files, Restore(r0, f), pc'[r0] = "ended"
  PROVE  Atomic!Fail
<1>t. /\ disk \in [Files -> Contents] /\ pc \in [Runs -> Places]
      /\ outcome \in [Runs -> Outcomes] /\ r0 \in Runs
  BY DEF IInv, TypeOK, Alone
<1>1. /\ pc[r0] \in {"undoing", "recovering"} /\ todo[r0] = {f} /\ disk' = RestoreFile(r0, f)
      /\ outcome'[r0] = "rolled_back" /\ plan' = plan /\ snap' = snap
  BY <1>t DEF Restore, At, End, hand
<1>2. outcome[r0] = "open" /\ Reviewed(r0) \subseteq Files
  BY <1>t, <1>1, ReviewedTypes DEF IInv, PlaceInv
<1>3. \A g \in Reviewed(r0) : disk'[g] = snap[r0][g]
  BY <1>t, <1>1, <1>2 DEF RestoreFile, ExactInv, ExactOf, Applying
<1>4. \A g \in Files \ Reviewed(r0) : disk'[g] = disk[g]
  <2>1. f \in Reviewed(r0)
    BY <1>t, <1>1 DEF IInv, PlaceInv, Applying
  <2> QED
    BY <1>t, <1>1, <2>1 DEF RestoreFile
<1>5. Relied' = disk'
  BY ReliesOnDisk DEF Relied, Applying, IInv, TypeOK
<1>6. Relied = [g \in Files |-> IF g \in Reviewed(r0) THEN snap[r0][g] ELSE disk[g]]
  BY <1>1 DEF Relied, Applying
<1>7. disk' \in [Files -> Contents]
  BY DEF IInv, TypeOK
<1>8. Relied' = Relied
  BY <1>3, <1>4, <1>5, <1>6, <1>7
<1>9. Verdict = "open" /\ Verdict' = "failed"
  BY <1>1, <1>2 DEF Verdict, Succeeded
<1> QED
  BY <1>8, <1>9 DEF Atomic!Fail

\* A reported success: the candidate in every reviewed file, at once.
LEMMA TakesEffect ==
  ASSUME IInv, ExactInv, IInv', Alone, Commit(r0) \/ CommitRefused(r0)
  PROVE  Atomic!Succeed(Reviewed(r0), cand[r0])
<1>t. disk \in [Files -> Contents] /\ pc \in [Runs -> Places] /\ outcome \in [Runs -> Outcomes]
      /\ r0 \in Runs
  BY DEF IInv, TypeOK, Alone
<1>1. /\ pc[r0] = "committing" /\ pc'[r0] = "ended" /\ disk' = disk
      /\ outcome'[r0] \in {"validated", "committed"}
  BY <1>t DEF Commit, CommitRefused, End, At, project
<1>2. todo[r0] = {} /\ outcome[r0] = "open"
  BY <1>t, <1>1 DEF IInv, PlaceInv
<1>3. \A g \in Reviewed(r0) : disk[g] = cand[r0]
  BY <1>t, <1>1, <1>2 DEF ExactInv, ExactOf
<1>4. Relied' = disk
  BY <1>t, <1>1 DEF Relied, Applying
<1>5. Relied = [g \in Files |-> IF g \in Reviewed(r0) THEN snap[r0][g] ELSE disk[g]]
  BY <1>1 DEF Relied, Applying
<1>6. Relied' = [g \in Files |-> IF g \in Reviewed(r0) THEN cand[r0] ELSE Relied[g]]
  BY <1>t, <1>3, <1>4, <1>5
<1>7. Verdict = "open" /\ Verdict' = "succeeded"
  BY <1>1, <1>2 DEF Verdict, Succeeded
<1> QED
  BY <1>6, <1>7 DEF Atomic!Succeed

\* What the run itself does is a step of AtomicPatch or is not seen.
LEMMA StepRefines ==
  ASSUME IInv, ExactInv, IInv', Alone, Step(r0)
  PROVE  [Atomic!Next]_(Atomic!vars)
<1>t. /\ disk \in [Files -> Contents] /\ pc \in [Runs -> Places] /\ pc[r0] \in Places
      /\ outcome \in [Runs -> Outcomes] /\ snap \in [Runs -> [Files -> Contents] \cup {None}]
      /\ r0 \in Runs
  BY DEF IInv, TypeOK, Alone
<1>f. Frame(r0)
  BY <1>t, StepFrame
<1>p. /\ pc[r0] # "ended" => outcome[r0] = "open"
      /\ pc[r0] # "idle" => Reviewed(r0) \subseteq Files
  BY <1>t, ReviewedTypes DEF IInv, PlaceInv
<1>s. UNCHANGED <<Relied, Verdict>> \/ Atomic!Fail \/ Atomic!Break
        => [Atomic!Next]_(Atomic!vars)
  BY DEF Atomic!Next, Atomic!vars
<1> USE DEF project, hand, history, At, End, Loop, Recover, Undo
<1>1. CASE \/ \E p \in PlansOf[r0] : Validate(r0, p)
           \/ Ask(r0) \/ NoCandidate(r0)
           \/ \E size \in {"reliable", "oversized"} : Propose(r0, size)
  <2>1. /\ disk' = disk /\ pc[r0] \notin Applying /\ pc'[r0] \notin Applying
        /\ \/ outcome'[r0] = outcome[r0]
           \/ outcome[r0] = "open" /\ outcome'[r0] = "refused"
    BY <1>1, <1>t, <1>p DEF Validate, Ask, NoCandidate, Propose, Applying
  <2> QED
    BY <2>1, <1>s, BeforeApplying
<1>2. CASE Begin(r0)
  <2>1. CASE Valid(plan[r0]) /\ pc'[r0] = "writing"
    <3>1. /\ disk' = disk /\ plan' = plan /\ snap'[r0] = Snapshot(r0)
          /\ pc[r0] = "proposed" /\ outcome' = outcome
      BY <1>2, <1>t, <2>1 DEF Begin
    <3>2. Relied' = Relied
      BY <1>t, <3>1, <2>1 DEF Relied, Applying, Reviewed, Snapshot, Image
    <3> QED
      BY <3>1, <3>2, <1>s, SameVerdict
  <2>2. CASE pc'[r0] = "ended" /\ outcome'[r0] = "refused"
    <3>1. disk' = disk /\ pc[r0] = "proposed" /\ outcome[r0] = "open"
      BY <1>2, <1>t, <1>p DEF Begin
    <3> QED
      BY <2>2, <3>1, <1>s, BeforeApplying DEF Applying
  <2> QED
    BY <1>2, <1>t, <2>1, <2>2 DEF Begin
<1>3. CASE \/ \E f \in Files : Write(r0, f) \/ WriteFails(r0, f)
           \/ \E f \in Files : Restore(r0, f) /\ pc'[r0] # "ended"
           \/ \E f \in Files : RestoreFails(r0, f) /\ pc[r0] = "undoing"
           \/ \E left \in LeftCaches :
                TestsPass(r0, left) \/ TestsFail(r0, left) \/ TestsStop(r0, left)
           \/ AskRepair(r0) \/ NoRepair(r0)
           \/ \E size \in {"reliable", "oversized"} : Repair(r0, size)
           \/ CommitRaises(r0) /\ pc'[r0] # "ended"
  <2>1. /\ pc[r0] \in Applying /\ pc'[r0] \in Applying
        /\ UNCHANGED <<plan, snap>> /\ outcome'[r0] = outcome[r0]
    BY <1>3, <1>t DEF Write, WriteFails, Restore, RestoreFails, TestsPass, TestsFail, TestsStop,
       RunTests, AskRepair, NoRepair, Repair, CommitRaises, Applying
  <2>2. \A f \in Files \ Reviewed(r0) : disk'[f] = disk[f]
    BY <1>f DEF Frame
  <2> QED
    BY <2>1, <2>2, <1>s, Within
<1>4. ASSUME NEW f \in Files, Restore(r0, f), pc'[r0] = "ended" PROVE [Atomic!Next]_(Atomic!vars)
  BY <1>4, <1>s, PutBack
<1>5. CASE \/ \E f \in Files : RestoreFails(r0, f) /\ pc[r0] # "undoing"
           \/ CommitRaises(r0) /\ pc'[r0] = "ended"
  <2>1. outcome[r0] = "open" /\ outcome'[r0] = "raised"
    BY <1>5, <1>t, <1>p DEF RestoreFails, CommitRaises
  <2> QED
    BY <2>1, <1>s, Broken
<1>6. CASE Commit(r0) \/ CommitRefused(r0)
  <2>1. pc[r0] = "committing"
    BY <1>6 DEF Commit, CommitRefused
  <2>2. cand[r0] \in Candidates /\ plan[r0] \in PlansOf[r0]
    BY <1>t, <2>1 DEF IInv, PlaceInv, Applying
  <2>3. Reviewed(r0) # {}
    BY <1>t, <2>2, ExecutorAssumption DEF Reviewed
  <2>4. Reviewed(r0) \in (SUBSET Files) \ {{}}
    BY <1>p, <2>1, <2>3
  <2> QED
    BY <1>6, <2>2, <2>4, TakesEffect DEF Atomic!Next
<1> QED
  BY <1>1, <1>2, <1>3, <1>4, <1>5, <1>6 DEF Step

\* So is what happens around it.
LEMMA EnvironmentRefines ==
  ASSUME IInv, IInv', Alone, Environment \/ UNCHANGED vars
  PROVE  [Atomic!Next]_(Atomic!vars)
<1>t. /\ disk \in [Files -> Contents] /\ pc \in [Runs -> Places] /\ r0 \in Runs
      /\ outcome \in [Runs -> Outcomes]
      /\ pc[r0] # "ended" => outcome[r0] = "open"
  BY DEF IInv, TypeOK, PlaceInv, Alone
<1>s. UNCHANGED <<Relied, Verdict>> \/ Atomic!Break => [Atomic!Next]_(Atomic!vars)
  BY DEF Atomic!Next, Atomic!vars
<1> USE DEF project, hand, history
<1>1. CASE Crash
  <2>1. outcome[r0] = "open" /\ outcome'[r0] = "lost"
    BY <1>1, <1>t DEF Crash, Alone, Applying
  <2> QED
    BY <2>1, <1>s, Broken
<1>2. ASSUME NEW f \in Files, UserEdits(f) PROVE [Atomic!Next]_(Atomic!vars)
  <2>1. /\ pc[r0] \notin Applying /\ pc' = pc /\ plan' = plan /\ snap' = snap
        /\ outcome' = outcome
    BY <1>2, <1>t DEF UserEdits, Alone, Undisturbed
  <2>2. PICK c \in {Edited, Absent} : disk' = [disk EXCEPT ![f] = c]
    BY <1>2 DEF UserEdits
  <2>3. c \in Contents \ Candidates
    BY ExecutorAssumption DEF Contents
  <2>4. Relied = disk /\ Relied' = disk'
    BY <2>1, <1>t, <2>2 DEF Relied
  <2>5. Atomic!Edit(f, c)
    BY <2>1, <2>2, <2>4, SameVerdict DEF Atomic!Edit
  <2> QED
    BY <2>3, <2>5 DEF Atomic!Next
<1>3. CASE (\E f \in Files : UserCompiles(f)) \/ UNCHANGED vars
  <2>1. UNCHANGED <<disk, pc, plan, snap, outcome>>
    BY <1>3 DEF UserCompiles, vars
  <2>2. Relied' = Relied
    BY <2>1 DEF Relied, Reviewed
  <2> QED
    BY <2>1, <2>2, <1>s, SameVerdict
<1> QED
  BY <1>1, <1>2, <1>3 DEF Environment

\* One run is an atomic change of the files it reviews, whatever fails in it:
\* every step of propose, apply_proposal and _repair_once is a step of
\* AtomicPatch or is not seen.
THEOREM PatchIsAtomic == ASSUME Alone PROVE Spec => ImplementsAtomicPatch
<1>1. IInv /\ ExactInv /\ IInv' /\ [Next]_vars => [Atomic!Next]_(Atomic!vars)
  <2> SUFFICES ASSUME IInv, ExactInv, IInv', [Next]_vars PROVE [Atomic!Next]_(Atomic!vars)
    OBVIOUS
  <2>1. ASSUME NEW r \in Runs, Step(r) PROVE [Atomic!Next]_(Atomic!vars)
    <3>1. r = r0
      BY DEF Alone
    <3> QED
      BY <2>1, <3>1, StepRefines
  <2> QED
    BY <2>1, EnvironmentRefines DEF Next
<1>2. Undisturbed
  BY DEF Alone
<1>3. Spec => []ExactInv
  BY <1>2, AlwaysExact
<1>4. Spec => Atomic!Spec
  BY <1>1, <1>3, InitRefines, AlwaysIInv, PTL DEF Spec, Atomic!Spec
<1> QED
  BY <1>4 DEF ImplementsAtomicPatch

=============================================================================
