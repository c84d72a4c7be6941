------------------------ MODULE PatchExecutorProofs ------------------------
(***************************************************************************)
(* Theorems about PatchExecutor for any runs, files, plans and failures.   *)
(* Where a run stands (PlaceInv) is enough for what it may touch.  What it *)
(* leaves behind is proved of runs with disjoint files (CleanInv), and     *)
(* exactly which texts the files hold of runs whose files nobody edits     *)
(* meanwhile (ExactInv, CommitInv).                                        *)
(***************************************************************************)
EXTENDS PatchExecutor, TLAPS

\* Where a run stands: its plan is one of those it may come with, its candidate
\* is its own, and its loops are over the reviewed files.
PlaceInv ==
  \A r \in Runs :
    /\ pc[r] = "ended" <=> outcome[r] # "open"
    /\ pc[r] # "idle" => plan[r] \in PlansOf[r]
    /\ pc[r] \in {"proposed"} \cup Applying => cand[r] \in Candidates /\ cand[r].run = r
    /\ pc[r] \in Applying => snap[r] \in [Files -> Contents] /\ todo[r] \subseteq Reviewed(r)
    /\ pc[r] \in {"testing", "committing"} => todo[r] = {}

IInv == TypeOK /\ PlaceInv

-----------------------------------------------------------------------------
\* The reviewed files are files.
LEMMA ReviewedTypes ==
  ASSUME NEW r \in Runs, plan[r] \in PlansOf[r]
  PROVE  plan[r] \in Plans /\ Reviewed(r) \subseteq Files /\ plan[r].create \subseteq Reviewed(r)
BY ExecutorAssumption DEF Reviewed, Plans

LEMMA ImageTypes ==
  ASSUME NEW r \in Runs, NEW d \in [Files -> Contents]
  PROVE  Image(r, d) \in [Files -> Contents]
BY DEF Image, Contents

LEMMA ExecutedTypes ==
  ASSUME NEW r \in Runs, NEW left, left \in LeftCaches, TypeOK
  PROVE  Executed(r, left) \in [Files -> Contents]
<1>1. \A f \in left : f \in Files /\ cache[f] # None
  BY DEF LeftCaches
<1>2. [f \in Files |-> IF f \in left THEN cache[f] ELSE disk[f]] \in [Files -> Contents]
  BY <1>1 DEF TypeOK
<1> QED
  BY <1>2, ImageTypes DEF Executed

LEMMA InitIInv == Init => IInv
<1> SUFFICES ASSUME Init PROVE IInv
  OBVIOUS
<1>1. 0 \in 0..MaxEdits
  BY ExecutorAssumption
<1>2. TypeOK
  BY <1>1 DEF Init, TypeOK, Contents, Places, Outcomes
<1>3. PlaceInv
  BY DEF Init, PlaceInv, Applying
<1> QED
  BY <1>2, <1>3 DEF IInv

\* Every step keeps the types and the places.
LEMMA NextIInv == IInv /\ [Next]_vars => IInv'
<1> SUFFICES ASSUME IInv, [Next]_vars PROVE IInv'
  OBVIOUS
<1>c. {Absent, Torn, Base, Edited} \subseteq Contents /\ Candidates \subseteq Contents
  BY DEF Contents
<1> USE <1>c DEF IInv, project, hand, history, At, End, Loop, Recover, Undo
<1>1. ASSUME NEW r \in Runs, NEW p \in PlansOf[r], Validate(r, p) PROVE IInv'
  <2>1. p \in Plans
    BY ExecutorAssumption
  <2>2. TypeOK'
    BY <1>1, <2>1 DEF Validate, TypeOK, Places, Outcomes
  <2>3. PlaceInv'
    BY <1>1 DEF Validate, PlaceInv, Applying, Reviewed, TypeOK
  <2> QED
    BY <2>2, <2>3
<1>2. ASSUME NEW r \in Runs, Ask(r) \/ NoCandidate(r) PROVE IInv'
  <2>1. TypeOK'
    BY <1>2 DEF Ask, NoCandidate, TypeOK, Places, Outcomes
  <2>2. PlaceInv'
    BY <1>2 DEF Ask, NoCandidate, PlaceInv, Applying, Reviewed, TypeOK
  <2> QED
    BY <2>1, <2>2
<1>3. ASSUME NEW r \in Runs, NEW size \in {"reliable", "oversized"}, Propose(r, size)
      PROVE  IInv'
  <2> DEFINE c == [run |-> r, attempt |-> "approved", size |-> size]
  <2>1. Shown(r) \in [Files -> Contents]
    BY ImageTypes DEF Shown, TypeOK
  <2>c. c \in Candidates /\ c.run = r
    BY DEF Candidates, Attempts
  <2> HIDE DEF c
  <2>p. \/ pc' = [pc EXCEPT ![r] = "proposed"] /\ cand' = [cand EXCEPT ![r] = c]
             /\ diffed' = [diffed EXCEPT ![r] = Shown(r)] /\ UNCHANGED outcome
        \/ pc' = [pc EXCEPT ![r] = "ended"] /\ UNCHANGED <<cand, diffed>>
             /\ outcome' = [outcome EXCEPT ![r] = "refused"]
    BY <1>3 DEF Propose, c
  <2>a. /\ cand' \in [Runs -> Candidates \cup {None}]
        /\ diffed' \in [Runs -> [Files -> Contents] \cup {None}]
    BY <2>1, <2>c, <2>p DEF TypeOK
  <2>b. pc' \in [Runs -> Places] /\ outcome' \in [Runs -> Outcomes]
    BY <2>p DEF TypeOK, Places, Outcomes
  <2>2. TypeOK'
    BY <1>3, <2>a, <2>b DEF Propose, TypeOK
  <2>3. PlaceInv'
    BY <1>3, <2>c, <2>p DEF Propose, PlaceInv, Applying, Reviewed, TypeOK
  <2> QED
    BY <2>2, <2>3
<1>4. ASSUME NEW r \in Runs, Begin(r) PROVE IInv'
  <2>1. Snapshot(r) \in [Files -> Contents]
    BY ImageTypes DEF Snapshot, TypeOK
  <2>2. Reviewed(r) \subseteq Files
    BY <1>4, ReviewedTypes DEF Begin, PlaceInv
  <2>a. snap' \in [Runs -> [Files -> Contents] \cup {None}]
    BY <1>4, <2>1 DEF Begin, TypeOK
  <2>b. todo' \in [Runs -> SUBSET Files]
    BY <1>4, <2>2 DEF Begin, TypeOK
  <2>c. pc' \in [Runs -> Places] /\ outcome' \in [Runs -> Outcomes]
    BY <1>4 DEF Begin, TypeOK, Places, Applying, Outcomes
  <2>3. TypeOK'
    BY <1>4, <2>a, <2>b, <2>c DEF Begin, TypeOK
  <2>4. PlaceInv'
    BY <1>4, <2>1 DEF Begin, PlaceInv, Applying, Reviewed, TypeOK
  <2> QED
    BY <2>3, <2>4
<1>5. ASSUME NEW r \in Runs, NEW f \in Files, Write(r, f) PROVE IInv'
  <2>1. cand[r] \in Contents /\ Reviewed(r) \subseteq Files
    BY <1>5, ReviewedTypes DEF Write, PlaceInv, Applying
  <2>a. disk' \in [Files -> Contents]
    BY <1>5, <2>1 DEF Write, TypeOK
  <2>b. todo' \in [Runs -> SUBSET Files]
    BY <1>5, <2>1 DEF Write, TypeOK
  <2>c. pc' \in [Runs -> Places]
    BY <1>5 DEF Write, TypeOK, Places, Applying
  <2>2. TypeOK'
    BY <1>5, <2>a, <2>b, <2>c DEF Write, TypeOK
  <2>3. PlaceInv'
    BY <1>5 DEF Write, PlaceInv, Applying, Reviewed, TypeOK
  <2> QED
    BY <2>2, <2>3
<1>6. ASSUME NEW r \in Runs, NEW f \in Files, WriteFails(r, f) PROVE IInv'
  <2>1. Reviewed(r) \subseteq Files
    BY <1>6, ReviewedTypes DEF WriteFails, PlaceInv
  <2>2. TypeOK'
    BY <1>6, <2>1 DEF WriteFails, TypeOK, Places, Applying
  <2>3. PlaceInv'
    BY <1>6 DEF WriteFails, PlaceInv, Applying, Reviewed, TypeOK
  <2> QED
    BY <2>2, <2>3
<1>7. ASSUME NEW r \in Runs, NEW f \in Files, Restore(r, f) PROVE IInv'
  <2>1. snap[r] \in [Files -> Contents]
    BY <1>7 DEF Restore, PlaceInv, Applying
  <2>2. RestoreFile(r, f) \in [Files -> Contents]
    BY <2>1 DEF RestoreFile, TypeOK
  <2>3. TypeOK'
    BY <1>7, <2>2 DEF Restore, TypeOK, Places, Applying, Outcomes
  <2>4. PlaceInv'
    BY <1>7 DEF Restore, PlaceInv, Applying, Reviewed, TypeOK
  <2> QED
    BY <2>3, <2>4
<1>8. ASSUME NEW r \in Runs, NEW f \in Files, RestoreFails(r, f) PROVE IInv'
  <2>1. Reviewed(r) \subseteq Files
    BY <1>8, ReviewedTypes DEF RestoreFails, PlaceInv
  <2>2. disk' \in [Files -> Contents]
    BY <1>8 DEF RestoreFails, TypeOK
  <2>3. TypeOK'
    BY <1>8, <2>1, <2>2 DEF RestoreFails, TypeOK, Places, Applying, Outcomes
  <2>4. PlaceInv'
    BY <1>8 DEF RestoreFails, PlaceInv, Applying, Reviewed, TypeOK
  <2> QED
    BY <2>3, <2>4
<1>9. ASSUME NEW r \in Runs, NEW left \in LeftCaches,
             TestsPass(r, left) \/ TestsFail(r, left) \/ TestsStop(r, left)
      PROVE  IInv'
  <2>1. Executed(r, left) \in [Files -> Contents]
    BY ExecutedTypes
  <2>2. Reviewed(r) \subseteq Files
    BY <1>9, ReviewedTypes DEF TestsPass, TestsFail, TestsStop, RunTests, PlaceInv
  <2>3. cache' \in [Files -> Contents \cup {None}]
    BY <1>9 DEF TestsPass, TestsFail, TestsStop, RunTests, TypeOK
  <2>4. TypeOK'
    BY <1>9, <2>1, <2>2, <2>3 DEF TestsPass, TestsFail, TestsStop, RunTests, TypeOK, Places,
                                  Applying
  <2>5. PlaceInv'
    BY <1>9 DEF TestsPass, TestsFail, TestsStop, RunTests, PlaceInv, Applying, Reviewed, TypeOK
  <2> QED
    BY <2>4, <2>5
<1>10. ASSUME NEW r \in Runs, AskRepair(r) \/ NoRepair(r) PROVE IInv'
  <2>1. Reviewed(r) \subseteq Files
    BY <1>10, ReviewedTypes DEF AskRepair, NoRepair, PlaceInv
  <2>2. TypeOK'
    BY <1>10, <2>1 DEF AskRepair, NoRepair, TypeOK, Places, Applying
  <2>3. PlaceInv'
    BY <1>10 DEF AskRepair, NoRepair, PlaceInv, Applying, Reviewed, TypeOK
  <2> QED
    BY <2>2, <2>3
<1>11. ASSUME NEW r \in Runs, NEW size \in {"reliable", "oversized"}, Repair(r, size)
       PROVE  IInv'
  <2>1. Reviewed(r) \subseteq Files
    BY <1>11, ReviewedTypes DEF Repair, PlaceInv
  <2> DEFINE c == [run |-> r, attempt |-> "repair", size |-> size]
  <2>c. c \in Candidates /\ c.run = r
    BY DEF Candidates, Attempts
  <2>p. cand' = [cand EXCEPT ![r] = c]
    BY <1>11 DEF Repair
  <2> HIDE DEF c
  <2>2. TypeOK'
    BY <1>11, <2>1, <2>c, <2>p DEF Repair, TypeOK, Places, Applying
  <2>3. PlaceInv'
    BY <1>11, <2>c, <2>p DEF Repair, PlaceInv, Applying, Reviewed, TypeOK
  <2> QED
    BY <2>2, <2>3
<1>12. ASSUME NEW r \in Runs, Commit(r) \/ CommitRefused(r) \/ CommitRaises(r) PROVE IInv'
  <2>1. Reviewed(r) \subseteq Files
    BY <1>12, ReviewedTypes DEF Commit, CommitRefused, CommitRaises, PlaceInv
  <2>2. Scoped(r) \in [Files -> Contents]
    BY DEF Scoped, TypeOK
  <2>3. TypeOK'
    BY <1>12, <2>1, <2>2 DEF Commit, CommitRefused, CommitRaises, TypeOK, Places, Applying,
                             Outcomes
  <2>4. PlaceInv'
    BY <1>12 DEF Commit, CommitRefused, CommitRaises, PlaceInv, Applying, Reviewed, TypeOK
  <2> QED
    BY <2>3, <2>4
<1>13. CASE Crash
  <2>1. TypeOK'
    BY <1>13 DEF Crash, TypeOK, Places, Outcomes
  <2>2. PlaceInv'
    BY <1>13 DEF Crash, PlaceInv, Applying, Reviewed, TypeOK
  <2> QED
    BY <2>1, <2>2
<1>14. ASSUME NEW f \in Files, UserEdits(f) PROVE IInv'
  <2>1. edits' \in 0..MaxEdits
    BY <1>14, ExecutorAssumption DEF UserEdits, TypeOK
  <2>2. TypeOK'
    BY <1>14, <2>1 DEF UserEdits, TypeOK
  <2>3. PlaceInv'
    BY <1>14 DEF UserEdits, PlaceInv, Applying, Reviewed
  <2> QED
    BY <2>2, <2>3
<1>15. ASSUME NEW f \in Files, UserCompiles(f) PROVE IInv'
  BY <1>15 DEF UserCompiles, TypeOK, PlaceInv, Applying, Reviewed
<1>16. CASE UNCHANGED vars
  BY <1>16 DEF vars, TypeOK, PlaceInv, Reviewed
<1> QED
  BY <1>1, <1>2, <1>3, <1>4, <1>5, <1>6, <1>7, <1>8, <1>9, <1>10, <1>11, <1>12, <1>13,
     <1>14, <1>15, <1>16
     DEF Next, Step, Environment

LEMMA AlwaysIInv == Spec => []IInv
BY InitIInv, NextIInv, PTL DEF Spec

\* The files, the snapshots and the results keep their types, whatever fails.
THEOREM TypeCorrect == Spec => []TypeOK
<1>1. IInv => TypeOK
  BY DEF IInv
<1> QED
  BY <1>1, AlwaysIInv, PTL

-----------------------------------------------------------------------------
\* A step of one run leaves the others alone, and the files it does not review.
Frame(r) ==
  /\ \A s \in Runs \ {r} :
       /\ pc'[s] = pc[s] /\ plan'[s] = plan[s] /\ cand'[s] = cand[s]
       /\ todo'[s] = todo[s] /\ snap'[s] = snap[s] /\ outcome'[s] = outcome[s]
       /\ tested'[s] = tested[s]
  /\ \A f \in Files \ Reviewed(r) : disk'[f] = disk[f] /\ head'[f] = head[f]
  /\ pc[r] \notin Applying => UNCHANGED <<disk, head>>
  /\ pc[r] # "idle" => plan'[r] = plan[r]

LEMMA StepFrame == ASSUME IInv, NEW r \in Runs, Step(r) PROVE Frame(r)
<1>t. /\ disk \in [Files -> Contents] /\ head \in [Files -> Contents]
      /\ pc \in [Runs -> Places]
  BY DEF IInv, TypeOK
<1>p. pc[r] \in Applying => todo[r] \subseteq Reviewed(r)
  BY DEF IInv, PlaceInv
<1> USE DEF IInv, project, hand, history, At, End, Loop, Recover, Undo, Frame, Applying, TypeOK
<1>1. ASSUME NEW p \in PlansOf[r], Validate(r, p) PROVE Frame(r)
  BY <1>1 DEF Validate
<1>2. CASE Ask(r) \/ NoCandidate(r) \/ Begin(r) \/ AskRepair(r) \/ NoRepair(r)
  BY <1>2 DEF Ask, NoCandidate, Begin, AskRepair, NoRepair
<1>3. ASSUME NEW size \in {"reliable", "oversized"}, Propose(r, size) \/ Repair(r, size)
      PROVE  Frame(r)
  BY <1>3 DEF Propose, Repair
<1>4. ASSUME NEW f \in Files,
             Write(r, f) \/ WriteFails(r, f) \/ Restore(r, f) \/ RestoreFails(r, f)
      PROVE  Frame(r)
  <2>1. f \in Reviewed(r)
    BY <1>4, <1>p DEF Write, WriteFails, Restore, RestoreFails
  <2>2. \A g \in Files \ {f} : disk'[g] = disk[g]
    BY <1>4, <1>t DEF Write, WriteFails, Restore, RestoreFails, RestoreFile
  <2> QED
    BY <1>4, <2>1, <2>2 DEF Write, WriteFails, Restore, RestoreFails
<1>5. ASSUME NEW left \in LeftCaches,
             TestsPass(r, left) \/ TestsFail(r, left) \/ TestsStop(r, left)
      PROVE  Frame(r)
  BY <1>5 DEF TestsPass, TestsFail, TestsStop, RunTests
<1>6. CASE Commit(r) \/ CommitRefused(r) \/ CommitRaises(r)
  BY <1>6, <1>t DEF Commit, CommitRefused, CommitRaises, Scoped
<1> QED
  BY <1>1, <1>2, <1>3, <1>4, <1>5, <1>6 DEF Step

\* Whatever fails and whoever is at work, the files and the history change only
\* by a run that applies them or, the files, by the user.
THEOREM OnlyReviewedFilesAreTouched == Spec => OnlyReviewedFilesChange
<1> DEFINE Touched ==
      \A f \in Files : disk'[f] # disk[f] \/ head'[f] # head[f] =>
        \/ edits' # edits /\ head' = head
        \/ \E r \in Runs : pc[r] \in Applying /\ f \in Reviewed(r)
<1>1. IInv /\ [Next]_vars => Touched
  <2> SUFFICES ASSUME IInv, [Next]_vars PROVE Touched
    OBVIOUS
  <2>1. ASSUME NEW r \in Runs, Step(r) PROVE Touched
    BY <2>1, StepFrame DEF Frame
  <2>2. ASSUME NEW f \in Files, UserEdits(f) PROVE Touched
    <3>1. edits' # edits
      BY <2>2, ExecutorAssumption DEF UserEdits, IInv, TypeOK
    <3> QED
      BY <2>2, <3>1 DEF UserEdits
  <2>3. CASE Crash \/ UNCHANGED vars \/ \E f \in Files : UserCompiles(f)
    BY <2>3 DEF Crash, vars, UserCompiles, project
  <2> QED
    BY <2>1, <2>2, <2>3 DEF Next, Environment
<1> QED
  BY <1>1, AlwaysIInv, PTL DEF Spec, OnlyReviewedFilesChange

-----------------------------------------------------------------------------
(* Runs with disjoint files *)

DisjointPlans ==
  \A r, s \in Runs : r # s =>
    \A p \in PlansOf[r], q \in PlansOf[s] : p.files \cap q.files = {}

\* Files that a run may come to review.
Mine(r) == {f \in Files : \E p \in PlansOf[r] : f \in p.files}

\* A text that run r has neither written nor torn.
Clean(r, c) == c # Torn /\ c \notin {d \in Candidates : d.run = r}

\* Before a run applies its candidate its files are clean; while it does, its
\* snapshot is, and what it has restored; and what it failed to change is clean
\* again.
CleanOf(r) ==
  /\ pc[r] \notin Applying /\ outcome[r] \in {"open", "refused", "rolled_back"} =>
       \A f \in Mine(r) : Clean(r, disk[f])
  /\ pc[r] \in Applying =>
       /\ \A f \in Mine(r) \ Reviewed(r) : Clean(r, disk[f])
       /\ \A f \in Reviewed(r) : Clean(r, snap[r][f])
  /\ pc[r] \in {"undoing", "recovering"} =>
       \A f \in Reviewed(r) \ todo[r] : Clean(r, disk[f])

CleanInv == \A r \in Runs : CleanOf(r)

\* The reviewed files of a run are its own.
LEMMA ReviewedIsMine ==
  ASSUME IInv, NEW r \in Runs, pc[r] # "idle"
  PROVE  Reviewed(r) \subseteq Mine(r)
BY ReviewedTypes DEF IInv, PlaceInv, Reviewed, Mine

LEMMA MineAreDisjoint ==
  ASSUME DisjointPlans, NEW r \in Runs, NEW s \in Runs, r # s
  PROVE  Mine(r) \cap Mine(s) = {}
BY DEF DisjointPlans, Mine

\* A step of another run leaves a run as clean as it was.
LEMMA OthersStayClean ==
  ASSUME DisjointPlans, IInv, CleanInv, NEW r \in Runs, NEW s \in Runs, r # s, Step(s)
  PROVE  CleanOf(r)'
<1>1. Frame(s)
  BY StepFrame
<1>2. \A f \in Mine(r) : disk'[f] = disk[f]
  <2>1. CASE pc[s] \in Applying
    <3>1. Reviewed(s) \subseteq Mine(s)
      BY <2>1, ReviewedIsMine DEF Applying
    <3> QED
      BY <1>1, <3>1, MineAreDisjoint DEF Frame, Mine
  <2>2. CASE pc[s] \notin Applying
    BY <1>1, <2>2 DEF Frame
  <2> QED
    BY <2>1, <2>2
<1>3. pc[r] \in Applying => Reviewed(r) \subseteq Mine(r)
  BY ReviewedIsMine DEF Applying
<1>4. /\ pc'[r] = pc[r] /\ plan'[r] = plan[r] /\ todo'[r] = todo[r]
      /\ snap'[r] = snap[r] /\ outcome'[r] = outcome[r]
  BY <1>1 DEF Frame
<1>5. CleanOf(r)
  BY DEF CleanInv
<1> QED
  BY <1>2, <1>3, <1>4, <1>5 DEF CleanOf, Reviewed, Mine, Applying

\* Neither what the user saves nor no file at all is a run's text.
LEMMA CleanTexts ==
  ASSUME NEW r \in Runs
  PROVE  Clean(r, Absent) /\ Clean(r, Edited) /\ Clean(r, Base)
BY ExecutorAssumption DEF Clean

\* A run's own steps.
LEMMA OwnStepClean ==
  ASSUME IInv, CleanInv, NEW r \in Runs, Step(r)
  PROVE  CleanOf(r)'
<1>c. CleanOf(r)
  BY DEF CleanInv
<1>t. /\ disk \in [Files -> Contents] /\ pc \in [Runs -> Places] /\ pc[r] \in Places
      /\ todo \in [Runs -> SUBSET Files] /\ outcome \in [Runs -> Outcomes]
      /\ snap \in [Runs -> [Files -> Contents] \cup {None}]
      /\ plan \in [Runs -> Plans \cup {None}]
  BY DEF IInv, TypeOK
<1>p. /\ pc[r] = "ended" <=> outcome[r] # "open"
      /\ pc[r] \in Applying => todo[r] \subseteq Reviewed(r)
      /\ pc[r] # "idle" => Reviewed(r) \subseteq Mine(r) /\ Reviewed(r) \subseteq Files
  BY ReviewedIsMine, ReviewedTypes DEF IInv, PlaceInv, Mine
<1> USE DEF project, hand, history, At, End, Loop, Recover, Undo, Applying
<1>1. ASSUME NEW p \in PlansOf[r], Validate(r, p) PROVE CleanOf(r)'
  BY <1>1, <1>c, <1>t, <1>p DEF Validate, CleanOf, Mine
<1>2. CASE Ask(r) \/ NoCandidate(r)
  BY <1>2, <1>c, <1>t, <1>p DEF Ask, NoCandidate, CleanOf, Mine
<1>3. ASSUME NEW size \in {"reliable", "oversized"}, Propose(r, size) PROVE CleanOf(r)'
  BY <1>3, <1>c, <1>t, <1>p DEF Propose, CleanOf, Mine
<1>4. CASE Begin(r)
  <2>1. \A f \in Reviewed(r) : Snapshot(r)[f] = disk[f]
    BY <1>4, <1>p DEF Snapshot, Image, Begin
  <2>2. \A f \in Mine(r) : Clean(r, disk[f])
    BY <1>4, <1>c, <1>p DEF Begin, CleanOf
  <2> QED
    BY <1>4, <1>t, <1>p, <2>1, <2>2 DEF Begin, CleanOf, Mine, Reviewed
<1>5. ASSUME NEW f \in Files, Write(r, f) PROVE CleanOf(r)'
  <2>1. f \in Reviewed(r) /\ \A g \in Files \ {f} : disk'[g] = disk[g]
    BY <1>5, <1>t, <1>p DEF Write
  <2> QED
    BY <1>5, <1>c, <1>t, <1>p, <2>1 DEF Write, CleanOf, Mine, Reviewed
<1>6. ASSUME NEW f \in Files, WriteFails(r, f) PROVE CleanOf(r)'
  <2>1. f \in Reviewed(r) /\ \A g \in Files \ {f} : disk'[g] = disk[g]
    BY <1>6, <1>t, <1>p DEF WriteFails
  <2> QED
    BY <1>6, <1>c, <1>t, <1>p, <2>1 DEF WriteFails, CleanOf, Mine, Reviewed
<1>7. ASSUME NEW f \in Files, Restore(r, f) PROVE CleanOf(r)'
  <2>1. f \in Reviewed(r) /\ \A g \in Files \ {f} : disk'[g] = disk[g]
    BY <1>7, <1>t, <1>p DEF Restore, RestoreFile
  <2>2. Clean(r, disk'[f])
    BY <1>7, <1>c, <1>t, <2>1, CleanTexts DEF Restore, RestoreFile, CleanOf
  <2> QED
    BY <1>7, <1>c, <1>t, <1>p, <2>1, <2>2 DEF Restore, CleanOf, Mine, Reviewed
<1>8. ASSUME NEW f \in Files, RestoreFails(r, f) PROVE CleanOf(r)'
  <2>1. f \in Reviewed(r) /\ \A g \in Files \ {f} : disk'[g] = disk[g]
    BY <1>8, <1>t, <1>p DEF RestoreFails
  <2> QED
    BY <1>8, <1>c, <1>t, <1>p, <2>1 DEF RestoreFails, CleanOf, Mine, Reviewed
<1>9. ASSUME NEW left \in LeftCaches,
             TestsPass(r, left) \/ TestsFail(r, left) \/ TestsStop(r, left)
      PROVE  CleanOf(r)'
  BY <1>9, <1>c, <1>t, <1>p
     DEF TestsPass, TestsFail, TestsStop, RunTests, CleanOf, Mine, Reviewed
<1>10. CASE AskRepair(r) \/ NoRepair(r)
  BY <1>10, <1>c, <1>t, <1>p DEF AskRepair, NoRepair, CleanOf, Mine, Reviewed
<1>11. ASSUME NEW size \in {"reliable", "oversized"}, Repair(r, size) PROVE CleanOf(r)'
  BY <1>11, <1>c, <1>t, <1>p DEF Repair, CleanOf, Mine, Reviewed
<1>12. CASE Commit(r) \/ CommitRefused(r) \/ CommitRaises(r)
  BY <1>12, <1>c, <1>t, <1>p DEF Commit, CommitRefused, CommitRaises, CleanOf, Mine, Reviewed
<1> QED
  BY <1>1, <1>2, <1>3, <1>4, <1>5, <1>6, <1>7, <1>8, <1>9, <1>10, <1>11, <1>12 DEF Step

LEMMA InitClean == Init => CleanInv
<1> SUFFICES ASSUME Init, NEW r \in Runs PROVE CleanOf(r)
  BY DEF CleanInv
<1>1. \A f \in Files : Clean(r, disk[f])
  BY CleanTexts DEF Init
<1> QED
  BY <1>1 DEF Init, CleanOf, Mine, Applying

\* A step that only ends runs, or in which the user edits or compiles.
LEMMA EnvironmentClean ==
  ASSUME IInv, CleanInv, Environment \/ UNCHANGED vars
  PROVE  CleanInv'
<1> SUFFICES ASSUME NEW r \in Runs PROVE CleanOf(r)'
  BY DEF CleanInv
<1>c. CleanOf(r)
  BY DEF CleanInv
<1>t. /\ disk \in [Files -> Contents] /\ pc \in [Runs -> Places]
      /\ outcome \in [Runs -> Outcomes]
      /\ pc[r] \in Applying => Reviewed(r) \subseteq Files
  BY ReviewedTypes DEF IInv, TypeOK, PlaceInv, Applying
<1> USE DEF project, hand, history
<1>1. CASE Crash
  BY <1>1, <1>c, <1>t DEF Crash, CleanOf, Reviewed, Applying, Mine
<1>2. ASSUME NEW f \in Files, UserEdits(f) PROVE CleanOf(r)'
  <2>1. \A g \in Files : disk'[g] = disk[g] \/ Clean(r, disk'[g])
    BY <1>2, <1>t, CleanTexts DEF UserEdits
  <2> QED
    BY <1>2, <1>c, <1>t, <2>1 DEF UserEdits, CleanOf, Reviewed, Applying, Mine
<1>3. ASSUME NEW f \in Files, UserCompiles(f) PROVE CleanOf(r)'
  BY <1>3, <1>c DEF UserCompiles, CleanOf, Reviewed, Applying, Mine
<1>4. CASE UNCHANGED vars
  BY <1>4, <1>c DEF vars, CleanOf, Reviewed, Applying, Mine
<1> QED
  BY <1>1, <1>2, <1>3, <1>4 DEF Environment

LEMMA AlwaysClean == ASSUME DisjointPlans PROVE Spec => []CleanInv
<1>1. IInv /\ CleanInv /\ [Next]_vars => CleanInv'
  <2> SUFFICES ASSUME IInv, CleanInv, [Next]_vars PROVE CleanInv'
    OBVIOUS
  <2>1. ASSUME NEW s \in Runs, Step(s) PROVE CleanInv'
    BY <2>1, OwnStepClean, OthersStayClean DEF CleanInv
  <2> QED
    BY <2>1, EnvironmentClean DEF Next
<1> QED
  BY <1>1, InitClean, AlwaysIInv, PTL DEF Spec

\* A run that says it failed has left neither a text of its own nor a torn file,
\* whatever failed and whenever the user saved: if no other run reviews its
\* files.
THEOREM FailureLeavesNoTrace == ASSUME DisjointPlans PROVE Spec => []NoTraceOfFailure
<1>1. IInv /\ CleanInv => NoTraceOfFailure
  <2> SUFFICES ASSUME IInv, CleanInv, NEW r \in Runs,
                      outcome[r] \in {"refused", "rolled_back"}, NEW f \in Reviewed(r)
               PROVE  ~WrittenBy(r, f) /\ disk[f] # Torn
    BY DEF NoTraceOfFailure
  <2>1. pc[r] = "ended" /\ f \in Mine(r)
    BY ReviewedIsMine DEF IInv, PlaceInv
  <2>2. Clean(r, disk[f])
    BY <2>1 DEF CleanInv, CleanOf, Applying
  <2> QED
    BY <2>2 DEF Clean, WrittenBy
<1> QED
  BY <1>1, AlwaysIInv, AlwaysClean, PTL

-----------------------------------------------------------------------------
(* Runs whose files nobody else touches while they are applied *)

Undisturbed == DisjointPlans /\ "editor" \notin Faults /\ "cache" \notin Faults

\* What the reviewed files hold at each place, file by file.
ExactOf(r) ==
  /\ pc[r] \in Applying => \A f \in plan[r].create : snap[r][f] = Absent
  /\ pc[r] \in {"undoing", "recovering"} =>
       \A f \in Reviewed(r) \ todo[r] : disk[f] = snap[r][f]
  /\ pc[r] \in {"writing", "testing", "committing"} =>
       \A f \in Reviewed(r) \ todo[r] : disk[f] = cand[r]
  /\ pc[r] = "committing" =>
       tested[r] # None /\ \A f \in Reviewed(r) : tested[r][f] = cand[r]

ExactInv == \A r \in Runs : ExactOf(r)

\* A step of another run is not felt.
LEMMA OthersStayExact ==
  ASSUME DisjointPlans, IInv, ExactInv, NEW r \in Runs, NEW s \in Runs, r # s, Step(s)
  PROVE  ExactOf(r)'
<1>1. Frame(s)
  BY StepFrame
<1>2. pc[r] \in Applying => \A f \in Reviewed(r) : disk'[f] = disk[f]
  <2>1. CASE pc[r] \in Applying /\ pc[s] \in Applying
    <3>1. Reviewed(s) \subseteq Mine(s) /\ Reviewed(r) \subseteq Mine(r)
      BY <2>1, ReviewedIsMine DEF Applying
    <3> QED
      BY <1>1, <3>1, MineAreDisjoint DEF Frame, Mine
  <2>2. CASE pc[s] \notin Applying
    BY <1>1, <2>2 DEF Frame
  <2> QED
    BY <2>1, <2>2
<1>3. /\ pc'[r] = pc[r] /\ plan'[r] = plan[r] /\ todo'[r] = todo[r]
      /\ snap'[r] = snap[r] /\ cand'[r] = cand[r] /\ tested'[r] = tested[r]
  BY <1>1 DEF Frame
<1>4. ExactOf(r)
  BY DEF ExactInv
<1> QED
  BY <1>2, <1>3, <1>4 DEF ExactOf, Reviewed, Applying

\* A run's own steps.
LEMMA OwnStepExact ==
  ASSUME "cache" \notin Faults, IInv, ExactInv, NEW r \in Runs, Step(r)
  PROVE  ExactOf(r)'
<1>c. ExactOf(r)
  BY DEF ExactInv
<1>t. /\ disk \in [Files -> Contents] /\ pc \in [Runs -> Places]
      /\ todo \in [Runs -> SUBSET Files] /\ cand \in [Runs -> Candidates \cup {None}]
      /\ snap \in [Runs -> [Files -> Contents] \cup {None}]
      /\ tested \in [Runs -> [Files -> Contents] \cup {None}]
      /\ plan \in [Runs -> Plans \cup {None}]
  BY DEF IInv, TypeOK
<1>p. /\ pc[r] \in Applying => todo[r] \subseteq Reviewed(r)
      /\ pc[r] \in {"testing", "committing"} => todo[r] = {}
      /\ pc[r] # "idle" => Reviewed(r) \subseteq Files /\ plan[r].create \subseteq Reviewed(r)
  BY ReviewedTypes DEF IInv, PlaceInv
<1> USE DEF project, hand, history, At, End, Loop, Recover, Undo, Applying
<1>1. ASSUME NEW p \in PlansOf[r], Validate(r, p) PROVE ExactOf(r)'
  BY <1>1, <1>t DEF Validate, ExactOf
<1>2. CASE Ask(r) \/ NoCandidate(r)
  BY <1>2, <1>t DEF Ask, NoCandidate, ExactOf
<1>3. ASSUME NEW size \in {"reliable", "oversized"}, Propose(r, size) PROVE ExactOf(r)'
  BY <1>3, <1>t DEF Propose, ExactOf
<1>4. CASE Begin(r)
  <2>1. CASE Valid(plan[r]) /\ pc' = [pc EXCEPT ![r] = "writing"]
                /\ snap' = [snap EXCEPT ![r] = Snapshot(r)]
                /\ todo' = [todo EXCEPT ![r] = Reviewed(r)]
    <3>1. \A f \in plan[r].create : Snapshot(r)[f] = Absent
      BY <1>4, <1>p, <2>1 DEF Snapshot, Image, Begin, Valid, Reviewed
    <3>2. plan' = plan
      BY <1>4 DEF Begin
    <3> QED
      BY <1>t, <2>1, <3>1, <3>2 DEF ExactOf, Reviewed
  <2>2. CASE pc' = [pc EXCEPT ![r] = "ended"]
    BY <1>t, <2>2 DEF ExactOf
  <2> QED
    BY <1>4, <2>1, <2>2 DEF Begin
<1>5. ASSUME NEW f \in Files, Write(r, f) PROVE ExactOf(r)'
  <2>1. disk'[f] = cand[r] /\ \A g \in Files \ {f} : disk'[g] = disk[g]
    BY <1>5, <1>t DEF Write
  <2> QED
    BY <1>5, <1>c, <1>t, <1>p, <2>1 DEF Write, ExactOf, Reviewed
<1>6. ASSUME NEW f \in Files, WriteFails(r, f) PROVE ExactOf(r)'
  BY <1>6, <1>c, <1>t, <1>p DEF WriteFails, ExactOf, Reviewed
<1>7. ASSUME NEW f \in Files, Restore(r, f) PROVE ExactOf(r)'
  <2>1. disk'[f] = snap[r][f] /\ \A g \in Files \ {f} : disk'[g] = disk[g]
    BY <1>7, <1>c, <1>t DEF Restore, RestoreFile, ExactOf
  <2> QED
    BY <1>7, <1>c, <1>t, <1>p, <2>1 DEF Restore, ExactOf, Reviewed
<1>8. ASSUME NEW f \in Files, RestoreFails(r, f) PROVE ExactOf(r)'
  BY <1>8, <1>c, <1>t, <1>p DEF RestoreFails, ExactOf, Reviewed
<1>9. ASSUME NEW left \in LeftCaches,
             TestsPass(r, left) \/ TestsFail(r, left) \/ TestsStop(r, left)
      PROVE  ExactOf(r)'
  <2>1. left = {}
    BY DEF LeftCaches
  <2>2. \A f \in Reviewed(r) : pc[r] = "testing" => Executed(r, left)[f] = disk[f]
    BY <1>p, <2>1 DEF Executed, Image
  <2>3. Executed(r, left) # None
    BY ExecutedTypes, ExecutorAssumption DEF IInv
  <2>4. CASE TestsPass(r, left)
    <3>1. /\ pc[r] = "testing" /\ pc'[r] = "committing" /\ tested'[r] = Executed(r, left)
          /\ UNCHANGED <<disk, plan, cand, snap, todo>>
      BY <2>4, <1>t DEF TestsPass, RunTests
    <3> QED
      BY <3>1, <1>c, <1>p, <2>2, <2>3 DEF ExactOf, Reviewed
  <2> QED
    BY <1>9, <1>c, <1>t, <1>p, <2>4 DEF TestsFail, TestsStop, RunTests, ExactOf, Reviewed
<1>10. CASE AskRepair(r) \/ NoRepair(r)
  BY <1>10, <1>c, <1>t, <1>p DEF AskRepair, NoRepair, ExactOf, Reviewed
<1>11. ASSUME NEW size \in {"reliable", "oversized"}, Repair(r, size) PROVE ExactOf(r)'
  BY <1>11, <1>c, <1>t, <1>p DEF Repair, ExactOf, Reviewed
<1>12. CASE Commit(r) \/ CommitRefused(r) \/ CommitRaises(r)
  BY <1>12, <1>c, <1>t, <1>p DEF Commit, CommitRefused, CommitRaises, ExactOf, Reviewed
<1> QED
  BY <1>1, <1>2, <1>3, <1>4, <1>5, <1>6, <1>7, <1>8, <1>9, <1>10, <1>11, <1>12 DEF Step

\* The user leaves the files alone while they are applied.
LEMMA EnvironmentExact ==
  ASSUME "editor" \notin Faults, IInv, ExactInv, Environment \/ UNCHANGED vars
  PROVE  ExactInv'
<1> SUFFICES ASSUME NEW r \in Runs PROVE ExactOf(r)'
  BY DEF ExactInv
<1>c. ExactOf(r) /\ pc \in [Runs -> Places]
  BY DEF ExactInv, IInv, TypeOK
<1> USE DEF project, hand, history
<1>1. CASE Crash
  BY <1>1, <1>c DEF Crash, ExactOf, Reviewed, Applying
<1>2. ASSUME NEW f \in Files, UserEdits(f) PROVE ExactOf(r)'
  BY <1>2, <1>c DEF UserEdits, ExactOf, Applying
<1>3. ASSUME NEW f \in Files, UserCompiles(f) PROVE ExactOf(r)'
  BY <1>3, <1>c DEF UserCompiles, ExactOf, Reviewed, Applying
<1>4. CASE UNCHANGED vars
  BY <1>4, <1>c DEF vars, ExactOf, Reviewed, Applying
<1> QED
  BY <1>1, <1>2, <1>3, <1>4 DEF Environment

LEMMA AlwaysExact == ASSUME Undisturbed PROVE Spec => []ExactInv
<1>1. Init => ExactInv
  BY DEF Init, ExactInv, ExactOf, Applying
<1>2. IInv /\ ExactInv /\ [Next]_vars => ExactInv'
  <2> SUFFICES ASSUME IInv, ExactInv, [Next]_vars PROVE ExactInv'
    OBVIOUS
  <2>1. ASSUME NEW s \in Runs, Step(s) PROVE ExactInv'
    BY <2>1, OwnStepExact, OthersStayExact DEF ExactInv, Undisturbed
  <2> QED
    BY <2>1, EnvironmentExact DEF Next, Undisturbed
<1> QED
  BY <1>1, <1>2, AlwaysIInv, PTL DEF Spec

\* Whatever of its steps has failed, a run that reports rolled_back has put its
\* files back: all of its steps but the last restored file report something else.
THEOREM RolledBackRunsAreRestored ==
  ASSUME Undisturbed PROVE Spec => RolledBackIsRestored
<1> DEFINE Back == \A r \in Runs : outcome[r] # "rolled_back" /\ outcome'[r] = "rolled_back"
                     => \A f \in Reviewed(r) : disk'[f] = snap[r][f]
<1>1. IInv /\ ExactInv /\ [Next]_vars => Back
  <2> SUFFICES ASSUME IInv, ExactInv, Next, NEW r \in Runs,
                      outcome[r] # "rolled_back", outcome'[r] = "rolled_back"
               PROVE  \A f \in Reviewed(r) : disk'[f] = snap[r][f]
    BY DEF vars
  <2>t. outcome \in [Runs -> Outcomes] /\ disk \in [Files -> Contents]
    BY DEF IInv, TypeOK
  <2> USE DEF project, hand, history, At, End, Loop, Recover, Undo
  <2>1. ~Environment
    BY <2>t DEF Environment, Crash, UserEdits, UserCompiles
  <2>2. Step(r)
    BY <2>1, StepFrame DEF Next, Frame
  <2>3. PICK f \in Files : Restore(r, f)
    BY <2>2, <2>t DEF Step, Validate, Ask, NoCandidate, Propose, Begin, Write, WriteFails,
       RestoreFails, TestsPass, TestsFail, TestsStop, RunTests, AskRepair, NoRepair, Repair,
       Commit, CommitRefused, CommitRaises
  <2>4. pc[r] \in {"undoing", "recovering"} /\ todo[r] = {f} /\ disk' = RestoreFile(r, f)
    BY <2>3, <2>t DEF Restore
  <2>5. ExactOf(r)
    BY DEF ExactInv
  <2>6. disk'[f] = snap[r][f] /\ \A g \in Files \ {f} : disk'[g] = disk[g]
    BY <2>t, <2>4, <2>5 DEF RestoreFile, ExactOf, Applying
  <2>7. Reviewed(r) \subseteq Files
    BY <2>4, ReviewedTypes DEF IInv, PlaceInv
  <2> QED
    BY <2>4, <2>5, <2>6, <2>7 DEF ExactOf
<1>2. Spec => [][Back]_vars
  BY <1>1, AlwaysIInv, AlwaysExact, PTL DEF Spec
<1> QED
  BY <1>2 DEF RolledBackIsRestored

\* A success, with or without a commit, is only reported of a candidate that is
\* in every reviewed file and that the passing tests have executed.
THEOREM SuccessRestsOnTests == ASSUME Undisturbed PROVE Spec => SuccessIsTested
<1> DEFINE Tested == \A r \in Runs : ~Succeeded(r) /\ Succeeded(r)' =>
                       \A f \in Reviewed(r) : disk'[f] = cand[r] /\ tested[r][f] = cand[r]
<1>1. IInv /\ ExactInv /\ [Next]_vars => Tested
  <2> SUFFICES ASSUME IInv, ExactInv, Next, NEW r \in Runs, ~Succeeded(r), Succeeded(r)'
               PROVE  \A f \in Reviewed(r) : disk'[f] = cand[r] /\ tested[r][f] = cand[r]
    BY DEF vars, Succeeded
  <2>t. outcome \in [Runs -> Outcomes]
    BY DEF IInv, TypeOK
  <2> USE DEF project, hand, history, At, End, Loop, Recover, Undo, Succeeded
  <2>1. ~Environment
    BY <2>t DEF Environment, Crash, UserEdits, UserCompiles
  <2>2. Step(r)
    BY <2>1, StepFrame DEF Next, Frame
  <2>3. Commit(r) \/ CommitRefused(r)
    BY <2>2, <2>t DEF Step, Validate, Ask, NoCandidate, Propose, Begin, Write, WriteFails,
       Restore, RestoreFails, TestsPass, TestsFail, TestsStop, RunTests, AskRepair, NoRepair,
       Repair, CommitRaises
  <2>4. pc[r] = "committing" /\ disk' = disk /\ todo[r] = {}
    BY <2>3 DEF Commit, CommitRefused, IInv, PlaceInv
  <2> QED
    BY <2>4 DEF ExactInv, ExactOf
<1>2. Spec => [][Tested]_vars
  BY <1>1, AlwaysIInv, AlwaysExact, PTL DEF Spec
<1> QED
  BY <1>2 DEF SuccessIsTested

-----------------------------------------------------------------------------
(* What the commits hold *)

\* The commit of f is run r's: r is past its tests, and all its files agree.
CommitOf(r, f) ==
  /\ pc[r] \in {"recovering", "ended"} /\ tested[r] # None
  /\ head[f] \in {c \in Candidates : c.run = r}
  /\ \A g \in Reviewed(r) : head[g] = head[f] /\ tested[r][g] = head[f]

CommitInv == \A f \in Files : head[f] \notin {Absent, Base} => \E r \in Runs : CommitOf(r, f)

\* A run's place, tests and plan stay once it is past its tests.
LEMMA CommitsStay ==
  ASSUME DisjointPlans, IInv, NEW s \in Runs, Step(s), NEW r \in Runs, NEW f \in Files,
         CommitOf(r, f), head'[f] = head[f]
  PROVE  CommitOf(r, f)'
<1>f. Frame(s)
  BY StepFrame
<1>1. CASE r # s
  <2>1. \A g \in Reviewed(r) : head'[g] = head[g]
    <3>1. CASE pc[s] \in Applying
      <4>1. Reviewed(s) \subseteq Mine(s) /\ Reviewed(r) \subseteq Mine(r)
        BY <3>1, ReviewedIsMine DEF Applying, CommitOf
      <4> QED
        BY <1>1, <1>f, <4>1, MineAreDisjoint DEF Frame, Mine
    <3>2. CASE pc[s] \notin Applying
      BY <1>f, <3>2 DEF Frame
    <3> QED
      BY <3>1, <3>2
  <2>2. pc'[r] = pc[r] /\ plan'[r] = plan[r] /\ tested'[r] = tested[r]
    BY <1>1, <1>f DEF Frame
  <2> QED
    BY <2>1, <2>2 DEF CommitOf, Reviewed
<1>2. CASE r = s
  <2>1. pc[r] \in {"recovering", "ended"} /\ pc \in [Runs -> Places]
    BY DEF CommitOf, IInv, TypeOK
  <2> USE DEF project, hand, history, At, End
  <2>2. PICK g \in Files : Restore(r, g) \/ RestoreFails(r, g)
    BY <1>2, <2>1 DEF Step, Validate, Ask, NoCandidate, Propose, Begin, Write, WriteFails,
       TestsPass, TestsFail, TestsStop, RunTests, AskRepair, NoRepair, Repair,
       Commit, CommitRefused, CommitRaises
  <2>3. UNCHANGED <<head, plan, tested>> /\ pc'[r] \in {"recovering", "ended"}
    BY <2>1, <2>2 DEF Restore, RestoreFails, Loop, Recover
  <2> QED
    BY <2>3 DEF CommitOf, Reviewed
<1> QED
  BY <1>1, <1>2

\* What a step changes in the last commit is the candidate its run has tested.
LEMMA CommitsAreNew ==
  ASSUME IInv, ExactInv, NEW r \in Runs, Step(r), NEW f \in Files, head'[f] # head[f]
  PROVE  CommitOf(r, f)'
<1>t. pc \in [Runs -> Places] /\ head \in [Files -> Contents]
  BY DEF IInv, TypeOK
<1> USE DEF project, hand, history, At, End
<1>1. Commit(r) \/ CommitRaises(r)
  BY DEF Step, Validate, Ask, NoCandidate, Propose, Begin, Write, WriteFails, Restore,
     RestoreFails, TestsPass, TestsFail, TestsStop, RunTests, AskRepair, NoRepair, Repair,
     CommitRefused
<1>2. /\ pc[r] = "committing" /\ head' = Scoped(r) /\ UNCHANGED <<plan, tested>>
      /\ pc'[r] \in {"recovering", "ended"}
  BY <1>1, <1>t DEF Commit, CommitRaises, Loop, Recover
<1>3. /\ todo[r] = {} /\ cand[r] \in Candidates /\ cand[r].run = r
      /\ Reviewed(r) \subseteq Files
  BY <1>2, ReviewedTypes DEF IInv, PlaceInv, Applying
<1>4. /\ tested[r] # None
      /\ \A g \in Reviewed(r) : disk[g] = cand[r] /\ tested[r][g] = cand[r]
  BY <1>2, <1>3 DEF ExactInv, ExactOf
<1>5. \A g \in Reviewed(r) : head'[g] = cand[r]
  BY <1>2, <1>3, <1>4 DEF Scoped
<1>6. f \in Reviewed(r)
  BY <1>2 DEF Scoped
<1> QED
  BY <1>2, <1>3, <1>4, <1>5, <1>6 DEF CommitOf, Reviewed

\* The commits of the project are whole candidates whose tests have passed,
\* whatever fails, also when git is read wrongly after the commit was made.
THEOREM CommitsAreTested == ASSUME Undisturbed PROVE Spec => []CommittedIsTested
<1>1. Init => CommitInv
  BY DEF Init, CommitInv
<1>2. IInv /\ ExactInv /\ CommitInv /\ [Next]_vars => CommitInv'
  <2> SUFFICES ASSUME IInv, ExactInv, CommitInv, [Next]_vars, NEW f \in Files,
                      head'[f] \notin {Absent, Base}
               PROVE  \E r \in Runs : CommitOf(r, f)'
    BY DEF CommitInv
  <2>1. ASSUME NEW s \in Runs, Step(s) PROVE \E r \in Runs : CommitOf(r, f)'
    <3>1. CASE head'[f] # head[f]
      BY <2>1, <3>1, CommitsAreNew
    <3>2. CASE head'[f] = head[f]
      BY <2>1, <3>2, CommitsStay DEF CommitInv, Undisturbed
    <3> QED
      BY <3>1, <3>2
  <2>2. CASE Environment \/ UNCHANGED vars
    <3>1. /\ UNCHANGED <<head, plan, tested>>
          /\ \A r \in Runs : pc[r] \in {"recovering", "ended"} => pc'[r] \in {"recovering", "ended"}
      BY <2>2 DEF Environment, Crash, UserEdits, UserCompiles, vars, project, hand, history
    <3> QED
      BY <3>1 DEF CommitInv, CommitOf, Reviewed
  <2> QED
    BY <2>1, <2>2 DEF Next
<1>3. CommitInv => CommittedIsTested
  BY DEF CommitInv, CommitOf, CommittedIsTested
<1> QED
  BY <1>1, <1>2, <1>3, AlwaysIInv, AlwaysExact, PTL DEF Spec

=============================================================================
