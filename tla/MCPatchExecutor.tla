--------------------------- MODULE MCPatchExecutor ---------------------------
(***************************************************************************)
(* Instances of PatchExecutor for TLC.                                     *)
(***************************************************************************)
EXTENDS PatchExecutor

CONSTANTS r1, r2, a, b, t

Edit(S)      == [files |-> S, create |-> {}]
Create(S, N) == [files |-> S, create |-> N]

\* One run: edits with and without a test file, of a test file only, and a
\* declared new test.
OneRun ==
  [r \in Runs |-> {Edit({a, t}), Edit({a}), Edit({t}), Create({a, t}, {t})}]

\* Two runs in one project that share the test file, or that share nothing.
Sharing  == [r \in Runs |-> {Edit({a, t})}]
Disjoint == [r \in Runs |-> IF r = r1 THEN {Edit({t})} ELSE {Edit({b})}]

-----------------------------------------------------------------------------
\* The one run of an instance with a single run.
r0 == CHOOSE r \in Runs : TRUE

\* While a run works on its files they count as they were when it began.
Relied ==
  [f \in Files |->
     IF pc[r0] \in Applying /\ f \in Reviewed(r0) THEN snap[r0][f] ELSE disk[f]]

Verdict ==
  IF outcome[r0] = "open" THEN "open"
  ELSE IF Succeeded(r0) THEN "succeeded"
  ELSE IF outcome[r0] \in {"refused", "rolled_back"} THEN "failed" ELSE "broken"

Atomic == INSTANCE AtomicPatch WITH files <- Relied, verdict <- Verdict

\* One run is an atomic change: every step of propose, apply_proposal and
\* _repair_once is a step of AtomicPatch or invisible, failures of single writes
\* and restores included.
ImplementsAtomicPatch == Atomic!Spec
=============================================================================
