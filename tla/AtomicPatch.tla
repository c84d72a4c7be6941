----------------------------- MODULE AtomicPatch -----------------------------
(***************************************************************************)
(* What a user is told of one reviewed change: the files get one candidate *)
(* as a whole, after its tests have passed, or stay as they are.           *)
(* PatchExecutor implements it for a run that is alone in its project.     *)
(***************************************************************************)
CONSTANTS
  Files,       \* paths of the project
  Contents,    \* what a file can hold, no file at all included
  Candidates   \* the texts of the change, a subset of Contents

VARIABLES
  files,       \* the files as the user can rely on them
  verdict      \* what the change has come to

vars == <<files, verdict>>

Init ==
  /\ files \in [Files -> Contents \ Candidates]
  /\ verdict = "open"

\* Somebody else changes a file.
Edit(f, c) ==
  /\ files' = [files EXCEPT ![f] = c]
  /\ UNCHANGED verdict

\* The change takes effect in all of its files at once.
Succeed(reviewed, c) ==
  /\ verdict = "open"
  /\ verdict' = "succeeded"
  /\ files' = [f \in Files |-> IF f \in reviewed THEN c ELSE files[f]]

Fail ==
  /\ verdict = "open"
  /\ verdict' = "failed"
  /\ UNCHANGED files

\* The engine says that it could not put the files back.
Break ==
  /\ verdict = "open"
  /\ verdict' = "broken"
  /\ files' \in [Files -> Contents]

Next ==
  \/ \E f \in Files, c \in Contents \ Candidates : Edit(f, c)
  \/ \E reviewed \in (SUBSET Files) \ {{}}, c \in Candidates : Succeed(reviewed, c)
  \/ Fail
  \/ Break

Spec == Init /\ [][Next]_vars
=============================================================================
