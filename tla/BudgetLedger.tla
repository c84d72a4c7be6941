---------------------------- MODULE BudgetLedger ----------------------------
(***************************************************************************)
(* The cloud spend ledger (wisense_os/budget.py): one JSON file with the   *)
(* pending and the confirmed entries, read and rewritten by the threads of *)
(* the engine without a lock.                                              *)
(*                                                                         *)
(* A call is one use of a cloud model by the coordinator (service.py: the  *)
(* builder of a proposal, the chat of a talk-only task), by the plan-draft *)
(* route (api.py: locating the target file) or by the executor's repair.   *)
(* Its reservation id is fresh, so the call itself stands for the entry.   *)
(* A step is one read of the file, its truncation, the writing of the new  *)
(* text, or the model call: open("w") has emptied the file before anything *)
(* is written, and a reader who comes in between gets a JSONDecodeError.   *)
(***************************************************************************)
EXTENDS Naturals, FiniteSetsExt

CONSTANTS
  Requests,    \* calls made by propose and by execute
  Locates,     \* calls made by the plan-draft route
  Repairs,     \* calls made by _repair_once
  Priced,      \* calls whose model has a price
  CostOf,      \* the estimate of each call, in units of money
  Cap,         \* cap_usd, in the same units
  Empty,       \* the file between truncation and write
  Garbled,     \* two texts written over each other
  None,        \* nothing read
  MaxCrashes   \* bound: times the engine dies and is started again

Calls == Requests \cup Locates \cup Repairs

Books == [pending : SUBSET Calls, confirmed : SUBSET Calls]

ASSUME LedgerAssumption ==
  /\ IsFiniteSet(Calls)
  /\ Requests \cap Locates = {} /\ Repairs \cap (Requests \cup Locates) = {}
  /\ Priced \subseteq Calls
  /\ CostOf \in [Calls -> Nat]
  /\ Cap \in Nat /\ MaxCrashes \in Nat
  /\ Empty \notin Books /\ Garbled \notin Books /\ None \notin Books

VARIABLES
  file,      \* budget.json
  pc,        \* where each call stands
  page,      \* the text each thread is about to write
  then,      \* where it goes on after the write
  \* History, read by no action.
  answered,  \* calls whose result the caller took for a success
  overlap,   \* two threads were in the ledger at the same time
  crashes    \* counter for MaxCrashes

vars == <<file, pc, page, then, answered, overlap, crashes>>

-----------------------------------------------------------------------------
\* checked      reserve has compared the exposure with the cap
\* truncating   the new text is ready, the file not yet opened
\* saving       the file is open and empty, the text not yet written
\* calling      the cloud model is at work
\* reconciling, releasing   the call is over, the ledger not yet read
\* settled      a located call is reconciled, its request goes on
\* unavailable  refused, or failed before the model was called
\* raised       an exception left the caller: nothing is recorded of the call
\* lost         the process died
InLedger == {"checked", "truncating", "saving"}
Over     == {"done", "unavailable", "raised", "lost"}
Places   == {"idle", "calling", "reconciling", "releasing", "settled"} \cup InLedger \cup Over

Readable == file \in Books

Exposure(b) == MapThenSumSet(LAMBDA c : CostOf[c], b.pending \cup b.confirmed)

\* A step of c in the ledger, with another thread between two of its own.
Entering(c) ==
  overlap' = (overlap \/ \E d \in Calls \ {c} : pc[d] \in InLedger)

Goto(c, place) == pc' = [pc EXCEPT ![c] = place]

\* c will write b and go on at place.
WillWrite(c, b, place) ==
  /\ Goto(c, "truncating")
  /\ page' = [page EXCEPT ![c] = b]
  /\ then' = [then EXCEPT ![c] = place]

\* Every entry is one of a call that could be priced.
TypeOK ==
  /\ file \in Books \cup {Empty, Garbled}
  /\ Readable => file.pending \cup file.confirmed \subseteq Priced
  /\ pc \in [Calls -> Places]
  /\ page \in [Calls -> Books \cup {None}]
  /\ then \in [Calls -> {"calling", "settled", "done"}]
  /\ answered \subseteq Calls
  /\ overlap \in BOOLEAN
  /\ crashes \in 0..MaxCrashes

Init ==
  /\ file = [pending |-> {}, confirmed |-> {}]
  /\ pc = [c \in Calls |-> "idle"]
  /\ page = [c \in Calls |-> None]
  /\ then = [c \in Calls |-> "calling"]
  /\ answered = {}
  /\ overlap = FALSE
  /\ crashes = 0

-----------------------------------------------------------------------------
\* Variant: only what is confirmed counts against the cap.
FitsConfirmed(c) ==
  MapThenSumSet(LAMBDA d : CostOf[d], file.confirmed) + CostOf[c] <= Cap

\* Exposure is what is confirmed and what is reserved.
Fits(c) == Exposure(file) + CostOf[c] <= Cap

\* Variant: a model without a price costs nothing.
FreeIfUnknown(c) == c \notin Priced \/ Fits(c)

\* estimate_cost_usd refuses to guess; then the exposure is compared.
Affordable(c) == c \in Priced /\ Fits(c)

\* reserve: price, snapshot, cap.
Check(c) ==
  /\ pc[c] = "idle" /\ c \notin Repairs
  /\ c \in Priced => Readable
  /\ Goto(c, IF Affordable(c) THEN "checked" ELSE "unavailable")
  /\ Entering(c)
  /\ UNCHANGED <<file, page, then, answered, crashes>>

\* reserve reads the file a second time and adds the entry to what it read.
Reserve(c) ==
  /\ pc[c] = "checked" /\ Readable
  /\ WillWrite(c, [file EXCEPT !.pending = @ \cup {c}], "calling")
  /\ Entering(c)
  /\ UNCHANGED <<file, answered, crashes>>

\* reserve finds no JSON: the request fails, the locate is given up.
ReserveRaises(c) ==
  /\ \/ pc[c] = "idle" /\ c \in Priced \ Repairs
     \/ pc[c] = "checked"
  /\ ~Readable
  /\ Goto(c, "unavailable")
  /\ Entering(c)
  /\ UNCHANGED <<file, page, then, answered, crashes>>

\* _write opens the file ...
Truncate(c) ==
  /\ pc[c] = "truncating"
  /\ file' = Empty
  /\ Goto(c, "saving")
  /\ Entering(c)
  /\ UNCHANGED <<page, then, answered, crashes>>

\* ... and writes its text from the start: over that of another thread, the
\* end of a longer one stays.
Save(c) ==
  /\ pc[c] = "saving"
  /\ file' \in {page[c]} \cup (IF file = Empty THEN {} ELSE {Garbled})
  /\ Goto(c, then[c])
  /\ page' = [page EXCEPT ![c] = None]
  /\ Entering(c)
  /\ UNCHANGED <<then, answered, crashes>>

-----------------------------------------------------------------------------
\* _repair_once calls the builder for an apply that reserved nothing.
RepairCall(c) ==
  /\ pc[c] = "idle" /\ c \in Repairs
  /\ Goto(c, "calling")
  /\ UNCHANGED <<file, page, then, answered, overlap, crashes>>

\* The result is a success.
Answer(c) ==
  /\ pc[c] = "calling"
  /\ Goto(c, IF c \in Repairs THEN "done" ELSE "reconciling")
  /\ answered' = answered \cup {c}
  /\ UNCHANGED <<file, page, then, overlap, crashes>>

\* Variant: a failed result leaves its reservation in the file.
KeepsReservation(c) == Goto(c, "done")

\* Failed and blocked results, and exceptions, release the reservation.
AfterFailure(c) == Goto(c, IF c \in Repairs THEN "done" ELSE "releasing")

NoAnswer(c) ==
  /\ pc[c] = "calling"
  /\ AfterFailure(c)
  /\ UNCHANGED <<file, page, then, answered, overlap, crashes>>

\* Variant: reconcile leaves the entry where it was.
Copied(b, c) == [b EXCEPT !.confirmed = @ \cup {c}]

\* The entry is moved from pending to confirmed.
Moved(b, c) == [pending |-> b.pending \ {c}, confirmed |-> b.confirmed \cup {c}]

\* The plan-draft route goes on in the same try block.
AfterReconcile(c) == IF c \in Locates THEN "settled" ELSE "done"

\* reconcile: without an entry nothing is written.
Reconcile(c) ==
  /\ pc[c] = "reconciling" /\ Readable
  /\ IF c \in file.pending
     THEN WillWrite(c, Moved(file, c), AfterReconcile(c))
     ELSE Goto(c, AfterReconcile(c)) /\ UNCHANGED <<page, then>>
  /\ Entering(c)
  /\ UNCHANGED <<file, answered, crashes>>

\* release: the file is written in any case.
Release(c) ==
  /\ pc[c] = "releasing" /\ Readable
  /\ WillWrite(c, [file EXCEPT !.pending = @ \ {c}], "done")
  /\ Entering(c)
  /\ UNCHANGED <<file, answered, crashes>>

\* Settling finds no JSON.  The coordinator settles outside its try blocks; the
\* plan-draft route tries to release what it could not reconcile.
SettleRaises(c) ==
  /\ pc[c] \in {"reconciling", "releasing"} /\ ~Readable
  /\ Goto(c, IF c \in Locates /\ pc[c] = "reconciling" THEN "releasing" ELSE "raised")
  /\ Entering(c)
  /\ UNCHANGED <<file, page, then, answered, crashes>>

\* Drafting with the located file, or its event, may raise: the route releases
\* what it has reconciled.
Located(c) ==
  /\ pc[c] = "settled"
  /\ \E place \in {"done", "releasing"} : Goto(c, place)
  /\ UNCHANGED <<file, page, then, answered, overlap, crashes>>

\* The engine dies and is started again; __init__ keeps a file that is there.
Crash ==
  /\ crashes < MaxCrashes
  /\ crashes' = crashes + 1
  /\ pc' = [c \in Calls |-> IF pc[c] \in Over \cup {"idle"} THEN pc[c] ELSE "lost"]
  /\ page' = [c \in Calls |-> None]
  /\ UNCHANGED <<file, then, answered, overlap>>

Step(c) ==
  \/ Check(c) \/ Reserve(c) \/ ReserveRaises(c)
  \/ Truncate(c) \/ Save(c)
  \/ RepairCall(c) \/ Answer(c) \/ NoAnswer(c)
  \/ Reconcile(c) \/ Release(c) \/ SettleRaises(c) \/ Located(c)

Next == Crash \/ \E c \in Calls : Step(c)

Spec == Init /\ [][Next]_vars

-----------------------------------------------------------------------------
(* What the ledger promises. *)

\* Threads that are in the ledger one after the other never reserve beyond the
\* cap, through failed calls, double releases and crashes (reserve).
CapHolds == ~overlap /\ Readable => Exposure(file) <= Cap

\* For such threads the file says at any time what the engine is doing: a call
\* to a cloud model is pending while it lasts, a success is confirmed when it is
\* over, a failure leaves nothing.
BooksMatch ==
  ~overlap /\ crashes = 0 /\ Readable =>
    \A c \in Requests \cup Locates :
      /\ pc[c] = "calling" => c \in file.pending
      /\ pc[c] = "done" => /\ c \notin file.pending
                           /\ (c \in file.confirmed) <=> (c \in answered)

\* However the threads overlap and crash, a readable file charges only calls
\* that came to a success, and none both as pending and as confirmed: a lost
\* update forgets entries, it never makes any up.
ChargesAreReal ==
  Readable => /\ file.confirmed \subseteq answered
              /\ file.pending \cap file.confirmed = {}

-----------------------------------------------------------------------------
(* What the repository says of the ledger and the engine does not do. *)

\* budget.py:117 refuses what "would exceed cap"; tests/test_budget.py:29
\* test_cap_blocks_reservation: what is in the file is within the cap.
CapIsNeverExceeded == Readable => Exposure(file) <= Cap
=============================================================================
