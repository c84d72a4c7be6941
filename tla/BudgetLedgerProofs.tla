------------------------- MODULE BudgetLedgerProofs -------------------------
(***************************************************************************)
(* Theorems about BudgetLedger for any calls, costs, cap and any overlap   *)
(* of the threads.  Threads overwrite each other's entries, so what the    *)
(* file says is proved of every text on its way to the file as well        *)
(* (PagesInv), and what a call may do next depends on whether it has been  *)
(* answered (AnsweredInv).  The spend is a sum over a set of calls; what   *)
(* the cap needs to know of such sums comes before the proof of the cap.   *)
(***************************************************************************)
EXTENDS BudgetLedger, FiniteSetTheorems, TLAPS

\* A text of the ledger charges calls that succeeded, and each call once.
Honest(b) ==
  /\ b.pending \cup b.confirmed \subseteq Priced
  /\ b.confirmed \subseteq answered
  /\ b.pending \cap b.confirmed = {}

\* The file and every text a thread is about to write are honest.
PagesInv ==
  /\ Readable => Honest(file)
  /\ \A c \in Calls : pc[c] \in {"truncating", "saving"} =>
       page[c] \in Books /\ Honest(page[c])

\* A call is made after its reservation and answered once.
AnsweredInv ==
  \A c \in Calls :
    /\ pc[c] = "checked" => c \in Priced
    /\ pc[c] = "reconciling" => c \in answered
    /\ pc[c] \in {"idle", "checked", "calling"} => c \notin answered
    /\ pc[c] \in {"truncating", "saving"} /\ then[c] = "calling" => c \notin answered

IInv == TypeOK /\ PagesInv /\ AnsweredInv

-----------------------------------------------------------------------------
\* The empty ledger of a new installation is honest.
LEMMA InitIInv == Init => IInv
<1> SUFFICES ASSUME Init PROVE IInv
  OBVIOUS
<1>a. file \in Books /\ file.pending = {} /\ file.confirmed = {}
  BY DEF Init, Books
<1>b. 0 \in 0..MaxCrashes
  BY LedgerAssumption
<1>1. TypeOK
  BY <1>a, <1>b DEF Init, TypeOK, Places
<1>2. PagesInv
  BY DEF Init, PagesInv, Honest, Readable, Books
<1>3. AnsweredInv
  BY DEF Init, AnsweredInv
<1> QED
  BY <1>1, <1>2, <1>3 DEF IInv

\* Adding a reservation that is not confirmed, moving one that is answered, and
\* removing one keep a text honest.
LEMMA HonestUpdates ==
  ASSUME NEW b \in Books, NEW c \in Calls, Honest(b)
  PROVE  /\ c \in Priced /\ c \notin answered =>
              /\ [b EXCEPT !.pending = @ \cup {c}] \in Books
              /\ Honest([b EXCEPT !.pending = @ \cup {c}])
         /\ c \in b.pending /\ c \in answered =>
              Moved(b, c) \in Books /\ Honest(Moved(b, c))
         /\ /\ [b EXCEPT !.pending = @ \ {c}] \in Books
            /\ Honest([b EXCEPT !.pending = @ \ {c}])
BY DEF Books, Honest, Moved

\* Every step of a thread and every crash keeps the invariant.
LEMMA StepIInv == IInv /\ [Next]_vars => IInv'
<1> SUFFICES ASSUME IInv, [Next]_vars PROVE IInv'
  OBVIOUS
<1> USE DEF IInv, TypeOK, PagesInv, AnsweredInv, Readable, Places, Over, InLedger
<1>1. CASE UNCHANGED vars
  BY <1>1 DEF vars, Honest, Books
<1>2. CASE Crash
  <2>1. crashes' \in 0..MaxCrashes
    BY <1>2, LedgerAssumption DEF Crash
  <2> QED
    BY <1>2, <2>1 DEF Crash, Honest
<1>3. ASSUME NEW c \in Calls, Step(c) PROVE IInv'
  <2>1. CASE Check(c)
    BY <2>1 DEF Check, Goto, Entering, Affordable, Honest
  <2>2. CASE Reserve(c)
    BY <2>2, HonestUpdates DEF Reserve, WillWrite, Goto, Entering, Honest
  <2>3. CASE ReserveRaises(c)
    BY <2>3 DEF ReserveRaises, Goto, Entering, Honest
  <2>4. CASE Truncate(c)
    BY <2>4, LedgerAssumption DEF Truncate, Goto, Entering, Honest
  <2>5. CASE Save(c)
    BY <2>5, LedgerAssumption DEF Save, Goto, Entering, Honest
  <2>6. CASE RepairCall(c)
    BY <2>6 DEF RepairCall, Goto, Honest
  <2>7. CASE Answer(c)
    BY <2>7 DEF Answer, Goto, Honest
  <2>8. CASE NoAnswer(c)
    BY <2>8 DEF NoAnswer, AfterFailure, Goto, Honest
  <2>9. CASE Reconcile(c)
    <3>1. CASE c \in file.pending
      <4>1. Moved(file, c) \in Books /\ Honest(Moved(file, c))
        BY <2>9, <3>1, HonestUpdates DEF Reconcile
      <4> QED
        BY <2>9, <3>1, <4>1 DEF Reconcile, AfterReconcile, WillWrite, Goto, Entering, Honest
    <3>2. CASE c \notin file.pending
      BY <2>9, <3>2 DEF Reconcile, AfterReconcile, Goto, Entering, Honest
    <3> QED
      BY <3>1, <3>2
  <2>10. CASE Release(c)
    BY <2>10, HonestUpdates DEF Release, WillWrite, Goto, Entering, Honest
  <2>11. CASE SettleRaises(c)
    BY <2>11 DEF SettleRaises, Goto, Entering, Honest
  <2>12. CASE Located(c)
    BY <2>12 DEF Located, Goto, Honest
  <2> QED
    BY <1>3, <2>1, <2>2, <2>3, <2>4, <2>5, <2>6, <2>7, <2>8, <2>9, <2>10, <2>11, <2>12 DEF Step
<1> QED
  BY <1>1, <1>2, <1>3 DEF Next

\* The invariant holds of every behaviour of the ledger.
THEOREM LedgerInvariant == Spec => []IInv
BY InitIInv, StepIInv, PTL DEF Spec

\* The variables stay within their types, and every entry of the file is of a
\* call that could be priced (estimate_cost_usd fails closed).
THEOREM TypeCorrect == Spec => []TypeOK
<1>1. IInv => TypeOK
  BY DEF IInv
<1> QED
  BY LedgerInvariant, <1>1, PTL

\* However many threads overlap and wherever the engine dies: a readable file
\* charges only calls that came to a success, and none twice.
THEOREM OnlySuccessIsCharged == Spec => []ChargesAreReal
<1>1. IInv => ChargesAreReal
  BY DEF IInv, PagesInv, Honest, ChargesAreReal
<1> QED
  BY LedgerInvariant, <1>1, PTL

-----------------------------------------------------------------------------
(* Threads that use the ledger one after the other. *)

Serial == ~overlap /\ crashes = 0

\* What text b has to say of call c at its place.
Tells(b, c) ==
  /\ pc[c] \in {"calling", "reconciling"} => c \in b.pending
  /\ pc[c] \in {"settled", "done"} => c \notin b.pending
  /\ pc[c] \in {"settled", "done", "releasing"} => (c \in b.confirmed <=> c \in answered)

\* What the text c is about to write has to say of c itself.
WillTell(c) ==
  /\ then[c] = "calling" => c \in page[c].pending
  /\ then[c] # "calling" => /\ c \notin page[c].pending
                            /\ (c \in page[c].confirmed <=> c \in answered)

\* One thread at a time is in the ledger; the file is unreadable only in its
\* hands; and file and page tell the truth about every call.
SerialInv ==
  Serial =>
    /\ \A c, d \in Calls : pc[c] \in InLedger /\ pc[d] \in InLedger => c = d
    /\ \A c \in Repairs : pc[c] \in {"idle", "calling", "done"}
    /\ Readable \/ \E d \in Calls : pc[d] = "saving"
    /\ \A d \in Calls : pc[d] = "saving" => file = Empty
    /\ Readable => \A c \in Requests \cup Locates : Tells(file, c)
    /\ \A d \in Calls : pc[d] \in {"truncating", "saving"} =>
         /\ \A c \in (Requests \cup Locates) \ {d} : Tells(page[d], c)
         /\ WillTell(d)

\* Before the first request nothing is reserved.
LEMMA InitSerial == Init => SerialInv
<1> SUFFICES ASSUME Init PROVE SerialInv
  OBVIOUS
<1>1. file \in Books
  BY DEF Init, Books
<1>2. \A c \in Calls : pc[c] = "idle"
  BY DEF Init
<1>3. Repairs \subseteq Calls /\ Requests \cup Locates \subseteq Calls
  BY DEF Calls
<1> QED
  BY <1>1, <1>2, <1>3 DEF SerialInv, Tells, InLedger, Readable

\* A step that does not overlap with another thread keeps the file true.
LEMMA StepSerial == IInv /\ SerialInv /\ [Next]_vars => SerialInv'
<1> SUFFICES ASSUME IInv, SerialInv, [Next]_vars, Serial' PROVE SerialInv'
  BY DEF SerialInv
<1> USE DEF SerialInv, Serial, Tells, WillTell, Readable, InLedger
<1>1. CASE UNCHANGED vars
  BY <1>1 DEF vars, IInv, TypeOK
<1>2. CASE Crash
  BY <1>2 DEF Crash, IInv, TypeOK
<1>3. ASSUME NEW c \in Calls, Step(c) PROVE SerialInv'
  <2> USE DEF IInv, TypeOK, PagesInv, AnsweredInv, Honest, Places, Over
  <2>1. CASE Check(c)
    <3>1. PICK place \in {"checked", "unavailable"} : Goto(c, place)
      BY <2>1 DEF Check
    <3>2. Serial /\ \A d \in Calls \ {c} : pc[d] \notin InLedger
      BY <2>1 DEF Check, Entering
    <3>3. pc[c] = "idle" /\ c \notin Repairs /\ UNCHANGED <<file, page, then, answered, crashes>>
      BY <2>1 DEF Check
    <3> QED
      BY <3>1, <3>2, <3>3 DEF Goto
  <2>2. CASE Reserve(c)
    BY <2>2 DEF Reserve, WillWrite, Goto, Entering, Books
  <2>3. CASE ReserveRaises(c)
    BY <2>3 DEF ReserveRaises, Goto, Entering
  <2>4. CASE Truncate(c)
    BY <2>4, LedgerAssumption DEF Truncate, Goto, Entering
  <2>5. CASE Save(c)
    BY <2>5, LedgerAssumption DEF Save, Goto, Entering
  <2>6. CASE RepairCall(c)
    BY <2>6, LedgerAssumption DEF RepairCall, Goto, Calls
  <2>7. CASE Answer(c)
    BY <2>7, LedgerAssumption DEF Answer, Goto, Calls
  <2>8. CASE NoAnswer(c)
    BY <2>8, LedgerAssumption DEF NoAnswer, AfterFailure, Goto, Calls
  <2>9. CASE Reconcile(c)
    <3>1. c \in Requests \cup Locates /\ c \in file.pending
      BY <2>9 DEF Reconcile, Entering, Calls
    <3>2. PICK place \in {"settled", "done"} : WillWrite(c, Moved(file, c), place)
      BY <2>9, <3>1 DEF Reconcile, AfterReconcile
    <3>3. Serial /\ \A d \in Calls \ {c} : pc[d] \notin InLedger
      BY <2>9 DEF Reconcile, Entering
    <3>4. pc[c] = "reconciling" /\ Readable /\ UNCHANGED <<file, answered, crashes>>
      BY <2>9 DEF Reconcile
    <3> QED
      BY <3>1, <3>2, <3>3, <3>4 DEF WillWrite, Goto, Moved, Books
  <2>10. CASE Release(c)
    <3> DEFINE b == [file EXCEPT !.pending = @ \ {c}]
    <3>1. c \in Requests \cup Locates
      BY <2>10 DEF Release, Entering, Calls
    <3>2. b \in Books /\ b.pending = file.pending \ {c} /\ b.confirmed = file.confirmed
      BY <2>10 DEF Release, Books
    <3>3. Serial /\ \A d \in Calls \ {c} : pc[d] \notin InLedger
      BY <2>10 DEF Release, Entering
    <3>4. /\ pc[c] = "releasing" /\ Readable /\ UNCHANGED <<file, answered, crashes>>
          /\ WillWrite(c, b, "done")
      BY <2>10 DEF Release
    <3> HIDE DEF b
    <3> QED
      BY <3>1, <3>2, <3>3, <3>4 DEF WillWrite, Goto
  <2>11. CASE SettleRaises(c)
    BY <2>11 DEF SettleRaises, Goto, Entering
  <2>12. CASE Located(c)
    BY <2>12 DEF Located, Goto
  <2> QED
    BY <1>3, <2>1, <2>2, <2>3, <2>4, <2>5, <2>6, <2>7, <2>8, <2>9, <2>10, <2>11, <2>12 DEF Step
<1> QED
  BY <1>1, <1>2, <1>3 DEF Next

\* For threads that use the ledger one after the other the file tells at any time
\* which calls are under way and which have been paid for.
THEOREM SerialBooksMatch == Spec => []BooksMatch
<1>1. Init => IInv /\ SerialInv
  BY InitIInv, InitSerial
<1>2. IInv /\ SerialInv /\ [Next]_vars => (IInv /\ SerialInv)'
  BY StepIInv, StepSerial
<1>3. IInv /\ SerialInv => BooksMatch
  BY DEF SerialInv, Serial, Tells, BooksMatch, IInv, TypeOK, Places
<1> QED
  BY <1>1, <1>2, <1>3, PTL DEF Spec
-----------------------------------------------------------------------------
(* Sums over sets of calls                                                 *)
(*                                                                         *)
(* Exposure folds over the entries, taking out at each turn the element    *)
(* that CHOOSE gives.  The laws follow by induction over finite sets, in   *)
(* the form that a family of subsets has a smallest member: the family of  *)
(* the counterexamples has none.                                           *)

Total(S) == MapThenSumSet(LAMBDA c : CostOf[c], S)

Taken(S) == CHOOSE x \in S : TRUE

\* The equation of the recursive function behind the fold over S, for g.
Unrolled(g, S) ==
  g = [T \in SUBSET S |-> IF T = {} THEN 0 ELSE CostOf[Taken(T)] + g[T \ {Taken(T)}]]

LEMMA TotalUnfolds == ASSUME NEW S PROVE Total(S) = (CHOOSE g : Unrolled(g, S))[S]
BY DEF Total, MapThenSumSet, MapThenFoldSet, Unrolled, Taken

LEMMA TakenIsIn == ASSUME NEW S, S # {} PROVE Taken(S) \in S
BY DEF Taken

LEMMA Smallest ==
  ASSUME NEW S, IsFiniteSet(S), NEW F \in SUBSET SUBSET S, F # {}
  PROVE  \E A \in F : \A B \in F : B \subseteq A => B = A
<1>1. IsWellFoundedOn(StrictSubsetOrdering(S), SUBSET S)
  BY FS_StrictSubsetOrderingWellFounded, FS_FiniteSubsetsOfFinite
<1>2. PICK A \in F : \A B \in F : ~ (<<B, A>> \in StrictSubsetOrdering(S))
  BY <1>1, WFMin
<1> QED
  BY <1>2 DEF StrictSubsetOrdering

\* At most one function satisfies the equation, on whatever part of the set.
LEMMA UnrolledAgree ==
  ASSUME NEW S, IsFiniteSet(S), NEW T \in SUBSET S, NEW g, NEW h,
         Unrolled(g, S), Unrolled(h, T)
  PROVE  \A U \in SUBSET T : g[U] = h[U]
<1> SUFFICES ASSUME NEW V \in SUBSET T, g[V] # h[V] PROVE FALSE
  OBVIOUS
<1> DEFINE F == {U \in SUBSET T : g[U] # h[U]}
<1>1. PICK A \in F : \A B \in F : B \subseteq A => B = A
  <2>1. F \in SUBSET SUBSET S /\ F # {}
    OBVIOUS
  <2> HIDE DEF F
  <2> QED
    BY <2>1, Smallest
<1>2. A # {} /\ Taken(A) \in A
  BY TakenIsIn DEF Unrolled
<1>3. g[A \ {Taken(A)}] = h[A \ {Taken(A)}]
  BY <1>1, <1>2
<1> QED
  BY <1>1, <1>2, <1>3 DEF Unrolled

\* And one does: the value at each proper subset is that of a function for the
\* subset.
LEMMA UnrolledExists ==
  ASSUME NEW S, IsFiniteSet(S)
  PROVE  \E g : Unrolled(g, S)
<1> SUFFICES ASSUME ~ \E g : Unrolled(g, S) PROVE FALSE
  OBVIOUS
<1> DEFINE F == {T \in SUBSET S : ~ \E g : Unrolled(g, T)}
<1>1. PICK A \in F : \A B \in F : B \subseteq A => B = A
  <2>1. F \in SUBSET SUBSET S /\ F # {}
    OBVIOUS
  <2> HIDE DEF F
  <2> QED
    BY <2>1, Smallest
<1> DEFINE fn(T) == CHOOSE g : Unrolled(g, T)
           value(T) == fn(T)[T]
           h == [T \in SUBSET A |->
                   IF T = {} THEN 0 ELSE CostOf[Taken(T)] + value(T \ {Taken(T)})]
<1>2. \A T \in SUBSET A : T # A => Unrolled(fn(T), T)
  BY <1>1
<1>3. ASSUME NEW T \in SUBSET A, T # A, T # {}
      PROVE  value(T) = CostOf[Taken(T)] + value(T \ {Taken(T)})
  <2> DEFINE U == T \ {Taken(T)}
  <2>1. U \in SUBSET T /\ U \in SUBSET A /\ U # A /\ IsFiniteSet(T)
    BY <1>1, <1>3, TakenIsIn, FS_Subset
  <2>2. Unrolled(fn(T), T) /\ Unrolled(fn(U), U)
    BY <1>2, <1>3, <2>1
  <2>3. fn(T)[U] = fn(U)[U]
    <3> HIDE DEF fn, U
    <3> QED
      BY <2>1, <2>2, UnrolledAgree
  <2>4. fn(T)[T] = CostOf[Taken(T)] + fn(T)[U]
    <3> HIDE DEF fn
    <3> QED
      BY <1>3, <2>2 DEF Unrolled
  <2> HIDE DEF fn
  <2> QED
    BY <2>3, <2>4
<1>4. A = {} \/ value({}) = 0
  <2>1. A = {} \/ Unrolled(fn({}), {})
    BY <1>2
  <2> HIDE DEF fn
  <2> QED
    BY <2>1 DEF Unrolled
<1>5. \A T \in SUBSET A : T # A => h[T] = value(T)
  <2> HIDE DEF fn, value
  <2> QED
    BY <1>3, <1>4
<1>6. \A T \in SUBSET A : T # {} => T \ {Taken(T)} \in SUBSET A /\ T \ {Taken(T)} # A
  BY TakenIsIn
<1>7. Unrolled(h, A)
  <2> HIDE DEF value
  <2> QED
    BY <1>5, <1>6 DEF Unrolled
<1> QED
  BY <1>1, <1>7

\* The fold takes one element and goes on with the others.
LEMMA TotalTakes ==
  ASSUME NEW S, IsFiniteSet(S)
  PROVE  Total(S) = IF S = {} THEN 0 ELSE CostOf[Taken(S)] + Total(S \ {Taken(S)})
<1> DEFINE fn(T) == CHOOSE g : Unrolled(g, T)
           R == S \ {Taken(S)}
<1>1. IsFiniteSet(R) /\ R \in SUBSET S
  BY FS_Subset
<1>2. Unrolled(fn(S), S) /\ Unrolled(fn(R), R)
  BY <1>1, UnrolledExists
<1>3. Total(S) = fn(S)[S] /\ Total(R) = fn(R)[R]
  BY TotalUnfolds
<1> HIDE DEF fn
<1>4. fn(S)[S] = IF S = {} THEN 0 ELSE CostOf[Taken(S)] + fn(S)[R]
  BY <1>2 DEF Unrolled
<1>5. fn(S)[R] = fn(R)[R]
  <2> HIDE DEF R
  <2> QED
    BY <1>1, <1>2, UnrolledAgree
<1> QED
  BY <1>3, <1>4, <1>5

LEMMA TotalType ==
  ASSUME NEW S \in SUBSET Calls
  PROVE  Total(S) \in Nat
<1> SUFFICES ASSUME Total(S) \notin Nat PROVE FALSE
  OBVIOUS
<1> DEFINE F == {T \in SUBSET S : Total(T) \notin Nat}
<1>0. IsFiniteSet(S)
  BY LedgerAssumption, FS_Subset
<1>1. PICK A \in F : \A B \in F : B \subseteq A => B = A
  <2>1. F \in SUBSET SUBSET S /\ F # {}
    OBVIOUS
  <2> HIDE DEF F
  <2> QED
    BY <1>0, <2>1, Smallest
<1>2. IsFiniteSet(A)
  BY <1>0, FS_Subset
<1>3. A # {} /\ Taken(A) \in A
  BY <1>2, TotalTakes, TakenIsIn
<1>4. Total(A \ {Taken(A)}) \in Nat /\ CostOf[Taken(A)] \in Nat
  BY <1>1, <1>3, LedgerAssumption
<1>5. Total(A) = CostOf[Taken(A)] + Total(A \ {Taken(A)})
  BY <1>2, <1>3, TotalTakes
<1> QED
  BY <1>1, <1>4, <1>5

\* Whichever element is taken out first.
LEMMA TotalOfOneMore ==
  ASSUME NEW S \in SUBSET Calls, NEW c \in S
  PROVE  Total(S) = CostOf[c] + Total(S \ {c})
<1> DEFINE Splits(T, x) == Total(T) = CostOf[x] + Total(T \ {x})
           F == {T \in SUBSET S : \E x \in T : ~Splits(T, x)}
<1> SUFFICES ASSUME ~Splits(S, c) PROVE FALSE
  OBVIOUS
<1>0. IsFiniteSet(S)
  BY LedgerAssumption, FS_Subset
<1>1. PICK A \in F : \A B \in F : B \subseteq A => B = A
  <2>1. F \in SUBSET SUBSET S /\ F # {}
    OBVIOUS
  <2> HIDE DEF F
  <2> QED
    BY <1>0, <2>1, Smallest
<1>2. PICK x \in A : ~Splits(A, x)
  OBVIOUS
<1> DEFINE p == Taken(A)
<1>3. p \in A /\ Splits(A, p)
  BY <1>0, <1>2, TakenIsIn, FS_Subset, TotalTakes
<1>4. x # p
  BY <1>2, <1>3
<1> HIDE DEF p
<1>5. Splits(A \ {p}, x) /\ Splits(A \ {x}, p)
  BY <1>1, <1>2, <1>3, <1>4
<1>6. (A \ {p}) \ {x} = (A \ {x}) \ {p}
  OBVIOUS
<1>7. /\ CostOf[p] \in Nat /\ CostOf[x] \in Nat
      /\ Total((A \ {x}) \ {p}) \in Nat
  BY <1>3, LedgerAssumption, TotalType
<1>8. Splits(A, x)
  <2> DEFINE rest == Total((A \ {x}) \ {p})
  <2>1. Total(A) = CostOf[p] + (CostOf[x] + rest)
    BY <1>3, <1>5, <1>6
  <2>2. Total(A \ {x}) = CostOf[p] + rest
    BY <1>5
  <2> HIDE DEF rest
  <2> QED
    BY <1>7, <2>1, <2>2 DEF rest
<1> QED
  BY <1>2, <1>8

\* Without some of its calls a set costs no more.
LEMMA TotalOfFewer ==
  ASSUME NEW S \in SUBSET Calls, NEW T \in SUBSET S
  PROVE  Total(T) <= Total(S)
<1> DEFINE F == {D \in SUBSET S : ~(Total(S \ D) <= Total(S))}
<1> SUFFICES ASSUME ~(Total(T) <= Total(S)) PROVE FALSE
  OBVIOUS
<1>0. IsFiniteSet(S)
  BY LedgerAssumption, FS_Subset
<1>1. PICK A \in F : \A B \in F : B \subseteq A => B = A
  <2>1. S \ (S \ T) = T
    OBVIOUS
  <2>2. F \in SUBSET SUBSET S /\ F # {}
    BY <2>1
  <2> HIDE DEF F
  <2> QED
    BY <1>0, <2>2, Smallest
<1>2. A # {}
  <2>1. S \ {} = S
    OBVIOUS
  <2>2. Total(S) <= Total(S)
    BY TotalType
  <2> QED
    BY <1>1, <2>1, <2>2
<1>3. PICK x \in A : TRUE
  BY <1>2
<1>4. Total(S \ (A \ {x})) <= Total(S)
  <2>1. A \ {x} \in SUBSET S /\ A \ {x} \subseteq A /\ A \ {x} # A
    BY <1>3
  <2>2. A \ {x} \notin F
    BY <1>1, <2>1
  <2> QED
    BY <2>1, <2>2
<1>5. (S \ (A \ {x})) \ {x} = S \ A /\ x \in S \ (A \ {x})
  OBVIOUS
<1>6. Total(S \ (A \ {x})) = CostOf[x] + Total(S \ A)
  BY <1>5, TotalOfOneMore
<1>7. CostOf[x] \in Nat /\ Total(S \ A) \in Nat /\ Total(S) \in Nat
  BY LedgerAssumption, TotalType
<1> QED
  BY <1>1, <1>4, <1>6, <1>7

\* What the changes of the ledger do to its exposure.
LEMMA ExposureLaws ==
  ASSUME NEW b \in Books, NEW c \in Calls
  PROVE  /\ Exposure(b) \in Nat
         /\ [b EXCEPT !.pending = @ \cup {c}] \in Books
         /\ Exposure([b EXCEPT !.pending = @ \cup {c}]) <= Exposure(b) + CostOf[c]
         /\ c \in b.pending => Exposure(Moved(b, c)) = Exposure(b)
         /\ Exposure([b EXCEPT !.pending = @ \ {c}]) <= Exposure(b)
<1> DEFINE S == b.pending \cup b.confirmed
           more == [b EXCEPT !.pending = @ \cup {c}]
           less == [b EXCEPT !.pending = @ \ {c}]
<1>1. S \in SUBSET Calls /\ Exposure(b) = Total(S)
  BY DEF Books, Exposure, Total
<1>2. /\ more \in Books /\ more.pending \cup more.confirmed = S \cup {c}
      /\ less.pending \cup less.confirmed \in SUBSET S
  BY DEF Books
<1>3. c \in b.pending => Moved(b, c).pending \cup Moved(b, c).confirmed = S
  BY DEF Moved
<1> HIDE DEF S, more, less
<1>4. /\ Exposure(more) = Total(more.pending \cup more.confirmed)
      /\ Exposure(less) = Total(less.pending \cup less.confirmed)
      /\ Exposure(Moved(b, c)) = Total(Moved(b, c).pending \cup Moved(b, c).confirmed)
  BY DEF Exposure, Total
<1>5. Total(S) \in Nat /\ CostOf[c] \in Nat
  BY <1>1, TotalType, LedgerAssumption
<1>6. Total(S \cup {c}) <= Total(S) + CostOf[c]
  <2>1. CASE c \in S
    <3>1. Total(S \cup {c}) = Total(S)
      <4>1. S \cup {c} = S
        BY <2>1
      <4> QED
        BY <4>1
    <3> QED
      BY <1>5, <3>1
  <2>2. CASE c \notin S
    <3>1. (S \cup {c}) \ {c} = S /\ S \cup {c} \in SUBSET Calls /\ c \in S \cup {c}
      BY <1>1, <2>2
    <3>2. Total(S \cup {c}) = CostOf[c] + Total(S)
      BY <3>1, TotalOfOneMore
    <3> QED
      BY <1>5, <3>2
  <2> QED
    BY <2>1, <2>2
<1>7. Total(less.pending \cup less.confirmed) <= Total(S)
  BY <1>1, <1>2, TotalOfFewer
<1>8. Exposure(more) <= Exposure(b) + CostOf[c] /\ Exposure(b) \in Nat
  BY <1>1, <1>2, <1>4, <1>5, <1>6
<1>9. Exposure(less) <= Exposure(b)
  BY <1>1, <1>4, <1>7
<1>10. c \in b.pending => Exposure(Moved(b, c)) = Exposure(b)
  BY <1>1, <1>3, <1>4
<1> QED
  BY <1>2, <1>8, <1>9, <1>10 DEF more, less

-----------------------------------------------------------------------------
(* The cap *)

\* Among threads that do not overlap one at a time is in the ledger.  What it has
\* checked still holds of the file, and the text it is about to write is within
\* the cap as the file is.
CapInv ==
  ~overlap =>
    /\ \A c, d \in Calls : pc[c] \in InLedger /\ pc[d] \in InLedger => c = d
    /\ Readable => Exposure(file) <= Cap
    /\ \A c \in Calls :
         /\ pc[c] = "checked" /\ Readable => Exposure(file) + CostOf[c] <= Cap
         /\ pc[c] \in {"truncating", "saving"} => Exposure(page[c]) <= Cap

\* The empty ledger is within any cap.
LEMMA InitCap == Init => CapInv
<1> SUFFICES ASSUME Init PROVE CapInv
  OBVIOUS
<1>1. file.pending \cup file.confirmed = {} /\ \A c \in Calls : pc[c] = "idle"
  BY DEF Init
<1>2. Exposure(file) = Total({})
  BY <1>1 DEF Exposure, Total
<1>3. Total({}) = 0
  BY TotalTakes, FS_EmptySet
<1> QED
  BY <1>1, <1>2, <1>3, LedgerAssumption DEF CapInv, InLedger

\* A thread that is alone in the ledger keeps it within the cap.
LEMMA StepCap == IInv /\ CapInv /\ [Next]_vars => CapInv'
<1> SUFFICES ASSUME IInv, CapInv, [Next]_vars, ~overlap' PROVE CapInv'
  BY DEF CapInv
<1> DEFINE Within(b) == Exposure(b) <= Cap
<1>0. /\ pc \in [Calls -> Places] /\ page \in [Calls -> Books \cup {None}]
      /\ \A c \in Calls : pc[c] \in {"truncating", "saving"} => page[c] \in Books
      /\ CostOf \in [Calls -> Nat] /\ Cap \in Nat
  BY LedgerAssumption DEF IInv, TypeOK, PagesInv
<1> USE DEF CapInv, Readable, InLedger, Goto
<1>1. CASE UNCHANGED vars
  BY <1>1 DEF vars
<1>2. CASE Crash
  <2>1. UNCHANGED <<file, overlap>> /\ \A c \in Calls : pc'[c] \notin InLedger
    BY <1>2 DEF Crash, Over
  <2> QED
    BY <2>1
<1>3. ASSUME NEW c \in Calls, Step(c) PROVE CapInv'
  <2>1. CASE Check(c)
    <3>1. PICK place \in {"checked", "unavailable"} :
            Goto(c, place) /\ (place = "checked" => Affordable(c))
      BY <2>1 DEF Check
    <3>2. ~overlap /\ \A d \in Calls \ {c} : pc[d] \notin InLedger
      BY <2>1 DEF Check, Entering
    <3>3. UNCHANGED <<file, page>>
      BY <2>1 DEF Check
    <3>4. place = "checked" => Exposure(file) + CostOf[c] <= Cap
      BY <3>1 DEF Affordable, Fits
    <3> HIDE DEF Goto
    <3>5. pc'[c] = place /\ \A d \in Calls \ {c} : pc'[d] = pc[d]
      BY <1>0, <3>1 DEF Goto
    <3> QED
      BY <3>1, <3>2, <3>3, <3>4, <3>5
  <2>2. CASE Reserve(c)
    <3> DEFINE b == [file EXCEPT !.pending = @ \cup {c}]
    <3>1. ~overlap /\ \A d \in Calls \ {c} : pc[d] \notin InLedger
      BY <2>2 DEF Reserve, Entering
    <3>2. /\ pc[c] = "checked" /\ file \in Books /\ WillWrite(c, b, "calling")
          /\ UNCHANGED file
      BY <2>2 DEF Reserve
    <3>3. Exposure(b) <= Exposure(file) + CostOf[c] /\ Exposure(file) \in Nat /\ b \in Books
      BY <3>2, ExposureLaws
    <3> HIDE DEF b
    <3>4. Exposure(b) \in Nat
      BY <3>3, ExposureLaws
    <3>5. Within(b)
      BY <1>0, <3>1, <3>2, <3>3, <3>4
    <3> QED
      BY <1>0, <3>1, <3>2, <3>5 DEF WillWrite
  <2>3. CASE ReserveRaises(c)
    BY <1>0, <2>3 DEF ReserveRaises, Entering
  <2>4. CASE Truncate(c)
    BY <1>0, <2>4, LedgerAssumption DEF Truncate, Entering
  <2>5. CASE Save(c)
    <3>1. ~overlap /\ \A d \in Calls \ {c} : pc[d] \notin InLedger
      BY <2>5 DEF Save, Entering
    <3>2. pc[c] = "saving" /\ Within(page[c])
      BY <2>5, <3>1 DEF Save
    <3>3. file' \in {page[c], Garbled} /\ Garbled \notin Books
      BY <2>5, LedgerAssumption DEF Save
    <3>4. pc'[c] \notin InLedger /\ \A d \in Calls \ {c} : pc'[d] = pc[d]
      BY <1>0, <2>5 DEF Save, IInv, TypeOK
    <3> QED
      BY <3>1, <3>2, <3>3, <3>4
  <2>6. CASE RepairCall(c)
    BY <1>0, <2>6 DEF RepairCall
  <2>7. CASE Answer(c)
    BY <1>0, <2>7 DEF Answer
  <2>8. CASE NoAnswer(c)
    BY <1>0, <2>8 DEF NoAnswer, AfterFailure
  <2>9. CASE Reconcile(c)
    <3>1. ~overlap /\ (\A d \in Calls \ {c} : pc[d] \notin InLedger) /\ UNCHANGED file
          /\ file \in Books
      BY <2>9 DEF Reconcile, Entering
    <3>2. CASE c \in file.pending
      <4> DEFINE b == Moved(file, c)
      <4>1. Within(b)
        BY <3>1, <3>2, ExposureLaws
      <4>2. PICK place \in {"settled", "done"} : WillWrite(c, b, place)
        BY <2>9, <3>2 DEF Reconcile, AfterReconcile
      <4> HIDE DEF b
      <4> QED
        BY <1>0, <3>1, <4>1, <4>2 DEF WillWrite
    <3>3. CASE c \notin file.pending
      BY <1>0, <2>9, <3>1, <3>3 DEF Reconcile, AfterReconcile
    <3> QED
      BY <3>2, <3>3
  <2>10. CASE Release(c)
    <3> DEFINE b == [file EXCEPT !.pending = @ \ {c}]
    <3>1. ~overlap /\ \A d \in Calls \ {c} : pc[d] \notin InLedger
      BY <2>10 DEF Release, Entering
    <3>2. file \in Books /\ WillWrite(c, b, "done") /\ UNCHANGED file
      BY <2>10 DEF Release
    <3>3. Exposure(b) <= Exposure(file) /\ Exposure(file) \in Nat
      BY <3>2, ExposureLaws
    <3>4. b \in Books
      BY <3>2 DEF Books
    <3> HIDE DEF b
    <3>5. Exposure(b) \in Nat
      BY <3>4, ExposureLaws
    <3>6. Within(b)
      BY <1>0, <3>1, <3>2, <3>3, <3>5
    <3> QED
      BY <1>0, <3>1, <3>2, <3>6 DEF WillWrite
  <2>11. CASE SettleRaises(c)
    BY <1>0, <2>11 DEF SettleRaises, Entering
  <2>12. CASE Located(c)
    BY <1>0, <2>12 DEF Located
  <2> QED
    BY <1>3, <2>1, <2>2, <2>3, <2>4, <2>5, <2>6, <2>7, <2>8, <2>9, <2>10, <2>11, <2>12 DEF Step
<1> QED
  BY <1>1, <1>2, <1>3 DEF Next

\* Threads that use the ledger one after the other never reserve beyond the cap,
\* whatever the calls cost, and whichever of them fail, are released twice or die.
THEOREM SerialCapHolds == Spec => []CapHolds
<1>1. Init => IInv /\ CapInv
  BY InitIInv, InitCap
<1>2. IInv /\ CapInv /\ [Next]_vars => (IInv /\ CapInv)'
  BY StepIInv, StepCap
<1>3. CapInv => CapHolds
  BY DEF CapInv, CapHolds
<1> QED
  BY <1>1, <1>2, <1>3, PTL DEF Spec

=============================================================================
