-------------------------- MODULE EventStreamProofs --------------------------
(***************************************************************************)
(* Theorems about EventStream for any tasks, threads, streams, polls and   *)
(* logs.  Three invariants, each with the help of those before it:         *)
(* WriterInv, how the log of a task is numbered; WorkInv, what it holds    *)
(* when the task is completed; StreamInv, what a stream has read and sent  *)
(* of it.  What ORDER BY makes of a page is a matter of counting: the      *)
(* place of an event is the number of those up to it.  Last come a measure *)
(* by which every stream nears its end, and the moves of TaskLife that the *)
(* writers stand for.                                                      *)
(***************************************************************************)
EXTENDS EventStream, FiniteSetTheorems, FunctionTheorems, TLAPS

Statuses == Active \cup Final \cup {"absent", "purged"}

Items == [do : {"append"}, task : Tasks, arg : Kinds]
         \cup [do : {"status"}, task : Tasks, arg : Active \cup Final]

\* A log without a hole: the numbers of its events are 1, 2 ... n.
Whole(entries) == \E n \in Nat : Numbers(entries) = 1..n

WriterTypes ==
  /\ status \in [Tasks -> Statuses]
  /\ log \in [Tasks -> SUBSET Entries]
  /\ script \in [Threads -> Seq(Items)]
  /\ slot \in [Threads -> Nat]
  /\ earlier \in [Tasks -> Nat]

\* It may have holes, but there is a newest event.
Topped(entries) == \E m \in Numbers(entries) \cup {0} : \A n \in Numbers(entries) : n <= m

\* No two events have one number.
Distinct(entries) == \A d, e \in entries : d.seq = e.seq => d = e

\* The log of a task that has not been purged is whole, and a number computed
\* for it is at most the next one.  A thread that outlives its task may write
\* any number to it.
WriterInv ==
  /\ WriterTypes
  /\ \A t \in Tasks : status[t] # "purged" => Whole(log[t]) /\ earlier[t] <= Newest(log[t])
  /\ \A t \in Tasks : Topped(log[t]) /\ Distinct(log[t])
  /\ \A w \in Threads : slot[w] # 0 =>
       /\ script[w] # <<>> /\ Head(script[w]).do = "append"
       /\ LET t == Head(script[w]).task
          IN  status[t] # "purged" => slot[w] <= Newest(log[t]) + 1

-----------------------------------------------------------------------------
LEMMA MaxIs ==
  ASSUME NEW S, S \subseteq Int, NEW m \in S, \A y \in S : m >= y
  PROVE  Max(S) = m
<1>1. \E x \in S : \A y \in S : x >= y
  OBVIOUS
<1>2. Max(S) \in S /\ \A y \in S : Max(S) >= y
  BY <1>1 DEF Max
<1>3. Max(S) >= m /\ m >= Max(S) /\ Max(S) \in Int
  BY <1>2
<1> QED
  BY <1>3

LEMMA NewestIs ==
  ASSUME NEW entries, NEW n \in Nat, Numbers(entries) = 1..n
  PROVE  Newest(entries) = n
<1>1. Numbers(entries) \cup {0} = 0..n
  OBVIOUS
<1>2. n \in 0..n /\ (\A y \in 0..n : n >= y) /\ 0..n \subseteq Int
  OBVIOUS
<1>3. Max(0..n) = n
  BY <1>2, MaxIs
<1> QED
  BY <1>1, <1>3 DEF Newest

\* The newest number of a whole log.
LEMMA WholeNewest ==
  ASSUME NEW entries, Whole(entries)
  PROVE  Newest(entries) \in Nat /\ Numbers(entries) = 1..Newest(entries)
BY NewestIs DEF Whole

\* One more event at the end.
LEMMA WholeGrows ==
  ASSUME NEW entries, Whole(entries), NEW k
  PROVE  LET more == entries \cup {[seq |-> Newest(entries) + 1, kind |-> k]}
         IN  Whole(more) /\ Newest(more) = Newest(entries) + 1
<1> DEFINE n == Newest(entries)
           new == [seq |-> n + 1, kind |-> k]
           more == entries \cup {new}
<1>1. n \in Nat /\ Numbers(entries) = 1..n
  BY WholeNewest
<1> HIDE DEF n
<1>2. new.seq = n + 1
  OBVIOUS
<1> HIDE DEF new
<1>3. Numbers(more) = 1..(n + 1)
  <2>1. \A x : x \in Numbers(more) <=> x \in Numbers(entries) \/ x = n + 1
    BY <1>2 DEF Numbers
  <2>2. \A x : x \in 1..(n + 1) <=> x \in 1..n \/ x = n + 1
    BY <1>1
  <2>3. \A x : x \in Numbers(more) <=> x \in 1..(n + 1)
    BY <1>1, <2>1, <2>2
  <2> QED
    BY <2>3
<1>4. Whole(more) /\ Newest(more) = n + 1
  BY <1>1, <1>3, NewestIs DEF Whole
<1> QED
  BY <1>4 DEF n, new

LEMMA EmptyIsWhole == Whole({}) /\ Topped({}) /\ Distinct({}) /\ Newest({}) = 0
<1>1. Numbers({}) = 1..0 /\ Numbers({}) = {}
  BY DEF Numbers
<1> QED
  BY <1>1, NewestIs DEF Whole, Topped, Distinct

LEMMA NewestTypes ==
  ASSUME NEW entries \in SUBSET Entries, Topped(entries)
  PROVE  /\ Newest(entries) \in Nat /\ \A n \in Numbers(entries) : n <= Newest(entries)
         /\ Newest(entries) \in Numbers(entries) \cup {0}
<1>1. Numbers(entries) \cup {0} \subseteq Nat
  BY DEF Numbers, Entries
<1>2. PICK m \in Numbers(entries) \cup {0} : \A n \in Numbers(entries) : n <= m
  BY DEF Topped
<1>3. Newest(entries) = m
  BY <1>1, <1>2, MaxIs DEF Newest
<1> QED
  BY <1>1, <1>2, <1>3

\* Any event, added anywhere.
LEMMA StaysTopped ==
  ASSUME NEW entries \in SUBSET Entries, Topped(entries), NEW e \in Entries
  PROVE  Topped(entries \cup {e})
<1>1. PICK m \in Numbers(entries) \cup {0} : \A n \in Numbers(entries) : n <= m
  BY DEF Topped
<1>2. e.seq \in Nat /\ m \in Nat /\ Numbers(entries) \subseteq Nat
  BY DEF Entries, Numbers
<1>3. Numbers(entries \cup {e}) = Numbers(entries) \cup {e.seq}
  BY DEF Numbers
<1>4. CASE e.seq <= m
  BY <1>1, <1>2, <1>3, <1>4 DEF Topped
<1>5. CASE m < e.seq
  <2>1. \A n \in Numbers(entries) \cup {e.seq} : n <= e.seq
    BY <1>1, <1>2, <1>5
  <2> QED
    BY <1>3, <2>1 DEF Topped
<1> QED
  BY <1>2, <1>4, <1>5

\* An event with a number that is free.
LEMMA StaysDistinct ==
  ASSUME NEW entries, Distinct(entries), NEW e, e.seq \notin Numbers(entries)
  PROVE  Distinct(entries \cup {e})
BY DEF Distinct, Numbers

-----------------------------------------------------------------------------
(* The order of events *)

\* Distinct events are as many as their numbers.
LEMMA SameCount ==
  ASSUME NEW S \in SUBSET Entries, Distinct(S), IsFiniteSet(Numbers(S))
  PROVE  IsFiniteSet(S) /\ Cardinality(S) = Cardinality(Numbers(S))
<1> DEFINE f == [e \in S |-> e.seq]
<1>1. f \in [S -> Numbers(S)] /\ (\A d, e \in S : f[d] = f[e] => d = e)
      /\ \A n \in Numbers(S) : \E e \in S : f[e] = n
  BY DEF Distinct, Numbers
<1> HIDE DEF f
<1>2. f \in Injection(S, Numbers(S)) /\ f \in Surjection(S, Numbers(S))
  BY <1>1, Fun_IsInj, Fun_IsSurj
<1> QED
  BY <1>2, FS_Injection

\* The events of a set up to a number.
UpTo(S, n) == {e \in S : e.seq <= n}

LEMMA RankOf ==
  ASSUME NEW S \in SUBSET Entries, IsFiniteSet(S), NEW e \in S
  PROVE  /\ Cardinality(UpTo(S, e.seq)) \in 1..Cardinality(S)
         /\ \A d \in S : d.seq < e.seq => Cardinality(UpTo(S, d.seq)) < Cardinality(UpTo(S, e.seq))
<1>1. UpTo(S, e.seq) \in SUBSET S /\ e \in UpTo(S, e.seq) /\ e.seq \in Nat
  BY DEF UpTo, Entries
<1>2. IsFiniteSet(UpTo(S, e.seq)) /\ Cardinality(UpTo(S, e.seq)) <= Cardinality(S)
  BY <1>1, FS_Subset
<1>3. Cardinality(UpTo(S, e.seq)) \in Nat /\ Cardinality(S) \in Nat /\ Cardinality(UpTo(S, e.seq)) # 0
  BY <1>1, <1>2, FS_CardinalityType, FS_EmptySet
<1>4. ASSUME NEW d \in S, d.seq < e.seq
      PROVE  Cardinality(UpTo(S, d.seq)) < Cardinality(UpTo(S, e.seq))
  <2>1. \A c \in S : c.seq \in Nat
    BY DEF Entries
  <2>2. UpTo(S, d.seq) \in SUBSET UpTo(S, e.seq) /\ e \notin UpTo(S, d.seq)
    BY <1>4, <2>1 DEF UpTo
  <2>3. Cardinality(UpTo(S, d.seq)) <= Cardinality(UpTo(S, e.seq))
        /\ Cardinality(UpTo(S, d.seq)) # Cardinality(UpTo(S, e.seq))
        /\ IsFiniteSet(UpTo(S, d.seq))
    BY <1>1, <1>2, <2>2, FS_Subset
  <2> QED
    BY <1>3, <2>3, FS_CardinalityType
<1> QED
  BY <1>2, <1>3, <1>4

\* Finitely many distinct events have an order, and InOrder is one.
LEMMA OrderExists ==
  ASSUME NEW S \in SUBSET Entries, IsFiniteSet(S), Distinct(S)
  PROVE  LET n == Cardinality(S)
             f == InOrder(S)
         IN  /\ n \in Nat /\ f \in [1..n -> S]
             /\ \A i, j \in 1..n : i < j => f[i].seq < f[j].seq
<1> DEFINE n == Cardinality(S)
           rank == [e \in S |-> Cardinality(UpTo(S, e.seq))]
           f == [i \in 1..n |-> CHOOSE e \in S : rank[e] = i]
<1>1. n \in Nat
  BY FS_CardinalityType
<1>2. rank \in [S -> 1..n] /\ \A d, e \in S : d.seq < e.seq => rank[d] < rank[e]
  BY RankOf
<1>3. \A e \in S : e.seq \in Nat /\ rank[e] \in Nat
  BY <1>2 DEF Entries
<1> HIDE DEF rank, n
<1>4. \A d, e \in S : rank[d] = rank[e] => d = e
  BY <1>2, <1>3 DEF Distinct
<1>5. rank \in Injection(S, 1..n)
  BY <1>2, <1>4, Fun_IsInj
<1>6. IsFiniteSet(1..n) /\ Cardinality(1..n) = n
  BY <1>1, FS_Interval
<1>7. rank \in Surjection(S, 1..n)
  BY <1>5, <1>6, FS_Injection DEF n
<1>8. \A i \in 1..n : \E e \in S : rank[e] = i
  BY <1>7, Fun_SurjectionProperties
<1>9. f \in [1..n -> S] /\ \A i \in 1..n : rank[f[i]] = i
  BY <1>8
<1> HIDE DEF f
<1>10. \A i, j \in 1..n : i < j => f[i].seq < f[j].seq
  <2> SUFFICES ASSUME NEW i \in 1..n, NEW j \in 1..n, i < j PROVE f[i].seq < f[j].seq
    OBVIOUS
  <2>1. /\ f[i] \in S /\ f[j] \in S /\ rank[f[i]] = i /\ rank[f[j]] = j
        /\ f[i].seq \in Nat /\ f[j].seq \in Nat
    BY <1>3, <1>9
  <2>2. ~(f[j].seq < f[i].seq) /\ f[j].seq # f[i].seq
    BY <1>1, <1>2, <2>1 DEF Distinct
  <2> QED
    BY <2>1, <2>2
<1> QED
  BY <1>1, <1>9, <1>10 DEF InOrder, n

\* What InOrder returns: every event, each once, by its number.
LEMMA OrderLaws ==
  ASSUME NEW S \in SUBSET Entries, IsFiniteSet(S), Distinct(S)
  PROVE  LET n == Cardinality(S)
             f == InOrder(S)
         IN  /\ n \in Nat /\ f \in Seq(Entries) /\ Len(f) = n
             /\ {f[i] : i \in 1..n} = S
             /\ \A i, j \in 1..n : i < j => f[i].seq < f[j].seq
<1> DEFINE n == Cardinality(S)
           f == InOrder(S)
<1>1. /\ n \in Nat /\ f \in [1..n -> S]
      /\ \A i, j \in 1..n : i < j => f[i].seq < f[j].seq
  BY OrderExists
<1> HIDE DEF n, f
<1>2. f \in Seq(S) /\ Len(f) = n
  BY <1>1
<1>3. f \in Seq(Entries)
  BY <1>2
<1>4. \A i, j \in 1..n : f[i] = f[j] => i = j
  <2> SUFFICES ASSUME NEW i \in 1..n, NEW j \in 1..n, f[i] = f[j], i # j PROVE FALSE
    OBVIOUS
  <2>1. f[i].seq \in Nat /\ f[j].seq \in Nat /\ f[i].seq = f[j].seq
    BY <1>1 DEF Entries
  <2>2. i < j \/ j < i
    BY <1>1
  <2> QED
    BY <1>1, <2>1, <2>2
<1>5. f \in Injection(1..n, S)
  BY <1>1, <1>4, Fun_IsInj
<1>6. Cardinality(1..n) = n
  BY <1>1, FS_Interval
<1>7. f \in Surjection(1..n, S)
  BY <1>5, <1>6, FS_Injection DEF n
<1>8. \A e \in S : \E i \in 1..n : f[i] = e
  BY <1>7 DEF Surjection
<1>9. {f[i] : i \in 1..n} = S
  <2>1. \A i \in 1..n : f[i] \in S
    BY <1>1
  <2> QED
    BY <1>8, <2>1
<1> QED
  BY <1>1, <1>2, <1>3, <1>9 DEF n, f

LEMMA Consecutive ==
  ASSUME NEW S \in SUBSET Entries, Distinct(S), NEW k \in Nat, NEW m \in Nat, k <= m,
         Numbers(S) = (k + 1)..m
  PROVE  IsFiniteSet(S) /\ Cardinality(S) = m - k
<1>1. IsFiniteSet((k + 1)..m) /\ Cardinality((k + 1)..m) = m - k
  <2> DEFINE j == k + 1
  <2>1. j \in Int /\ m \in Int /\ (IF j > m THEN 0 ELSE m - j + 1) = m - k
    OBVIOUS
  <2> HIDE DEF j
  <2>2. IsFiniteSet(j..m) /\ Cardinality(j..m) = IF j > m THEN 0 ELSE m - j + 1
    BY <2>1, FS_Interval
  <2> QED
    BY <2>1, <2>2 DEF j
<1> QED
  BY <1>1, SameCount

\* In the order of consecutive events every number has its place.
LEMMA ConsecutiveOrder ==
  ASSUME NEW S \in SUBSET Entries, Distinct(S), NEW k \in Nat, NEW m \in Nat, k <= m,
         Numbers(S) = (k + 1)..m
  PROVE  /\ InOrder(S) \in Seq(Entries) /\ Len(InOrder(S)) = m - k
         /\ {InOrder(S)[i] : i \in 1..(m - k)} = S
         /\ \A i \in 1..(m - k) : InOrder(S)[i].seq = k + i
<1> DEFINE n == m - k
           f == InOrder(S)
<1>1. IsFiniteSet(S) /\ Cardinality(S) = n
  BY Consecutive
<1>2. /\ f \in Seq(Entries) /\ Len(f) = n /\ {f[i] : i \in 1..n} = S
      /\ \A i, j \in 1..n : i < j => f[i].seq < f[j].seq
  BY <1>1, OrderLaws
<1>3. n \in Nat /\ m = k + n
  OBVIOUS
<1> HIDE DEF n, f
<1>4. ASSUME NEW i \in 1..n PROVE f[i].seq = k + i
  <2> DEFINE T == UpTo(S, f[i].seq)
             g == [j \in 1..i |-> f[j]]
  <2>1. f[i] \in S /\ f[i].seq \in Nat /\ i \in Nat /\ i <= n
    BY <1>2, <1>3, <1>4 DEF Entries
  <2>2. f[i].seq \in (k + 1)..m
    BY <2>1 DEF Numbers
  <2>3. \A j \in 1..n : f[j] \in S /\ f[j].seq \in Nat
    BY <1>2 DEF Entries
  <2>4. \A j \in 1..n : f[j] \in T <=> j <= i
    <3> SUFFICES ASSUME NEW j \in 1..n PROVE f[j].seq <= f[i].seq <=> j <= i
      BY <2>3 DEF UpTo
    <3>1. j < i \/ j = i \/ i < j
      BY <1>3
    <3> QED
      BY <1>2, <1>3, <2>1, <2>3, <3>1
  <2>5. g \in [1..i -> T]
    BY <1>3, <2>1, <2>4
  <2>6. \A e \in T : \E j \in 1..i : g[j] = e
    <3> SUFFICES ASSUME NEW e \in T PROVE \E j \in 1..i : g[j] = e
      OBVIOUS
    <3>1. PICK j \in 1..n : f[j] = e
      BY <1>2 DEF UpTo
    <3>2. j \in 1..i
      BY <1>3, <2>1, <2>4, <3>1
    <3> QED
      BY <3>1, <3>2
  <2>7. \A a, b \in 1..i : g[a] = g[b] => a = b
    <3> SUFFICES ASSUME NEW a \in 1..i, NEW b \in 1..i, f[a] = f[b], a # b PROVE FALSE
      OBVIOUS
    <3>1. a \in 1..n /\ b \in 1..n /\ (a < b \/ b < a)
      BY <1>3, <2>1
    <3>2. f[a].seq = f[b].seq /\ f[a].seq \in Nat
      BY <2>3, <3>1
    <3> QED
      BY <1>2, <3>1, <3>2
  <2>8. T \in SUBSET S
    BY DEF UpTo
  <2>9. Numbers(T) = (k + 1)..f[i].seq
    <3>1. \A x : x \in Numbers(T) <=> x \in Numbers(S) /\ x <= f[i].seq
      BY DEF Numbers, UpTo
    <3>2. \A x : x \in (k + 1)..f[i].seq <=> x \in (k + 1)..m /\ x <= f[i].seq
      BY <2>2
    <3> QED
      BY <3>1, <3>2
  <2> HIDE DEF T, g
  <2>10. g \in Injection(1..i, T) /\ g \in Surjection(1..i, T)
    BY <2>5, <2>6, <2>7, Fun_IsInj, Fun_IsSurj
  <2>11. IsFiniteSet(T) /\ Cardinality(T) = f[i].seq - k
    BY <2>2, <2>8, <2>9, Consecutive DEF Distinct
  <2>12. Cardinality(1..i) = Cardinality(T)
    BY <2>10, <2>11, FS_Injection
  <2>13. Cardinality(1..i) = i
    <3>1. 1 \in Int /\ i \in Int /\ ~(1 > i) /\ i - 1 + 1 = i
      BY <2>1
    <3>2. Cardinality(1..i) = IF 1 > i THEN 0 ELSE i - 1 + 1
      BY <3>1, FS_Interval
    <3> QED
      BY <3>1, <3>2
  <2> QED
    BY <2>1, <2>11, <2>12, <2>13
<1> QED
  BY <1>2, <1>4 DEF n, f

-----------------------------------------------------------------------------
\* How a log may change: not at all, by its next event, or when it goes.
Grows(t) ==
  \/ log'[t] = log[t]
  \/ \E k \in Kinds : log'[t] = log[t] \cup {[seq |-> Newest(log[t]) + 1, kind |-> k]}

LEMMA InsertGrows ==
  ASSUME WriterInv, NEW w \in Threads, InsertEvent(w), NEW t \in Tasks, status[t] # "purged"
  PROVE  Grows(t)
<1> DEFINE item == Head(script[w])
<1>1. /\ script[w] \in Seq(Items) /\ script[w] # <<>> /\ slot[w] \in Nat /\ slot[w] # 0
      /\ log \in [Tasks -> SUBSET Entries]
  BY DEF InsertEvent, WriterInv, WriterTypes, Idle
<1>2. item \in Items /\ item.do = "append"
  BY <1>1 DEF WriterInv
<1>3. item.task \in Tasks /\ item.arg \in Kinds
  BY <1>2 DEF Items
<1>4. CASE item.task = t /\ NumberFree(log[t], slot[w])
  <2>1. slot[w] <= Newest(log[t]) + 1
    BY <1>1, <1>4 DEF WriterInv
  <2>2. Newest(log[t]) \in Nat /\ Numbers(log[t]) = 1..Newest(log[t])
    BY WholeNewest DEF WriterInv
  <2>3. slot[w] = Newest(log[t]) + 1
    BY <1>1, <1>4, <2>1, <2>2 DEF NumberFree
  <2>4. log'[t] = log[t] \cup {[seq |-> slot[w], kind |-> item.arg]}
    BY <1>1, <1>4 DEF InsertEvent
  <2> QED
    BY <1>3, <2>3, <2>4 DEF Grows
<1>5. CASE ~(item.task = t /\ NumberFree(log[t], slot[w]))
  <2>1. log'[t] = log[t]
    BY <1>1, <1>3, <1>5 DEF InsertEvent
  <2> QED
    BY <2>1 DEF Grows
<1> QED
  BY <1>4, <1>5

LEMMA RestartGrows ==
  ASSUME Restart, NEW t \in Tasks
  PROVE  Grows(t)
BY DEF Restart, Grows, Kinds

\* No step but a deletion does anything else to the log of a task.
LEMMA LogGrows ==
  ASSUME WriterInv, [Next]_vars, NEW t \in Tasks, status[t] # "purged", status'[t] # "purged"
  PROVE  Grows(t)
<1>t. status \in [Tasks -> Statuses]
  BY DEF WriterInv, WriterTypes
<1>1. ASSUME NEW d \in Tasks, DeleteTask(d) PROVE Grows(t)
  BY <1>1, <1>t DEF DeleteTask, Grows
<1>2. CASE log' = log
  BY <1>2 DEF Grows
<1>3. (\E d \in Tasks : DeleteTask(d)) \/ (\E w \in Threads : InsertEvent(w)) \/ Restart
        \/ log' = log
  BY DEF Next, vars, ChangeStatus, RecordSuccess, AppendUnlocked, WriterStep, ReadNewest, WriteRow,
     Connect, StreamStep, ReadRecord, ReadEvents, Send, EndPoll
<1> QED
  BY <1>1, <1>2, <1>3, InsertGrows, RestartGrows

-----------------------------------------------------------------------------
(* The invariant of the writers *)

LEMMA InitWriter == Init => WriterInv
<1> SUFFICES ASSUME Init PROVE WriterInv
  OBVIOUS
<1>1. <<>> \in Seq(Items)
  OBVIOUS
<1>2. WriterTypes
  BY <1>1 DEF Init, WriterTypes, Statuses
<1>3. \A t \in Tasks : Whole(log[t]) /\ Topped(log[t]) /\ Distinct(log[t])
                        /\ earlier[t] <= Newest(log[t])
  BY EmptyIsWhole DEF Init
<1> QED
  BY <1>2, <1>3 DEF WriterInv, Init

\* Scripts are made of items.
LEMMA ScriptTypes ==
  ASSUME NEW t \in Tasks, NEW u \in Active \cup Final
  PROVE  /\ \A n \in {1, 2} : [i \in 1..n |-> Event(t, "other")] \in Seq(Items)
         /\ WorkThenStatus(t, u) \in Seq(Items)
         /\ <<Event(t, "other")>> \in Seq(Items)
<1>1. Event(t, "other") \in Items /\ Event(t, "files_changed") \in Items
  BY DEF Event, Items, Kinds
<1>2. <<>> \in Seq(Items) /\ Row(t, u) \in Items
  BY DEF Row, Items
<1> QED
  BY <1>1, <1>2 DEF WorkThenStatus

\* What a thread leaves behind of its script.
LEMMA LeaveTypes ==
  ASSUME WriterTypes, NEW w \in Threads, NEW rest \in Seq(Items), Leave(w, rest)
  PROVE  /\ script' \in [Threads -> Seq(Items)] /\ slot' \in [Threads -> Nat] /\ slot'[w] = 0
         /\ \A v \in Threads \ {w} : script'[v] = script[v] /\ slot'[v] = slot[v]
BY DEF WriterTypes, Leave

LEMMA FollowsTypes ==
  ASSUME NEW x
  PROVE  Follows(x) \subseteq Active \cup Final
         /\ (Follows(x) # {} => x \in Active \cup Final)
BY DEF Follows, Active, Final, Closed

LEMMA NextWriterTypes ==
  ASSUME WriterInv, [Next]_vars
  PROVE  WriterTypes'
<1> USE DEF WriterInv, WriterTypes, writers, streams
<1>e. \A t \in Tasks, n \in Nat, k \in Kinds :
        log[t] \cup {[seq |-> n + 1, kind |-> k]} \in SUBSET Entries
  BY DEF Entries
<1>n. \A t \in Tasks : Newest(log[t]) \in Nat
  BY NewestTypes
<1>1. ASSUME NEW t \in Tasks, ChangeStatus(t) PROVE WriterTypes'
  <2>1. PICK u \in Follows(status[t]), n \in {1, 2} :
          /\ status' = [status EXCEPT ![t] = u]
          /\ script' = [script EXCEPT ![Holder] = [i \in 1..n |-> Event(t, "other")]]
    BY <1>1 DEF ChangeStatus
  <2>2. u \in Active \cup Final /\ status[t] # "purged"
    BY <2>1, FollowsTypes DEF Active, Final
  <2>3. [i \in 1..n |-> Event(t, "other")] \in Seq(Items)
    BY <2>2, ScriptTypes
  <2>4. status' \in [Tasks -> Statuses] /\ script' \in [Threads -> Seq(Items)]
    BY <2>1, <2>2, <2>3 DEF Statuses, Threads
  <2>5. earlier' \in [Tasks -> Nat]
    BY <1>1, <1>n, <2>2 DEF ChangeStatus
  <2> QED
    BY <1>1, <2>4, <2>5 DEF ChangeStatus
<1>2. ASSUME NEW t \in Tasks, RecordSuccess(t) PROVE WriterTypes'
  <2>1. PICK u \in {"completed", "waiting_for_provider_input"} :
          script' = [script EXCEPT ![Holder] = WorkThenStatus(t, u)]
    BY <1>2 DEF RecordSuccess
  <2>2. WorkThenStatus(t, u) \in Seq(Items)
    BY ScriptTypes DEF Active, Final
  <2> QED
    BY <1>2, <2>1, <2>2 DEF RecordSuccess
<1>3. ASSUME NEW t \in Tasks, DeleteTask(t) PROVE WriterTypes'
  BY <1>3 DEF DeleteTask, Statuses
<1>4. ASSUME NEW w \in Requests, NEW t \in Tasks, AppendUnlocked(w, t) PROVE WriterTypes'
  <2>1. <<Event(t, "other")>> \in Seq(Items)
    BY ScriptTypes DEF Active
  <2>2. script' \in [Threads -> Seq(Items)]
    BY <1>4, <2>1 DEF AppendUnlocked
  <2>3. status' \in [Tasks -> Statuses]
    BY <1>4 DEF AppendUnlocked, Statuses, Active, Final
  <2> QED
    BY <1>4, <2>2, <2>3 DEF AppendUnlocked
<1>5. ASSUME NEW w \in Threads, ReadNewest(w) PROVE WriterTypes'
  <2>1. Head(script[w]) \in Items
    BY <1>5 DEF ReadNewest, Idle
  <2>2. Head(script[w]).task \in Tasks
    BY <2>1 DEF Items
  <2>3. Newest(log[Head(script[w]).task]) + 1 \in Nat
    BY <1>n, <2>2
  <2> QED
    BY <1>5, <2>3 DEF ReadNewest
<1>6. ASSUME NEW w \in Threads, InsertEvent(w) PROVE WriterTypes'
  <2>1. script[w] # <<>> /\ Head(script[w]) \in Items /\ Head(script[w]).do = "append"
        /\ Tail(script[w]) \in Seq(Items) /\ <<>> \in Seq(Items) /\ slot[w] \in Nat \ {0}
    BY <1>6 DEF InsertEvent, Idle
  <2>2. Head(script[w]).task \in Tasks /\ Head(script[w]).arg \in Kinds
    BY <2>1 DEF Items
  <2>3. script' \in [Threads -> Seq(Items)] /\ slot' \in [Threads -> Nat]
    BY <1>6, <2>1, LeaveTypes DEF InsertEvent
  <2>4. [seq |-> slot[w], kind |-> Head(script[w]).arg] \in Entries
    BY <2>1, <2>2 DEF Entries
  <2>5. log' \in [Tasks -> SUBSET Entries]
    <3> DEFINE d == Head(script[w]).task
               new == [seq |-> slot[w], kind |-> Head(script[w]).arg]
    <3>1. log' = log \/ log' = [log EXCEPT ![d] = @ \cup {new}]
      BY <1>6 DEF InsertEvent
    <3>2. d \in Tasks /\ new \in Entries
      BY <2>2, <2>4
    <3> HIDE DEF d, new
    <3> QED
      BY <3>1, <3>2
  <2> QED
    BY <1>6, <2>3, <2>5 DEF InsertEvent
<1>7. ASSUME NEW w \in Threads, WriteRow(w) PROVE WriterTypes'
  <2>1. script[w] # <<>> /\ Head(script[w]) \in Items /\ Tail(script[w]) \in Seq(Items)
        /\ Head(script[w]).do = "status"
    BY <1>7 DEF WriteRow, Idle
  <2>2. Head(script[w]).task \in Tasks /\ Head(script[w]).arg \in Active \cup Final
    BY <2>1 DEF Items
  <2>3. script' \in [Threads -> Seq(Items)] /\ slot' \in [Threads -> Nat]
    BY <1>7, <2>1, LeaveTypes DEF WriteRow
  <2>4. status' \in [Tasks -> Statuses]
    BY <1>7, <2>2 DEF WriteRow, Statuses
  <2>5. earlier' \in [Tasks -> Nat]
    BY <1>7, <1>n, <2>2 DEF WriteRow, HasRow
  <2> QED
    BY <1>7, <2>3, <2>4, <2>5 DEF WriteRow
<1>8. CASE Restart
  <2>1. <<>> \in Seq(Items)
    OBVIOUS
  <2>2. \A t \in Tasks : status[t] = "running" =>
          log[t] \cup {[seq |-> Newest(log[t]) + 1, kind |-> "other"]} \in SUBSET Entries
    BY <1>e, <1>n DEF Kinds
  <2>3. log' \in [Tasks -> SUBSET Entries]
    BY <1>8, <2>2 DEF Restart
  <2>4. earlier' \in [Tasks -> Nat]
    BY <1>8, <1>n DEF Restart
  <2> QED
    BY <1>8, <2>1, <2>3, <2>4 DEF Restart, Statuses, Final
<1>9. CASE UNCHANGED <<status, log, script, slot, earlier>>
  BY <1>9
<1> QED
  BY <1>1, <1>2, <1>3, <1>4, <1>5, <1>6, <1>7, <1>8, <1>9
     DEF Next, vars, WriterStep, Connect, StreamStep, ReadRecord, ReadEvents, Send, EndPoll

\* A purged task stays purged.
LEMMA PurgedIsGone ==
  ASSUME WriterInv, [Next]_vars, NEW t \in Tasks, status[t] = "purged"
  PROVE  status'[t] = "purged"
<1>1. Follows("purged") = {}
  BY DEF Follows, Active, Final, Closed
<1>t. status \in [Tasks -> Statuses]
  BY DEF WriterInv, WriterTypes
<1>2. CASE \E d \in Tasks : ChangeStatus(d)
  BY <1>1, <1>2, <1>t DEF ChangeStatus
<1>3. CASE \E d \in Tasks : DeleteTask(d)
  BY <1>3, <1>t DEF DeleteTask
<1>4. CASE \E w \in Requests, d \in Tasks : AppendUnlocked(w, d)
  BY <1>4, <1>t DEF AppendUnlocked
<1>5. CASE \E w \in Threads : WriteRow(w)
  BY <1>5, <1>t DEF WriteRow, HasRow
<1>6. CASE Restart
  BY <1>6 DEF Restart
<1>7. CASE status' = status
  BY <1>7
<1> QED
  BY <1>2, <1>3, <1>4, <1>5, <1>6, <1>7 DEF Next, vars, RecordSuccess, WriterStep, ReadNewest,
     InsertEvent, Connect, StreamStep, ReadRecord, ReadEvents, Send, EndPoll

\* While a task is not purged its log stays whole, and its newest number grows.
LEMMA NextLog ==
  ASSUME WriterInv, [Next]_vars, NEW t \in Tasks, status'[t] # "purged"
  PROVE  /\ Whole(log'[t]) /\ Newest(log[t]) <= Newest(log'[t])
         /\ earlier'[t] <= Newest(log'[t])
<1>p. status[t] # "purged"
  BY PurgedIsGone
<1>w. Whole(log[t]) /\ Newest(log[t]) \in Nat /\ earlier[t] <= Newest(log[t])
      /\ earlier \in [Tasks -> Nat]
  BY <1>p, WholeNewest DEF WriterInv, WriterTypes
<1>1. Grows(t)
  BY <1>p, LogGrows
<1>2. ASSUME log'[t] = log[t] PROVE Whole(log'[t]) /\ Newest(log[t]) <= Newest(log'[t])
  BY <1>2, <1>w
<1>3. ASSUME NEW k \in Kinds,
             log'[t] = log[t] \cup {[seq |-> Newest(log[t]) + 1, kind |-> k]}
      PROVE  Whole(log'[t]) /\ Newest(log[t]) <= Newest(log'[t])
  <2>1. Whole(log'[t]) /\ Newest(log'[t]) = Newest(log[t]) + 1
    BY <1>3, <1>w, WholeGrows
  <2> QED
    BY <2>1, <1>w
<1>4. Whole(log'[t]) /\ Newest(log[t]) <= Newest(log'[t]) /\ Newest(log'[t]) \in Nat
  BY <1>1, <1>2, <1>3, <1>w, WholeNewest DEF Grows
<1>5. earlier'[t] \in {earlier[t], Newest(log[t])}
  BY <1>w DEF Next, vars, ChangeStatus, RecordSuccess, DeleteTask, AppendUnlocked,
     WriterStep, ReadNewest, InsertEvent, WriteRow, Connect, StreamStep, ReadRecord,
     ReadEvents, Send, EndPoll, Restart
<1> QED
  BY <1>4, <1>5, <1>w

\* A log keeps a newest event, and no number twice.
LEMMA NextTopped ==
  ASSUME WriterInv, [Next]_vars, NEW t \in Tasks
  PROVE  Topped(log'[t]) /\ Distinct(log'[t])
<1>t. log \in [Tasks -> SUBSET Entries] /\ Topped(log[t]) /\ Distinct(log[t])
  BY DEF WriterInv, WriterTypes
<1>n. ASSUME NEW e \in Entries, e.seq \notin Numbers(log[t]), log'[t] = log[t] \cup {e}
      PROVE  Topped(log'[t]) /\ Distinct(log'[t])
  BY <1>t, <1>n, StaysTopped, StaysDistinct
<1>1. ASSUME NEW d \in Tasks, DeleteTask(d) PROVE Topped(log'[t]) /\ Distinct(log'[t])
  BY <1>1, <1>t, EmptyIsWhole DEF DeleteTask
<1>2. ASSUME NEW w \in Threads, InsertEvent(w) PROVE Topped(log'[t]) /\ Distinct(log'[t])
  <2> DEFINE new == [seq |-> slot[w], kind |-> Head(script[w]).arg]
  <2>1. /\ script[w] \in Seq(Items) /\ script[w] # <<>> /\ slot[w] \in Nat /\ slot[w] # 0
        /\ Head(script[w]).do = "append"
    BY <1>2 DEF InsertEvent, WriterInv, WriterTypes, Idle
  <2>2. Head(script[w]).task \in Tasks /\ Head(script[w]).arg \in Kinds
    BY <2>1 DEF Items
  <2>3. new \in Entries /\ new.seq = slot[w]
    BY <2>1, <2>2 DEF Entries
  <2>4. \/ log'[t] = log[t]
        \/ log'[t] = log[t] \cup {new} /\ slot[w] \notin Numbers(log[t])
    BY <1>2, <1>t, <2>2 DEF InsertEvent, NumberFree
  <2> HIDE DEF new
  <2> QED
    BY <1>n, <1>t, <2>3, <2>4
<1>3. CASE Restart
  <2> DEFINE new == [seq |-> Newest(log[t]) + 1, kind |-> "other"]
  <2>1. Newest(log[t]) \in Nat /\ Newest(log[t]) + 1 \notin Numbers(log[t])
    <3>1. Newest(log[t]) \in Nat /\ \A n \in Numbers(log[t]) : n <= Newest(log[t])
      BY <1>t, NewestTypes
    <3> QED
      BY <3>1
  <2>2. new \in Entries /\ new.seq = Newest(log[t]) + 1
    BY <2>1 DEF Entries, Kinds
  <2>3. log'[t] = log[t] \/ log'[t] = log[t] \cup {new}
    BY <1>3 DEF Restart
  <2> HIDE DEF new
  <2> QED
    BY <1>n, <1>t, <2>1, <2>2, <2>3
<1>4. CASE log' = log
  BY <1>4, <1>t
<1> QED
  BY <1>1, <1>2, <1>3, <1>4 DEF Next, vars, ChangeStatus, RecordSuccess, AppendUnlocked, WriterStep,
     ReadNewest, WriteRow, Connect, StreamStep, ReadRecord, ReadEvents, Send, EndPoll

\* A number that is waiting to be used is at most the next one of its log.
SlotOf(w) ==
  slot[w] # 0 =>
    /\ script[w] # <<>> /\ Head(script[w]).do = "append"
    /\ status[Head(script[w]).task] # "purged" =>
         slot[w] <= Newest(log[Head(script[w]).task]) + 1

LEMMA NextSlot ==
  ASSUME WriterInv, [Next]_vars, NEW v \in Threads
  PROVE  SlotOf(v)'
<1>t. /\ script \in [Threads -> Seq(Items)] /\ slot \in [Threads -> Nat]
      /\ log \in [Tasks -> SUBSET Entries] /\ SlotOf(v)
  BY DEF WriterInv, WriterTypes, SlotOf
<1>1. CASE slot'[v] = slot[v] /\ script'[v] = script[v]
  <2>1. CASE slot[v] = 0
    BY <1>1, <2>1 DEF SlotOf
  <2>2. CASE slot[v] # 0
    <3>1. script[v] # <<>> /\ Head(script[v]).do = "append" /\ Head(script[v]) \in Items
      BY <1>t, <2>2 DEF SlotOf
    <3> DEFINE t == Head(script[v]).task
    <3>2. t \in Tasks
      BY <3>1 DEF Items
    <3>3. status'[t] # "purged" => /\ Newest(log[t]) <= Newest(log'[t]) /\ Newest(log[t]) \in Nat
                                   /\ Newest(log'[t]) \in Nat /\ slot[v] <= Newest(log[t]) + 1
      BY <1>t, <2>2, <3>2, NextLog, PurgedIsGone, WholeNewest DEF SlotOf, WriterInv
    <3>4. slot[v] \in Nat
      BY <1>t
    <3> QED
      BY <1>1, <3>1, <3>3, <3>4 DEF SlotOf
  <2> QED
    BY <2>1, <2>2
<1>2. CASE slot'[v] = 0
  BY <1>2 DEF SlotOf
<1>3. ASSUME ReadNewest(v) PROVE SlotOf(v)'
  <2>1. script[v] # <<>> /\ Head(script[v]).do = "append" /\ Head(script[v]) \in Items
    BY <1>t, <1>3 DEF ReadNewest, Idle
  <2>2. Head(script[v]).task \in Tasks
    BY <2>1 DEF Items
  <2>3. Newest(log[Head(script[v]).task]) \in Nat
    BY <2>2, NewestTypes DEF WriterInv, WriterTypes
  <2>4. slot'[v] = Newest(log[Head(script[v]).task]) + 1 /\ log' = log /\ script' = script
    BY <1>t, <1>3 DEF ReadNewest, writers
  <2> QED
    BY <2>1, <2>3, <2>4 DEF SlotOf
<1>4. ASSUME NEW w \in Threads, Idle(w), w = v, slot' = slot PROVE SlotOf(v)'
  BY <1>4, <1>t, <1>2 DEF Idle, SlotOf
<1>5. \/ slot'[v] = slot[v] /\ script'[v] = script[v]
      \/ slot'[v] = 0
      \/ ReadNewest(v)
      \/ Idle(v) /\ slot' = slot
  BY <1>t DEF Next, vars, writers, ChangeStatus, RecordSuccess, DeleteTask, AppendUnlocked, LockFree,
     WriterStep, ReadNewest, InsertEvent, WriteRow, Leave, Connect, StreamStep, ReadRecord,
     ReadEvents, Send, EndPoll, Restart
<1> QED
  BY <1>1, <1>2, <1>3, <1>4, <1>5

LEMMA NextWriter == WriterInv /\ [Next]_vars => WriterInv'
<1> SUFFICES ASSUME WriterInv, [Next]_vars PROVE WriterInv'
  OBVIOUS
<1>1. \A t \in Tasks : status'[t] # "purged" => Whole(log'[t]) /\ earlier'[t] <= Newest(log'[t])
  BY NextLog
<1>2. \A t \in Tasks : Topped(log'[t]) /\ Distinct(log'[t])
  BY NextTopped
<1>3. \A w \in Threads : SlotOf(w)'
  BY NextSlot
<1> QED
  BY <1>1, <1>2, <1>3, NextWriterTypes DEF WriterInv, SlotOf

LEMMA AlwaysWriter == Spec => []WriterInv
BY InitWriter, NextWriter, PTL DEF Spec

\* Nothing is lost, replaced or put in between, although two threads may compute
\* the same number: the log of a task grows by its next event only.
THEOREM LogsGrowAtTheirEnd == Spec => LogGrowsAtItsEnd
<1> DEFINE AtEnd == \A t \in Tasks : HasRow(t) /\ HasRow(t)' =>
                      /\ log[t] \subseteq log'[t]
                      /\ \A e \in log'[t] \ log[t] : e.seq = Newest(log[t]) + 1
<1>1. WriterInv /\ [Next]_vars => AtEnd
  <2> SUFFICES ASSUME WriterInv, [Next]_vars, NEW t \in Tasks, HasRow(t), HasRow(t)'
               PROVE  /\ log[t] \subseteq log'[t]
                      /\ \A e \in log'[t] \ log[t] : e.seq = Newest(log[t]) + 1
    OBVIOUS
  <2>1. Grows(t)
    BY LogGrows DEF HasRow
  <2> QED
    BY <2>1 DEF Grows
<1>2. Spec => [][AtEnd]_vars
  BY <1>1, AlwaysWriter, PTL DEF Spec
<1> QED
  BY <1>2 DEF LogGrowsAtItsEnd

-----------------------------------------------------------------------------
(* What was done is logged before the task is completed *)

Changed(entries) == \E e \in entries : e.kind = "files_changed"

\* No list of files is owed of a conversation.
Done(t) == t \in TalkTasks \/ status[t] = "purged" \/ Changed(log[t])

\* Where a script completes a task, the changes are logged or come before.
WorkIn(w) ==
  \A i \in 1..Len(script[w]) :
    LET item == script[w][i] IN
    item.do = "status" /\ item.arg = "completed" =>
      \/ Done(item.task)
      \/ \E j \in 1..(i - 1) : script[w][j] = Event(item.task, "files_changed")

WorkInv ==
  /\ \A t \in Tasks \ TalkTasks : status[t] = "completed" => Changed(log[t])
  /\ \A w \in Threads : WorkIn(w)

LEMMA InitWork == Init => WorkInv
BY DEF Init, WorkInv, WorkIn

LEMMA DoneStays ==
  ASSUME WriterInv, [Next]_vars, NEW t \in Tasks, Done(t)
  PROVE  Done(t)'
<1>1. CASE status[t] = "purged"
  BY <1>1, PurgedIsGone DEF Done
<1>2. CASE status[t] # "purged" /\ status'[t] # "purged" /\ t \notin TalkTasks
  <2>1. Grows(t) /\ Changed(log[t])
    BY <1>2, LogGrows DEF Done
  <2> QED
    BY <2>1 DEF Grows, Changed, Done
<1> QED
  BY <1>1, <1>2 DEF Done

\* A thread goes on to the rest of its script.
LEMMA WorkGoesOn ==
  ASSUME WriterInv, [Next]_vars, NEW w \in Threads, WorkIn(w), script[w] # <<>>,
         script'[w] = Tail(script[w]),
         \A t \in Tasks : Head(script[w]) = Event(t, "files_changed") => Done(t)'
  PROVE  WorkIn(w)'
<1> DEFINE old == script[w]
           rest == Tail(old)
<1>1. old \in Seq(Items) /\ old # <<>>
  BY DEF WriterInv, WriterTypes
<1>2. \A t \in Tasks : Done(t) => Done(t)'
  BY DoneStays
<1>3. /\ Len(old) \in Nat \ {0} /\ Len(rest) = Len(old) - 1 /\ Head(old) = old[1]
      /\ \A i \in 1..Len(rest) : i + 1 \in 1..Len(old) /\ rest[i] = old[i + 1]
                                 /\ old[i + 1] \in Items
  BY <1>1
<1>4. \A i \in 1..Len(rest) : rest[i].task \in Tasks
  BY <1>3 DEF Items
<1> SUFFICES ASSUME NEW i \in 1..Len(rest), NEW t \in Tasks, t = rest[i].task,
                    rest[i].do = "status", rest[i].arg = "completed"
             PROVE  Done(t)' \/ \E j \in 1..(i - 1) : rest[j] = Event(t, "files_changed")
  BY <1>4 DEF WorkIn, Done
<1>5. rest[i] = old[i + 1] /\ i + 1 \in 1..Len(old) /\ i + 1 - 1 = i /\ i \in Nat
  BY <1>3
<1>6. Done(t) \/ \E j \in 1..i : old[j] = Event(t, "files_changed")
  BY <1>5 DEF WorkIn
<1>7. Head(old) = Event(t, "files_changed") => Done(t)'
  OBVIOUS
<1> HIDE DEF rest, old
<1>8. ASSUME NEW j \in 1..i, old[j] = Event(t, "files_changed")
      PROVE  Done(t)' \/ \E k \in 1..(i - 1) : rest[k] = Event(t, "files_changed")
  <2>1. CASE j = 1
    BY <1>3, <1>7, <1>8, <2>1
  <2>2. CASE j # 1
    <3>1. j - 1 \in 1..(i - 1) /\ j - 1 \in 1..Len(rest) /\ (j - 1) + 1 = j
      BY <1>3, <1>5, <2>2
    <3> QED
      BY <1>3, <1>8, <3>1
  <2> QED
    BY <2>1, <2>2
<1> QED
  BY <1>2, <1>6, <1>8

\* What an insert leaves of a script: the event it inserted is in the log.
LEMMA WorkInserted ==
  ASSUME WriterInv, [Next]_vars, NEW w \in Threads, WorkIn(w), InsertEvent(w)
  PROVE  WorkIn(w)'
<1> DEFINE d == Head(script[w]).task
           new == [seq |-> slot[w], kind |-> Head(script[w]).arg]
<1>1. /\ script[w] # <<>> /\ script \in [Threads -> Seq(Items)] /\ Head(script[w]) \in Items
      /\ log \in [Tasks -> SUBSET Entries]
  BY DEF InsertEvent, Idle, WriterInv, WriterTypes
<1>2. d \in Tasks
  BY <1>1 DEF Items
<1>3. \/ script'[w] = <<>>
      \/ script'[w] = Tail(script[w]) /\ log'[d] = log[d] \cup {new}
  BY <1>1, <1>2 DEF InsertEvent, Leave
<1>4. CASE script'[w] = <<>>
  BY <1>4 DEF WorkIn
<1>5. CASE script'[w] = Tail(script[w]) /\ log'[d] = log[d] \cup {new}
  <2>1. ASSUME NEW t \in Tasks, Head(script[w]) = Event(t, "files_changed") PROVE Done(t)'
    <3>1. t = d /\ new.kind = "files_changed"
      BY <2>1 DEF Event
    <3> HIDE DEF new
    <3> QED
      BY <1>5, <3>1 DEF Done, Changed
  <2> QED
    BY <1>1, <1>5, <2>1, WorkGoesOn
<1> QED
  BY <1>3, <1>4, <1>5

LEMMA NextWork == WriterInv /\ WorkInv /\ [Next]_vars => WorkInv'
<1> SUFFICES ASSUME WriterInv, WorkInv, [Next]_vars PROVE WorkInv'
  OBVIOUS
<1>t. /\ script \in [Threads -> Seq(Items)] /\ status \in [Tasks -> Statuses]
      /\ \A w \in Threads : WorkIn(w)
  BY DEF WriterInv, WriterTypes, WorkInv
<1>1. ASSUME NEW t \in Tasks \ TalkTasks, status'[t] = "completed" PROVE Changed(log'[t])
  <2>1. Done(t)
    <3>1. CASE status[t] = "completed"
      BY <3>1 DEF WorkInv, Done
    <3>2. ASSUME NEW d \in Tasks, ChangeStatus(d) PROVE status[t] = "completed"
      BY <1>1, <1>t, <3>2 DEF ChangeStatus, Follows, Active, Final, Closed
    <3>3. ASSUME NEW w \in Threads, WriteRow(w), status[t] # "completed" PROVE Done(t)
      <4> DEFINE item == Head(script[w])
      <4>1. /\ script[w] # <<>> /\ item.do = "status" /\ script[w] \in Seq(Items)
            /\ status' = status \/ status' = [status EXCEPT ![item.task] = item.arg]
        BY <1>t, <3>3 DEF WriteRow, Idle
      <4>2. item.task = t /\ item.arg = "completed"
        BY <1>1, <1>t, <3>3, <4>1
      <4>3. 1 \in 1..Len(script[w]) /\ item = script[w][1] /\ 1..(1 - 1) = {}
        BY <4>1
      <4>4. WorkIn(w)
        BY <1>t
      <4> HIDE DEF item
      <4> QED
        BY <4>1, <4>2, <4>3, <4>4 DEF WorkIn
    <3>4. \/ status[t] = "completed" \/ (\E d \in Tasks : ChangeStatus(d))
          \/ \E w \in Threads : WriteRow(w)
      BY <1>1, <1>t DEF Next, vars, RecordSuccess, DeleteTask, AppendUnlocked, WriterStep, ReadNewest,
         InsertEvent, Connect, StreamStep, ReadRecord, ReadEvents, Send, EndPoll, Restart
    <3> QED
      BY <3>1, <3>2, <3>3, <3>4
  <2> QED
    BY <1>1, <2>1, DoneStays DEF Done
<1>2. ASSUME NEW w \in Threads PROVE WorkIn(w)'
  <2>1. CASE script'[w] = script[w]
    <3>1. \A i \in 1..Len(script[w]) : script[w][i].task \in Tasks
      BY <1>t DEF Items
    <3> QED
      BY <1>t, <2>1, <3>1, DoneStays DEF WorkIn
  <2>2. ASSUME NEW t \in Tasks, NEW n \in {1, 2}, script'[w] = [i \in 1..n |-> Event(t, "other")]
        PROVE  WorkIn(w)'
    BY <2>2 DEF WorkIn, Event
  <2>3. ASSUME NEW t \in Tasks, NEW u, script'[w] = WorkThenStatus(t, u) PROVE WorkIn(w)'
    BY <2>3 DEF WorkIn, WorkThenStatus, Event, Row, Done
  <2>4. ASSUME NEW t \in Tasks, script'[w] = <<Event(t, "other")>> PROVE WorkIn(w)'
    BY <2>4 DEF WorkIn, Event
  <2>5. CASE WriteRow(w)
    <3>1. /\ script[w] # <<>> /\ script'[w] = Tail(script[w]) /\ Head(script[w]).do = "status"
      BY <1>t, <2>5 DEF WriteRow, Idle, Leave
    <3>2. \A t : Head(script[w]) # Event(t, "files_changed")
      BY <3>1 DEF Event
    <3> QED
      BY <1>t, <3>1, <3>2, WorkGoesOn
  <2>6. CASE InsertEvent(w)
    BY <1>t, <2>6, WorkInserted
  <2>7. CASE script'[w] = <<>>
    BY <2>7 DEF WorkIn
  <2>8. ASSUME NEW t \in Tasks, ChangeStatus(t) PROVE WorkIn(w)'
    <3>1. \E n \in {1, 2} : script' = [script EXCEPT ![Holder] = [i \in 1..n |-> Event(t, "other")]]
      BY <2>8 DEF ChangeStatus
    <3> QED
      BY <1>t, <2>1, <2>2, <3>1
  <2>9. ASSUME NEW t \in Tasks, RecordSuccess(t) PROVE WorkIn(w)'
    <3>1. \E u : script' = [script EXCEPT ![Holder] = WorkThenStatus(t, u)]
      BY <2>9 DEF RecordSuccess
    <3> QED
      BY <1>t, <2>1, <2>3, <3>1
  <2>10. ASSUME NEW v \in Requests, NEW t \in Tasks, AppendUnlocked(v, t) PROVE WorkIn(w)'
    BY <1>t, <2>1, <2>4, <2>10 DEF AppendUnlocked
  <2>11. \/ script'[w] = script[w]
         \/ script'[w] = <<>>
         \/ \E t \in Tasks : ChangeStatus(t) \/ RecordSuccess(t)
         \/ \E v \in Requests, t \in Tasks : AppendUnlocked(v, t)
         \/ WriteRow(w) \/ InsertEvent(w)
    BY <1>t DEF Next, vars, writers, DeleteTask, WriterStep, ReadNewest, InsertEvent, WriteRow, Leave,
       Connect, StreamStep, ReadRecord, ReadEvents, Send, EndPoll, Restart
  <2> QED
    BY <2>1, <2>5, <2>6, <2>7, <2>8, <2>9, <2>10, <2>11
<1> QED
  BY <1>1, <1>2 DEF WorkInv

-----------------------------------------------------------------------------
(* What has been sent *)

\* The events sent tell a log up to number k: all of them, in order, once.
Tells(sent, entries, k) ==
  /\ Len(sent) = k
  /\ {sent[i] : i \in 1..Len(sent)} = UpTo(entries, k)
  /\ \A i \in 1..Len(sent) : sent[i].seq = i

\* Before the first message.
LEMMA TellsNothing ==
  ASSUME NEW S \in SUBSET Entries
  PROVE  Tells(<<>>, S, 0)
<1>1. UpTo(S, 0) = {}
  BY DEF UpTo, Entries
<1> QED
  BY <1>1 DEF Tells

\* After one more message: the rest of a page that tells the log up to n.
LEMMA TellsMore ==
  ASSUME NEW S \in SUBSET Entries, Distinct(S), NEW k \in Nat, NEW n \in Nat, k <= n,
         Numbers(UpTo(S, n)) = 1..n, NEW sent \in Seq(Entries), Tells(sent, S, k)
  PROVE  Tells(sent \o InOrder(Unsent(UpTo(S, n), k)), S, n)
<1> DEFINE page == UpTo(S, n)
           new == Unsent(page, k)
           more == InOrder(new)
           all == sent \o more
<1>1. new \in SUBSET Entries /\ Distinct(new)
  BY DEF Unsent, UpTo, Distinct
<1>2. Numbers(new) = (k + 1)..n
  <2>1. \A x : x \in Numbers(new) <=> x \in Numbers(page) /\ x > k
    BY DEF Numbers, Unsent
  <2>2. \A x : x \in (k + 1)..n <=> x \in 1..n /\ x > k
    OBVIOUS
  <2> QED
    BY <2>1, <2>2
<1>3. /\ more \in Seq(Entries) /\ Len(more) = n - k
      /\ {more[i] : i \in 1..(n - k)} = new
      /\ \A i \in 1..(n - k) : more[i].seq = k + i
  BY <1>1, <1>2, ConsecutiveOrder
<1>4. UpTo(S, n) = UpTo(S, k) \cup new
  <2>1. \A e \in S : e.seq \in Nat
    BY DEF Entries
  <2> QED
    BY <2>1 DEF UpTo, Unsent
<1> HIDE DEF new, more, page
<1>5. /\ Len(all) = n
      /\ \A i \in 1..k : all[i] = sent[i]
      /\ \A i \in 1..(n - k) : all[k + i] = more[i]
  <2>0. Len(all) = Len(sent) + Len(more)
    BY <1>3
  <2>1. Len(sent) = k /\ Len(all) = n
    BY <1>3, <2>0 DEF Tells
  <2>2. \A i \in 1..k : i \in 1..Len(sent)
    BY <2>1
  <2>3. \A i \in 1..(n - k) : k + i \in 1..n /\ k + i > Len(sent) /\ (k + i) - Len(sent) = i
    BY <2>1
  <2>4. \A j \in 1..n : all[j] = IF j <= Len(sent) THEN sent[j] ELSE more[j - Len(sent)]
    BY <1>3, <2>1
  <2> QED
    BY <2>1, <2>2, <2>3, <2>4
<1>6. \A i \in 1..n : i \in 1..k \/ (i - k \in 1..(n - k) /\ k + (i - k) = i)
  OBVIOUS
<1> HIDE DEF all
<1>7. ASSUME NEW i \in 1..n PROVE all[i] \in UpTo(S, n) /\ all[i].seq = i
  <2>1. CASE i \in 1..k
    <3>1. all[i] = sent[i] /\ sent[i] \in UpTo(S, k) /\ sent[i].seq = i
      BY <1>5, <2>1 DEF Tells
    <3> QED
      BY <1>4, <3>1
  <2>2. CASE i - k \in 1..(n - k) /\ k + (i - k) = i
    <3>1. all[i] = more[i - k] /\ more[i - k].seq = i /\ more[i - k] \in new
      BY <1>3, <1>5, <2>2
    <3> QED
      BY <1>4, <3>1
  <2> QED
    BY <1>6, <2>1, <2>2
<1>8. ASSUME NEW e \in UpTo(S, n) PROVE \E i \in 1..n : all[i] = e
  <2>1. CASE e \in UpTo(S, k)
    <3>1. PICK i \in 1..k : sent[i] = e
      BY <2>1 DEF Tells
    <3> QED
      BY <1>5, <3>1
  <2>2. CASE e \in new
    <3>1. PICK i \in 1..(n - k) : more[i] = e
      BY <1>3, <2>2
    <3>2. k + i \in 1..n
      OBVIOUS
    <3> QED
      BY <1>5, <3>1, <3>2
  <2> QED
    BY <1>4, <2>1, <2>2
<1>9. {all[i] : i \in 1..n} = UpTo(S, n)
  BY <1>7, <1>8
<1> QED
  BY <1>5, <1>7, <1>9 DEF Tells, all, more, new, page

\* What was told of a log stays told when it grows.
LEMMA ToldStays ==
  ASSUME WriterInv, NEW t \in Tasks, status[t] # "purged", Grows(t),
         NEW n \in Nat, n <= Newest(log[t])
  PROVE  UpTo(log'[t], n) = UpTo(log[t], n)
<1>1. Newest(log[t]) \in Nat
  BY WholeNewest DEF WriterInv
<1>2. ASSUME NEW k, log'[t] = log[t] \cup {[seq |-> Newest(log[t]) + 1, kind |-> k]}
      PROVE  UpTo(log'[t], n) = UpTo(log[t], n)
  <2> DEFINE new == [seq |-> Newest(log[t]) + 1, kind |-> k]
  <2>1. new.seq = Newest(log[t]) + 1 /\ ~(new.seq <= n)
    BY <1>1
  <2> HIDE DEF new
  <2> QED
    BY <1>2, <2>1 DEF UpTo, new
<1> QED
  BY <1>2 DEF Grows

\* A whole log is told by its newest number.
LEMMA WholeIsTold ==
  ASSUME NEW S, Whole(S)
  PROVE  UpTo(S, Newest(S)) = S
<1>1. Newest(S) \in Nat /\ Numbers(S) = 1..Newest(S)
  BY WholeNewest
<1> QED
  BY <1>1 DEF UpTo, Numbers

-----------------------------------------------------------------------------
(* The streams *)

\* The statuses a stream reads: it ends when there is no record.
Read == Active \cup Final \cup {None}

Fields ==
  [about : Tasks \cup {None}, reads : 0..2, row : Read, page : SUBSET Entries, lastSeq : Nat,
   lastStatus : Read, polls : 0..MaxPolls, sent : Seq(Entries), owed : Nat]

StreamTypes ==
  /\ local \in [Streams -> Fields]
  /\ place \in [Streams -> {"closed", "open", "sent", "ended"}]

LEMMA FieldTypes ==
  ASSUME NEW my \in Fields
  PROVE  /\ my.about \in Tasks \cup {None} /\ my.reads \in 0..2 /\ my.page \in SUBSET Entries
         /\ my.row \in Read /\ my.lastSeq \in Nat /\ my.lastStatus \in Read
         /\ my.polls \in 0..MaxPolls /\ my.sent \in Seq(Entries) /\ my.owed \in Nat
BY DEF Fields

LEMMA FreshFields ==
  /\ Fresh \in Fields /\ Fresh.reads = 0 /\ Fresh.page = {} /\ Fresh.lastSeq = 0
  /\ Fresh.sent = <<>> /\ Fresh.lastStatus = None
<1>1. <<>> \in Seq(Entries) /\ 0 \in 0..MaxPolls
  BY StreamAssumption
<1> QED
  BY <1>1 DEF Fresh, Fields, Read

\* The task of a stream, and its page.
AboutOf(s) ==
  /\ place[s] = "closed" => local[s] = Fresh
  /\ place[s] \in {"open", "sent"} =>
       local[s].about \in Tasks /\ status[local[s].about] # "absent"
  /\ Topped(local[s].page) /\ Distinct(local[s].page)

\* What each step of a stream does to its locals.
Same(s) ==
  /\ local'[s].about = local[s].about /\ local'[s].sent = local[s].sent
  /\ local'[s].lastSeq = local[s].lastSeq /\ local'[s].lastStatus = local[s].lastStatus

Connects(s) ==
  /\ place[s] = "closed" /\ place'[s] = "open"
  /\ local'[s].about \in Tasks /\ status[local'[s].about] # "absent"
  /\ local'[s].reads = 0 /\ local'[s].page = {} /\ local'[s].lastSeq = 0
  /\ local'[s].sent = <<>> /\ local'[s].lastStatus = None

Ends(s) == place[s] \in {"open", "sent"} /\ place'[s] = "ended" /\ local'[s] = Fresh

ReadsRecord(s) ==
  /\ place[s] = "open" /\ place'[s] = "open"
  /\ local[s].reads = 0 /\ local'[s].reads = 1
  /\ local'[s].row = status[local[s].about] /\ local'[s].owed = earlier[local[s].about]
  /\ local'[s].page = local[s].page /\ local'[s].polls = local[s].polls
  /\ Same(s)

ReadsEvents(s) ==
  /\ place[s] = "open" /\ place'[s] = "open"
  /\ local[s].reads = 1 /\ local'[s].reads = 2
  /\ local'[s].row = local[s].row /\ local'[s].owed = local[s].owed
  /\ local'[s].page = log[local[s].about] /\ local'[s].polls = local[s].polls
  /\ Same(s)

Sends(s) ==
  LET new == Unsent(local[s].page, local[s].lastSeq) IN
  /\ place[s] = "open" /\ place'[s] = "sent"
  /\ local[s].reads = 2
  /\ local'[s].about = local[s].about /\ local'[s].owed = local[s].owed
  /\ local'[s].page = local[s].page /\ local'[s].polls = local[s].polls
  /\ \/ new = {} /\ Same(s)
     \/ /\ local'[s].sent = local[s].sent \o InOrder(new)
        /\ local'[s].lastSeq =
             (IF local[s].page = {} THEN local[s].lastSeq ELSE Newest(local[s].page))
        /\ local'[s].lastStatus = local[s].row

GoesOn(s) ==
  /\ place[s] = "sent" /\ place'[s] = "open"
  /\ local'[s].reads = 0 /\ local'[s].page = {}
  /\ local'[s].polls = local[s].polls + 1 /\ local'[s].polls < MaxPolls
  /\ Same(s)

Moves(s) ==
  /\ UNCHANGED <<status, log, script, slot, earlier>>
  /\ StreamTypes'
  /\ \A v \in Streams \ {s} : local'[v] = local[v] /\ place'[v] = place[v]
  /\ Connects(s) \/ Ends(s) \/ ReadsRecord(s) \/ ReadsEvents(s) \/ Sends(s) \/ GoesOn(s)

\* A page with a newest event and no number twice can be put in order.
LEMMA PageInOrder ==
  ASSUME NEW page \in SUBSET Entries, Topped(page), Distinct(page), NEW k \in Nat
  PROVE  InOrder(Unsent(page, k)) \in Seq(Entries)
<1> DEFINE new == Unsent(page, k)
<1>1. new \in SUBSET page /\ new \in SUBSET Entries /\ Distinct(new)
  BY DEF Unsent, Distinct
<1>2. Newest(page) \in Nat /\ Numbers(page) \in SUBSET Nat
      /\ \A n \in Numbers(page) : n <= Newest(page)
  BY NewestTypes DEF Numbers, Entries
<1>3. IsFiniteSet(Numbers(page))
  BY <1>2, FS_BoundedSetOfNaturals
<1>4. IsFiniteSet(page)
  BY <1>3, SameCount
<1> HIDE DEF new
<1>5. IsFiniteSet(new)
  BY <1>1, <1>4, FS_Subset
<1> QED
  BY <1>1, <1>5, OrderLaws DEF new

LEMMA StreamMoves ==
  ASSUME WriterInv, StreamTypes, NEW s \in Streams, AboutOf(s),
         (\E t \in Tasks : Connect(s, t)) \/ StreamStep(s)
  PROVE  Moves(s)
<1> DEFINE my == local[s]
<1>t. /\ my \in Fields /\ local \in [Streams -> Fields]
      /\ place \in [Streams -> {"closed", "open", "sent", "ended"}]
      /\ status \in [Tasks -> Statuses] /\ log \in [Tasks -> SUBSET Entries]
      /\ earlier \in [Tasks -> Nat]
  BY DEF StreamTypes, WriterInv, WriterTypes
<1>f. /\ my.about \in Tasks \cup {None} /\ my.reads \in 0..2 /\ my.page \in SUBSET Entries
      /\ my.lastSeq \in Nat /\ my.polls \in 0..MaxPolls /\ my.owed \in Nat /\ my.row \in Read
      /\ my.sent \in Seq(Entries)
  BY <1>t, FieldTypes
<1>o. Len(ReadOrder) = 2 /\ ReadOrder[1] = "record" /\ ReadOrder[2] = "events"
  BY DEF ReadOrder
<1>w. UNCHANGED <<status, log, script, slot, earlier>>
  BY DEF writers, streams, Connect, StreamStep, ReadRecord, ReadEvents, Send, EndPoll
\* Whatever the locals become: the rest is a matter of each step.
<1>l. ASSUME NEW r \in Fields, local' = [local EXCEPT ![s] = r],
             NEW p \in {"open", "sent", "ended"}, place' = [place EXCEPT ![s] = p],
             local'[s] = r /\ place'[s] = p =>
               Connects(s) \/ Ends(s) \/ ReadsRecord(s) \/ ReadsEvents(s) \/ Sends(s) \/ GoesOn(s)
      PROVE  Moves(s)
  <2>1. StreamTypes' /\ local'[s] = r /\ place'[s] = p
    BY <1>l, <1>t DEF StreamTypes
  <2> QED
    BY <1>l, <1>t, <1>w, <2>1 DEF Moves
<1>1. ASSUME NEW t \in Tasks, Connect(s, t) PROVE Moves(s)
  <2> DEFINE r == [my EXCEPT !.about = t]
  <2>1. /\ local' = [local EXCEPT ![s] = r] /\ place' = [place EXCEPT ![s] = "open"]
        /\ place[s] = "closed" /\ status[t] # "absent"
    BY <1>1, <1>t DEF Connect
  <2>2. my = Fresh
    BY <2>1 DEF AboutOf
  <2>3. /\ r \in Fields /\ r.about = t /\ r.reads = my.reads /\ r.page = my.page
        /\ r.lastSeq = my.lastSeq /\ r.sent = my.sent /\ r.lastStatus = my.lastStatus
    BY <1>t DEF Fields
  <2> HIDE DEF r
  <2>4. local'[s] = r /\ place'[s] = "open" => Connects(s)
    BY <2>1, <2>2, <2>3, FreshFields DEF Connects
  <2> QED
    BY <1>l, <2>1, <2>3, <2>4
<1>2. ASSUME End(s), place[s] \in {"open", "sent"} PROVE Moves(s)
  <2>1. local' = [local EXCEPT ![s] = Fresh] /\ place' = [place EXCEPT ![s] = "ended"]
    BY <1>2 DEF End
  <2>2. local'[s] = Fresh /\ place'[s] = "ended" => Ends(s)
    BY <1>2 DEF Ends
  <2> QED
    BY <1>l, <2>1, <2>2, FreshFields
<1>3. ASSUME ReadRecord(s), ~End(s) PROVE Moves(s)
  <2> DEFINE i == my.reads + 1
             u == status[my.about]
             n == earlier[my.about]
             r == [my EXCEPT !.reads = i, !.row = u, !.owed = n]
  <2>1. my.reads = 0 /\ place[s] = "open" /\ my.about \in Tasks /\ u \notin {"purged", "absent"}
    BY <1>3, <1>o, <1>f, <1>t DEF ReadRecord, Reading, AboutOf
  <2>2. local' = [local EXCEPT ![s] = r] /\ place' = place
    BY <1>3, <2>1 DEF ReadRecord
  <2>3. n \in Nat /\ u \in Read /\ i \in 0..2 /\ i = 1
    BY <1>t, <2>1 DEF Statuses, Read
  <2> HIDE DEF u, n, i, my
  <2>4. /\ r \in Fields /\ r.about = my.about /\ r.reads = i /\ r.row = u /\ r.owed = n
        /\ r.page = my.page /\ r.lastSeq = my.lastSeq /\ r.sent = my.sent
        /\ r.lastStatus = my.lastStatus /\ r.polls = my.polls
    BY <1>t, <2>3 DEF Fields
  <2> HIDE DEF r
  <2>5. place' = [place EXCEPT ![s] = "open"]
    BY <1>t, <2>1, <2>2
  <2>6. local'[s] = r /\ place'[s] = "open" => ReadsRecord(s)
    BY <2>1, <2>3, <2>4 DEF ReadsRecord, Same, u, n, my
  <2> QED
    BY <1>l, <2>2, <2>4, <2>5, <2>6
<1>4. ASSUME ReadEvents(s) PROVE Moves(s)
  <2> DEFINE i == my.reads + 1
             page == log[my.about]
             r == [my EXCEPT !.reads = i, !.page = page]
  <2>1. my.reads = 1 /\ place[s] = "open" /\ my.about \in Tasks
    BY <1>4, <1>o, <1>f, <1>t DEF ReadEvents, Reading, AboutOf
  <2>2. local' = [local EXCEPT ![s] = r] /\ place' = place
    BY <1>4, <2>1 DEF ReadEvents
  <2>3. page \in SUBSET Entries /\ i \in 0..2 /\ i = 2
    BY <1>t, <2>1
  <2> HIDE DEF page, i, my
  <2>4. /\ r \in Fields /\ r.about = my.about /\ r.reads = i /\ r.row = my.row
        /\ r.owed = my.owed /\ r.page = page /\ r.lastSeq = my.lastSeq /\ r.sent = my.sent
        /\ r.lastStatus = my.lastStatus /\ r.polls = my.polls
    BY <1>t, <2>3 DEF Fields
  <2> HIDE DEF r
  <2>5. place' = [place EXCEPT ![s] = "open"]
    BY <1>t, <2>1, <2>2
  <2>6. local'[s] = r /\ place'[s] = "open" => ReadsEvents(s)
    BY <2>1, <2>3, <2>4 DEF ReadsEvents, Same, page, my
  <2> QED
    BY <1>l, <2>2, <2>4, <2>5, <2>6
<1>5. ASSUME Send(s) PROVE Moves(s)
  <2> DEFINE new == Unsent(my.page, my.lastSeq)
             m == IF my.page = {} THEN my.lastSeq ELSE Newest(my.page)
             all == my.sent \o InOrder(new)
             r == [my EXCEPT !.sent = all, !.lastSeq = m, !.lastStatus = my.row]
  <2>1. my.reads = 2 /\ place[s] = "open" /\ my.about \in Tasks
        /\ place' = [place EXCEPT ![s] = "sent"]
    BY <1>5, <1>o, <1>f, <1>t DEF Send, AboutOf
  <2>2. (new = {} /\ local' = local) \/ local' = [local EXCEPT ![s] = r]
    BY <1>5 DEF Send
  <2>3. CASE new = {} /\ local' = local
    <3>1. local' = [local EXCEPT ![s] = my]
      BY <1>t, <2>3
    <3>2. local'[s] = my /\ place'[s] = "sent" => Sends(s)
      BY <2>1, <2>3 DEF Sends, Same
    <3> QED
      BY <1>l, <1>t, <2>1, <3>1, <3>2
  <2>4. CASE local' = [local EXCEPT ![s] = r]
    <3>1. InOrder(new) \in Seq(Entries) /\ Newest(my.page) \in Nat
      BY <1>f, PageInOrder, NewestTypes DEF AboutOf
    <3>2. all \in Seq(Entries) /\ m \in Nat
      BY <1>f, <3>1
    <3> HIDE DEF all, m
    <3>3. /\ r \in Fields /\ r.about = my.about /\ r.sent = all /\ r.lastSeq = m
          /\ r.lastStatus = my.row /\ r.owed = my.owed /\ r.page = my.page
          /\ r.polls = my.polls
      BY <1>t, <1>f, <3>2 DEF Fields
    <3> HIDE DEF r
    <3>4. local'[s] = r /\ place'[s] = "sent" => Sends(s)
      BY <2>1, <3>3 DEF Sends, all, m
    <3> QED
      BY <1>l, <2>1, <2>4, <3>3, <3>4
  <2> QED
    BY <2>2, <2>3, <2>4
<1>6. ASSUME EndPoll(s), ~End(s) PROVE Moves(s)
  <2> DEFINE n == IF my.polls < MaxPolls THEN my.polls + 1 ELSE my.polls
             i == 0
             u == None
             page == {}
             r == [my EXCEPT !.reads = i, !.row = u, !.page = page, !.polls = n]
  <2>1. /\ place[s] = "sent" /\ place' = [place EXCEPT ![s] = "open"]
        /\ local' = [local EXCEPT ![s] = r] /\ ~(my.polls + 1 >= MaxPolls)
    BY <1>6 DEF EndPoll, OutOfPolls
  <2>2. /\ n \in 0..MaxPolls /\ i \in 0..2 /\ i = 0 /\ u \in Read
        /\ page \in SUBSET Entries /\ page = {} /\ n = my.polls + 1 /\ n < MaxPolls
    BY <1>f, <2>1, StreamAssumption DEF Read
  <2> HIDE DEF n, i, u, page, my
  <2>3. /\ r \in Fields /\ r.about = my.about /\ r.reads = i /\ r.page = page
        /\ r.lastSeq = my.lastSeq /\ r.sent = my.sent /\ r.lastStatus = my.lastStatus
        /\ r.polls = n
    BY <1>t, <2>2 DEF Fields
  <2> HIDE DEF r
  <2>4. local'[s] = r /\ place'[s] = "open" => GoesOn(s)
    BY <2>1, <2>2, <2>3 DEF GoesOn, Same, my
  <2> QED
    BY <1>l, <2>1, <2>3, <2>4
<1>7. StreamStep(s) => place[s] \in {"open", "sent"}
  BY DEF StreamStep, ReadRecord, ReadEvents, Reading, Send, EndPoll
<1> QED
  BY <1>1, <1>2, <1>3, <1>4, <1>5, <1>6, <1>7 DEF StreamStep

-----------------------------------------------------------------------------
(* The invariant of the streams *)

\* A stream of a task that has not been purged.
Talks(s) == place[s] \in {"open", "sent"} /\ status[local[s].about] # "purged"

HasPage(s) == place[s] = "open" /\ local[s].reads = 2

\* What the status it has read obliges a stream to send is in the log when it
\* has read the record, in its page when it has read the events, and sent.
OwedOf(s) ==
  LET my == local[s] IN
  Talks(s) =>
    /\ place[s] = "open" /\ my.reads # 0 => my.owed <= Newest(log[my.about])
    /\ HasPage(s) => my.owed <= Newest(my.page)
    /\ place[s] = "sent" => my.owed <= my.lastSeq

\* What was sent, and what a page holds, is the log up to a number.
SentOf(s) ==
  LET my  == local[s]
      all == log[my.about]
  IN
  Talks(s) =>
    /\ my.lastSeq <= Newest(all) /\ Tells(my.sent, all, my.lastSeq)
    /\ HasPage(s) =>
         /\ Whole(my.page) /\ my.lastSeq <= Newest(my.page) /\ Newest(my.page) <= Newest(all)
         /\ my.page = UpTo(all, Newest(my.page))

\* The changes that completed a task are in the log, in the page, and sent,
\* unless it was a conversation.
ShownOf(s) ==
  LET my == local[s] IN
  Talks(s) /\ my.about \notin TalkTasks =>
    /\ place[s] = "open" /\ my.reads # 0 /\ my.row = "completed" => Changed(log[my.about])
    /\ HasPage(s) /\ my.row = "completed" => Changed(my.page)
    /\ my.lastStatus = "completed" =>
         \E i \in 1..Len(my.sent) : my.sent[i].kind = "files_changed"

StreamInv ==
  /\ StreamTypes
  /\ \A s \in Streams : AboutOf(s) /\ OwedOf(s) /\ SentOf(s) /\ ShownOf(s)

LEMMA InitStream == Init => StreamInv
<1> SUFFICES ASSUME Init PROVE StreamInv
  OBVIOUS
<1>1. \A s \in Streams : local[s] = Fresh /\ place[s] = "closed"
  BY DEF Init
<1>2. StreamTypes
  BY FreshFields DEF Init, StreamTypes
<1>3. \A s \in Streams : AboutOf(s)
  BY <1>1, FreshFields, EmptyIsWhole DEF AboutOf
<1>4. \A s \in Streams : OwedOf(s) /\ SentOf(s) /\ ShownOf(s)
  BY <1>1 DEF OwedOf, SentOf, ShownOf, Talks
<1> QED
  BY <1>2, <1>3, <1>4 DEF StreamInv

\* A task is accepted once.
LEMMA AbsentIsPast ==
  ASSUME WriterInv, [Next]_vars, NEW t \in Tasks, status[t] # "absent"
  PROVE  status'[t] # "absent"
<1>t. status \in [Tasks -> Statuses] /\ script \in [Threads -> Seq(Items)]
  BY DEF WriterInv, WriterTypes
<1>1. ASSUME NEW d \in Tasks, ChangeStatus(d) PROVE status'[t] # "absent"
  BY <1>1, <1>t, FollowsTypes DEF ChangeStatus, Active, Final
<1>2. ASSUME NEW w \in Threads, WriteRow(w) PROVE status'[t] # "absent"
  <2>1. Head(script[w]) \in Items /\ Head(script[w]).do = "status"
    BY <1>t, <1>2 DEF WriteRow, Idle
  <2>2. Head(script[w]).arg # "absent"
    BY <2>1 DEF Items, Active, Final
  <2> QED
    BY <1>t, <1>2, <2>2 DEF WriteRow
<1> QED
  BY <1>1, <1>2, <1>t DEF Next, vars, RecordSuccess, DeleteTask, AppendUnlocked, WriterStep, ReadNewest,
     InsertEvent, Connect, StreamStep, ReadRecord, ReadEvents, Send, EndPoll, Restart

-----------------------------------------------------------------------------
(* A step that leaves a stream alone: its log can only have grown *)

LEMMA OthersStay ==
  ASSUME WriterInv, StreamInv, [Next]_vars, NEW s \in Streams,
         local'[s] = local[s], place'[s] = place[s]
  PROVE  AboutOf(s)' /\ OwedOf(s)' /\ SentOf(s)' /\ ShownOf(s)'
<1> DEFINE my == local[s]
           t == my.about
<1>1. AboutOf(s) /\ OwedOf(s) /\ SentOf(s) /\ ShownOf(s) /\ my \in Fields
  BY DEF StreamInv, StreamTypes
<1>f. my.lastSeq \in Nat /\ my.owed \in Nat
  BY <1>1, FieldTypes
<1>2. AboutOf(s)'
  BY <1>1, AbsentIsPast DEF AboutOf
<1>3. CASE ~Talks(s)'
  BY <1>2, <1>3 DEF OwedOf, SentOf, ShownOf
<1>4. CASE Talks(s)'
  <2>1. t \in Tasks /\ status'[t] # "purged" /\ place[s] \in {"open", "sent"}
    BY <1>1, <1>4 DEF Talks, AboutOf
  <2>2. status[t] # "purged"
    BY <2>1, PurgedIsGone
  <2>3. Talks(s) /\ Grows(t)
    BY <2>1, <2>2, LogGrows DEF Talks
  <2>4. /\ Newest(log[t]) <= Newest(log'[t]) /\ Newest(log[t]) \in Nat
        /\ Newest(log'[t]) \in Nat
    BY <2>1, <2>2, NextLog, WholeNewest DEF WriterInv
  <2>5. OwedOf(s)'
    BY <1>1, <1>f, <2>3, <2>4 DEF OwedOf, HasPage
  <2>6. \A n \in Nat : n <= Newest(log[t]) => UpTo(log'[t], n) = UpTo(log[t], n)
    BY <2>1, <2>2, <2>3, ToldStays
  <2>7. SentOf(s)'
    <3> USE DEF SentOf, HasPage
    <3>1. my.lastSeq <= Newest(log[t]) /\ Tells(my.sent, log[t], my.lastSeq)
      BY <1>1, <2>3
    <3>2. my.lastSeq <= Newest(log'[t]) /\ Tells(my.sent, log'[t], my.lastSeq)
      BY <1>f, <2>4, <2>6, <3>1 DEF Tells
    <3>3. ASSUME HasPage(s)
          PROVE  /\ Whole(my.page) /\ my.lastSeq <= Newest(my.page)
                 /\ Newest(my.page) <= Newest(log'[t])
                 /\ my.page = UpTo(log'[t], Newest(my.page))
      <4>1. /\ Whole(my.page) /\ my.lastSeq <= Newest(my.page)
            /\ Newest(my.page) <= Newest(log[t]) /\ my.page = UpTo(log[t], Newest(my.page))
        BY <1>1, <2>3, <3>3
      <4>2. Newest(my.page) \in Nat
        BY <4>1, WholeNewest
      <4> QED
        BY <2>4, <2>6, <4>1, <4>2
    <3> QED
      BY <3>2, <3>3
  <2>8. ShownOf(s)'
    <3>1. t \notin TalkTasks /\ Changed(log[t]) => Changed(log'[t])
      BY <2>1, <2>2, DoneStays DEF Done
    <3> QED
      BY <1>1, <2>3, <3>1 DEF ShownOf, HasPage
  <2> QED
    BY <1>2, <2>5, <2>7, <2>8
<1> QED
  BY <1>3, <1>4

-----------------------------------------------------------------------------
(* The steps of a stream *)

LEMMA MovesAbout ==
  ASSUME WriterInv, StreamInv, NEW s \in Streams, Moves(s)
  PROVE  AboutOf(s)'
<1>1. AboutOf(s) /\ UNCHANGED <<status, log>>
  BY DEF StreamInv, Moves
<1>2. CASE Connects(s)
  BY <1>1, <1>2, EmptyIsWhole DEF Connects, AboutOf
<1>3. CASE Ends(s)
  BY <1>3, FreshFields, EmptyIsWhole DEF Ends, AboutOf
<1>4. CASE ReadsRecord(s)
  BY <1>1, <1>4 DEF ReadsRecord, Same, AboutOf
<1>5. CASE ReadsEvents(s)
  <2>1. local[s].about \in Tasks
    BY <1>1, <1>5 DEF AboutOf, ReadsEvents
  <2>2. Topped(log[local[s].about]) /\ Distinct(log[local[s].about])
    BY <2>1 DEF WriterInv
  <2> QED
    BY <1>1, <1>5, <2>2 DEF ReadsEvents, Same, AboutOf
<1>6. CASE Sends(s)
  BY <1>1, <1>6 DEF Sends, Same, AboutOf
<1>7. CASE GoesOn(s)
  BY <1>1, <1>7, EmptyIsWhole DEF GoesOn, Same, AboutOf
<1> QED
  BY <1>2, <1>3, <1>4, <1>5, <1>6, <1>7 DEF Moves

\* What a stream may rely on when it talks of a task.
LEMMA MovesTalk ==
  ASSUME WriterInv, StreamInv, NEW s \in Streams, Moves(s), Talks(s)'
  PROVE  LET t == local'[s].about IN
         /\ UNCHANGED <<status, log>> /\ t \in Tasks /\ status[t] # "purged"
         /\ log[t] \in SUBSET Entries /\ Distinct(log[t]) /\ Whole(log[t])
         /\ Newest(log[t]) \in Nat /\ Numbers(log[t]) = 1..Newest(log[t])
         /\ earlier[t] <= Newest(log[t])
         /\ Connects(s) \/ (local'[s].about = local[s].about /\ Talks(s))
<1> DEFINE t == local'[s].about
<1>1. UNCHANGED <<status, log>> /\ AboutOf(s)'
  BY MovesAbout DEF Moves
<1>2. t \in Tasks /\ status[t] # "purged" /\ place'[s] \in {"open", "sent"}
  BY <1>1 DEF AboutOf, Talks
<1>3. /\ log[t] \in SUBSET Entries /\ Distinct(log[t]) /\ Whole(log[t])
      /\ earlier[t] <= Newest(log[t])
  BY <1>2 DEF WriterInv, WriterTypes
<1>4. Connects(s) \/ (local'[s].about = local[s].about /\ Talks(s))
  BY <1>2 DEF Moves, Ends, ReadsRecord, ReadsEvents, Sends, GoesOn, Same, Talks
<1> QED
  BY <1>1, <1>2, <1>3, <1>4, WholeNewest

LEMMA MovesOwed ==
  ASSUME WriterInv, StreamInv, NEW s \in Streams, Moves(s)
  PROVE  OwedOf(s)'
<1> SUFFICES ASSUME Talks(s)' PROVE OwedOf(s)'
  BY DEF OwedOf
<1> DEFINE my == local[s]
           t == my.about
<1>1. OwedOf(s) /\ SentOf(s) /\ AboutOf(s) /\ my \in Fields
  BY DEF StreamInv, StreamTypes
<1>f. my.lastSeq \in Nat /\ my.owed \in Nat /\ my.page \in SUBSET Entries
  BY <1>1, FieldTypes
<1>u. UNCHANGED <<status, log>> /\ (Connects(s) \/ (local'[s].about = t /\ Talks(s)))
  BY MovesTalk
<1>2. CASE Connects(s)
  BY <1>2 DEF Connects, OwedOf, HasPage
<1>3. CASE ReadsRecord(s) /\ Talks(s)
  <2>1. earlier[t] <= Newest(log[t])
    BY <1>3, MovesTalk DEF ReadsRecord, Same
  <2> QED
    BY <1>3, <1>u, <2>1 DEF ReadsRecord, Same, OwedOf, HasPage
<1>4. CASE ReadsEvents(s) /\ Talks(s)
  BY <1>1, <1>4, <1>u DEF ReadsEvents, Same, OwedOf, HasPage
<1>5. CASE Sends(s) /\ Talks(s)
  <2>1. my.owed <= Newest(my.page) /\ Whole(my.page)
    BY <1>1, <1>5 DEF Sends, OwedOf, SentOf, HasPage
  <2>2. Newest(my.page) \in Nat /\ Numbers(my.page) = 1..Newest(my.page)
    BY <2>1, WholeNewest
  <2>3. CASE Unsent(my.page, my.lastSeq) = {} /\ Same(s)
    <3>1. \A n \in 1..Newest(my.page) : n <= my.lastSeq
      BY <1>f, <2>2, <2>3 DEF Unsent, Numbers, Entries
    <3>2. Newest(my.page) <= my.lastSeq
      BY <1>f, <2>2, <3>1
    <3>3. my.owed <= my.lastSeq
      BY <1>f, <2>1, <2>2, <3>2
    <3> QED
      BY <1>5, <2>3, <3>3 DEF Sends, Same, OwedOf, HasPage
  <2>4. CASE local'[s].lastSeq = (IF my.page = {} THEN my.lastSeq ELSE Newest(my.page))
    <3>0. my.page = {} => Newest(my.page) = 0
      BY EmptyIsWhole
    <3>1. my.owed <= local'[s].lastSeq
      BY <1>f, <2>1, <2>2, <2>4, <3>0
    <3> QED
      BY <1>5, <3>1 DEF Sends, OwedOf, HasPage
  <2> QED
    BY <1>5, <2>3, <2>4 DEF Sends
<1>6. CASE GoesOn(s)
  BY <1>6 DEF GoesOn, OwedOf, HasPage
<1>7. ~Ends(s)
  BY DEF Ends, Talks
<1> QED
  BY <1>2, <1>3, <1>4, <1>5, <1>6, <1>7, <1>u DEF Moves, Connects

LEMMA MovesSent ==
  ASSUME WriterInv, StreamInv, NEW s \in Streams, Moves(s)
  PROVE  SentOf(s)'
<1> SUFFICES ASSUME Talks(s)' PROVE SentOf(s)'
  BY DEF SentOf
<1> DEFINE my == local[s]
           t == my.about
           u == local'[s].about
<1>1. SentOf(s) /\ AboutOf(s) /\ my \in Fields
  BY DEF StreamInv, StreamTypes
<1>f. /\ my.lastSeq \in Nat /\ my.sent \in Seq(Entries) /\ my.page \in SUBSET Entries
  BY <1>1, FieldTypes
<1>u. /\ UNCHANGED <<status, log>> /\ u \in Tasks
      /\ log[u] \in SUBSET Entries /\ Distinct(log[u]) /\ Whole(log[u]) /\ Newest(log[u]) \in Nat
      /\ Connects(s) \/ (u = t /\ Talks(s))
  BY MovesTalk
<1> USE DEF SentOf, HasPage
<1>2. CASE Connects(s)
  <2>1. Tells(<<>>, log[u], 0)
    BY <1>u, TellsNothing
  <2> QED
    BY <1>2, <1>u, <2>1 DEF Connects
<1>3. CASE ReadsRecord(s) /\ Talks(s)
  BY <1>1, <1>3, <1>u DEF ReadsRecord, Same
<1>4. CASE ReadsEvents(s) /\ Talks(s)
  <2>1. u = t
    BY <1>4 DEF ReadsEvents, Same
  <2>2. UpTo(log[t], Newest(log[t])) = log[t]
    BY <1>u, <2>1, WholeIsTold
  <2> QED
    BY <1>1, <1>4, <1>u, <2>1, <2>2 DEF ReadsEvents, Same
<1>5. CASE Sends(s) /\ Talks(s)
  <2> DEFINE n == Newest(my.page)
             new == Unsent(my.page, my.lastSeq)
             m == IF my.page = {} THEN my.lastSeq ELSE n
  <2>1. u = t
    BY <1>5 DEF Sends
  <2>2. /\ Whole(my.page) /\ my.lastSeq <= n /\ n <= Newest(log[t])
        /\ my.page = UpTo(log[t], n)
        /\ my.lastSeq <= Newest(log[t]) /\ Tells(my.sent, log[t], my.lastSeq)
    BY <1>1, <1>5 DEF Sends
  <2>3. CASE new = {} /\ Same(s)
    BY <1>5, <1>u, <2>1, <2>2, <2>3 DEF Sends, Same
  <2>4. CASE local'[s].sent = my.sent \o InOrder(new) /\ local'[s].lastSeq = m
    <3>1. n \in Nat /\ Numbers(my.page) = 1..n
      BY <2>2, WholeNewest
    <3>0. my.page = {} => n = 0
      BY EmptyIsWhole
    <3>2. m = n
      BY <1>f, <2>2, <3>0, <3>1
    <3> HIDE DEF n, m
    <3>3. Numbers(UpTo(log[t], n)) = 1..n
      BY <2>2, <3>1
    <3>4. Tells(my.sent \o InOrder(Unsent(UpTo(log[t], n), my.lastSeq)), log[t], n)
      BY <1>f, <1>u, <2>1, <2>2, <3>1, <3>3, TellsMore
    <3>5. Tells(local'[s].sent, log[t], n)
      BY <2>2, <2>4, <3>4
    <3> QED
      BY <1>5, <1>u, <2>1, <2>2, <2>4, <3>2, <3>5 DEF Sends
  <2> QED
    BY <1>5, <2>3, <2>4 DEF Sends
<1>6. CASE GoesOn(s) /\ Talks(s)
  BY <1>1, <1>6, <1>u DEF GoesOn, Same
<1>7. ~Ends(s)
  BY DEF Ends, Talks
<1> QED
  BY <1>2, <1>3, <1>4, <1>5, <1>6, <1>7, <1>u DEF Moves

LEMMA MovesShown ==
  ASSUME WriterInv, WorkInv, StreamInv, NEW s \in Streams, Moves(s)
  PROVE  ShownOf(s)'
<1> SUFFICES ASSUME Talks(s)', local'[s].about \notin TalkTasks PROVE ShownOf(s)'
  BY DEF ShownOf
<1> DEFINE my == local[s]
           t == my.about
<1>1. ShownOf(s) /\ SentOf(s) /\ AboutOf(s) /\ my \in Fields
  BY DEF StreamInv, StreamTypes
<1>u. /\ UNCHANGED <<status, log>> /\ local'[s].about \in Tasks
      /\ Connects(s) \/ (local'[s].about = t /\ Talks(s))
  BY MovesTalk
<1> USE DEF ShownOf, HasPage
<1>2. CASE Connects(s)
  <2>1. None # "completed"
    BY StreamAssumption DEF Final
  <2> QED
    BY <1>2, <2>1 DEF Connects
<1>3. CASE ReadsRecord(s) /\ Talks(s)
  <2>1. status[t] = "completed" => Changed(log[t])
    BY <1>3, <1>u DEF WorkInv, ReadsRecord, Same
  <2> QED
    BY <1>1, <1>3, <1>u, <2>1 DEF ReadsRecord, Same
<1>4. CASE ReadsEvents(s) /\ Talks(s)
  BY <1>1, <1>4, <1>u DEF ReadsEvents, Same
<1>5. CASE Sends(s) /\ Talks(s)
  <2>1. CASE Same(s)
    BY <1>1, <1>5, <2>1 DEF Sends, Same
  <2>2. CASE local'[s].lastStatus = my.row
             /\ local'[s].lastSeq = (IF my.page = {} THEN my.lastSeq ELSE Newest(my.page))
    <3> SUFFICES ASSUME my.row = "completed"
                 PROVE  \E i \in 1..Len(local'[s].sent) : local'[s].sent[i].kind = "files_changed"
      BY <1>5, <2>2 DEF Sends
    <3>1. Changed(my.page) /\ my.page = UpTo(log[t], Newest(my.page))
      BY <1>1, <1>5 DEF Sends, SentOf
    <3>2. PICK e \in my.page : e.kind = "files_changed"
      BY <3>1 DEF Changed
    <3>3. local'[s].lastSeq = Newest(my.page)
      BY <2>2, <3>2
    <3>4. SentOf(s)'
      BY MovesSent
    <3>5. {local'[s].sent[i] : i \in 1..Len(local'[s].sent)} = UpTo(log[t], Newest(my.page))
      BY <1>5, <1>u, <3>3, <3>4 DEF Sends, SentOf, Tells
    <3> QED
      BY <3>1, <3>2, <3>5
  <2> QED
    BY <1>5, <2>1, <2>2 DEF Sends
<1>6. CASE GoesOn(s) /\ Talks(s)
  BY <1>1, <1>6 DEF GoesOn, Same
<1>7. ~Ends(s)
  BY DEF Ends, Talks
<1> QED
  BY <1>2, <1>3, <1>4, <1>5, <1>6, <1>7, <1>u DEF Moves

\* A restart ends the streams.
LEMMA RestartEnds ==
  ASSUME Restart
  PROVE  StreamInv'
<1>1. /\ local' = [s \in Streams |-> Fresh]
      /\ place' = [s \in Streams |-> IF place[s] = "closed" THEN "closed" ELSE "ended"]
  BY DEF Restart
<1>2. \A s \in Streams : local'[s] = Fresh /\ place'[s] \in {"closed", "ended"}
  BY <1>1
<1>3. StreamTypes'
  BY <1>1, FreshFields DEF StreamTypes
<1>4. \A s \in Streams : AboutOf(s)'
  BY <1>2, FreshFields, EmptyIsWhole DEF AboutOf
<1>5. \A s \in Streams : OwedOf(s)' /\ SentOf(s)' /\ ShownOf(s)'
  BY <1>2 DEF OwedOf, SentOf, ShownOf, Talks
<1> QED
  BY <1>3, <1>4, <1>5 DEF StreamInv

LEMMA NextStream == WriterInv /\ WorkInv /\ StreamInv /\ [Next]_vars => StreamInv'
<1> SUFFICES ASSUME WriterInv, WorkInv, StreamInv, [Next]_vars PROVE StreamInv'
  OBVIOUS
<1>1. ASSUME NEW s \in Streams, Moves(s) PROVE StreamInv'
  <2>1. \A v \in Streams \ {s} : AboutOf(v)' /\ OwedOf(v)' /\ SentOf(v)' /\ ShownOf(v)'
    BY <1>1, OthersStay DEF Moves
  <2>2. AboutOf(s)' /\ OwedOf(s)' /\ SentOf(s)' /\ ShownOf(s)'
    BY <1>1, MovesAbout, MovesOwed, MovesSent, MovesShown
  <2> QED
    BY <1>1, <2>1, <2>2 DEF Moves, StreamInv
<1>2. CASE local' = local /\ place' = place
  <2>1. \A v \in Streams : AboutOf(v)' /\ OwedOf(v)' /\ SentOf(v)' /\ ShownOf(v)'
    BY <1>2, OthersStay
  <2> QED
    BY <1>2, <2>1 DEF StreamInv, StreamTypes
<1>3. \/ \E s \in Streams : (\E t \in Tasks : Connect(s, t)) \/ StreamStep(s)
      \/ Restart
      \/ local' = local /\ place' = place
  BY DEF Next, vars, streams, ChangeStatus, RecordSuccess, DeleteTask, AppendUnlocked, WriterStep,
     ReadNewest, InsertEvent, WriteRow
<1> QED
  BY <1>1, <1>2, <1>3, StreamMoves, RestartEnds DEF StreamInv

\* Everything above, in every state.
LEMMA AlwaysInv == Spec => [](WriterInv /\ WorkInv /\ StreamInv)
<1>1. Init => WriterInv /\ WorkInv /\ StreamInv
  BY InitWriter, InitWork, InitStream
<1>2. WriterInv /\ WorkInv /\ StreamInv /\ [Next]_vars => (WriterInv /\ WorkInv /\ StreamInv)'
  BY NextWriter, NextWork, NextStream
<1> QED
  BY <1>1, <1>2, PTL DEF Spec

\* A client is never told a status before the events that led there, wherever
\* the writers are between the two reads of a poll.
THEOREM StatusesComeWithHistory == Spec => []StatusComesWithHistory
<1>1. StreamInv => StatusComesWithHistory
  BY DEF StreamInv, OwedOf, Talks, StatusComesWithHistory, Telling, HasRow
<1> QED
  BY <1>1, AlwaysInv, PTL

\* A client is sent the log of its task from the first event on, in order, with
\* nothing left out and nothing twice, however the polls and the writers meet.
THEOREM SentInOrder == Spec => []SentIsPrefix
<1>1. StreamInv => SentIsPrefix
  BY DEF StreamInv, SentOf, Talks, Tells, UpTo, SentIsPrefix, Telling, HasRow
<1> QED
  BY <1>1, AlwaysInv, PTL

\* A client that is told "completed" of a task that was not submitted as talk_only
\* has been sent the files that were changed.
THEOREM CompletedWithChanges == Spec => []CompletedShowsChanges
<1>1. StreamInv => CompletedShowsChanges
  BY DEF StreamInv, ShownOf, Talks, CompletedShowsChanges, Telling, HasRow
<1> QED
  BY <1>1, AlwaysInv, PTL

\* The log, the threads and the streams keep their types.
THEOREM TypeCorrect == Spec => []TypeOK
<1>1. WriterInv /\ StreamInv => TypeOK
  <2> SUFFICES ASSUME WriterInv, StreamInv PROVE TypeOK
    OBVIOUS
  <2>1. Len(ReadOrder) = 2
    BY DEF ReadOrder
  <2>2. \A s \in Streams : local[s] \in Fields
    BY DEF StreamInv, StreamTypes
  <2>3. \A s \in Streams :
          LET my == local[s] IN
          /\ my.about \in Tasks \cup {None} /\ my.reads \in 0..2
          /\ my.row \in Read /\ my.lastStatus \in Read /\ my.page \in SUBSET Entries
          /\ my.sent \in Seq(Entries) /\ my.lastSeq \in Nat /\ my.owed \in Nat
          /\ my.polls \in 0..MaxPolls
    BY <2>2, FieldTypes
  <2> QED
    BY <2>1, <2>3 DEF WriterInv, WriterTypes, StreamInv, StreamTypes, TypeOK, Statuses, Read
<1> QED
  BY <1>1, AlwaysInv, PTL

-----------------------------------------------------------------------------
(* Every stream runs down *)

\* How many steps a stream has before it at most: a poll takes four, and a stream
\* whose message is sent has one left of the poll under way.
StepsLeft(s) ==
  LET polls == 4 * (MaxPolls - local[s].polls) IN
  CASE place[s] = "open"               -> polls + 4 - local[s].reads
    [] place[s] = "sent"               -> polls + 1
    [] place[s] \in {"closed", "ended"} -> 0

LEMMA StepsTypes ==
  ASSUME StreamTypes, NEW s \in Streams
  PROVE  /\ StepsLeft(s) \in 0..(4 * MaxPolls + 4)
         /\ place[s] \in {"open", "sent"} => StepsLeft(s) > 0
<1> DEFINE my == local[s]
<1>1. my.reads \in 0..2 /\ my.polls \in 0..MaxPolls
      /\ place[s] \in {"closed", "open", "sent", "ended"}
  BY FieldTypes DEF StreamTypes
<1> QED
  BY <1>1, StreamAssumption DEF StepsLeft

\* A step of its own brings a stream nearer to its end.
LEMMA MovesDown ==
  ASSUME StreamTypes, NEW s \in Streams, Moves(s), place[s] # "closed"
  PROVE  StepsLeft(s)' < StepsLeft(s)
<1> DEFINE my == local[s]
<1>1. my.reads \in 0..2 /\ my.polls \in 0..MaxPolls
  BY FieldTypes DEF StreamTypes
<1>2. CASE Ends(s)
  BY <1>2, StepsTypes DEF Ends, StepsLeft
<1>3. CASE ReadsRecord(s) \/ ReadsEvents(s)
  BY <1>1, <1>3, StreamAssumption DEF ReadsRecord, ReadsEvents, StepsLeft
<1>5. CASE Sends(s)
  <2>1. place[s] = "open" /\ place'[s] = "sent" /\ my.reads = 2
        /\ local'[s].polls = my.polls
    BY <1>5 DEF Sends
  <2> QED
    BY <1>1, <2>1, StreamAssumption DEF StepsLeft
<1>4. CASE GoesOn(s)
  BY <1>1, <1>4, StreamAssumption DEF GoesOn, StepsLeft
<1> QED
  BY <1>2, <1>3, <1>4, <1>5 DEF Moves, Connects

\* The safety half of StreamEnds: once connected, a stream ends within four steps a
\* poll, whatever the status of its task and however often its log and its row change
\* under it; no step of a thread, of another stream and no restart sets it back.
StreamsAdvance ==
  [][\A s \in Streams :
       /\ StreamStep(s) => StepsLeft(s)' < StepsLeft(s)
       /\ place[s] # "closed" => StepsLeft(s)' <= StepsLeft(s)
       /\ StepsLeft(s) \in 0..(4 * MaxPolls + 4)]_vars

\* Every stream runs down: what StreamEnds takes beyond it is only that a connected
\* client keeps its generator running.
THEOREM StreamsRunDown == Spec => StreamsAdvance
<1> DEFINE Advances ==
      \A s \in Streams :
        /\ StreamStep(s) => StepsLeft(s)' < StepsLeft(s)
        /\ place[s] # "closed" => StepsLeft(s)' <= StepsLeft(s)
        /\ StepsLeft(s) \in 0..(4 * MaxPolls + 4)
<1>1. ASSUME WriterInv, WorkInv, StreamInv, [Next]_vars PROVE [Advances]_vars
  <2> SUFFICES ASSUME Next PROVE Advances
    BY <1>1
  <2>t. StreamTypes /\ StreamTypes' /\ \A s \in Streams : AboutOf(s)
    BY <1>1, NextStream DEF StreamInv
  <2>1. ASSUME NEW s \in Streams, StreamStep(s) PROVE StepsLeft(s)' < StepsLeft(s)
    <3>1. Moves(s) /\ place[s] # "closed"
      BY <1>1, <2>1, <2>t, StreamMoves
      DEF StreamStep, ReadRecord, ReadEvents, Reading, Send, EndPoll
    <3> QED
      BY <2>t, <3>1, MovesDown
  <2>2. ASSUME NEW s \in Streams, place[s] # "closed" PROVE StepsLeft(s)' <= StepsLeft(s)
    <3>0. StepsLeft(s) \in Nat /\ StepsLeft(s)' \in Nat
      <4>1. StepsLeft(s) \in 0..(4 * MaxPolls + 4)
        BY <2>t, StepsTypes
      <4>2. (StepsLeft(s) \in 0..(4 * MaxPolls + 4))'
        BY <2>t, StepsTypes, PTL
      <4> QED
        BY <4>1, <4>2, StreamAssumption
    <3>1. ASSUME local'[s] = local[s], place'[s] = place[s]
          PROVE  StepsLeft(s)' <= StepsLeft(s)
      <4>1. StepsLeft(s)' = StepsLeft(s)
        BY <3>1 DEF StepsLeft
      <4> QED
        BY <3>0, <4>1
    <3>2. ASSUME NEW v \in Streams, v # s, Moves(v) PROVE StepsLeft(s)' <= StepsLeft(s)
      BY <3>1, <3>2 DEF Moves
    <3>3. CASE Moves(s)
      BY <2>2, <2>t, <3>0, <3>3, MovesDown
    <3>4. CASE Restart
      <4>1. place'[s] = "ended"
        BY <2>2, <3>4 DEF Restart
      <4>2. StepsLeft(s)' = 0
        BY <4>1 DEF StepsLeft
      <4> QED
        BY <3>0, <4>2
    <3>5. \/ \E v \in Streams : (\E t \in Tasks : Connect(v, t)) \/ StreamStep(v)
          \/ Restart
          \/ UNCHANGED <<local, place>>
      BY DEF Next, streams, ChangeStatus, RecordSuccess, DeleteTask, AppendUnlocked,
         WriterStep, ReadNewest, InsertEvent, WriteRow
    <3> QED
      BY <1>1, <2>t, <3>1, <3>2, <3>3, <3>4, <3>5, StreamMoves
  <2> QED
    BY <2>1, <2>2, <2>t, StepsTypes
<1> QED
  BY <1>1, AlwaysInv, PTL DEF Spec, StreamsAdvance

-----------------------------------------------------------------------------
(* The moves of TaskLife *)

\* What EventStream leaves out of the life of a task.
CONSTANTS AskTasks, Plans, Digests
VARIABLES plan, proposal, ticket

TheLife == INSTANCE TaskLife

\* The status of a task as a writer of EventStream or its restart changes it.
Foreseen(t) ==
  \/ status[t] = "absent" /\ status'[t] \in {"accepted", "blocked"}   \* AppendUnlocked
  \/ status'[t] \in Follows(status[t])                                 \* ChangeStatus
  \/ /\ status[t] \notin Closed \cup {"absent", "purged"}              \* RecordSuccess
     /\ status'[t] \in {"completed", "waiting_for_provider_input"}
  \/ status[t] \in Final /\ status'[t] = "purged"                      \* DeleteTask
  \/ status[t] = "running" /\ status'[t] = "interrupted"               \* Restart

\* One step of a task's life moves its status as foreseen, and no other's.
LEMMA StepForeseen ==
  ASSUME status \in [Tasks -> Statuses], NEW t \in Tasks, TheLife!LifeStep(t)
  PROVE  /\ status' \in [Tasks -> Statuses]
         /\ \A u \in Tasks \ {t} : status'[u] = status[u]
         /\ status'[t] = status[t] \/ Foreseen(t)
<1> USE DEF Foreseen, Follows, Statuses, Active, Final, Closed, TheLife!Turn, TheLife!Open,
       TheLife!Active, TheLife!Final, TheLife!Closed
<1>1. CASE TheLife!Submit(t) \/ TheLife!Refuse(t)
  BY <1>1 DEF TheLife!Submit, TheLife!Refuse
<1>2. CASE TheLife!Explore(t) \/ TheLife!Publish(t)
  BY <1>2 DEF TheLife!Explore, TheLife!Publish
<1>3. CASE TheLife!Run(t) \/ TheLife!Resume(t)
  BY <1>3 DEF TheLife!Run, TheLife!Resume
<1>4. CASE TheLife!Cancel(t) \/ TheLife!Purge(t)
  BY <1>4 DEF TheLife!Cancel, TheLife!Purge
<1>5. CASE \E p \in Plans : TheLife!Draft(t, p)
  BY <1>5 DEF TheLife!Draft
<1>6. CASE \E d \in Digests : TheLife!Offer(t, d) \/ TheLife!Approve(t, d)
  BY <1>6 DEF TheLife!Offer, TheLife!Approve
<1>7. CASE \E r \in TheLife!Outcomes : TheLife!Settle(t, r)
  BY <1>7 DEF TheLife!Settle, TheLife!Outcomes
<1> QED
  BY <1>1, <1>2, <1>3, <1>4, <1>5, <1>6, <1>7 DEF TheLife!LifeStep

\* EventStream foresees every move of a status that TaskLife can make, hence every
\* one that the coordinator's threads make: what is proved of the streams does not
\* rest on a life that Follows has cut short.
LifeIsForeseen ==
  [][\A t \in Tasks : status'[t] = status[t] \/ Foreseen(t)]_(TheLife!life)

\* Every life of TaskLife is foreseen, whatever rows decide between its moves; by
\* CoordinatorImplementsLife these are the lives that the coordinator gives its tasks.
THEOREM StreamsForeseeLife == TheLife!Life => LifeIsForeseen
<1> DEFINE Moved == \A t \in Tasks : status'[t] = status[t] \/ Foreseen(t)
           Typed == status \in [Tasks -> Statuses]
<1>1. TheLife!LifeInit => Typed
  BY DEF TheLife!LifeInit, Statuses
<1>2. ASSUME Typed, [TheLife!LifeNext]_(TheLife!life) PROVE Typed' /\ [Moved]_(TheLife!life)
  <2>1. CASE UNCHANGED TheLife!life
    BY <1>2, <2>1 DEF TheLife!life
  <2>2. CASE TheLife!Interrupt
    BY <1>2, <2>2 DEF TheLife!Interrupt, Foreseen, Statuses, Final
  <2>3. CASE \E t \in Tasks : TheLife!LifeStep(t)
    BY <1>2, <2>3, StepForeseen
  <2> QED
    BY <1>2, <2>1, <2>2, <2>3 DEF TheLife!LifeNext
<1> QED
  BY <1>1, <1>2, PTL DEF TheLife!Life, LifeIsForeseen

=============================================================================
