------------------------- MODULE PlanDraftingProofs -------------------------
(***************************************************************************)
(* Theorems about PlanDrafting for any project, request, choice of models  *)
(* and opinion of theirs.  What a draft may name follows from the          *)
(* operators of TargetResolution alone (EditDraftIsDecided); what may be   *)
(* asked of whom, from where a task stands while a draft is under way      *)
(* (IInv); that it comes to an end, from a measure that its steps lower.   *)
(***************************************************************************)
EXTENDS PlanDrafting, FiniteSetTheorems, TLAPS

\* What the text and the disk decide about a plan.
Justified(p, text, present) ==
  LET named == NamedTests(text, present)
      usual == ByConvention[p.impl] \cap present
      users == Importers[p.impl] \cap present
  IN
  /\ NamedImpls(text, present) \subseteq {p.impl}
  /\ \A t \in Tests \ {p.test} :
       /\ t \notin named
       /\ named = {} => t \notin usual
       /\ named \cup usual = {} => t \notin users

\* A request is settled by submit before a draft begins; a draft under way has
\* no answer yet, and before its loop it has taken no turn.
SettledInv ==
  /\ at # "idle" => answer = "none"
  /\ status \in {"none", "blocked"} => at = "idle"
  /\ at # "locating" => turn = 0
  /\ status \in {"accepted", "left"} => OfflineIsLocal(request)

\* A task is a task in the model's opinion too.
KindInv == intent.floor \in TaskKinds => intent.kind \in TaskKinds

\* Advice is the router's for the models of this process.
AdviceInv == advice = {} \/ \E complex \in BOOLEAN : advice = Routes(complex, avail)

IInv == TypeOK /\ SettledInv /\ KindInv /\ AdviceInv /\ ReservedWhileAsked

-----------------------------------------------------------------------------
(* The operators *)

\* Only never invents a member: what it returns is the whole set.
LEMMA OnlyIsAll ==
  ASSUME NEW S, IsFiniteSet(S), Only(S) # None
  PROVE  S = {Only(S)}
<1>1. Cardinality(S) = 1
  BY DEF Only
<1>2. PICK x : S = {x}
  BY <1>1, FS_Singleton
<1>3. Only(S) = CHOOSE f \in S : TRUE
  BY <1>1 DEF Only
<1>4. Only(S) \in S
  BY <1>2, <1>3
<1> QED
  BY <1>2, <1>4

LEMMA TestsAreFinite ==
  ASSUME NEW S, S \subseteq Files
  PROVE  IsFiniteSet(S)
BY FS_Subset, FilesAssumption

\* The located test is the only candidate of the strongest kind there is.
LEMMA LocatedTest ==
  ASSUME NEW impl \in Impls, NEW text, NEW present \in SUBSET Files,
         LocateTest(impl, text, present) # None
  PROVE  /\ LocateTest(impl, text, present) \in Tests
         /\ \A t \in Tests \ {LocateTest(impl, text, present)} :
              /\ t \notin NamedTests(text, present)
              /\ NamedTests(text, present) = {} => t \notin ByConvention[impl] \cap present
              /\ NamedTests(text, present) \cup (ByConvention[impl] \cap present) = {}
                   => t \notin Importers[impl] \cap present
<1> DEFINE named == NamedTests(text, present)
           usual == ByConvention[impl] \cap present
           users == Importers[impl] \cap present
           test  == LocateTest(impl, text, present)
<1>1. named \subseteq Tests /\ usual \subseteq Tests /\ users \subseteq Tests
  BY FilesAssumption DEF NamedTests
<1>2. IsFiniteSet(named) /\ IsFiniteSet(usual) /\ IsFiniteSet(users)
  BY <1>1, TestsAreFinite, FilesAssumption
<1>3. CASE named # {}
  <2>1. test = Only(named)
    BY <1>3 DEF LocateTest
  <2>2. named = {test}
    BY <2>1, <1>2, OnlyIsAll
  <2> QED
    BY <2>2, <1>1, <1>3
<1>4. CASE named = {} /\ usual # {}
  <2>1. test = Only(usual)
    BY <1>4 DEF LocateTest
  <2>2. usual = {test}
    BY <2>1, <1>2, OnlyIsAll
  <2> QED
    BY <2>2, <1>1, <1>4
<1>5. CASE named = {} /\ usual = {}
  <2>1. test = Only(users)
    BY <1>5 DEF LocateTest
  <2>2. users = {test}
    BY <2>1, <1>2, OnlyIsAll
  <2> QED
    BY <2>2, <1>1, <1>5
<1> QED
  BY <1>3, <1>4, <1>5

\* An edit draft is a refusal, or a plan that the text and the disk justify.
LEMMA EditDraftIsDecided ==
  ASSUME NEW text, NEW present \in SUBSET Files, NEW d \in EditDrafts(text, present)
  PROVE  \/ d.plan = None /\ d.reason \in Reasons
         \/ d.plan \in Plans /\ d.reason = "ok" /\ Justified(d.plan, text, present)
<1>1. PICK r \in Resolutions(text, present) : d = EditDraft(text, present, r)
  BY DEF EditDrafts
<1> DEFINE impls  == NamedImpls(text, present)
           target == IF impls # {} THEN NamedTarget(impls) ELSE r.file
           test   == LocateTest(target, text, present)
<1>2. \A reason : Refused(reason).plan = None /\ Refused(reason).reason = reason
  BY DEF Refused
<1>3. CASE target \in Impls /\ test # None /\ ~(impls = {} /\ r.tied # {})
  <2>1. d = Drafted(target, test)
    BY <1>1, <1>3 DEF EditDraft
  <2>2. d.plan = [impl |-> target, test |-> test] /\ d.reason = "ok"
    BY <2>1 DEF Drafted
  <2>3. test \in Tests
    BY <1>3, LocatedTest
  <2>4. d.plan \in Plans /\ d.plan.impl = target /\ d.plan.test = test
    BY <1>3, <2>2, <2>3 DEF Plans
  <2>5. impls \subseteq {target}
    <3>1. CASE impls # {}
      <4>1. target = Only(impls) /\ target # None
        BY <1>3, <3>1, FilesAssumption DEF NamedTarget, Impls
      <4>2. IsFiniteSet(impls)
        BY TestsAreFinite, FilesAssumption DEF NamedImpls, Impls
      <4> QED
        BY <4>1, <4>2, OnlyIsAll
    <3> QED
      BY <3>1
  <2>6. Justified(d.plan, text, present)
    BY <1>3, <2>4, <2>5, LocatedTest DEF Justified
  <2> QED
    BY <2>2, <2>4, <2>6
<1>4. CASE ~(target \in Impls /\ test # None /\ ~(impls = {} /\ r.tied # {}))
  <2>1. \E reason \in Reasons : d = Refused(reason)
    BY <1>1, <1>4 DEF EditDraft, Reasons
  <2> QED
    BY <2>1, <1>2
<1> QED
  BY <1>3, <1>4

\* The drafters' results: a plan, or one of the three reasons.
LEMMA DraftTypes ==
  ASSUME disk \subseteq Files, NEW d \in Drafts
  PROVE  \/ d.plan = None /\ d.reason \in Reasons
         \/ d.plan \in Plans /\ d.reason = "ok"
<1>1. CASE d \in EditDrafts(request.text, disk)
  BY <1>1, EditDraftIsDecided
<1>2. CASE d \in EvidenceDrafts(disk)
  <2>1. PICK i \in ApiFiles \cap disk, t \in Fixtures \cap disk : d = Drafted(i, t)
    BY <1>2 DEF EvidenceDrafts
  <2> QED
    BY <2>1, FilesAssumption DEF Drafted, Plans
<1> QED
  BY <1>1, <1>2 DEF Drafts

\* Every refusal has a hint.
LEMMA HintTypes == ASSUME NEW reason, NEW kind PROVE Hint(reason, kind) \in Hints
BY DEF Hint, Hints

\* Merging never leaves the kinds, and never turns a task into talk.
LEMMA MergeKeepsTasks ==
  ASSUME NEW floor \in Kinds, NEW opinion \in Kinds
  PROVE  /\ Merge(floor, opinion) \in Kinds
         /\ floor \in TaskKinds => Merge(floor, opinion) \in TaskKinds
BY DEF Merge, Kinds, TaskKinds, TalkKinds

LEMMA FloorTypes == ASSUME NEW words, NEW targeted PROVE FloorKind(words, targeted) \in Kinds
BY DEF FloorKind, Kinds, TaskKinds, TalkKinds

\* A floor or an opinion has a kind.
LEMMA KindsAreKinds == TaskKinds \subseteq Kinds /\ TalkKinds \cap TaskKinds = {}
BY DEF Kinds, TaskKinds, TalkKinds

-----------------------------------------------------------------------------
(* The inductive invariant *)

LEMMA InitIInv == Init => IInv
<1> SUFFICES ASSUME Init PROVE IInv
  OBVIOUS
<1>1. Limit \in Nat /\ MaxEdits \in Nat
  BY DraftingAssumption DEF Limit
<1>2. NoIntent \in [floor : Kinds, kind : Kinds] /\ NoIntent.floor \notin TaskKinds
  BY DEF NoIntent, Kinds, TalkKinds, TaskKinds
<1>3. disk \subseteq Files /\ avail \subseteq Models
  BY DraftingAssumption DEF Init
<1>a. turn \in 0..Limit /\ edits \in 0..MaxEdits
  BY <1>1 DEF Init
<1>c. held \in BOOLEAN
  BY DEF Init
<1>b. request \in Requests \cup {NoRequest} /\ intent \in [floor : Kinds, kind : Kinds]
  BY <1>2 DEF Init
<1>4. TypeOK
  BY <1>a, <1>b, <1>c, <1>3 DEF Init, TypeOK
<1>5. SettledInv /\ KindInv /\ AdviceInv /\ ReservedWhileAsked
  BY <1>2 DEF Init, SettledInv, KindInv, AdviceInv, ReservedWhileAsked
<1> QED
  BY <1>4, <1>5 DEF IInv

\* A draft that ends leaves the invariant, whatever it ends with.
LEMMA EndKeepsIInv ==
  ASSUME IInv, NEW d, NEW by \in Files \cup {None},
         d.plan \in Plans \cup {None},
         EndWith(d, by), turn' = 0, held' = FALSE, why' \in Reasons \cup {"ok"},
         status \in {"accepted", "left"},
         UNCHANGED <<disk, avail, task, edits>>
  PROVE  IInv'
<1>1. NoIntent \in [floor : Kinds, kind : Kinds] /\ NoIntent.floor \notin TaskKinds
  BY DEF NoIntent, Kinds, TalkKinds, TaskKinds
<1>2. at' = "idle" /\ intent' = NoIntent
  BY DEF EndWith
<1>3. /\ plan' \in Plans \cup {None} /\ answer' \in Hints \cup {"none", "plan", "error"}
      /\ located' \in Files \cup {None}
  BY HintTypes DEF EndWith, IInv, TypeOK
<1>4. Limit' = Limit /\ Limit \in Nat
  BY DraftingAssumption DEF Limit, IsCloud, task
<1>a. turn' \in 0..Limit'
  BY <1>4
<1>e. held' \in BOOLEAN
  OBVIOUS
<1>b. disk' \subseteq Files /\ avail' \subseteq Models /\ edits' \in 0..MaxEdits
  BY DEF IInv, TypeOK
<1>c. /\ request' \in Requests \cup {NoRequest}
      /\ status' \in {"none", "accepted", "blocked", "left"}
      /\ advice' \subseteq [chat : Models \cup {Nobody}, builder : Models \cup {Nobody}]
  BY DEF IInv, TypeOK, task
<1>d. at' = "idle" /\ intent' \in [floor : Kinds, kind : Kinds]
  BY <1>1, <1>2
<1>5. TypeOK'
  BY <1>a, <1>b, <1>c, <1>d, <1>e, <1>3 DEF TypeOK
<1>6. SettledInv'
  BY <1>2 DEF IInv, SettledInv, task, OfflineIsLocal
<1>7. KindInv'
  BY <1>1, <1>2 DEF KindInv
<1>8. AdviceInv'
  BY DEF IInv, AdviceInv, task, Routes, Usable
<1>9. ReservedWhileAsked'
  BY <1>2 DEF ReservedWhileAsked
<1> QED
  BY <1>5, <1>6, <1>7, <1>8, <1>9 DEF IInv

\* Between two steps of a draft its task has been accepted.
LEMMA DraftIsAccepted == IInv /\ at # "idle" => status \in {"accepted", "left"}
BY DEF IInv, TypeOK, SettledInv

\* Before the loop, no turn is taken and nothing reserved.
LEMMA LoopNotBegun == IInv /\ at \in {"classifying", "drafting"} => turn = 0 /\ held = FALSE
<1> SUFFICES ASSUME IInv, at \in {"classifying", "drafting"} PROVE turn = 0 /\ held = FALSE
  OBVIOUS
<1>1. turn = 0
  BY DEF IInv, SettledInv
<1>2. held \in BOOLEAN /\ ~held
  BY DEF IInv, TypeOK, SettledInv, ReservedWhileAsked
<1> QED
  BY <1>1, <1>2

LEMMA NextIInv == IInv /\ [Next]_vars => IInv'
<1> SUFFICES ASSUME IInv, [Next]_vars PROVE IInv'
  OBVIOUS
<1> USE DEF IInv, task, loop
<1>a. Limit \in Nat
  BY DraftingAssumption DEF Limit
<1>1. ASSUME NEW complex \in BOOLEAN, Recommend(complex) PROVE IInv'
  <2>1. advice' \subseteq [chat : Models \cup {Nobody}, builder : Models \cup {Nobody}]
    BY <1>1 DEF Recommend, Routes, Preferred, Usable, TypeOK
  <2>2. TypeOK'
    BY <1>1, <2>1 DEF Recommend, TypeOK, Limit, IsCloud
  <2>3. AdviceInv'
    BY <1>1 DEF Recommend, AdviceInv, Routes, Usable
  <2> QED
    BY <1>1, <2>2, <2>3 DEF Recommend, SettledInv, KindInv, ReservedWhileAsked, IsCloud
<1>2. ASSUME NEW q \in Requests, Submit(q) PROVE IInv'
  <2>1. at = "idle" /\ turn = 0 /\ status = "none"
    BY <1>2 DEF Submit, SettledInv
  <2>2. Limit' \in Nat
    BY DraftingAssumption DEF Limit
  <2>3. TypeOK'
    BY <1>2, <2>1, <2>2 DEF Submit, TypeOK
  <2>4. SettledInv'
    BY <1>2, <2>1 DEF Submit, SettledInv, Validates
  <2>5. ReservedWhileAsked'
    BY <1>2, <2>1 DEF Submit, ReservedWhileAsked
  <2> QED
    BY <1>2, <2>3, <2>4, <2>5 DEF Submit, KindInv, AdviceInv
<1>3. CASE Leave
  <2>1. TypeOK'
    BY <1>3 DEF Leave, TypeOK, Limit, IsCloud
  <2>2. SettledInv'
    BY <1>3 DEF Leave, SettledInv, OfflineIsLocal
  <2> QED
    BY <1>3, <2>1, <2>2 DEF Leave, KindInv, AdviceInv, ReservedWhileAsked, IsCloud,
                            Routes, Usable
<1>4. ASSUME NEW f \in Files, UserEdits(f) PROVE IInv'
  <2>1. TypeOK'
    BY <1>4, DraftingAssumption DEF UserEdits, TypeOK, Limit, IsCloud
  <2> QED
    BY <1>4, <2>1 DEF UserEdits, SettledInv, KindInv, AdviceInv, ReservedWhileAsked,
                      IsCloud, Routes, Usable
<1>5. CASE Begin
  <2>1. PICK floor \in Kinds : intent' = [floor |-> floor, kind |-> floor]
    BY <1>5, FloorTypes DEF Begin
  <2>2. TypeOK'
    BY <1>5, <2>1 DEF Begin, TypeOK, Limit, IsCloud
  <2>3. KindInv'
    BY <2>1 DEF KindInv
  <2>4. SettledInv'
    BY <1>5 DEF Begin, SettledInv
  <2> QED
    BY <1>5, <2>2, <2>3, <2>4 DEF Begin, AdviceInv, ReservedWhileAsked, IsCloud, Routes, Usable
<1>6. CASE Classified
  <2>1. /\ intent' \in [floor : Kinds, kind : Kinds]
        /\ intent'.floor = intent.floor
        /\ intent.floor \in TaskKinds => intent'.kind \in TaskKinds
    <3>1. CASE intent' = intent
      BY <3>1 DEF TypeOK, KindInv
    <3>2. ASSUME NEW opinion \in Kinds,
                 intent' = [intent EXCEPT !.kind = Merge(intent.floor, opinion)]
          PROVE  /\ intent' \in [floor : Kinds, kind : Kinds]
                 /\ intent'.floor = intent.floor
                 /\ intent.floor \in TaskKinds => intent'.kind \in TaskKinds
      <4>1. intent.floor \in Kinds
        BY DEF TypeOK
      <4>2. /\ Merge(intent.floor, opinion) \in Kinds
            /\ intent.floor \in TaskKinds => Merge(intent.floor, opinion) \in TaskKinds
        BY <4>1, MergeKeepsTasks
      <4> QED
        BY <3>2, <4>2 DEF TypeOK
    <3> QED
      BY <1>6, <3>1, <3>2 DEF Classified
  <2>2. TypeOK'
    BY <1>6, <2>1 DEF Classified, TypeOK, Limit, IsCloud
  <2>3. KindInv'
    BY <2>1 DEF KindInv
  <2>4. SettledInv'
    BY <1>6 DEF Classified, SettledInv
  <2> QED
    BY <1>6, <2>2, <2>3, <2>4 DEF Classified, AdviceInv, ReservedWhileAsked, IsCloud, Routes, Usable
<1>7. CASE RootMissing
  <2>1. turn' = 0 /\ held' = FALSE /\ why' \in Reasons \cup {"ok"}
    BY <1>7, LoopNotBegun DEF RootMissing, TypeOK
  <2> QED
    BY <1>7, <2>1, EndKeepsIInv, DraftIsAccepted DEF RootMissing, Refused
<1>8. CASE PlanFound
  <2>1. turn' = 0 /\ held' = FALSE /\ why' \in Reasons \cup {"ok"}
    BY <1>8, LoopNotBegun DEF PlanFound, TypeOK
  <2>2. PICK d \in Drafts : EndWith(d, None)
    BY <1>8 DEF PlanFound
  <2>3. d.plan \in Plans \cup {None}
    BY DraftTypes DEF TypeOK
  <2> QED
    BY <1>8, <2>1, <2>2, <2>3, EndKeepsIInv, DraftIsAccepted DEF PlanFound
<1>9. CASE NoPlanFound
  <2>1. PICK d \in Drafts, reserved \in BOOLEAN :
          /\ d.plan = None
          /\ reserved => IsCloud
          /\ \/ /\ MayAsk(reserved)
                /\ at' = "locating"
                /\ turn' = 0
                /\ held' = reserved
                /\ why' = d.reason
                /\ UNCHANGED <<intent, plan, answer, located>>
             \/ EndWith(d, None) /\ UNCHANGED loop
    BY <1>9 DEF NoPlanFound
  <2>2. d.reason \in Reasons \cup {"ok"}
    BY <2>1, DraftTypes DEF TypeOK
  <2>3. CASE EndWith(d, None) /\ UNCHANGED loop
    <3>1. turn' = 0 /\ held' = FALSE /\ why' \in Reasons \cup {"ok"}
      BY <1>9, <2>3, LoopNotBegun DEF NoPlanFound, TypeOK
    <3> QED
      BY <1>9, <2>1, <2>3, <3>1, EndKeepsIInv, DraftIsAccepted DEF NoPlanFound
  <2>4. CASE /\ MayAsk(reserved)
             /\ at' = "locating"
             /\ turn' = 0
             /\ held' = reserved
             /\ why' = d.reason
             /\ UNCHANGED <<intent, plan, answer, located>>
    <3>1. held' \in BOOLEAN
      BY <2>4
    <3>2. TypeOK'
      BY <1>9, <2>2, <2>4, <3>1, <1>a DEF NoPlanFound, TypeOK, Limit, IsCloud
    <3>3. SettledInv'
      BY <1>9, <2>4 DEF NoPlanFound, SettledInv
    <3>4. held' <=> IsCloud
      BY <2>1, <2>4 DEF MayAsk
    <3>5. ReservedWhileAsked'
      BY <1>9, <2>4, <3>4 DEF NoPlanFound, ReservedWhileAsked, IsCloud
    <3>6. KindInv' /\ AdviceInv'
      BY <1>9, <2>4 DEF NoPlanFound, KindInv, AdviceInv, Routes, Usable
    <3> QED
      BY <3>2, <3>3, <3>5, <3>6
  <2> QED
    BY <2>1, <2>3, <2>4
<1>10. CASE UsesTools
  <2>1. turn' \in 0..Limit'
    BY <1>10, <1>a DEF UsesTools, TurnLeft, Limit, IsCloud, TypeOK
  <2>2. TypeOK'
    BY <1>10, <2>1 DEF UsesTools, TypeOK
  <2>3. SettledInv'
    BY <1>10 DEF UsesTools, SettledInv
  <2> QED
    BY <1>10, <2>2, <2>3 DEF UsesTools, KindInv, AdviceInv, ReservedWhileAsked, IsCloud,
                             Routes, Usable
<1>11. CASE FindsNothing
  <2>1. turn' = 0 /\ held' = FALSE /\ why' \in Reasons \cup {"ok"}
    BY <1>11 DEF FindsNothing, Settle
  <2> QED
    BY <1>11, <2>1, EndKeepsIInv, DraftIsAccepted DEF FindsNothing, Refused
<1>12. ASSUME NEW f \in Files, Locates(f) PROVE IInv'
  <2>1. turn' = 0 /\ held' = FALSE /\ why' \in Reasons \cup {"ok"}
    BY <1>12 DEF Locates, Settle
  <2>2. PICK d \in EditDrafts(Rewritten(request.text, f), disk) : EndWith(d, f)
    BY <1>12 DEF Locates
  <2>3. d.plan \in Plans \cup {None}
    BY EditDraftIsDecided DEF TypeOK
  <2> QED
    BY <1>12, <2>1, <2>2, <2>3, EndKeepsIInv, DraftIsAccepted DEF Locates
<1>13. CASE RouteRaises
  <2>1. /\ turn' \in 0..Limit' /\ held' \in BOOLEAN
    <3>1. turn' = 0 /\ Limit' = Limit
      BY <1>13 DEF RouteRaises, Limit, IsCloud
    <3>2. held' \in BOOLEAN
      BY <1>13 DEF RouteRaises, TypeOK
    <3> QED
      BY <1>a, <3>1, <3>2
  <2>2. NoIntent \in [floor : Kinds, kind : Kinds] /\ NoIntent.floor \notin TaskKinds
    BY DEF NoIntent, Kinds, TalkKinds, TaskKinds
  <2>3. TypeOK'
    BY <1>13, <2>1, <2>2 DEF RouteRaises, TypeOK
  <2>4. SettledInv' /\ KindInv' /\ AdviceInv'
    BY <1>13, <2>2, DraftIsAccepted DEF RouteRaises, SettledInv, KindInv, AdviceInv, OfflineIsLocal,
                                        Routes, Usable
  <2>5. ReservedWhileAsked'
    BY <1>13 DEF RouteRaises, ReservedWhileAsked
  <2> QED
    BY <2>3, <2>4, <2>5
<1>14. CASE UNCHANGED vars
  <2>1. TypeOK'
    BY <1>14 DEF vars, TypeOK, Limit, IsCloud
  <2>2. SettledInv'
    BY <1>14 DEF vars, SettledInv, OfflineIsLocal
  <2> QED
    BY <1>14, <2>1, <2>2 DEF vars, KindInv, AdviceInv, ReservedWhileAsked, IsCloud, Routes, Usable
<1> QED
  BY <1>1, <1>2, <1>3, <1>4, <1>5, <1>6, <1>7, <1>8, <1>9, <1>10, <1>11, <1>12, <1>13, <1>14
     DEF Next, DraftStep

-----------------------------------------------------------------------------
(* The theorems *)

LEMMA AlwaysIInv == Spec => []IInv
BY InitIInv, NextIInv, PTL DEF Spec

\* The variables keep their types for any constants; in particular, the loop of
\* locate_target_with_exploration stays within its turns.
THEOREM TypeCorrect == Spec => []TypeOK
<1>1. IInv => TypeOK
  BY DEF IInv
<1> QED
  BY <1>1, AlwaysIInv, PTL

\* No model that is a cloud model by profile is asked for an offline task,
\* however its name is spelled.
THEOREM OfflineTasksStayLocal == Spec => []OfflineStaysLocal
<1>1. IInv => OfflineStaysLocal
  BY DEF IInv, TypeOK, SettledInv, OfflineStaysLocal, OfflineIsLocal
<1> QED
  BY <1>1, AlwaysIInv, PTL

\* The plan-draft route asks a model called cloud only with a reservation, and
\* keeps none after an answer; one can outlive the draft only by an error, when the
\* ledger has failed the route and its handler.
THEOREM ReservedWhileAskedOrFailed == Spec => []ReservedWhileAsked
<1>1. IInv => ReservedWhileAsked
  BY DEF IInv
<1> QED
  BY <1>1, AlwaysIInv, PTL

-----------------------------------------------------------------------------
\* A draft ends with an error, with a refusal, with what the drafters say of the
\* request, or with what they say of the request with a file that was found.
LEMMA HowDraftsEnd ==
  ASSUME IInv, [Next]_vars, at # "idle", at' = "idle"
  PROVE  /\ UNCHANGED <<disk, request>>
         /\ \/ answer' = "error"
            \/ \E d :
                 \/ EndWith(d, None) /\ d.plan = None
                 \/ EndWith(d, None) /\ d \in Drafts
                 \/ \E f \in disk :
                      EndWith(d, f) /\ d \in EditDrafts(Rewritten(request.text, f), disk)
<1> DEFINE Ends ==
      \E d :
        \/ EndWith(d, None) /\ d.plan = None
        \/ EndWith(d, None) /\ d \in Drafts
        \/ \E f \in disk :
             EndWith(d, f) /\ d \in EditDrafts(Rewritten(request.text, f), disk)
<1> USE DEF task
<1>0. \A reason : Refused(reason).plan = None
  BY DEF Refused
<1>1. CASE RootMissing
  BY <1>0, <1>1 DEF RootMissing
<1>2. CASE PlanFound
  BY <1>2 DEF PlanFound
<1>3. CASE NoPlanFound
  BY <1>3 DEF NoPlanFound
<1>4. CASE FindsNothing
  BY <1>0, <1>4 DEF FindsNothing
<1>5. ASSUME NEW f \in Files, Locates(f) PROVE Ends /\ UNCHANGED <<disk, request>>
  BY <1>5 DEF Locates
<1>6. ASSUME NEW complex \in BOOLEAN, Recommend(complex) PROVE FALSE
  BY <1>6 DEF Recommend, SettledInv, IInv
<1>7. ASSUME NEW q \in Requests, Submit(q) PROVE FALSE
  BY <1>7 DEF Submit
<1>8. ASSUME NEW f \in Files, UserEdits(f) PROVE FALSE
  BY <1>8 DEF UserEdits
<1>9. CASE RouteRaises
  BY <1>9 DEF RouteRaises
<1>10. ~Leave /\ ~Begin /\ ~Classified /\ ~UsesTools /\ ~UNCHANGED vars
  BY DEF Leave, Begin, Classified, UsesTools, vars
<1> QED
  BY <1>1, <1>2, <1>3, <1>4, <1>5, <1>6, <1>7, <1>8, <1>9, <1>10 DEF Next, DraftStep

\* A draft that ends with a plan for an edit: the drafters' plan for the request,
\* or for the request with the file that was found.
LEMMA HowPlansCome ==
  ASSUME IInv, [Next]_vars, EditPlanned
  PROVE  /\ UNCHANGED <<disk, request>>
         /\ \/ located' = None /\ Justified(plan', request.text, disk)
            \/ /\ located' \in disk
               /\ Justified(plan', Rewritten(request.text, located'), disk)
         /\ plan' \in Plans
<1>1. UNCHANGED <<disk, request>>
  BY HowDraftsEnd DEF EditPlanned
<1>2. PICK d :
        \/ EndWith(d, None) /\ d.plan = None
        \/ EndWith(d, None) /\ d \in Drafts
        \/ \E f \in disk :
             EndWith(d, f) /\ d \in EditDrafts(Rewritten(request.text, f), disk)
  BY HowDraftsEnd DEF EditPlanned
<1>3. \A reason, kind : Hint(reason, kind) # "plan"
  BY HintTypes DEF Hints
<1>4. \A by : EndWith(d, by) => d.plan # None /\ plan' = d.plan /\ located' = by
  BY <1>3 DEF EndWith, EditPlanned
<1>5. disk \in SUBSET Files
  BY DEF IInv, TypeOK
<1>6. CASE EndWith(d, None) /\ d.plan = None
  BY <1>4, <1>6
<1>7. CASE EndWith(d, None) /\ d \in Drafts
  <2>1. d \in EditDrafts(request.text, disk)
    BY <1>7 DEF Drafts, EditPlanned
  <2> QED
    BY <1>1, <1>4, <1>5, <1>7, <2>1, EditDraftIsDecided
<1>8. ASSUME NEW f \in disk, EndWith(d, f),
             d \in EditDrafts(Rewritten(request.text, f), disk)
      PROVE  /\ located' \in disk
             /\ Justified(plan', Rewritten(request.text, located'), disk)
             /\ plan' \in Plans
  BY <1>4, <1>5, <1>8, EditDraftIsDecided
<1> QED
  BY <1>1, <1>2, <1>6, <1>7, <1>8

\* What is appended to a text is mentioned in it, beside what was.
LEMMA RewrittenMentions ==
  ASSUME NEW text \in Seq(Names), NEW f \in Names
  PROVE  Mentioned(Rewritten(text, f)) = Mentioned(text) \cup {f}
<1> DEFINE new == Rewritten(text, f)
<1>1. /\ new \in Seq(Names) /\ Len(new) = Len(text) + 1 /\ Len(text) \in Nat
      /\ \A i \in 1..Len(text) : new[i] = text[i]
      /\ new[Len(text) + 1] = f
  BY DEF Rewritten
<1>2. DOMAIN new = 1..(Len(text) + 1) /\ DOMAIN text = 1..Len(text)
  BY <1>1
<1>3. ASSUME NEW g \in Mentioned(new) PROVE g \in Mentioned(text) \cup {f}
  <2>1. PICK i \in 1..(Len(text) + 1) : g = new[i]
    BY <1>2 DEF Mentioned
  <2>2. i \in 1..Len(text) \/ i = Len(text) + 1
    BY <1>1, <2>1
  <2> QED
    BY <1>1, <1>2, <2>1, <2>2 DEF Mentioned
<1>4. ASSUME NEW g \in Mentioned(text) PROVE g \in Mentioned(new)
  <2>1. PICK i \in 1..Len(text) : g = text[i]
    BY <1>2 DEF Mentioned
  <2>2. i \in 1..(Len(text) + 1) /\ g = new[i]
    BY <1>1, <2>1
  <2> QED
    BY <1>2, <2>2 DEF Mentioned
<1>5. f \in Mentioned(new)
  <2>1. Len(text) + 1 \in 1..(Len(text) + 1)
    BY <1>1
  <2> QED
    BY <1>1, <1>2, <2>1 DEF Mentioned
<1> QED
  BY <1>3, <1>4, <1>5

\* The texts of requests are sequences of names.
LEMMA TextTypes ==
  ASSUME IInv
  PROVE  request.text \in Seq(Names) /\ Mentioned(request.text) \subseteq Names
<1>1. request \in Requests \cup {NoRequest}
  BY DEF IInv, TypeOK
<1>2. NoRequest.text = <<>> /\ <<>> \in Seq(Names)
  BY DEF NoRequest
<1>3. \A q \in Requests : q.text \in Seq(Names)
  BY DraftingAssumption
<1>4. request.text \in Seq(Names)
  BY <1>1, <1>2, <1>3
<1> QED
  BY <1>4 DEF Mentioned

\* In a text that is read as it is meant, plan.py finds the Python files it names.
LEMMA ReadFiles ==
  ASSUME NEW text, Mentioned(text) \subseteq Names, NEW present \in SUBSET Files,
         \A n \in Mentioned(text) : ReadAsMeant(n)
  PROVE  NamedFiles(text, present) = {Means[n] : n \in Mentioned(text)} \cap Python \cap present
<1>1. None \notin present
  BY FilesAssumption
<1>2. \A n \in Mentioned(text) :
        /\ Means[n] \in Python => PyFile[n] = Means[n]
        /\ Means[n] \notin Python => PyFile[n] = None
        /\ PyFile[n] \in Python \cup {None}
  BY FilesAssumption DEF ReadAsMeant
<1> QED
  BY <1>1, <1>2 DEF NamedFiles

\* The file that was found is read beside those that the request names.
LEMMA RewrittenFiles ==
  ASSUME IInv, NEW f \in disk
  PROVE  NamedFiles(Rewritten(request.text, f), disk)
           = NamedFiles(request.text, disk) \cup ({PyFile[f]} \cap disk)
<1>1. f \in Names
  BY FilesAssumption DEF IInv, TypeOK
<1>2. Mentioned(Rewritten(request.text, f)) = Mentioned(request.text) \cup {f}
  BY <1>1, TextTypes, RewrittenMentions
<1> QED
  BY <1>2 DEF NamedFiles

\* A plan is for the file its request names, and no model picks one of two named
\* files; a file found by a model is planned only if none was named.
THEOREM NamedFileIsPlanned == Spec => NamedFileIsTarget
<1> DEFINE Named ==
      EditPlanned /\ TextIsRead =>
        LET named == UserNames \cap Impls IN
        \/ named = {plan'.impl}
        \/ /\ named = {}
           /\ located' \in Impls /\ ReadAsMeant(located') => plan'.impl = located'
<1>1. IInv /\ [Next]_vars => Named
  <2> SUFFICES ASSUME IInv, [Next]_vars, EditPlanned, TextIsRead PROVE Named
    OBVIOUS
  <2> DEFINE named == UserNames \cap Impls
  <2>0. named = NamedImpls(request.text, disk)
    BY ReadFiles, TextTypes DEF NamedImpls, UserNames, TextIsRead, Impls, IInv, TypeOK
  <2>1. CASE located' = None /\ Justified(plan', request.text, disk)
    BY <2>0, <2>1, FilesAssumption DEF Justified, Impls
  <2>2. CASE /\ located' \in disk
             /\ Justified(plan', Rewritten(request.text, located'), disk)
    <3>1. named \subseteq {plan'.impl}
      BY <2>0, <2>2, RewrittenFiles DEF Justified, NamedImpls
    <3>2. ASSUME located' \in Impls, ReadAsMeant(located') PROVE plan'.impl = located'
      <4>1. PyFile[located'] = located'
        BY <3>2, FilesAssumption DEF ReadAsMeant, Impls
      <4>2. located' \in NamedImpls(Rewritten(request.text, located'), disk)
        BY <2>2, <3>2, <4>1, RewrittenFiles DEF NamedImpls
      <4> QED
        BY <2>2, <4>2 DEF Justified
    <3> QED
      BY <3>1, <3>2
  <2> QED
    BY <2>1, <2>2, HowPlansCome
<1> QED
  BY <1>1, AlwaysIInv, PTL DEF Spec, NamedFileIsTarget

\* No test competes with the one that is planned, in the strongest kind of claim
\* there is: _locate_test_for refuses rather than guesses.
THEOREM PlannedTestHasNoRival == Spec => PlannedTestIsDecided
<1> DEFINE Decided ==
      EditPlanned /\ TextIsRead /\ (located' # None => ReadAsMeant(located')) =>
        LET named == (UserNames \cup {located'}) \cap Tests
            usual == ByConvention[plan'.impl] \cap disk
            users == Importers[plan'.impl] \cap disk
        IN
        \A t \in Tests \ {plan'.test} :
          /\ t \notin named
          /\ named = {} => t \notin usual
          /\ named \cup usual = {} => t \notin users
<1>1. IInv /\ [Next]_vars => Decided
  <2> SUFFICES ASSUME IInv, [Next]_vars, EditPlanned, TextIsRead,
                      located' # None => ReadAsMeant(located')
               PROVE  Decided
    OBVIOUS
  <2> DEFINE named == (UserNames \cup {located'}) \cap Tests
  <2>0. UserNames \cap Tests = NamedTests(request.text, disk)
    BY ReadFiles, TextTypes, FilesAssumption DEF NamedTests, UserNames, TextIsRead, IInv, TypeOK
  <2>1. CASE located' = None /\ Justified(plan', request.text, disk)
    <3>1. named = NamedTests(request.text, disk)
      BY <2>0, <2>1, FilesAssumption
    <3> QED
      BY <2>1, <3>1 DEF Justified
  <2>2. CASE /\ located' \in disk
             /\ Justified(plan', Rewritten(request.text, located'), disk)
    <3>1. {PyFile[located']} \cap disk \cap Tests = {located'} \cap Tests
      <4>1. located' \in Files /\ None \notin disk
        BY <2>2, FilesAssumption DEF IInv, TypeOK
      <4>2. Means[located'] = located' /\ ReadAsMeant(located')
        BY <4>1, FilesAssumption
      <4> QED
        BY <2>2, <4>1, <4>2, FilesAssumption DEF ReadAsMeant
    <3>2. NamedTests(Rewritten(request.text, located'), disk) = named
      BY <2>0, <2>2, <3>1, RewrittenFiles DEF NamedTests
    <3> QED
      BY <2>2, <3>2 DEF Justified
  <2> QED
    BY <2>1, <2>2, HowPlansCome
<1> QED
  BY <1>1, AlwaysIInv, PTL DEF Spec, PlannedTestIsDecided

\* Who writes what reads as a task is not answered "use Talk Only".
THEOREM TasksAreNotTalkedAway == Spec => TaskIsNotTalkedAway
<1> DEFINE Kept ==
      at # "idle" /\ at' = "idle" /\ intent.floor \in TaskKinds
        => answer' # "use_talk_only"
<1>1. IInv /\ [Next]_vars => Kept
  <2> SUFFICES ASSUME IInv, [Next]_vars, at # "idle", at' = "idle",
                      intent.floor \in TaskKinds
               PROVE  answer' # "use_talk_only"
    OBVIOUS
  <2>1. answer' = "error" \/ \E d, by : EndWith(d, by)
    BY HowDraftsEnd
  <2>2. intent.kind \notin TalkKinds
    BY KindsAreKinds DEF IInv, KindInv
  <2>3. \A reason : Hint(reason, intent.kind) # "use_talk_only"
    BY <2>2 DEF Hint
  <2> QED
    BY <2>1, <2>3 DEF EndWith
<1> QED
  BY <1>1, AlwaysIInv, PTL DEF Spec, TaskIsNotTalkedAway

\* What the router recommends, submit accepts.
THEOREM RecommendationsAreAccepted == Spec => RecommendedIsAccepted
<1> DEFINE Accepted ==
      status = "none" /\ status' = "blocked"
        /\ [chat |-> request'.chat, builder |-> request'.builder] \in advice
        /\ Nobody \notin {request'.chat, request'.builder}
      => request'.offline \/ request'.mode = "local_autopilot"
<1>1. IInv /\ [Next]_vars => Accepted
  <2> SUFFICES ASSUME IInv, [Next]_vars, status = "none", status' = "blocked",
                      [chat |-> request'.chat, builder |-> request'.builder] \in advice,
                      Nobody \notin {request'.chat, request'.builder},
                      ~request'.offline, request'.mode # "local_autopilot"
               PROVE  FALSE
    OBVIOUS
  <2>1. PICK q \in Requests : Submit(q)
    BY DEF Next, DraftStep, Recommend, Leave, UserEdits, Begin, Classified, RootMissing,
           PlanFound, NoPlanFound, UsesTools, Locates, FindsNothing, RouteRaises, task, vars
  <2>2. request' = q /\ ~Validates(q, avail)
    BY <2>1 DEF Submit
  <2>3. PICK complex \in BOOLEAN : advice = Routes(complex, avail)
    BY DEF IInv, AdviceInv
  <2>4. request'.chat \in avail \cap ChatModels /\ request'.builder \in avail \cap BuilderModels
    BY <2>3 DEF Routes, Preferred, Usable
  <2> QED
    BY <2>2, <2>4 DEF Validates, OfflineIsLocal
<1> QED
  BY <1>1, AlwaysIInv, PTL DEF Spec, RecommendedIsAccepted

-----------------------------------------------------------------------------
(* Every draft runs down *)

\* How many steps a draft has before it at most: its classification, the choice
\* between the drafters and the loop, the turns, and the answer.
StepsLeft ==
  CASE at = "classifying" -> Limit + 3
    [] at = "drafting"    -> Limit + 2
    [] at = "locating"    -> Limit - turn + 1
    [] at = "idle"        -> 0

LEMMA StepsTypes ==
  ASSUME IInv
  PROVE  /\ StepsLeft \in 0..(Limit + 3)
         /\ at # "idle" => StepsLeft > 0
<1>1. Limit \in Nat /\ turn \in 0..Limit
      /\ at \in {"idle", "classifying", "drafting", "locating"}
  BY DraftingAssumption DEF Limit, IInv, TypeOK
<1> QED
  BY <1>1 DEF StepsLeft

\* While a draft is under way its request stays, and with it its limit.
LEMMA LimitStays ==
  ASSUME IInv, [Next]_vars, at # "idle"
  PROVE  Limit' = Limit /\ (DraftStep \/ UNCHANGED <<at, turn>>)
<1>1. status # "none"
  BY DraftIsAccepted
<1>2. request' = request
  BY <1>1 DEF Next, Recommend, Submit, UserEdits, Leave, Begin, DraftStep, Classified,
     RootMissing, PlanFound, NoPlanFound, UsesTools, FindsNothing, Locates, RouteRaises, task, vars
<1>3. DraftStep \/ UNCHANGED <<at, turn>>
  BY <1>1 DEF Next, Recommend, Submit, UserEdits, Leave, Begin, loop, vars
<1> QED
  BY <1>2, <1>3 DEF Limit, IsCloud

\* A step of its own brings a draft nearer to its answer.
LEMMA DraftStepsDown ==
  ASSUME IInv, DraftStep, Limit' = Limit
  PROVE  StepsLeft' < StepsLeft
<1>1. Limit \in Nat /\ turn \in 0..Limit
      /\ at \in {"idle", "classifying", "drafting", "locating"}
  BY DraftingAssumption DEF Limit, IInv, TypeOK
<1>2. ASSUME at # "idle", at' = "idle" PROVE StepsLeft' < StepsLeft
  <2>1. StepsLeft' = 0
    BY <1>2 DEF StepsLeft
  <2> QED
    BY <1>1, <1>2, <2>1, StepsTypes
<1>3. CASE Classified
  <2>1. at = "classifying" /\ at' = "drafting"
    BY <1>3 DEF Classified
  <2> QED
    BY <1>1, <2>1 DEF StepsLeft
<1>4. CASE RootMissing \/ PlanFound \/ FindsNothing \/ RouteRaises \/ \E f \in Files : Locates(f)
  BY <1>2, <1>4 DEF RootMissing, PlanFound, FindsNothing, RouteRaises, Locates, EndWith
<1>5. CASE NoPlanFound
  <2>1. at = "drafting" /\ (at' = "idle" \/ (at' = "locating" /\ turn' = 0))
    BY <1>5 DEF NoPlanFound, EndWith
  <2>2. CASE at' = "idle"
    BY <1>2, <2>1, <2>2
  <2>3. CASE at' = "locating" /\ turn' = 0
    BY <1>1, <2>1, <2>3 DEF StepsLeft
  <2> QED
    BY <2>1, <2>2, <2>3
<1>6. CASE UsesTools
  <2>1. at = "locating" /\ at' = "locating" /\ turn' = turn + 1
    BY <1>6 DEF UsesTools
  <2> QED
    BY <1>1, <2>1 DEF StepsLeft
<1> QED
  BY <1>3, <1>4, <1>5, <1>6 DEF DraftStep

\* The safety half of DraftAnswers, and the bound of what a draft may cost: it ends
\* within Limit + 3 steps of its own, each at most one call of a model, however the
\* user edits the project and whatever becomes of the task meanwhile.
DraftsAdvance ==
  [][at # "idle" =>
       /\ DraftStep => StepsLeft' < StepsLeft
       /\ StepsLeft' <= StepsLeft
       /\ StepsLeft \in 1..(Limit + 3)]_vars

\* Every draft runs down: what DraftAnswers takes beyond it is only that each call
\* of a model returns and the request thread is scheduled.
THEOREM DraftsRunDown == Spec => DraftsAdvance
<1> DEFINE Advances ==
      at # "idle" =>
        /\ DraftStep => StepsLeft' < StepsLeft
        /\ StepsLeft' <= StepsLeft
        /\ StepsLeft \in 1..(Limit + 3)
<1>1. IInv /\ [Next]_vars => Advances
  <2> SUFFICES ASSUME IInv, [Next]_vars, at # "idle"
               PROVE  /\ DraftStep => StepsLeft' < StepsLeft
                      /\ StepsLeft' <= StepsLeft
                      /\ StepsLeft \in 1..(Limit + 3)
    OBVIOUS
  <2>1. Limit' = Limit /\ (DraftStep \/ UNCHANGED <<at, turn>>)
    BY LimitStays
  <2>2. StepsLeft \in 1..(Limit + 3) /\ StepsLeft \in Int
    BY StepsTypes, DraftingAssumption DEF Limit
  <2>3. StepsLeft' \in Int
    <3>1. (StepsLeft \in 0..(Limit + 3))'
      BY NextIInv, StepsTypes, PTL
    <3> QED
      BY <3>1, DraftingAssumption DEF Limit
  <2>4. ASSUME UNCHANGED <<at, turn>> PROVE StepsLeft' <= StepsLeft
    <3>1. StepsLeft' = StepsLeft
      BY <2>1, <2>4 DEF StepsLeft
    <3> QED
      BY <2>2, <2>3, <3>1
  <2> QED
    BY <2>1, <2>2, <2>3, <2>4, DraftStepsDown
<1> QED
  BY <1>1, AlwaysIInv, PTL DEF Spec, DraftsAdvance

=============================================================================
