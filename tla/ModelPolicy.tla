---------------------------- MODULE ModelPolicy ----------------------------
(***************************************************************************)
(* Which model may serve a request, which one is recommended for it, and   *)
(* what kind of request it is: wisense_os/model_policy.py,                 *)
(* wisense_os/router.py and wisense_os/intent.py as operators.             *)
(***************************************************************************)
EXTENDS FiniteSets

CONSTANTS
  Models,        \* names of configured profiles
  CloudModels,   \* those whose profile says cloud
  CloudNames,    \* those whose name says cloud (is_cloud_model)
  ChatModels,    \* those with the role chat
  BuilderModels, \* those with the role builder
  Nobody         \* the empty model name

ASSUME PolicyAssumption ==
  /\ CloudModels \cup CloudNames \cup ChatModels \cup BuilderModels \subseteq Models
  /\ Nobody \notin Models

Modes == {"ask_before_changes", "talk_only", "local_autopilot"}

\* Variant: only the builder is looked at.
BuilderIsLocal(q) == q.offline => q.builder \notin CloudModels

OfflineIsLocal(q) == q.offline => q.chat \notin CloudModels /\ q.builder \notin CloudModels

\* ModelRegistry.validate, for request q with the models in avail available.
Validates(q, avail) ==
  /\ q.chat \in avail \cap ChatModels
  /\ q.builder \in avail \cap BuilderModels
  /\ OfflineIsLocal(q)
  /\ q.mode = "local_autopilot" => q.builder \notin CloudModels

-----------------------------------------------------------------------------
(* router.py *)

\* Someone of S, else someone of T, else nobody.  The first by name; here any.
Preferred(S, T) ==
  IF S # {} THEN S ELSE IF T # {} THEN T ELSE {Nobody}

\* Variant: unavailable profiles are recommended too.
Configured(avail) == Models

Usable(avail) == avail

\* recommend_route, for a request that looks simple or complex: one of these.
Routes(complex, avail) ==
  LET chats    == Usable(avail) \cap ChatModels
      builders == Usable(avail) \cap BuilderModels
      cloud    == builders \cap CloudModels
  IN
  [chat    : Preferred(chats \ CloudModels, chats),
   builder : IF complex THEN Preferred(cloud, builders)
                        ELSE Preferred(builders \ CloudModels, builders)]

-----------------------------------------------------------------------------
(* intent.py *)

TaskKinds == {"edit", "create", "review", "audit"}
TalkKinds == {"question", "chat"}
Kinds     == TaskKinds \cup TalkKinds

Wordings == {"audit", "create", "edit", "question"}

\* classify_intent_floor: which wordings the text has, and whether it has a
\* target.
FloorKind(words, targeted) ==
  CASE "audit" \in words -> "audit"
    [] "audit" \notin words /\ "create" \in words -> "create"
    [] words \cap {"audit", "create"} = {}
         /\ ("edit" \in words \/ (targeted /\ "question" \notin words)) -> "edit"
    [] words = {"question"} -> "question"
    [] OTHER -> "chat"

\* Variant: what the model says goes.
ModelDecides(floor, opinion) == opinion

\* merge_intent, for a model's opinion that is valid.
Merge(floor, opinion) ==
  IF \/ floor \in TaskKinds /\ opinion \in TalkKinds
     \/ floor \in {"edit", "create"} /\ opinion \in TaskKinds
    THEN floor
    ELSE opinion

=============================================================================
