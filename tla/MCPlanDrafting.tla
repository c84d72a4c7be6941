--------------------------- MODULE MCPlanDrafting ---------------------------
(***************************************************************************)
(* An instance of PlanDrafting for TLC.                                    *)
(***************************************************************************)
EXTENDS PlanDrafting

CONSTANTS api, sub, my, lib, tapi, tflow, tmisc, doc, bsub, bflow, l, c, g, n

\* sub/api.py has the name and the stem of api.py; my is "my api.py"; two tests
\* import lib.py; doc is not Python.
Base == [f \in Files |-> IF f = sub THEN api ELSE f]
Usual == [f \in Impls |-> IF f \in {api, sub} THEN {tapi} ELSE {}]
Users == [f \in Impls |-> CASE f = lib -> {tflow, tmisc} [] f = my -> {} [] OTHER -> {tflow}]

\* bsub is sub\api.py and bflow is tests\test_flow.py, whose tails after the
\* backslash are the names of api.py and of no file.
Spelled == Files \cup {bsub, bflow}
Meaning == [x \in Spelled |-> CASE x = bsub -> sub [] x = bflow -> tflow [] OTHER -> x]
InFull  == [x \in Spelled |-> IF x = my THEN api ELSE Meaning[x]]
BareTail   == [x \in Spelled |->
              CASE x \in {my, bsub} -> api [] x \in Python \ {my} -> x [] OTHER -> None]

Texts == {<<>>, <<api>>, <<sub>>, <<lib>>, <<doc>>, <<tflow>>, <<api, lib>>,
          <<lib, tflow>>, <<tmisc, tflow, lib>>, <<bsub>>, <<lib, bflow>>}

\* l is local; c is a cloud model; g is one that is not called so; n is a local
\* model with a cloud name.  Every text is sent with a local model, and one of
\* them with every chat model, offline and not, with either builder, on autopilot.
Plain ==
  [text : Texts, endpoint : {FALSE}, mode : {"ask_before_changes"}, offline : {FALSE},
   chat : {l}, builder : {l}]

Mixed ==
  [text : {<<>>}, endpoint : {FALSE}, mode : {"ask_before_changes"}, offline : BOOLEAN,
   chat : Models, builder : {l}]
  \cup
  [text : {<<lib>>}, endpoint : {TRUE}, mode : {"ask_before_changes", "local_autopilot"},
   offline : {FALSE}, chat : {l, c}, builder : {c, Nobody}]

Sent == Plain \cup Mixed

Reported == {Models, {c, g}}

Trees ==
  {{}, Files, {lib, tflow}, {api, sub, tapi, tflow}, {sub, tflow, doc}, {lib, tflow, tmisc, tapi}}
=============================================================================
