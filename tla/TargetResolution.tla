-------------------------- MODULE TargetResolution --------------------------
(***************************************************************************)
(* Which files a plan is about: the resolution ladder of                   *)
(* wisense_os/file_finder.py and the two drafters of wisense_os/plan.py,   *)
(* as operators on the files that exist.                                   *)
(*                                                                         *)
(* A text is the sequence of the names it mentions.  What a name means and *)
(* what is read in it are two things, and it is read with two patterns:    *)
(* _FILENAME takes a backslash for a slash, _PY_FILE stops at it, and both *)
(* read only the tail of a name with a space.  What else the ladder finds  *)
(* out by reading files and comparing words is a parameter: best, the      *)
(* files with the highest identifier score, and alike, the files whose     *)
(* stem resembles a word.                                                  *)
(***************************************************************************)
EXTENDS Naturals, FiniteSets

CONSTANTS
  Files,        \* project-relative names of source files
  Python,       \* those that end in .py
  Tests,        \* Python files with the name of a test
  BaseName,     \* their last components
  ByConvention, \* tests called test_<stem>.py or <stem>_test.py of a file
  Importers,    \* tests that import a file
  Names,        \* file names as they are spelled in a text
  Means,        \* the file a name means, existing or not
  Filename,     \* the file that _FILENAME reads in it, of file_finder.py
  PyFile,       \* the file that _PY_FILE reads in it, of plan.py
  ApiFiles,     \* files called api.py that use Flask
  Fixtures,     \* tests under tests/ that use test_client
  None

Impls == Python \ Tests

ASSUME FilesAssumption ==
  /\ IsFiniteSet(Files)
  /\ Python \subseteq Files /\ Tests \subseteq Python
  /\ None \notin Files
  /\ ByConvention \in [Impls -> SUBSET Tests]
  /\ Importers \in [Impls -> SUBSET Tests]
  \* A file that was found is written into the text by its own name.
  /\ Files \subseteq Names /\ Means \in [Names -> Files] /\ \A f \in Files : Means[f] = f
  \* A pattern may read nothing in a name, or a file that no project has.
  /\ Filename \in [Names -> Files \cup {None}]
  /\ PyFile \in [Names -> Python \cup {None}]
  /\ ApiFiles \subseteq Impls /\ Fixtures \subseteq Tests

Mentioned(text) == {text[i] : i \in DOMAIN text}

\* A name is read as what it means: in full by _FILENAME, and by _PY_FILE as
\* well if it is that of a Python file.
ReadAsMeant(n) ==
  /\ Filename[n] = Means[n]
  /\ PyFile[n] = (IF Means[n] \in Python THEN Means[n] ELSE None)

\* The element of a set of one, and nothing otherwise: the resolution refuses
\* rather than guesses.
Only(S) == IF Cardinality(S) = 1 THEN CHOOSE f \in S : TRUE ELSE None

-----------------------------------------------------------------------------
(* file_finder.py *)

SameName(f, disk) == {g \in disk : BaseName[g] = BaseName[f]}

\* A mention stands for the file it names, or for the only one of that name.
Meant(f, disk) == IF f \in disk THEN f ELSE Only(SameName(f, disk))

\* Where a text has a name for _FILENAME.
Matches(text) == {i \in DOMAIN text : Filename[text[i]] # None}

\* The first mention that stands for a file.
Explicit(text, disk) ==
  LET hits == {i \in Matches(text) : Meant(Filename[text[i]], disk) # None} IN
  IF hits = {}
    THEN None
    ELSE Meant(Filename[text[CHOOSE i \in hits : \A j \in hits : i <= j]], disk)

\* resolve_target_file: a file, or files it is tied between, or neither.
Resolved(f) == [file |-> f, tied |-> {}]
Tied(S)     == [file |-> None, tied |-> S]

Resolve(text, disk, best, alike) ==
  LET f == Explicit(text, disk) IN
  CASE f # None -> Resolved(f)
    [] f = None /\ best # {} ->
         IF Only(best) # None THEN Resolved(Only(best)) ELSE Tied(best)
    \* A name that was not found is not replaced by one that looks like it.
    [] OTHER -> Resolved(IF Matches(text) = {} THEN Only(alike) ELSE None)

\* What an identifier search or a look at the stems may bring up: nothing, one
\* file, or a tie; between which files does not matter.
Finds(disk) == {{}, disk} \cup {{f} : f \in disk}

\* Everything the ladder may say of a text: identifiers are searched when no
\* mention stands for a file, and stems are looked at when there is no mention
\* and the identifiers bring up nothing.
Resolutions(text, disk) ==
  IF Explicit(text, disk) # None
    THEN {Resolve(text, disk, {}, {})}
    ELSE {Resolve(text, disk, best, {}) : best \in Finds(disk)}
         \cup (IF Matches(text) = {}
                 THEN {Resolve(text, disk, {}, alike) : alike \in Finds(disk)}
                 ELSE {})

-----------------------------------------------------------------------------
(* plan.py *)

Plans   == [impl : Impls, test : Tests]
Reasons == {"needs_one_named_file", "ambiguous", "test_not_found"}

\* A draft is a plan, or the reason why there is none.
Drafted(impl, test) == [plan |-> [impl |-> impl, test |-> test], reason |-> "ok"]
Refused(why)        == [plan |-> None, reason |-> why]

\* draft_evidence_plan: for a request that spells out an endpoint.  The first
\* files in directory order; here any.
EvidenceDrafts(disk) ==
  {Drafted(i, t) : i \in ApiFiles \cap disk, t \in Fixtures \cap disk}

\* _named_existing_py_files
NamedFiles(text, disk) == {PyFile[n] : n \in Mentioned(text)} \cap disk

NamedImpls(text, disk) == NamedFiles(text, disk) \cap Impls
NamedTests(text, disk) == NamedFiles(text, disk) \cap Tests

\* Variant: of several tests that import the file, one will do.
FirstOf(S) == IF S # {} THEN CHOOSE f \in S : TRUE ELSE None
LocateAnyTest(impl, text, disk) ==
  LET named == NamedTests(text, disk)
      usual == ByConvention[impl] \cap disk
  IN
  CASE named # {} -> Only(named)
    [] named = {} /\ usual # {} -> Only(usual)
    [] OTHER -> FirstOf(Importers[impl] \cap disk)

\* _locate_test_for: the strongest signal there is decides, or nothing does.
LocateTest(impl, text, disk) ==
  LET named == NamedTests(text, disk)
      usual == ByConvention[impl] \cap disk
  IN
  CASE named # {} -> Only(named)
    [] named = {} /\ usual # {} -> Only(usual)
    [] OTHER -> Only(Importers[impl] \cap disk)

\* Variant: of several files that are named, one will do.
FirstNamed(impls) == FirstOf(impls)

\* Of the named files that are not tests, there has to be one.
NamedTarget(impls) == Only(impls)

\* draft_edit_plan: without a named file the ladder decides, and what it finds
\* must not be a test or something else than Python.
EditDraft(text, disk, resolved) ==
  LET impls  == NamedImpls(text, disk)
      target == IF impls # {} THEN NamedTarget(impls) ELSE resolved.file
      test   == LocateTest(target, text, disk)
  IN
  CASE impls = {} /\ resolved.tied # {} -> Refused("ambiguous")
    [] (impls # {} \/ resolved.tied = {}) /\ target \notin Impls ->
         Refused("needs_one_named_file")
    [] target \in Impls /\ test = None -> Refused("test_not_found")
    [] OTHER -> Drafted(target, test)

EditDrafts(text, disk) == {EditDraft(text, disk, r) : r \in Resolutions(text, disk)}

=============================================================================
