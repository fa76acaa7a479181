------------------------------- MODULE FlowFiles -------------------------------
(***************************************************************************)
(* What `ringo-flow run` runs: the frontend that is chosen for the paths   *)
(* on the command line, the scenario files found below a directory, and    *)
(* the filters (script/mod.rs, script/js/mod.rs, script/rhai/mod.rs,       *)
(* engine/run.rs).                                                         *)
(*                                                                         *)
(* A file is a number, its place in the sorted order of the paths.  The    *)
(* arguments name some files, and a directory with those that are in it.   *)
(***************************************************************************)
EXTENDS Naturals, Sequences, FiniteSets, SequencesExt

CONSTANTS
  Disk,     \* the files: what is written in each
  Asked,    \* the arguments a run can have: [files, dir]
  Filtering \* the filters a run can have: [name, tags, exclude]

Files == DOMAIN Disk

ASSUME FlowFilesAssumption ==
  /\ Files \subseteq Nat
  /\ \A f \in Files : Disk[f].infos \in Seq(ToSet(Disk[f].infos))
  /\ \A args \in Asked :
       /\ args.files \subseteq Files /\ IsFiniteSet(args.files)
       /\ args.dir \subseteq Files /\ IsFiniteSet(args.dir)

\* A file that can be read by the frontend of its extension registers infos.
Info(name, tags, skip, only) == [name |-> name, tags |-> tags, skip |-> skip, only |-> only]

ContainsJs(args) == \E f \in args.files \cup args.dir : Disk[f].ext = "js"
DetectLang(args) == IF ContainsJs(args) THEN "js" ELSE "rhai"

\* Below a directory the JavaScript frontend takes every file, and follows links.
JsDir(dir) == {f \in dir : Disk[f].ext = "js"}

\* The Rhai frontend follows no link, and leaves out files without scenarios.
DirShouldRun(f) == ~Disk[f].parses \/ Disk[f].infos # << >>
RhaiDir(dir) == {f \in dir : Disk[f].ext = "rhai" /\ ~Disk[f].linked /\ DirShouldRun(f)}

\* Each path once, whatever the arguments repeat.
Sorted(S) == CHOOSE s \in [1 .. Cardinality(S) -> S] : \A i, j \in DOMAIN s : i < j => s[i] < s[j]

JsFiles(args) == Sorted(args.files \cup JsDir(args.dir))
RhaiFiles(args) == Sorted(args.files \cup RhaiDir(args.dir))
CollectFiles(l, args) == IF l = "js" THEN JsFiles(args) ELSE RhaiFiles(args)

\* The frontend is one for the whole run, whatever the other files are.
Parses(l, f) == Disk[f].parses /\ Disk[f].ext = l

\* Rhai compiles a file when the host is built.
RhaiBuilds(f) == Parses("rhai", f)
\* A JavaScript file is compiled in its top-level pass.
Builds(l, f) == l = "js" \/ RhaiBuilds(f)

-----------------------------------------------------------------------------
(* --scenario, --tag and --exclude-tag                                     *)

IsActive(fs) == fs.name # {} \/ fs.tags # {} \/ fs.exclude # {}

\* The pattern given with --scenario is the set of names that match it.
NameMatches(fs, info) == fs.name = {} \/ info.name \in fs.name

Selects(fs, info) ==
  /\ NameMatches(fs, info)
  /\ fs.tags = {} \/ info.tags \cap fs.tags # {}
  /\ info.tags \cap fs.exclude = {}
=============================================================================
