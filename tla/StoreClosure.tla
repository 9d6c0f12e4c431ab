---------------------------- MODULE StoreClosure ----------------------------
(***************************************************************************)
(* The input of one index build as far as the listing fetcher can tell it  *)
(* apart: the packages the evaluator streams in, what the binary cache     *)
(* answers for every store path, and whether the build recurses into       *)
(* runtime dependencies.  The operators say what such an input determines: *)
(* the closure of the roots and the listing each path of it deserves.      *)
(***************************************************************************)
EXTENDS Naturals, Sequences, FiniteSets

CONSTANTS
  Paths,          \* store-path hashes
  Programs,       \* values of the main_program attribute
  ValidPrograms,  \* those that are a single safe file name
  NoProgram,      \* main_program: None
  Tree,           \* a listing fetched from the cache
  NoItem,         \* process_path returned None
  Worlds          \* the inputs under study

Answers == {"ok", "not_found", "error"}

(***************************************************************************)
(* A package entry names a store path, says whether it is a top-level      *)
(* package (every entry of the evaluator is), and may name a program.      *)
(***************************************************************************)
Entry == [path : Paths, program : Programs \cup {NoProgram}, toplevel : BOOLEAN]

Item == [path : Paths, toplevel : BOOLEAN, body : Programs \cup {Tree}]

IsWorld(w) ==
  /\ w.input \in Seq([path : Paths, program : Programs \cup {NoProgram}])
  /\ w.refs \in [Paths -> SUBSET Paths]
  /\ w.narinfo \in [Paths -> Answers]
  /\ w.ls \in [Paths -> Answers]
  /\ w.shallow \in BOOLEAN

ASSUME WorldsAssumption == \A w \in Worlds : IsWorld(w)
ASSUME PathsAssumption == IsFiniteSet(Paths)
ASSUME ProgramsAssumption ==
  /\ ValidPrograms \subseteq Programs
  /\ NoProgram \notin Programs
  /\ Tree \notin Programs
  /\ NoItem \notin Item

-----------------------------------------------------------------------------
RootPaths(w) == {w.input[i].path : i \in DOMAIN w.input}

(***************************************************************************)
(* The references that a listing run follows from p.                       *)
(***************************************************************************)
Follows(w, p) ==
  IF ~w.shallow /\ w.narinfo[p] = "ok" THEN w.refs[p] ELSE {}

ClosedUnder(w, S) == \A p \in S : Follows(w, p) \subseteq S

(***************************************************************************)
(* The least set of paths that holds the roots and follows references.     *)
(***************************************************************************)
Closure(w) ==
  {p \in Paths : \A S \in SUBSET Paths :
                   RootPaths(w) \subseteq S /\ ClosedUnder(w, S) => p \in S}

(***************************************************************************)
(* The main program of p after the first n entries of the input: the       *)
(* first one that an entry of p names.                                     *)
(***************************************************************************)
NamesProgram(w, n, p) ==
  {i \in 1..n : w.input[i].path = p /\ w.input[i].program # NoProgram}

MainProgram(w, n, p) ==
  IF NamesProgram(w, n, p) = {} THEN NoProgram
  ELSE w.input[CHOOSE i \in NamesProgram(w, n, p) :
                 \A j \in NamesProgram(w, n, p) : i <= j].program

(***************************************************************************)
(* What an entry of p yields when its main program is m: the listing of    *)
(* the cache; when the cache has no narinfo or no listing, a synthetic     *)
(* /bin/<m>; nothing on any other failure.                                 *)
(***************************************************************************)
Body(w, p, m) ==
  LET synthetic == IF m \in ValidPrograms THEN m ELSE NoItem
      reached   == w.shallow \/ w.narinfo[p] = "ok"
  IN  IF reached /\ w.ls[p] = "ok" THEN Tree
      ELSE IF (IF reached THEN w.ls[p] ELSE w.narinfo[p]) = "not_found"
           THEN synthetic
           ELSE NoItem

Listing(w, p) ==
  LET body == Body(w, p, MainProgram(w, Len(w.input), p))
  IN  IF body = NoItem THEN NoItem
      ELSE [path |-> p, toplevel |-> p \in RootPaths(w), body |-> body]

Listings(w) == {Listing(w, p) : p \in Closure(w)} \ {NoItem}

ClosureOf == [w \in Worlds |-> Closure(w)]
Wanted == [w \in Worlds |-> Listings(w)]
=============================================================================
