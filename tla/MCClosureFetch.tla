--------------------------- MODULE MCClosureFetch ---------------------------
(***************************************************************************)
(* ClosureFetch over seven inputs, at most five store paths and two jobs. *)
(***************************************************************************)
EXTENDS ClosureFetch, TLC

CONSTANTS bash, glibc, gcc, curl, git, hello, badName

AllOk == [p \in Paths |-> "ok"]
Root(p, m) == [path |-> p, program |-> m]
Refs(x, y, z) == (bash :> x) @@ (glibc :> y) @@ (gcc :> z) @@ (curl :> {}) @@ (git :> {})

(***************************************************************************)
(* A cycle through all paths, with a shared reference, from two roots.     *)
(***************************************************************************)
Cyclic ==
  [input |-> <<Root(bash, NoProgram), Root(glibc, hello)>>,
   refs |-> Refs({glibc, gcc}, {bash, gcc}, {bash}), narinfo |-> AllOk,
   ls |-> AllOk, shallow |-> FALSE]

(***************************************************************************)
(* A root that another root refers to, listed again later with a program;  *)
(* the cache lacks its listing, and lacks the narinfo of the shared one.   *)
(***************************************************************************)
LateProgram ==
  [input |-> <<Root(glibc, NoProgram), Root(bash, NoProgram), Root(bash, hello), Root(bash, badName)>>,
   refs |-> Refs({gcc}, {bash, gcc}, {}),
   narinfo |-> [AllOk EXCEPT ![gcc] = "not_found"],
   ls |-> [AllOk EXCEPT ![bash] = "not_found"], shallow |-> FALSE]

(***************************************************************************)
(* Failing requests: a path with an unusable program, one that errors.     *)
(***************************************************************************)
Failing ==
  [input |-> <<Root(bash, badName), Root(glibc, hello)>>,
   refs |-> Refs({glibc}, {gcc}, {bash}),
   narinfo |-> [AllOk EXCEPT ![glibc] = "error"],
   ls |-> [AllOk EXCEPT ![bash] = "not_found", ![glibc] = "not_found"],
   shallow |-> FALSE]

(***************************************************************************)
(* A missing narinfo gives a synthetic listing and hides the references.   *)
(***************************************************************************)
Hidden ==
  [input |-> <<Root(bash, hello)>>,
   refs |-> Refs({glibc}, {gcc}, {}),
   narinfo |-> [AllOk EXCEPT ![bash] = "not_found"],
   ls |-> AllOk, shallow |-> FALSE]

Shallow == [Cyclic EXCEPT !.shallow = TRUE, !.ls = [AllOk EXCEPT ![glibc] = "not_found"]]

(***************************************************************************)
(* More listings than the channel holds: tasks wait for the build.         *)
(***************************************************************************)
Flood ==
  [Cyclic EXCEPT !.shallow = TRUE,
                 !.input = <<Root(bash, hello), Root(glibc, hello), Root(gcc, hello),
                             Root(curl, NoProgram), Root(git, NoProgram)>>]

Empty == [Cyclic EXCEPT !.input = << >>]

MCWorlds == {Cyclic, LateProgram, Failing, Hidden, Shallow, Flood, Empty}
=============================================================================
