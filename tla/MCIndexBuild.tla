---------------------------- MODULE MCIndexBuild ----------------------------
(***************************************************************************)
(* IndexBuild over three store paths, a root pass and a scope.             *)
(***************************************************************************)
EXTENDS IndexBuild, TLC

CONSTANTS a, b, c, hello

Steady(o) == [i \in 1..MaxAttempts |-> o]
Out(p) == <<[path |-> p, out |-> TRUE]>>
Package(name, outputs) ==
  [decoded |-> TRUE, available |-> TRUE, attr |-> name, outputs |-> outputs, program |-> hello]
Unavailable == [Package("u", Out(c)) EXCEPT !.available = FALSE]
Garbled == [Package("g", Out(c)) EXCEPT !.decoded = FALSE]

Run(ls) == [valid |-> TRUE, starts |-> TRUE, lines |-> ls, exit |-> "ok"]

(***************************************************************************)
(* Two packages and a line to skip, a scope that fails, a scope that adds  *)
(* a package; a listing that needs a second attempt.                       *)
(***************************************************************************)
Scopes ==
  [passes |-> <<Run(<<Package("a", Out(a)), Garbled>>),
                [Run(<< >>) EXCEPT !.exit = "failed"], Run(<<Package("b", Out(b))>>)>>,
   select |-> FALSE, mainProgram |-> TRUE, onlyEval |-> FALSE, pathCache |-> TRUE,
   force |-> FALSE, shallow |-> FALSE, nixpkgs |-> "stable", ttl |-> 1,
   refs |-> (a :> {c}) @@ (b :> {}) @@ (c :> {a}),
   narinfo |-> [p \in Paths |-> Steady(IF p = b THEN "missing" ELSE "ok")],
   ls |-> (a :> [Steady("ok") EXCEPT ![1] = "server"]) @@ (b :> Steady("missing")) @@ (c :> Steady("ok"))]

(***************************************************************************)
(* The same packages later: the cache no longer answers for some of them.  *)
(***************************************************************************)
Later == [Scopes EXCEPT !.select = TRUE,
            !.passes = <<Run(<<Unavailable, Package("a", <<[path |-> a, out |-> TRUE], [path |-> b, out |-> FALSE]>>)>>),
                         Run(<<Package("c", Out(c))>>)>>,
            !.narinfo = (a :> Steady("transient")) @@ (b :> Steady("missing")) @@ (c :> Steady("client")),
            !.ls = [p \in Paths |-> Steady("garbled")]]

OnlyEval == [Later EXCEPT !.onlyEval = TRUE, !.select = FALSE]
Forced == [Scopes EXCEPT !.nixpkgs = "unstable", !.shallow = TRUE, !.select = TRUE]
NoStart == [Scopes EXCEPT !.passes = <<[Run(<< >>) EXCEPT !.starts = FALSE]>>, !.force = TRUE]
Invalid == [Scopes EXCEPT !.pathCache = FALSE, !.passes = <<Run(<<Package("a", Out(a)), Package("b", Out(b))>>), [Run(<< >>) EXCEPT !.valid = FALSE]>>]
FailsAtOnce == [NoStart EXCEPT !.passes = <<[Run(<< >>) EXCEPT !.exit = "failed"]>>]
Unreadable == [Invalid EXCEPT !.passes[1].exit = "unreadable"]

MCInputs == {Unreadable, Scopes, Later, OnlyEval, Forced, NoStart, Invalid, FailsAtOnce}
=============================================================================
