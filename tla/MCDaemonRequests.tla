-------------------------- MODULE MCDaemonRequests --------------------------
(***************************************************************************)
(* Two servers, two clients and four generations of an index: packages    *)
(* change places and files, two lack the metadata and the command index,   *)
(* and in one a package has two records.                                   *)
(***************************************************************************)
EXTENDS DaemonRequests

CONSTANTS absent

File(p, t) == [path |-> p, type |-> t]
Pkg(attr, top, files) == [attr |-> attr, output |-> "out", toplevel |-> top, files |-> files]

GitFiles == {File(<<"bin", "git">>, "x"), File(<<"share", "git", "doc">>, "r")}
Git == Pkg("git", TRUE, GitFiles)
Full == Pkg("gitFull", TRUE, {File(<<"bin", "git">>, "s"), File(<<"sbin", "ip">>, "x")})
Py == Pkg("py.ip", FALSE, {File(<<"bin", "ip">>, "x"), File(<<"share", "git">>, "d")})

(* Letters: G is 71, g is 103, i is 105, t is 116; a dot is 46.            *)
Record(attr, description, program) ==
  [attr |-> attr, name |-> attr, description |-> description, main_program |-> program]
RGit == Record(<<103, 105, 116>>, absent, <<103, 105, 116>>)
RGI  == Record(<<71, 105>>, <<103, 105, 116>>, absent)
Rgi  == Record(<<103, 105>>, absent, absent)
Rx   == Record(<<116, 46, 103, 105>>, <<103, 105>>, <<103, 105>>)
Rt   == Record(<<116>>, <<103, 105>>, <<103, 105>>)

Directory(pkgs, meta, command, extra) ==
  [packages |-> pkgs, meta |-> meta, command |-> command, extra |-> extra]
TheDir ==
  <<Directory(<<Git, Py>>, <<RGit, RGI, Rgi, Rx, Rt, Rgi>>, "ok", TRUE),
    Directory(<<Py, Full, Git>>, Nil, "ok", FALSE),
    Directory(<<Full, Git>>, <<Rx, RGI>>, "missing", FALSE),
    Directory(<<Git>>, Nil, "unreadable", TRUE)>>

Locate(pattern, rooted, minimal, all, group, limit, daemon) ==
  [kind |-> "nix-locate", pattern |-> pattern, rooted |-> rooted, minimal |-> minimal,
   all |-> all, group |-> group, limit |-> limit, daemon |-> daemon, token |-> ~all]
Command(name, mode) == [kind |-> "command", name |-> name, mode |-> mode]

Query(pattern, regex, field, sensitive, exact, fuzzy, sort, limit) ==
  [pattern |-> pattern, regex |-> regex, field |-> field, sensitive |-> sensitive,
   exact |-> exact, fuzzy |-> fuzzy, sort |-> sort, limit |-> limit]
TheSearches ==
  {Query(p, FALSE, "attr", se, ex, FALSE, "none", Nil) :
     p \in {<<103, 105>>, <<71, 105>>}, se \in BOOLEAN, ex \in BOOLEAN}
  \cup {Query(<<103, AnyChar>>, TRUE, "both", se, ex, FALSE, "none", 2) :
     se \in BOOLEAN, ex \in BOOLEAN}
  \cup {Query(<<103, 105>>, FALSE, "both", FALSE, FALSE, fu, so, 2) :
     fu \in BOOLEAN, so \in {"none", "reverse"}}
  \cup {Query(<<103, 105>>, FALSE, "main_program", FALSE, TRUE, FALSE, so, Nil) :
     so \in {"none", "attr", "name-desc"}}
  \cup {Query(<<103, 105>>, FALSE, "description", FALSE, FALSE, TRUE, "main-program-desc", 99)}

(* frizbee: the characters in their order; a whole match counts most.      *)
Fuzzy(t, p, sensitive) ==
  LET v == Cased(t, sensitive) w == Cased(p, sensitive)
  IN IF v = w THEN 3 ELSE IF OccursIn(v, w, sensitive) THEN 2 ELSE 0

(***************************************************************************)
(* Two that may both start a daemon, and calls that are made alone.        *)
(***************************************************************************)
Singles ==
  {Locate(<<"git">>, FALSE, m, TRUE, TRUE, 3, TRUE) : m \in BOOLEAN}
  \cup {Locate(<<"git">>, FALSE, m, TRUE, g, 3, FALSE) : m \in BOOLEAN, g \in BOOLEAN}
  \cup {Locate(<<"git">>, FALSE, FALSE, FALSE, TRUE, 99, TRUE)}
  \cup {Locate(<<"bin">>, TRUE, FALSE, a, FALSE, Nil, d) : a \in BOOLEAN, d \in BOOLEAN}
  \cup {Locate(<<"share", "git">>, TRUE, FALSE, TRUE, TRUE, Nil, TRUE)}
  \cup {Command("git", mode) : mode \in {"print", "install", "run", "interactive"}}
  \cup {Command("ip", mode) : mode \in {"run", "interactive"}}
  \cup {[kind |-> "search", q |-> q, token |-> TRUE] : q \in TheSearches}
  \cup {[kind |-> "info", attr |-> a, token |-> TRUE] : a \in {<<103, 105>>, <<71, 105>>, <<103, 73>>}}
  \cup {[kind |-> k, name |-> "git", token |-> t] :
         k \in {"locate", "sidecar", "stats"}, t \in BOOLEAN}

TheWorkloads ==
  {<<Locate(<<"bin">>, TRUE, FALSE, FALSE, FALSE, Nil, TRUE),
     Locate(<<"git">>, FALSE, TRUE, TRUE, TRUE, Nil, TRUE)>>}
  \cup {<<c, Nil>> : c \in Singles}
=============================================================================
