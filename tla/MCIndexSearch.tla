--------------------------- MODULE MCIndexSearch ---------------------------
(* Two indexes over three characters, with trigrams of two.                *)
EXTENDS IndexSearch

Text(s) == CASE s = "a" -> <<"a">> [] s = "ab" -> <<"a", "b">> [] s = "/a" -> <<"/", "a">>
             [] s = "/ab" -> <<"/", "a", "b">> [] s = "b/a" -> <<"b", "/", "a">>
             [] s = "/b/a" -> <<"/", "b", "/", "a">> [] s = "/b" -> <<"/", "b">>
             [] s = "" -> <<>> [] s = "/bab" -> <<"/", "b", "a", "b">>
             [] s = "/b/ab" -> <<"/", "b", "/", "a", "b">>

Package(top, files) == [top |-> top, files |-> [p \in {Text(s) : s \in files} |-> Len(p)]]

MCIndexes ==
  { [packages |-> <<Package(TRUE, {"/a", "/ab"}), Package(FALSE, {"/b", "/b/a"}), Package(TRUE, {"/b/ab", "/bab"})>>,
     frame |-> frame] : frame \in {<<1, 1, 1>>, <<1, 2, 2>>} }

MCDirectories == LET built == {"frame_map", "basename", "path"}
                 IN {{}, built, Sidecars} \cup {Sidecars \ {s} : s \in Sidecars}

Plain == {"a", "ab", "/a", "/ab", "b/a", "/b/a"}
Literals == {[head |-> Text(s), gap |-> FALSE, tail |-> <<>>, group |-> FALSE] : s \in Plain}
Gaps == {[head |-> Text(s), gap |-> TRUE, tail |-> Text(t), group |-> g] :
           s \in {"a", "/b", ""}, t \in {"", "ab", "a"}, g \in BOOLEAN}

Asked(pattern, regex, client, top, sort, limit) ==
  {[pattern |-> pattern, regex |-> regex, root |-> r, whole |-> w, client |-> client,
    top |-> top, sort |-> sort, limit |-> limit] : r \in BOOLEAN, w \in BOOLEAN}

MCQueries ==
  UNION ({Asked(p, FALSE, c, FALSE, "none", None) : p \in Literals, c \in {"cli", "daemon"}}
         \cup {Asked(p, TRUE, "cli", FALSE, "none", None) : p \in Gaps \cup Literals}
         \cup {Asked(p, FALSE, "cli", TRUE, "size", None) : p \in Literals}
         \cup {Asked(p, FALSE, "cli", FALSE, s, 1) : p \in Literals, s \in {"none", "size"}})
=============================================================================
