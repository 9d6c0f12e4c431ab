-------------------------- MODULE SecondaryIndexes --------------------------
(***************************************************************************)
(* The sidecars: what each builder collects of the packages, the files it  *)
(* writes, and what a lookup in those files answers.                       *)
(*                                                                         *)
(* Packages are numbered from 0, in the order in which they were recorded; *)
(* each is a record with its store path, label, attribute, output, whether *)
(* it is a top-level one, and its entries.  A map file (the fst) gives a   *)
(* key its cookie; the cookie is where, in the postings, the length of the *)
(* key's list stands in front of the list.  A cell is a 32-bit word or one *)
(* serialized element.                                                     *)
(***************************************************************************)
EXTENDS FileTrees, Functions

CONSTANTS Gram,   \* characters of a trigram, 3 in the code
          Bins,   \* the bin directories, with a slash at both ends
          None    \* no answer: the pattern is too short

----------------------------------------------------------------------------
(* Maps and postings.                                                      *)

(* Where each of some sequences starts, when they stand behind each other. *)
Offsets(seqs) == [i \in 1 .. Len(seqs) + 1 |-> Len(FlattenSeq(SubSeq(seqs, 1, i - 1)))]
PlaceOf(e, s) == CHOOSE i \in DOMAIN s : s[i] = e

(***************************************************************************)
(* What every builder does with its map from keys to lists, in the order   *)
(* of the keys.                                                            *)
(***************************************************************************)
Postings(map) ==
  LET keys  == Sorted(DOMAIN map, Before)
      lists == [i \in DOMAIN keys |-> <<Len(map[keys[i]])>> \o map[keys[i]]]
  IN [raw |-> FlattenSeq(lists),
      fst |-> [k \in DOMAIN map |-> Offsets(lists)[PlaceOf(k, keys)]]]

(***************************************************************************)
(* read_ordinals_at, read_entries_at, read_ids_at, read_provider_ids_at.   *)
(***************************************************************************)
ReadAt(raw, cookie) == SubSeq(raw, cookie + 2, cookie + 1 + raw[cookie + 1])

Found(file, key) == IF key \in DOMAIN file.fst THEN ReadAt(file.raw, file.fst[key]) ELSE <<>>

Ascending(S) == Sorted(S, LAMBDA m, n : m < n)

----------------------------------------------------------------------------
(* The packages as the builders see them.                                  *)
BasenameOf(p) == SubSeq(p, SelectLastInSeq(p, LAMBDA c : c = Slash) + 1, Len(p))

Ordinals(pkgs) == {i - 1 : i \in DOMAIN pkgs}
Package(pkgs, n) == pkgs[n + 1]
PathsOf(pkg) == {pkg.entries[i].path : i \in DOMAIN pkg.entries}
AllPaths(pkgs) == UNION {PathsOf(pkgs[i]) : i \in DOMAIN pkgs}

(***************************************************************************)
(* The ordinals of the packages that have one of some paths.               *)
(***************************************************************************)
Having(pkgs, paths) ==
  Ascending({n \in Ordinals(pkgs) : PathsOf(Package(pkgs, n)) \cap paths # {}})
PathsNamed(pkgs, base) == {p \in AllPaths(pkgs) : BasenameOf(p) = base}

(***************************************************************************)
(* BasenameIndexBuilder: the labels, and the packages of each basename.    *)
(***************************************************************************)
BasenameFiles(pkgs) ==
  LET bases == {BasenameOf(p) : p \in AllPaths(pkgs)} \ {<<>>}
      file == Postings([b \in bases |-> Having(pkgs, PathsNamed(pkgs, b))])
  IN [names |-> [i \in DOMAIN pkgs |-> pkgs[i].label], postings |-> file.raw, fst |-> file.fst]

(***************************************************************************)
(* PathIndexBuilder: the packages of each path.                            *)
(***************************************************************************)
PathFiles(pkgs) ==
  LET file == Postings([q \in AllPaths(pkgs) \ {<<>>} |-> Having(pkgs, {q})])
  IN [postings |-> file.raw, fst |-> file.fst]

(***************************************************************************)
(* The entries of some paths, package by package.                          *)
(***************************************************************************)
Records(pkgs, paths) ==
  FlattenSeq([i \in DOMAIN pkgs |->
    LET mine == Only(pkgs[i].entries, LAMBDA e : e.path \in paths)
    IN [k \in DOMAIN mine |-> [of |-> i - 1, path |-> mine[k].path, node |-> mine[k].node]]])

(***************************************************************************)
(* EntryIndexBuilder: the entries of each basename.                        *)
(***************************************************************************)
EntryFiles(pkgs) ==
  LET bases == {BasenameOf(p) : p \in AllPaths(pkgs)} \ {<<>>}
      file  == Postings([b \in bases |-> Records(pkgs, PathsNamed(pkgs, b))])
  IN [store_paths |-> [i \in DOMAIN pkgs |-> pkgs[i].store_path],
      postings |-> file.raw, fst |-> file.fst]

(***************************************************************************)
(* PathEntryIndexBuilder: the paths, sorted, are numbered; the entries of  *)
(* each lie between two offsets, its text ends with a NUL in the strings.  *)
(***************************************************************************)
SortedPaths(pkgs) == Sorted(AllPaths(pkgs) \ {<<>>}, Before)
IdOf(pkgs) ==
  LET paths == SortedPaths(pkgs)
  IN [p \in Range(paths) |-> PlaceOf(p, paths) - 1]

PathEntryFiles(pkgs) ==
  LET paths   == SortedPaths(pkgs)
      blobs   == [i \in DOMAIN paths |->
                    LET here == Records(pkgs, {paths[i]})
                    IN [k \in DOMAIN here |-> [of |-> here[k].of, node |-> here[k].node]]]
      strings == [i \in DOMAIN paths |-> Append(paths[i], 0)]
  IN [store_paths |-> [i \in DOMAIN pkgs |-> pkgs[i].store_path],
      entries |-> [offsets |-> Offsets(blobs), blobs |-> FlattenSeq(blobs)],
      fst     |-> IdOf(pkgs),
      strings |-> FlattenSeq(strings),
      offsets |-> [i \in DOMAIN paths |-> Offsets(strings)[i]]]

Grams(text) == {SubSeq(text, i, i + Gram - 1) : i \in 1 .. Len(text) + 1 - Gram}

(***************************************************************************)
(* NgramIndexBuilder: the packages of each trigram, as one bitmap.         *)
(* PathTrigramIndexBuilder: the numbers of the paths of each.              *)
(***************************************************************************)
NgramFiles(pkgs) ==
  LET file == Postings([g \in UNION {Grams(p) : p \in AllPaths(pkgs)} |->
                          <<{n \in Ordinals(pkgs) : \E p \in PathsOf(Package(pkgs, n)) : g \in Grams(p)}>>])
  IN [postings |-> file.raw, fst |-> file.fst]

PathTrigramFiles(pkgs) ==
  LET ids  == IdOf(pkgs)
      file == Postings([g \in UNION {Grams(p) : p \in DOMAIN ids} |->
                          Ascending({ids[p] : p \in {q \in DOMAIN ids : g \in Grams(q)}})])
  IN [postings |-> file.raw, fst |-> file.fst]

(***************************************************************************)
(* is_command_candidate: an immediate child of a bin directory.            *)
(***************************************************************************)
IsCommand(p) ==
  \E bin \in Bins : Starts(p, bin) /\ Len(p) > Len(bin)
    /\ \A i \in Len(bin) + 1 .. Len(p) : p[i] # Slash

(***************************************************************************)
(* CommandIndexBuilder: providers, numbered where they first occur, and    *)
(* the providers of each command.                                          *)
(***************************************************************************)
Provider(pkg) == [attr |-> pkg.attr, output |-> pkg.output, toplevel |-> pkg.toplevel]

Known(pkgs, i) == \E j \in 1 .. i - 1 : Provider(pkgs[j]) = Provider(pkgs[i])
Providers(pkgs) ==
  FlattenSeq([i \in DOMAIN pkgs |-> IF Known(pkgs, i) THEN <<>> ELSE <<Provider(pkgs[i])>>])

CommandFiles(pkgs) ==
  LET known    == Providers(pkgs)
      commands == {BasenameOf(p) : p \in {q \in AllPaths(pkgs) : IsCommand(q)}}
      Provides(pkg, c) == \E p \in PathsOf(pkg) : IsCommand(p) /\ BasenameOf(p) = c
      file == Postings([c \in commands |->
                Ascending({i - 1 : i \in {k \in DOMAIN known :
                  \E j \in DOMAIN pkgs : Provides(pkgs[j], c) /\ Provider(pkgs[j]) = known[k]}})])
  IN [providers |-> known, postings |-> file.raw, fst |-> file.fst]

----------------------------------------------------------------------------
(* Lookups.  Each takes the files of its sidecar as they are on disk.      *)
List(files, key) == Found([raw |-> files.postings, fst |-> files.fst], key)

(***************************************************************************)
(* lookup_basename: the labels.                                            *)
(***************************************************************************)
LookupLabels(files, base) ==
  [i \in DOMAIN List(files, base) |-> files.names[List(files, base)[i] + 1]]

(***************************************************************************)
(* lookup_basename_prefix_ordinals: an automaton finds the keys.           *)
(***************************************************************************)
OrdinalsOf(files, keys) == UNION {Range(List(files, k)) : k \in keys}
BasenamePrefix(files, prefix) == OrdinalsOf(files, {k \in DOMAIN files.fst : Starts(k, prefix)})

\* Fault: the stream ends at the first key that does not start with it.
PathPrefixStops(files, prefix) ==
  LET keys == Sorted(DOMAIN files.fst, Before)
      end  == SelectInSeq(keys, LAMBDA k : ~Starts(k, prefix))
      seen == IF end = 0 THEN keys ELSE SubSeq(keys, 1, end - 1)
  IN OrdinalsOf(files, {k \in Range(seen) : Starts(k, prefix)})

(***************************************************************************)
(* lookup_prefix_ordinals: the keys in their order, up to the first that   *)
(* comes after the prefix and does not start with it.                      *)
(***************************************************************************)
PathPrefix(files, prefix) ==
  LET keys == Sorted(DOMAIN files.fst, Before)
      end  == SelectInSeq(keys, LAMBDA k : ~Starts(k, prefix) /\ Before(prefix, k))
      seen == IF end = 0 THEN keys ELSE SubSeq(keys, 1, end - 1)
  IN OrdinalsOf(files, {k \in Range(seen) : Starts(k, prefix)})

(***************************************************************************)
(* EntryIndex::lookup_entries.                                             *)
(***************************************************************************)
LookupEntries(files, base) ==
  [i \in DOMAIN List(files, base) |->
     LET r == List(files, base)[i]
     IN [store_path |-> files.store_paths[r.of + 1], path |-> r.path, node |-> r.node]]

(***************************************************************************)
(* path_bytes, lookup_entries_by_id and lookup_entries of PathEntryIndex.  *)
(***************************************************************************)
PathBytes(files, id) ==
  LET tail == SubSeq(files.strings, files.offsets[id + 1] + 1, Len(files.strings))
  IN SubSeq(tail, 1, SelectInSeq(tail, LAMBDA c : c = 0) - 1)

EntriesById(files, id) ==
  LET blob == SubSeq(files.entries.blobs, files.entries.offsets[id + 1] + 1,
                     files.entries.offsets[id + 2])
  IN [i \in DOMAIN blob |->
        [store_path |-> files.store_paths[blob[i].of + 1], path |-> PathBytes(files, id),
         node |-> blob[i].node]]

PathEntries(files, path) ==
  IF path \in DOMAIN files.fst THEN EntriesById(files, files.fst[path]) ELSE <<>>

(***************************************************************************)
(* candidate_ordinals and candidate_path_ids: what every trigram of a text *)
(* is in; a trigram that is not there has nothing.                         *)
(***************************************************************************)
Intersection(text, members) ==
  IF Len(text) < Gram THEN None
  ELSE LET least == CHOOSE g \in Grams(text) : TRUE
       IN {n \in members[least] : \A g \in Grams(text) : n \in members[g]}

CandidateOrdinals(files, text) ==
  Intersection(text, [g \in Grams(text) |-> UNION Range(List(files, g))])
CandidatePaths(files, text) ==
  Intersection(text, [g \in Grams(text) |-> Range(List(files, g))])

(***************************************************************************)
(* lookup_command.                                                         *)
(***************************************************************************)
LookupCommand(files, command) ==
  [i \in DOMAIN List(files, command) |-> files.providers[List(files, command)[i] + 1]]
=============================================================================
