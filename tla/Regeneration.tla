---------------------------- MODULE Regeneration ----------------------------
(***************************************************************************)
(* From listings to sidecars and back.  A build turns the listings of its  *)
(* packages into `files` and three sidecars; generate_sidecars decodes     *)
(* `files`, block by block, puts the packages together again from their    *)
(* lines, and writes every sidecar that depends on nothing else, file by   *)
(* file, over what is there; it may die in between.  A version 1 index is  *)
(* one frame that is decoded while it is decompressed, version 2 has       *)
(* several and each is in memory.                                          *)
(***************************************************************************)
EXTENDS FrontCoding, SecondaryIndexes

CONSTANTS Inputs,    \* what is built: packages, each a store path and its listing, and a prefix
          Earlier,   \* what the sidecars that are there may have been made of: nothing, or a build
          Excluded,  \* the prefixes that are left out
          PerFrame,  \* packages in a frame of version 2
          Texts      \* what is looked up

VARIABLES
  input,    \* what the build is given
  version,  \* of `files`
  frames,   \* `files`: the bytes of each frame
  built,    \* history: what the writer recorded, and its sidecars
  frame,    \* the frame the decoder is in
  current,  \* entries whose footer has not been seen
  recorded, \* packages recorded by the builders
  map,      \* rebuilt_frame_map
  stored,   \* each sidecar: its files
  fresh     \* files written by this regeneration

index == <<input, version, frames, built>>
scan  == <<current, recorded, map>>
regeneration == <<decoder, index, frame, scan, stored, fresh>>

P == 112
Separators == {Nul, Newline}

(***************************************************************************)
(* What listings and store paths are made of: names, targets and the JSON  *)
(* of a store path are characters, what is above a node is in its listing, *)
(* the JSON has no separator and says which store path it is, none is      *)
(* listed twice (the fetcher knows what it has seen), a size has one       *)
(* digit, and no character the program itself puts into a line is a        *)
(* separator.  A bin directory ends with a slash, and what is looked up is *)
(* not empty.                                                              *)
(***************************************************************************)
IsListing(ls) ==
  /\ IsFiniteSet(DOMAIN ls) /\ DOMAIN ls \subseteq Seq(Seq(Int))
  /\ \A p \in DOMAIN ls :
       /\ \A n \in 0 .. Len(p) : SubSeq(p, 1, n) \in DOMAIN ls
       /\ Cardinality(Children(ls, p)) \in 0 .. 9
       /\ "size" \in DOMAIN ls[p] => ls[p].size \in 0 .. 9
       /\ "target" \in DOMAIN ls[p] => ls[p].target \in Seq(Int)

ASSUME InputsAssumption ==
  /\ PerFrame \in Nat \ {0}
  /\ \A c \in {P, Slash} \cup {Digit(n) : n \in 0 .. 9} \cup Range(Tag) : c \notin Separators
  /\ \A given \in Inputs :
       /\ given.packages \in Seq(Range(given.packages))
       /\ \A p \in Range(given.packages) :
            /\ IsListing(p.listing)
            /\ p.store_path.json \in Seq(Int \ Separators)
       /\ \A i, j \in DOMAIN given.packages :
            given.packages[i].store_path.json = given.packages[j].store_path.json => i = j

ASSUME LookupsAssumption ==
  /\ Gram \in Nat \ {0}
  /\ \A bin \in Bins : bin \in Seq(Int) \ {<<>>} /\ Last(bin) = Slash
  /\ Texts \subseteq Seq(Int) \ {<<>>}

----------------------------------------------------------------------------
(***************************************************************************)
(* add_excluding: the entries of a package that are put into the index.    *)
(***************************************************************************)
Entries(package, prefix) ==
  Only(ToList(Tree(package.listing), prefix),
       LAMBDA e : /\ \A x \in Excluded : ~Starts(e.path, x)
                  /\ Encodable(e, Separators))

Recorded(store_path, entries) ==
  [store_path |-> store_path, label |-> <<store_path.attr, store_path.output>>,
   attr |-> store_path.attr, output |-> store_path.output, toplevel |-> store_path.toplevel,
   entries |-> entries]

(***************************************************************************)
(* The packages of an input that are put in: those with entries.           *)
(***************************************************************************)
Kept(given) ==
  LET kept == Only(given.packages,
                   LAMBDA p : Listed(p.listing) /\ Entries(p, given.prefix) # <<>>)
  IN [i \in DOMAIN kept |-> Recorded(kept[i].store_path, Entries(kept[i], given.prefix))]

Line(entry) == [meta |-> EncodeMeta(entry.node), path |-> entry.path]
Encoded(package) ==
  Encode([i \in DOMAIN package.entries |-> Line(package.entries[i])],
         [meta |-> <<P>>, path |-> package.store_path.json])

(***************************************************************************)
(* Frames end where packages do.                                           *)
(***************************************************************************)
FrameNumber(v, i) == IF v = 1 THEN 0 ELSE (i - 1) \div PerFrame
Framed(v, packages) ==
  LET numbers == {FrameNumber(v, i) : i \in DOMAIN packages}
  IN [k \in 1 .. Cardinality(numbers) |->
        FlattenSeq([i \in DOMAIN packages |->
          IF FrameNumber(v, i) = k - 1 THEN Encoded(packages[i]) ELSE <<>>])]

(***************************************************************************)
(* The files of each sidecar, in the order in which they are written, and  *)
(* the order of the sidecars.                                              *)
(***************************************************************************)
FilesOf == [basename     |-> <<"names", "postings", "fst">>,
            path         |-> <<"postings", "fst">>,
            entry        |-> <<"store_paths", "postings", "fst">>,
            path_trigram |-> <<"postings", "fst">>,
            path_entry   |-> <<"store_paths", "entries", "fst", "strings", "offsets">>,
            ngram        |-> <<"postings", "fst">>,
            frame_map    |-> <<"map">>]

WritingOrder(v) ==
  <<"basename", "path", "entry", "path_trigram", "path_entry", "ngram">>
    \o IF v = 2 THEN <<"frame_map">> ELSE <<>>

Content(sidecar, packages, frame_map) ==
  CASE sidecar = "basename"     -> BasenameFiles(packages)
    [] sidecar = "path"         -> PathFiles(packages)
    [] sidecar = "entry"        -> EntryFiles(packages)
    [] sidecar = "path_trigram" -> PathTrigramFiles(packages)
    [] sidecar = "path_entry"   -> PathEntryFiles(packages)
    [] sidecar = "ngram"        -> NgramFiles(packages)
    [] sidecar = "frame_map"    -> [map |-> frame_map]
    [] sidecar = "command"      -> CommandFiles(packages)

Sidecars == DOMAIN FilesOf \cup {"command"}

(***************************************************************************)
(* The sidecars the writer of the packages in v's format writes itself.    *)
(***************************************************************************)
Own(v, packages) ==
  LET frame_map == [i \in DOMAIN packages |-> FrameNumber(v, i)]
  IN [s \in {"basename", "path", "command"} \cup (IF v = 2 THEN {"frame_map"} ELSE {}) |->
        Content(s, packages, frame_map)]

(***************************************************************************)
(* `files` was built here, with the sidecars of a build beside it, or was  *)
(* installed over another; there may be sidecars of an earlier index.      *)
(***************************************************************************)
RegenerationInit ==
  /\ input \in Inputs /\ version \in {1, 2}
  /\ frames = Framed(version, Kept(input))
  /\ built = [packages |-> Kept(input), own |-> Own(version, Kept(input))]
  /\ \E old \in Earlier, here \in BOOLEAN :
       stored = [s \in Sidecars |->
                 IF here /\ s \in DOMAIN built.own THEN built.own[s]
                 ELSE IF old = None THEN <<>> ELSE Content(s, Kept(old), <<>>)]
  /\ streaming = (version = 1) /\ size = 0
  /\ stream = <<>> /\ at = 0 /\ avail = 0 /\ buf = <<>> /\ last_path = 0 /\ partial = 0
  /\ shared = 0 /\ resize = TRUE /\ found = FALSE /\ got = FALSE /\ item = 0
  /\ block = <<>> /\ pc = "end" /\ frame = 0
  /\ current = <<>> /\ recorded = <<>> /\ map = <<>> /\ fresh = {}

----------------------------------------------------------------------------
(***************************************************************************)
(* scan_decoder_for_packages, one line of the block.  A line is a footer,  *)
(* which names the package of the entries before it, or an entry.          *)
(***************************************************************************)
StorePaths == {p.store_path : p \in Range(input.packages)}
Named(json) == {s \in StorePaths : s.json = json}

SeparatorIn(line) == SelectInSeq(line, LAMBDA c : c = Nul)
ParsesEntry(line) ==
  SeparatorIn(line) > 0 /\ DecodesMeta(SubSeq(line, 1, SeparatorIn(line) - 1))
EntryOf(line) ==
  [path |-> SubSeq(line, SeparatorIn(line) + 1, Len(line)),
   node |-> DecodeMeta(SubSeq(line, 1, SeparatorIn(line) - 1))]

IsFooter(line) == IsPrefix(<<P, Nul>>, line)
PackageOf(line) == CHOOSE s \in Named(SubSeq(line, 3, Len(line))) : TRUE

Parses(line) ==
  CASE line = <<>>    -> TRUE
    [] IsFooter(line) -> current = <<>> \/ Named(SubSeq(line, 3, Len(line))) # {}
    [] OTHER          -> ParsesEntry(line)

\* Fault: the entries of a package stay for the next one.
ScanLineKeeps(line) ==
  IF line # <<>> /\ ~IsFooter(line)
  THEN current' = Append(current, EntryOf(line)) /\ UNCHANGED recorded
  ELSE /\ recorded' = IF line = <<>> \/ current = <<>> THEN recorded
                      ELSE Append(recorded, Recorded(PackageOf(line), current))
       /\ UNCHANGED current

ScanLine(line) ==
  CASE line = <<>>    -> UNCHANGED <<current, recorded>>
    [] IsFooter(line) -> /\ recorded' = IF current = <<>> THEN recorded
                                        ELSE Append(recorded, Recorded(PackageOf(line), current))
                         /\ current' = <<>>
    [] OTHER          -> current' = Append(current, EntryOf(line)) /\ UNCHANGED recorded

Scan ==
  /\ pc = "block"
  /\ LET newline == SelectInSeq(block, LAMBDA c : c = Newline)
         line    == SubSeq(block, 1, newline - 1)
     IN /\ block' = SubSeq(block, newline + 1, Len(block))
        /\ IF Parses(line)
           THEN ScanLine(line) /\ pc' = IF block' = <<>> THEN "call" ELSE "block"
           ELSE pc' = "error" /\ UNCHANGED <<current, recorded>>
  /\ UNCHANGED <<reader, buffer, partial, call, index, frame, map, stored, fresh>>

(***************************************************************************)
(* One decoder per frame.  The packages found in a frame are mapped to it; *)
(* entries without a footer are dropped with the scan of the frame.        *)
(***************************************************************************)
NextMap == [i \in DOMAIN recorded |-> IF i \in DOMAIN map THEN map[i] ELSE frame - 1]

NextFrame ==
  /\ pc = "end" /\ frame < Len(frames)
  /\ DecoderOver(frames[frame + 1]) /\ size' \in Sizes /\ pc' = "call"
  /\ frame' = frame + 1 /\ map' = NextMap /\ current' = <<>>
  /\ UNCHANGED <<streaming, index, recorded, stored, fresh>>

Scanned ==
  /\ pc = "end" /\ frame = Len(frames)
  /\ DecoderOver(<<>>) /\ size' = 0 /\ pc' = "write"
  /\ map' = NextMap /\ current' = <<>>
  /\ UNCHANGED <<streaming, index, frame, recorded, stored, fresh>>

(***************************************************************************)
(* The next file is written.                                               *)
(***************************************************************************)
Writes(v) ==
  FlattenSeq([k \in DOMAIN WritingOrder(v) |->
    [j \in DOMAIN FilesOf[WritingOrder(v)[k]] |-> <<WritingOrder(v)[k], FilesOf[WritingOrder(v)[k]][j]>>]])

WriteFile ==
  /\ pc = "write"
  /\ LET to   == Writes(version)[Cardinality(fresh) + 1]
         file == Content(to[1], recorded, map)[to[2]]
     IN /\ stored' = [stored EXCEPT ![to[1]] =
                      [f \in DOMAIN @ \cup {to[2]} |-> IF f = to[2] THEN file ELSE @[f]]]
        /\ fresh' = fresh \cup {to}
  /\ pc' = IF Cardinality(fresh') = Len(Writes(version)) THEN "done" ELSE "write"
  /\ UNCHANGED <<reader, buffer, partial, call, block, index, frame, scan>>

DieWriting ==
  /\ pc = "write"
  /\ pc' = "dead"
  /\ UNCHANGED <<reader, buffer, partial, call, block, index, frame, scan, stored, fresh>>

Stopped == pc \in {"done", "dead", "error"} /\ UNCHANGED regeneration

RegenerationNext ==
  \/ Decode /\ UNCHANGED <<index, frame, scan, stored, fresh>>
  \/ Scan \/ NextFrame \/ Scanned \/ WriteFile \/ DieWriting
  \/ Stopped

RegenerationSpec == RegenerationInit /\ [][RegenerationNext]_regeneration

----------------------------------------------------------------------------
(***************************************************************************)
(* Whatever pieces the input comes in, wherever the buffer is full and     *)
(* however lines share their paths: the decoder stays within its buffer    *)
(* and its input (read_to_nul indexes without a check, copy_shared relies  *)
(* on where the last path starts); the packages that the scan records are  *)
(* those of the writer, in order, with the same entries, and when it ends  *)
(* without an error none is missing.  A frame in memory never fails.       *)
(***************************************************************************)
DecoderWithin ==
  /\ pc \in {"call", "read", "block", "end", "error", "write", "done", "dead"}
  /\ Len(buf) <= size
  /\ last_path \in 0 .. Len(buf) /\ partial \in Nat /\ item \in Nat
  /\ pc = "call" => partial <= Len(buf)
  /\ pc = "read" => item <= Len(buf)
  /\ at \in 0 .. Len(stream) /\ avail \in 0 .. Left

DecodesWhole ==
  /\ DecoderWithin
  /\ IsPrefix(recorded, built.packages)
  /\ current # <<>> =>
       /\ Len(recorded) < Len(built.packages)
       /\ IsPrefix(current, built.packages[Len(recorded) + 1].entries)
  /\ pc \in {"write", "done", "dead"} => recorded = built.packages
  /\ pc = "error" => streaming

(***************************************************************************)
(* A lookup in a sidecar all of whose files are of this regeneration, or   *)
(* of the build, answers for the packages what their listings say.         *)
(***************************************************************************)
Occurs(t, p) == \E i \in 0 .. Len(p) - Len(t) : SubSeq(p, i + 1, i + Len(t)) = t
IsName(t) == \A i \in DOMAIN t : t[i] # Slash
HasName(p, t) ==
  /\ IsName(t)
  /\ Len(p) > Len(t) /\ SubSeq(p, Len(p) - Len(t), Len(p)) = <<Slash>> \o t

Answers(s, files, t) ==
  LET pkgs == built.packages
      OrdinalsHaving(Of(_)) == {n \in Ordinals(pkgs) : \E p \in PathsOf(Package(pkgs, n)) : Of(p)}
      EntriesHaving(Of(_)) ==
        UNION {{[store_path |-> pkgs[i].store_path, path |-> e.path, node |-> e.node] :
                  e \in {x \in Range(pkgs[i].entries) : Of(x.path)}} : i \in DOMAIN pkgs}
  IN CASE s = "basename" ->
            /\ LookupLabels(files, t) =
                 [i \in DOMAIN List(files, t) |-> Package(pkgs, List(files, t)[i]).label]
            /\ Range(List(files, t)) = OrdinalsHaving(LAMBDA p : HasName(p, t))
            /\ BasenamePrefix(files, t) = OrdinalsHaving(LAMBDA p : Starts(BasenameOf(p), t))
       [] s = "path" ->
            /\ Range(List(files, <<Slash>> \o t)) = OrdinalsHaving(LAMBDA p : p = <<Slash>> \o t)
            /\ PathPrefix(files, <<Slash>> \o t) = OrdinalsHaving(LAMBDA p : Starts(p, <<Slash>> \o t))
       [] s = "entry" ->
            /\ Range(LookupEntries(files, t)) = EntriesHaving(LAMBDA p : HasName(p, t))
            /\ IsInjective(LookupEntries(files, t))
       [] s = "path_entry" ->
            /\ Range(PathEntries(files, <<Slash>> \o t)) = EntriesHaving(LAMBDA p : p = <<Slash>> \o t)
            /\ IsInjective(PathEntries(files, <<Slash>> \o t))
       [] s = "path_trigram" ->
            Len(t) >= Gram /\ ({"path_entry"} \X Range(FilesOf["path_entry"])) \subseteq fresh =>
              {p \in AllPaths(pkgs) : Occurs(t, p)}
                \subseteq {PathBytes(stored.path_entry, id) : id \in CandidatePaths(files, t)}
       [] s = "ngram" ->
            Len(t) >= Gram =>
              OrdinalsHaving(LAMBDA p : Occurs(t, p)) \subseteq CandidateOrdinals(files, t)
       [] s = "frame_map" ->
            \A n \in Ordinals(pkgs) : files.map[n + 1] = FrameNumber(version, n + 1)
       [] s = "command" ->
            /\ Range(LookupCommand(files, t)) =
                 {Provider(pkg) : pkg \in {q \in Range(pkgs) :
                    \E bin \in Bins : IsName(t) /\ bin \o t \in PathsOf(q)}}
            /\ IsInjective(LookupCommand(files, t))

Whole(s) ==
  \/ s \in DOMAIN FilesOf /\ {s} \X Range(FilesOf[s]) \subseteq fresh
  \/ s \in DOMAIN built.own /\ stored[s] = built.own[s]

SidecarsAnswer ==
  pc \in {"done", "dead"} => \A s \in Sidecars, t \in Texts : Whole(s) => Answers(s, stored[s], t)

(***************************************************************************)
(* Over the sidecars of the build itself a regeneration writes what is     *)
(* there already, file for file: it finds the same packages in the same    *)
(* order in the same frames, so it may die anywhere.                       *)
(***************************************************************************)
Reproduces ==
  \A w \in fresh : w[1] \in DOMAIN built.own => stored[w[1]][w[2]] = built.own[w[1]][w[2]]
=============================================================================
