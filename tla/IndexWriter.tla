---------------------------- MODULE IndexWriter ----------------------------
(***************************************************************************)
(* The writer of a NIXI database (database.rs, Writer) driven by one index *)
(* build (index.rs, build and write_listings): packages are added to a raw *)
(* buffer, the buffer is flushed to the file as compressed frames when it  *)
(* grows beyond the chunk size, and the end of the build, or the drop of a *)
(* writer whose build failed, writes the seek table and the sidecars.      *)
(*                                                                         *)
(* The k-th listing of the build has sizes[k] encoded bytes, none when the *)
(* prefix filters leave no entry of it; a package is known by its k.       *)
(***************************************************************************)
EXTENDS Integers, Sequences, SequencesExt, FiniteSets

CONSTANTS SizeLists,    \* the sequences of listing sizes to build from
          Formats,      \* format_version
          Parallelisms, \* available_parallelism()
          ChunkSize,    \* chunk_size
          NoFile, Torn  \* no such file; a file that its reader rejects

ASSUME WriterAssumption ==
  /\ SizeLists \subseteq Seq(Nat)
  /\ Formats \subseteq {1, 2}
  /\ Parallelisms \subseteq Nat \ {0}
  /\ ChunkSize \in Nat
  /\ NoFile # Torn /\ {NoFile, Torn} \cap (Nat \cup Seq(Nat)) = {}

VARIABLES
  sizes,       \* the sizes of the listings
  version, parallelism,
  next,        \* the next listing to add
  raw,         \* `raw` and `boundaries`: the packages buffered
  frameMap,    \* `frame_map`: the frame of each ordinal, counted from 0
  labels,      \* the packages recorded in the basename index, by ordinal
  finished,    \* `finished`
  pending,     \* the compressed frames still to write
  frames,      \* disk: the frames in `files`
  cut,         \* disk: a partly written frame follows them
  table,       \* disk: the seek table has been written, for how many frames
  mapFile,     \* disk: files.frame_map
  labelFile,   \* disk: the basename sidecars
  pc,          \* add, frames, table, map, labels; dropped, crashed
  mode,        \* who runs do_finish: the build itself, `finish`, `drop`
  result,      \* what the build returned
  failed       \* history: an I/O error, or the evaluation failed
config == <<sizes, version, parallelism>>
onDisk == <<frames, cut, table, mapFile, labelFile>>
writerVars == <<config, next, raw, frameMap, labels, finished, pending, onDisk, pc, mode,
                result, failed>>

Size(packages) == FoldLeft(LAMBDA sum, p : sum + sizes[p], 0, packages)

(***************************************************************************)
(* frame_ranges: frames are cut at the first package boundary at or beyond *)
(* the target length; what is left makes the last one.                     *)
(***************************************************************************)
Place(target, ranges, p) ==
  LET open == Append(ranges.open, p) IN
  IF Size(open) >= target THEN [done |-> Append(ranges.done, open), open |-> << >>]
                          ELSE [done |-> ranges.done, open |-> open]

FrameRanges(packages) ==
  LET share == Size(packages) \div parallelism
      target == IF share = 0 THEN 1 ELSE share
      after[k \in 0 .. Len(packages)] ==
        IF k = 0 THEN [done |-> << >>, open |-> << >>]
        ELSE Place(target, after[k - 1], packages[k])
      all == after[Len(packages)]
  IN  IF all.open = << >> THEN all.done ELSE Append(all.done, all.open)

(***************************************************************************)
(* The ordinal-to-frame entries of a chunk, after `base` frames, and the   *)
(* end of each frame as a number of packages of the chunk.                 *)
(***************************************************************************)
FrameEnd(ranges, f) == Len(FlattenSeq(SubSeq(ranges, 1, f)))
FrameOf(ranges, j) ==
  CHOOSE f \in DOMAIN ranges : FrameEnd(ranges, f - 1) < j /\ j <= FrameEnd(ranges, f)
ChunkMap(ranges, base) ==
  [j \in 1 .. Len(FlattenSeq(ranges)) |-> base + FrameOf(ranges, j) - 1]

(***************************************************************************)
(* The check of the entries just added.  `ord` counts from the start of    *)
(* the whole map, and indexes the boundaries of this chunk.                *)
(***************************************************************************)
MapChecked(map, ranges, base) ==
  LET count == Len(FlattenSeq(ranges)) IN
  \A ord \in Len(map) - count + 1 .. Len(map) :
    LET f == map[ord] - base + 1 IN
    /\ ord <= count
    /\ FrameEnd(ranges, f - 1) <= ord /\ ord <= FrameEnd(ranges, f)

WriterInit ==
  /\ sizes \in SizeLists /\ version \in Formats /\ parallelism \in Parallelisms
  /\ next = 1 /\ raw = << >> /\ frameMap = << >> /\ labels = << >>
  /\ finished = FALSE /\ pending = << >>
  /\ frames = << >> /\ cut = FALSE /\ table = NoFile
  /\ mapFile = NoFile /\ labelFile = NoFile
  /\ pc = "add" /\ mode = "build" /\ result = "running" /\ failed = FALSE

(***************************************************************************)
(* An error: the build returns it and drops the writer, whose Drop runs    *)
(* do_finish unless it has been run; the error of that one is ignored.     *)
(***************************************************************************)
Error ==
  /\ result' = IF mode = "drop" THEN result ELSE "error"
  /\ IF finished THEN pc' = "dropped" /\ UNCHANGED <<mode, finished>>
     ELSE pc' = "flush" /\ mode' = "drop" /\ finished' = TRUE

(***************************************************************************)
(* add_excluding, then maybe_flush_chunk.  A listing without entries is    *)
(* skipped; the mutant records it all the same.                            *)
(***************************************************************************)
Adding(recorded) ==
  /\ pc = "add" /\ next <= Len(sizes)
  /\ next' = next + 1
  /\ raw' = IF sizes[next] > 0 THEN Append(raw, next) ELSE raw
  /\ labels' = IF recorded THEN Append(labels, next) ELSE labels
  /\ pc' = IF Size(raw') > ChunkSize THEN "flush" ELSE "add"
  /\ UNCHANGED <<config, frameMap, finished, pending, onDisk, mode, result, failed>>

AddRecordingEmpty == Adding(TRUE)
Add == Adding(pc = "add" /\ next <= Len(sizes) /\ sizes[next] > 0)

(***************************************************************************)
(* The end of the listings: the evaluation's result is awaited, then       *)
(* `finish`, which flushes first.  A failed evaluation, at any time, fails *)
(* the build.                                                              *)
(***************************************************************************)
CallFinish ==
  /\ pc = "add" /\ next > Len(sizes)
  /\ mode' = "finish" /\ finished' = TRUE /\ pc' = "flush"
  /\ UNCHANGED <<config, next, raw, frameMap, labels, pending, onDisk, result, failed>>

EvaluationFails ==
  /\ pc = "add"
  /\ failed' = TRUE
  /\ Error
  /\ UNCHANGED <<config, next, raw, frameMap, labels, pending, onDisk>>

(***************************************************************************)
(* flush_chunk: nothing for version 1 or an empty buffer.  The buffer is   *)
(* taken and the map extended before anything can fail.                    *)
(***************************************************************************)
Flushed == pc' = IF mode = "build" THEN "add" ELSE "table"

Flush ==
  /\ pc = "flush"
  /\ \/ /\ version # 2 \/ raw = << >>
        /\ Flushed
        /\ UNCHANGED <<raw, frameMap, pending, mode, finished, result>>
     \/ /\ version = 2 /\ raw # << >>
        /\ raw' = << >>
        /\ LET ranges == FrameRanges(raw)
               base == Len(frames)
           IN  /\ frameMap' = frameMap \o ChunkMap(ranges, base)
               /\ \/ /\ MapChecked(frameMap', ranges, base)
                     /\ pending' = ranges /\ pc' = "frames"
                     /\ UNCHANGED <<mode, finished, result>>
                  \/ /\ ~MapChecked(frameMap', ranges, base)
                     /\ Error
                     /\ UNCHANGED pending
  /\ UNCHANGED <<config, next, labels, onDisk, failed>>

(***************************************************************************)
(* The compressed frames are written in their order, whichever finished    *)
(* first; the mutant writes them as they come.                             *)
(***************************************************************************)
FrameWritten(candidates) ==
  /\ pc = "frames"
  /\ \/ \E f \in candidates :
          /\ frames' = Append(frames, pending[f])
          /\ pending' = RemoveAt(pending, f)
          /\ UNCHANGED <<cut, pc, mode, finished, result, failed>>
     \/ /\ pending # << >>
        /\ cut' \in BOOLEAN /\ pending' = << >> /\ failed' = TRUE
        /\ Error
        /\ UNCHANGED frames
     \/ /\ pending = << >>
        /\ Flushed
        /\ UNCHANGED <<frames, pending, cut, mode, finished, result, failed>>
  /\ UNCHANGED <<config, next, raw, frameMap, labels, table, mapFile, labelFile>>

WriteAnyFrame == FrameWritten(DOMAIN pending)
WriteFrame == FrameWritten({1} \cap DOMAIN pending)

(***************************************************************************)
(* do_finish after the flush: for version 2 the seek table, for version 1  *)
(* the whole buffer as one frame.                                          *)
(***************************************************************************)
WriteTable ==
  /\ pc = "table"
  /\ \/ /\ version = 2
        /\ table' = Len(frames) /\ pc' = "map"
        /\ UNCHANGED <<raw, frames, cut, mode, finished, result, failed>>
     \/ /\ version = 1
        /\ frames' = <<raw>> /\ raw' = << >> /\ pc' = "labels"
        /\ UNCHANGED <<table, cut, mode, finished, result, failed>>
     \/ /\ cut' \in BOOLEAN /\ failed' = TRUE
        /\ Error
        /\ UNCHANGED <<raw, frames, table>>
  /\ UNCHANGED <<config, next, frameMap, labels, pending, mapFile, labelFile>>

(***************************************************************************)
(* write_frame_map stops, its file begun, at an index that is not one of   *)
(* the frames written.                                                     *)
(***************************************************************************)
MapFits == \A o \in DOMAIN frameMap : frameMap[o] < table
WriteMap ==
  /\ pc = "map"
  /\ \/ /\ MapFits
        /\ mapFile' = frameMap /\ pc' = "labels"
        /\ UNCHANGED <<mode, finished, result, failed>>
     \/ /\ mapFile' = Torn
        /\ failed' = (failed \/ MapFits)
        /\ Error
  /\ UNCHANGED <<config, next, raw, frameMap, labels, pending, frames, cut, table, labelFile>>

(***************************************************************************)
(* The sidecars made from the basenames, paths, attributes and commands    *)
(* recorded.                                                               *)
(***************************************************************************)
WriteLabels ==
  /\ pc = "labels"
  /\ \/ /\ labelFile' = labels
        /\ pc' = "dropped"
        /\ result' = IF mode = "finish" THEN "ok" ELSE result
        /\ UNCHANGED <<mode, finished, failed>>
     \/ /\ labelFile' = Torn /\ failed' = TRUE
        /\ Error
  /\ UNCHANGED <<config, next, raw, frameMap, labels, pending, frames, cut, table, mapFile>>

(***************************************************************************)
(* The process is killed: no Drop runs.  A file being written stays torn.  *)
(***************************************************************************)
Crash ==
  /\ pc \notin {"dropped", "crashed"}
  /\ pc' = "crashed"
  /\ cut' \in IF pc \in {"frames", "table"} THEN BOOLEAN ELSE {cut}
  /\ mapFile' \in IF pc = "map" THEN {mapFile, Torn} ELSE {mapFile}
  /\ labelFile' \in IF pc = "labels" THEN {labelFile, Torn} ELSE {labelFile}
  /\ UNCHANGED <<config, next, raw, frameMap, labels, finished, pending, frames, table,
                 mode, result, failed>>

WriterStep ==
  \/ Add \/ CallFinish \/ EvaluationFails \/ Flush \/ WriteFrame \/ WriteTable \/ WriteMap
  \/ WriteLabels
WriterNext == WriterStep \/ Crash

WriterSpec == WriterInit /\ [][WriterNext]_writerVars
----------------------------------------------------------------------------
(***************************************************************************)
(* The reader's side.  Reader::open: a version 2 file needs its seek       *)
(* table, and the lengths in it to add up to the frames before it; a       *)
(* version 1 file opens whatever it holds, but a cut frame fails to decode.*)
(***************************************************************************)
Opens == ~cut /\ (version = 2 => table # NoFile)
HasMap == mapFile \notin {NoFile, Torn}

(***************************************************************************)
(* search_entries for a set of ordinals, given that every path matches:    *)
(* with a frame map only the frames it names are read, and only packages   *)
(* of those ordinals, counted from the first ordinal mapped to the frame,  *)
(* are kept; without one every frame is read and nothing is filtered.      *)
(***************************************************************************)
FrameStart(f) ==
  CHOOSE o \in DOMAIN mapFile : mapFile[o] = f /\ \A q \in DOMAIN mapFile : mapFile[q] = f => o <= q
Scan(ordinals) ==
  IF HasMap
  THEN UNION {{frames[f + 1][k] : k \in {k \in DOMAIN frames[f + 1] :
                                           FrameStart(f) + k - 1 \in ordinals}} :
              f \in {mapFile[o] : o \in ordinals \cap DOMAIN mapFile}}
  ELSE ToSet(FlattenSeq(frames))
----------------------------------------------------------------------------
(* The packages among the first n listings, in the order they were added.  *)
InOrder(s, n) ==
  /\ ToSet(s) = {k \in 1 .. n : sizes[k] > 0}
  /\ \A i, j \in DOMAIN s : i < j => s[i] < s[j]

Steps == {"add", "flush", "frames", "table", "map", "labels", "dropped", "crashed"}

(***************************************************************************)
(* Every variable keeps its type; raw, frames and the pending ones hold    *)
(* only packages added, and a map never outgrows the packages recorded.    *)
(***************************************************************************)
WriterTypeOK ==
  /\ sizes \in SizeLists /\ version \in Formats /\ parallelism \in Parallelisms
  /\ next \in 1 .. Len(sizes) + 1
  /\ {raw, labels} \subseteq Seq(1 .. next - 1) /\ {frames, pending} \subseteq Seq(Seq(1 .. next - 1))
  /\ frameMap \in Seq(Nat) /\ Len(frameMap) <= Len(labels)
  /\ finished \in BOOLEAN /\ cut \in BOOLEAN /\ failed \in BOOLEAN
  /\ table \in {NoFile} \cup Nat
  /\ pc \in Steps /\ mode \in {"build", "finish", "drop"} /\ result \in {"running", "ok", "error"}

(***************************************************************************)
(* Every variable has its type.  However the build ended, failed, dropped  *)
(* or killed, a file that opens holds the first packages of the build, in  *)
(* order, without a hole; that of a build that succeeds holds every        *)
(* listing with entries, under the same ordinals in the frames, the frame  *)
(* map and the sidecars.                                                   *)
(***************************************************************************)
OpenableIsPrefix ==
  /\ WriterTypeOK
  /\ Opens => \E n \in 0 .. Len(sizes) : InOrder(FlattenSeq(frames), n)
  /\ result = "ok" =>
       /\ Opens
       /\ InOrder(FlattenSeq(frames), Len(sizes)) /\ labelFile = FlattenSeq(frames)
       /\ version = 2 => HasMap /\ Len(mapFile) = Len(labelFile)

(***************************************************************************)
(* Whatever ordinals the basename sidecar gives, reading only the frames   *)
(* the map names finds the packages it means, all of them, and with a map  *)
(* no other: sidecar, map and frames count alike, also after a drop.       *)
(***************************************************************************)
LookupExact ==
  Opens /\ labelFile \notin {NoFile, Torn} /\ pc = "dropped" =>
    \A ordinals \in SUBSET DOMAIN labelFile :
      LET meant == {labelFile[o] : o \in ordinals} IN
      /\ meant \subseteq Scan(ordinals)
      /\ HasMap => Scan(ordinals) = meant

(***************************************************************************)
(* Not so in the code: a build fails only when an I/O operation or the     *)
(* evaluation does (the comment on flush_chunk).                           *)
(***************************************************************************)
FailsOnlyOnFailure == result = "error" => failed
=============================================================================
