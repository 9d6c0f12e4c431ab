---------------------------- MODULE FrontCoding ----------------------------
(***************************************************************************)
(* The encoding of `files`, and the decoder every reader of it goes        *)
(* through.  A line is metadata, a NUL, by how much the length of the      *)
(* prefix that is shared with the line before changes, and the rest of the *)
(* path.  The decoder hands out blocks of whole lines from one buffer: it  *)
(* keeps the line that was cut and the path it may share with, grows only  *)
(* while it has no whole line, and takes its input in pieces that end      *)
(* anywhere.                                                               *)
(*                                                                         *)
(* A byte of a difference is a number below Base, and may be that of a     *)
(* NUL or a newline; other characters are any numbers.                     *)
(***************************************************************************)
EXTENDS Integers, SequencesExt

CONSTANTS Base,    \* values of a byte, 256 in the code
          Sizes,   \* what the buffer may start with, 1,000,000 in the code
          Pieces   \* how much a streaming decompressor may hand out at once

ASSUME CodingAssumption ==
  /\ Base \in Nat /\ Base > 3 /\ Base % 2 = 0
  /\ Sizes \subseteq Nat \ {0} /\ Pieces \subseteq Nat \ {0}

Nul     == 0
Newline == Base - 1
Marker  == Base \div 2              \* 0x80
MaxI8   == (Base \div 2) - 1
MaxI16  == (Base * Base) \div 2 - 1

VARIABLES
  stream,    \* the bytes of a frame, decompressed
  streaming, \* do they come in pieces, or lie in memory
  at,        \* bytes consumed
  avail,     \* bytes in the piece at hand
  buf,       \* the used part of the buffer
  size,      \* how long the buffer is
  last_path, \* where in it the last path starts
  partial,   \* where the line starts that was cut
  shared,    \* shared_len
  resize,    \* allow_resize
  found,     \* found_nul
  got,       \* got_input
  item,      \* item_start
  pc,        \* what the decoder does next
  block      \* what it returned

reader  == <<stream, streaming, at, avail>>
buffer  == <<buf, size, last_path, shared>>
call    == <<resize, found, got, item>>
decoder == <<reader, buffer, partial, call, pc, block>>

----------------------------------------------------------------------------
(* The encoder.                                                            *)

\* Fault: a difference of one more fits into one byte.
EncodeDiffWide(d) ==
  IF -MaxI8 <= d + 1 /\ d - 1 <= MaxI8
  THEN <<d % Base>>
  ELSE <<Marker, (d % (Base * Base)) \div Base, d % Base>>

EncodeDiff(d) ==
  IF -MaxI8 < d /\ d < MaxI8
  THEN <<d % Base>>
  ELSE <<Marker, (d % (Base * Base)) \div Base, d % Base>>

SharedLen(last, path) ==
  LET limit == CHOOSE n \in {Len(last), Len(path), MaxI16} :
                 \A k \in {Len(last), Len(path), MaxI16} : n <= k
  IN CHOOSE n \in 0 .. limit :
       /\ SubSeq(last, 1, n) = SubSeq(path, 1, n)
       /\ n < limit => last[n + 1] # path[n + 1]

(***************************************************************************)
(* write_meta, write_path: what stands for a line of metadata meta, whose  *)
(* shared length changes by change, and whose path goes on with rest.      *)
(***************************************************************************)
WriteLine(meta, change, rest) ==
  meta \o <<Nul>> \o EncodeDiff(change) \o rest \o <<Newline>>

(***************************************************************************)
(* One encoder per package: its lines, each against the one before it, and *)
(* a footer that takes the shared length back to nothing.                  *)
(***************************************************************************)
SharedLens(lines) ==
  [k \in 0 .. Len(lines) |-> IF k < 2 THEN 0 ELSE SharedLen(lines[k - 1].path, lines[k].path)]

Encode(lines, footer) ==
  LET n == SharedLens(lines)
  IN FlattenSeq([k \in DOMAIN lines |->
       WriteLine(lines[k].meta, n[k] - n[k - 1], SubSeq(lines[k].path, n[k] + 1, Len(lines[k].path)))])
     \o WriteLine(footer.meta, -n[Len(lines)], footer.path)

----------------------------------------------------------------------------
(***************************************************************************)
(* The differential in front of a path: one byte or, behind the marker,    *)
(* two, each with its sign: where it stands in s.                          *)
(***************************************************************************)
Signed(n, values) == IF 2 * n >= values THEN n - values ELSE n

HasDiff(s, p) ==
  /\ p <= Len(s)
  /\ s[p] = Marker => p + 2 <= Len(s)
DiffLen(s, p) == IF s[p] = Marker THEN 3 ELSE 1
DecodeDiff(s, p) ==
  IF s[p] = Marker
  THEN Signed(s[p + 1] * Base + s[p + 2], Base * Base)
  ELSE Signed(s[p], Base)

(***************************************************************************)
(* ensure_len: would a buffer of sz hold len, and how long is it then.     *)
(***************************************************************************)
Holds(len, sz, may) == len <= sz \/ may
Grown(len, sz) ==
  IF len <= sz THEN sz
  ELSE IF len - sz > sz THEN len ELSE sz + sz

(***************************************************************************)
(* copy_shared: the n bytes a path shares with the one that starts at from *)
(* in b.                                                                   *)
(***************************************************************************)
CopyShared(b, from, n, sz, may) ==
  IF n < 0 \/ n > Len(b) - from THEN [is |-> "error"]
  ELSE IF ~Holds(Len(b) + n, sz, may) THEN [is |-> "full"]
  ELSE [is |-> "ok", buf |-> b \o SubSeq(b, from + 1, from + n), size |-> Grown(Len(b) + n, sz)]

(***************************************************************************)
(* Decoder::new over the frame s; a decoder that is done with is dropped.  *)
(***************************************************************************)
DecoderOver(s) ==
  /\ stream' = s /\ at' = 0 /\ avail' = 0
  /\ buf' = <<>> /\ last_path' = 0 /\ partial' = 0 /\ shared' = 0
  /\ resize' = TRUE /\ found' = FALSE /\ got' = FALSE /\ item' = 0
  /\ block' = <<>>

(***************************************************************************)
(* A call of decode moves what it still needs to the front: the line that  *)
(* was cut and, if that lies before it, the last path.  A NUL at the very  *)
(* end means that the shared prefix did not fit the last time.             *)
(***************************************************************************)
Call ==
  /\ pc = "call"
  /\ LET from == IF partial < last_path THEN partial ELSE last_path
         kept == SubSeq(buf, from + 1, Len(buf))
         nul  == kept # <<>> /\ kept[Len(kept)] = Nul
         copy == CopyShared(kept, last_path - from, shared, size, TRUE)
     IN /\ item' = partial - from
        /\ found' = nul
        /\ IF ~nul
           THEN /\ buf' = kept /\ last_path' = last_path - from
                /\ pc' = "read" /\ UNCHANGED size
           ELSE IF copy.is = "ok"
           THEN /\ buf' = copy.buf /\ size' = copy.size /\ last_path' = Len(kept)
                /\ pc' = "read"
           ELSE pc' = "error" /\ UNCHANGED <<buf, size, last_path>>
  /\ got' = FALSE /\ resize' = TRUE
  /\ UNCHANGED <<reader, shared, partial, block>>

(***************************************************************************)
(* fill_buf has used up the last piece.                                    *)
(***************************************************************************)
Left == Len(stream) - at

Fill ==
  /\ pc = "read" /\ avail = 0 /\ Left > 0
  /\ avail' \in IF streaming THEN {n \in Pieces : n < Left} \cup {Left} ELSE {Left}
  /\ UNCHANGED <<stream, streaming, at, buffer, partial, call, pc, block>>

(***************************************************************************)
(* The end of a call: the lines that are whole, given the buffer b and     *)
(* whether an entry's NUL was read by this call.  An empty slice is the    *)
(* end of the frame.                                                       *)
(***************************************************************************)
Return(b, input) ==
  LET newline == SelectLastInSeq(b, LAMBDA c : c = Newline)
      nothing == newline <= item
  IN /\ partial' = IF newline = 0 THEN partial ELSE newline
     /\ IF newline = 0 \/ (~input /\ nothing)
        THEN pc' = (IF input THEN "error" ELSE "end") /\ UNCHANGED block
        ELSE IF ~input /\ ~found /\ Len(b) > item
        THEN pc' = "error" /\ UNCHANGED block
        ELSE IF newline < item
        THEN pc' = "error" /\ UNCHANGED block
        ELSE /\ block' = SubSeq(b, item + 1, newline)
             /\ pc' = IF newline = item THEN "end" ELSE "block"

AtEnd ==
  /\ pc = "read" /\ Left = 0
  /\ Return(buf, got)
  /\ UNCHANGED <<reader, buffer, call>>

(***************************************************************************)
(* What read_to_nul takes of the piece: all of it, or up to the NUL.       *)
(***************************************************************************)
Piece == SubSeq(stream, at + 1, at + avail)
NulAt == SelectInSeq(Piece, LAMBDA c : c = Nul)
Taken == IF NulAt = 0 THEN Piece ELSE SubSeq(Piece, 1, NulAt)

Reading == pc = "read" /\ avail > 0

(***************************************************************************)
(* It does not fit: the call ends and the piece stays.                     *)
(***************************************************************************)
Full ==
  /\ Reading
  /\ ~Holds(Len(buf) + Len(Taken), size, resize)
  /\ Return(buf, got)
  /\ UNCHANGED <<reader, buffer, call>>

Take == \* no NUL yet
  /\ Reading /\ NulAt = 0
  /\ Holds(Len(buf) + Len(Taken), size, resize)
  /\ buf' = buf \o Taken /\ size' = Grown(Len(buf) + Len(Taken), size)
  /\ at' = at + avail /\ avail' = 0
  /\ UNCHANGED <<stream, streaming, last_path, shared, partial, call, pc, block>>

(***************************************************************************)
(* The NUL of an entry: the differential, and the prefix it shares with    *)
(* the last path, are read with it.  The buffer may grow until a second    *)
(* NUL shows that a line is whole.                                         *)
(***************************************************************************)
Entry ==
  /\ Reading /\ NulAt > 0
  /\ Holds(Len(buf) + NulAt, size, resize)
  /\ LET p    == at + NulAt + 1
         text == buf \o Taken
         big  == Grown(Len(text), size)
         n    == shared + DecodeDiff(stream, p)
         copy == CopyShared(text, last_path, n, big, ~found)
     IN /\ resize' = ~found /\ found' = TRUE /\ got' = TRUE
        /\ IF ~HasDiff(stream, p)
           THEN /\ pc' = "error"
                /\ buf' = text /\ size' = big /\ at' = Len(stream) /\ avail' = 0
                /\ UNCHANGED <<last_path, shared, partial, block>>
           ELSE /\ at' = p + DiffLen(stream, p) - 1
                /\ avail' = IF at + avail > at' THEN at + avail - at' ELSE 0
                /\ shared' = n
                /\ CASE copy.is = "ok" ->
                          /\ buf' = copy.buf /\ size' = copy.size /\ last_path' = Len(text)
                          /\ UNCHANGED <<partial, pc, block>>
                     [] copy.is = "full" ->
                          /\ buf' = text /\ size' = big /\ UNCHANGED last_path
                          /\ Return(text, TRUE)
                     [] copy.is = "error" ->
                          /\ buf' = text /\ size' = big /\ pc' = "error"
                          /\ UNCHANGED <<last_path, partial, block>>
  /\ UNCHANGED <<stream, streaming, item>>

Decode == Call \/ Fill \/ AtEnd \/ Full \/ Take \/ Entry
=============================================================================
