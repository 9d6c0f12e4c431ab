---------------------------- MODULE FrameCharts ----------------------------
(***************************************************************************)
(* Where a decoder is in its frame and the scan in its packages, as the    *)
(* proofs about Regeneration describe it: no state, no step and no         *)
(* property of its own.                                                    *)
(***************************************************************************)
EXTENDS Regeneration

(***************************************************************************)
(* A chart c of the bytes s of a frame: how many lines there are, the text *)
(* they decode to and, of line j, how many bytes of s have been read with  *)
(* its difference (at), where in the text that leaves the reader once the  *)
(* shared prefix is there (pos), how many bytes follow in both as they are *)
(* (gap: the rest of its path, its newline, and the next line up to its    *)
(* NUL), how long the shared prefix is, where in the text the path starts  *)
(* (path: its NUL stands there) and where the line ends (end).  Line 0 is  *)
(* what comes before the first.                                            *)
(***************************************************************************)
LineCount(c) == c.n
Text(c) == c.text
At(c, j) == c.at[j]
Pos(c, j) == c.pos[j]
Gap(c, j) == c.gap[j]
Shared(c, j) == c.shared[j]
PathAt(c, j) == c.path[j]
EndAt(c, j) == c.end[j]

ChartTyped(c, s) ==
  /\ LineCount(c) \in Nat /\ Text(c) \in Seq(Int) /\ s \in Seq(Int)
  /\ \A j \in 0 .. LineCount(c) : /\ At(c, j) \in Nat /\ Pos(c, j) \in Nat /\ Gap(c, j) \in Nat
                         /\ Shared(c, j) \in Nat /\ PathAt(c, j) \in Nat /\ EndAt(c, j) \in Nat

ChartEnds(c, s) ==
  /\ At(c, 0) = 0 /\ Pos(c, 0) = 0 /\ Shared(c, 0) = 0 /\ PathAt(c, 0) = 0 /\ EndAt(c, 0) = 0
  /\ At(c, LineCount(c)) + Gap(c, LineCount(c)) = Len(s) /\ Pos(c, LineCount(c)) + Gap(c, LineCount(c)) = Len(Text(c))
  /\ EndAt(c, LineCount(c)) = Len(Text(c))

ChartGaps(c, s) ==
  \A j \in 0 .. LineCount(c) :
    /\ At(c, j) + Gap(c, j) <= Len(s) /\ Pos(c, j) + Gap(c, j) <= Len(Text(c))
    /\ Pos(c, j) = PathAt(c, j) + Shared(c, j) /\ EndAt(c, j) <= Pos(c, j) + Gap(c, j)
    /\ j > 0 => Pos(c, j) < EndAt(c, j)
    /\ \A i \in 1 .. Gap(c, j) : s[At(c, j) + i] = Text(c)[Pos(c, j) + i]

ChartSteps(c, s) ==
  \A j \in 0 .. LineCount(c) - 1 :
    LET p == At(c, j) + Gap(c, j) + 1
    IN /\ Gap(c, j) >= 1 /\ HasDiff(s, p)
       /\ DecodeDiff(s, p) = Shared(c, j + 1) - Shared(c, j)
       /\ At(c, j + 1) = p + DiffLen(s, p) - 1
       /\ PathAt(c, j + 1) = Pos(c, j) + Gap(c, j)
       /\ PathAt(c, j) + Shared(c, j + 1) <= Pos(c, j) + Gap(c, j)
       /\ \A i \in 1 .. Shared(c, j + 1) : Text(c)[PathAt(c, j + 1) + i] = Text(c)[PathAt(c, j) + i]

ChartOrder(c) == \A j, k \in 0 .. LineCount(c) : j < k => EndAt(c, j) < PathAt(c, k)

ChartBytes(c) ==
  \A x \in 1 .. Len(Text(c)) :
    /\ Text(c)[x] = Nul <=> \E j \in 1 .. LineCount(c) : x = PathAt(c, j)
    /\ Text(c)[x] = Newline <=> \E j \in 1 .. LineCount(c) : x = EndAt(c, j)

Chart(c, s) ==
  /\ ChartTyped(c, s) /\ ChartEnds(c, s) /\ ChartGaps(c, s) /\ ChartSteps(c, s)
  /\ ChartOrder(c) /\ ChartBytes(c)

\* Line q of the text is meta, a NUL, and path.
Says(c, q, meta, path) ==
  /\ PathAt(c, q) = EndAt(c, q - 1) + Len(meta) + 1 /\ EndAt(c, q) = PathAt(c, q) + Len(path) + 1
  /\ \A i \in 1 .. Len(meta) : Text(c)[EndAt(c, q - 1) + i] = meta[i]
  /\ \A i \in 1 .. Len(path) : Text(c)[PathAt(c, q) + i] = path[i]

(***************************************************************************)
(* The chart of frame k of some packages: the first i of them end with     *)
(* line u[i].                                                              *)
(***************************************************************************)
Upto(u, i) == u[i]

PackageLines(c, u, i, package) ==
  /\ Upto(u, i) = Upto(u, i - 1) + Len(package.entries) + 1
  /\ \A e \in 1 .. Len(package.entries) :
       Says(c, Upto(u, i - 1) + e, EncodeMeta(package.entries[e].node), package.entries[e].path)
  /\ Says(c, Upto(u, i), <<P>>, package.store_path.json)

FrameLines(c, u, v, k, packages, m) ==
  /\ Upto(u, 0) = 0 /\ Upto(u, m) = LineCount(c) /\ Shared(c, LineCount(c)) = 0
  /\ \A i \in 0 .. m : Upto(u, i) \in 0 .. LineCount(c)
  /\ \A i, l \in 0 .. m : i <= l => Upto(u, i) <= Upto(u, l)
  /\ \A i \in 0 .. m :
       /\ (\A l \in 1 .. i : FrameNumber(v, l) # k - 1) => Upto(u, i) = 0
       /\ (\A l \in i + 1 .. m : FrameNumber(v, l) # k - 1) => Upto(u, i) = Upto(u, m)
  /\ \A i \in 1 .. m :
       IF FrameNumber(v, i) = k - 1 THEN PackageLines(c, u, i, packages[i]) ELSE Upto(u, i) = Upto(u, i - 1)

FrameChart(c, u, k) ==
  Chart(c, frames[k]) /\ FrameLines(c, u, version, k, built.packages, Len(built.packages))

----------------------------------------------------------------------------
\* f is what follows the first b of t.
Window(t, b, f) ==
  /\ t \in Seq(Int) /\ f \in Seq(Int) /\ b \in Nat /\ b + Len(f) <= Len(t)
  /\ \A i \in 1 .. Len(f) : f[i] = t[b + i]

Buffered(c, b) == Window(Text(c), b, buf) /\ size \in Nat /\ Len(buf) <= size

\* Line j is being read, and its shared prefix is there; or it is still to come.
Settled(c, b, j) ==
  /\ j \in 0 .. LineCount(c) /\ shared = Shared(c, j)
  /\ last_path \in 0 .. Len(buf) /\ b + last_path = PathAt(c, j)
  /\ At(c, j) <= at /\ at <= At(c, j) + Gap(c, j) /\ b + Len(buf) - Pos(c, j) = at - At(c, j)
  /\ j < LineCount(c) => at < At(c, j) + Gap(c, j)

Awaits(c, b, j) ==
  /\ j \in 1 .. LineCount(c) /\ shared = Shared(c, j) /\ shared > 0
  /\ last_path \in 0 .. Len(buf) /\ b + last_path = PathAt(c, j - 1)
  /\ at = At(c, j) /\ b + Len(buf) = PathAt(c, j)

InMemory(c, j) ==
  ~streaming => (at = At(c, j) \/ at = Len(stream)) /\ avail \in {0, Left}

ReadingAt(c, b, j, r) ==
  /\ Settled(c, b, j) /\ InMemory(c, j)
  /\ r \in 0 .. j /\ item \in 0 .. Len(buf) /\ b + item = EndAt(c, r)
  /\ found => r < j
  /\ got => found
  /\ ~resize => got /\ r + 2 <= j
  /\ ~streaming /\ ~found => (r = LineCount(c) /\ item = Len(buf)) \/ j < LineCount(c)

BetweenCalls(c, b, j, r) ==
  /\ Settled(c, b, j) \/ Awaits(c, b, j)
  /\ InMemory(c, j)
  /\ r \in 0 .. LineCount(c) /\ partial \in 0 .. Len(buf) /\ b + partial = EndAt(c, r)
  /\ r < LineCount(c) => b + Len(buf) < EndAt(c, r + 1)

\* q lines of the frame have been scanned.
InFrame(c, q) ==
  \E b \in 0 .. Len(Text(c)), j, r \in 0 .. LineCount(c) :
    /\ Buffered(c, b)
    /\ IF pc = "read" THEN ReadingAt(c, b, j, r) ELSE BetweenCalls(c, b, j, r)
    /\ q \in 0 .. r /\ (pc = "block" <=> q < r)
    /\ block = SubSeq(Text(c), EndAt(c, q) + 1, EndAt(c, r))

Typed ==
  /\ at \in 0 .. Len(stream) /\ avail \in 0 .. Left /\ partial \in Nat /\ item \in Nat
  /\ last_path \in 0 .. Len(buf) /\ Len(buf) <= size
  /\ streaming \in BOOLEAN /\ resize \in BOOLEAN /\ found \in BOOLEAN /\ got \in BOOLEAN
  /\ shared \in Int

(***************************************************************************)
(* What the scan has collected: the first packages, and the first entries  *)
(* of the next one.                                                        *)
(***************************************************************************)
Collected ==
  LET m == Len(recorded)  k == Len(current)
  IN /\ m \in 0 .. Len(built.packages) /\ recorded = SubSeq(built.packages, 1, m) /\ k \in Nat
     /\ current # <<>> => /\ m < Len(built.packages) /\ k <= Len(built.packages[m + 1].entries)
                          /\ current = SubSeq(built.packages[m + 1].entries, 1, k)

\* The packages of the frames before, and none of those after, are recorded.
FramesInOrder ==
  /\ \A i \in 1 .. Len(recorded) : FrameNumber(version, i) < frame
  /\ \A i \in Len(recorded) + 1 .. Len(built.packages) : FrameNumber(version, i) >= frame - 1

\* That is, the first q lines of the frame.
ScanAt(c, u, q) ==
  /\ Collected /\ FramesInOrder /\ q = Upto(u, Len(recorded)) + Len(current)
  /\ current # <<>> => FrameNumber(version, Len(recorded) + 1) = frame - 1
============================================================================
