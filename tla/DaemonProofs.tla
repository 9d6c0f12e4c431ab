---------------------------- MODULE DaemonProofs ----------------------------
(***************************************************************************)
(* Theorems about the daemon, for any number of releases, builds, crashes  *)
(* and failed requests.  In prebuilt mode every directory of the cache is  *)
(* related to the step the refresh has got to: hashes are never newer than *)
(* the `files` beside them, and equal to it only over a whole directory.   *)
(* After them those about its handlers and their clients, for any number   *)
(* of clients, servers, generations of the index and replacements: what    *)
(* is shown of its files and commands, and what a search of the metadata   *)
(* finds and in which order.                                               *)
(***************************************************************************)
EXTENDS Daemon, DaemonRequests, FiniteSetTheorems, SequenceTheorems,
        WellFoundedInduction, TLAPS

(***************************************************************************)
(* Where the loop is, what it works on and what it has opened.             *)
(***************************************************************************)
Shape ==
  /\ opened \in Seq(Content)
  /\ pc \in {"download", "install", "generate", "write", "link", "open"} => job.dir \in Dirs
  /\ pc = "rename" => tmp \in Dirs
  /\ pc = "write" => job.next \in 1 .. 3
  /\ pc \in {"select", "check", "head", "download", "install", "generate"} => job.next = 1
  /\ pc = "load" /\ mode = "prebuilt" => link # None
  /\ pc \in {"check", "head", "download", "install", "link", "rename"} => mode = "prebuilt"
  /\ builder > 0 => mode = "local"

(***************************************************************************)
(* What a directory of the cache can hold: `files` of some release, and    *)
(* hashes of an earlier one, or of this one and then everything else.      *)
(***************************************************************************)
Certified(d) ==
  /\ dirs[d]["files"] \in 1 .. published \cup {Missing}
  /\ dirs[d]["hashes"] \in Nat =>
       /\ dirs[d]["files"] \in Nat /\ dirs[d]["hashes"] <= dirs[d]["files"]
       /\ dirs[d]["hashes"] = dirs[d]["files"] => Whole(d)

(***************************************************************************)
(* How far the directory the refresh works on has got.  Without tags there *)
(* is one directory, and nothing is downloaded once `current` points at it.*)
(***************************************************************************)
Progress ==
  /\ pc = "install" =>
       /\ job.of \in 1 .. published
       /\ Target["files"] \in Nat => Target["files"] <= job.of
  /\ pc \in {"generate", "write"} => Target["files"] \in Nat
  /\ pc = "write" =>
       /\ job.of = Target["files"] /\ Target["hashes"] # Target["files"]
       /\ job.next > 1 => Target["sidecars"] = job.of
       /\ job.next > 2 => Target["packages"] = job.of
  /\ pc = "link" => Whole(job.dir)
  /\ pc = "rename" => Whole(tmp)
  /\ pc \in {"load", "open"} => link # None /\ Whole(link)
  /\ ~tagged /\ link # None =>
       Whole(link) /\ pc \in {"select", "check", "load", "open", "stopped"}

Cache == mode = "prebuilt" => (\A d \in Dirs : Certified(d)) /\ Progress

IInv == ReloadKept /\ Shape /\ Cache
----------------------------------------------------------------------------
(***************************************************************************)
(* The names of directories, and what a file can hold.                     *)
(***************************************************************************)
LEMMA Names ==
  /\ Unknown \in Dirs /\ Local \in Dirs /\ None \notin Dirs
  /\ published \in 1 .. MaxPublished => CacheDir(Tag) \in Dirs
  /\ published \in 1 .. MaxPublished /\ tagged => Tag # None /\ Tag \notin Dirs
  /\ ~tagged => Tag = None /\ CacheDir(Tag) = Unknown
<1>1. Unknown \in Dirs /\ Local \in Dirs /\ None \notin Dirs
  BY NoneAssumption DEF Dirs
<1>2. ASSUME published \in 1 .. MaxPublished, tagged
      PROVE  Tag # None /\ Tag \notin Dirs /\ CacheDir(Tag) \in Dirs
  <2>1. Tag = <<"etag", published>>
    BY <1>2 DEF Tag
  <2>2. Tag # None
    BY <1>2, <2>1, NoneAssumption
  <2>3. Tag[1] = "etag" /\ Tag[2] = published
    BY <2>1
  <2>4. Tag \notin Dirs
    BY <2>3 DEF Dirs, Unknown, Local
  <2>5. CacheDir(Tag) = <<"sha256", published>>
    BY <2>2, <2>3 DEF CacheDir
  <2>. QED  BY <1>2, <2>2, <2>4, <2>5 DEF Dirs
<1>3. ~tagged => Tag = None /\ CacheDir(Tag) = Unknown
  BY DEF Tag, CacheDir
<1>. QED  BY <1>1, <1>2, <1>3

LEMMA Lengths == Len(OpenOrder) = 4 /\ Len(Built) = 4 /\ Len(Generated) = 3
  BY DEF OpenOrder, Built, Generated

LEMMA Contents ==
  ASSUME TypeOK
  PROVE  /\ Missing \in Content /\ Cut \in Content /\ 0 \in Content
         /\ published \in Content /\ builds \in Content
         /\ Idle \in [dir : Dirs \cup {None}, of : Content, next : 1 .. 4]
  BY BoundsAssumption DEF TypeOK, Content, Idle

LEMMA Emptied ==
  Idle.next = 1 /\ << >> \in Seq(Content) /\ Len(<< >>) < Len(OpenOrder)
  BY Lengths, EmptySeq DEF Idle

LEMMA FileWritten ==
  ASSUME dirs \in [Dirs -> [Parts -> Content]],
         NEW d \in Dirs, NEW p \in Parts, NEW c \in Content
  PROVE  [dirs EXCEPT ![d][p] = c] \in [Dirs -> [Parts -> Content]]
  OBVIOUS

LEMMA InterruptedIsTyped ==
  ASSUME TypeOK, Shape, NEW ds \in Interrupted
  PROVE  ds \in [Dirs -> [Parts -> Content]]
<1>1. CASE ds = dirs
  BY <1>1 DEF TypeOK
<1>2. CASE pc = "write" /\ \E c \in {Cut, Missing} :
             ds = [dirs EXCEPT ![job.dir][Generated[job.next]] = c]
  <2>1. job.dir \in Dirs /\ Generated[job.next] \in Parts
    BY <1>2 DEF Shape, Generated, Parts
  <2>. QED  BY <1>2, <2>1, Contents, FileWritten DEF TypeOK
<1>. QED  BY <1>1, <1>2 DEF Interrupted

----------------------------------------------------------------------------
LEMMA Initially == Init => IInv
<1>. SUFFICES ASSUME Init PROVE IInv
  OBVIOUS
<1>1. dirs \in [Dirs -> [Parts -> Content]]
  <2>1. Empty \in [Parts -> Content] /\ [Empty EXCEPT !["files"] = 0] \in [Parts -> Content]
    BY BoundsAssumption DEF Empty, Content, Parts
  <2>. QED  BY <2>1 DEF Init
<1>2. TypeOK
  <2>1. Idle \in [dir : Dirs \cup {None}, of : Content, next : 1 .. 4]
    BY BoundsAssumption DEF Idle, Content
  <2>2. published \in 1 .. MaxPublished /\ builds \in 0 .. MaxBuilds /\ faults \in 0 .. MaxFaults
    BY BoundsAssumption DEF Init
  <2>3. mode \in {"local", "prebuilt"} /\ tagged \in BOOLEAN /\ asked \in BOOLEAN
    BY DEF Init
  <2>4. /\ link = None /\ tmp = None /\ pc \in {"load", "select"} /\ job = Idle /\ opened = << >>
        /\ reload = 0 /\ heard = {} /\ builder = 0
    BY DEF Init
  <2>5. builder \in 0 .. Len(Built)
    BY <2>4, Lengths
  <2>. QED  BY <1>1, <2>1, <2>2, <2>3, <2>4, <2>5, Emptied DEF TypeOK
<1>3. Shape
  BY EmptySeq DEF Init, Shape, Idle
<1>4. ASSUME mode = "prebuilt" PROVE (\A d \in Dirs : Certified(d)) /\ Progress
  <2>1. dirs = [d \in Dirs |-> Empty]
    BY <1>4 DEF Init
  <2>2. \A d \in Dirs : dirs[d]["files"] = Missing /\ dirs[d]["hashes"] = Missing
    BY <2>1 DEF Empty, Parts
  <2>. QED  BY <1>4, <2>2, BoundsAssumption DEF Init, Certified, Progress
<1>. QED  BY <1>2, <1>3, <1>4 DEF IInv, ReloadKept, Cache, Init

(***************************************************************************)
(* Types.                                                                  *)
(***************************************************************************)
LEMMA TypeStep ==
  ASSUME TypeOK, Shape, [Next]_vars
  PROVE  TypeOK' /\ Shape'
<1>. USE DEF config, disk, bounds
<1>0. /\ published \in Nat /\ builds \in Nat /\ faults \in Nat /\ MaxBuilds \in Nat
      /\ MaxFaults \in Nat /\ MaxPublished \in Nat
  BY BoundsAssumption DEF TypeOK
<1>1. CASE Loop
  <2>1. /\ UNCHANGED <<config, published, disk, job, opened, builder, bounds>>
        /\ pc' \in {"load", "check", "stopped"} /\ pc = "select"
        /\ pc' = "check" => mode = "prebuilt"
        /\ pc' = "load" => mode = "local"
        /\ heard' = {} /\ reload' \in {0, 1}
    BY <1>1 DEF Loop, Tick, TakeReload, TakeHangup, TakeTerminate, Begin, TypeOK
  <2>2. asked' \in BOOLEAN
    BY <1>1 DEF Loop, Tick, TakeReload, TakeHangup, TakeTerminate, Begin, TypeOK
  <2>3. Shape'
    BY <2>1 DEF Shape, TypeOK
  <2>. QED  BY <2>1, <2>2, <2>3 DEF TypeOK
<1>2. CASE PostReload \/ \E s \in {"HUP", "TERM"} : Signal(s)
  <2>1. /\ UNCHANGED <<config, published, disk, pc, job, opened, builder, bounds>>
        /\ heard' \subseteq {"HUP", "TERM"} /\ reload' \in {0, 1}
    BY <1>2 DEF PostReload, Slot, Signal, TypeOK
  <2>2. asked' \in BOOLEAN
    BY <1>2 DEF PostReload, Signal, TypeOK
  <2>3. Shape'
    BY <2>1 DEF Shape
  <2>. QED  BY <2>1, <2>2, <2>3 DEF TypeOK
<1>3. CASE Publish
  BY <1>0, <1>3 DEF Publish, TypeOK, Shape
<1>4. CASE Crash
  <2>1. dirs' \in [Dirs -> [Parts -> Content]]
    BY <1>4, InterruptedIsTyped DEF Crash
  <2>2. faults' \in 0 .. MaxFaults
    BY <1>0, <1>4 DEF Crash, Fault, TypeOK
  <2>3. /\ UNCHANGED <<config, published, link, tmp, builder, builds>>
        /\ pc' = (IF mode = "local" THEN "load" ELSE "select")
        /\ job' = Idle /\ opened' = << >> /\ reload' = 0 /\ heard' = {} /\ asked' = FALSE
    BY <1>4 DEF Crash
  <2>4. Shape'
    BY <2>3, Emptied DEF Shape, TypeOK
  <2>. QED  BY <2>1, <2>2, <2>3, <2>4, Contents, Emptied DEF TypeOK
<1>5. CASE Check \/ HeadAgain \/ Download
  BY <1>0, <1>5, Names, Contents
     DEF Check, HeadAgain, Download, Goes, ShouldDownload, TypeOK, Shape
<1>6. CASE Install
  <2>1. job.dir \in Dirs /\ job.of \in Content /\ "files" \in Parts
    BY <1>6 DEF Install, Goes, Shape, TypeOK, Parts
  <2>2. dirs' \in [Dirs -> [Parts -> Content]]
    BY <1>6, <2>1, FileWritten DEF Install, TypeOK
  <2>. QED  BY <1>6, <2>1, <2>2 DEF Install, Goes, TypeOK, Shape
<1>7. CASE RequestFails \/ GenerateFails \/ LoadFails \/ OpenFails
  <2>1. faults' \in 0 .. MaxFaults
    BY <1>0, <1>7 DEF RequestFails, GenerateFails, LoadFails, OpenFails, Fault, TypeOK
  <2>2. /\ UNCHANGED <<config, published, disk, reload, heard, asked, builder, builds>>
        /\ pc' = "select" /\ job' = Idle /\ opened' = << >>
    BY <1>7 DEF RequestFails, GenerateFails, LoadFails, OpenFails, Failed, Wait
  <2>3. Shape'
    BY <2>2, Emptied DEF Shape
  <2>. QED  BY <2>1, <2>2, <2>3, Contents, Emptied DEF TypeOK
<1>8. CASE Generate
  <2>1. Target["files"] \in Content
    BY <1>8 DEF Generate, Goes, Shape, TypeOK, Target, Parts
  <2>. QED  BY <1>8, <2>1 DEF Generate, Goes, AfterGenerate, TypeOK, Shape
<1>9. CASE Write
  <2>1. job.dir \in Dirs /\ job.of \in Content /\ job.next \in 1 .. 3
        /\ Generated[job.next] \in Parts
    BY <1>9 DEF Write, Goes, Shape, TypeOK, Parts, Generated
  <2>2. dirs' \in [Dirs -> [Parts -> Content]]
    BY <1>9, <2>1, FileWritten DEF Write, TypeOK
  <2>3. job' \in [dir : Dirs \cup {None}, of : Content, next : 1 .. 4]
        /\ job'.dir = job.dir /\ job'.next = job.next + 1
    BY <1>9, <2>1, SMTT(30) DEF Write, TypeOK
  <2>4. pc' = (IF job.next = 3 THEN AfterGenerate ELSE "write") /\ link' = link /\ tmp' = tmp
    BY <1>9 DEF Write, Goes, Generated
  <2>. QED  BY <1>9, <2>1, <2>2, <2>3, <2>4 DEF Write, Goes, AfterGenerate, TypeOK, Shape
<1>10. CASE WriteFails
  <2>1. dirs' \in [Dirs -> [Parts -> Content]]
    BY <1>10, InterruptedIsTyped DEF WriteFails
  <2>2. faults' \in 0 .. MaxFaults
    BY <1>0, <1>10 DEF WriteFails, Fault, TypeOK
  <2>3. /\ UNCHANGED <<config, published, link, tmp, reload, heard, asked, builder, builds>>
        /\ pc' = "select" /\ job' = Idle /\ opened' = << >>
    BY <1>10 DEF WriteFails, Failed, Wait
  <2>4. Shape'
    BY <2>3, Emptied DEF Shape
  <2>. QED  BY <2>1, <2>2, <2>3, <2>4, Contents, Emptied DEF TypeOK
<1>11. CASE Symlink \/ Rename
  BY <1>11, Names DEF Symlink, Rename, Goes, TypeOK, Shape
<1>12. CASE Load
  <2>1. IndexDir \in Dirs
    BY <1>12, Names DEF Load, Goes, IndexDir, TypeOK, Shape
  <2>. QED  BY <1>12, <2>1, Contents DEF Load, Goes, TypeOK, Shape, Idle
<1>13. CASE Open
  <2>1. PICK n \in Nat : n = Len(opened)
    BY LenProperties DEF Shape
  <2>2. n < 4 /\ n # 3 /\ Wanted = OpenOrder[n + 1]
    BY <1>13, <2>1, Lengths DEF Open, Wanted, OpenOrder, TypeOK
  <2>3. Found \in Content
    <3>1. Wanted \in Parts
      BY <2>2 DEF OpenOrder, Parts
    <3>. QED  BY <1>13, <3>1 DEF Open, Found, Target, TypeOK, Shape
  <2>4. opened' \in Seq(Content) /\ Len(opened') = Len(opened) + 1
    BY <1>13, <2>3, AppendProperties DEF Open, Shape
  <2>5. Len(opened') < Len(OpenOrder)
    BY <2>1, <2>2, <2>4, Lengths
  <2>. QED  BY <1>13, <2>4, <2>5 DEF Open, TypeOK, Shape
<1>14. CASE OpenPackages
  <2>1. /\ UNCHANGED <<config, published, disk, reload, heard, asked, builder, bounds>>
        /\ pc' = "select" /\ job' = Idle /\ opened' = << >>
    BY <1>14 DEF OpenPackages, Wait
  <2>2. Shape'
    BY <2>1, Emptied DEF Shape
  <2>. QED  BY <2>1, <2>2, Contents, Emptied DEF TypeOK
<1>15. CASE BuildStart
  <2>1. dirs' \in [Dirs -> [Parts -> Content]]
    BY <1>15, Names, Contents DEF BuildStart, TypeOK, Parts
  <2>. QED  BY <1>0, <1>15, <2>1 DEF BuildStart, Rebuilds, TypeOK, Shape, Built
<1>16. CASE BuildWrite
  <2>1. builder \in 1 .. 4 /\ Built[builder] \in Parts
    BY <1>16 DEF BuildWrite, TypeOK, Built, Parts
  <2>2. dirs' \in [Dirs -> [Parts -> Content]]
    <3>1. \E c \in Content : dirs' = [dirs EXCEPT ![Local][Built[builder]] = c]
      BY <1>16, Contents DEF BuildWrite
    <3>. QED  BY <2>1, <3>1, Names, FileWritten DEF TypeOK
  <2>3. builder' \in 0 .. 4 /\ mode = "local"
    BY <1>16, <2>1 DEF BuildWrite, Rebuilds, Built, Shape
  <2>. QED  BY <1>16, <2>1, <2>2, <2>3 DEF BuildWrite, Rebuilds, TypeOK, Shape, Built
<1>17. CASE BuildDies
  BY <1>0, <1>17 DEF BuildDies, Rebuilds, Fault, TypeOK, Shape, Built
<1>18. CASE UNCHANGED vars
  BY <1>18 DEF vars, TypeOK, Shape
<1>. QED
  BY <1>1, <1>2, <1>3, <1>4, <1>5, <1>6, <1>7, <1>8, <1>9, <1>10, <1>11, <1>12, <1>13, <1>14,
     <1>15, <1>16, <1>17, <1>18 DEF Next, Refresh
----------------------------------------------------------------------------
(***************************************************************************)
(* A request to reload: only the beginning of a refresh takes it out of    *)
(* the channel.                                                            *)
(***************************************************************************)
LEMMA KeptStep ==
  ASSUME asked => reload = 1, [Next]_vars
  PROVE  (asked => reload = 1)'
<1>. USE DEF config, disk, bounds
<1>1. CASE Loop
  BY <1>1 DEF Loop, Tick, TakeReload, TakeHangup, TakeTerminate, Begin
<1>2. CASE PostReload
  BY <1>2 DEF PostReload, Slot
<1>3. CASE Crash
  BY <1>3 DEF Crash
<1>4. CASE Refresh \/ RequestFails \/ WriteFails
  <2>1. UNCHANGED <<asked, reload>>
    BY <1>4 DEF Refresh, Check, HeadAgain, Download, Install, Generate, GenerateFails, Write,
       Symlink, Rename, Load, LoadFails, Open, OpenFails, OpenPackages, RequestFails, WriteFails,
       Goes, Failed, Wait
  <2>. QED  BY <2>1
<1>5. CASE (\E s \in {"HUP", "TERM"} : Signal(s)) \/ Publish \/ BuildStart \/ BuildWrite \/ BuildDies
  BY <1>5 DEF Signal, Publish, BuildStart, BuildWrite, BuildDies, Rebuilds
<1>6. CASE UNCHANGED vars
  BY <1>6 DEF vars
<1>. QED  BY <1>1, <1>2, <1>3, <1>4, <1>5, <1>6 DEF Next

----------------------------------------------------------------------------
(***************************************************************************)
(* Prebuilt mode.  A step that leaves the disk alone, and goes on waiting  *)
(* or ends the refresh.                                                    *)
(***************************************************************************)
LEMMA RestKeeps ==
  ASSUME TypeOK, Cache, mode = "prebuilt",
         \/ pc' \in {"select", "stopped", "check"}
         \/ UNCHANGED <<pc, tmp, job>>,
         UNCHANGED <<tagged, published, dirs, link>>
  PROVE  (\A d \in Dirs : Certified(d)') /\ Progress'
<1>1. \A d \in Dirs : Certified(d)'
  BY DEF Cache, Certified, Whole
<1>2. CASE pc' \in {"select", "stopped", "check"}
  BY <1>1, <1>2 DEF Cache, Progress, Whole
<1>3. CASE UNCHANGED <<pc, tmp, job>>
  BY <1>1, <1>3 DEF Cache, Progress, Whole, Target
<1>. QED  BY <1>2, <1>3

(***************************************************************************)
(* One file of the directory at work changes.                              *)
(***************************************************************************)
LEMMA OneFile ==
  ASSUME TypeOK, job.dir \in Dirs, NEW p \in Parts, NEW c,
         dirs' = [dirs EXCEPT ![job.dir][p] = c]
  PROVE  /\ \A d \in Dirs \ {job.dir} : dirs'[d] = dirs[d]
         /\ dirs'[job.dir][p] = c
         /\ \A q \in Parts \ {p} : dirs'[job.dir][q] = dirs[job.dir][q]
  BY DEF TypeOK

LEMMA OthersKeep ==
  ASSUME TypeOK, Cache, mode = "prebuilt", published' = published,
         \A d \in Dirs \ {job.dir} : dirs'[d] = dirs[d]
  PROVE  \A d \in Dirs \ {job.dir} : Certified(d)'
  BY DEF Cache, Certified, Whole

(***************************************************************************)
(* An interrupted write in a directory whose hashes are not those of its   *)
(* `files` leaves it certified.                                            *)
(***************************************************************************)
LEMMA InterruptedKeeps ==
  ASSUME TypeOK, Shape, Cache, mode = "prebuilt", dirs' \in Interrupted,
         pc' = "select", UNCHANGED <<tagged, published, link>>
  PROVE  (\A d \in Dirs : Certified(d)') /\ Progress'
<1>1. CASE dirs' = dirs
  BY <1>1, RestKeeps
<1>2. ASSUME pc = "write",
             NEW c \in {Cut} \cup (IF Generated[job.next] = "hashes" THEN {Missing} ELSE {}),
             dirs' = [dirs EXCEPT ![job.dir][Generated[job.next]] = c]
      PROVE  (\A d \in Dirs : Certified(d)') /\ Progress'
  <2>1. /\ job.dir \in Dirs
        /\ Generated[job.next] \in {"sidecars", "packages", "hashes"}
        /\ Generated[job.next] \in Parts
    BY <1>2 DEF Shape, Generated, Parts
  <2>2. /\ \A d \in Dirs \ {job.dir} : dirs'[d] = dirs[d]
        /\ dirs'[job.dir][Generated[job.next]] = c
        /\ \A q \in Parts \ {Generated[job.next]} : dirs'[job.dir][q] = dirs[job.dir][q]
    BY <1>2, <2>1, OneFile
  <2>3. c \notin Nat
    BY <1>2, BoundsAssumption
  <2>4. dirs'[job.dir]["files"] = dirs[job.dir]["files"]
    BY <2>1, <2>2 DEF Parts
  <2>5. dirs'[job.dir]["hashes"] \notin Nat \/ dirs'[job.dir]["hashes"] = dirs[job.dir]["hashes"]
    BY <2>1, <2>2, <2>3 DEF Parts
  <2>6. PICK d \in Dirs : d = job.dir
    BY <2>1
  <2>7. Certified(d)'
    BY <1>2, <2>4, <2>5, <2>6 DEF Cache, Progress, Certified, Target
  <2>8. Progress'
    BY <1>2 DEF Cache, Progress
  <2>. QED  BY <2>2, <2>6, <2>7, <2>8, OthersKeep
<1>3. QED  BY <1>1, <1>2 DEF Interrupted

LEMMA WriteKeeps ==
  ASSUME TypeOK, Shape, Cache, mode = "prebuilt", Write
  PROVE  (\A d \in Dirs : Certified(d)') /\ Progress'
<1>1. /\ pc = "write" /\ job.dir \in Dirs /\ job.next \in 1 .. 3
      /\ Generated[job.next] \in {"sidecars", "packages", "hashes"}
      /\ Generated[job.next] \in Parts
      /\ dirs' = [dirs EXCEPT ![job.dir][Generated[job.next]] = job.of]
      /\ UNCHANGED <<tagged, published, link>>
  BY DEF Write, Goes, Shape, Generated, Parts, config
<1>2. /\ \A d \in Dirs \ {job.dir} : dirs'[d] = dirs[d]
      /\ dirs'[job.dir][Generated[job.next]] = job.of
      /\ \A q \in Parts \ {Generated[job.next]} : dirs'[job.dir][q] = dirs[job.dir][q]
  BY <1>1, OneFile
<1>3. job'.dir = job.dir /\ job'.of = job.of /\ job'.next = job.next + 1
  BY DEF Write, TypeOK
<1>4. pc' = IF job.next = 3 THEN "link" ELSE "write"
  BY Lengths DEF Write, Goes, AfterGenerate
<1>5. /\ Target["files"] \in Nat /\ job.of = Target["files"]
      /\ Target["hashes"] # Target["files"]
      /\ job.next > 1 => Target["sidecars"] = job.of
      /\ job.next > 2 => Target["packages"] = job.of
      /\ tagged \/ link = None
      /\ Certified(job.dir)
  BY <1>1 DEF Cache, Progress
<1>6. dirs'[job.dir]["files"] = job.of
  BY <1>1, <1>2, <1>5 DEF Parts, Target
<1>d. PICK d \in Dirs : d = job.dir
  BY <1>1
<1>7. CASE job.next < 3
  <2>1. Generated[job.next] # "hashes"
    BY <1>1, <1>7 DEF Generated
  <2>2. dirs'[job.dir]["hashes"] = dirs[job.dir]["hashes"]
    BY <1>1, <1>2, <2>1 DEF Parts
  <2>3. Certified(d)'
    BY <1>1, <1>5, <1>6, <1>d, <2>2 DEF Certified, Target
  <2>4. /\ dirs'[job.dir]["sidecars"] = job.of
        /\ job.next = 2 => dirs'[job.dir]["packages"] = job.of
    BY <1>1, <1>2, <1>5, <1>7 DEF Generated, Parts, Target
  <2>5. Progress'
    BY <1>1, <1>3, <1>4, <1>5, <1>6, <1>7, <2>2, <2>4 DEF Progress, Target
  <2>. QED  BY <1>1, <1>2, <1>d, <2>3, <2>5, OthersKeep
<1>8. CASE job.next = 3
  <2>1. /\ dirs'[job.dir]["hashes"] = job.of
        /\ dirs'[job.dir]["sidecars"] = job.of
        /\ dirs'[job.dir]["packages"] = job.of
    BY <1>1, <1>2, <1>5, <1>8 DEF Generated, Parts, Target
  <2>2. job.of \in 1 .. published'
    BY <1>1, <1>5, BoundsAssumption DEF Certified, Target
  <2>3. Whole(d)'
    BY <1>6, <1>d, <2>1, <2>2 DEF Whole
  <2>4. Certified(d)'
    BY <1>6, <1>d, <2>1, <2>2, <2>3 DEF Certified, Whole
  <2>5. Progress'
    BY <1>1, <1>3, <1>4, <1>5, <1>8, <1>d, <2>3 DEF Progress, Whole
  <2>. QED  BY <1>1, <1>2, <1>d, <2>4, <2>5, OthersKeep
<1>. QED  BY <1>1, <1>7, <1>8

LEMMA InstallKeeps ==
  ASSUME TypeOK, Shape, Cache, mode = "prebuilt", Install
  PROVE  (\A d \in Dirs : Certified(d)') /\ Progress'
<1>1. /\ pc = "install" /\ pc' = "generate" /\ "files" \in Parts
      /\ dirs' = [dirs EXCEPT ![job.dir]["files"] = job.of]
      /\ UNCHANGED <<tagged, published, link, job>>
  BY DEF Install, Goes, config, Parts
<1>2. PICK d \in Dirs : d = job.dir
  BY <1>1 DEF Shape
<1>3. /\ \A e \in Dirs \ {job.dir} : dirs'[e] = dirs[e]
      /\ dirs'[d]["files"] = job.of
      /\ \A q \in Parts \ {"files"} : dirs'[d][q] = dirs[d][q]
  BY <1>1, <1>2, OneFile, ZenonT(40)
<1>4. /\ job.of \in 1 .. published
      /\ dirs[d]["files"] \in Nat => dirs[d]["files"] <= job.of
      /\ tagged \/ link = None
      /\ Certified(d)
  BY <1>1, <1>2 DEF Cache, Progress, Target
<1>5. \A q \in {"sidecars", "packages", "hashes"} : dirs'[d][q] = dirs[d][q]
  BY <1>3 DEF Parts
<1>6. published \in Nat /\ job.of \in Nat /\ Missing \notin Nat
  BY <1>4, BoundsAssumption DEF TypeOK
<1>7. ASSUME dirs'[d]["hashes"] \in Nat
      PROVE  /\ dirs'[d]["hashes"] <= job.of
             /\ dirs'[d]["hashes"] = job.of => Whole(d)'
  <2>1. /\ dirs[d]["hashes"] \in Nat /\ dirs[d]["files"] \in Nat
        /\ dirs[d]["hashes"] <= dirs[d]["files"] /\ dirs[d]["files"] <= job.of
        /\ dirs[d]["hashes"] = dirs[d]["files"] => Whole(d)
    BY <1>4, <1>5, <1>7 DEF Certified
  <2>2. ASSUME dirs'[d]["hashes"] = job.of PROVE Whole(d)'
    <3>1. dirs[d]["hashes"] = dirs[d]["files"] /\ dirs[d]["files"] = job.of
      BY <1>5, <1>6, <2>1, <2>2
    <3>. QED  BY <1>1, <1>3, <1>4, <1>5, <2>1, <3>1 DEF Whole
  <2>3. dirs'[d]["hashes"] <= job.of
    BY <1>5, <1>6, <2>1
  <2>. QED  BY <2>2, <2>3
<1>8. Certified(d)'
  BY <1>1, <1>3, <1>4, <1>6, <1>7 DEF Certified
<1>9. Progress'
  BY <1>1, <1>2, <1>3, <1>4, <1>6 DEF Progress, Target
<1>. QED  BY <1>1, <1>2, <1>3, <1>8, <1>9, OthersKeep

(***************************************************************************)
(* The steps of a refresh that write no file of the directory.             *)
(***************************************************************************)
LEMMA StepKeeps ==
  ASSUME TypeOK, Shape, Cache, mode = "prebuilt",
         Check \/ HeadAgain \/ Download \/ Generate \/ Symlink \/ Rename \/ Load
  PROVE  (\A d \in Dirs : Certified(d)') /\ Progress'
<1>. USE DEF config
<1>1. UNCHANGED <<tagged, published, dirs>>
  BY DEF Check, HeadAgain, Download, Generate, Symlink, Rename, Load, Goes, disk
<1>2. \A d \in Dirs : Certified(d)'
  BY <1>1 DEF Cache, Certified, Whole
<1>3. ASSUME NEW d \in Dirs PROVE Whole(d)' <=> Whole(d)
  BY <1>1 DEF Whole
<1>4. CASE Check
  <2>1. pc = "check" /\ pc' \in {"head", "load"} /\ UNCHANGED <<link, job>>
    BY <1>4 DEF Check, Goes, disk
  <2>2. pc' = "load" => link # None /\ ~tagged
    BY <1>1, <1>4, Names DEF Check, Goes, ShouldDownload, TypeOK
  <2>3. pc' = "head" => tagged \/ link = None
    BY <1>4, Names DEF Check, Goes, ShouldDownload, TypeOK
  <2>. QED  BY <1>1, <1>2, <2>1, <2>2, <2>3 DEF Cache, Progress, Whole
<1>5. CASE HeadAgain
  BY <1>1, <1>2, <1>5 DEF HeadAgain, Goes, disk, Cache, Progress
<1>6. CASE Download
  <2>1. /\ pc = "download" /\ pc' = "install" /\ job.dir \in Dirs
        /\ job'.dir = job.dir /\ job'.of = published /\ link' = link
    BY <1>6 DEF Download, Goes, disk, Shape, TypeOK
  <2>2. dirs[job.dir]["files"] \in Nat => dirs[job.dir]["files"] <= published
    BY <2>1, BoundsAssumption DEF Cache, Certified
  <2>3. published \in 1 .. published
    BY BoundsAssumption DEF TypeOK
  <2>. QED  BY <1>1, <1>2, <2>1, <2>2, <2>3 DEF Cache, Progress, Target
<1>7. CASE Generate
  <2>1. /\ pc = "generate" /\ pc' = (IF UpToDate THEN "link" ELSE "write") /\ job.dir \in Dirs
        /\ job'.dir = job.dir /\ job'.of = Target["files"] /\ job'.next = 1 /\ link' = link
    BY <1>7 DEF Generate, Goes, AfterGenerate, disk, Shape, TypeOK
  <2>2. Target["files"] \in Nat /\ (tagged \/ link = None) /\ Certified(job.dir)
    BY <2>1 DEF Cache, Progress
  <2>3. Target["hashes"] = Target["files"] => Whole(job.dir)
    BY <2>2 DEF Certified, Target
  <2>4. UpToDate <=> Target["hashes"] = Target["files"]
    BY <2>2, <2>3, BoundsAssumption DEF UpToDate, Whole, Target
  <2>. QED  BY <1>1, <1>2, <2>1, <2>2, <2>3, <2>4 DEF Progress, Target, Whole
<1>8. CASE Symlink
  BY <1>1, <1>2, <1>8 DEF Symlink, Goes, Cache, Progress, Whole
<1>9. CASE Rename
  <2>1. pc = "rename" /\ pc' = "load" /\ link' = tmp /\ tmp \in Dirs /\ Whole(tmp)
    BY <1>9 DEF Rename, Goes, Shape, Cache, Progress
  <2>. QED  BY <1>1, <1>2, <2>1, Names DEF Progress, Whole
<1>10. CASE Load
  <2>1. pc = "load" /\ link' = link /\ link # None /\ Whole(link)
    BY <1>10 DEF Load, Goes, disk, Cache, Progress
  <2>2. dirs[link]["packages"] # Missing
    BY <2>1, BoundsAssumption DEF Whole
  <2>3. pc' = "open"
    BY <1>10, <2>2 DEF Load, Goes, IndexDir
  <2>. QED  BY <1>1, <1>2, <2>1, <2>3 DEF Progress, Whole
<1>. QED  BY <1>4, <1>5, <1>6, <1>7, <1>8, <1>9, <1>10

LEMMA PublishKeeps ==
  ASSUME TypeOK, Cache, mode = "prebuilt", Publish
  PROVE  (\A d \in Dirs : Certified(d)') /\ Progress'
<1>1. /\ UNCHANGED <<tagged, dirs, link, tmp, pc, job>>
      /\ published' = published + 1 /\ published \in Nat
  BY BoundsAssumption DEF Publish, config, disk, TypeOK
<1>2. 1 .. published \subseteq 1 .. published'
  BY <1>1
<1>3. \A d \in Dirs : Certified(d)'
  BY <1>1, <1>2 DEF Cache, Certified, Whole
<1>. QED  BY <1>1, <1>2, <1>3 DEF Cache, Progress, Whole, Target

LEMMA CacheStep ==
  ASSUME TypeOK, Shape, Cache, [Next]_vars
  PROVE  Cache'
<1>. USE DEF config, disk, bounds
<1>1. mode' = mode
  BY DEF Next, Loop, Tick, TakeReload, TakeHangup, TakeTerminate, Begin, Refresh, Check, HeadAgain,
     Download, Install, Generate, GenerateFails, Write, Symlink, Rename, Load, LoadFails, Open,
     OpenFails, OpenPackages, RequestFails, WriteFails, Crash, PostReload, Signal, Publish,
     BuildStart, BuildWrite, BuildDies, Rebuilds, Goes, vars
<1>. SUFFICES ASSUME mode = "prebuilt"
              PROVE  (\A d \in Dirs : Certified(d)') /\ Progress'
  BY <1>1 DEF Cache
<1>2. CASE Loop
  BY <1>2, RestKeeps DEF Loop, Tick, TakeReload, TakeHangup, TakeTerminate, Begin
<1>3. CASE GenerateFails \/ LoadFails \/ OpenFails \/ OpenPackages \/ RequestFails
  BY <1>3, RestKeeps
     DEF GenerateFails, LoadFails, OpenFails, OpenPackages, RequestFails, Failed, Wait
<1>4. CASE Open \/ PostReload \/ (\E s \in {"HUP", "TERM"} : Signal(s)) \/ UNCHANGED vars
  BY <1>4, RestKeeps DEF Open, PostReload, Signal, vars
<1>5. CASE Check \/ HeadAgain \/ Download \/ Generate \/ Symlink \/ Rename \/ Load
  BY <1>5, StepKeeps
<1>6. CASE Install
  BY <1>6, InstallKeeps
<1>7. CASE Write
  BY <1>7, WriteKeeps
<1>8. CASE Crash \/ WriteFails
  BY <1>8, InterruptedKeeps DEF Crash, WriteFails, Failed, Wait
<1>9. CASE Publish
  BY <1>9, PublishKeeps
<1>10. CASE BuildStart \/ BuildWrite \/ BuildDies
  BY <1>10 DEF BuildStart, BuildWrite, BuildDies, Shape
<1>. QED  BY <1>2, <1>3, <1>4, <1>5, <1>6, <1>7, <1>8, <1>9, <1>10 DEF Next, Refresh

----------------------------------------------------------------------------
(***************************************************************************)
(* Through every signal, failure, crash, release and local build.          *)
(***************************************************************************)
THEOREM Invariance == Spec => []IInv
<1>1. Init => IInv
  BY Initially
<1>2. IInv /\ [Next]_vars => IInv'
  BY TypeStep, KeptStep, CacheStep DEF IInv, ReloadKept
<1>. QED  BY <1>1, <1>2, PTL DEF Spec

(***************************************************************************)
(* Every variable keeps its type, and a POST /reload that no refresh has   *)
(* followed yet is still in the channel.                                   *)
(***************************************************************************)
THEOREM ReloadsAreKept == Spec => []ReloadKept
<1>1. IInv => ReloadKept
  BY DEF IInv
<1>. QED  BY <1>1, Invariance, PTL

(***************************************************************************)
(* Whatever crashed or failed before, in prebuilt mode only a directory    *)
(* that is one whole release is ever loaded.                               *)
(***************************************************************************)
THEOREM OnlyWholeIsLoaded == Spec => []LoadsWhole
<1>1. IInv => LoadsWhole
  BY DEF IInv, Cache, Progress, LoadsWhole
<1>. QED  BY <1>1, Invariance, PTL

----------------------------------------------------------------------------
(***************************************************************************)
(* A call: what it has seen, and whether its answer is true of it.  A call *)
(* that runs has seen what is in the directory and what each server has    *)
(* loaded, and a handler's snapshot is one it has seen.  An answer is made *)
(* of one of these, and what was seen stays seen.                          *)
(***************************************************************************)
Requests == {load[cl] : load \in Workloads, cl \in Clients}
Places == {"idle", "probe", "poll", "ask", "sent", "handling", "alone", "done"}

IsCall(k) ==
  /\ k = [pc |-> k.pc, call |-> k.call, server |-> k.server, snapshot |-> k.snapshot,
          seen |-> k.seen, out |-> k.out]
  /\ k.pc \in Places /\ k.call \in Requests /\ k.seen \subseteq Generations
  /\ k.server \in Servers \cup {Nil}

Sees(k) ==
  /\ generation \in k.seen
  /\ \A s \in Servers : servers[s].snapshot \in k.seen \cup {Nil}
  /\ k.pc = "handling" => k.snapshot \in k.seen \cup {Nil}

Described(k) ==
  /\ Done(k, "search") /\ Good(k) => SearchTrue(k)
  /\ Done(k, "info") /\ (Good(k) \/ (k.out # Nil /\ k.out.status = 404)) => InfoTrue(k)

Answered(k) ==
  /\ Done(k, "nix-locate") => LocateTrue(k)
  /\ Done(k, "command") => CommandTrue(k)
  /\ Described(k)

\* Only nix-locate and a command lookup go on without a daemon.
Sound(k) ==
  /\ IsCall(k) /\ Answered(k)
  /\ k.pc \notin {"idle", "done"} => k.call # Nil /\ Sees(k)
  /\ k.pc = "alone" => k.call.kind \in {"nix-locate", "command"}

RequestsIInv ==
  /\ generation \in Generations
  /\ servers \in [Servers -> [pc : {"off", "up"}, http : {"unbound", "bound", "failed"},
                              token : BOOLEAN, snapshot : Generations \cup {Nil}]]
  /\ installs \in 0 .. MaxInstalls /\ failures \in 0 .. MaxFailures
  /\ calls = [cl \in Clients |-> calls[cl]]
  /\ \A cl \in Clients : Sound(calls[cl])

(***************************************************************************)
(* What a limit lets through: some of the hits, and all if they are few.   *)
(***************************************************************************)
LEMMA LimitTakes ==
  ASSUME NEW All, IsFiniteSet(All), NEW H \in SUBSET All, NEW n \in Nat \cup {Nil},
         NEW S \in Limited(H, n)
  PROVE  /\ S \subseteq H
         /\ n = Nil \/ ~(Cardinality(All) > n) => S = H
<1>1. IsFiniteSet(H) /\ Cardinality(H) <= Cardinality(All)
  BY FS_Subset
<1>2. Cardinality(H) \in Nat /\ Cardinality(All) \in Nat
  BY <1>1, FS_CardinalityType
<1>3. S \subseteq H
  BY DEF Limited, kSubset
<1>4. n = Nil \/ ~(Cardinality(All) > n) => S = H
  <2>1. CASE n = Nil
    BY <2>1 DEF Limited
  <2>2. CASE n # Nil /\ ~(Cardinality(All) > n)
    <3>1. Cardinality(H) <= n
      BY <1>1, <1>2, <2>2
    <3> QED BY <3>1 DEF Limited
  <2> QED BY <2>1, <2>2
<1> QED BY <1>3, <1>4

LEMMA MatchingIsFinite ==
  ASSUME NEW g \in Generations, NEW c PROVE IsFiniteSet(Matching(g, c))
BY FilesAssumption, FS_Subset DEF Matching

LEMMA LimitIsTyped == ASSUME NEW n \in Nat \cup {Nil} PROVE AtMost(n) \in Nat
BY CallsAssumption DEF AtMost

(***************************************************************************)
(* What a request is: of the program's own types.                          *)
(***************************************************************************)
LEMMA LocateIsTyped ==
  ASSUME NEW c \in Requests, c # Nil, c.kind = "nix-locate"
  PROVE  /\ c.pattern \in Seq(STRING) /\ c.limit \in Nat \cup {Nil}
         /\ c.rooted \in BOOLEAN /\ c.minimal \in BOOLEAN
         /\ c.all \in BOOLEAN /\ c.group \in BOOLEAN
<1>1. PICK load \in Workloads, cl \in Clients : c = load[cl]
  BY DEF Requests
<1>2. \A option \in {"rooted", "minimal", "all", "group"} : c[option] \in BOOLEAN
  BY <1>1, CallsAssumption
<1> QED BY <1>1, <1>2, CallsAssumption

(***************************************************************************)
(* What was asked for, both searches find: alone by the two filters, from  *)
(* a daemon, of top-level packages, because what matches at its start has  *)
(* the pattern for a prefix.                                               *)
(***************************************************************************)
LEMMA AloneFinds ==
  ASSUME NEW g, NEW c PROVE LocalHits(g, c) = Asked(g, c)
BY DEF Asked, LocalHits

LEMMA DaemonFinds ==
  ASSUME NEW g \in Generations, NEW resident,
         NEW c \in Requests, c # Nil, c.kind = "nix-locate", c.rooted => resident = g
  PROVE  Toplevel(g, Asked(g, c)) \subseteq DaemonHits(g, resident, c)
<1> SUFFICES ASSUME NEW h \in Toplevel(g, Asked(g, c)) PROVE h \in DaemonHits(g, resident, c)
  OBVIOUS
<1>1. h \in Matching(g, c) /\ Package(g, h).toplevel
  BY DEF Toplevel, Asked
<1>2. ASSUME c.rooted PROVE h.n \in PrefixOrdinals(resident, c)
  <2>1. h \in Files(g) /\ OccursAt(c.pattern, h.path, 0)
    BY <1>1, <1>2 DEF Matching
  <2>2. PICK n \in DOMAIN Dir[g].packages : \E f \in Dir[g].packages[n].files :
          h = [n |-> n, path |-> f.path, type |-> f.type]
    BY <2>1 DEF Files
  <2>3. h.path \in Seq(STRING) /\ c.pattern \in Seq(STRING)
    BY <2>2, DirectoryAssumption, LocateIsTyped
  <2>4. Len(c.pattern) <= Len(h.path) /\ SubSeq(h.path, 1, Len(c.pattern)) = c.pattern
    BY <2>1, <2>3 DEF OccursAt
  <2>5. SubSeq(c.pattern, 1, Len(c.pattern)) = c.pattern
    BY <2>3
  <2>6. IsPrefix(c.pattern, h.path)
    BY <2>4, <2>5 DEF IsPrefix
  <2> QED BY <1>2, <2>1, <2>6 DEF PrefixOrdinals
<1> QED BY <1>1, <1>2 DEF DaemonHits

(***************************************************************************)
(* A line for each of what the limit let through is a true answer, if what *)
(* must be shown was among the hits.                                       *)
(***************************************************************************)
LEMMA LocateAnswer ==
  ASSUME NEW k, NEW g \in Generations, g \in k.seen,
         k.call \in Requests, k.call # Nil, k.call.kind = "nix-locate",
         NEW H, NEW alone \in BOOLEAN,
         NEW S \in Limited(H, IF alone THEN k.call.limit ELSE AtMost(k.call.limit)),
         k.out = Reply(IF alone THEN Itself ELSE 200, Rows(g, k.call, S, alone)),
         H \subseteq May(k, g), Mixed(k) \/ Must(k, g) \subseteq H
  PROVE  LocateTrue(k)
<1> DEFINE c == k.call
           n == IF alone THEN c.limit ELSE AtMost(c.limit)
<1>1. n \in Nat \cup {Nil}
  BY LocateIsTyped, LimitIsTyped
<1>2. k.out.body = Rows(g, c, S, alone) /\ alone = BySelf(k) /\ Limit(k) = n
  BY DEF Reply, Itself, Limit, BySelf
<1>3. S \subseteq H /\ (n = Nil \/ ~(Cardinality(May(k, g)) > n) => S = H)
  <2>1. May(k, g) \subseteq Matching(g, c)
    BY DEF May, Asked, Toplevel
  <2>2. IsFiniteSet(May(k, g))
    BY <2>1, MatchingIsFinite, FS_Subset
  <2>3. H \in SUBSET May(k, g) /\ S \in Limited(H, n)
    OBVIOUS
  <2> HIDE DEF n, c
  <2> QED BY <1>1, <2>2, <2>3, LimitTakes
<1>4. k.out.body \subseteq Lines(k, g, May(k, g))
  BY <1>2, <1>3 DEF Rows, Lines
<1>5. ASSUME ~CutOff(k, g), ~Mixed(k) PROVE Lines(k, g, Must(k, g)) \subseteq k.out.body
  <2>1. S = H
    BY <1>2, <1>3, <1>5 DEF CutOff
  <2> QED BY <1>2, <2>1, <1>5 DEF Rows, Lines
<1> QED BY <1>4, <1>5 DEF LocateTrue

(***************************************************************************)
(* What is said of the packages that have a command, and which is run.     *)
(***************************************************************************)
LEMMA ProvidersAreFinite ==
  ASSUME NEW g \in Generations, NEW name
  PROVE  IsFiniteSet(Providers(g, name)) /\ IsFiniteSet(Scanned(g, name))
<1>1. ASSUME NEW F \in SUBSET Files(g) PROVE IsFiniteSet({Provider(g, h) : h \in F})
  <2> DEFINE T == {Provider(g, h) : h \in F}
             f == [h \in F |-> Provider(g, h)]
  <2>1. f \in Surjection(F, T)
    BY DEF Surjection
  <2> QED BY <2>1, FilesAssumption, FS_Subset, FS_Surjection
<1> QED BY <1>1 DEF Providers, Scanned

LEMMA OutcomeRuns ==
  ASSUME NEW P, IsFiniteSet(P), NEW how, NEW o \in Outcomes(P, how)
  PROVE  /\ o.providers = P
         /\ o.ran # Nil => /\ o.ran \in P /\ o.ran.toplevel
                           /\ how # "interactive" => P = {o.ran}
<1>1. CASE P = {}
  <2>1. o = Said("not found", P, Nil)
    BY <1>1 DEF Outcomes
  <2> QED BY <2>1 DEF Said
<1>2. CASE P # {} /\ how = "print"
  <2>1. o = Said("listed", P, Nil)
    BY <1>2 DEF Outcomes
  <2> QED BY <2>1 DEF Said
<1>3. CASE P # {} /\ how # "print" /\ how # "interactive" /\ Cardinality(P) > 1
  <2>1. o = Said("listed", P, Nil)
    BY <1>3 DEF Outcomes
  <2> QED BY <2>1 DEF Said
<1>4. CASE P # {} /\ how # "print" /\ ~(how # "interactive" /\ Cardinality(P) > 1)
  <2>1. \/ o \in {Said("refused", P, Nil), Said("failed", P, Nil), Said("declined", P, Nil)}
        \/ /\ \A p \in P : p.toplevel
           /\ \E p \in P : o = Said("ran", P, p)
    BY <1>4 DEF Outcomes, Acts
  <2>2. ASSUME how # "interactive", NEW p \in P PROVE P = {p}
    <3>1. Cardinality(P) \in Nat /\ ~(Cardinality(P) > 1)
      BY <1>4, <2>2, FS_CardinalityType
    <3>2. IsFiniteSet({p}) /\ Cardinality({p}) = 1
      BY FS_Singleton
    <3>3. Cardinality(P) = 1
      BY <3>1, <3>2, FS_Subset, {p} \subseteq P
    <3> QED BY <3>3, FS_Singleton
  <2> QED BY <2>1, <2>2 DEF Said
<1> QED BY <1>1, <1>2, <1>3, <1>4

LEMMA CommandAnswer ==
  ASSUME NEW k, NEW g \in Generations, g \in k.seen, NEW P,
         \/ P \in {Providers(g, k.call.name), Scanned(g, k.call.name)}
         \/ P = {} /\ Dir[g].command = "unreadable",
         k.out \in Outcomes(P, k.call.mode)
  PROVE  CommandTrue(k)
<1>1. IsFiniteSet(P)
  BY ProvidersAreFinite, FS_EmptySet
<1>2. /\ k.out.providers = P
      /\ k.out.ran # Nil => /\ k.out.ran \in P /\ k.out.ran.toplevel
                            /\ k.call.mode # "interactive" => P = {k.out.ran}
  BY <1>1, OutcomeRuns
<1> QED BY <1>2 DEF CommandTrue

----------------------------------------------------------------------------
(***************************************************************************)
(* Searching the metadata.  A stable sort: whatever tells two places apart *)
(* without contradicting itself (Weak), together with the places it is an  *)
(* order of them all, and each rank of it is taken once.                   *)
(***************************************************************************)
Weak(S, less) ==
  /\ \A i, j \in S : ~(<<i, j>> \in less /\ <<j, i>> \in less)
  /\ \A i, j, k \in S : <<i, k>> \in less => <<i, j>> \in less \/ <<j, k>> \in less

\* The places before one, and how many they are.
Earliers(S, less, i) == {j \in S : GoesFirst(less, j, i)}

LEMMA GoesFirstOrders ==
  ASSUME NEW S, S \subseteq Nat, NEW less, Weak(S, less)
  PROVE  /\ \A i \in S : ~GoesFirst(less, i, i)
         /\ \A i, j, k \in S : GoesFirst(less, i, j) /\ GoesFirst(less, j, k) => GoesFirst(less, i, k)
         /\ \A i, j \in S : i # j => GoesFirst(less, i, j) \/ GoesFirst(less, j, i)
         /\ \A i, j \in S : GoesFirst(less, i, j) => <<j, i>> \notin less
<1>1. ASSUME NEW i \in S PROVE ~GoesFirst(less, i, i)
  <2>1. <<i, i>> \notin less
    BY Zenon DEF Weak
  <2>2. ~(i < i)
    OBVIOUS
  <2> QED BY <2>1, <2>2, Zenon DEF GoesFirst
<1>2. ASSUME NEW i \in S, NEW j \in S, GoesFirst(less, i, j) PROVE <<j, i>> \notin less
  BY <1>2, Zenon DEF GoesFirst, Weak
<1>3. ASSUME NEW i \in S, NEW j \in S, i # j PROVE GoesFirst(less, i, j) \/ GoesFirst(less, j, i)
  <2>1. i < j \/ j < i
    BY <1>3
  <2> QED BY <2>1, Zenon DEF GoesFirst
<1>4. ASSUME NEW i \in S, NEW j \in S, NEW k \in S, GoesFirst(less, i, j), GoesFirst(less, j, k)
      PROVE  GoesFirst(less, i, k)
  <2>1. <<j, i>> \notin less /\ <<k, j>> \notin less
    BY <1>2, <1>4
  <2>2. <<k, i>> \notin less
    BY <2>1, Zenon DEF Weak
  <2>3. CASE <<i, k>> \in less
    BY <2>3, Zenon DEF GoesFirst
  <2>4. CASE <<i, k>> \notin less
    <3>1. <<i, j>> \notin less /\ <<j, k>> \notin less
      BY <2>1, <2>4, Zenon DEF Weak
    <3>2. i < j /\ j < k
      BY <3>1, <1>4, Zenon DEF GoesFirst
    <3>3. i < k
      BY <3>2
    <3> QED BY <2>2, <3>3, Zenon DEF GoesFirst
  <2> QED BY <2>3, <2>4
<1> QED BY <1>1, <1>2, <1>3, <1>4

LEMMA RanksDiffer ==
  ASSUME NEW S, IsFiniteSet(S), S \subseteq Nat, NEW less, Weak(S, less), NEW i \in S
  PROVE  /\ IsFiniteSet(Earliers(S, less, i))
         /\ Cardinality(Earliers(S, less, i)) \in 0 .. Cardinality(S) - 1
         /\ \A j \in S : GoesFirst(less, i, j) =>
              Cardinality(Earliers(S, less, i)) < Cardinality(Earliers(S, less, j))
<1>1. ASSUME NEW j \in S
      PROVE  IsFiniteSet(Earliers(S, less, j)) /\ Cardinality(Earliers(S, less, j)) \in 0 .. Cardinality(S) - 1
  <2>1. IsFiniteSet(S \ {j}) /\ Cardinality(S \ {j}) = Cardinality(S) - 1
    BY FS_RemoveElement
  <2>2. Earliers(S, less, j) \subseteq S \ {j}
    <3>1. ~GoesFirst(less, j, j)
      BY GoesFirstOrders, Zenon
    <3> QED BY <3>1, Zenon DEF Earliers
  <2>3. IsFiniteSet(Earliers(S, less, j)) /\ Cardinality(Earliers(S, less, j)) <= Cardinality(S) - 1
    BY <2>1, <2>2, FS_Subset
  <2>4. Cardinality(Earliers(S, less, j)) \in Nat /\ Cardinality(S) \in Nat
    BY <2>3, FS_CardinalityType
  <2> QED BY <2>3, <2>4
<1>2. ASSUME NEW j \in S, GoesFirst(less, i, j)
      PROVE  Cardinality(Earliers(S, less, i)) < Cardinality(Earliers(S, less, j))
  <2>1. Earliers(S, less, i) \subseteq Earliers(S, less, j)
    BY <1>2, GoesFirstOrders, Zenon DEF Earliers
  <2>2. i \in Earliers(S, less, j) /\ i \notin Earliers(S, less, i)
    BY <1>2, GoesFirstOrders, Zenon DEF Earliers
  <2>3. Earliers(S, less, i) # Earliers(S, less, j)
    BY <2>2, Zenon
  <2>4. /\ Cardinality(Earliers(S, less, i)) <= Cardinality(Earliers(S, less, j))
        /\ Cardinality(Earliers(S, less, i)) = Cardinality(Earliers(S, less, j))
             => Earliers(S, less, i) = Earliers(S, less, j)
    BY <1>1, <2>1, FS_Subset
  <2>5. Cardinality(Earliers(S, less, i)) \in Nat /\ Cardinality(Earliers(S, less, j)) \in Nat
    BY <1>1
  <2> QED BY <2>3, <2>4, <2>5
<1> QED BY <1>1, <1>2

LEMMA RankTaken ==
  ASSUME NEW S, IsFiniteSet(S), S \subseteq Nat, NEW less, Weak(S, less), NEW n \in 1 .. Cardinality(S)
  PROVE  \E i \in S : n - 1 = Cardinality(Earliers(S, less, i))
<1> DEFINE m == Cardinality(S)
           T == 0 .. m - 1
           f == [i \in S |-> Cardinality(Earliers(S, less, i))]
<1>1. m \in Nat
  BY FS_CardinalityType
<1>2. f \in [S -> T]
  BY RanksDiffer
<1>3. ASSUME NEW i \in S, NEW j \in S, f[i] = f[j] PROVE i = j
  <2>1. Cardinality(Earliers(S, less, i)) = Cardinality(Earliers(S, less, j))
    BY <1>3
  <2>2. Cardinality(Earliers(S, less, i)) \in Int
    <3>1. Cardinality(Earliers(S, less, i)) \in 0 .. m - 1
      BY RanksDiffer, Zenon
    <3> QED BY <1>1, <3>1
  <2>3. ~GoesFirst(less, i, j) /\ ~GoesFirst(less, j, i)
    <3>1. ~(Cardinality(Earliers(S, less, i)) < Cardinality(Earliers(S, less, j)))
          /\ ~(Cardinality(Earliers(S, less, j)) < Cardinality(Earliers(S, less, i)))
      BY <2>1, <2>2
    <3> QED BY <3>1, RanksDiffer, Zenon
  <2> QED BY <2>3, GoesFirstOrders, Zenon
<1> HIDE DEF f
<1>4. f \in Injection(S, T)
  BY <1>2, <1>3 DEF Injection, IsInjective
<1>5. IsFiniteSet(T) /\ Cardinality(T) = m
  <2>1. IsFiniteSet(0 .. m - 1) /\ Cardinality(0 .. m - 1) = (IF 0 > m - 1 THEN 0 ELSE m - 1 - 0 + 1)
    <3>1. 0 \in Int /\ m - 1 \in Int
      BY <1>1
    <3> QED BY <3>1, FS_Interval
  <2> HIDE DEF m
  <2> QED BY <1>1, <2>1
<1>6. f \in Surjection(S, T)
  <2> HIDE DEF T
  <2> QED BY <1>4, <1>5, FS_Injection
<1>7. n - 1 \in T
  BY <1>1
<1>8. \E i \in S : f[i] = n - 1
  BY <1>6, <1>7 DEF Surjection
<1> QED BY <1>8 DEF f

(***************************************************************************)
(* A list t of k of the places in S, or of all if they are fewer: each     *)
(* once, and each such that B allows it before what follows, be it in the  *)
(* list or left out.                                                       *)
(***************************************************************************)
Lists(t, S, k, B) ==
  /\ t \in Seq(S) /\ Len(t) <= k /\ Len(t) <= Cardinality(S)
  /\ Len(t) = k \/ Len(t) = Cardinality(S)
  /\ \A n, m \in DOMAIN t : n < m => t[n] # t[m] /\ <<t[n], t[m]>> \in B
  /\ \A i \in S \ Range(t), n \in DOMAIN t : <<t[n], i>> \in B


LEMMA SortedLists ==
  ASSUME NEW S, IsFiniteSet(S), S \subseteq Nat, NEW less, Weak(S, less)
  PROVE  LET s == SortedBy(S, less)
         IN /\ s \in Seq(S) /\ Len(s) = Cardinality(S) /\ Cardinality(S) \in Nat
            /\ \A i \in S : \E n \in DOMAIN s : s[n] = i
            /\ \A n, m \in DOMAIN s : n < m => s[n] # s[m] /\ <<s[m], s[n]>> \notin less
<1> DEFINE s == SortedBy(S, less)
           c == Cardinality(S)
           At(i, n) == n - 1 = Cardinality({j \in S : GoesFirst(less, j, i)})
<1>1. c \in Nat
  BY FS_CardinalityType
<1>2. s = [n \in 1 .. c |-> CHOOSE i \in S : At(i, n)]
  BY DEF SortedBy
<1>3. ASSUME NEW n \in 1 .. c PROVE s[n] \in S /\ n - 1 = Cardinality(Earliers(S, less, s[n]))
  <2>1. \E i \in S : At(i, n)
    <3>1. n \in 1 .. Cardinality(S)
      OBVIOUS
    <3>2. \E i \in S : n - 1 = Cardinality(Earliers(S, less, i))
      BY <3>1, RankTaken, Zenon
    <3> QED BY <3>2, Zenon DEF Earliers
  <2>2. s[n] = CHOOSE i \in S : At(i, n)
    BY <1>2
  <2> HIDE DEF At, s
  <2>3. s[n] \in S /\ At(s[n], n)
    BY <2>1, <2>2
  <2> QED BY <2>3 DEF At, Earliers
<1>4. DOMAIN s = 1 .. c
  BY <1>2
<1>5. s \in Seq(S) /\ Len(s) = c
  <2> HIDE DEF c
  <2>1. s = [n \in 1 .. c |-> s[n]]
    BY <1>2, Zenon
  <2> HIDE DEF s
  <2>2. \A n \in 1 .. c : s[n] \in S
    BY <1>3
  <2>3. s \in [1 .. c -> S]
    BY <2>1, <2>2, Zenon
  <2> QED BY <1>1, <2>3
<1> HIDE DEF s, c
<1>6. ASSUME NEW i \in S PROVE \E n \in DOMAIN s : s[n] = i
  <2> DEFINE r == Cardinality(Earliers(S, less, i))
  <2>1. r \in 0 .. c - 1
    BY RanksDiffer DEF c
  <2>2. r + 1 \in 1 .. c /\ (r + 1) - 1 = r
    BY <1>1, <2>1
  <2>3. s[r + 1] \in S /\ r = Cardinality(Earliers(S, less, s[r + 1]))
    BY <1>3, <2>2
  <2> DEFINE j == s[r + 1]
  <2>4. ~(Cardinality(Earliers(S, less, i)) < Cardinality(Earliers(S, less, j)))
        /\ ~(Cardinality(Earliers(S, less, j)) < Cardinality(Earliers(S, less, i)))
    BY <2>1, <2>3
  <2> HIDE DEF r, j
  <2>5. j \in S /\ ~GoesFirst(less, i, j) /\ ~GoesFirst(less, j, i)
    BY <2>3, <2>4, RanksDiffer, Zenon DEF j
  <2>6. s[r + 1] = i
    BY <2>5, GoesFirstOrders, Zenon DEF j
  <2> QED BY <1>4, <2>2, <2>6
<1>7. ASSUME NEW n \in DOMAIN s, NEW m \in DOMAIN s, n < m PROVE s[n] # s[m] /\ <<s[m], s[n]>> \notin less
  <2>1. /\ n \in 1 .. c /\ m \in 1 .. c
    BY <1>4
  <2>2. /\ s[n] \in S /\ n - 1 = Cardinality(Earliers(S, less, s[n]))
        /\ s[m] \in S /\ m - 1 = Cardinality(Earliers(S, less, s[m]))
    BY <2>1, <1>3
  <2>3. s[n] # s[m]
    <3>1. n - 1 # m - 1
      BY <2>1, <1>1, <1>7
    <3> QED BY <2>2, <3>1
  <2>4. ~GoesFirst(less, s[m], s[n])
    <3>1. ~(m - 1 < n - 1)
      BY <2>1, <1>1, <1>7
    <3> QED BY <2>2, <3>1, RanksDiffer
  <2>5. GoesFirst(less, s[n], s[m])
    BY <2>2, <2>3, <2>4, GoesFirstOrders
  <2> QED BY <2>2, <2>3, <2>5, GoesFirstOrders
<1> QED BY <1>1, <1>5, <1>6, <1>7 DEF s, c


\* All the places of S in a list, each once, and each before what B allows.
Full(s, S, B) ==
  /\ s \in Seq(S) /\ Len(s) = Cardinality(S) /\ Cardinality(S) \in Nat
  /\ \A i \in S : \E n \in DOMAIN s : s[n] = i
  /\ \A n, m \in DOMAIN s : n < m => s[n] # s[m] /\ <<s[n], s[m]>> \in B

LEMMA ReversedFull ==
  ASSUME NEW S, NEW s, NEW B, NEW C, Full(s, S, B),
         \A i, j \in S : <<i, j>> \in B => <<j, i>> \in C
  PROVE  Full(Reverse(s), S, C)
<1> DEFINE l == Len(s)
           r == Reverse(s)
<1>1. /\ s \in Seq(S) /\ l = Cardinality(S) /\ Cardinality(S) \in Nat
      /\ \A i \in S : \E n \in DOMAIN s : s[n] = i
      /\ \A n, m \in DOMAIN s : n < m => s[n] # s[m] /\ <<s[n], s[m]>> \in B
  BY Zenon DEF Full
<1>2. l \in Nat /\ DOMAIN s = 1 .. l
  BY <1>1
<1>3. \A n \in 1 .. l : s[n] \in S
  BY <1>1
<1>4. r = [n \in 1 .. l |-> s[(l - n) + 1]]
  BY DEF Reverse
<1> HIDE DEF l, r
<1>5. \A n \in 1 .. l : (l - n) + 1 \in 1 .. l
  BY <1>2
<1>6. DOMAIN r = 1 .. l /\ \A n \in 1 .. l : r[n] = s[(l - n) + 1]
  BY <1>4
<1>7. r \in Seq(S) /\ Len(r) = l
  <2>1. r \in [1 .. l -> S]
    BY <1>3, <1>4, <1>5
  <2> QED BY <1>2, <2>1
<1>8. ASSUME NEW i \in S PROVE \E n \in DOMAIN r : r[n] = i
  <2>1. PICK m \in 1 .. l : s[m] = i
    BY <1>1, <1>2
  <2>2. (l - ((l - m) + 1)) + 1 = m
    BY <1>2
  <2>3. (l - m) + 1 \in 1 .. l
    BY <1>5
  <2> QED BY <1>6, <2>1, <2>2, <2>3
<1>9. ASSUME NEW n \in DOMAIN r, NEW m \in DOMAIN r, n < m
      PROVE  r[n] # r[m] /\ <<r[n], r[m]>> \in C
  <2> DEFINE x == (l - m) + 1
             y == (l - n) + 1
  <2>1. n \in 1 .. l /\ m \in 1 .. l
    BY <1>6
  <2>2. x \in 1 .. l /\ y \in 1 .. l
    BY <2>1, <1>5
  <2>3. x < y
    BY <2>1, <1>2, <1>9
  <2>4. r[n] = s[y] /\ r[m] = s[x]
    BY <2>1, <1>6
  <2> HIDE DEF x, y
  <2>5. s[x] # s[y] /\ <<s[x], s[y]>> \in B
    BY <2>2, <2>3, <1>1, <1>2
  <2>6. s[x] \in S /\ s[y] \in S
    BY <2>2, <1>3
  <2> QED BY <2>4, <2>5, <2>6
<1> QED
  <2>1. Len(r) = Cardinality(S)
    BY <1>1, <1>7
  <2> QED BY <1>1, <1>7, <1>8, <1>9, <2>1, Zenon DEF Full, r

LEMMA TruncatedLists ==
  ASSUME NEW S, NEW s, NEW B, Full(s, S, B), NEW k \in Nat
  PROVE  Lists(Truncate(s, k), S, k, B)
<1> DEFINE l == Len(s)
           t == Truncate(s, k)
<1>1. /\ s \in Seq(S) /\ l = Cardinality(S) /\ Cardinality(S) \in Nat
      /\ \A i \in S : \E n \in DOMAIN s : s[n] = i
      /\ \A n, m \in DOMAIN s : n < m => s[n] # s[m] /\ <<s[n], s[m]>> \in B
  BY Zenon DEF Full
<1>2. l \in Nat /\ DOMAIN s = 1 .. l
  BY <1>1
<1>3. /\ t \in Seq(S) /\ Len(t) <= l /\ Len(t) <= k /\ Len(t) \in Nat
      /\ Len(t) = k \/ Len(t) = l
      /\ DOMAIN t = 1 .. Len(t)
      /\ \A n \in DOMAIN t : n \in DOMAIN s /\ t[n] = s[n]
  <2>1. CASE l <= k
    BY <1>1, <1>2, <2>1 DEF Truncate
  <2>2. CASE ~(l <= k)
    <3>1. t = SubSeq(s, 1, k)
      BY <2>2 DEF Truncate
    <3>2. k <= l
      BY <2>2, <1>2
    <3>3. t = [n \in 1 .. k |-> s[n]]
      BY <3>1, <3>2, <1>1, <1>2
    <3>4. \A n \in 1 .. k : n \in 1 .. l
      BY <3>2, <1>2
    <3>5. \A n \in 1 .. l : s[n] \in S
      BY <1>1
    <3> HIDE DEF t, l
    <3>6. t \in [1 .. k -> S]
      BY <3>3, <3>4, <3>5
    <3>7. t \in Seq(S) /\ Len(t) = k /\ DOMAIN t = 1 .. k
      BY <3>6
    <3> QED BY <3>2, <3>3, <3>4, <3>7, <1>2
  <2> QED BY <2>1, <2>2
<1> HIDE DEF t, l
<1>4. ASSUME NEW n \in DOMAIN t, NEW m \in DOMAIN t, n < m
      PROVE  t[n] # t[m] /\ <<t[n], t[m]>> \in B
  BY <1>1, <1>3, <1>4
<1>5. ASSUME NEW i \in S \ Range(t), NEW n \in DOMAIN t
      PROVE  <<t[n], i>> \in B
  <2>1. PICK m \in DOMAIN s : s[m] = i
    BY <1>1
  <2>2. m \notin DOMAIN t
    <3>1. SUFFICES ASSUME m \in DOMAIN t PROVE FALSE
      OBVIOUS
    <3>2. t[m] = i
      BY <3>1, <2>1, <1>3
    <3> QED BY <3>1, <3>2, <1>5, Zenon DEF Range
  <2>3. n < m
    <3>1. m \in 1 .. l /\ m \notin 1 .. Len(t) /\ n \in 1 .. Len(t)
      BY <2>2, <1>2, <1>3
    <3>2. Len(t) \in Nat /\ l \in Nat
      BY <1>2, <1>3
    <3> QED BY <3>1, <3>2
  <2> QED BY <2>1, <2>3, <1>1, <1>3
<1>6. Len(t) <= Cardinality(S) /\ (Len(t) = k \/ Len(t) = Cardinality(S))
  BY <1>1, <1>3
<1> QED BY <1>3, <1>4, <1>5, <1>6, Zenon DEF Lists, t

(***************************************************************************)
(* The lists a search is made of: sorted, and sorted and reversed, both    *)
(* cut off.                                                                *)
(***************************************************************************)
Allowed(less, S, B) == \A i, j \in S : <<j, i>> \notin less => <<i, j>> \in B
AllowedBack(less, S, B) == \A i, j \in S : <<j, i>> \notin less => <<j, i>> \in B

LEMMA SortedIsListed ==
  ASSUME NEW S, IsFiniteSet(S), S \subseteq Nat, NEW less, Weak(S, less), NEW k \in Nat, NEW B,
         Allowed(less, S, B)
  PROVE  Lists(Truncate(SortedBy(S, less), k), S, k, B)
<1> DEFINE s == SortedBy(S, less)
<1>1. /\ s \in Seq(S) /\ Len(s) = Cardinality(S) /\ Cardinality(S) \in Nat
      /\ \A i \in S : \E n \in DOMAIN s : s[n] = i
      /\ \A n, m \in DOMAIN s : n < m => s[n] # s[m] /\ <<s[m], s[n]>> \notin less
  BY SortedLists, Zenon
<1> HIDE DEF s
<1>2. \A n \in DOMAIN s : s[n] \in S
  <2>1. s \in Seq(S)
    BY <1>1
  <2> QED BY <2>1
<1>3. Full(s, S, B)
  BY <1>1, <1>2, Zenon DEF Full, Allowed
<1> QED BY <1>3, TruncatedLists, Zenon DEF s

LEMMA ReversedIsListed ==
  ASSUME NEW S, IsFiniteSet(S), S \subseteq Nat, NEW less, Weak(S, less), NEW k \in Nat, NEW B,
         AllowedBack(less, S, B)
  PROVE  Lists(Truncate(Reverse(SortedBy(S, less)), k), S, k, B)
<1> DEFINE s == SortedBy(S, less)
           C == {p \in S \X S : <<p[2], p[1]>> \in B}
<1>1. /\ s \in Seq(S) /\ Len(s) = Cardinality(S) /\ Cardinality(S) \in Nat
      /\ \A i \in S : \E n \in DOMAIN s : s[n] = i
      /\ \A n, m \in DOMAIN s : n < m => s[n] # s[m] /\ <<s[m], s[n]>> \notin less
  BY SortedLists, Zenon
<1> HIDE DEF s
<1>2. \A n \in DOMAIN s : s[n] \in S
  <2>1. s \in Seq(S)
    BY <1>1
  <2> QED BY <2>1
<1>3. \A i, j \in S : <<i, j>> \in C <=> <<j, i>> \in B
  OBVIOUS
<1> HIDE DEF C
<1>4. Full(s, S, C)
  BY <1>1, <1>2, <1>3, Zenon DEF Full, AllowedBack
<1>5. Full(Reverse(s), S, B)
  BY <1>3, <1>4, ReversedFull, Zenon
<1> QED BY <1>5, TruncatedLists, Zenon DEF s

----------------------------------------------------------------------------
(***************************************************************************)
(* The order of texts: of three, if the first precedes the last, the one   *)
(* between them comes after the first or before the last.                  *)
(***************************************************************************)
PrecedesAt(a, b, n) ==
  /\ n <= Len(a) /\ n < Len(b) /\ \A i \in 1 .. n : a[i] = b[i]
  /\ n = Len(a) \/ a[n + 1] < b[n + 1]

LEMMA PrecedesSomewhere ==
  ASSUME NEW a \in Seq(Int), NEW b \in Seq(Int)
  PROVE  Precedes(a, b) <=> \E n \in Nat : PrecedesAt(a, b, n)
<1>1. Len(a) \in Nat /\ Len(b) \in Nat
  OBVIOUS
<1>2. ASSUME NEW n \in Nat, n <= Len(a), n < Len(b)
      PROVE  SubSeq(a, 1, n) = SubSeq(b, 1, n) <=> \A i \in 1 .. n : a[i] = b[i]
  <2>1. SubSeq(a, 1, n) = [i \in 1 .. n |-> a[i]] /\ SubSeq(b, 1, n) = [i \in 1 .. n |-> b[i]]
    BY <1>1, <1>2
  <2>2. ASSUME SubSeq(a, 1, n) = SubSeq(b, 1, n), NEW i \in 1 .. n PROVE a[i] = b[i]
    BY <2>1, <2>2
  <2>3. ASSUME \A i \in 1 .. n : a[i] = b[i] PROVE SubSeq(a, 1, n) = SubSeq(b, 1, n)
    BY <2>1, <2>3
  <2> QED BY <2>2, <2>3
<1>3. \A n : n \in 0 .. Len(a) <=> n \in Nat /\ n <= Len(a)
  BY <1>1
<1> QED BY <1>2, <1>3, Zenon DEF Precedes, PrecedesAt

LEMMA PrecedesAsymmetric ==
  ASSUME NEW a \in Seq(Int), NEW b \in Seq(Int)
  PROVE  ~(Precedes(a, b) /\ Precedes(b, a))
<1>1. SUFFICES ASSUME NEW n \in Nat, PrecedesAt(a, b, n), NEW m \in Nat, PrecedesAt(b, a, m) PROVE FALSE
  BY PrecedesSomewhere, Zenon
<1>2. Len(a) \in Nat /\ Len(b) \in Nat
  OBVIOUS
<1>3. /\ n <= Len(a) /\ n < Len(b) /\ (\A i \in 1 .. n : a[i] = b[i])
      /\ n = Len(a) \/ a[n + 1] < b[n + 1]
  BY <1>1, Zenon DEF PrecedesAt
<1>4. /\ m <= Len(b) /\ m < Len(a) /\ (\A i \in 1 .. m : b[i] = a[i])
      /\ m = Len(b) \/ b[m + 1] < a[m + 1]
  BY <1>1, Zenon DEF PrecedesAt
<1>5. \A i \in 1 .. Len(a) : a[i] \in Int
  OBVIOUS
<1>6. \A i \in 1 .. Len(b) : b[i] \in Int
  OBVIOUS
<1>7. CASE n < m
  <2>1. n + 1 \in 1 .. m /\ n # Len(a) /\ n + 1 \in 1 .. Len(a)
    BY <1>2, <1>4, <1>7
  <2>2. a[n + 1] < b[n + 1] /\ b[n + 1] = a[n + 1] /\ a[n + 1] \in Int
    BY <2>1, <1>3, <1>4, <1>5, Zenon
  <2> QED BY <2>2
<1>8. CASE m < n
  <2>1. m + 1 \in 1 .. n /\ m # Len(b) /\ m + 1 \in 1 .. Len(b)
    BY <1>2, <1>3, <1>8
  <2>2. b[m + 1] < a[m + 1] /\ a[m + 1] = b[m + 1] /\ b[m + 1] \in Int
    BY <2>1, <1>3, <1>4, <1>6, Zenon
  <2> QED BY <2>2
<1>9. CASE n = m
  <2>1. n # Len(a) /\ m # Len(b) /\ n + 1 \in 1 .. Len(a) /\ n + 1 \in 1 .. Len(b)
    BY <1>2, <1>3, <1>4, <1>9
  <2>2. a[n + 1] < b[n + 1] /\ b[n + 1] < a[n + 1] /\ a[n + 1] \in Int /\ b[n + 1] \in Int
    BY <2>1, <1>3, <1>4, <1>5, <1>6, <1>9, Zenon
  <2> QED BY <2>2
<1> QED BY <1>7, <1>8, <1>9

LEMMA PrecedesBetween ==
  ASSUME NEW a \in Seq(Int), NEW b \in Seq(Int), NEW c \in Seq(Int), Precedes(a, c)
  PROVE  Precedes(a, b) \/ Precedes(b, c)
<1>1. PICK n \in Nat : PrecedesAt(a, c, n)
  BY PrecedesSomewhere, Zenon
<1>2. Len(a) \in Nat /\ Len(b) \in Nat /\ Len(c) \in Nat
  OBVIOUS
<1>3. /\ n <= Len(a) /\ n < Len(c) /\ (\A i \in 1 .. n : a[i] = c[i])
      /\ n = Len(a) \/ a[n + 1] < c[n + 1]
  BY <1>1, Zenon DEF PrecedesAt
<1>4. (\A i \in 1 .. Len(a) : a[i] \in Int) /\ (\A i \in 1 .. Len(c) : c[i] \in Int)
  OBVIOUS
<1>5. \A i \in 1 .. Len(b) : b[i] \in Int
  OBVIOUS
<1>6. SUFFICES ASSUME \A x \in Nat : ~PrecedesAt(a, b, x) /\ ~PrecedesAt(b, c, x) PROVE FALSE
  BY PrecedesSomewhere, Zenon
<1> DEFINE T == {i \in 1 .. n : i > Len(b) \/ b[i] # a[i]}
<1>7. CASE T # {}
  <2>1. T \subseteq Nat
    OBVIOUS
  <2>2. PICK i \in T : \A j \in T : ~ (<<j, i>> \in OpToRel(<, Nat))
    <3> HIDE DEF T
    <3> QED BY <1>7, <2>1, NatLessThanWellFounded, WFMin
  <2>3. i \in 1 .. n /\ (i > Len(b) \/ b[i] # a[i])
    BY <2>2
  <2>4. ASSUME NEW j \in 1 .. i - 1 PROVE j \in 1 .. n /\ j <= Len(b) /\ b[j] = a[j]
    <3>1. j \in Nat /\ i \in Nat /\ j < i /\ j \in 1 .. n
      BY <2>3
    <3>2. <<j, i>> \in OpToRel(<, Nat)
      BY <3>1 DEF OpToRel
    <3>3. j \notin T
      BY <2>2, <3>2
    <3> QED BY <3>1, <3>3, <1>2
  <2> DEFINE x == i - 1
  <2>5. x \in Nat /\ x + 1 = i /\ x <= Len(a) /\ x < Len(c) /\ x < Len(a) /\ i \in 1 .. Len(a) /\ i \in 1 .. Len(c)
        /\ x # Len(a)
    BY <2>3, <1>2, <1>3
  <2>6. (\A j \in 1 .. x : a[j] = b[j]) /\ (\A j \in 1 .. x : b[j] = c[j])
    BY <2>4, <1>3
  <2>7. x <= Len(b)
    <3>1. CASE x = 0
      BY <3>1, <1>2
    <3>2. CASE x # 0
      <4>1. x \in 1 .. i - 1
        BY <2>5, <3>2
      <4> QED BY <4>1, <2>4
    <3> QED BY <3>1, <3>2
  <2>8. a[i] = c[i]
    BY <2>3, <1>3
  <2> HIDE DEF x, T
  <2>9. x = Len(b) \/ x < Len(b)
    BY <2>5, <2>7, <1>2
  <2>10. CASE x = Len(b)
    <3>1. PrecedesAt(b, c, x)
      BY <2>5, <2>6, <2>7, <2>10, Zenon DEF PrecedesAt
    <3> QED BY <3>1, <2>5, <1>6
  <2>11. CASE x < Len(b)
    <3>1. i \in 1 .. Len(b) /\ b[i] # a[i]
      BY <2>3, <2>5, <2>11, <1>2
    <3>2. a[i] \in Int /\ b[i] \in Int
      BY <3>1, <2>5, <1>4, <1>5, Zenon
    <3>3. a[i] < b[i] \/ b[i] < c[i]
      BY <2>8, <3>1, <3>2
    <3>4. PrecedesAt(a, b, x) \/ PrecedesAt(b, c, x)
      BY <2>5, <2>6, <2>7, <2>11, <3>3, Zenon DEF PrecedesAt
    <3> QED BY <3>4, <2>5, <1>6
  <2> QED BY <2>9, <2>10, <2>11
<1>8. CASE T = {}
  <2>1. ASSUME NEW i \in 1 .. n PROVE i <= Len(b) /\ b[i] = a[i]
    <3>1. i \notin T
      BY <1>8, Zenon
    <3>2. ~(i > Len(b)) /\ b[i] = a[i]
      BY <3>1
    <3> QED BY <3>2, <1>2
  <2>2. n <= Len(b)
    <3>1. CASE n = 0
      BY <3>1, <1>2
    <3>2. CASE n # 0
      <4>1. n \in 1 .. n
        BY <3>2
      <4> QED BY <4>1, <2>1
    <3> QED BY <3>1, <3>2
  <2>3. (\A j \in 1 .. n : a[j] = b[j]) /\ (\A j \in 1 .. n : b[j] = c[j])
    BY <2>1, <1>3
  <2>4. CASE n = Len(b)
    <3>1. PrecedesAt(b, c, n)
      BY <2>2, <2>3, <2>4, <1>3, Zenon DEF PrecedesAt
    <3> QED BY <3>1, <1>6
  <2>5. CASE n # Len(b) /\ n = Len(a)
    <3>1. n < Len(b)
      BY <2>2, <2>5, <1>2
    <3>2. PrecedesAt(a, b, n)
      BY <2>3, <2>5, <3>1, <1>3, Zenon DEF PrecedesAt
    <3> QED BY <3>2, <1>6
  <2>6. CASE n # Len(b) /\ n # Len(a)
    <3>1. n < Len(b) /\ n + 1 \in 1 .. Len(a) /\ n + 1 \in 1 .. Len(b) /\ n + 1 \in 1 .. Len(c)
      BY <2>2, <2>6, <1>2, <1>3
    <3>2. a[n + 1] \in Int /\ b[n + 1] \in Int /\ c[n + 1] \in Int /\ a[n + 1] < c[n + 1]
      BY <3>1, <2>6, <1>3, <1>4, <1>5, Zenon
    <3>3. a[n + 1] < b[n + 1] \/ b[n + 1] < c[n + 1]
      BY <3>2
    <3>4. PrecedesAt(a, b, n) \/ PrecedesAt(b, c, n)
      BY <2>2, <2>3, <3>1, <3>3, <1>3, Zenon DEF PrecedesAt
    <3> QED BY <3>4, <1>6
  <2> QED BY <2>4, <2>5, <2>6
<1> QED BY <1>7, <1>8

----------------------------------------------------------------------------
(***************************************************************************)
(* The orders of a search, as sets of pairs of places: by a number, the    *)
(* greater first, by a text, and by one order and then by another.         *)
(***************************************************************************)
LEMMA NumberOrder ==
  ASSUME NEW S, NEW v, \A i \in S : v[i] \in Int
  PROVE  Weak(S, {p \in S \X S : v[p[1]] > v[p[2]]})
BY DEF Weak

TextPairs(S, v) == {p \in S \X S : Precedes(v[p[1]], v[p[2]])}
TextPairsBack(S, v) == {p \in S \X S : Precedes(v[p[2]], v[p[1]])}

LEMMA TextOrder ==
  ASSUME NEW S, NEW v, \A i \in S : v[i] \in Seq(Int)
  PROVE  Weak(S, TextPairs(S, v)) /\ Weak(S, TextPairsBack(S, v))
<1> DEFINE R == TextPairs(S, v)
           Q == TextPairsBack(S, v)
<1>1. \A i, j \in S : <<i, j>> \in R <=> Precedes(v[i], v[j])
  BY DEF TextPairs
<1>2. \A i, j \in S : <<i, j>> \in Q <=> Precedes(v[j], v[i])
  BY DEF TextPairsBack
<1> HIDE DEF R, Q
<1>3. \A i, j \in S : ~(Precedes(v[i], v[j]) /\ Precedes(v[j], v[i]))
  BY PrecedesAsymmetric, Zenon
<1>4. \A i, j, k \in S : Precedes(v[i], v[k]) => Precedes(v[i], v[j]) \/ Precedes(v[j], v[k])
  BY PrecedesBetween, Zenon
<1>5. Weak(S, R)
  BY <1>1, <1>3, <1>4, Zenon DEF Weak
<1>6. Weak(S, Q)
  BY <1>2, <1>3, <1>4, Zenon DEF Weak
<1> QED BY <1>5, <1>6 DEF R, Q

Then(S, R, Q) == {p \in S \X S : p \in R \/ (<<p[2], p[1]>> \notin R /\ p \in Q)}

LEMMA ThenOrder ==
  ASSUME NEW S, NEW R, NEW Q, Weak(S, R), Weak(S, Q)
  PROVE  Weak(S, Then(S, R, Q))
<1>1. \A i, j \in S : <<i, j>> \in Then(S, R, Q) <=> <<i, j>> \in R \/ (<<j, i>> \notin R /\ <<i, j>> \in Q)
  BY DEF Then
<1>2. ASSUME NEW i \in S, NEW j \in S
      PROVE  ~(<<i, j>> \in Then(S, R, Q) /\ <<j, i>> \in Then(S, R, Q))
  BY <1>1, Zenon DEF Weak
<1>3. ASSUME NEW i \in S, NEW j \in S, NEW k \in S, <<i, k>> \in Then(S, R, Q)
      PROVE  <<i, j>> \in Then(S, R, Q) \/ <<j, k>> \in Then(S, R, Q)
  <2>1. CASE <<i, k>> \in R
    BY <2>1, <1>1, Zenon DEF Weak
  <2>2. CASE <<k, i>> \notin R /\ <<i, k>> \in Q
    <3>1. /\ <<k, j>> \in R => <<k, i>> \in R \/ <<i, j>> \in R
          /\ <<j, i>> \in R => <<j, k>> \in R \/ <<k, i>> \in R
          /\ <<i, j>> \in Q \/ <<j, k>> \in Q
      BY <2>2, Zenon DEF Weak
    <3> QED BY <3>1, <2>2, <1>1, Zenon
  <2> QED BY <2>1, <2>2, <1>3, <1>1, Zenon
<1> QED BY <1>2, <1>3, Zenon DEF Weak

----------------------------------------------------------------------------
(***************************************************************************)
(* How well a value matches is a number, and so are what a record is worth *)
(* and its best score.                                                     *)
(***************************************************************************)
LEMMA PlaceIsTyped ==
  ASSUME NEW v, NEW needle, NEW q
  PROVE  Place(v, needle, q) \in 0 .. 3
<1>1. RegexPlace(v, needle, q.sensitive, q.exact) \in 0 .. 3
  BY DEF RegexPlace
<1>2. LiteralPlace(v, needle, q.sensitive) \in 0 .. 3
  BY DEF LiteralPlace
<1> QED BY <1>1, <1>2 DEF Place

LEMMA PlaceInIsTyped ==
  ASSUME NEW r, NEW f, NEW q
  PROVE  PlaceIn(r, f, q) \in 0 .. 3
BY PlaceIsTyped DEF PlaceIn

LEMMA RelevanceIsTyped ==
  ASSUME NEW r, NEW q
  PROVE  /\ Relevance(r, q) \in Int
         /\ \A s : Relevance(r, q) >= Relevance(s, q) => PlaceIn(r, "attr", q) >= PlaceIn(s, "attr", q)
<1> DEFINE a(s) == PlaceIn(s, "attr", q)
           b(s) == PlaceIn(s, "description", q)
           c(s) == PlaceIn(s, "main_program", q)
<1>1. \A s : a(s) \in 0 .. 3 /\ b(s) \in 0 .. 3 /\ c(s) \in 0 .. 3
  BY PlaceInIsTyped, Zenon
<1>2. \A s : Relevance(s, q) = 1000 * a(s) + 100 * b(s) + 100 * c(s)
  BY DEF Relevance, Weight
<1> HIDE DEF a, b, c
<1>3. Relevance(r, q) \in Int
  BY <1>1, <1>2
<1>4. ASSUME NEW s, Relevance(r, q) >= Relevance(s, q) PROVE a(r) >= a(s)
  <2>1. a(s) \in 0 .. 3 /\ b(s) \in 0 .. 3 /\ c(s) \in 0 .. 3 /\ a(r) \in 0 .. 3 /\ b(r) \in 0 .. 3 /\ c(r) \in 0 .. 3
    BY <1>1
  <2>2. 1000 * a(r) + 100 * b(r) + 100 * c(r) >= 1000 * a(s) + 100 * b(s) + 100 * c(s)
    BY <1>2, <1>4
  <2> QED BY <2>1, <2>2
<1> QED BY <1>3, <1>4 DEF a

LEMMA GreatestOfFew ==
  ASSUME NEW T, T \subseteq Nat, NEW w \in [1 .. 4 -> Nat], T = {w[i] : i \in 1 .. 4}
  PROVE  Max(T) \in T /\ \A x \in T : Max(T) >= x
<1>1. \E i \in 1 .. 4 : \A j \in 1 .. 4 : w[i] >= w[j]
  <2>1. 1 .. 4 = {1, 2, 3, 4}
    OBVIOUS
  <2>2. w[1] \in Nat /\ w[2] \in Nat /\ w[3] \in Nat /\ w[4] \in Nat
    OBVIOUS
  <2> QED BY <2>1, <2>2
<1>2. \E x \in T : \A y \in T : x >= y
  BY <1>1
<1> QED BY <1>2, Zenon DEF Max

LEMMA BestScoreIsTyped ==
  ASSUME NEW r, NEW q, q.fuzzy, IsScored(r, q), IsQuery(q)
  PROVE  BestScore(r, q) \in Nat
<1> DEFINE F == Searched(r, q)
           v(f) == FuzzyScore(r[f], q.pattern, q.sensitive)
           n(f) == IF f \in F THEN v(f) ELSE 0
           T == {v(f) : f \in F} \cup {0}
           w == <<n("attr"), n("description"), n("main_program"), 0>>
<1>1. \A f \in F : v(f) \in Nat
  BY Zenon DEF IsScored
<1>2. F \subseteq {"attr", "description", "main_program"}
  BY DEF Searched, FieldsOf, Fields, IsQuery
<1> HIDE DEF F, v
<1>3. w \in [1 .. 4 -> Nat]
  <2>1. n("attr") \in Nat /\ n("description") \in Nat /\ n("main_program") \in Nat
    BY <1>1
  <2> HIDE DEF n
  <2> QED BY <2>1
<1>4. T = {w[i] : i \in 1 .. 4}
  <2>1. {w[i] : i \in 1 .. 4} = {w[1], w[2], w[3], w[4]}
    OBVIOUS
  <2>2. w[1] = n("attr") /\ w[2] = n("description") /\ w[3] = n("main_program") /\ w[4] = 0
    OBVIOUS
  <2>3. T = {n("attr"), n("description"), n("main_program"), 0}
    <3>1. ASSUME NEW x \in T PROVE x \in {n("attr"), n("description"), n("main_program"), 0}
      BY <1>2
    <3>2. n("attr") \in T /\ n("description") \in T /\ n("main_program") \in T /\ 0 \in T
      OBVIOUS
    <3> HIDE DEF T, n
    <3> QED BY <3>1, <3>2
  <2> QED BY <2>1, <2>2, <2>3
<1>5. T \subseteq Nat
  BY <1>1
<1>6. BestScore(r, q) = Max(T)
  BY Zenon DEF BestScore, F, v
<1> HIDE DEF T, w
<1>7. Max(T) \in T
  BY <1>3, <1>4, <1>5, GreatestOfFew
<1> QED BY <1>5, <1>6, <1>7

LEMMA KeyIsText ==
  ASSUME NEW r, IsRecord(r), NEW sort
  PROVE  KeyOf(r, sort) \in Seq(Int)
<1>1. <<>> \in Seq(Int)
  OBVIOUS
<1>2. \A f \in {"attr", "name", "main_program"} : r[f] # Absent => r[f] \in Seq(Int)
  BY Zenon DEF IsRecord, Fields
<1> QED BY <1>1, <1>2, Zenon DEF KeyOf

----------------------------------------------------------------------------
(***************************************************************************)
(* What is searched: records, and a query that can score them.             *)
(***************************************************************************)
Searchable(db, q) ==
  /\ IsQuery(q) /\ db \in Seq(Range(db))
  /\ \A r \in Range(db) : IsRecord(r) /\ IsScored(r, q)

LEMMA SearchableRecords ==
  ASSUME NEW db, NEW q, Searchable(db, q)
  PROVE  /\ Len(db) \in Nat /\ DOMAIN db = 1 .. Len(db) /\ IsFiniteSet(DOMAIN db)
         /\ \A i \in DOMAIN db : IsRecord(db[i]) /\ IsScored(db[i], q)
<1>1. db \in Seq(Range(db))
  BY Zenon DEF Searchable
<1>2. Len(db) \in Nat /\ DOMAIN db = 1 .. Len(db)
  BY <1>1
<1>3. \A i \in DOMAIN db : db[i] \in Range(db)
  BY Zenon DEF Range
<1>4. IsFiniteSet(DOMAIN db)
  BY <1>2, FS_Interval
<1> QED BY <1>2, <1>3, <1>4, Zenon DEF Searchable

LEMMA StandingIsPlace ==
  ASSUME NEW r, NEW q, IsRecord(r), IsQuery(q), ~q.fuzzy
  PROVE  Standing(r, q) = PlaceIn(r, "attr", q)
<1>1. r["attr"] = r.attr /\ r.attr # Absent
  BY Zenon DEF IsRecord
<1>2. "attr" \in Searched(r, q) <=> "attr" \in FieldsOf(q.field)
  BY <1>1, Zenon DEF Searched
<1>3. CASE "attr" \in FieldsOf(q.field)
  <2>1. Standing(r, q) = Place(r.attr, Cased(q.pattern, q.sensitive), q)
    BY <1>3 DEF Standing
  <2> QED BY <2>1, <1>1, <1>2, <1>3, Zenon DEF PlaceIn
<1>4. CASE "attr" \notin FieldsOf(q.field)
  <2>1. Standing(r, q) = 0
    BY <1>4 DEF Standing
  <2> QED BY <2>1, <1>2, <1>4, Zenon DEF PlaceIn
<1> QED BY <1>3, <1>4

\* A sort by a field.
FieldPairs(db, S, sort) == {p \in S \X S : ComesFirst(db[p[1]], db[p[2]], sort)}

LEMMA FieldOrder ==
  ASSUME NEW db, NEW q, Searchable(db, q), NEW S, S \subseteq DOMAIN db, NEW sort
  PROVE  Weak(S, FieldPairs(db, S, sort))
<1> DEFINE v == [i \in S |-> KeyOf(db[i], sort)]
           R == FieldPairs(db, S, sort)
<1>1. \A i \in S : v[i] \in Seq(Int)
  BY SearchableRecords, KeyIsText, Zenon
<1>2. CASE sort \in {"attr-desc", "name-desc", "main-program-desc"}
  <2>1. R = TextPairsBack(S, v)
    BY <1>2 DEF ComesFirst, FieldPairs, TextPairsBack
  <2> HIDE DEF v, R
  <2> QED BY <1>1, <2>1, TextOrder, Zenon DEF R
<1>3. CASE sort \notin {"attr-desc", "name-desc", "main-program-desc"}
  <2>1. R = TextPairs(S, v)
    BY <1>3 DEF ComesFirst, FieldPairs, TextPairs
  <2> HIDE DEF v, R
  <2> QED BY <1>1, <2>1, TextOrder, Zenon DEF R
<1> QED BY <1>2, <1>3

\* Pairs of places, the first allowed before the second.
Allows(db, q, S) == {p \in S \X S : Above(db[p[1]], db[p[2]], q)}

LEMMA OrderedLists ==
  ASSUME NEW db, NEW q, Searchable(db, q), ~q.fuzzy, NEW S, S = Matched(db, q), S \subseteq DOMAIN db
  PROVE  Lists(Truncate(Ordered(db, q), q.limit), S, q.limit, Allows(db, q, S))
<1> DEFINE relevant == {p \in S \X S : MoreRelevant(db[p[1]], db[p[2]], q)}
           byField  == {p \in S \X S : ComesFirst(db[p[1]], db[p[2]], q.sort)}
           B == Allows(db, q, S)
<1>1. /\ q.sort = "none" => Ordered(db, q) = SortedBy(S, relevant)
      /\ q.sort = "reverse" => Ordered(db, q) = Reverse(SortedBy(S, relevant))
      /\ q.sort \notin {"none", "reverse"} => Ordered(db, q) = SortedBy(S, byField)
  BY DEF Ordered
<1>2. IsFiniteSet(S) /\ S \subseteq Nat /\ q.limit \in Nat /\ IsQuery(q)
  <2>1. DOMAIN db = 1 .. Len(db) /\ IsFiniteSet(DOMAIN db)
    BY SearchableRecords
  <2>2. IsFiniteSet(S)
    BY <2>1, FS_Subset
  <2>3. IsQuery(q) /\ q.limit \in Nat
    BY Zenon DEF Searchable, IsQuery
  <2> QED BY <2>1, <2>2, <2>3
<1>3. \A i, j \in S : <<i, j>> \in B <=> Above(db[i], db[j], q)
  BY DEF Allows
<1>4. \A i \in S : IsRecord(db[i])
  BY SearchableRecords, Zenon
<1>r. \A i, j \in S : <<i, j>> \in relevant <=> MoreRelevant(db[i], db[j], q)
  OBVIOUS
<1>f. \A i, j \in S : <<i, j>> \in byField <=> ComesFirst(db[i], db[j], q.sort)
  OBVIOUS
<1>5. Weak(S, relevant)
  <2> DEFINE v == [i \in S |-> Relevance(db[i], q)]
             t == [i \in S |-> db[i].attr]
             N == {p \in S \X S : v[p[1]] > v[p[2]]}
             T == TextPairs(S, t)
  <2>1. \A i \in S : v[i] = Relevance(db[i], q) /\ v[i] \in Int
    BY RelevanceIsTyped
  <2>2. \A i \in S : t[i] = db[i].attr /\ t[i] \in Seq(Int)
    BY <1>4 DEF IsRecord
  <2>3. \A i, j \in S : <<i, j>> \in N <=> v[i] > v[j]
    OBVIOUS
  <2>4. \A i, j \in S : <<i, j>> \in T <=> Precedes(t[i], t[j])
    BY DEF TextPairs
  <2>5. \A i, j \in S : <<i, j>> \in Then(S, N, T) <=> <<i, j>> \in N \/ (<<j, i>> \notin N /\ <<i, j>> \in T)
    BY DEF Then
  <2> HIDE DEF v, t
  <2>6. Weak(S, N)
    BY <2>1, NumberOrder
  <2>7. Weak(S, T)
    BY <2>2, TextOrder, Zenon
  <2> HIDE DEF N, T
  <2>8. Weak(S, Then(S, N, T))
    BY <2>6, <2>7, ThenOrder, Zenon
  <2>9. \A i, j \in S : MoreRelevant(db[i], db[j], q) <=> v[i] > v[j] \/ (v[i] = v[j] /\ Precedes(t[i], t[j]))
    <3>1. \A i, j \in S : MoreRelevant(db[i], db[j], q)
            <=> \/ Relevance(db[i], q) > Relevance(db[j], q)
                \/ Relevance(db[i], q) = Relevance(db[j], q) /\ Precedes(db[i].attr, db[j].attr)
      BY Zenon DEF MoreRelevant
    <3> TAKE i \in S, j \in S
    <3>2. v[i] = Relevance(db[i], q) /\ v[j] = Relevance(db[j], q) /\ t[i] = db[i].attr /\ t[j] = db[j].attr
      BY <2>1, <2>2
    <3> QED BY <3>1, <3>2
  <2>10. \A i, j \in S : (v[i] > v[j] \/ v[i] = v[j]) <=> (v[i] > v[j] \/ ~(v[j] > v[i]))
    BY <2>1
  <2>11. \A i, j \in S : v[i] = v[j] => ~(v[j] > v[i])
    BY <2>1
  <2> HIDE DEF relevant
  <2>12. \A i, j \in S : <<i, j>> \in relevant <=> <<i, j>> \in Then(S, N, T)
    BY <1>r, <2>3, <2>4, <2>5, <2>9, <2>10, <2>11, Zenon
  <2> DEFINE R == Then(S, N, T)
  <2> HIDE DEF R
  <2>13. \A i, j \in S : <<i, j>> \in relevant <=> <<i, j>> \in R
    BY <2>12, Zenon DEF R
  <2>14. /\ \A i, j \in S : ~(<<i, j>> \in R /\ <<j, i>> \in R)
         /\ \A i, j, k \in S : <<i, k>> \in R => <<i, j>> \in R \/ <<j, k>> \in R
    BY <2>8, Zenon DEF R, Weak
  <2>15. ASSUME NEW i \in S, NEW j \in S, NEW k \in S, <<i, k>> \in relevant
         PROVE  <<i, j>> \in relevant \/ <<j, k>> \in relevant
    BY <2>13, <2>14, <2>15
  <2>16. ASSUME NEW i \in S, NEW j \in S PROVE ~(<<i, j>> \in relevant /\ <<j, i>> \in relevant)
    BY <2>13, <2>14
  <2> QED BY <2>15, <2>16, Zenon DEF Weak
<1>6. Weak(S, byField)
  <2>1. byField = FieldPairs(db, S, q.sort)
    BY Zenon DEF FieldPairs
  <2> QED BY <2>1, FieldOrder, Zenon
<1>7. ASSUME NEW i \in S, NEW j \in S, <<j, i>> \notin relevant
      PROVE  Standing(db[i], q) >= Standing(db[j], q)
  <2>1. ~(Relevance(db[j], q) > Relevance(db[i], q))
    BY <1>7, <1>r, Zenon DEF MoreRelevant
  <2>2. Relevance(db[i], q) >= Relevance(db[j], q)
    BY <2>1, RelevanceIsTyped
  <2>3. PlaceIn(db[i], "attr", q) >= PlaceIn(db[j], "attr", q)
    BY <2>2, RelevanceIsTyped
  <2>4. Standing(db[i], q) = PlaceIn(db[i], "attr", q) /\ Standing(db[j], q) = PlaceIn(db[j], "attr", q)
    BY <1>2, <1>4, StandingIsPlace, Zenon
  <2> QED BY <2>3, <2>4
<1> HIDE DEF relevant, byField, B
<1>8. CASE q.sort = "none"
  <2>1. \A i, j \in S : Standing(db[i], q) >= Standing(db[j], q) => Above(db[i], db[j], q)
    BY <1>8 DEF Above
  <2>2. Allowed(relevant, S, B)
    BY <2>1, <1>3, <1>7, Zenon DEF Allowed
  <2>3. Lists(Truncate(SortedBy(S, relevant), q.limit), S, q.limit, B)
    BY <1>2, <1>5, <2>2, SortedIsListed, Zenon
  <2> QED BY <2>3, <1>1, <1>8, Zenon DEF B
<1>9. CASE q.sort = "reverse"
  <2>1. \A i, j \in S : Standing(db[i], q) <= Standing(db[j], q) => Above(db[i], db[j], q)
    BY <1>9 DEF Above
  <2>2. \A i, j \in S : Standing(db[i], q) >= Standing(db[j], q) => Above(db[j], db[i], q)
    <3>1. \A x, y : x >= y <=> y <= x
      OBVIOUS
    <3> QED BY <2>1, <3>1, Zenon
  <2>3. AllowedBack(relevant, S, B)
    BY <2>2, <1>3, <1>7, Zenon DEF AllowedBack
  <2>4. Lists(Truncate(Reverse(SortedBy(S, relevant)), q.limit), S, q.limit, B)
    BY <1>2, <1>5, <2>3, ReversedIsListed, Zenon
  <2> QED BY <2>4, <1>1, <1>9, Zenon DEF B
<1>10. CASE q.sort \notin {"none", "reverse"}
  <2>1. \A i, j \in S : Above(db[i], db[j], q) <=> ~ComesFirst(db[j], db[i], q.sort)
    BY <1>10, Zenon DEF Above
  <2>2. Allowed(byField, S, B)
    BY <2>1, <1>3, <1>f, Zenon DEF Allowed
  <2>3. Lists(Truncate(SortedBy(S, byField), q.limit), S, q.limit, B)
    BY <1>2, <1>6, <2>2, SortedIsListed, Zenon
  <2> QED BY <2>3, <1>1, <1>10, Zenon DEF B
<1> QED BY <1>8, <1>9, <1>10

LEMMA FuzzyLists ==
  ASSUME NEW db, NEW q, Searchable(db, q), q.fuzzy,
         NEW S, S = {i \in DOMAIN db : BestScore(db[i], q) > 0}
  PROVE  Lists(Truncate(OrderedFuzzy(db, q), q.limit), S, q.limit, Allows(db, q, S))
<1> DEFINE better  == {p \in S \X S : BestScore(db[p[1]], q) > BestScore(db[p[2]], q)}
           byField == {p \in S \X S :
                         \/ ComesFirst(db[p[1]], db[p[2]], q.sort)
                         \/ ~ComesFirst(db[p[2]], db[p[1]], q.sort) /\ p \in better}
           B == Allows(db, q, S)
<1>1. /\ q.sort = "none" => OrderedFuzzy(db, q) = SortedBy(S, better)
      /\ q.sort = "reverse" => OrderedFuzzy(db, q) = Reverse(SortedBy(S, better))
      /\ q.sort \notin {"none", "reverse"} => OrderedFuzzy(db, q) = SortedBy(S, byField)
  BY DEF OrderedFuzzy
<1>s. S \subseteq DOMAIN db
  OBVIOUS
<1>2. IsFiniteSet(S) /\ S \subseteq Nat /\ q.limit \in Nat /\ IsQuery(q)
  <2>1. DOMAIN db = 1 .. Len(db) /\ IsFiniteSet(DOMAIN db)
    BY SearchableRecords
  <2>2. IsFiniteSet(S)
    BY <2>1, <1>s, FS_Subset
  <2>3. IsQuery(q) /\ q.limit \in Nat
    BY Zenon DEF Searchable, IsQuery
  <2> QED BY <2>1, <2>2, <2>3, <1>s
<1>3. \A i, j \in S : <<i, j>> \in B <=> Above(db[i], db[j], q)
  BY DEF Allows
<1>4. \A i \in S : BestScore(db[i], q) \in Nat /\ Standing(db[i], q) = BestScore(db[i], q)
  <2>1. \A i \in S : BestScore(db[i], q) \in Nat
    BY <1>s, <1>2, SearchableRecords, BestScoreIsTyped, Zenon
  <2>2. \A i \in S : Standing(db[i], q) = BestScore(db[i], q)
    BY DEF Standing
  <2> QED BY <2>1, <2>2
<1>b. \A i, j \in S : <<i, j>> \in better <=> BestScore(db[i], q) > BestScore(db[j], q)
  OBVIOUS
<1>f. \A i, j \in S : <<i, j>> \in byField
        <=> \/ ComesFirst(db[i], db[j], q.sort)
            \/ ~ComesFirst(db[j], db[i], q.sort) /\ <<i, j>> \in better
  OBVIOUS
<1>5. Weak(S, better)
  <2> DEFINE v == [i \in S |-> BestScore(db[i], q)]
  <2>1. \A i \in S : v[i] = BestScore(db[i], q) /\ v[i] \in Int
    BY <1>4
  <2>2. better = {p \in S \X S : v[p[1]] > v[p[2]]}
    OBVIOUS
  <2> HIDE DEF v, better
  <2> QED BY <2>1, <2>2, NumberOrder
<1>6. Weak(S, byField)
  <2> DEFINE C == FieldPairs(db, S, q.sort)
  <2>1. Weak(S, C)
    BY <1>s, FieldOrder, Zenon
  <2>2. byField = Then(S, C, better)
    <3>1. \A i, j \in S : <<i, j>> \in C <=> ComesFirst(db[i], db[j], q.sort)
      BY DEF FieldPairs
    <3>2. \A i, j \in S : <<i, j>> \in Then(S, C, better) <=> <<i, j>> \in C \/ (<<j, i>> \notin C /\ <<i, j>> \in better)
      BY DEF Then
    <3>3. byField \subseteq S \X S /\ Then(S, C, better) \subseteq S \X S
      BY DEF Then
    <3> HIDE DEF byField, C, better
    <3>4. \A i, j \in S : <<i, j>> \in byField <=> <<i, j>> \in Then(S, C, better)
      BY <3>1, <3>2, <1>f, Zenon
    <3> HIDE DEF B
    <3> DEFINE X == byField
               Y == Then(S, C, better)
    <3>5. X \subseteq S \X S /\ Y \subseteq S \X S /\ \A i, j \in S : <<i, j>> \in X <=> <<i, j>> \in Y
      BY <3>3, <3>4
    <3> HIDE DEF X, Y
    <3>6. X = Y
      BY <3>5
    <3> QED BY <3>6 DEF X, Y
  <2> HIDE DEF byField, better, C
  <2> QED BY <2>1, <2>2, <1>5, ThenOrder, Zenon
<1>7. ASSUME NEW i \in S, NEW j \in S, <<j, i>> \notin better
      PROVE  Standing(db[i], q) >= Standing(db[j], q)
  <2>1. ~(BestScore(db[j], q) > BestScore(db[i], q))
    BY <1>7, <1>b, Zenon
  <2> QED BY <2>1, <1>4
<1> HIDE DEF better, byField, B
<1>8. CASE q.sort = "none"
  <2>1. \A i, j \in S : Standing(db[i], q) >= Standing(db[j], q) => Above(db[i], db[j], q)
    BY <1>8 DEF Above
  <2>2. Allowed(better, S, B)
    BY <2>1, <1>3, <1>7, Zenon DEF Allowed
  <2>3. Lists(Truncate(SortedBy(S, better), q.limit), S, q.limit, B)
    BY <1>2, <1>5, <2>2, SortedIsListed, Zenon
  <2> QED BY <2>3, <1>1, <1>8, Zenon DEF B
<1>9. CASE q.sort = "reverse"
  <2>1. \A i, j \in S : Standing(db[i], q) <= Standing(db[j], q) => Above(db[i], db[j], q)
    BY <1>9 DEF Above
  <2>2. \A i, j \in S : Standing(db[i], q) >= Standing(db[j], q) => Above(db[j], db[i], q)
    <3>1. \A x, y : x >= y <=> y <= x
      OBVIOUS
    <3> QED BY <2>1, <3>1, Zenon
  <2>3. AllowedBack(better, S, B)
    BY <2>2, <1>3, <1>7, Zenon DEF AllowedBack
  <2>4. Lists(Truncate(Reverse(SortedBy(S, better)), q.limit), S, q.limit, B)
    BY <1>2, <1>5, <2>3, ReversedIsListed, Zenon
  <2> QED BY <2>4, <1>1, <1>9, Zenon DEF B
<1>10. CASE q.sort \notin {"none", "reverse"}
  <2>1. \A i, j \in S : Above(db[i], db[j], q) <=> ~ComesFirst(db[j], db[i], q.sort)
    BY <1>10, Zenon DEF Above
  <2>2. Allowed(byField, S, B)
    BY <2>1, <1>3, <1>f, Zenon DEF Allowed
  <2>3. Lists(Truncate(SortedBy(S, byField), q.limit), S, q.limit, B)
    BY <1>2, <1>6, <2>2, SortedIsListed, Zenon
  <2> QED BY <2>3, <1>1, <1>10, Zenon DEF B
<1> QED BY <1>8, <1>9, <1>10

----------------------------------------------------------------------------
(***************************************************************************)
(* The filter, the fast path and the score find the same records: folding  *)
(* a pattern again changes nothing, and a match as a whole or at the start *)
(* is one somewhere.                                                       *)
(***************************************************************************)
Lower(x) == IF x \in 65 .. 90 THEN x + 32 ELSE x

LEMMA LowerTwice ==
  ASSUME NEW x \in Int
  PROVE  /\ Lower(x) \in Int /\ Lower(Lower(x)) = Lower(x)
         /\ \A c \in Int \ (65 .. 90 \cup 97 .. 122) : Lower(x) = c <=> x = c
BY DEF Lower

LEMMA FoldIsText ==
  ASSUME NEW t \in Seq(Int)
  PROVE  /\ Fold(t) \in Seq(Int) /\ Len(Fold(t)) = Len(t)
         /\ \A i \in 1 .. Len(t) : t[i] \in Int /\ Fold(t)[i] = Lower(t[i])
<1>1. Len(t) \in Nat /\ DOMAIN t = 1 .. Len(t) /\ \A i \in 1 .. Len(t) : t[i] \in Int
  OBVIOUS
<1>2. Fold(t) = [i \in 1 .. Len(t) |-> Lower(t[i])]
  BY <1>1 DEF Fold, Lower
<1>3. Fold(t) \in [1 .. Len(t) -> Int]
  BY <1>1, <1>2, LowerTwice
<1> QED BY <1>1, <1>2, <1>3

LEMMA TextsAgree ==
  ASSUME NEW a \in Seq(Int), NEW b \in Seq(Int), Len(a) = Len(b), \A i \in 1 .. Len(a) : a[i] = b[i]
  PROVE  a = b
BY SeqEqual

LEMMA FoldTwice ==
  ASSUME NEW t \in Seq(Int) PROVE Fold(Fold(t)) = Fold(t)
<1> DEFINE f == Fold(t)
           g == Fold(f)
<1>1. /\ f \in Seq(Int) /\ Len(f) = Len(t)
      /\ \A i \in 1 .. Len(t) : t[i] \in Int /\ f[i] = Lower(t[i])
  BY FoldIsText
<1> HIDE DEF f
<1>2. /\ g \in Seq(Int) /\ Len(g) = Len(f)
      /\ \A i \in 1 .. Len(f) : f[i] \in Int /\ g[i] = Lower(f[i])
  BY <1>1, FoldIsText
<1> HIDE DEF g
<1>3. ASSUME NEW i \in 1 .. Len(g) PROVE g[i] = f[i]
  BY <1>1, <1>2, LowerTwice
<1>4. g = f
  BY <1>1, <1>2, <1>3, TextsAgree
<1> QED BY <1>4 DEF f, g

LEMMA CasedIsText ==
  ASSUME NEW t \in Seq(Int), NEW b \in BOOLEAN
  PROVE  /\ Cased(t, b) \in Seq(Int) /\ Len(Cased(t, b)) = Len(t)
         /\ Cased(Cased(t, b), b) = Cased(t, b)
         /\ \A k \in 1 .. Len(t) : Cased(t, b)[k] = AnyChar <=> t[k] = AnyChar
<1>1. CASE b = TRUE
  BY <1>1 DEF Cased
<1>2. CASE b = FALSE
  <2>1. \A s : Cased(s, b) = Fold(s)
    BY <1>2 DEF Cased
  <2>2. Fold(t) \in Seq(Int) /\ Len(Fold(t)) = Len(t) /\ Fold(Fold(t)) = Fold(t)
    BY FoldIsText, FoldTwice
  <2>3. ASSUME NEW k \in 1 .. Len(t) PROVE Fold(t)[k] = AnyChar <=> t[k] = AnyChar
    <3>1. t[k] \in Int /\ Fold(t)[k] = Lower(t[k])
      BY <2>3, FoldIsText
    <3>2. AnyChar \in Int \ (65 .. 90 \cup 97 .. 122)
      BY MetadataAssumption, Zenon
    <3> QED BY <3>1, <3>2, LowerTwice, Zenon
  <2> QED BY <2>1, <2>2, <2>3
<1> QED BY <1>1, <1>2

LEMMA RegexFolds ==
  ASSUME NEW v \in Seq(Int), NEW p \in Seq(Int), NEW b \in BOOLEAN, NEW exact
  PROVE  RegexPlace(v, Cased(p, b), b, exact) = RegexPlace(v, p, b, exact)
<1> DEFINE n == Cased(p, b)
<1>1. /\ n \in Seq(Int) /\ Len(n) = Len(p) /\ Cased(n, b) = n
      /\ \A k \in 1 .. Len(p) : n[k] = AnyChar <=> p[k] = AnyChar
  BY CasedIsText, Zenon
<1> HIDE DEF n
<1>2. DOMAIN n = 1 .. Len(p) /\ DOMAIN p = 1 .. Len(p)
  BY <1>1
<1>3. ASSUME NEW i PROVE Fits(n, v, i, b) <=> Fits(p, v, i, b)
  <2>1. Cased(p, b) = n
    BY DEF n
  <2>2. Fits(p, v, i, b) <=> /\ i + Len(p) <= Len(v)
                             /\ \A k \in 1 .. Len(p) : p[k] = AnyChar \/ n[k] = Cased(v, b)[i + k]
    BY <1>2, <2>1, Zenon DEF Fits
  <2>3. Fits(n, v, i, b) <=> /\ i + Len(p) <= Len(v)
                             /\ \A k \in 1 .. Len(p) : n[k] = AnyChar \/ n[k] = Cased(v, b)[i + k]
    BY <1>1, <1>2, Zenon DEF Fits
  <2> QED BY <1>1, <2>2, <2>3, Zenon
<1> DEFINE A == {i \in 0 .. Len(v) : Fits(n, v, i, b) /\ (exact => i = 0 /\ Len(n) = Len(v))}
           B == {i \in 0 .. Len(v) : Fits(p, v, i, b) /\ (exact => i = 0 /\ Len(p) = Len(v))}
<1>4. \A i : i \in A <=> i \in B
  BY <1>1, <1>3, Zenon
<1>5. A = B
  <2> HIDE DEF A, B
  <2> QED BY <1>4, Zenon
<1>6. RegexPlace(v, n, b, exact) =
        IF A = {} THEN 0 ELSE IF Min(A) > 0 THEN 1 ELSE IF Len(n) = Len(v) THEN 3 ELSE 2
  BY Zenon DEF RegexPlace
<1>7. RegexPlace(v, p, b, exact) =
        IF B = {} THEN 0 ELSE IF Min(B) > 0 THEN 1 ELSE IF Len(p) = Len(v) THEN 3 ELSE 2
  BY Zenon DEF RegexPlace
<1> HIDE DEF A, B
<1>8. RegexPlace(v, n, b, exact) = RegexPlace(v, p, b, exact)
  <2>1. Len(n) = Len(p)
    BY <1>1
  <2> QED BY <2>1, <1>5, <1>6, <1>7
<1> QED BY <1>8 DEF n

LEMMA LiteralOccurs ==
  ASSUME NEW v \in Seq(Int), NEW p \in Seq(Int), NEW b \in BOOLEAN
  PROVE  LiteralPlace(v, Cased(p, b), b) > 0 <=> OccursIn(v, Cased(p, b), b)
<1> DEFINE n == Cased(p, b)
           w == Cased(v, b)
<1>1. n \in Seq(Int) /\ Cased(n, b) = n
  BY CasedIsText, Zenon
<1>2. w \in Seq(Int) /\ Len(w) = Len(v)
  BY CasedIsText, Zenon
<1>n. b = TRUE => n = p
  BY DEF Cased
<1>w. (b = TRUE => w = v) /\ (b = FALSE => w = Fold(v))
  BY DEF Cased
<1>f. b = FALSE => Fold(n) = n
  BY <1>1 DEF Cased
<1>3. Equals(v, n, b) <=> w = n
  BY <1>1, Zenon DEF Equals
<1>d. OccursIn(v, n, b) <=> \E i \in 0 .. Len(v) : OccursAt(n, w, i)
  BY Zenon DEF OccursIn
<1> HIDE DEF n, w
<1>4. ASSUME IsPrefix(n, w) PROVE OccursIn(v, n, b)
  <2>1. Len(n) <= Len(w) /\ SubSeq(n, 1, Len(n)) = SubSeq(w, 1, Len(n))
    BY <1>4, Zenon DEF IsPrefix
  <2>2. Len(n) \in Nat /\ 0 \in 0 .. Len(v) /\ 0 + Len(n) = Len(n) /\ 0 + 1 = 1
    BY <1>1
  <2>3. SubSeq(n, 1, Len(n)) = n
    BY <1>1
  <2>4. OccursAt(n, w, 0)
    BY <2>1, <2>2, <2>3, Zenon DEF OccursAt
  <2> QED BY <2>2, <2>4, <1>d, Zenon
<1>5. ASSUME w = n PROVE IsPrefix(n, w)
  BY <1>1, <1>5 DEF IsPrefix
<1>6. ASSUME b = FALSE, IsPrefix(n, v) PROVE IsPrefix(n, w)
  <2>1. Len(n) <= Len(v) /\ SubSeq(n, 1, Len(n)) = SubSeq(v, 1, Len(n))
    BY <1>6, Zenon DEF IsPrefix
  <2>2. Len(n) \in Nat /\ Len(v) \in Nat
    BY <1>1
  <2>3. SubSeq(n, 1, Len(n)) = [i \in 1 .. Len(n) |-> n[i]]
    BY <1>1, <2>2
  <2>4. SubSeq(v, 1, Len(n)) = [i \in 1 .. Len(n) |-> v[i]]
    BY <2>1, <2>2
  <2>5. \A i \in 1 .. Len(n) : n[i] = v[i]
    BY <2>1, <2>3, <2>4
  <2>6. \A i \in 1 .. Len(n) : i \in 1 .. Len(v)
    BY <2>1, <2>2
  <2>7. \A i \in 1 .. Len(v) : w[i] = Lower(v[i])
    BY <1>6, <1>w, FoldIsText, Zenon
  <2>8. \A i \in 1 .. Len(n) : n[i] = Lower(n[i])
    BY <1>1, <1>6, <1>f, FoldIsText, Zenon
  <2>9. \A i \in 1 .. Len(n) : n[i] = w[i]
    BY <2>5, <2>6, <2>7, <2>8, Zenon
  <2>10. SubSeq(w, 1, Len(n)) = [i \in 1 .. Len(n) |-> w[i]]
    BY <2>1, <2>2, <1>2
  <2>11. SubSeq(n, 1, Len(n)) = SubSeq(w, 1, Len(n))
    BY <2>3, <2>9, <2>10
  <2> QED BY <2>1, <2>11, <1>2, Zenon DEF IsPrefix
<1>7. IsPrefix(n, v) \/ (~b /\ IsPrefix(n, Fold(v))) => OccursIn(v, n, b)
  <2>1. CASE b = TRUE
    BY <2>1, <1>w, <1>4, Zenon
  <2>2. CASE b = FALSE
    BY <2>2, <1>w, <1>4, <1>6, Zenon
  <2> QED BY <2>1, <2>2
<1>8. Equals(v, n, b) => OccursIn(v, n, b)
  BY <1>3, <1>4, <1>5, Zenon
<1>9. LiteralPlace(v, n, b) =
        IF Equals(v, n, b) THEN 3
        ELSE IF IsPrefix(n, v) \/ (~b /\ IsPrefix(n, Fold(v))) THEN 2
        ELSE IF OccursIn(v, n, b) THEN 1 ELSE 0
  BY Zenon DEF LiteralPlace
<1> DEFINE e == Equals(v, n, b)
           x == IsPrefix(n, v) \/ (~b /\ IsPrefix(n, Fold(v)))
           o == OccursIn(v, n, b)
<1> HIDE DEF e, x, o
<1>10. CASE o
  <2>1. LiteralPlace(v, n, b) \in {1, 2, 3}
    BY <1>9, <1>10 DEF e, x, o
  <2>2. LiteralPlace(v, n, b) > 0
    BY <2>1
  <2> QED BY <2>2, <1>10, Zenon DEF n, o
<1>11. CASE ~o
  <2>1. ~e /\ ~x
    BY <1>11, <1>7, <1>8, Zenon DEF e, x, o
  <2>2. LiteralPlace(v, n, b) = 0
    BY <2>1, <1>9, <1>11, Zenon DEF e, x, o
  <2>3. ~(LiteralPlace(v, n, b) > 0)
    BY <2>2
  <2> QED BY <2>3, <1>11, Zenon DEF n, o
<1> QED BY <1>10, <1>11

\* A value counts if the filter lets it through.
LEMMA PlacedIfMatched ==
  ASSUME NEW v \in Seq(Int), NEW q, IsQuery(q)
  PROVE  Place(v, Cased(q.pattern, q.sensitive), q) > 0
           <=> CASE q.regex -> RegexPlace(v, q.pattern, q.sensitive, q.exact) > 0
                 [] ~q.regex /\ q.exact -> Equals(v, q.pattern, q.sensitive)
                 [] OTHER -> OccursIn(v, Cased(q.pattern, q.sensitive), q.sensitive)
<1> DEFINE p == q.pattern
           b == q.sensitive
           n == Cased(p, b)
<1>1. p \in Seq(Int) /\ b \in BOOLEAN /\ q["regex"] \in BOOLEAN /\ q["exact"] \in BOOLEAN
  BY DEF IsQuery
<1>2. CASE q.regex
  <2>1. Place(v, n, q) = RegexPlace(v, n, b, q.exact)
    BY <1>2 DEF Place
  <2>2. RegexPlace(v, n, b, q.exact) = RegexPlace(v, p, b, q.exact)
    BY <1>1, RegexFolds, Zenon
  <2>3. Place(v, n, q) > 0 <=> RegexPlace(v, p, b, q.exact) > 0
    BY <2>1, <2>2, Zenon
  <2> QED BY <2>3, <1>2
<1>3. CASE ~q.regex /\ q.exact
  <2>1. Place(v, n, q) = IF Equals(v, n, b) THEN 3 ELSE 0
    BY <1>3 DEF Place
  <2>2. Equals(v, n, b) <=> Equals(v, p, b)
    BY <1>1, CasedIsText, Zenon DEF Equals
  <2>3. Place(v, n, q) > 0 <=> Equals(v, n, b)
    BY <2>1
  <2>4. Place(v, n, q) > 0 <=> Equals(v, p, b)
    BY <2>2, <2>3, Zenon
  <2> QED BY <2>4, <1>3
<1>4. CASE ~q.regex /\ ~q.exact
  <2>1. Place(v, n, q) = LiteralPlace(v, n, b)
    BY <1>4 DEF Place
  <2>2. LiteralPlace(v, n, b) > 0 <=> OccursIn(v, n, b)
    BY <1>1, LiteralOccurs, Zenon
  <2>3. Place(v, n, q) > 0 <=> OccursIn(v, n, b)
    BY <2>1, <2>2, Zenon
  <2> QED BY <2>3, <1>4
<1> QED BY <1>2, <1>3, <1>4

LEMMA MatchedAreHits ==
  ASSUME NEW db, NEW q, Searchable(db, q), ~q.fuzzy
  PROVE  Matched(db, q) = {i \in DOMAIN db : db[i] \in Hits(db, q)}
<1>1. IsQuery(q) /\ \A i \in DOMAIN db : IsRecord(db[i])
  BY SearchableRecords, Zenon DEF Searchable
<1>2. ASSUME NEW i \in DOMAIN db, NEW f \in Searched(db[i], q) PROVE db[i][f] \in Seq(Int)
  <2>1. f \in FieldsOf(q.field) /\ db[i][f] # Absent
    BY Zenon DEF Searched
  <2>2. FieldsOf(q.field) \subseteq Fields
    BY <1>1 DEF FieldsOf, IsQuery
  <2> QED BY <1>1, <2>1, <2>2, Zenon DEF IsRecord
<1>3. ASSUME NEW i \in DOMAIN db
      PROVE  MatchesField(db[i], q)
               <=> \E f \in Searched(db[i], q) : Place(db[i][f], Cased(q.pattern, q.sensitive), q) > 0
  BY <1>1, <1>2, PlacedIfMatched, Zenon DEF MatchesField
<1>4. \A i \in DOMAIN db : db[i] \in Range(db)
  BY Zenon DEF Range
<1>5. \A i \in DOMAIN db : db[i] \in Hits(db, q) <=> MatchesField(db[i], q)
  <2>1. \A r : r \in Hits(db, q) <=>
          r \in Range(db) /\ \E f \in Searched(r, q) : Place(r[f], Cased(q.pattern, q.sensitive), q) > 0
    BY Zenon DEF Hits
  <2> QED BY <2>1, <1>3, <1>4, Zenon
<1>6. CASE FastPath(q)
  <2>1. ~q.regex /\ q.exact /\ q.field = "attr"
    BY <1>6, Zenon DEF FastPath
  <2>2. ASSUME NEW i \in DOMAIN db
        PROVE  MatchesField(db[i], q)
                 <=> Fold(db[i].attr) = Fold(q.pattern) /\ (q.sensitive => db[i].attr = q.pattern)
    <3>1. Searched(db[i], q) = {"attr"}
      <4>1. FieldsOf(q.field) = {"attr"}
        BY <2>1 DEF FieldsOf
      <4>2. db[i]["attr"] # Absent
        BY <1>1, Zenon DEF IsRecord
      <4> QED BY <4>1, <4>2 DEF Searched
    <3>2. MatchesField(db[i], q) <=> \E f \in {"attr"} : Equals(db[i][f], q.pattern, q.sensitive)
      BY <3>1, <2>1 DEF MatchesField
    <3>3. MatchesField(db[i], q) <=> Equals(db[i].attr, q.pattern, q.sensitive)
      BY <3>2, Zenon
    <3>4. CASE q.sensitive
      <4>1. Equals(db[i].attr, q.pattern, q.sensitive) <=> db[i].attr = q.pattern
        BY <3>4 DEF Cased, Equals
      <4>2. db[i].attr = q.pattern => Fold(db[i].attr) = Fold(q.pattern)
        OBVIOUS
      <4> QED BY <3>3, <3>4, <4>1, <4>2, Zenon
    <3>5. CASE ~q.sensitive
      <4>1. \A t : Cased(t, q.sensitive) = Fold(t)
        BY <3>5 DEF Cased
      <4> QED BY <3>3, <3>5, <4>1, Zenon DEF Equals
    <3> QED BY <3>4, <3>5
  <2>3. Matched(db, q) = {i \in Bucket(db, q.pattern) : q.sensitive => db[i].attr = q.pattern}
    BY <1>6, Zenon DEF Matched
  <2>4. \A i : i \in Matched(db, q) <=>
          i \in DOMAIN db /\ Fold(db[i].attr) = Fold(q.pattern) /\ (q.sensitive => db[i].attr = q.pattern)
    BY <2>3, Zenon DEF Bucket
  <2>5. \A i : i \in Matched(db, q) <=> i \in DOMAIN db /\ db[i] \in Hits(db, q)
    BY <2>2, <2>4, <1>5, Zenon
  <2> QED BY <2>5, Zenon
<1>7. CASE ~FastPath(q)
  <2>1. Matched(db, q) = {i \in DOMAIN db : MatchesField(db[i], q)}
    BY <1>7, Zenon DEF Matched
  <2>2. \A i : i \in Matched(db, q) <=> i \in DOMAIN db /\ db[i] \in Hits(db, q)
    BY <2>1, <1>5, Zenon
  <2> QED BY <2>2, Zenon
<1> QED BY <1>6, <1>7

(***************************************************************************)
(* What a search returns, by its places: they list those of the hits.      *)
(***************************************************************************)
HitPlaces(db, q) == {i \in DOMAIN db : db[i] \in Hits(db, q)}
PlacesOf(db, q) == Truncate(IF q.fuzzy THEN OrderedFuzzy(db, q) ELSE Ordered(db, q), q.limit)

LEMMA SearchListsHits ==
  ASSUME NEW db, NEW q, Searchable(db, q)
  PROVE  Lists(PlacesOf(db, q), HitPlaces(db, q), q.limit, Allows(db, q, HitPlaces(db, q)))
<1> DEFINE S == HitPlaces(db, q)
<1>0. S \subseteq DOMAIN db
  BY DEF HitPlaces
<1>1. CASE q.fuzzy
  <2>1. PlacesOf(db, q) = Truncate(OrderedFuzzy(db, q), q.limit)
    BY <1>1 DEF PlacesOf
  <2>2. \A r : r \in Hits(db, q) <=> r \in Range(db) /\ BestScore(r, q) > 0
    BY <1>1, Zenon DEF Hits
  <2>3. \A i \in DOMAIN db : db[i] \in Range(db)
    BY Zenon DEF Range
  <2>4. \A i : i \in S <=> i \in DOMAIN db /\ BestScore(db[i], q) > 0
    BY <2>2, <2>3, Zenon DEF HitPlaces
  <2> HIDE DEF S
  <2>5. S = {i \in DOMAIN db : BestScore(db[i], q) > 0}
    BY <2>4, Zenon
  <2>6. Lists(Truncate(OrderedFuzzy(db, q), q.limit), S, q.limit, Allows(db, q, S))
    BY <1>1, <2>5, FuzzyLists, Zenon
  <2> QED BY <2>1, <2>6, Zenon DEF S
<1>2. CASE ~q.fuzzy
  <2>1. PlacesOf(db, q) = Truncate(Ordered(db, q), q.limit)
    BY <1>2 DEF PlacesOf
  <2>2. S = Matched(db, q)
    BY <1>2, MatchedAreHits, Zenon DEF HitPlaces
  <2>3. Lists(Truncate(Ordered(db, q), q.limit), S, q.limit, Allows(db, q, S))
    BY <1>0, <1>2, <2>2, OrderedLists, Zenon
  <2> QED BY <2>1, <2>3, Zenon
<1> QED BY <1>1, <1>2

(***************************************************************************)
(* Records by places: how often a record is in the answer is how many of   *)
(* its places are listed.                                                  *)
(***************************************************************************)
PlacesWith(s, r) == {i \in DOMAIN s : s[i] = r}

LEMMA ListedTimes ==
  ASSUME NEW db, NEW t, IsFiniteSet(DOMAIN db), t \in Seq(DOMAIN db), IsFiniteSet(DOMAIN t),
         \A n, m \in DOMAIN t : n # m => t[n] # t[m],
         NEW body, DOMAIN body = DOMAIN t, \A n \in DOMAIN t : body[n] = db[t[n]], NEW r
  PROVE  /\ Times(body, r) <= Times(db, r)
         /\ Times(body, r) < Times(db, r) => \E i \in DOMAIN db \ Range(t) : db[i] = r
<1> DEFINE X == {n \in DOMAIN t : db[t[n]] = r}
           Y == {i \in DOMAIN db : db[i] = r}
           f == [n \in X |-> t[n]]
<1>1. \A n \in DOMAIN t : t[n] \in DOMAIN db
  OBVIOUS
<1>2. Times(body, r) = Cardinality(X) /\ Times(db, r) = Cardinality(Y)
  <2>1. {n \in DOMAIN body : body[n] = r} = X
    OBVIOUS
  <2> QED BY <2>1, Zenon DEF Times
<1>3. X \subseteq DOMAIN t /\ Y \subseteq DOMAIN db
  OBVIOUS
<1>4. IsFiniteSet(X) /\ IsFiniteSet(Y)
  BY <1>3, FS_Subset
<1>5. f \in [X -> Y]
  BY <1>1
<1>6. \A n, m \in X : f[n] = f[m] => n = m
  OBVIOUS
<1>7. \A n \in X : f[n] = t[n] /\ n \in DOMAIN t
  OBVIOUS
<1>y. \A i : i \in Y <=> i \in DOMAIN db /\ db[i] = r
  OBVIOUS
<1>x. \A n \in DOMAIN t : t[n] \in Y => n \in X
  OBVIOUS
<1> HIDE DEF X, Y, f
<1>8. f \in Injection(X, Y)
  BY <1>5, <1>6 DEF Injection, IsInjective
<1>9. Cardinality(X) <= Cardinality(Y) /\ (Cardinality(X) = Cardinality(Y) => f \in Surjection(X, Y))
  BY <1>4, <1>8, FS_Injection
<1>10. Cardinality(X) \in Nat /\ Cardinality(Y) \in Nat
  BY <1>4, FS_CardinalityType
<1>11. ASSUME Cardinality(X) < Cardinality(Y) PROVE \E i \in DOMAIN db \ Range(t) : db[i] = r
  <2>1. SUFFICES ASSUME \A i \in DOMAIN db : db[i] = r => i \in Range(t) PROVE FALSE
    BY Zenon
  <2>2. \A i \in Y : \E n \in X : f[n] = i
    <3> TAKE i \in Y
    <3>1. i \in Range(t)
      BY <2>1, <1>y, Zenon
    <3>2. PICK n \in DOMAIN t : t[n] = i
      BY <3>1, Zenon DEF Range
    <3>3. n \in X
      BY <3>2, <1>x, Zenon
    <3> QED BY <3>2, <3>3, <1>7, Zenon
  <2>3. f \in Surjection(X, Y)
    BY <1>5, <2>2 DEF Surjection
  <2>4. Cardinality(X) >= Cardinality(Y)
    BY <1>4, <2>3, FS_Surjection
  <2> QED BY <2>4, <1>10, <1>11
<1> QED BY <1>2, <1>9, <1>11

(***************************************************************************)
(* A search is ranked.                                                     *)
(***************************************************************************)
LEMMA LesserOf ==
  ASSUME NEW a \in Nat, NEW b \in Nat, NEW l, l <= a, l <= b, l = a \/ l = b
  PROVE  l = Min({a, b})
<1>1. l \in {a, b} /\ \A x \in {a, b} : l <= x
  OBVIOUS
<1>2. \A x \in {a, b} : (\A y \in {a, b} : x <= y) => x = l
  BY <1>1
<1> QED BY <1>1, <1>2, Zenon DEF Min

LEMMA SearchIsRanked ==
  ASSUME NEW db, NEW q, Searchable(db, q)
  PROVE  /\ Ranked(db, q, Search(db, q))
         /\ Search(db, q) \in Seq(Range(db))
<1> DEFINE S == HitPlaces(db, q)
           t == PlacesOf(db, q)
           B == Allows(db, q, S)
           body == Search(db, q)
<1>1. /\ t \in Seq(S) /\ Len(t) <= q.limit /\ Len(t) <= Cardinality(S)
      /\ Len(t) = q.limit \/ Len(t) = Cardinality(S)
      /\ \A n, m \in DOMAIN t : n < m => t[n] # t[m] /\ <<t[n], t[m]>> \in B
      /\ \A i \in S \ Range(t), n \in DOMAIN t : <<t[n], i>> \in B
  BY SearchListsHits, Zenon DEF Lists
<1>2. \A i, j \in S : <<i, j>> \in B <=> Above(db[i], db[j], q)
  BY DEF Allows
<1>3. body = [n \in DOMAIN t |-> db[t[n]]]
  BY Zenon DEF Search, PlacesOf
<1>4. /\ S \subseteq DOMAIN db /\ \A i \in DOMAIN db : i \in S <=> db[i] \in Hits(db, q)
  BY DEF HitPlaces
<1>5. IsFiniteSet(DOMAIN db) /\ IsFiniteSet(S) /\ Cardinality(S) \in Nat /\ q.limit \in Nat
  <2>1. IsFiniteSet(DOMAIN db)
    BY SearchableRecords
  <2>2. IsFiniteSet(S) /\ Cardinality(S) \in Nat
    BY <2>1, <1>4, FS_Subset, FS_CardinalityType
  <2>3. q.limit \in Nat
    BY Zenon DEF Searchable, IsQuery
  <2> QED BY <2>1, <2>2, <2>3
<1>s. S = {i \in DOMAIN db : db[i] \in Hits(db, q)}
  BY Zenon DEF HitPlaces
<1>r. \A i \in DOMAIN db : db[i] \in Range(db)
  BY Zenon DEF Range
<1> HIDE DEF S, t, B, body
<1>6. Len(t) \in Nat /\ DOMAIN t = 1 .. Len(t) /\ \A n \in DOMAIN t : t[n] \in S
  <2>1. t \in Seq(S)
    BY <1>1
  <2> QED BY <2>1
<1>7. DOMAIN body = DOMAIN t /\ \A n \in DOMAIN t : body[n] = db[t[n]]
  BY <1>3
<1>8. body \in Seq(Range(db)) /\ Len(body) = Len(t)
  <2>1. \A n \in 1 .. Len(t) : body[n] \in Range(db)
    BY <1>4, <1>6, <1>7, <1>r
  <2>2. body = [n \in 1 .. Len(t) |-> body[n]]
    BY <1>3, <1>6, <1>7
  <2>3. body \in [1 .. Len(t) -> Range(db)]
    BY <2>1, <2>2, Zenon
  <2> QED BY <2>3, <1>6
<1>9. Len(body) = Min({q.limit, Cardinality(S)})
  BY <1>1, <1>5, <1>8, LesserOf, Zenon
<1>10. ASSUME NEW n \in DOMAIN body, NEW m \in DOMAIN body, n < m PROVE Above(body[n], body[m], q)
  BY <1>1, <1>2, <1>6, <1>7, <1>10, Zenon
<1>11. ASSUME NEW r
       PROVE  /\ Times(body, r) <= Times(db, r)
              /\ Times(body, r) < Times(db, r) => \E i \in DOMAIN db \ Range(t) : db[i] = r
  <2>1. t \in Seq(DOMAIN db)
    BY <1>1, <1>4, <1>6
  <2>2. IsFiniteSet(DOMAIN t)
    BY <1>6, FS_Interval
  <2>3. \A n, m \in DOMAIN t : n # m => t[n] # t[m]
    <3>1. \A n, m \in DOMAIN t : n # m => n < m \/ m < n
      BY <1>6
    <3> QED BY <3>1, <1>1, Zenon
  <2> QED BY <1>5, <1>7, <2>1, <2>2, <2>3, ListedTimes
<1>12. ASSUME NEW r \in Range(body) PROVE r \in Hits(db, q)
  <2>1. PICK n \in DOMAIN body : r = body[n]
    BY Zenon DEF Range
  <2> QED BY <2>1, <1>4, <1>6, <1>7
<1>13. ASSUME NEW r \in Hits(db, q), Times(body, r) < Times(db, r), NEW n \in DOMAIN body
       PROVE  Above(body[n], r, q)
  <2>1. PICK i \in DOMAIN db \ Range(t) : db[i] = r
    BY <1>11, <1>13, Zenon
  <2>2. i \in S \ Range(t)
    BY <2>1, <1>4
  <2> QED BY <2>1, <2>2, <1>1, <1>2, <1>6, <1>7, Zenon
<1>14. Ranked(db, q, body)
  <2>1. \A r \in Range(body) : r \in Hits(db, q) /\ Times(body, r) <= Times(db, r)
    BY <1>11, <1>12
  <2>2. Len(body) = Min({q.limit, Cardinality({i \in DOMAIN db : db[i] \in Hits(db, q)})})
    BY <1>9, <1>s, Zenon
  <2> QED BY <1>10, <1>13, <2>1, <2>2, Zenon DEF Ranked
<1> QED BY <1>8, <1>14 DEF body

(***************************************************************************)
(* The search of /info finds what has the name, and nothing if nothing has.*)
(***************************************************************************)
LEMMA InfoHits ==
  ASSUME NEW db, NEW attr, Searchable(db, InfoQuery(attr))
  PROVE  Hits(db, InfoQuery(attr)) = {r \in Range(db) : r.attr = attr}
<1> DEFINE q == InfoQuery(attr)
<1>1. /\ q.pattern = attr /\ q.regex = FALSE /\ q.field = "attr" /\ q.sensitive = TRUE
      /\ q.exact = TRUE /\ q.fuzzy = FALSE
  BY DEF InfoQuery
<1> HIDE DEF q
<1>2. \A t : Cased(t, q.sensitive) = t
  BY <1>1 DEF Cased
<1>3. \A v : Place(v, Cased(q.pattern, q.sensitive), q) = IF v = attr THEN 3 ELSE 0
  <2>1. \A v, n : Place(v, n, q) = IF Equals(v, n, q.sensitive) THEN 3 ELSE 0
    BY <1>1 DEF Place
  <2>2. \A v, n : Equals(v, n, q.sensitive) <=> v = n
    BY <1>1 DEF Equals, Cased
  <2>3. Cased(q.pattern, q.sensitive) = attr
    BY <1>1, <1>2
  <2> QED BY <2>1, <2>2, <2>3
<1>4. ASSUME NEW r \in Range(db) PROVE Searched(r, q) = {"attr"}
  <2>1. r["attr"] # Absent
    BY Zenon DEF Searchable, IsRecord, q
  <2>2. FieldsOf(q.field) = {"attr"}
    BY <1>1 DEF FieldsOf
  <2> QED BY <2>1, <2>2 DEF Searched
<1>5. \A r : r \in Hits(db, q) <=>
        r \in Range(db) /\ \E f \in Searched(r, q) : Place(r[f], Cased(q.pattern, q.sensitive), q) > 0
  BY <1>1 DEF Hits
<1>6. ASSUME NEW r \in Range(db) PROVE r \in Hits(db, q) <=> r.attr = attr
  <2>1. r \in Hits(db, q) <=> \E f \in {"attr"} : Place(r[f], Cased(q.pattern, q.sensitive), q) > 0
    BY <1>4, <1>5, Zenon
  <2>2. r \in Hits(db, q) <=> Place(r.attr, Cased(q.pattern, q.sensitive), q) > 0
    BY <2>1, Zenon
  <2>3. Place(r.attr, Cased(q.pattern, q.sensitive), q) = IF r.attr = attr THEN 3 ELSE 0
    BY <1>3, Zenon
  <2> QED BY <2>2, <2>3
<1>7. Hits(db, q) = {r \in Range(db) : r.attr = attr}
  <2>1. \A r : r \in Hits(db, q) => r \in Range(db)
    BY <1>5, Zenon
  <2> DEFINE H == Hits(db, q)
  <2>2. (\A r \in H : r \in Range(db)) /\ \A r \in Range(db) : r \in H <=> r.attr = attr
    BY <1>6, <2>1, Zenon
  <2> HIDE DEF H
  <2>3. H = {r \in Range(db) : r.attr = attr}
    BY <2>2
  <2> QED BY <2>3 DEF H
<1> QED BY <1>7 DEF q

LEMMA NothingFound ==
  ASSUME NEW db, NEW attr, Searchable(db, InfoQuery(attr)), Ranked(db, InfoQuery(attr), <<>>)
  PROVE  Hits(db, InfoQuery(attr)) = {}
<1> DEFINE q == InfoQuery(attr)
           S == {i \in DOMAIN db : db[i] \in Hits(db, q)}
<1>1. q.limit = 1
  BY DEF InfoQuery
<1>2. IsFiniteSet(S) /\ Cardinality(S) \in Nat
  <2>1. S \subseteq DOMAIN db /\ IsFiniteSet(DOMAIN db)
    BY SearchableRecords
  <2> HIDE DEF S
  <2> QED BY <2>1, FS_Subset, FS_CardinalityType
<1>3. Len(<<>>) = Min({q.limit, Cardinality(S)})
  BY Zenon DEF Ranked
<1> HIDE DEF S, q
<1>4. 0 = Min({1, Cardinality(S)})
  BY <1>1, <1>3
<1>5. ASSUME Cardinality(S) >= 1 PROVE FALSE
  <2>1. 1 \in Nat /\ 1 <= 1
    OBVIOUS
  <2>2. 1 = Min({1, Cardinality(S)})
    BY <1>2, <1>5, <2>1, LesserOf
  <2> QED BY <1>4, <2>2
<1>6. S = {}
  BY <1>2, <1>5, FS_EmptySet
<1>7. ASSUME NEW r \in Hits(db, q) PROVE FALSE
  <2>1. r \in Range(db)
    BY <1>7, Zenon DEF Hits
  <2>2. PICK i \in DOMAIN db : db[i] = r
    BY <2>1, Zenon DEF Range
  <2>3. i \in S
    BY <2>2, <1>7 DEF S
  <2> QED BY <1>6, <2>3
<1> QED BY <1>7, Zenon DEF q

----------------------------------------------------------------------------
(***************************************************************************)
(* The steps.                                                              *)
(***************************************************************************)
LEMMA CallsBegin == RequestsInit => RequestsIInv
<1> SUFFICES ASSUME RequestsInit PROVE RequestsIInv
  OBVIOUS
<1>1. PICK load \in Workloads : calls = [cl \in Clients |-> [NoCall EXCEPT !.call = load[cl]]]
  BY DEF RequestsInit
<1>2. ASSUME NEW cl \in Clients PROVE Sound(calls[cl])
  <2>1. calls[cl] = [pc |-> "idle", call |-> load[cl], server |-> Nil, snapshot |-> Nil,
                     seen |-> {}, out |-> Nil]
    BY <1>1 DEF NoCall
  <2> QED BY <2>1 DEF Sound, IsCall, Places, Requests, Answered, Described, Done
<1>3. servers \in [Servers -> [pc : {"off", "up"}, http : {"unbound", "bound", "failed"},
                               token : BOOLEAN, snapshot : Generations \cup {Nil}]]
  <2>1. PICK running, token \in BOOLEAN :
          servers = [s \in Servers |->
            IF s = 1 /\ running THEN [Off EXCEPT !.pc = "up", !.token = token]
            ELSE Off]
    BY DEF RequestsInit
  <2>2. [Off EXCEPT !.pc = "up", !.token = token]
          = [pc |-> "up", http |-> "unbound", token |-> token, snapshot |-> Nil]
    <3>1. ASSUME NEW off, off = [pc |-> "off", http |-> off.http, token |-> off.token,
                                 snapshot |-> off.snapshot]
          PROVE  [off EXCEPT !.pc = "up", !.token = token]
                   = [pc |-> "up", http |-> off.http, token |-> token, snapshot |-> off.snapshot]
      <4> DEFINE up == [off EXCEPT !.pc = "up"]
      <4>1. up = [pc |-> "up", http |-> off.http, token |-> off.token, snapshot |-> off.snapshot]
        BY <3>1
      <4>2. [off EXCEPT !.pc = "up", !.token = token] = [up EXCEPT !.token = token]
        BY <3>1
      <4> HIDE DEF up
      <4> QED BY <4>1, <4>2
    <3>2. /\ Off = [pc |-> "off", http |-> Off.http, token |-> Off.token, snapshot |-> Off.snapshot]
          /\ Off.http = "unbound" /\ Off.snapshot = Nil
      BY DEF Off
    <3> QED BY <3>1, <3>2
  <2> QED BY <2>1, <2>2 DEF Off
<1>4. calls = [cl \in Clients |-> calls[cl]]
  BY <1>1
<1>5. installs \in 0 .. MaxInstalls /\ failures \in 0 .. MaxFailures
  BY CallsAssumption DEF RequestsInit
<1> QED BY <1>2, <1>3, <1>4, <1>5 DEF RequestsInit, RequestsIInv

(***************************************************************************)
(* A call that goes to another place, and what else changes of it.         *)
(***************************************************************************)
LEMMA CallUpdates ==
  ASSUME NEW k, IsCall(k), NEW to, NEW x
  PROVE  /\ [k EXCEPT !.pc = to]
              = [pc |-> to, call |-> k.call, server |-> k.server, snapshot |-> k.snapshot,
                 seen |-> k.seen, out |-> k.out]
         /\ [k EXCEPT !.pc = to, !.server = x]
              = [pc |-> to, call |-> k.call, server |-> x, snapshot |-> k.snapshot,
                 seen |-> k.seen, out |-> k.out]
         /\ [k EXCEPT !.pc = to, !.snapshot = x]
              = [pc |-> to, call |-> k.call, server |-> k.server, snapshot |-> x,
                 seen |-> k.seen, out |-> k.out]
         /\ [k EXCEPT !.pc = to, !.seen = x]
              = [pc |-> to, call |-> k.call, server |-> k.server, snapshot |-> k.snapshot,
                 seen |-> x, out |-> k.out]
<1> DEFINE there == [k EXCEPT !.pc = to]
<1>1. there = [pc |-> to, call |-> k.call, server |-> k.server, snapshot |-> k.snapshot,
               seen |-> k.seen, out |-> k.out]
  BY DEF IsCall
<1>2. /\ [k EXCEPT !.pc = to, !.server = x] = [there EXCEPT !.server = x]
      /\ [k EXCEPT !.pc = to, !.snapshot = x] = [there EXCEPT !.snapshot = x]
      /\ [k EXCEPT !.pc = to, !.seen = x] = [there EXCEPT !.seen = x]
  BY DEF IsCall
<1>3. [k EXCEPT !.pc = to] = there
  OBVIOUS
<1> HIDE DEF there
<1> QED BY <1>1, <1>2, <1>3

(***************************************************************************)
(* A step of one client, to the call k.                                    *)
(***************************************************************************)
Moves(cl, k) == calls' = [calls EXCEPT ![cl] = k]

LEMMA CallMoves ==
  ASSUME RequestsIInv, NEW cl \in Clients, NEW k, Sound(k), Moves(cl, k),
         UNCHANGED <<world, servers>>, failures' \in 0 .. MaxFailures
  PROVE  RequestsIInv'
<1>1. \A other : Sound(other)' <=> Sound(other)
  BY DEF Sound, Sees, world
<1>2. \A other \in Clients : calls'[other] = IF other = cl THEN k ELSE calls[other]
  BY DEF Moves, RequestsIInv
<1>3. calls' = [other \in Clients |-> calls'[other]]
  BY DEF Moves, RequestsIInv
<1> QED BY <1>1, <1>2, <1>3 DEF RequestsIInv, world

(***************************************************************************)
(* A client that goes on to another place, and one that is done.           *)
(***************************************************************************)
LEMMA GoesOn ==
  ASSUME RequestsIInv, NEW cl \in Clients, calls[cl].pc \notin {"idle", "done"},
         NEW to \in Places \ {"idle", "handling", "done"},
         to = "alone" => calls[cl].call.kind \in {"nix-locate", "command"}
  PROVE  Sound([calls[cl] EXCEPT !.pc = to])
<1> DEFINE k == [calls[cl] EXCEPT !.pc = to]
<1>1. Sound(calls[cl])
  BY DEF RequestsIInv
<1>2. /\ k = [pc |-> to, call |-> calls[cl].call, server |-> calls[cl].server,
              snapshot |-> calls[cl].snapshot, seen |-> calls[cl].seen, out |-> calls[cl].out]
  BY <1>1, CallUpdates DEF Sound
<1> HIDE DEF k
<1>3. IsCall(k)
  BY <1>1, <1>2 DEF Sound, IsCall
<1>4. Answered(k)
  BY <1>2 DEF Answered, Described, Done
<1>5. k.call # Nil /\ Sees(k)
  BY <1>1, <1>2 DEF Sound, Sees
<1>6. Sound(k)
  BY <1>2, <1>3, <1>4, <1>5 DEF Sound
<1> QED BY <1>6 DEF k

Ended(cl, out) == [calls[cl] EXCEPT !.pc = "done", !.out = out]

LEMMA IsDone ==
  ASSUME RequestsIInv, NEW cl \in Clients, NEW out
  PROVE  /\ Ended(cl, out) = [pc |-> "done", call |-> calls[cl].call,
                              server |-> calls[cl].server, snapshot |-> calls[cl].snapshot,
                              seen |-> calls[cl].seen, out |-> out]
         /\ Ends(cl, out) => Moves(cl, Ended(cl, out))
         /\ Answered(Ended(cl, out)) => Sound(Ended(cl, out))
<1>1. Sound(calls[cl])
  BY DEF RequestsIInv
<1>2. Ended(cl, out) = [pc |-> "done", call |-> calls[cl].call,
                        server |-> calls[cl].server, snapshot |-> calls[cl].snapshot,
                        seen |-> calls[cl].seen, out |-> out]
  <2> DEFINE done == [calls[cl] EXCEPT !.pc = "done"]
  <2>1. done = [pc |-> "done", call |-> calls[cl].call, server |-> calls[cl].server,
                snapshot |-> calls[cl].snapshot, seen |-> calls[cl].seen, out |-> calls[cl].out]
    BY <1>1 DEF Sound, IsCall
  <2>2. Ended(cl, out) = [done EXCEPT !.out = out]
    BY <1>1 DEF Sound, IsCall, Ended
  <2> HIDE DEF done
  <2> QED BY <2>1, <2>2
<1>3. Ends(cl, out) => Moves(cl, Ended(cl, out))
  BY DEF Ends, Moves, Ended, RequestsIInv
<1>4. IsCall(Ended(cl, out))
  BY <1>1, <1>2 DEF Sound, IsCall, Places
<1> QED BY <1>2, <1>3, <1>4 DEF Sound

\* Nothing is said of metadata without an answer, or by another kind of call.
LEMMA NothingDescribed ==
  ASSUME RequestsIInv, NEW cl \in Clients, NEW out,
         \/ out = Nil \/ out.status \notin {200, Itself, 404}
         \/ calls[cl].call.kind \notin {"search", "info"}
  PROVE  Described(Ended(cl, out))
<1> DEFINE k == Ended(cl, out)
<1>1. k.call = calls[cl].call /\ k.out = out
  BY IsDone
<1> HIDE DEF k
<1>2. Described(k)
  BY <1>1 DEF Described, Done, Good
<1> QED BY <1>2 DEF k

(***************************************************************************)
(* The end of a request: what is said must be true only of a good answer,  *)
(* and without one nix-locate and a command lookup go on.                  *)
(***************************************************************************)
LEMMA Concluding ==
  ASSUME RequestsIInv, NEW cl \in Clients, calls[cl].pc \notin {"idle", "done"},
         NEW reply, Conclude(cl, reply),
         Accepted(reply) /\ calls[cl].call.kind = "nix-locate" => LocateTrue(Ended(cl, reply)),
         Accepted(reply) /\ calls[cl].call.kind = "command" =>
           \E g \in calls[cl].seen : reply.body = Providers(g, calls[cl].call.name),
         Described(Ended(cl, reply))
  PROVE  \E k : Sound(k) /\ Moves(cl, k)
<1> DEFINE c == calls[cl].call
<1>1. CASE c.kind \in {"nix-locate", "command"} /\ ~Accepted(reply)
  <2>1. Moves(cl, [calls[cl] EXCEPT !.pc = "alone"])
    BY <1>1 DEF Conclude, Moves, RequestsIInv
  <2> QED BY <1>1, <2>1, GoesOn DEF Places
<1>2. CASE c.kind = "command" /\ Accepted(reply)
  <2>1. PICK o \in Outcomes(reply.body, c.mode) : Ends(cl, o)
    BY <1>2 DEF Conclude
  <2>2. PICK g \in calls[cl].seen : reply.body = Providers(g, c.name)
    BY <1>2
  <2>3. g \in Generations
    BY DEF RequestsIInv, Sound, IsCall
  <2>4. CommandTrue(Ended(cl, o))
    BY <2>1, <2>2, <2>3, IsDone, CommandAnswer
  <2>5. Answered(Ended(cl, o))
    <3>1. Described(Ended(cl, o))
      BY <1>2, NothingDescribed
    <3> QED BY <1>2, <2>4, <3>1, IsDone DEF Answered, Done
  <2> QED BY <2>1, <2>5, IsDone
<1>3. CASE c.kind # "command" /\ (c.kind = "nix-locate" => Accepted(reply))
  <2>1. Ends(cl, reply)
    BY <1>3 DEF Conclude
  <2>2. Answered(Ended(cl, reply))
    BY <1>3, IsDone DEF Answered, Done
  <2> QED BY <2>1, <2>2, IsDone
<1> QED BY <1>1, <1>2, <1>3

(***************************************************************************)
(* A reply of a handler.                                                   *)
(***************************************************************************)
LEMMA HandlerAnswers ==
  ASSUME RequestsIInv, NEW cl \in Clients, calls[cl].pc = "handling",
         NEW reply \in Replies(calls[cl]), Accepted(reply)
  PROVE  /\ calls[cl].call.kind = "nix-locate" => LocateTrue(Ended(cl, reply))
         /\ calls[cl].call.kind = "command" =>
              \E g \in calls[cl].seen : reply.body = Providers(g, calls[cl].call.name)
<1> DEFINE c == calls[cl].call
           g == calls[cl].snapshot
           k == Ended(cl, reply)
<1>1. Sound(calls[cl]) /\ generation \in Generations
  BY DEF RequestsIInv
<1>2. c \in Requests /\ c # Nil /\ generation \in calls[cl].seen /\ g \in calls[cl].seen \cup {Nil}
  BY <1>1 DEF Sound, IsCall, Sees
<1>3. ASSUME c.kind = "nix-locate" PROVE LocateTrue(k)
  <2>1. reply \in NixLocate(generation, g, c)
    BY <1>3 DEF Replies
  <2>2. /\ g # Nil
        /\ \E S \in Limited(DaemonHits(generation, g, c), AtMost(c.limit)) :
             reply = Reply(200, Rows(generation, c, S, FALSE))
    <3>1. Refusal(400).status # 200 /\ Refusal(503).status # 200
      BY DEF Refusal, Reply
    <3>2. reply \notin {Refusal(400), Refusal(503)}
      BY <3>1 DEF Accepted
    <3> QED BY <2>1, <3>2 DEF NixLocate
  <2>3. PICK S \in Limited(DaemonHits(generation, g, c), AtMost(c.limit)) :
          reply = Reply(200, Rows(generation, c, S, FALSE))
    BY <2>2
  <2>4. k.call = c /\ k.seen = calls[cl].seen /\ k.out = reply
    BY IsDone
  <2>5. Mixed(k) \/ (c.rooted => g = generation)
    <3>1. reply.status = 200
      BY <2>3 DEF Reply
    <3>2. ASSUME c.rooted, g # generation PROVE \E f, h \in calls[cl].seen : f # h
      BY <1>2, <2>2, <3>2
    <3> HIDE DEF k
    <3> QED BY <2>4, <3>1, <3>2 DEF Mixed
  <2>6. ~BySelf(k)
    BY <2>3, <2>4 DEF BySelf, Reply, Itself
  <2>7. Mixed(k) \/ Must(k, generation) \subseteq DaemonHits(generation, g, c)
    BY <1>1, <1>2, <1>3, <2>4, <2>5, <2>6, DaemonFinds DEF Must
  <2>8. DaemonHits(generation, g, c) \subseteq May(k, generation)
    BY <2>4, <2>6 DEF DaemonHits, May, Toplevel
  <2> HIDE DEF c, g, k
  <2>9. S \in Limited(DaemonHits(generation, g, c), IF FALSE THEN c.limit ELSE AtMost(c.limit))
        /\ k.out = Reply(IF FALSE THEN Itself ELSE 200, Rows(generation, c, S, FALSE))
    BY <2>3, <2>4
  <2> QED BY <1>1, <1>2, <1>3, <2>4, <2>7, <2>8, <2>9, LocateAnswer
<1>4. ASSUME c.kind = "command" PROVE \E h \in calls[cl].seen : reply.body = Providers(h, c.name)
  <2>1. reply = IF g = Nil THEN Refusal(503) ELSE Reply(200, Providers(g, c.name))
    BY <1>4 DEF Replies
  <2>2. g # Nil /\ reply.body = Providers(g, c.name)
    BY <2>1 DEF Accepted, Refusal, Reply
  <2> QED BY <1>2, <2>2
<1> QED BY <1>3, <1>4

(***************************************************************************)
(* A reply about metadata.                                                 *)
(***************************************************************************)
LEMMA MetadataAnswers ==
  ASSUME RequestsIInv, NEW cl \in Clients, calls[cl].pc = "handling", NEW reply \in Replies(calls[cl])
  PROVE  Described(Ended(cl, reply))
<1> DEFINE c == calls[cl].call
           g == calls[cl].snapshot
           k == Ended(cl, reply)
           q == QueryOf(c)
           db == Dir[g].meta
           found == Search(db, q)
<1>1. c \in Requests /\ c # Nil /\ g \in calls[cl].seen \cup {Nil} /\ calls[cl].seen \subseteq Generations
  BY DEF RequestsIInv, Sound, IsCall, Sees
<1>2. k.call = c /\ k.seen = calls[cl].seen /\ k.out = reply
  BY IsDone
<1>3. CASE c.kind \notin {"search", "info"}
  BY <1>3, NothingDescribed
<1>4. CASE reply \in {Refusal(400), Refusal(503)}
  <2>1. Refusal(400).status = 400 /\ Refusal(503).status = 503
    BY DEF Refusal, Reply
  <2>2. reply.status \notin {200, Itself, 404}
    BY <1>4, <2>1 DEF Itself
  <2> QED BY <2>2, NothingDescribed
<1>5. CASE c.kind \in {"search", "info"} /\ reply \notin {Refusal(400), Refusal(503)}
  <2>1. reply = MetadataReply(g, c)
    BY <1>5 DEF Replies
  <2>2. /\ PackageDb(g) # Nil
        /\ reply = LET f == Results[g][q]
                   IN IF c.kind = "search" THEN Reply(200, f)
                      ELSE IF f = <<>> THEN Refusal(404) ELSE Reply(200, Head(f))
    <3> HIDE DEF c, g, k, db, found
    <3> QED BY <1>5, <2>1 DEF MetadataReply, q
  <2>3. g # Nil /\ db # Nil
    BY <2>2 DEF PackageDb
  <2>4. g \in k.seen /\ g \in Generations
    BY <1>1, <1>2, <2>3
  <2>5. c \in Searches
    <3> HIDE DEF c
    <3> QED BY <1>1, <1>5 DEF Searches, Requests
  <2>6. Results[g][q] = found
    <3> DEFINE G == {h \in Generations : Dir[h].meta # Nil}
               Q == {QueryOf(d) : d \in Searches}
    <3>1. g \in G /\ q \in Q
      BY <2>3, <2>4, <2>5
    <3>2. Results = [h \in G |-> [p \in Q |-> Search(Dir[h].meta, p)]]
      BY Zenon DEF Results
    <3> HIDE DEF G, Q, q
    <3> QED BY <3>1, <3>2
  <2>7. Searchable(db, q)
    <3>1. IsQuery(q)
      BY <2>5, MetadataAssumption, Zenon
    <3>2. db \in Seq(Range(db)) /\ \A r \in Range(db) : IsRecord(r) /\ \A d \in Searches : IsScored(r, QueryOf(d))
      BY <2>3, <2>4, MetadataAssumption, Zenon
    <3> QED BY <2>5, <3>1, <3>2, Zenon DEF Searchable
  <2>8. Ranked(db, q, found) /\ found \in Seq(Range(db))
    BY <2>7, SearchIsRanked, Zenon
  <2>9. CASE c.kind = "search"
    <3>1. reply = Reply(200, found)
      BY <2>2, <2>6, <2>9
    <3> HIDE DEF k, found, q
    <3>2. k.out.body = found
      BY <1>2, <3>1 DEF Reply
    <3>3. QueryOf(k.call) = q
      BY <1>2 DEF q
    <3>4. SearchTrue(k)
      BY <2>3, <2>4, <2>8, <3>2, <3>3, Zenon DEF SearchTrue
    <3>5. Described(k)
      BY <1>2, <2>9, <3>4 DEF Described, Done
    <3> QED BY <3>5 DEF k
  <2>10. CASE c.kind = "info"
    <3>1. q = InfoQuery(c.attr)
      BY <2>10 DEF QueryOf
    <3>2. Hits(db, q) = {r \in Range(db) : r.attr = c.attr}
      <4> HIDE DEF q, db
      <4>1. Searchable(db, InfoQuery(c.attr))
        BY <2>7, <3>1
      <4>2. Hits(db, InfoQuery(c.attr)) = {r \in Range(db) : r.attr = c.attr}
        BY <4>1, InfoHits
      <4> QED BY <3>1, <4>2
    <3>3. reply = IF found = <<>> THEN Refusal(404) ELSE Reply(200, Head(found))
      BY <2>2, <2>6, <2>10
    <3>4. CASE found = <<>>
      <4>1. reply.status = 404
        BY <3>3, <3>4 DEF Refusal, Reply
      <4>2. Hits(db, q) = {}
        BY <2>7, <2>8, <3>1, <3>4, NothingFound, Zenon
      <4> HIDE DEF k, found, q, db
      <4>3. {r \in Range(db) : r.attr = k.call.attr} = {}
        BY <1>2, <3>2, <4>2
      <4>4. InfoTrue(k)
        BY <1>2, <2>3, <2>4, <4>1, <4>3, Zenon DEF InfoTrue, db
      <4>5. Described(k)
        BY <1>2, <2>10, <4>4 DEF Described, Done
      <4> QED BY <4>5 DEF k
    <3>5. CASE found # <<>>
      <4>1. reply.status = 200 /\ reply.body = Head(found)
        BY <3>3, <3>5 DEF Reply
      <4>2. Head(found) \in Range(found)
        <5> HIDE DEF found
        <5>1. 1 \in DOMAIN found /\ Head(found) = found[1]
          BY <2>8, <3>5
        <5> QED BY <5>1, Zenon DEF Range
      <4>3. Head(found) \in Hits(db, q)
        BY <2>8, <4>2, Zenon DEF Ranked
      <4> HIDE DEF k, found, q, db
      <4>4. k.out.body \in {r \in Range(db) : r.attr = k.call.attr}
        BY <1>2, <3>2, <4>1, <4>3
      <4>5. InfoTrue(k)
        <5>1. k.out.status # 404
          BY <1>2, <4>1
        <5> QED BY <2>3, <2>4, <4>4, <5>1, Zenon DEF InfoTrue, db
      <4>6. Described(k)
        BY <1>2, <2>10, <4>5 DEF Described, Done
      <4> QED BY <4>6 DEF k
    <3> QED BY <3>4, <3>5
  <2> QED BY <1>5, <2>9, <2>10
<1> QED BY <1>3, <1>4, <1>5

(***************************************************************************)
(* The steps of the world: what a server loads, and what replaces the      *)
(* index, is seen by every call that runs.                                 *)
(***************************************************************************)
ServersMove ==
  /\ servers' \in [Servers -> [pc : {"off", "up"}, http : {"unbound", "bound", "failed"},
                               token : BOOLEAN, snapshot : Generations \cup {Nil}]]
  /\ \A s \in Servers : servers'[s].snapshot \in {servers[s].snapshot, generation, Nil}
  /\ UNCHANGED world /\ failures' \in 0 .. MaxFailures

LEMMA StaysSound ==
  ASSUME NEW k, Sound(k), ServersMove PROVE Sound(k)'
<1>1. IsCall(k)' /\ Answered(k)'
  BY DEF Sound
<1>2. Sees(k) => Sees(k)'
  BY DEF Sees, ServersMove, world
<1> QED BY <1>1, <1>2 DEF Sound

LEMMA WorldMoves ==
  ASSUME RequestsIInv, ServersMove, UNCHANGED calls PROVE RequestsIInv'
<1>1. \A cl \in Clients : Sound(calls[cl])'
  BY StaysSound DEF RequestsIInv
<1> QED BY <1>1 DEF RequestsIInv, ServersMove, world

LEMMA ServerSteps ==
  ASSUME RequestsIInv, NEW s \in Servers, Server(s) PROVE RequestsIInv'
<1>1. CASE Bind(s)
  <2>1. ServersMove
    BY <1>1 DEF Bind, ServersMove, RequestsIInv
  <2> QED BY <1>1, <2>1, WorldMoves DEF Bind
<1>2. CASE LoadIndex(s)
  <2>1. ServersMove
    BY <1>2 DEF LoadIndex, ServersMove, RequestsIInv
  <2> QED BY <1>2, <2>1, WorldMoves DEF LoadIndex
<1>3. CASE Die(s)
  <2>1. ServersMove
    <3>1. Off \in [pc : {"off", "up"}, http : {"unbound", "bound", "failed"},
                   token : BOOLEAN, snapshot : Generations \cup {Nil}] /\ Off.snapshot = Nil
      BY DEF Off
    <3>2. failures' \in 0 .. MaxFailures
      BY <1>3, CallsAssumption DEF Die, RequestsIInv
    <3> QED BY <1>3, <3>1, <3>2 DEF Die, ServersMove, RequestsIInv
  <2>2. ASSUME NEW cl \in Clients PROVE Sound(calls'[cl])
    <3>1. Sound(calls[cl])
      BY DEF RequestsIInv
    <3>2. CASE calls[cl].server = s
      <4> DEFINE k == calls'[cl]
      <4>1. k = [pc |-> calls[cl].pc, call |-> calls[cl].call, server |-> Nil,
                 snapshot |-> calls[cl].snapshot, seen |-> calls[cl].seen, out |-> calls[cl].out]
        BY <1>3, <3>1, <3>2 DEF Die, Sound, IsCall
      <4> HIDE DEF k
      <4>2. IsCall(k) /\ (k.pc \notin {"idle", "done"} => k.call # Nil /\ Sees(k))
        BY <3>1, <4>1 DEF Sound, IsCall, Sees
      <4>3. Answered(k)
        <5>1. LocateTrue(calls[cl]) => LocateTrue(k)
          BY <4>1 DEF LocateTrue, CutOff, Limit, Mixed, Lines, May, Must, BySelf
        <5>2. CommandTrue(calls[cl]) => CommandTrue(k)
          BY <4>1 DEF CommandTrue
        <5>3. Described(calls[cl]) => Described(k)
          BY <4>1 DEF Described, Done, Good, SearchTrue, InfoTrue
        <5> QED BY <3>1, <4>1, <5>1, <5>2, <5>3 DEF Sound, Answered, Done
      <4>4. Sound(k)
        BY <3>1, <4>1, <4>2, <4>3 DEF Sound
      <4> QED BY <4>4 DEF k
    <3>3. CASE calls[cl].server # s
      BY <1>3, <3>1, <3>3 DEF Die
    <3> QED BY <3>2, <3>3
  <2>3. \A cl \in Clients : Sound(calls[cl])'
    BY <2>1, <2>2, StaysSound
  <2>4. calls' = [cl \in Clients |-> calls'[cl]]
    BY <1>3 DEF Die
  <2> QED BY <2>1, <2>3, <2>4 DEF RequestsIInv, ServersMove, world
<1> QED BY <1>1, <1>2, <1>3 DEF Server

LEMMA ReplaceSteps == RequestsIInv /\ Replace => RequestsIInv'
<1> SUFFICES ASSUME RequestsIInv, Replace PROVE RequestsIInv'
  OBVIOUS
<1>1. ASSUME NEW cl \in Clients PROVE Sound(calls[cl])'
  <2>1. Sound(calls[cl])
    BY DEF RequestsIInv
  <2>2. CASE calls[cl].pc \in {"idle", "done"}
    <3>1. calls'[cl] = calls[cl]
      BY <2>2 DEF Replace
    <3> QED BY <2>1, <2>2, <3>1 DEF Sound
  <2>3. CASE calls[cl].pc \notin {"idle", "done"}
    <3> DEFINE k == calls'[cl]
    <3>1. k = [pc |-> calls[cl].pc, call |-> calls[cl].call, server |-> calls[cl].server,
               snapshot |-> calls[cl].snapshot, seen |-> calls[cl].seen \cup {generation'},
               out |-> calls[cl].out]
      BY <2>1, <2>3 DEF Replace, Sound, IsCall
    <3> HIDE DEF k
    <3>2. IsCall(k) /\ Answered(k)
      BY <2>1, <2>3, <3>1 DEF Replace, Sound, IsCall, Answered, Described, Done
    <3>3. k.call # Nil /\ generation' \in k.seen
          /\ (\A s \in Servers : servers'[s].snapshot \in k.seen \cup {Nil})
          /\ (k.pc = "handling" => k.snapshot \in k.seen \cup {Nil})
      BY <2>1, <2>3, <3>1 DEF Replace, Sound, Sees
    <3>4. /\ IsCall(calls'[cl]) /\ Answered(calls'[cl])
          /\ calls'[cl].pc = "alone" => calls'[cl].call.kind \in {"nix-locate", "command"}
      BY <2>1, <3>1, <3>2 DEF k, Sound
    <3>5. calls'[cl].call # Nil /\ Sees(calls[cl])'
      BY <3>3 DEF k, Sees
    <3> QED BY <3>4, <3>5 DEF Sound
  <2> QED BY <2>2, <2>3
<1>2. installs' \in 0 .. MaxInstalls
  BY CallsAssumption DEF RequestsIInv, Replace
<1>3. calls' = [cl \in Clients |-> calls'[cl]]
  BY DEF Replace
<1> QED BY <1>1, <1>2, <1>3 DEF RequestsIInv, Replace

(***************************************************************************)
(* The steps of a client.                                                  *)
(***************************************************************************)
LEMMA StepGoes ==
  ASSUME RequestsIInv, NEW cl \in Clients, NEW from \in Places \ {"idle", "done"},
         NEW to \in {"ask", "poll"}, Step(cl, from, to)
  PROVE  \E k : Sound(k) /\ Moves(cl, k)
<1>1. Moves(cl, [calls[cl] EXCEPT !.pc = to])
  BY DEF Step, Moves, RequestsIInv
<1>2. Sound([calls[cl] EXCEPT !.pc = to])
  BY GoesOn DEF Step, Places
<1> QED BY <1>1, <1>2

LEMMA Stays ==
  ASSUME RequestsIInv, NEW cl \in Clients, UNCHANGED <<world, servers>>,
         failures' \in 0 .. MaxFailures, \E k : Sound(k) /\ Moves(cl, k)
  PROVE  RequestsIInv'
<1>1. PICK k : Sound(k) /\ Moves(cl, k)
  OBVIOUS
<1> QED BY <1>1, CallMoves

LEMMA BeginSteps ==
  ASSUME RequestsIInv, NEW cl \in Clients, BeginCall(cl) PROVE RequestsIInv'
<1> DEFINE c == calls[cl].call
           to == IF c.kind # "nix-locate" THEN "ask" ELSE IF c.daemon THEN "probe" ELSE "alone"
           seen == {generation} \cup ({servers[s].snapshot : s \in Servers} \ {Nil})
           k == [calls[cl] EXCEPT !.pc = to, !.seen = seen]
<1>1. Sound(calls[cl]) /\ c # Nil
  BY DEF BeginCall, RequestsIInv
<1>2. Moves(cl, k)
  BY DEF BeginCall, Moves, RequestsIInv
<1>3. k = [pc |-> to, call |-> c, server |-> calls[cl].server,
           snapshot |-> calls[cl].snapshot, seen |-> seen, out |-> calls[cl].out]
  <2> HIDE DEF to, seen, c
  <2>1. IsCall(calls[cl])
    BY <1>1 DEF Sound
  <2> QED BY <2>1, CallUpdates DEF c
<1>4. to \in {"ask", "probe", "alone"} /\ seen \subseteq Generations
  BY DEF RequestsIInv
<1>5. generation \in seen /\ \A s \in Servers : servers[s].snapshot \in seen \cup {Nil}
  OBVIOUS
<1> HIDE DEF to, seen, c, k
<1>6. IsCall(k) /\ Answered(k)
  BY <1>1, <1>3, <1>4 DEF Sound, IsCall, Places, Answered, Described, Done, c
<1>a. k.pc = "alone" => k.call.kind \in {"nix-locate", "command"}
  BY <1>3 DEF to
<1>7. k.call # Nil /\ Sees(k)
  BY <1>1, <1>3, <1>4, <1>5 DEF Sees
<1>8. UNCHANGED <<world, servers>> /\ failures' \in 0 .. MaxFailures
  BY DEF BeginCall, RequestsIInv
<1> QED BY <1>2, <1>6, <1>7, <1>8, <1>a, CallMoves DEF Sound

LEMMA SpawnSteps ==
  ASSUME RequestsIInv, NEW cl \in Clients, Spawn(cl) PROVE RequestsIInv'
<1>1. ServersMove
  <2>1. \/ UNCHANGED servers
        \/ \E s : servers' = [servers EXCEPT ![s].pc = "up"]
    BY DEF Spawn
  <2>2. CASE UNCHANGED servers
    BY <2>2 DEF Spawn, ServersMove, RequestsIInv
  <2>3. ASSUME NEW s, servers' = [servers EXCEPT ![s].pc = "up"] PROVE ServersMove
    <3>1. UNCHANGED world /\ failures' \in 0 .. MaxFailures
      BY DEF Spawn, RequestsIInv
    <3> QED BY <2>3, <3>1 DEF ServersMove, RequestsIInv
  <2> QED BY <2>1, <2>2, <2>3
<1>2. Step(cl, "probe", "poll")
  BY DEF Spawn
<1>3. PICK k : Sound(k) /\ Moves(cl, k)
  BY <1>2, StepGoes DEF Places
<1>4. ASSUME NEW other \in Clients PROVE Sound(calls'[other])
  BY <1>3 DEF Moves, RequestsIInv
<1>5. \A other \in Clients : Sound(calls[other])'
  BY <1>1, <1>4, StaysSound
<1>6. calls' = [other \in Clients |-> calls'[other]]
  BY <1>3 DEF Moves, RequestsIInv
<1> QED BY <1>1, <1>5, <1>6 DEF RequestsIInv, ServersMove, world

(***************************************************************************)
(* A request that is sent has a server, and one that is received has the   *)
(* snapshot of its server.                                                 *)
(***************************************************************************)
LEMMA AskSteps ==
  ASSUME RequestsIInv, NEW cl \in Clients, Ask(cl) PROVE \E k : Sound(k) /\ Moves(cl, k)
<1>1. Sound(calls[cl]) /\ calls[cl].pc = "ask"
  BY DEF Ask, RequestsIInv
<1>2. CASE Serving = {}
  <2>1. Conclude(cl, Nil) /\ ~Accepted(Nil)
    BY <1>2 DEF Ask, Accepted
  <2>2. Described(Ended(cl, Nil))
    BY NothingDescribed
  <2> QED BY <1>1, <2>1, <2>2, Concluding
<1>3. CASE Serving # {}
  <2>1. PICK s \in Serving : calls' = [calls EXCEPT ![cl].pc = "sent", ![cl].server = s]
    BY <1>3 DEF Ask
  <2> DEFINE k == [calls[cl] EXCEPT !.pc = "sent", !.server = s]
  <2>2. Moves(cl, k)
    BY <2>1 DEF Moves, RequestsIInv
  <2>3. k = [pc |-> "sent", call |-> calls[cl].call, server |-> s,
             snapshot |-> calls[cl].snapshot, seen |-> calls[cl].seen, out |-> calls[cl].out]
    <3>1. IsCall(calls[cl])
      BY <1>1 DEF Sound
    <3> QED BY <3>1, CallUpdates
  <2> HIDE DEF k
  <2>4. IsCall(k) /\ Answered(k)
    BY <1>1, <2>3 DEF Sound, IsCall, Places, Answered, Described, Done, Serving
  <2>5. k.call # Nil /\ Sees(k)
    BY <1>1, <2>3 DEF Sound, Sees
  <2> QED BY <2>2, <2>3, <2>4, <2>5 DEF Sound
<1> QED BY <1>2, <1>3

LEMMA ReceiveSteps ==
  ASSUME RequestsIInv, NEW cl \in Clients, Receive(cl) PROVE \E k : Sound(k) /\ Moves(cl, k)
<1> DEFINE s == calls[cl].server
<1>1. Sound(calls[cl]) /\ calls[cl].pc = "sent"
  BY DEF Receive, RequestsIInv
<1>2. CASE ~Authorized(s, calls[cl].call)
  <2>1. Conclude(cl, Refusal(401))
    BY <1>2 DEF Receive
  <2>2. ~Accepted(Refusal(401)) /\ Refusal(401).status \notin {200, Itself, 404}
    BY DEF Accepted, Refusal, Reply, Itself
  <2>3. Described(Ended(cl, Refusal(401)))
    BY <2>2, NothingDescribed
  <2> QED BY <1>1, <2>1, <2>2, <2>3, Concluding
<1>3. CASE Authorized(s, calls[cl].call)
  <2> DEFINE g == servers[s].snapshot
             k == [calls[cl] EXCEPT !.pc = "handling", !.snapshot = g]
  <2>1. Moves(cl, k)
    BY <1>3 DEF Receive, Moves, RequestsIInv
  <2>2. k = [pc |-> "handling", call |-> calls[cl].call, server |-> s,
             snapshot |-> g, seen |-> calls[cl].seen, out |-> calls[cl].out]
    <3>1. IsCall(calls[cl])
      BY <1>1 DEF Sound
    <3> HIDE DEF g
    <3> QED BY <3>1, CallUpdates
  <2>3. g \in calls[cl].seen \cup {Nil} /\ s \in Servers \cup {Nil}
    BY <1>1 DEF Receive, Served, Sound, IsCall, Sees
  <2> HIDE DEF k, g, s
  <2>4. IsCall(k) /\ Answered(k)
    BY <1>1, <2>2, <2>3 DEF Sound, IsCall, Places, Answered, Described, Done
  <2>5. k.call # Nil /\ Sees(k)
    BY <1>1, <2>2, <2>3 DEF Sound, Sees
  <2> QED BY <2>1, <2>2, <2>4, <2>5 DEF Sound
<1> QED BY <1>2, <1>3

LEMMA HandleSteps ==
  ASSUME RequestsIInv, NEW cl \in Clients, Handle(cl) PROVE \E k : Sound(k) /\ Moves(cl, k)
<1>1. PICK reply \in Replies(calls[cl]) : Conclude(cl, reply)
  BY DEF Handle
<1>2. calls[cl].pc = "handling"
  BY DEF Handle
<1>3. Described(Ended(cl, reply))
  BY <1>1, <1>2, MetadataAnswers
<1> QED BY <1>1, <1>2, <1>3, HandlerAnswers, Concluding

LEMMA NoAnswerSteps ==
  ASSUME RequestsIInv, NEW cl \in Clients, Lost(cl) \/ TimeOut(cl)
  PROVE  \E k : Sound(k) /\ Moves(cl, k)
<1>1. Conclude(cl, Nil) /\ ~Accepted(Nil) /\ calls[cl].pc \notin {"idle", "done"}
  BY DEF Lost, TimeOut, Accepted
<1>2. Described(Ended(cl, Nil))
  BY NothingDescribed
<1> QED BY <1>1, <1>2, Concluding

LEMMA AloneSteps ==
  ASSUME RequestsIInv, NEW cl \in Clients, Alone(cl) PROVE \E k : Sound(k) /\ Moves(cl, k)
<1> DEFINE c == calls[cl].call
<1>1. Sound(calls[cl]) /\ calls[cl].pc = "alone" /\ generation \in Generations
  BY DEF Alone, RequestsIInv
<1>2. c \in Requests /\ c # Nil /\ generation \in calls[cl].seen
  BY <1>1 DEF Sound, IsCall, Sees
<1>3. CASE c.kind = "command"
  <2>1. PICK o \in Outcomes(FoundAlone(generation, c.name), c.mode) : Ends(cl, o)
    BY <1>3 DEF Alone
  <2>2. \/ FoundAlone(generation, c.name)
             \in {Providers(generation, c.name), Scanned(generation, c.name)}
        \/ FoundAlone(generation, c.name) = {} /\ Dir[generation].command = "unreadable"
    BY <1>1, DirectoryAssumption DEF FoundAlone
  <2>3. CommandTrue(Ended(cl, o))
    <3> DEFINE k == Ended(cl, o)
    <3>1. k.call = c /\ k.seen = calls[cl].seen /\ k.out = o
      BY IsDone
    <3> HIDE DEF c, k
    <3>2. CommandTrue(k)
      BY <1>1, <1>2, <2>1, <2>2, <3>1, CommandAnswer
    <3> QED BY <3>2 DEF k
  <2>4. Answered(Ended(cl, o))
    <3>1. Described(Ended(cl, o))
      BY <1>3, NothingDescribed
    <3> QED BY <1>3, <2>3, <3>1, IsDone DEF Answered, Done
  <2> QED BY <2>1, <2>4, IsDone
<1>4. CASE c.kind # "command"
  <2>1. PICK S \in Limited(LocalHits(generation, c), c.limit) :
          Ends(cl, Reply(Itself, Rows(generation, c, S, TRUE)))
    BY <1>4 DEF Alone
  <2> DEFINE out == Reply(Itself, Rows(generation, c, S, TRUE))
             k == Ended(cl, out)
  <2>2. k.call = c /\ k.seen = calls[cl].seen /\ k.out = out
    <3> HIDE DEF out
    <3> QED BY IsDone
  <2>3. ASSUME c.kind = "nix-locate" PROVE LocateTrue(k)
    <3>1. BySelf(k)
      BY <2>2 DEF BySelf, Reply
    <3>2. LocalHits(generation, c) = May(k, generation) /\ May(k, generation) = Must(k, generation)
      BY <2>2, <3>1, AloneFinds DEF May, Must
    <3>3. S \in Limited(LocalHits(generation, c), IF TRUE THEN c.limit ELSE AtMost(c.limit))
          /\ k.out = Reply(IF TRUE THEN Itself ELSE 200, Rows(generation, c, S, TRUE))
      BY <2>2
    <3> HIDE DEF c, k, out
    <3> QED BY <1>1, <1>2, <2>2, <2>3, <3>1, <3>2, <3>3, LocateAnswer
  <2>4. Answered(k)
    <3>1. c.kind = "nix-locate"
      BY <1>1, <1>4 DEF Sound
    <3>2. Described(k)
      BY <3>1, NothingDescribed
    <3> QED BY <1>4, <2>2, <2>3, <3>2 DEF Answered, Done
  <2> QED BY <2>1, <2>4, IsDone
<1> QED BY <1>3, <1>4

LEMMA ClientSteps ==
  ASSUME RequestsIInv, NEW cl \in Clients, Client(cl) PROVE RequestsIInv'
<1>1. failures' \in 0 .. MaxFailures
  <2>1. CASE SpawnFails(cl)
    BY <2>1, CallsAssumption DEF RequestsIInv, SpawnFails
  <2>2. CASE ~SpawnFails(cl)
    <3>1. UNCHANGED failures
      BY <2>2 DEF Client, BeginCall, Probe, Spawn, Poll, Deadline, Ask, Receive, Handle, Lost,
           TimeOut, Alone
    <3> QED BY <3>1 DEF RequestsIInv
  <2> QED BY <2>1, <2>2
<1>2. CASE BeginCall(cl)
  BY <1>2, BeginSteps
<1>3. CASE Spawn(cl)
  BY <1>3, SpawnSteps
<1>4. CASE Probe(cl) \/ SpawnFails(cl) \/ Poll(cl) \/ Deadline(cl)
  <2>1. UNCHANGED <<world, servers>>
    BY <1>4 DEF Probe, SpawnFails, Poll, Deadline
  <2>2. \E from \in {"probe", "poll"}, to \in {"ask", "poll"} : Step(cl, from, to)
    BY <1>4 DEF Probe, SpawnFails, Poll, Deadline
  <2>3. \E k : Sound(k) /\ Moves(cl, k)
    BY <2>2, StepGoes DEF Places
  <2> QED BY <1>1, <2>1, <2>3, Stays
<1>5. CASE Ask(cl) \/ Receive(cl) \/ Handle(cl) \/ Lost(cl) \/ TimeOut(cl) \/ Alone(cl)
  <2>1. UNCHANGED <<world, servers>>
    BY <1>5 DEF Ask, Receive, Handle, Lost, TimeOut, Alone
  <2>2. \E k : Sound(k) /\ Moves(cl, k)
    BY <1>5, AskSteps, ReceiveSteps, HandleSteps, NoAnswerSteps, AloneSteps
  <2> QED BY <1>1, <2>1, <2>2, Stays
<1> QED BY <1>2, <1>3, <1>4, <1>5 DEF Client

(***************************************************************************)
(* The inductive invariant of the requests.                                *)
(***************************************************************************)
THEOREM CallsAreSound == RequestsSpec => []RequestsIInv
<1>1. RequestsIInv /\ [RequestsNext]_requestVars => RequestsIInv'
  <2> SUFFICES ASSUME RequestsIInv, [RequestsNext]_requestVars PROVE RequestsIInv'
    OBVIOUS
  <2>1. CASE UNCHANGED requestVars
    <3>1. \A k : Sound(k)' <=> Sound(k)
      BY <2>1 DEF requestVars, Sound, Sees
    <3> QED BY <2>1, <3>1 DEF requestVars, RequestsIInv
  <2>2. CASE RequestsNext
    BY <2>2, ReplaceSteps, ServerSteps, ClientSteps DEF RequestsNext
  <2> QED BY <2>1, <2>2
<1> QED BY <1>1, CallsBegin, PTL DEF RequestsSpec

(***************************************************************************)
(* However requests, replacements of the index, loads and deaths           *)
(* interleave, what nix-locate shows and what a command lookup says and    *)
(* runs is true of one index that was there during the call.               *)
(***************************************************************************)
THEOREM AnswersAreTrue == RequestsSpec => []AnswersTrue
<1>1. RequestsIInv => AnswersTrue
  <2> SUFFICES ASSUME RequestsIInv PROVE AnswersTrue
    OBVIOUS
  <2>1. RequestsTypeOK
    BY DEF RequestsIInv, RequestsTypeOK, Sound, IsCall, Places
  <2> QED BY <2>1 DEF RequestsIInv, Sound, Answered, AnswersTrue
<1> QED BY <1>1, CallsAreSound, PTL

(***************************************************************************)
(* However requests, replacements of the index, loads and deaths           *)
(* interleave, a search of the metadata finds the records that match, the  *)
(* best first, and no more than its limit, and a package that is asked for *)
(* by name is found if there is one: all of one index that was there       *)
(* during the call.                                                        *)
(***************************************************************************)
THEOREM SearchesAreTrue == RequestsSpec => []MetadataTrue
<1>1. RequestsIInv => MetadataTrue
  BY DEF RequestsIInv, Sound, Answered, Described, MetadataTrue
<1> QED BY <1>1, CallsAreSound, PTL
=============================================================================
