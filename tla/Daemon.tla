------------------------------- MODULE Daemon -------------------------------
(***************************************************************************)
(* nixdex-daemon: a loop that waits for a tick of its timer, a signal or a *)
(* POST /reload, refreshes, and puts a new snapshot of the index in place  *)
(* of the old one for the HTTP handlers.  In local mode a refresh opens    *)
(* the files of one directory, which `nixdex index` may be rebuilding in   *)
(* place meanwhile.  In prebuilt mode it first downloads what the server   *)
(* publishes into a directory named after the entity tag, and points the   *)
(* link `current` at it.  The daemon may crash anywhere and is restarted.  *)
(*                                                                         *)
(* An index is a number; a file holds the index it was made from.  The     *)
(* download is what SegmentedDownload shows of one without leftovers: one  *)
(* whole index published while it ran.                                     *)
(***************************************************************************)
EXTENDS Naturals, Sequences

CONSTANTS Missing,      \* no such file
          Cut,          \* a file that is being written, or was left half written
          None,         \* no directory, no snapshot, no tag
          MaxPublished, \* bound: releases
          MaxBuilds,    \* bound: local builds
          MaxFaults     \* bound: failed requests, crashes, builds that died

ASSUME BoundsAssumption ==
  /\ MaxPublished \in Nat \ {0} /\ MaxBuilds \in Nat /\ MaxFaults \in Nat
  /\ Missing \notin Nat /\ Cut \notin Nat /\ Missing # Cut

VARIABLES
  mode, tagged, \* configuration: the mode, and whether the server sends tags
  published,    \* the newest release
  dirs,         \* the directories with an index
  link, tmp,    \* `current` and `current.tmp`
  pc,           \* the loop of the daemon
  job,          \* the directory a refresh works on and the index it has got
  opened,       \* what load_and_store_index has opened so far
  snapshot,     \* IndexState.index
  reload,       \* messages in the reload channel
  heard,        \* signals the listeners of this wait have received
  asked,        \* history: /reload was posted and no refresh has begun since
  builder,      \* `nixdex index`: the next file it writes, or none
  builds, faults

config == <<mode, tagged>>
disk   == <<dirs, link, tmp>>
bounds == <<builds, faults>>
vars   == <<config, published, disk, pc, job, opened, snapshot, reload, heard, asked,
            builder, bounds>>

(***************************************************************************)
(* The directories of the cache are named by a digest of the tag, or       *)
(* "unknown"; the local directory has the name it was given.               *)
(***************************************************************************)
Unknown == <<"unknown", 0>>
Local   == <<"local", 0>>
CacheDir(tag) == IF tag = None THEN Unknown ELSE <<"sha256", tag[2]>>
Tag == IF tagged THEN <<"etag", published>> ELSE None

Dirs == {<<"sha256", n>> : n \in 1 .. MaxPublished} \cup {Unknown, Local}

ASSUME NoneAssumption ==
  None \notin Dirs /\ \A n \in 1 .. MaxPublished : None # <<"etag", n>>

Parts == {"files", "sidecars", "packages", "command", "hashes"}
Empty == [p \in Parts |-> Missing]

Idle == [dir |-> None, of |-> 0, next |-> 1]

Generated == <<"sidecars", "packages", "hashes">>
Built     == <<"packages", "files", "sidecars", "command">>
OpenOrder == <<"sidecars", "command", "files", "packages">>

Init ==
  /\ mode \in {"local", "prebuilt"}
  /\ tagged \in (IF mode = "local" THEN {TRUE} ELSE BOOLEAN)
  /\ published = 1
  /\ \E copied \in (IF mode = "local" THEN BOOLEAN ELSE {FALSE}) :
       dirs = [d \in Dirs |-> IF copied /\ d = Local THEN [Empty EXCEPT !["files"] = 0] ELSE Empty]
  /\ link = None /\ tmp = None
  /\ pc = (IF mode = "local" THEN "load" ELSE "select")
  /\ job = Idle /\ opened = <<>> /\ snapshot = None
  /\ reload = 0 /\ heard = {} /\ asked = FALSE
  /\ builder = 0 /\ builds = 0 /\ faults = 0

----------------------------------------------------------------------------
(***************************************************************************)
(* The loop.  A branch of the select! that is taken drops the others, and  *)
(* with them the listeners of this wait and what they have heard.          *)
(***************************************************************************)
Begin ==
  /\ pc = "select"
  /\ pc' = IF mode = "local" THEN "load" ELSE "check"
  /\ heard' = {} /\ asked' = FALSE
  /\ UNCHANGED <<config, published, disk, job, opened, snapshot, builder, bounds>>

Tick == Begin /\ UNCHANGED reload
TakeReload == reload > 0 /\ Begin /\ reload' = reload - 1
TakeHangup == "HUP" \in heard /\ Begin /\ UNCHANGED reload

TakeTerminate ==
  /\ pc = "select" /\ "TERM" \in heard
  /\ pc' = "stopped" /\ heard' = {}
  /\ UNCHANGED <<config, published, disk, job, opened, snapshot, reload, asked, builder, bounds>>

(***************************************************************************)
(* The end of a refresh, good or bad.  One that failed before there was    *)
(* something to load only logs it.  The mutants take what is left in the   *)
(* channel for stale, and load what is there whatever happened.            *)
(***************************************************************************)
WaitDraining == pc' = "select" /\ job' = Idle /\ opened' = <<>> /\ reload' = 0
Wait == pc' = "select" /\ job' = Idle /\ opened' = <<>> /\ UNCHANGED reload

FailedLoading == pc' = "load" /\ job' = Idle /\ opened' = <<>> /\ UNCHANGED reload
Failed == Wait

(***************************************************************************)
(* The environment of the loop.  Signals have listeners only while it      *)
(* waits; /reload is answered at any time, by a try_send into one slot.    *)
(***************************************************************************)
Signal(s) ==
  /\ pc # "stopped"
  /\ heard' = IF pc = "select" THEN heard \cup {s} ELSE heard
  /\ UNCHANGED <<config, published, disk, pc, job, opened, snapshot, reload, asked, builder, bounds>>

Slot == reload' = 1

PostReload ==
  /\ pc # "stopped"
  /\ Slot
  /\ asked' = TRUE
  /\ UNCHANGED <<config, published, disk, pc, job, opened, snapshot, heard, builder, bounds>>

Publish ==
  /\ mode = "prebuilt" /\ published < MaxPublished
  /\ published' = published + 1
  /\ UNCHANGED <<config, disk, pc, job, opened, snapshot, reload, heard, asked, builder, bounds>>

Fault == faults < MaxFaults /\ faults' = faults + 1

(***************************************************************************)
(* What an interrupted write leaves; hashes without a header are none.     *)
(***************************************************************************)
Interrupted ==
  {dirs} \cup
  (IF pc # "write" THEN {}
   ELSE {[dirs EXCEPT ![job.dir][Generated[job.next]] = c] :
           c \in {Cut} \cup (IF Generated[job.next] = "hashes" THEN {Missing} ELSE {})})

Crash ==
  /\ pc # "stopped" /\ Fault
  /\ pc' = IF mode = "local" THEN "load" ELSE "select"
  /\ dirs' \in Interrupted
  /\ job' = Idle /\ opened' = <<>> /\ snapshot' = None
  /\ reload' = 0 /\ heard' = {} /\ asked' = FALSE
  /\ UNCHANGED <<config, published, link, tmp, builder, builds>>

----------------------------------------------------------------------------
Goes(from, to) ==
  /\ pc = from /\ pc' = to
  /\ UNCHANGED <<config, published, opened, snapshot, reload, heard, asked, builder, bounds>>

(***************************************************************************)
(* refresh_prebuilt and download_and_validate, each with its own HEAD.     *)
(* The name of the directory is compared with the tag itself, of which it  *)
(* is a digest.                                                            *)
(***************************************************************************)
ShouldDownload(current, remote) ==
  current = None \/ (remote # None /\ current # remote)

Check ==
  /\ Goes("check", IF ShouldDownload(link, Tag) THEN "head" ELSE "load")
  /\ UNCHANGED <<disk, job>>

HeadAgain ==
  /\ Goes("head", "download")
  /\ job' = [job EXCEPT !.dir = CacheDir(Tag)]
  /\ UNCHANGED disk

Download ==
  /\ Goes("download", "install")
  /\ job' = [job EXCEPT !.of = published]
  /\ UNCHANGED disk

Install ==
  /\ Goes("install", "generate")
  /\ dirs' = [dirs EXCEPT ![job.dir]["files"] = job.of]
  /\ UNCHANGED <<link, tmp, job>>

RequestFails ==
  /\ pc \in {"check", "head", "download"} /\ Fault
  /\ Failed
  /\ UNCHANGED <<config, published, disk, snapshot, heard, asked, builder, builds>>

(***************************************************************************)
(* generate_sidecars, after a download or, in local mode, before a load    *)
(* that finds no packages.json (IndexDirectory has the details).  Hashes   *)
(* or `files` that are cut are an error.                                   *)
(***************************************************************************)
Target == dirs[job.dir]
AfterGenerate == IF mode = "local" THEN "open" ELSE "link"
UpToDate ==
  Target["hashes"] = Target["files"] /\ Missing \notin {Target["sidecars"], Target["packages"]}

Generate ==
  /\ pc = "generate" /\ Cut \notin {Target["files"], Target["hashes"]}
  /\ Goes("generate", IF UpToDate THEN AfterGenerate ELSE "write")
  /\ job' = [job EXCEPT !.of = Target["files"]]
  /\ UNCHANGED disk

GenerateFails ==
  /\ pc = "generate" /\ Cut \in {Target["files"], Target["hashes"]}
  /\ Failed
  /\ UNCHANGED <<config, published, disk, snapshot, heard, asked, builder, bounds>>

Write ==
  /\ Goes("write", IF job.next = Len(Generated) THEN AfterGenerate ELSE "write")
  /\ dirs' = [dirs EXCEPT ![job.dir][Generated[job.next]] = job.of]
  /\ job' = [job EXCEPT !.next = @ + 1]
  /\ UNCHANGED <<link, tmp>>

WriteFails ==
  /\ pc = "write" /\ Fault
  /\ dirs' \in Interrupted
  /\ Failed
  /\ UNCHANGED <<config, published, link, tmp, snapshot, heard, asked, builder, builds>>

(***************************************************************************)
(* update_current_symlink: a `current.tmp` that a crash has left is        *)
(* removed first.  The mutant fails over it.                               *)
(***************************************************************************)
SymlinkOver ==
  /\ pc = "link" /\ tmp = None
  /\ Goes("link", "rename") /\ tmp' = job.dir
  /\ UNCHANGED <<dirs, link, job>>
Symlink ==
  /\ Goes("link", "rename")
  /\ tmp' = job.dir
  /\ UNCHANGED <<dirs, link, job>>

Rename ==
  /\ Goes("rename", "load")
  /\ link' = tmp /\ tmp' = None
  /\ UNCHANGED <<dirs, job>>

----------------------------------------------------------------------------
(***************************************************************************)
(* load_and_store_index: one file after the other, whoever writes them     *)
(* meanwhile.  A file that is cut may open or not; without packages.json   *)
(* there is a snapshot all the same, without any of the others there is    *)
(* none, and the old one stays.                                            *)
(***************************************************************************)
IndexDir == IF mode = "local" THEN Local ELSE link

Load ==
  /\ pc = "load" /\ dirs[IndexDir]["files"] # Missing
  /\ Goes("load", IF dirs[IndexDir]["packages"] = Missing THEN "generate" ELSE "open")
  /\ job' = [Idle EXCEPT !.dir = IndexDir]
  /\ UNCHANGED disk

LoadFails ==
  /\ pc = "load" /\ dirs[IndexDir]["files"] = Missing
  /\ Wait
  /\ UNCHANGED <<config, published, disk, snapshot, heard, asked, builder, bounds>>

Wanted == OpenOrder[Len(opened) + 1]
Found == Target[Wanted]

Open ==
  /\ pc = "open" /\ Wanted # "packages" /\ Found # Missing
  /\ opened' = Append(opened, Found)
  /\ UNCHANGED <<config, published, disk, pc, job, snapshot, reload, heard, asked, builder, bounds>>

OpenFails ==
  /\ pc = "open" /\ Wanted # "packages" /\ Found \in {Missing, Cut}
  /\ Wait
  /\ UNCHANGED <<config, published, disk, snapshot, heard, asked, builder, bounds>>

StoreFirst(new) == snapshot' = IF snapshot = None THEN new ELSE snapshot
Store(new) == snapshot' = new

OpenPackages ==
  /\ pc = "open" /\ Wanted = "packages"
  /\ \E content \in {Found} \cup (IF Found = Cut THEN {Missing} ELSE {}) :
       Store(Append(opened, content))
  /\ Wait
  /\ UNCHANGED <<config, published, disk, heard, asked, builder, bounds>>

----------------------------------------------------------------------------
(***************************************************************************)
(* A build of the local directory (IndexWriter and IndexDirectory have the *)
(* details): `files` and packages.json are truncated at the start, every   *)
(* other file when its turn comes.                                         *)
(***************************************************************************)
Rebuilds(next) ==
  /\ builder' = next
  /\ UNCHANGED <<config, published, link, tmp, pc, job, opened, snapshot, reload, heard, asked>>

BuildStart ==
  /\ mode = "local" /\ builder = 0 /\ builds < MaxBuilds
  /\ builds' = builds + 1
  /\ dirs' = [dirs EXCEPT ![Local]["files"] = Cut, ![Local]["packages"] = Cut]
  /\ Rebuilds(1) /\ UNCHANGED faults

BuildWrite ==
  /\ builder > 0
  /\ LET part == Built[builder]
     IN \/ /\ dirs[Local][part] # Cut
           /\ dirs' = [dirs EXCEPT ![Local][part] = Cut]
           /\ Rebuilds(builder)
        \/ /\ dirs[Local][part] = Cut
           /\ dirs' = [dirs EXCEPT ![Local][part] = builds]
           /\ Rebuilds(IF builder = Len(Built) THEN 0 ELSE builder + 1)
  /\ UNCHANGED <<builds, faults>>

BuildDies ==
  /\ builder > 0 /\ Fault
  /\ Rebuilds(0) /\ UNCHANGED <<dirs, builds>>

----------------------------------------------------------------------------
Refresh ==
  \/ Check \/ HeadAgain \/ Download \/ Install
  \/ Generate \/ GenerateFails \/ Write \/ Symlink \/ Rename
  \/ Load \/ LoadFails \/ Open \/ OpenFails \/ OpenPackages

Loop == Tick \/ TakeReload \/ TakeHangup \/ TakeTerminate

Next ==
  \/ Loop \/ Refresh \/ RequestFails \/ WriteFails \/ Crash
  \/ PostReload \/ (\E s \in {"HUP", "TERM"} : Signal(s))
  \/ Publish \/ BuildStart \/ BuildWrite \/ BuildDies

(***************************************************************************)
(* The timer ticks, and a refresh that was begun goes on to its end.       *)
(***************************************************************************)
Spec == Init /\ [][Next]_vars /\ WF_vars(Loop) /\ WF_vars(Refresh)

----------------------------------------------------------------------------
Content == 0 .. (MaxPublished + MaxBuilds) \cup {Missing, Cut}

TypeOK ==
  /\ mode \in {"local", "prebuilt"} /\ tagged \in BOOLEAN
  /\ published \in 1 .. MaxPublished
  /\ dirs \in [Dirs -> [Parts -> Content]]
  /\ link \in Dirs \cup {None} /\ tmp \in Dirs \cup {None}
  /\ pc \in {"select", "check", "head", "download", "install", "generate", "write", "link",
             "rename", "load", "open", "stopped"}
  /\ job \in [dir : Dirs \cup {None}, of : Content, next : 1 .. 4]
  /\ Len(opened) < Len(OpenOrder)
  /\ reload \in {0, 1} /\ heard \subseteq {"HUP", "TERM"} /\ asked \in BOOLEAN
  /\ builder \in 0 .. Len(Built)
  /\ builds \in 0 .. MaxBuilds /\ faults \in 0 .. MaxFaults

(***************************************************************************)
(* "A POST /reload triggers an immediate refresh": one that was posted at  *)
(* any moment, answered true or false, and not yet followed by the start   *)
(* of a refresh, is still in the channel, so that the next turn of the     *)
(* loop need not wait for the timer.  And every variable has its type: the *)
(* channel holds one request, however many were posted.                    *)
(***************************************************************************)
ReloadKept == TypeOK /\ (asked => reload = 1)

(***************************************************************************)
(* In prebuilt mode what is loaded is one published index with all its     *)
(* sidecars, whichever crashes, failures and releases came before: the     *)
(* directory `current` points at may be torn, but nothing is loaded then.  *)
(***************************************************************************)
Whole(d) ==
  /\ dirs[d]["files"] \in 1 .. published
  /\ \A p \in {"sidecars", "packages", "hashes"} : dirs[d][p] = dirs[d]["files"]

LoadsWhole == mode = "prebuilt" /\ pc \in {"load", "open"} => link # None /\ Whole(link)

(***************************************************************************)
(* Once the server publishes nothing new, `current` comes to point at the  *)
(* whole of the newest release, unless hashes were cut in its directory,   *)
(* which no later refresh gets over, or the server sends no tags.          *)
(***************************************************************************)
CurrentFollows ==
  <>[](mode = "prebuilt" /\ tagged =>
         \/ pc = "stopped"
         \/ dirs[CacheDir(Tag)]["hashes"] = Cut
         \/ link # None /\ Whole(link) /\ dirs[link]["files"] = published)

(***************************************************************************)
(* Once a local build has finished and none follows, its index is served,  *)
(* whatever half of it a reload met before, unless a regeneration of the   *)
(* daemon has overwritten a part of it.                                    *)
(***************************************************************************)
Settled ==
  /\ dirs[Local]["files"] \in Nat
  /\ \A p \in Parts \ {"hashes"} : dirs[Local][p] = dirs[Local]["files"]

LocalServed ==
  <>[](mode = "local" /\ pc # "stopped" /\ Settled =>
         snapshot = [i \in DOMAIN OpenOrder |-> dirs[Local][OpenOrder[i]]])
=============================================================================
