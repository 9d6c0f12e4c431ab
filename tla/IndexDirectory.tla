--------------------------- MODULE IndexDirectory ---------------------------
(***************************************************************************)
(* The directory of an index: `files` and the sidecars beside it.  A build *)
(* writes `files` and some sidecars in place; an update renames a          *)
(* downloaded `files` over the old one and regenerates; generate_sidecars  *)
(* compares the hashes of the frames with those of its last run, and       *)
(* rebuilds in place whatever does not depend on evaluation.  Nothing is   *)
(* locked, nothing but `files` of an update is renamed, and any of them    *)
(* may die between two writes or in the middle of one.                     *)
(*                                                                         *)
(* The content of a file is the index (generation) it was made from.  The  *)
(* files of one sidecar (map, postings, names) are written one after the   *)
(* other and count as one.                                                 *)
(***************************************************************************)
EXTENDS Naturals, Sequences

CONSTANTS Releases,  \* the indexes that can be downloaded
          Locals,    \* and those that are built here
          Version,   \* the version of the format each is written in
          Frames,    \* the hashes of its frames, in order
          Missing,   \* no such file
          Torn,      \* a file that was not written to its end
          MaxStarted,   \* bound: operations started
          MaxDeaths  \* bound: operations that died

Gens == Releases \cup Locals

ASSUME DirectoryAssumption ==
  /\ Version \in [Gens -> {1, 2}] /\ Frames \in [Gens -> Seq(STRING)]
  \* a version 1 file is one stream and no version 2 file has the same frames
  /\ \A g, h \in Gens : Frames[g] = Frames[h] => Version[g] = Version[h]
  /\ Missing \notin Gens /\ Torn \notin Gens /\ Missing # Torn

ASSUME BoundsAssumption == MaxStarted \in Nat /\ MaxDeaths \in Nat

VARIABLES
  disk,      \* what each file holds
  proc,      \* the running operation: its kind, its index, its next write
  overtaken, \* history: sidecars were written since the hashes were
  started,      \* operations started
  deaths     \* operations that died

directory == <<disk, proc, overtaken, started, deaths>>

Heavy == {"entry", "path_trigram", "path_entry", "ngram"}
Files == {"files", "hashes", "frame_map", "basename", "path", "packages", "attrs", "command"}
           \cup Heavy

(***************************************************************************)
(* What each operation writes, in order.  do_finish writes after the       *)
(* metadata of the packages is complete.                                   *)
(***************************************************************************)
GeneratedHashesFirst(version) ==
  IF version = 2
  THEN <<"hashes", "basename", "path", "entry", "path_trigram", "path_entry", "ngram",
         "frame_map", "packages", "attrs">>
  ELSE <<"hashes", "basename", "path", "entry", "path_trigram", "path_entry", "ngram",
         "packages", "attrs">>

Generated(version) ==
  IF version = 2
  THEN <<"basename", "path", "entry", "path_trigram", "path_entry", "ngram", "frame_map",
         "packages", "attrs", "hashes">>
  ELSE <<"basename", "path", "entry", "path_trigram", "path_entry", "ngram",
         "packages", "attrs", "hashes">>

Built(version) ==
  IF version = 2
  THEN <<"packages", "files", "frame_map", "basename", "attrs", "path", "command">>
  ELSE <<"packages", "files", "basename", "attrs", "path", "command">>

Order(p) == IF p.op = "build" THEN Built(Version[p.of]) ELSE Generated(Version[p.of])

Rest == [op |-> "idle"]
DirectoryInit ==
  /\ disk = [f \in Files |-> Missing]
  /\ proc = Rest /\ overtaken = FALSE /\ started = 0 /\ deaths = 0

----------------------------------------------------------------------------
(***************************************************************************)
(* frame_hashes_diff: frames that are new, different or gone.  The mutant  *)
(* does not see the last.                                                  *)
(***************************************************************************)
ChangedInCurrent(stored, current) ==
  {i \in DOMAIN current : i \notin DOMAIN stored \/ stored[i] # current[i]}

Changed(stored, current) ==
  {i \in DOMAIN stored \cup DOMAIN current :
     i \in DOMAIN stored /\ i \in DOMAIN current => stored[i] # current[i]}

(***************************************************************************)
(* The sidecars that must be there for the hashes to count; only version 2 *)
(* has frames to map.                                                      *)
(***************************************************************************)
RequiredAnyVersion(version) ==
  {"basename", "path", "packages", "attrs", "frame_map"} \cup Heavy

Required(version) ==
  {"basename", "path", "packages", "attrs"} \cup Heavy
    \cup (IF version = 2 THEN {"frame_map"} ELSE {})

FilesOpen == disk["files"] \in Gens
Index == disk["files"]

UpToDate ==
  /\ FilesOpen /\ disk["hashes"] \in Gens
  /\ Changed(Frames[disk["hashes"]], Frames[Index]) = {}
  /\ \A s \in Required(Version[Index]) : disk[s] # Missing

----------------------------------------------------------------------------
(***************************************************************************)
(* One operation at a time, which nothing in the code enforces.            *)
(***************************************************************************)
Started == proc = Rest /\ started < MaxStarted /\ started' = started + 1

(***************************************************************************)
(* nixdex update has downloaded a release and renames it over `files`.     *)
(***************************************************************************)
Install(g) ==
  /\ Started
  /\ disk' = [disk EXCEPT !["files"] = g]
  /\ proc' = [op |-> "installed"]
  /\ UNCHANGED <<overtaken, deaths>>

(***************************************************************************)
(* The decision of generate_sidecars, after an update or as a command of   *)
(* its own: fail over a `files` or hashes it cannot read, leave everything *)
(* as it is, or rebuild.                                                   *)
(***************************************************************************)
Generate ==
  /\ \/ Started
     \/ proc.op = "installed" /\ UNCHANGED started
  /\ \/ /\ ~FilesOpen \/ disk["hashes"] = Torn
        /\ proc' = Rest
     \/ /\ UpToDate
        /\ proc' = Rest
     \/ /\ FilesOpen /\ disk["hashes"] # Torn /\ ~UpToDate
        /\ proc' = [op |-> "generate", of |-> Index, next |-> 1]
  /\ UNCHANGED <<disk, overtaken, deaths>>

(***************************************************************************)
(* nixdex index: create_with_version truncates `files`, the writer of the  *)
(* metadata packages.json.  A build that fails still finishes, when its    *)
(* Writer is dropped, the index of what it had by then, which is a build   *)
(* of that index.                                                          *)
(***************************************************************************)
Build(g) ==
  /\ Started
  /\ disk' = [disk EXCEPT !["files"] = Torn, !["packages"] = Torn]
  /\ proc' = [op |-> "build", of |-> g, next |-> 1]
  /\ overtaken' = TRUE
  /\ UNCHANGED deaths

Working == proc.op \in {"generate", "build"}
Target == Order(proc)[proc.next]

(***************************************************************************)
(* Is this the last write?  The mutant is off by one.                      *)
(***************************************************************************)
FinalPassed(p) == p.next > Len(Order(p))
Final(p) == p.next = Len(Order(p))

(***************************************************************************)
(* One file is created and written.  That the metadata could not be is     *)
(* only a warning.                                                         *)
(***************************************************************************)
Write ==
  /\ Working
  /\ \E content \in {proc.of} \cup
       (IF proc.op = "build" /\ Target = "packages" THEN {Torn} ELSE {}) :
       disk' = [disk EXCEPT ![Target] = content]
  /\ proc' = IF Final(proc) THEN Rest ELSE [proc EXCEPT !.next = @ + 1]
  /\ overtaken' = (Target # "hashes")
  /\ UNCHANGED <<started, deaths>>

(***************************************************************************)
(* An error, a kill or a crash: between two writes, or in the middle of    *)
(* one.  A sidecar of several files may then lack one as before, and       *)
(* hashes whose header is cut count as none.                               *)
(***************************************************************************)
DieWorking ==
  /\ proc # Rest /\ deaths < MaxDeaths
  /\ \/ UNCHANGED <<disk, overtaken>>
     \/ /\ Working
        /\ \E content \in {Torn} \cup (IF Target = "hashes" THEN {Missing} ELSE {}) :
             disk' = [disk EXCEPT ![Target] = content]
        /\ overtaken' = (overtaken \/ Target # "hashes")
  /\ proc' = Rest /\ deaths' = deaths + 1
  /\ UNCHANGED started

(***************************************************************************)
(* Somebody removes a sidecar, or its files are from a release of nixdex   *)
(* that had fewer.                                                         *)
(***************************************************************************)
RemoveFile(f) ==
  /\ Started
  /\ f # "files" /\ disk[f] # Missing
  /\ disk' = [disk EXCEPT ![f] = Missing]
  /\ UNCHANGED <<proc, overtaken, deaths>>

DirectoryNext ==
  \/ \E g \in Releases : Install(g)
  \/ \E g \in Locals : Build(g)
  \/ Generate \/ Write \/ DieWorking
  \/ \E f \in Files : RemoveFile(f)

DirectorySpec == DirectoryInit /\ [][DirectoryNext]_directory

----------------------------------------------------------------------------
Busy == [op : {"generate", "build"}, of : Gens, next : 1 .. 10]

(***************************************************************************)
(* Every variable keeps its type, and a rebuild works on the index that is *)
(* there.                                                                  *)
(***************************************************************************)
DirectoryTypeOK ==
  /\ disk \in [Files -> Gens \cup {Missing, Torn}]
  /\ proc \in {Rest, [op |-> "installed"]} \cup Busy
  /\ Working => proc.next \in 1 .. Len(Order(proc))
  /\ proc.op = "generate" => proc.of = Index
  /\ overtaken \in BOOLEAN /\ started \in 0 .. MaxStarted /\ deaths \in 0 .. MaxDeaths

Describes(s) == disk[s] \in Gens /\ Frames[disk[s]] = Frames[Index]
AllDescribe ==
  /\ FilesOpen
  /\ LET order == Generated(Version[Index])
     IN \A i \in DOMAIN order : Describes(order[i])

(***************************************************************************)
(* The promise of sidecar_diff ("Ok(Some(vec![]) if all sidecars are up to *)
(* date") as far as the code keeps it: an index called up to date has      *)
(* every sidecar that a rebuild would write, whole and its own, whatever   *)
(* was installed, removed, or died before; unless sidecars were written    *)
(* under hashes that were already there, by a build or by a rebuild that   *)
(* did not get to its end.                                                 *)
(***************************************************************************)
SoundUntilOvertaken == UpToDate /\ ~overtaken => AllDescribe

(***************************************************************************)
(* Hashes are only ever put on disk over a complete set: a rebuild cut     *)
(* anywhere leaves hashes that do not vouch for it.                        *)
(***************************************************************************)
HashesCertify ==
  [][disk'["hashes"] \in Gens /\ disk'["hashes"] # disk["hashes"] => AllDescribe']_directory

(***************************************************************************)
(* A rebuild that gets to its end settles the matter: the next check finds *)
(* everything it asks for and does not rebuild again, for version 1 too,   *)
(* which has no frame map to give.                                         *)
(***************************************************************************)
RebuildSettles ==
  [][proc.op = "generate" /\ Final(proc) /\ Write => UpToDate']_directory
=============================================================================
