---------------------------- MODULE SidecarUpdate ----------------------------
(***************************************************************************)
(* The history and options sidecars from the release to the reader.  The   *)
(* release side records versions and options and publishes each file and   *)
(* its digest; `nixdex update` installs the index, then fetches the two    *)
(* sidecars one after the other, each in at most MaxRetries attempts:      *)
(* body, digest, comparison, temporary file, rename.  Any request and any  *)
(* step on the disk may fail, and the process may die.  Nothing keeps two  *)
(* updates apart: those of one directory use the same temporary files.     *)
(***************************************************************************)
EXTENDS Naturals, Sequences, FiniteSets, SequencesExt

CONSTANTS
  Versions, Dates,   \* of the history entries: Dates is a set of naturals
  MaxPrefixes,       \* bound: "| " prefixes at the head of a description
  MaxVersions,       \* MAX_VERSIONS_PER_ATTR
  MaxOptions,        \* MAX_OPTION_COUNT
  Attrs,             \* attribute paths
  MaxRetries,        \* MAX_SIDECAR_RETRIES
  Updaters,          \* `nixdex update` processes
  MaxRecords, MaxReleases, MaxRuns  \* bounds: calls, publications, updates

ASSUME UpdateAssumption ==
  /\ Dates \subseteq Nat
  /\ {MaxPrefixes, MaxVersions, MaxOptions, MaxRecords, MaxReleases, MaxRuns} \subseteq Nat
  /\ MaxRetries \in Nat \ {0}

Artifacts == <<"history", "options">>
Names == {"history", "options"}
Entry == [version : Versions, date : Dates]

Absent == [state |-> "absent"]
Cut == [state |-> "cut"]      \* the beginning of a file, or of a body

VARIABLES
  history, records, releases,  \* HistoryBuilder and OptionsBuilder entries; calls so far, publications
  options,
  body, digest,       \* the server: published file; release its digest is of
  upc, art, attempt,  \* update: "idle", "index", "prepare", "get", "digest", "write", "fill", "rename", "discard", "report", "ok", "err"
  got, failed, stale, \* body received; artifacts that failed; those reported
  begun, runs,        \* release of each body when the run began; runs so far
  tmp, dest,          \* the files
  opened,             \* where the file is that an update fills: "tmp", "dest", or "none"
  beside,             \* history: updates during which another ran
  shared,             \* history: names whose temporary file is not of one update alone
  spoilt              \* history: names that were installed from such a file

serverVars == <<history, options, records, releases, body, digest>>
fileVars == <<tmp, dest, opened, shared, spoilt>>
updateVars == <<upc, art, attempt, got, failed, stale, begun, runs, beside, fileVars>>
vars == <<serverVars, updateVars>>

-----------------------------------------------------------------------------
(***************************************************************************)
(* HistoryBuilder.record_version: a known version is left alone, a full    *)
(* attribute refuses, and a new entry goes before the first older one.     *)
(***************************************************************************)
\* Fault: a new entry is appended.
Appended(list, e) ==
  IF \E i \in DOMAIN list : list[i].version = e.version THEN list
  ELSE IF Len(list) >= MaxVersions THEN list
  ELSE Append(list, e)

Recorded(list, e) ==
  LET older == {i \in DOMAIN list : e.date > list[i].date}
      position == IF older = {} THEN Len(list) + 1
                  ELSE CHOOSE i \in older : \A j \in older : i <= j
  IN  IF \E i \in DOMAIN list : list[i].version = e.version THEN list
      ELSE IF Len(list) >= MaxVersions THEN list
      ELSE InsertAt(list, position, e)

\* A description is its number of prefixes; normalize_description strips one.
Normal(description) == IF description > 0 THEN description - 1 ELSE description

RecordVersion(a, e) ==
  /\ records < MaxRecords /\ releases < MaxReleases
  /\ records' = records + 1
  /\ history' = [history EXCEPT ![a] = Recorded(@, e)]
  /\ UNCHANGED <<options, releases, body, digest, updateVars>>

RecordOption(a, description) ==
  /\ records < MaxRecords /\ releases < MaxReleases
  /\ records' = records + 1
  /\ options' = [options EXCEPT ![a] = <<Normal(description)>>]
  /\ UNCHANGED <<history, releases, body, digest, updateVars>>

(***************************************************************************)
(* write_sidecar writes one line per attribute; the release then puts the  *)
(* file and, separately, its digest on the server.                         *)
(***************************************************************************)
Lines(entries) == {[attr |-> a, value |-> entries[a]] : a \in {x \in Attrs : entries[x] # << >>}}

Publish(n) ==
  /\ releases < MaxReleases /\ releases' = releases + 1
  /\ IF n = "options" THEN Cardinality(Lines(options)) <= MaxOptions ELSE TRUE
  /\ body' = [body EXCEPT ![n] =
       [state |-> "whole", release |-> releases + 1,
        lines |-> IF n = "history" THEN Lines(history) ELSE Lines(options)]]
  /\ UNCHANGED <<history, options, records, digest, updateVars>>

PublishDigest(n) ==
  /\ body[n] # Absent /\ digest[n] # body[n].release
  /\ digest' = [digest EXCEPT ![n] = body[n].release]
  /\ UNCHANGED <<history, options, records, releases, body, updateVars>>

(***************************************************************************)
(* HistoryDb.open and OptionsDb.open of a whole file: both check the caps  *)
(* of the builder, and options are normalised once more.                   *)
(***************************************************************************)
Opens(n, file) ==
  /\ file.state = "whole"
  /\ n = "history" => \A l \in file.lines : Len(l.value) <= MaxVersions
  /\ n = "options" => Cardinality(file.lines) <= MaxOptions

Lookup(n, file, a) ==
  LET mine == {l \in file.lines : l.attr = a}
      value == (CHOOSE l \in mine : TRUE).value
  IN  IF mine = {} THEN << >> ELSE IF n = "options" THEN <<Normal(value[1])>> ELSE value

Init ==
  /\ history = [a \in Attrs |-> << >>] /\ options = [a \in Attrs |-> << >>]
  /\ records = 0 /\ releases = 0
  /\ body = [n \in Names |-> Absent] /\ digest = [n \in Names |-> 0]
  /\ upc = [u \in Updaters |-> "idle"] /\ art = [u \in Updaters |-> 1]
  /\ attempt = [u \in Updaters |-> 1] /\ got = [u \in Updaters |-> Absent]
  /\ failed = [u \in Updaters |-> {}] /\ stale = [u \in Updaters |-> {}]
  /\ begun = [u \in Updaters |-> [n \in Names |-> 0]]
  /\ runs = 0
  /\ tmp = [n \in Names |-> Absent] /\ dest = [n \in Names |-> Absent]
  /\ opened = [u \in Updaters |-> "none"] /\ beside = {}
  /\ shared = {} /\ spoilt = {}

-----------------------------------------------------------------------------
Goto(u, pc) == upc' = [upc EXCEPT ![u] = pc]
Name(u) == Artifacts[art[u]]
Release(file) == IF file.state = "whole" THEN file.release ELSE 0
Ended(u) == upc[u] \in {"idle", "ok", "err"}
Others(u) == {v \in Updaters \ {u} : ~Ended(v)}

Begin(u) ==
  /\ Ended(u) /\ runs < MaxRuns
  /\ runs' = runs + 1
  /\ art' = [art EXCEPT ![u] = 1] /\ attempt' = [attempt EXCEPT ![u] = 1]
  /\ failed' = [failed EXCEPT ![u] = {}] /\ stale' = [stale EXCEPT ![u] = {}]
  /\ begun' = [begun EXCEPT ![u] = [n \in Names |-> Release(body[n])]]
  /\ beside' = IF Others(u) = {} THEN beside \ {u} ELSE beside \cup {u} \cup Others(u)
  /\ Goto(u, "index")
  /\ UNCHANGED <<serverVars, got, fileVars>>

\* The URL is refused or download_to fails; otherwise `files` is installed.
InstallIndex(u) ==
  /\ upc[u] = "index"
  /\ Goto(u, "prepare") \/ Goto(u, "err")
  /\ UNCHANGED <<serverVars, art, attempt, got, failed, stale, begun, runs, beside, fileVars>>

\* After one artifact, with or without success, comes the other.
Proceed(u, lost) ==
  /\ failed' = [failed EXCEPT ![u] = IF lost THEN @ \cup {Name(u)} ELSE @]
  /\ attempt' = [attempt EXCEPT ![u] = 1]
  /\ IF art[u] < Len(Artifacts)
     THEN art' = [art EXCEPT ![u] = @ + 1] /\ Goto(u, "prepare")
     ELSE Goto(u, "report") /\ art' = [art EXCEPT ![u] = 1]
  /\ got' = [got EXCEPT ![u] = Absent]

\* Fault: the attempts are not counted.
AgainForever(u) ==
  /\ Goto(u, "get")
  /\ UNCHANGED <<attempt, art, failed>>

\* Another attempt, or the end of them.
Again(u) ==
  /\ IF attempt[u] < MaxRetries
     THEN attempt' = [attempt EXCEPT ![u] = @ + 1] /\ Goto(u, "get")
     ELSE Goto(u, "discard") /\ UNCHANGED attempt
  /\ UNCHANGED <<art, failed>>

\* The client is built and the directory made; an error here ends the artifact.
Prepare(u) ==
  /\ upc[u] = "prepare"
  /\ \/ Goto(u, "get") /\ UNCHANGED <<art, attempt, failed, got>>
     \/ Proceed(u, TRUE)
  /\ UNCHANGED <<serverVars, stale, begun, runs, beside, fileVars>>

(***************************************************************************)
(* The request, its size caps and the magic.  A body cut in transfer still *)
(* has its magic; a request that fails in any other way is an attempt.     *)
(***************************************************************************)
Get(u) ==
  /\ upc[u] = "get"
  /\ \/ /\ body[Name(u)] # Absent
        /\ got' = [got EXCEPT ![u] = body[Name(u)]]
        /\ Goto(u, "digest") /\ UNCHANGED <<art, attempt, failed>>
     \/ /\ body[Name(u)] # Absent
        /\ got' = [got EXCEPT ![u] = Cut]
        /\ Goto(u, "digest") /\ UNCHANGED <<art, attempt, failed>>
     \/ Again(u) /\ got' = [got EXCEPT ![u] = Absent]
  /\ UNCHANGED <<serverVars, stale, begun, runs, beside, fileVars>>

Verify(u) ==
  /\ upc[u] = "digest"
  /\ \/ /\ got[u].state = "whole" /\ got[u].release = digest[Name(u)]
        /\ Goto(u, "write") /\ UNCHANGED <<art, attempt, failed>>
     \/ Again(u)
  /\ UNCHANGED <<serverVars, got, stale, begun, runs, beside, fileVars>>

(***************************************************************************)
(* tokio::fs::write creates or truncates the file, then fills it.  What is *)
(* open stays so when it is renamed or removed; and when two have the same *)
(* one open, what comes of it may be part of each.                         *)
(***************************************************************************)
Has(u, n) == upc[u] \in {"fill", "rename"} /\ Name(u) = n

WriteTmp(u) ==
  /\ upc[u] = "write"
  /\ \/ /\ tmp' = [tmp EXCEPT ![Name(u)] = Cut]
        /\ opened' = [opened EXCEPT ![u] = "tmp"]
        /\ shared' = IF \E v \in Updaters \ {u} : Has(v, Name(u))
                     THEN shared \cup {Name(u)} ELSE shared \ {Name(u)}
        /\ Goto(u, "fill") /\ UNCHANGED <<art, attempt, failed>>
     \/ Again(u) /\ UNCHANGED <<tmp, opened, shared>>
  /\ UNCHANGED <<serverVars, got, stale, begun, runs, beside, dest, spoilt>>

\* What the file has while nobody else writes to it is the beginning.
Filling(u) ==
  CASE opened[u] = "tmp"  -> tmp[Name(u)]
    [] opened[u] = "dest" -> dest[Name(u)]
    [] OTHER              -> Cut
Outcomes(old, new) == IF old = Cut THEN {new} ELSE {new, Cut}

Leave(u, file) ==
  /\ tmp' = IF opened[u] = "tmp" THEN [tmp EXCEPT ![Name(u)] = file] ELSE tmp
  /\ dest' = IF opened[u] = "dest" THEN [dest EXCEPT ![Name(u)] = file] ELSE dest
  /\ opened' = [opened EXCEPT ![u] = "none"]

FillTmp(u) ==
  /\ upc[u] = "fill"
  /\ \/ /\ \E file \in Outcomes(Filling(u), got[u]) : Leave(u, file)
        /\ Goto(u, "rename") /\ UNCHANGED <<art, attempt, failed>>
     \/ Again(u) /\ \E file \in Outcomes(Filling(u), Filling(u)) : Leave(u, file)
  /\ UNCHANGED <<serverVars, got, stale, begun, runs, beside, shared, spoilt>>

Rename(u) ==
  /\ upc[u] = "rename"
  /\ \/ /\ tmp[Name(u)] # Absent
        /\ dest' = [dest EXCEPT ![Name(u)] = tmp[Name(u)]]
        /\ tmp' = [tmp EXCEPT ![Name(u)] = Absent]
        /\ opened' = [v \in Updaters |->
             IF Name(v) # Name(u) THEN opened[v] ELSE IF opened[v] = "tmp" THEN "dest" ELSE "none"]
        /\ spoilt' = IF Name(u) \in shared THEN spoilt \cup {Name(u)} ELSE spoilt \ {Name(u)}
        /\ Proceed(u, FALSE)
     \/ Again(u) /\ UNCHANGED <<got, tmp, dest, opened, spoilt>>
  /\ UNCHANGED <<serverVars, stale, begun, runs, beside, shared>>

\* discard_partial_sidecar; a removal that fails is only logged.
Discard(u) ==
  /\ upc[u] = "discard"
  /\ \/ /\ tmp' = [tmp EXCEPT ![Name(u)] = Absent]
        /\ opened' = [v \in Updaters |->
             IF Name(v) = Name(u) /\ opened[v] = "tmp" THEN "none" ELSE opened[v]]
     \/ UNCHANGED <<tmp, opened>>
  /\ Proceed(u, TRUE)
  /\ UNCHANGED <<serverVars, stale, begun, runs, beside, dest, shared, spoilt>>

\* Fault: only a sidecar that failed last is reported.
ReportLast(u) ==
  /\ upc[u] = "report"
  /\ stale' = [stale EXCEPT ![u] = {n \in failed[u] : n = Last(Artifacts) /\ dest[n] # Absent}]
  /\ Goto(u, "ok")
  /\ UNCHANGED <<serverVars, art, attempt, got, failed, begun, runs, beside, fileVars>>

Report(u) ==
  /\ upc[u] = "report"
  /\ stale' = [stale EXCEPT ![u] = {n \in failed[u] : dest[n] # Absent}]
  /\ Goto(u, "ok")
  /\ UNCHANGED <<serverVars, art, attempt, got, failed, begun, runs, beside, fileVars>>

Die(u) ==
  /\ ~Ended(u) /\ Goto(u, "idle")
  /\ art' = [art EXCEPT ![u] = 1] /\ attempt' = [attempt EXCEPT ![u] = 1]
  /\ got' = [got EXCEPT ![u] = Absent] /\ failed' = [failed EXCEPT ![u] = {}]
  /\ begun' = [begun EXCEPT ![u] = [n \in Names |-> 0]]
  /\ \E file \in Outcomes(Filling(u), Filling(u)) : Leave(u, file)
  /\ UNCHANGED <<serverVars, stale, runs, beside, shared, spoilt>>

Step(u) == InstallIndex(u) \/ Prepare(u) \/ Get(u) \/ Verify(u) \/ WriteTmp(u)
           \/ FillTmp(u) \/ Rename(u) \/ Discard(u) \/ Report(u)

Server ==
  \/ \E a \in Attrs : \/ \E e \in Entry : RecordVersion(a, e)
                      \/ \E d \in 0..MaxPrefixes : RecordOption(a, d)
  \/ \E n \in Names : Publish(n) \/ PublishDigest(n)

Next == Server \/ \E u \in Updaters : Begin(u) \/ Step(u) \/ Die(u)

\* A process runs until it ends; nothing obliges a user to start one.
Spec == Init /\ [][Next]_vars /\ \A u \in Updaters : WF_vars(Step(u))

-----------------------------------------------------------------------------
TypeOK ==
  /\ history \in [Attrs -> BoundedSeq(Entry, MaxVersions)]
  /\ options \in [Attrs -> BoundedSeq(0..MaxPrefixes, 1)]
  /\ records \in 0..MaxRecords /\ releases \in 0..MaxReleases /\ runs \in 0..MaxRuns
  /\ digest \in [Names -> 0..MaxReleases]
  /\ upc \in [Updaters -> {"idle", "index", "prepare", "get", "digest", "write", "fill",
                           "rename", "discard", "report", "ok", "err"}]
  /\ art \in [Updaters -> 1..2] /\ attempt \in [Updaters -> 1..MaxRetries]
  /\ failed \in [Updaters -> SUBSET Names] /\ stale \in [Updaters -> SUBSET Names]
  /\ opened \in [Updaters -> {"none", "tmp", "dest"}]
  /\ beside \subseteq Updaters /\ {shared, spoilt} \subseteq SUBSET Names

NewestFirst(list) ==
  \A i, j \in DOMAIN list : i < j => /\ list[i].date >= list[j].date
                                     /\ list[i].version # list[j].version

(***************************************************************************)
(* The types; and what lies under a sidecar's name opens, whenever it is   *)
(* read: never a temporary file in the making or a body cut on its way,    *)
(* and its histories come newest first, whatever order they were recorded  *)
(* in (download_sidecar_once, finalize_sidecar_download, record_version).  *)
(* Any number of updates may run at once, one may remove what another is   *)
(* writing, and they may die; but the code does not keep two from having   *)
(* the temporary file of a sidecar at the same time (its name is fixed in  *)
(* sidecar_temp_path).  What was installed from a file they shared is      *)
(* excepted, until an update whose file it is alone installs the next.     *)
(***************************************************************************)
InstalledReadable ==
  /\ TypeOK
  /\ \A n \in Names \ spoilt : dest[n] # Absent => Opens(n, dest[n])
  /\ "history" \notin spoilt /\ dest["history"] # Absent =>
       \A l \in dest["history"].lines : NewestFirst(Lookup("history", dest["history"], l.attr))

(***************************************************************************)
(* An update that ends well and does not name a sidecar as kept leaves it  *)
(* absent or no older than what the server had when the update began,      *)
(* however its requests and steps failed and were repeated, and whatever   *)
(* updates come before and after it (run_update, download_sidecars).  Of   *)
(* updates that run at the same time, one may put back what it had asked   *)
(* for earlier: those are excepted, and so is what updates at once spoil   *)
(* later.                                                                  *)
(***************************************************************************)
WarnsWhenOlder ==
  \A u \in Updaters \ beside, n \in Names \ spoilt :
    upc[u] = "ok" /\ n \notin stale[u] /\ dest[n] # Absent =>
      Release(dest[n]) >= begun[u][n]

(***************************************************************************)
(* An update ends: attempts are bounded, and nothing waits for a server.   *)
(***************************************************************************)
UpdateEnds == \A u \in Updaters : upc[u] = "index" ~> Ended(u)
=============================================================================
