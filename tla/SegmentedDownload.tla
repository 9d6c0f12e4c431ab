------------------------- MODULE SegmentedDownload -------------------------
(***************************************************************************)
(* The download of the prebuilt index (prebuilt.rs): `download_index_file` *)
(* and the segmented, resumable transfer under it, run again and again on  *)
(* one destination, against a server that may publish a new index at any   *)
(* moment, fail any request and cut any response, in a process that may be *)
(* killed at any step.                                                     *)
(*                                                                         *)
(* A history is the sequence of indexes the server publishes: the length   *)
(* of each, its entity tag, or NoTag, and whether its header is that of a  *)
(* NIXI file.  A byte is the index it comes from and its offset there, so  *)
(* that a file on disk tells where each of its bytes came from; the header *)
(* is the byte at offset 0.                                                *)
(***************************************************************************)
EXTENDS Naturals, Sequences, FiniteSets

CONSTANTS Histories,    \* the sequences of indexes the server may publish
          NoTag,        \* the response has no ETag header
          NoFile,       \* no such file on disk
          MaxConn,      \* config.max_connections, clamped to 1 in plan_segments
          MinSegment,   \* MIN_SEGMENT_BYTES
          MaxAttempts,  \* MAX_SEGMENT_ATTEMPTS
          MaxFaults     \* bound: failed requests, cut responses and crashes

ASSUME DownloadAssumption ==
  /\ MaxConn \in Nat \ {0} /\ MinSegment \in Nat \ {0}
  /\ MaxAttempts \in Nat \ {0} /\ MaxFaults \in Nat
  /\ NoFile \notin Seq(Nat \X Nat)
  /\ \A h \in Histories :
       /\ Len(h) \in Nat \ {0} /\ DOMAIN h = 1 .. Len(h)
       /\ \A n \in DOMAIN h : h[n].len \in Nat \ {0} /\ h[n].nixi \in BOOLEAN
       \* an entity tag names one index
       /\ \A n, k \in DOMAIN h : h[n].tag = h[k].tag => n = k \/ h[n].tag = NoTag

VARIABLES
  asset,      \* the history of this server
  served,     \* the index it publishes now
  faults,     \* how many faults have happened
  tmp,        \* files.tmp
  part,       \* files.tmp.part-i, by i
  dest,       \* files
  pc,         \* where download_index_file is
  plan,       \* what HEAD told: the total length and the tag
  attempt,    \* `attempt`
  body,       \* the response the main task streams: its index and last byte
  task,       \* the spawned fetches, by segment
  step,       \* the part being copied or removed
  first,      \* history: the index published when the run began
  clean,      \* history: the run began with no part file on disk
  interrupted \* history: a crash or a cut first segment has happened
server == <<asset, served>>
disk == <<tmp, part, dest>>
local == <<plan, attempt, body, task, step>>
history == <<first, clean, interrupted>>
download == <<server, faults, disk, pc, local, history>>

Smaller(x, y) == IF x < y THEN x ELSE y

(***************************************************************************)
(* plan_segments: how many segments, where segment i starts and ends.      *)
(***************************************************************************)
SegmentCount(total) == Smaller(MaxConn, (total + MinSegment - 1) \div MinSegment)
SegmentStart(total, i) ==
  LET n == SegmentCount(total) IN i * (total \div n) + Smaller(i, total % n)
SegmentEnd(total, i) == SegmentStart(total, i + 1) - 1

Index == 0 .. MaxConn - 1
Planned == 0 .. SegmentCount(plan.total) - 1
NoParts == [i \in Index |-> NoFile]
NoPlan == [total |-> 1, tag |-> NoTag]
NoBody == [asset |-> 1, end |-> 0]
NoTasks == [i \in Index |-> [state |-> "none", body |-> NoBody]]

DownloadInit ==
  /\ asset \in Histories /\ served = 1 /\ faults = 0
  /\ tmp = NoFile /\ part = NoParts /\ dest = NoFile
  /\ pc = "idle" /\ plan = NoPlan /\ attempt = 0
  /\ body = NoBody /\ task = NoTasks /\ step = 0
  /\ first = 1 /\ clean = TRUE /\ interrupted = FALSE

Fault == faults < MaxFaults /\ faults' = faults + 1

(***************************************************************************)
(* The server publishes the next index.                                    *)
(***************************************************************************)
Publish ==
  /\ served < Len(asset)
  /\ served' = served + 1
  /\ UNCHANGED <<asset, faults, disk, pc, local, history>>

(***************************************************************************)
(* HEAD, and the plan; every reason not to segment leads to the serial     *)
(* path.  The run finds on disk what an earlier one left there.            *)
(***************************************************************************)
HeadRequest ==
  /\ pc = "idle"
  /\ first' = served /\ clean' = (part = NoParts)
  /\ \/ /\ plan' = [total |-> asset[served].len, tag |-> asset[served].tag]
        /\ pc' = IF asset[served].len < MinSegment THEN "serial" ELSE "probe"
        /\ UNCHANGED faults
     \/ /\ Fault
        /\ pc' = "serial"
        /\ UNCHANGED plan
  /\ UNCHANGED <<server, disk, attempt, body, task, step, interrupted>>

(***************************************************************************)
(* What the server answers to a Range request.  With If-Range and another  *)
(* tag it sends 200 and the whole body, past the end 416, and otherwise    *)
(* 206 with what there is of the range.  The mutant sends no If-Range.     *)
(***************************************************************************)
RangeFits(start) == start < asset[served].len
HonorsRange(start) ==
  /\ plan.tag \in {NoTag, asset[served].tag}
  /\ start < asset[served].len
ResponseTo(end) == [asset |-> served, end |-> Smaller(end, asset[served].len - 1)]

(***************************************************************************)
(* The probe of the first segment; any other answer than 206 leads to the  *)
(* serial path.                                                            *)
(***************************************************************************)
Probe ==
  /\ pc = "probe"
  /\ \/ /\ HonorsRange(0)
        /\ part' = [part EXCEPT ![0] = << >>]
        /\ body' = ResponseTo(SegmentEnd(plan.total, 0))
        /\ pc' = "first"
        /\ UNCHANGED faults
     \/ /\ IF HonorsRange(0) THEN Fault ELSE UNCHANGED faults
        /\ pc' = "serial"
        /\ UNCHANGED <<part, body>>
  /\ UNCHANGED <<server, tmp, dest, plan, attempt, task, step, history>>

(***************************************************************************)
(* stream_to_file of the first segment.  Its error is returned at once: no *)
(* part is removed.                                                        *)
(***************************************************************************)
StreamFirst ==
  /\ pc = "first"
  /\ \/ /\ Len(part[0]) <= body.end
        /\ part' = [part EXCEPT ![0] = Append(@, <<body.asset, Len(@)>>)]
        /\ UNCHANGED <<pc, faults, body, interrupted>>
     \/ /\ Len(part[0]) > body.end
        /\ pc' = "check" /\ body' = NoBody
        /\ UNCHANGED <<part, faults, interrupted>>
     \/ /\ Fault
        /\ pc' = "serial" /\ body' = NoBody /\ interrupted' = TRUE
        /\ UNCHANGED part
  /\ UNCHANGED <<server, tmp, dest, plan, attempt, task, step, first, clean>>

(***************************************************************************)
(* missing_segments: the first segment is not looked at, the others are    *)
(* judged by their length.  AbsentSegments is the mutant that only looks   *)
(* whether the part exists.                                                *)
(***************************************************************************)
AbsentSegments == {i \in Planned \ {0} : part[i] = NoFile}
MissingSegments ==
  {i \in Planned \ {0} :
     \/ part[i] = NoFile
     \/ Len(part[i]) # SegmentEnd(plan.total, i) - SegmentStart(plan.total, i) + 1}

Spawn(missing) ==
  /\ task' = [i \in Index |-> [NoTasks[i] EXCEPT !.state = IF i \in missing THEN "asked" ELSE @]]
  /\ pc' = "fetch"
  /\ UNCHANGED tmp

(***************************************************************************)
(* The head of the retry loop: the attempts are counted before what is     *)
(* missing is looked at.                                                   *)
(***************************************************************************)
Check ==
  /\ pc = "check"
  /\ attempt' = attempt + 1
  /\ \/ /\ attempt' > MaxAttempts
        /\ pc' = "discard"
        /\ UNCHANGED <<tmp, task>>
     \/ /\ attempt' <= MaxAttempts /\ MissingSegments = {}
        /\ pc' = "concat" /\ tmp' = << >>
        /\ UNCHANGED task
     \/ /\ attempt' <= MaxAttempts /\ MissingSegments # {}
        /\ Spawn(MissingSegments)
  /\ UNCHANGED <<server, faults, part, dest, plan, body, step, history>>

(***************************************************************************)
(* fetch_segment, one task for each missing segment: the answer, then its  *)
(* body.  A failed request, 5xx and 429 are transient; any other answer    *)
(* than 206 says that the resource changed.                                *)
(***************************************************************************)
Fetch(i) ==
  /\ task[i].state = "asked"
  /\ \/ /\ HonorsRange(SegmentStart(plan.total, i))
        /\ part' = [part EXCEPT ![i] = << >>]
        /\ task' = [task EXCEPT ![i] = [state |-> "streaming",
                                        body |-> ResponseTo(SegmentEnd(plan.total, i))]]
        /\ UNCHANGED faults
     \/ /\ IF HonorsRange(SegmentStart(plan.total, i)) THEN Fault ELSE UNCHANGED faults
        /\ task' = [task EXCEPT ![i].state = "changed"]
        /\ UNCHANGED part
     \/ /\ Fault
        /\ task' = [task EXCEPT ![i].state = "transient"]
        /\ UNCHANGED part
  /\ UNCHANGED <<server, tmp, dest, pc, plan, attempt, body, step, history>>

Stream(i) ==
  LET offset == SegmentStart(plan.total, i) + Len(part[i]) IN
  /\ task[i].state = "streaming"
  /\ \/ /\ offset <= task[i].body.end
        /\ part' = [part EXCEPT ![i] = Append(@, <<task[i].body.asset, offset>>)]
        /\ UNCHANGED <<task, faults>>
     \/ /\ offset > task[i].body.end
        /\ task' = [task EXCEPT ![i] = [state |-> "ok", body |-> NoBody]]
        /\ UNCHANGED <<part, faults>>
     \/ /\ Fault
        /\ task' = [task EXCEPT ![i] = [state |-> "transient", body |-> NoBody]]
        /\ UNCHANGED part
  /\ UNCHANGED <<server, tmp, dest, pc, plan, attempt, body, step, history>>

(***************************************************************************)
(* All handles awaited; a changed resource ends the segmented download.    *)
(* The mutant forgets the parts.                                           *)
(***************************************************************************)
Joined(ifChanged) ==
  /\ pc = "fetch"
  /\ \A i \in Index : task[i].state \notin {"asked", "streaming"}
  /\ pc' = IF \E i \in Index : task[i].state = "changed" THEN ifChanged ELSE "check"
  /\ task' = NoTasks
  /\ UNCHANGED <<server, faults, disk, plan, attempt, body, step, history>>

JoinKeepingParts == Joined("serial")
Join == Joined("discard")

(***************************************************************************)
(* concat_parts: copy each part; then remove them (RemovePart).  An I/O    *)
(* error discards the parts.  The mutant goes on without removing them.    *)
(***************************************************************************)
Copied(next) ==
  /\ pc = "concat"
  /\ \/ /\ step \in Planned /\ part[step] # NoFile
        /\ tmp' = tmp \o part[step] /\ step' = step + 1
        /\ UNCHANGED <<pc, faults>>
     \/ /\ step \in Planned
        /\ IF part[step] # NoFile THEN Fault ELSE UNCHANGED faults
        /\ pc' = "discard" /\ step' = 0
        /\ UNCHANGED tmp
     \/ /\ step \notin Planned
        /\ pc' = next /\ step' = 0
        /\ UNCHANGED <<tmp, faults>>
  /\ UNCHANGED <<server, part, dest, plan, attempt, body, task, history>>

ConcatKeepingParts == Copied("validate")
Concat == Copied("tidy")

(***************************************************************************)
(* The removal of the parts, after the merge or on the way to the serial   *)
(* path.                                                                   *)
(***************************************************************************)
RemovePart ==
  /\ pc \in {"tidy", "discard"}
  /\ \/ /\ step \in Planned
        /\ part' = [part EXCEPT ![step] = NoFile] /\ step' = step + 1
        /\ UNCHANGED pc
     \/ /\ step \notin Planned
        /\ pc' = IF pc = "tidy" THEN "validate" ELSE "serial"
        /\ step' = 0
        /\ UNCHANGED part
  /\ UNCHANGED <<server, faults, tmp, dest, plan, attempt, body, task, history>>

(***************************************************************************)
(* download_serial: one request, streamed into tmp.                        *)
(***************************************************************************)
SerialGet ==
  /\ pc = "serial"
  /\ \/ /\ tmp' = << >>
        /\ body' = ResponseTo(asset[served].len - 1)
        /\ pc' = "whole"
        /\ UNCHANGED faults
     \/ /\ Fault
        /\ pc' = "failed"
        /\ UNCHANGED <<tmp, body>>
  /\ UNCHANGED <<server, part, dest, plan, attempt, task, step, history>>

SerialStream ==
  /\ pc = "whole"
  /\ \/ /\ Len(tmp) <= body.end
        /\ tmp' = Append(tmp, <<body.asset, Len(tmp)>>)
        /\ UNCHANGED <<pc, faults, body>>
     \/ /\ Len(tmp) > body.end
        /\ pc' = "validate" /\ body' = NoBody
        /\ UNCHANGED <<tmp, faults>>
     \/ /\ Fault
        /\ pc' = "failed" /\ body' = NoBody
        /\ UNCHANGED tmp
  /\ UNCHANGED <<server, part, dest, plan, attempt, task, step, history>>

(***************************************************************************)
(* validate_nixi reads the header, nothing else.                           *)
(***************************************************************************)
HasHeader(file) == Len(file) > 0 /\ file[1][2] = 0 /\ asset[file[1][1]].nixi
Validate ==
  /\ pc = "validate"
  /\ pc' = IF HasHeader(tmp) THEN "rename" ELSE "failed"
  /\ UNCHANGED <<server, faults, disk, local, history>>

Rename ==
  /\ pc = "rename"
  /\ dest' = tmp /\ tmp' = NoFile
  /\ pc' = "done"
  /\ UNCHANGED <<server, faults, part, local, history>>

Reset ==
  /\ pc' = "idle"
  /\ plan' = NoPlan /\ attempt' = 0 /\ body' = NoBody /\ task' = NoTasks /\ step' = 0

(***************************************************************************)
(* The next refresh, after a run that ended; a crash, after which the      *)
(* program is run again.  Only the disk survives.                          *)
(***************************************************************************)
Again ==
  /\ pc \in {"done", "failed"}
  /\ Reset
  /\ UNCHANGED <<server, faults, disk, history>>

Crash ==
  /\ pc \notin {"idle", "done", "failed"}
  /\ Fault /\ Reset
  /\ interrupted' = TRUE
  /\ UNCHANGED <<server, disk, first, clean>>

Download ==
  \/ HeadRequest \/ Probe \/ StreamFirst \/ Check \/ Join \/ Concat \/ RemovePart
  \/ SerialGet \/ SerialStream \/ Validate \/ Rename \/ Again
Fetching == \E i \in Index : Fetch(i) \/ Stream(i)
DownloadNext == Download \/ Fetching \/ Publish \/ Crash

(***************************************************************************)
(* The runtime runs every task that can go on, and the refresh timer       *)
(* starts the next run; nothing obliges the server to publish, or anything *)
(* to fail.                                                                *)
(***************************************************************************)
DownloadSpec ==
  /\ DownloadInit /\ [][DownloadNext]_download
  /\ WF_download(Download) /\ WF_download(Fetching)
----------------------------------------------------------------------------
Content(n) == [k \in 1 .. asset[n].len |-> <<n, k - 1>>]
Published == DOMAIN asset
Tagged == \A n \in Published : asset[n].tag # NoTag

(***************************************************************************)
(* Every variable keeps its type; attempts stay within the bound, and no   *)
(* file grows longer than the longest index.                               *)
(***************************************************************************)
File == {NoFile} \cup Seq(Published \X Nat)
Response == [asset : Published, end : Nat]
Fits(file) == file = NoFile \/ \E n \in Published : Len(file) <= asset[n].len
DownloadTypeOK ==
  /\ asset \in Histories /\ served \in Published /\ faults \in 0 .. MaxFaults
  /\ tmp \in File /\ part \in [Index -> File] /\ dest \in File
  /\ Fits(tmp) /\ Fits(dest) /\ \A i \in Index : Fits(part[i])
  /\ pc \in {"idle", "probe", "first", "check", "fetch", "concat", "tidy", "discard",
             "serial", "whole", "validate", "rename", "done", "failed"}
  /\ plan.total \in Nat \ {0} /\ attempt \in 0 .. MaxAttempts + 1
  /\ body \in Response
  /\ task \in [Index -> [state : {"none", "asked", "streaming", "ok", "transient", "changed"},
                         body : Response]]
  /\ step \in 0 .. MaxConn
  /\ first \in 1 .. served /\ clean \in BOOLEAN /\ interrupted \in BOOLEAN

(***************************************************************************)
(* A run that found no leftovers, on a server with entity tags, installs   *)
(* one index, whole, and one the server published during that run: never   *)
(* a mixture of two, though each segment is a request of its own, whatever *)
(* was retried, resumed or fetched again serially.                         *)
(***************************************************************************)
FreshInstall ==
  [][dest' # dest /\ clean /\ Tagged => \E n \in first .. served : dest' = Content(n)]_download

(***************************************************************************)
(* Every variable has its type, and with entity tags the installed file is *)
(* never short or without its header, whatever an interrupted run left on  *)
(* disk: the lengths of the resumed parts fit the plan.                    *)
(***************************************************************************)
NeverShort ==
  /\ DownloadTypeOK
  /\ Tagged /\ dest # NoFile =>
       HasHeader(dest) /\ Len(dest) = asset[dest[1][1]].len

(***************************************************************************)
(* Part files wait between runs only after a crash or a cut first segment: *)
(* every other way out of a run, merged, given up or changed, removes all  *)
(* it made.                                                                *)
(***************************************************************************)
LeftoversOnlyWhenInterrupted ==
  pc = "idle" /\ ~interrupted => part = NoParts

(***************************************************************************)
(* However the runs were interrupted and whatever they merged, once the    *)
(* faults and the publications end, the refreshes install the index the    *)
(* server publishes, and nothing else any more: leftovers of another index *)
(* are not merged again and again.                                         *)
(***************************************************************************)
EventuallyCurrent ==
  (\A n \in Published : asset[n].nixi) => <>[](dest = Content(served))
=============================================================================
