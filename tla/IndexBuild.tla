----------------------------- MODULE IndexBuild -----------------------------
(***************************************************************************)
(* IndexBuilder::build, one build after another over one directory: a      *)
(* child process evaluates nixpkgs and prints one line per package, a      *)
(* reader passes the lines on, a streamer turns them into metadata and     *)
(* package entries on two bounded channels, the metadata writer fills      *)
(* packages.json, the closure fetcher (used through StoreClosure, which    *)
(* ClosureFetch is shown to implement) turns the entries into listings and *)
(* the build writes those to `files`.  Any of them may fail, and the       *)
(* process may die; the path cache is what one build leaves to the next.   *)
(***************************************************************************)
EXTENDS StoreClosure, FiniteSetsExt, SequencesExt

CONSTANTS
  Inputs,       \* what one build finds: see IsInput
  MaxAttempts,  \* requests per resource: retries + 1
  LineRoom, MetaRoom, PkgRoom,  \* capacities of the three channels
  MaxBuilds, MaxAge             \* bounds: builds per behaviour, age told apart

ASSUME RoomAssumption ==
  {MaxAttempts, LineRoom, MetaRoom, PkgRoom} \subseteq Nat \ {0} /\ MaxBuilds \in Nat

Outcomes == {"ok", "missing", "client", "server", "transient", "garbled"}
Line == [decoded : BOOLEAN, available : BOOLEAN, attr : STRING,
         outputs : Seq([path : Paths, out : BOOLEAN]), program : Programs \cup {NoProgram}]

(***************************************************************************)
(* A pass is one run of nix-eval-jobs: the root set, then the extra scopes.*)
(***************************************************************************)
IsPass(s) == /\ s.valid \in BOOLEAN /\ s.starts \in BOOLEAN
             /\ s.exit \in {"ok", "failed", "unreadable"}
             /\ s.lines \in Seq(Line)

IsInput(w) ==
  /\ Len(w.passes) \in Nat \ {0} /\ DOMAIN w.passes = 1 .. Len(w.passes)
  /\ \A i \in DOMAIN w.passes : IsPass(w.passes[i])
  /\ w.select \in BOOLEAN /\ w.mainProgram \in BOOLEAN /\ w.onlyEval \in BOOLEAN
  /\ w.pathCache \in BOOLEAN /\ w.force \in BOOLEAN /\ w.shallow \in BOOLEAN
  /\ w.nixpkgs \in STRING /\ w.ttl \in Nat
  /\ w.refs \in [Paths -> SUBSET Paths]
  /\ w.narinfo \in [Paths -> [1..MaxAttempts -> Outcomes]]
  /\ w.ls \in [Paths -> [1..MaxAttempts -> Outcomes]]

ASSUME InputsAssumption == \A w \in Inputs : IsInput(w)

VARIABLES
  input, past,           \* of the current build; of all that have begun
  bpc,                   \* the build: "idle", "fetcher", "write", "drain", "eval", "meta", "finish", "ok", "err"
  epc, pass, job, todo,  \* streamer: "pass", "recv", "meta", "send", "ok", "err"; its loop variables
  rpc, read, records,    \* reader of stdout: "off", "read", "ok", "err"; its position and counter
  mpc,                   \* metadata writer: "create", "recv", "ok", "err"
  lines, metas, pkgs,    \* the channels
  pkgsOpen,              \* the packages' receiver exists
  json,                  \* attributes in packages.json
  flushed,               \* how many of them have left the writer's buffer
  fed, fedAll,           \* the fetcher: entries received, and whether that is all
  files, filesState,     \* items in `files`; "absent", "open" (no table yet), "closed"
  cache, disk            \* the path cache in memory and on disk

evalVars == <<epc, pass, job, todo, rpc, read, records>>
metaVars == <<mpc, json, flushed>>
fetchVars == <<fed, fedAll, files, filesState, cache>>
vars == <<input, past, bpc, evalVars, metaVars, lines, metas, pkgs, pkgsOpen,
          fetchVars, disk>>

-----------------------------------------------------------------------------
(***************************************************************************)
(* Requests to the binary cache.  get_with_retry ends at the first answer  *)
(* that is not worth another attempt, and at the last attempt with any.    *)
(***************************************************************************)
Retried == {"server", "transient"}

LastAttempt(outs) == Min({i \in 1..MaxAttempts : i = MaxAttempts \/ outs[i] \notin Retried})

Answer(outs) ==
  LET last == outs[LastAttempt(outs)]
  IN  IF last = "ok" THEN "ok" ELSE IF last = "missing" THEN "not_found" ELSE "error"

(***************************************************************************)
(* The path cache: an entry has references, a listing, either or both, and *)
(* one age for the two.  A cache of the same nixpkgs keeps the time to live *)
(* it was created with.                                                    *)
(***************************************************************************)
NoEntry == [refs |-> FALSE, tree |-> FALSE, age |-> 0]
EmptyCache(w) == [key |-> w.nixpkgs, ttl |-> w.ttl, entries |-> [p \in Paths |-> NoEntry]]
NoCache == [key |-> "none", ttl |-> 0, entries |-> [p \in Paths |-> NoEntry]]

Live(c, p) == IF c.entries[p].age > c.ttl THEN NoEntry ELSE c.entries[p]
Load(w) == IF ~w.pathCache THEN NoCache
           ELSE IF w.force \/ disk.key # w.nixpkgs THEN EmptyCache(w)
           ELSE [disk EXCEPT !.entries = [p \in Paths |-> Live(disk, p)]]

(***************************************************************************)
(* The run of the fetcher over what it was fed, as CachedSource answers:   *)
(* a cached reference list or listing is as good as a request.             *)
(***************************************************************************)
Source(w, c) ==
  [input |-> fed, refs |-> w.refs, shallow |-> w.shallow,
   narinfo |-> [p \in Paths |-> IF Live(c, p).refs THEN "ok" ELSE Answer(w.narinfo[p])],
   ls |-> [p \in Paths |-> IF Live(c, p).tree THEN "ok" ELSE Answer(w.ls[p])]]

\* Fault: whatever the request came to, an entry with no references is kept.
EntryAfterAny(w, c, p) ==
  LET s == Source(w, c)
      e == Live(c, p)
  IN  [refs |-> e.refs \/ ~w.shallow, tree |-> e.tree \/ s.ls[p] = "ok", age |-> 0]

(***************************************************************************)
(* The entry of p after a run: a request that succeeded renews the age and *)
(* keeps the other half.                                                   *)
(***************************************************************************)
EntryAfter(w, c, p) ==
  LET s == Source(w, c)
      e == Live(c, p)
      narinfo == ~w.shallow /\ s.narinfo[p] = "ok"
      tree == (w.shallow \/ narinfo) /\ s.ls[p] = "ok"
      fresh == (narinfo /\ ~e.refs) \/ (tree /\ ~e.tree)
  IN  IF fresh THEN [refs |-> e.refs \/ narinfo, tree |-> e.tree \/ tree, age |-> 0]
      ELSE e

CacheAfter(w, c) ==
  [c EXCEPT !.entries = [p \in Paths |->
     IF p \in Closure(Source(w, c)) THEN EntryAfter(w, c, p) ELSE @[p]]]

Init ==
  /\ input \in Inputs /\ past = << >> /\ bpc = "idle"
  /\ epc = "ok" /\ pass = 1 /\ job = << >> /\ todo = << >>
  /\ rpc = "off" /\ read = 0 /\ records = 0
  /\ mpc = "ok" /\ json = << >> /\ flushed = 0
  /\ lines = << >> /\ metas = << >> /\ pkgs = << >> /\ pkgsOpen = FALSE
  /\ fed = << >> /\ fedAll = FALSE /\ files = {} /\ filesState = "absent"
  /\ cache = NoCache /\ disk = NoCache

-----------------------------------------------------------------------------
(***************************************************************************)
(* build: prepare_database truncates `files` and loads the path cache, and *)
(* the two tasks start; packages.json is truncated by the metadata writer. *)
(***************************************************************************)
Start(w) ==
  /\ bpc = "idle" /\ Len(past) < MaxBuilds
  /\ past' = Append(past, w) /\ input' = w
  /\ bpc' = IF w.onlyEval THEN "drain" ELSE "fetcher"
  /\ epc' = "pass" /\ pass' = 1 /\ job' = << >> /\ todo' = << >>
  /\ rpc' = "off" /\ read' = 0 /\ records' = 0 /\ mpc' = "create"
  /\ lines' = << >> /\ metas' = << >> /\ pkgs' = << >> /\ pkgsOpen' = TRUE
  /\ fed' = << >> /\ fedAll' = FALSE
  /\ IF w.onlyEval THEN UNCHANGED <<files, filesState, cache>>
     ELSE files' = {} /\ filesState' = "open" /\ cache' = Load(w)
  /\ UNCHANGED <<json, flushed, disk>>

\* The writer is dropped, which completes what it has as far as it can.
Return(result) ==
  /\ bpc' = result
  /\ filesState' \in IF filesState = "open" /\ ~input.onlyEval THEN {"open", "closed"} ELSE {filesState}

NewFetcher ==
  /\ bpc = "fetcher"
  /\ \/ bpc' = "write" /\ UNCHANGED <<filesState, pkgsOpen>>
     \/ Return("err") /\ pkgsOpen' = FALSE
  /\ UNCHANGED <<input, past, evalVars, metaVars, lines, metas, pkgs, fed,
                 fedAll, files, cache, disk>>

(***************************************************************************)
(* write_listings: the feeder keeps every entry until the streamer and     *)
(* with it the channel is gone; then the listings come in any order.       *)
(***************************************************************************)
Feed ==
  /\ bpc \notin {"idle", "fetcher", "drain"} /\ pkgsOpen /\ pkgs # << >>
  /\ fed' = Append(fed, Head(pkgs)) /\ pkgs' = Tail(pkgs)
  /\ UNCHANGED <<input, past, bpc, evalVars, metaVars, lines, metas, pkgsOpen,
                 fedAll, files, filesState, cache, disk>>

FeedEnds ==
  /\ bpc = "write" /\ pkgs = << >> /\ epc \in {"ok", "err"} /\ ~fedAll
  /\ fedAll' = TRUE
  /\ UNCHANGED <<input, past, bpc, evalVars, metaVars, lines, metas, pkgs,
                 pkgsOpen, fed, files, filesState, cache, disk>>

WriteListing ==
  /\ bpc = "write" /\ fedAll
  /\ \E item \in Listings(Source(input, cache)) \ files :
       \/ files' = files \cup {item} /\ UNCHANGED <<bpc, filesState>>
       \/ Return("err") /\ UNCHANGED files
  /\ UNCHANGED <<input, past, evalVars, metaVars, lines, metas, pkgs, pkgsOpen,
                 fed, fedAll, cache, disk>>

ListingsEnd ==
  /\ bpc = "write" /\ fedAll
  /\ Listings(Source(input, cache)) \subseteq files
  /\ cache' = IF input.pathCache THEN CacheAfter(input, cache) ELSE cache
  /\ bpc' = "eval"
  /\ UNCHANGED <<input, past, evalVars, metaVars, lines, metas, pkgs, pkgsOpen,
                 fed, fedAll, files, filesState, disk>>

\* build_eval_only receives the packages only to discard them.
Drain ==
  /\ bpc = "drain"
  /\ \/ pkgs # << >> /\ pkgs' = Tail(pkgs) /\ UNCHANGED bpc
     \/ pkgs = << >> /\ epc \in {"ok", "err"} /\ bpc' = "eval" /\ UNCHANGED pkgs
  /\ UNCHANGED <<input, past, evalVars, metaVars, lines, metas, pkgsOpen,
                 fetchVars, disk>>

AwaitEval ==
  /\ bpc = "eval" /\ epc \in {"ok", "err"}
  /\ IF epc = "err" THEN Return("err") ELSE bpc' = "meta" /\ UNCHANGED filesState
  /\ UNCHANGED <<input, past, evalVars, metaVars, lines, metas, pkgs, pkgsOpen,
                 fed, fedAll, files, cache, disk>>

\* Fault: the build does not wait for the metadata writer.
NoAwaitMeta ==
  /\ bpc = "meta"
  /\ bpc' = IF input.onlyEval THEN "ok" ELSE "finish"
  /\ disk' \in IF input.onlyEval \/ ~input.pathCache THEN {disk} ELSE {disk, cache}
  /\ UNCHANGED <<input, past, evalVars, metaVars, lines, metas, pkgs, pkgsOpen,
                 fetchVars>>

(***************************************************************************)
(* await_meta logs a failure and goes on.  Then the path cache is saved,   *)
(* by rename: a save that fails leaves the old one.                        *)
(***************************************************************************)
AwaitMeta ==
  /\ bpc = "meta" /\ mpc \in {"ok", "err"}
  /\ bpc' = IF input.onlyEval THEN "ok" ELSE "finish"
  /\ disk' \in IF input.onlyEval \/ ~input.pathCache THEN {disk} ELSE {disk, cache}
  /\ UNCHANGED <<input, past, evalVars, metaVars, lines, metas, pkgs, pkgsOpen,
                 fetchVars>>

Finish ==
  /\ bpc = "finish"
  /\ \/ bpc' = "ok" /\ filesState' = "closed"
     \/ Return("err")
  /\ UNCHANGED <<input, past, evalVars, metaVars, lines, metas, pkgs, pkgsOpen,
                 fed, fedAll, files, cache, disk>>

-----------------------------------------------------------------------------
(***************************************************************************)
(* The reader of one nix-eval-jobs.  Its channel closes when it ends, and  *)
(* it fails at output it cannot read, and at a failed child only if no     *)
(* line came first.                                                        *)
(***************************************************************************)
Pass == input.passes[pass]

\* A scope is refused by its name, a root by what it names, either by the child.
Starts(s) == s.valid /\ s.starts
Available(l) == l.decoded /\ l.available
MetaOf(l) == l.attr

ReadLine ==
  /\ rpc = "read" /\ read < Len(Pass.lines) /\ Len(lines) < LineRoom
  /\ lines' = Append(lines, Pass.lines[read + 1])
  /\ read' = read + 1 /\ records' = records + 1
  /\ UNCHANGED <<input, past, bpc, epc, pass, job, todo, rpc, metaVars, metas,
                 pkgs, pkgsOpen, fetchVars, disk>>

ChildExits ==
  /\ rpc = "read" /\ read = Len(Pass.lines)
  /\ rpc' = IF Pass.exit = "unreadable" \/ (Pass.exit = "failed" /\ records = 0)
            THEN "err" ELSE "ok"
  /\ UNCHANGED <<input, past, bpc, epc, pass, job, todo, read, records, metaVars,
                 lines, metas, pkgs, pkgsOpen, fetchVars, disk>>

(***************************************************************************)
(* stream_package_entries.  Leaving a pass drops its stream: a reader that *)
(* still runs then finds nobody, kills its child and has no other effect.  *)
(***************************************************************************)
LeavePass(failed) ==
  /\ rpc' = "off" /\ read' = 0 /\ records' = 0 /\ lines' = << >>
  /\ job' = << >> /\ todo' = << >>
  /\ IF failed /\ pass = 1 THEN epc' = "err" /\ UNCHANGED pass
     ELSE epc' = "pass" /\ pass' = pass + 1

BeginPass ==
  /\ epc = "pass"
  /\ \/ /\ pass > Len(input.passes) \/ (input.select /\ pass > 1)
        /\ epc' = "ok"
        /\ UNCHANGED <<pass, job, todo, rpc, read, records, lines>>
     \/ /\ pass <= Len(input.passes) /\ ~(input.select /\ pass > 1)
        /\ IF pkgsOpen /\ Starts(Pass)
           THEN /\ epc' = "recv" /\ rpc' = "read"
                /\ UNCHANGED <<pass, job, todo, read, records, lines>>
           ELSE LeavePass(pkgsOpen)
  /\ UNCHANGED <<input, past, bpc, metaVars, metas, pkgs, pkgsOpen, fetchVars, disk>>

Recv ==
  /\ epc = "recv"
  /\ \/ /\ lines # << >>
        /\ lines' = Tail(lines)
        /\ IF Available(Head(lines))
           THEN job' = Head(lines) /\ epc' = "meta"
           ELSE UNCHANGED <<job, epc>>
        /\ UNCHANGED <<pass, todo, rpc, read, records>>
     \/ /\ lines = << >> /\ rpc \in {"ok", "err"}
        /\ LeavePass(rpc = "err")
  /\ UNCHANGED <<input, past, bpc, metaVars, metas, pkgs, pkgsOpen, fetchVars, disk>>

(***************************************************************************)
(* Metadata first, then one entry per output; a receiver that is gone ends *)
(* the pass, as a success.                                                 *)
(***************************************************************************)
EntriesOf(j) ==
  [i \in DOMAIN j.outputs |->
     [path |-> j.outputs[i].path,
      program |-> IF input.mainProgram /\ j.outputs[i].out THEN j.program ELSE NoProgram]]

SendMeta ==
  /\ epc = "meta"
  /\ \/ /\ mpc = "err" /\ LeavePass(FALSE) /\ UNCHANGED metas
     \/ /\ mpc # "err" /\ Len(metas) < MetaRoom
        /\ metas' = Append(metas, MetaOf(job))
        /\ todo' = EntriesOf(job) /\ epc' = "send"
        /\ UNCHANGED <<pass, job, rpc, read, records, lines>>
  /\ UNCHANGED <<input, past, bpc, metaVars, pkgs, pkgsOpen, fetchVars, disk>>

SendEntry ==
  /\ epc = "send"
  /\ \/ /\ todo = << >> /\ epc' = "recv"
        /\ UNCHANGED <<pkgs, pass, job, todo, rpc, read, records, lines>>
     \/ /\ todo # << >> /\ pkgsOpen /\ Len(pkgs) < PkgRoom
        /\ pkgs' = Append(pkgs, Head(todo)) /\ todo' = Tail(todo)
        /\ UNCHANGED <<epc, pass, job, rpc, read, records, lines>>
     \/ /\ todo # << >> /\ ~pkgsOpen
        /\ LeavePass(FALSE) /\ UNCHANGED pkgs
  /\ UNCHANGED <<input, past, bpc, metaVars, metas, pkgsOpen, fetchVars, disk>>

-----------------------------------------------------------------------------
(***************************************************************************)
(* The metadata writer: a failure drops its receiver.                      *)
(***************************************************************************)
CreateJson ==
  /\ mpc = "create"
  /\ \/ mpc' = "recv" /\ json' = << >> /\ flushed' = 0
     \/ mpc' = "err" /\ UNCHANGED <<json, flushed>>
  /\ UNCHANGED <<input, past, bpc, evalVars, lines, metas, pkgs, pkgsOpen, fetchVars, disk>>

\* Fault: the writer ends at an error but its receiver lives on.
WriteMetaHolding ==
  /\ mpc = "recv" /\ metas # << >>
  /\ \/ metas' = Tail(metas) /\ json' = Append(json, Head(metas)) /\ UNCHANGED <<mpc, flushed>>
     \/ mpc' = "stuck" /\ UNCHANGED <<metas, json, flushed>>
  /\ UNCHANGED <<input, past, bpc, evalVars, lines, pkgs, pkgsOpen, fetchVars, disk>>

WriteMeta ==
  /\ mpc = "recv" /\ metas # << >>
  /\ metas' = Tail(metas)
  /\ \/ json' = Append(json, Head(metas)) /\ UNCHANGED <<mpc, flushed>>
     \/ mpc' = "err" /\ UNCHANGED <<json, flushed>>
  /\ UNCHANGED <<input, past, bpc, evalVars, lines, pkgs, pkgsOpen, fetchVars, disk>>

FlushMeta ==
  /\ mpc = "recv" /\ metas = << >> /\ epc \in {"ok", "err"}
  /\ \/ mpc' = "ok" /\ flushed' = Len(json)
     \/ mpc' = "err" /\ UNCHANGED flushed
  /\ UNCHANGED <<input, past, bpc, evalVars, json, lines, metas, pkgs, pkgsOpen, fetchVars, disk>>

(***************************************************************************)
(* The process ends, after the build returned or by being killed: what is  *)
(* still buffered for packages.json is lost.                               *)
(***************************************************************************)
Exit ==
  /\ bpc # "idle"
  /\ bpc' = "idle" /\ epc' = "ok" /\ rpc' = "off" /\ mpc' = "ok"
  /\ pass' = 1 /\ job' = << >> /\ todo' = << >> /\ read' = 0 /\ records' = 0
  /\ lines' = << >> /\ metas' = << >> /\ pkgs' = << >> /\ pkgsOpen' = FALSE
  /\ json' = SubSeq(json, 1, flushed)
  /\ fed' = << >> /\ fedAll' = FALSE /\ cache' = NoCache
  /\ UNCHANGED <<input, past, flushed, files, filesState, disk>>

\* Time passes between builds.
Aged(e) == IF e = NoEntry THEN NoEntry ELSE [e EXCEPT !.age = Min({e.age + 1, MaxAge})]

Age ==
  /\ bpc = "idle" /\ \E p \in Paths : disk.entries[p] # NoEntry /\ disk.entries[p].age < MaxAge
  /\ disk' = [disk EXCEPT !.entries = [p \in Paths |-> Aged(disk.entries[p])]]
  /\ UNCHANGED <<input, past, bpc, evalVars, metaVars, lines, metas, pkgs, pkgsOpen, fetchVars>>

Eval == ReadLine \/ ChildExits \/ BeginPass \/ Recv \/ SendMeta \/ SendEntry
Meta == CreateJson \/ WriteMeta \/ FlushMeta
Fetch == Feed \/ FeedEnds
Build == NewFetcher \/ WriteListing \/ ListingsEnd \/ Drain \/ AwaitEval \/ AwaitMeta \/ Finish

Next == (\E w \in Inputs : Start(w)) \/ Eval \/ Meta \/ Fetch \/ Build \/ Exit \/ Age

(***************************************************************************)
(* Every task of the runtime that can run does; the child prints its lines *)
(* and exits.                                                              *)
(***************************************************************************)
Spec == Init /\ [][Next]_vars /\ WF_vars(Eval) /\ WF_vars(Meta) /\ WF_vars(Fetch) /\ WF_vars(Build)

-----------------------------------------------------------------------------
TypeOK ==
  /\ input \in Inputs /\ past \in BoundedSeq(Inputs, MaxBuilds)
  /\ bpc \in {"idle", "fetcher", "write", "drain", "eval", "meta", "finish", "ok", "err"}
  /\ epc \in {"pass", "recv", "meta", "send", "ok", "err"}
  /\ rpc \in {"off", "read", "ok", "err"} /\ mpc \in {"create", "recv", "ok", "err"}
  /\ Len(lines) <= LineRoom /\ Len(metas) <= MetaRoom /\ Len(pkgs) <= PkgRoom
  /\ files \subseteq Item /\ flushed <= Len(json)

(***************************************************************************)
(* The types, and what the path cache holds, in memory and on disk: only   *)
(* what some request for that path has brought (CachedSource keeps nothing *)
(* of a request that failed).                                              *)
(***************************************************************************)
Fetches(w) == w.pathCache /\ ~w.onlyEval
BroughtRefs(p) == \E i \in DOMAIN past : Fetches(past[i]) /\ Answer(past[i].narinfo[p]) = "ok"
BroughtTree(p) == \E i \in DOMAIN past : Fetches(past[i]) /\ Answer(past[i].ls[p]) = "ok"

CacheTruthful ==
  /\ TypeOK
  /\ \A p \in Paths, c \in {cache, disk} :
       /\ c.entries[p].refs => BroughtRefs(p)
       /\ c.entries[p].tree => BroughtTree(p)

(***************************************************************************)
(* What the evaluation had to say, in order: the available packages of the *)
(* passes that are run.                                                    *)
(***************************************************************************)
Spoken(ls, n) == FlattenSeq([i \in 1..n |-> IF Available(ls[i]) THEN <<ls[i]>> ELSE << >>])

Usable(i) == i = 1 \/ (~input.select /\ Starts(input.passes[i]))
OfPass(i) ==
  IF Usable(i) THEN Spoken(input.passes[i].lines, Len(input.passes[i].lines)) ELSE << >>
Said == FlattenSeq([i \in DOMAIN input.passes |-> OfPass(i)])

Attrs == [i \in DOMAIN Said |-> MetaOf(Said[i])]
Entries == FlattenSeq([i \in DOMAIN Said |-> EntriesOf(Said[i])])

\* The listings a build without a path cache writes when nothing fails.
Plain == Listings([Source(input, NoCache) EXCEPT !.input = Entries])

\* The cache has kept an answer for p that the network no longer gives.
Older(p) ==
  \/ cache.entries[p].refs /\ Answer(input.narinfo[p]) # "ok"
  \/ cache.entries[p].tree /\ Answer(input.ls[p]) # "ok"

(***************************************************************************)
(* A build that succeeds and whose metadata writer did not fail has whole  *)
(* results: all the metadata is on disk, and `files` has every listing     *)
(* that a build without a path cache would write, except a made-up one     *)
(* where the cache knows better (build, write_listings,                    *)
(* stream_package_entries, CachedSource).                                  *)
(***************************************************************************)
SuccessIsWhole ==
  bpc = "ok" /\ mpc # "err" =>
    /\ json = Attrs /\ flushed = Len(json)
    /\ ~input.onlyEval =>
         /\ filesState = "closed"
         /\ \A item \in Plain : item \in files \/ (item.body # Tree /\ Older(item.path))

(***************************************************************************)
(* A build that has begun returns, whoever fails: the channels are bounded *)
(* and three tasks wait on each other through them (index.rs 202-515).     *)
(***************************************************************************)
BuildEnds == bpc = "fetcher" ~> bpc \in {"ok", "err", "idle"}
=============================================================================
