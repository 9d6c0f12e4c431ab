# Verification of nixdex in TLA+

nixdex indexes the files of every package in nixpkgs and answers "which package
has this file, this command, this name".  This directory holds TLA+ modules
translated from its Rust source, the TLC configurations that check them on small
instances, and the theorems TLAPS proves about them for instances of any size.
`PROJECT.json` lists, for every definition, the lines of source it models, and
for every property one change of the code that would break it.

Run a module with `tlc -config X.cfg M` and its proofs with `tlapm M.tla`.
Paths below are relative to `src/crates/`.

## 1. The system

```
 nix-eval-jobs / nix-env          cache.nixos.org                release server
        |  packages                      |  narinfo, .ls               |  HEAD, Range GET
        v                                v                              v
  package evaluation -- roots --> closure fetcher                prebuilt download
        |  metadata                      |  listings                    |
        v                                v                              |
  packages.json                    index writer  --- writes --->  index directory  <---+
                                                                  files + sidecars
                                                                        |
                            +----------------+--------------+-----------+
                            v                v              v           v
                          locate            TUI          daemon      update
```

| Component | State it keeps | Operations | Shares with others | What is hard |
|---|---|---|---|---|
| Closure fetcher (`nixdex-core/src/listings.rs`) | work queue, deduplication map, `in_flight`, `input_done`, one-permit `Notify`, semaphore, output channel | feeder, dispatcher, one task per store path | takes the stream of packages, fills a bounded channel the build reads | end of work detected from a counter, a flag and a wake-up touched by three kinds of task; a receiver that may go away |
| Prebuilt download (`prebuilt.rs`) | `files.tmp`, `files.tmp.part-i`, `files` | HEAD, plan, probe, per-segment fetches, merge, serial fallback, validate, rename | a remote server that publishes at will; the index directory | the resource changes between requests; leftovers of interrupted runs; bounded retries |
| Index writer and build (`database.rs` 262-712, `index.rs`) | raw buffer, boundaries, frame ranges, frame map, ordinals, `finished` | add, flush a chunk, finish, drop | fetched listings in, the index directory out | state kept across chunks, parallel compression, `Drop` after an error, a live file truncated at the start |
| Index directory (`database.rs` 1842-2100, 3600-3930, `*_index.rs`) | `files`, about ten sidecars, their hashes | `generate_sidecars`, open | written by build, update and daemon, read by everything | each sidecar belongs to one generation of `files`, and several writers replace some of them |
| Reader and search (`database.rs` 720-1250, 2100-3500) | open files, n-gram cache | candidates from sidecars, frame lookup, scan | the directory, while it may be replaced | stale ordinals, cache at its capacity |
| TUI (`nixdex-tui/src`) | `App`, pending and dispatched query, memo of results, worker's open database | key events, debounce, dispatch, apply an outcome | event task, loop and worker thread joined by channels | late outcomes, one memo for several settings, modal panes that take keys |
| Daemon (`daemon.rs`) | resident snapshot, reload channel, status | load, refresh, signals, HTTP handlers | the directory, the release server, clients | signals during a refresh, snapshot against disk |
| Build pipeline (`index.rs`, `nixpkgs.rs`, `listings.rs` 100-220) | a child process, its reader, a streamer, a metadata writer, three bounded channels | `build`, `build_eval_only`, one pass per scope | feeds the fetcher, fills `packages.json`, ends with the writer | any task may fail first while the others wait for room or input |
| Hydra client (`hydra.rs`), path cache (`path_cache.rs`) | attempts; a cache file | request with retry; load, get, save | used by the fetcher, one build after another | which answers are kept, expiry |
| Regeneration (`database.rs` 3756-4046, `frcode.rs`, `files.rs`, `*_index.rs`) | decoder buffer, entries without a footer, the builders | encode, decode, scan, build each sidecar, look up | `files` in, sidecars out, over those of a build | lines cut by the end of a buffer; numbers that must mean the same package in every file |
| Requests (`daemon.rs` 500-1190, `daemon_client.rs`, `nixdex.rs` which / command-not-found, `package_search.rs`) | a snapshot per request; how far a client got | endpoints, finding or starting a daemon, falling back, running a package | clients and daemons that start, die and reload at will | an index that changes during a call; a daemon that never gets ready |
| Sidecar downloads (`nixdex.rs` 880-1420, `nixdex-history`, `nixdex-options`) | a temporary file per artifact, attempts | record, write, update, open | the release server, the index directory | each of two artifacts fails by itself after the index is installed |
| CLI (`nixdex-cli/src`) | none | index, locate, update, which | all of the above | |

What makes each component correct, beyond its types:

* *Closure fetcher*: the build gets the listing of every path of the closure,
  once, under the label its roots give it; the stream ends exactly then; every
  task ends.
* *Prebuilt download*: what is installed is one whole published index; an
  interrupted run never keeps a later one from installing; nothing is left behind
  by a run nobody interrupted.
* *Index writer*: a build that succeeds holds every package; one that fails or
  dies leaves nothing a reader takes for a whole index with holes; ordinals mean
  the same package in the frames, the frame map and the sidecars.
* *Index directory and reader*: a search over sidecars finds what a search over
  `files` alone finds, whichever generations meet in the directory.
* *Build pipeline*: a build returns whoever fails, and one that succeeds has kept
  nothing back; the path cache never holds what no request brought.
* *Regeneration*: what was encoded is decoded, wherever buffers end; sidecars
  answer what the listings say; over the files of a build nothing changes.
* *Requests*: an answer is true of one index the caller could have seen; a call ends.
* *Sidecar downloads*: what is installed can be read, and what is older than the
  server's is named; an update ends.
* *TUI*: what is on screen answers what is in the input line, and the spinner
  stops.
* *Daemon*: a request is answered from one snapshot; a refresh that finds a new
  index ends up serving it; signals are not lost.

## 2. Plan

In order of importance; all are done.

1. **Closure fetcher**: `StoreClosure` (data), `ClosureSpec` (abstract: what the
   build is promised), `ClosureFetch` (the protocol, shown to refine it),
   `TransferProofs`.
2. **Prebuilt download**: `SegmentedDownload`; its proofs are in `TransferProofs`.
3. **Index writer**: `IndexWriter`; its proofs are in `IndexBuildProofs`, which has the
   lemmas on concatenated sequences they share with those of the build.
4. **TUI**: `TuiSearch`, the loop, the event queue, the worker and the memo;
   `TuiSearchProofs`.
5. **Index directory**: `IndexDirectory`, which index each file of the directory
   describes, under builds, updates, `generate_sidecars` and death in any of them; its
   proofs are in `SidecarUpdateProofs`.
6. **Daemon**: `Daemon`, the refresh loop, the per-tag directories and the
   `current` link, the snapshot beside a local build; `DaemonProofs`.
7. **Search**: `IndexSearch`, the answer to a query from whichever sidecars there
   are against the files that match; `IndexSearchProofs`.
8. **Build pipeline**: `IndexBuild`, evaluation, fetcher and writer joined by their
   channels, with the retries of `hydra.rs` and the path cache from build to build;
   the fetcher is used through `StoreClosure`, which `ClosureFetch` implements;
   `IndexBuildProofs`.
9. **Sidecar downloads**: `SidecarUpdate`, history and options from their builders
   over the server to the reader; `SidecarUpdateProofs`.
10. **Regeneration**: `FrontCoding` (encoder and decoder), `FileTrees` (listings),
    `SecondaryIndexes` (builders and lookups of the sidecars), composed in
    `Regeneration`; `FrameCharts` (what the proofs say of a frame),
    `RegenerationProofs`, and `LookupProofs` for the lookups.
11. **Requests**: `PackageSearch` (search over package metadata), used by
    `DaemonRequests` (handlers, clients and daemons that come and go); its proofs are in
    `DaemonProofs`.

Runs: one passing run per component, and a violation run of the writer, where the code
contradicts a comment of its own without any fault of its surroundings.  An `MC` module gives the constants that
are not atoms; a module without one is checked as it is.

Theorems (TLAPS), one invariant per component from which its properties follow:

| Module | Theorems |
|---|---|
| `TransferProofs` | `TypeCorrect`, `TypeAndCount`, `WakeUpsArrive`, `NeverClosesEarly`, `OnlyDeserved`, `KeepsPromise`; of the download `InstalledIsWholeLength`, `RunsTidyUp`, `FreshRunsInstallOneIndex` |
| `TuiSearchProofs` | `WaitsForWhatIsComing`, `ScreenIsLastAsked`, `RefreshReadsAnew` |
| `DaemonProofs` | `ReloadsAreKept`, `OnlyWholeIsLoaded`; of the requests `AnswersAreTrue`, `SearchesAreTrue` |
| `IndexSearchProofs` | `CacheIsExact`, `NoMatchIsHidden`, `SidecarsAnswerLikeScan` |
| `IndexBuildProofs` | `CacheHoldsOnlyAnswers`, `SuccessWritesAll`; of the writer `WriterKeepsPrefix`, `LookupsAreExact` |
| `SidecarUpdateProofs` | `SidecarsAreReadable`, `OlderSidecarsAreNamed`; of the directory `TypeCorrect`, `Sound`, `Certifying`, `Settling` |
| `RegenerationProofs` | `RegenerationDecodesWhole`, `RegenerationReproduces`; of the coding `DiffDecodes`, `EncodeCharted`, `MetaReads` |
| `LookupProofs` | `RegenerationAnswers` |

## 3. Closure fetcher

`fetch_listings_with_source` starts a *feeder* that takes packages from the
evaluation and keeps the first entry of each store path, a *dispatcher* that pops
entries and spawns one task for each, and the *tasks*, which fetch a narinfo and a
listing and queue the references nobody has seen.  The dispatcher leaves when it
finds the queue empty, `input_done` set and `in_flight` zero; between finding the
queue empty and sleeping on the `Notify` any other task may run.

`StoreClosure` describes one input (`Worlds`): the packages in the order they
arrive, each path's references, and what the cache answers to the two requests a
path needs, `ok`, `not_found` or `error` (the retry loop of `hydra.rs` has then
already ended).  `ClosureOf` is the closure of the roots by references the cache
lets the fetcher see, and `Wanted` the listings they deserve.  `ClosureSpec` is
the promise; `ClosureFetch` is the code, with one action per atomic access:

| Variable | In the code |
|---|---|
| `fpc`, `fed`, `roots` | the feeder, the packages it has received, its local vector |
| `queue`, `seen`, `program` | the mutex-protected queue and the deduplication map with its main programs |
| `inFlight`, `inputDone`, `permit` | `in_flight`, `input_done`, the `Notify`'s stored permit |
| `dpc`, `dentry` | the dispatcher and the entry it holds while it waits for a permit of the semaphore |
| `wpc`, `wentry`, `wtodo`, `wref`, `witem` | one task per semaphore permit |
| `out`, `received`, `stream` | the channel of `2 * jobs` listings, and the build at its end |

The order of references in a narinfo is left open (`wtodo` is a set), which covers
every order.  The build reads at any pace and may drop the receiver at any moment.

Run `closure_fetch` (133 thousand states): seven inputs on two jobs.  They are
chosen for their cases: a cycle, a root that is also a reference and whose program
comes later, requests that fail, a missing narinfo, a shallow run, more listings
than the channel holds, an empty input.  Two tasks are enough for every pairwise
race, and the third party of each race, feeder or dispatcher, is always there.

* `InFlightExact`: `in_flight` is the number of entries queued, held, being
  processed or about to be queued, at every instant.
* `NoEarlyClose`: the stream is closed only when the paths seen are the closure.
* `NoLostWakeup`: the dispatcher never sleeps over work with no wake-up coming.
* `OnlyDeservedListings`: labels and programs do not depend on the order in
  which paths are reached.
* `Promise`: `ClosureSpec`, safety and liveness, under the refinement
  `delivered <- received`.
* `TasksEnd`: all tasks end and free their permits, also when the receiver is
  dropped while they wait for room.

Fairness is weak fairness of the feeder, the dispatcher, each task and the
build's receiving: tokio runs a task that can proceed, requests end (reqwest has
time-outs), and the evaluation stream ends.  None is assumed of dropping.

### Proofs (`TransferProofs`)

For any finite set of jobs, any paths and any inputs:

* `TypeCorrect` and `TypeAndCount`: types, and `InFlightExact`, which is inductive
  with `TypeOK`.
* `WakeUpsArrive`: `NoLostWakeup`.  `WakeInv` follows the dispatcher from the empty
  queue to its sleep: whoever makes its reading of queue, flag or counter out of date
  still has its `notify_one` to send, or the permit is stored.
* `NeverClosesEarly`: `NoEarlyClose`.  The count alone does not say why a zero
  count means that the work is over: `ShutdownInv` adds the order of the
  shutdown (the flag is set after the roots are queued, and once flag and zero
  have been seen nothing can raise the count), and `SeenInv` that every path
  seen is either pending or has had all its references seen.  With nothing
  pending the paths seen are closed under references, lie in the closure and hold
  its roots, hence are the closure.
* `OnlyDeserved`: `OnlyDeservedListings`.  `ProgramInv` says that the program
  stored for a path is the first one named by the roots fed so far, `LabelInv`
  and `ListingInv` carry label and program along queue, dispatcher, tasks and
  channel.

* `KeepsPromise`: the safety half of `Promise`.  Under its mapping every behaviour of
  `ClosureFetch` begins as `ClosureSpec` does and takes its steps: the receiver's step
  is `Deliver` of one listing that is still owed, the closing of `files` is `Finish`,
  and every other action stutters.  `OnceInv` says that each path is in one place
  (queued, with the dispatcher, in a task, in the channel or received) and in that
  place once, `AnswerInv` that what a task holds is what the cache says of its path,
  and `NothingLost` that a path seen whose listing is deserved is in some place:
  with none pending and the channel empty, all of them have been received.

The assumptions are those of `StoreClosure` and `ClosureFetch`: a finite non-empty
set of permits, and inputs of the stated shape.  Liveness, hence the rest of `Promise`
and `TasksEnd`, is checked by TLC only.

## 4. Prebuilt download

`SegmentedDownload` models `download_index_file` run again and again on one
destination, which is what `nixdex-index --download-prebuilt` does (its
destination is always `<database>/files`).  A file is the sequence of its bytes,
and a byte is the pair of the published index it comes from and its offset:
whatever the parts are merged from can then be seen.  A history says which indexes
the server publishes, in order, with length, tag and header; `Publish` may happen
between any two steps.

| Variable | In the code |
|---|---|
| `tmp`, `part`, `dest` | `files.tmp`, `files.tmp.part-i`, `files` |
| `pc`, `plan`, `attempt`, `step` | `try_segmented_download`: what HEAD told, the round, the part at hand |
| `body`, `task` | the response being streamed by the main task and by each spawned fetch |
| `first`, `clean`, `interrupted` | history variables for the properties |

Any request may fail, any response may be cut, and the process may be killed,
each counting against `MaxFaults` = 3: one fault leaves a leftover, a second one
disturbs the run that finds it, a third one the run after.  Lengths of up to five
bytes over segments of at least two give plans of one, two and three segments, with
and without a remainder.

Run `segmented_download` (291 thousand states):

* `NeverShort`: the types, and what is installed has the length of a planned index,
  even when it was put together from leftovers.
* `LeftoversOnlyWhenInterrupted`: part files outlive a run only after a crash or
  after the response to the first segment was cut.
* `FreshInstall`: a run that found no leftovers installs one whole index that the
  server published during the run, never a mixture.
* `EventuallyCurrent`: once the server publishes nothing new and faults have
  stopped, the current index gets installed.

Fairness: the process goes on, and is run again after a failure (weak fairness of
the download's own steps and of `Again`); none of faults or of `Publish`.

### Proofs (`TransferProofs`)

For any histories of published indexes, any segment size, attempts and faults, from
the assumption of the module that a tag names one index: `InstalledIsWholeLength`,
`RunsTidyUp` and `FreshRunsInstallOneIndex`, the three safety properties.  The plan
of a run is of the index that was published when HEAD was answered.  For the length,
a response stays inside its segment, a part that counts as complete has the length of
its segment, and the lengths of the parts merged so far add up to the start of the
next.  For the origin, part 0 is always written by the run itself, and in a run that
found nothing every byte on disk carries the tag of the plan: the request asked for
it with `If-Range`, and `HonorsRange` refuses another.

## 5. Index writer

`IndexWriter` models `Writer` and the loop in `index.rs` that feeds it.  A listing
is its number and the bytes its entries take (none: it is skipped); a frame is the
sequence of packages in it.  `mode` tells whether a flush was called by the build,
by `finish` or by `Drop`; errors may come from any write, the evaluation or the
check of the frame map, and `Drop` then runs `do_finish` on what is left.  The
reader's side, `Opens` and `Scan`, is what `Reader::open` and `search_entries` make
of the files.

Run `index_writer` (251 thousand states): every build of at most five listings of
0, 1 or 3 bytes, chunks of 4, both formats, one to three threads; a crash at any
step.  Five listings fill a chunk twice and leave a rest.

* `OpenableIsPrefix`: a file that opens, whatever ended the build, is a prefix of
  the packages with entries, in order, without a hole and under the same ordinals
  everywhere; after a build that succeeds it is all of them.
* `LookupExact`: for any ordinals of the basename sidecar, reading the frames the
  map names finds exactly the packages meant.

Both are proved for listings of any number and sizes, any number of threads and any
chunk size.

Deadlock is not checked: a build ends.  There is no liveness to check either: the
writer is sequential, and what it waits for belongs to the pipeline.

Run `writer_flush` is a disagreement with the comment on `flush_chunk`: the second
flush of a non-empty chunk fails the build although nothing went wrong, because
the check of the frame map uses the ordinal of the whole build as an index into
the boundaries of one chunk (`FailsOnlyOnFailure`).

### Proofs (in `IndexBuildProofs`)

`WriterKeepsPrefix` and `LookupsAreExact` follow from `WriterInv`.  In every state one
of two things holds, and neither property is inductive without the distinction:

* `Whole`: the packages recorded in the sidecars' source are those of the frames in the
  file, then of the frames to write, then of the buffer, in this order; and the frame
  map says of each ordinal the frame, written or to be written, that holds it (`Maps`).
  The sidecars are only written once buffer and pending frames are empty.
* `Lost`: a flush or a write has failed, and what it took is gone.  The map then names a
  frame at or beyond the end of the file, which `write_frame_map` refuses, so that
  neither it nor the sidecars are written afterwards: this is why the wreck that `Drop`
  completes never gives an ordinal a package of another.

`FrameRanges` is the point where data enters: that its frames, laid one after the other,
are the buffer again and that none is empty (`RangesHoldAll`) is proved from the first
package after which it would fail.  Over concatenated frames `FrameEnd` rises, so a
place is in one frame only (`WithinOne`), and the first ordinal mapped to a frame is
the frame's first package (`StartOfFrame`), which is what `compute_frame_starts`
relies on.  The check of the frame map may pass or fail in the proof: neither theorem
depends on it.

## 6. Interactive search

`TuiSearch` models `run_tui` and what it calls: each branch of its `select!` and
each key handler is one action, and the worker thread is another process with two
unbounded channels between.  A key first goes through `handle_input_event`, which
edits or retires the query, and then to whatever is in front, a pinned pane taking
it alone; `Type`, `Backspace`, `Escape` and `Tab` are those compositions.  Rows are
named by the request they answer and the generation of the index they were read
from, so that rows of another query, mode or index can be told apart.

| Variable | In the code |
|---|---|
| `mode`, `matching`, `input`, `rows`, `pane`, `help` | `App`'s mode, fuzzy/regex, query line, results, detail pane, overlay |
| `active`, `lastId`, `cache` | `active_request`, `next_request_id`, `search_cache` |
| `pending`, `deadline`, `dispatched` | the debounce: `pending_query`, whether its timer is set, `dispatched_query` |
| `requests`, `outcomes`, `handle` | the two channels and the worker's open database |
| `built`, `loop` | the index on disk, whether the loop runs or waits for the worker |
| `asked`, `fresh` | history variables for the properties |

The expiry of a cached answer is left to chance (an answer in the memo may be too
old at any time), which covers every `cache_ttl`; fuzzy and regex differ only in
what they match, so one of them stands for both.  Selection, scrolling, the mouse,
the clipboard, the theme and the display toggles are left out: no search depends
on them.  A worker that panics is left out, and with it the closed channel.

Run `tui_search` (315 thousand states): four keys (and the one that takes back a
pin) over queries of at most two
characters and one rebuild of the index.  Three keys let an answer arrive after
its query was edited away and asked again, or come from the memo while another is
on its way; the fourth adds a mode, a setting or a refresh to that.

* `ActiveIsComing`: the types, and the request the screen waits for is queued or
  answered.
* `ShowsLastAsked`: rows of one mode never show in another, however late they come,
  and with nothing in flight the rows answer what was asked last.
* `RefreshIsFresh`: after Ctrl+R neither screen nor memo shows an older index.
* `SpinnerStops`: a search shown as running ends.

Fairness: weak, of the debounce, of applying an outcome and of the worker.  tokio
polls the branches of a `select!` in random order and neither a search nor a key
blocks the loop; none is assumed of keys.  Deadlock is not checked: the user may
rest for ever, and the loop ends.

### Proofs (`TuiSearchProofs`)

For any characters, any length of queries, any number of keys and rebuilds:
`WaitsForWhatIsComing`, `ScreenIsLastAsked` and `RefreshReadsAnew`.  Requests are
numbered in the order they are sent, so only the last can be active, and its answer is
in one of the channels or in the worker's hands.  A refresh leaves a stale database
open in the worker; the invariant says that the reload lies in the channel before
every request sent since, and that an answer to an older request is no longer active.

## 7. Index directory

`IndexDirectory` models what surrounds `files`: the operations that write into the
directory, one file at a time and in the order of the code, and the decision of
`generate_sidecars` whether anything has to be written.  The content of a file is
the index it was made from; two indexes with the same frames have the same hashes,
and the model tells them apart only where the code does.

| Variable | In the code |
|---|---|
| `disk` | `files`, `files.frame_hashes` and the sidecars: missing, cut, or of some index |
| `proc` | the running operation: an update past its rename, a regeneration or a build at its n-th write |
| `overtaken` | history: some sidecar was written since the hashes were |
| `started`, `deaths` | operations started and died, for the bounds |

`Install` and `Generate` are `run_update` (the download is `SegmentedDownload`),
`Generate` alone is `nixdex generate-sidecars`, `Build` is `nixdex index` (the inside
of the build is `IndexWriter`).  Each `Write` is one `File::create` and the content;
`DieWorking` ends any of them between two writes or in the middle of one, and
`RemoveFile` takes a sidecar away.  `Files` names one member for the two to five files of each
sidecar, since one function writes them all; a regeneration requires each of them.

Assumptions: `DirectoryAssumption`, that each index has a version and a sequence of
hashes and that equal hashes mean equal versions (a version 1 file is one stream,
no frame of a version 2 file).  One operation at a time: nothing in the code locks
the directory, and nothing in it or its documentation promises more.

Run `index_directory` (266 thousand states): four operations, two deaths, a release
in version 1, a build in version 2 and a release that has only the first frames of
it.  Three operations bring the directory from one index to another and back to the
first; the fourth is the regeneration that has to judge the result.  Two deaths let
a regeneration be cut and its repetition be cut again.

* `SoundUntilOvertaken`: an index that `generate_sidecars` calls up to date has every
  sidecar, whole and its own, unless something was written under its hashes.
* `HashesCertify`: hashes are only put on disk over a complete set of sidecars.
* `RebuildSettles`: after a rebuild the next check finds nothing to do, for both
  versions.

Deadlock is not checked: operations run out.  There is no liveness: a directory
whose hashes were cut after their header stays broken until somebody removes the
file, and no line of the code promises otherwise.

### Proofs (in `SidecarUpdateProofs`)

For any set of indexes, any versions and frames, any number of operations and
deaths: `TypeCorrect`, `Sound`, `Certifying` and `Settling`, each a property of the
run.  None of the properties is inductive.  `DirectoryInv` adds to `DirectoryTypeOK`

* `Progress`: what a regeneration has written so far describes the index it works
  on, and from its first write on the hashes count as overtaken;
* `Certified`: while they are not overtaken, every sidecar that a rebuild of *the
  index of the hashes* writes is missing or describes that index.  It speaks of the
  hashes and not of `files`, because an update replaces `files` alone.

`NothingChanged` (no changed frame means the same frames) and `GeneratedOrder` (what
is required is what is written, hashes last) then turn an up-to-date check into
`AllDescribe`.

## 8. Daemon

`Daemon` models `daemon::run` in both modes.  In local mode every turn of the loop
opens the files of one directory; in prebuilt mode it first asks the server for the
tag of the newest index and, when that differs from the name `current` points at,
downloads it into a directory of its own, regenerates its sidecars and moves the
link.  The HTTP handlers appear by what they do to the loop, `PostReload`, and read
`snapshot`, which the loop replaces as a whole.

| Variable | In the code |
|---|---|
| `mode`, `tagged` | the configuration; whether the server sends an ETag or Last-Modified |
| `published` | the newest release (external) |
| `dirs`, `link`, `tmp` | the directories with the index each file was made from, `current`, `current.tmp` |
| `pc`, `job`, `opened` | the loop, the directory and index of a running refresh, the files opened so far |
| `snapshot` | `IndexState.index` |
| `reload`, `heard` | the channel with one slot; what the listeners of this `select!` have received |
| `asked` | history: a reload was posted and no refresh has begun since |
| `builder`, `builds`, `faults` | `nixdex index` at its next file; counters for the bounds |

Other modules supply the parts as abstractions: a download is what `FreshInstall` of
`SegmentedDownload` shows of a run without leftovers, one whole index published
while it ran; a regeneration writes, in order, what `IndexDirectory` writes, with all
the sidecars of one function as one file; a build is its order of truncating and
writing.  A file being written is `Cut`, and whether a cut one opens is left open,
except hashes and `files` in a regeneration, which are an error.

Any number of signals and reload requests may come, at any moment; the state stays
finite without a bound.  The rest is bounded: two releases (a refresh overtaken by a
release, with both directories there), two local builds (a mixture of two, and the
second finishing over it) and two faults (a failure that leaves something, and one in
the run that meets it).  A fault is a failed request or write, a crash or a build
that dies.

Run `daemon` (472 thousand states):

* `ReloadKept`: a posted reload survives a running refresh, in the one slot there is.
* `LoadsWhole`: in prebuilt mode only a whole published index is ever loaded, though
  a failed regeneration may leave the directory behind `current` torn.
* `CurrentFollows`: `current` comes to the newest release, past failures and leftovers.
  Two cases are excepted and are behaviour of the code: hashes that were cut (every
  regeneration of that directory fails until somebody removes them) and a server
  without tags (an index once there is never replaced).
* `LocalServed`: the index of a finished build comes to be served, whatever mixture a
  reload in the middle of the build put into the snapshot.

Fairness: weak, of the loop (the timer ticks) and of the steps of a refresh (requests
end by time-outs); none of signals, reload requests, releases, builds or faults.
Deadlock is not checked: the daemon stops on a signal.

### Proofs (`DaemonProofs`)

For any number of signals, releases, builds and faults: `ReloadsAreKept` and
`OnlyWholeIsLoaded`.  For the second, `Certified` says of every directory that its
hashes are never newer than the `files` beside them, and that where the two are of one
release the directory is whole; `Progress` says how far the refresh has brought the
directory it works on, so that the link is only moved to, and files only opened from, a
whole one.

## 9. Search

`IndexSearch` models `search_results_with_reader`: one `Reader`, which keeps its
sidecars and its cache of candidate sets, answers any sequence of queries.  It takes
all sidecars to be of the reader's index; which generation they are of is the subject
of `IndexDirectory`.

A path is a sequence of characters and a trigram `Gram` of them, so trigrams,
prefixes and basenames are the real ones at a small scale.  A pattern is literal text
or two texts with `.*` between them.  `process_args` (command line) and the handler of
`/nix-locate` translate a query differently; `client` tells which one did.

| Definition | In the code |
|---|---|
| `Literal`, `ExactBasename`, `ExactPath`, `PathPrefix` | what the client makes of pattern, `--regex`, `--at-root`, `--whole-name` |
| `RegexPrefix`, `RegexSuffix` | the literals taken from the syntax tree |
| `BaseOrdinals`, `NgramOrdinals` | candidate packages by basename, path and trigrams |
| `ResolveCached`, `Resolve` | `resolve_ngram_ordinals_multi` and its LRU cache |
| `FromPathEntries`, `FromEntries`, `FromTrigrams`, `FromPaths` | the shortcuts, in the order they are tried |
| `Scan`, `ScanBlock` | `search_entries`: frames with candidates, block by block |
| `Answer`, `FirstOf` | filter, sort, truncate |

Sidecars answer by what they contain (`BasenameOrdinals`, `GramOrdinals`, ...); how
they are encoded is left out.  `Admits` stands for the filters that look at a package
and not at the path.

Run `index_search` (91 thousand states): three packages in one frame or two, the
second a package whose files are found under the basenames of the first; ten sets of
sidecars, none, those of a build, all, and all but each one; every combination of
flags over six texts and eighteen expressions, a limit of 1, a sort by size.  The
trigram shortcut gives up above two paths, so it is taken and refused.  Blocks of one
line, two lines and the whole frame put the end of a block at every place.  The cache
holds one entry, so every new key evicts one.

* `CacheExact`: candidates are the same whether computed or remembered, whichever
  queries came before, and the cache stays within its capacity.
* `NothingHidden`: the types, and without a limit every file that matches is found.
* `AnswersLikeScan`: for the queries in `WholeQuery`, the answer is exactly the files
  that match, and a limit keeps the first of the order that was asked for.

`NothingHidden` excepts expressions with a group that is literal in part, `(a.*)b`:
the code appends what follows the group to its literal beginning and then looks for
`ab`, so it does hide matches.  What `WholeQuery` leaves out is what the code answers
more widely than its regular expression: `-w` with a `/` gives every file of that
basename when the entry sidecar is there, `--at-root -w` without a leading `/` finds
the path only from the path entries (the pattern has no `/` and a path begins with
one), and an expression with one literal, or with nothing but one, is answered by the
trigram shortcut with every path that contains it.  These are limits of the code the model shows,
not of the model.

### Proofs (`IndexSearchProofs`)

`CacheIsExact`: `CacheExact` for any index, sidecars, queries and capacity.  Every
entry of the cache is the candidate set of some query under that query's key, and two
queries with one key have the same candidates (`SameKey`), so it does not matter which
of them put it there; least recently used entries go before the capacity is passed.

`NoMatchIsHidden` and `SidecarsAnswerLikeScan`: `NothingHidden` and `AnswersLikeScan`
for any index, any sets of sidecars, any queries, any trigram length and limit, and
blocks of any width.  Both follow from what the step that answers is given (`Good`): a
set of files in which every match is, and nothing else when the query is in
`WholeQuery`.  One part of the proof for each way to answer:

* *Candidates.*  What a query matches is somewhere in the path (`MatchContains`,
  `MatchRooted`, `MatchPath`): an occurrence brings all its trigrams (`GramsInside`), a whole
  name with a slash in it has the basename of the path, an anchored text is its
  prefix.  So no set of candidates leaves out a package with a match
  (`CandidatesKeep`), and, by `SameKey`, no remembered one does.
* *Shortcuts.*  `ByPath`, `ByName`, `ByTrigrams` and `ByLiteral` say which files each
  one finds.  Stopping at the limit and cutting again afterwards is cutting once,
  provided nothing is sorted (`CutTwice`): here `StopsEarly` is needed.
* *The scan.*  Frame numbers rise by at most one, so a frame is an interval of packages
  (`FrameIsInterval`) and its lines are the packages' files and footers in order, the
  k-th footer that of the k-th package (`Written`, `FrameLines`).  `Scanned` is what the
  scan keeps true wherever a block ends: packages counted so far, matches still without
  a footer, and the files reported are those whose own footer was read, under that
  package.  `ScanOneBlock` carries it over a block of any width, `ScanExists` and
  `AllBlocks` over all of them, and `ScanFrameIs` concludes that a frame yields exactly
  its matching files that were asked for.

Where a text book would use induction (over lines, packages or blocks) these proofs
take the least number that would fail, which well-foundedness of < gives (`Smallest`).
Assumed is what the writer guarantees: texts are finite sequences, a package has
finitely many files, each path begins with `/`, and a package is in the frame of the one
before it or in the next.

## 10. Build pipeline

`IndexBuild` models `IndexBuilder::build`, one build after another over one directory.
`nix-eval-jobs` prints lines, a reader passes them on, a streamer makes metadata and
package entries of them, a metadata writer fills `packages.json`, and the build hands
the entries to the fetcher and its listings to the writer.

| Variable | In the code |
|---|---|
| `input` | what one build finds: the passes (root set, then scopes) with their lines and exit, the options, and the answers of the cache to each attempt |
| `bpc` | `build` / `build_eval_only`: the await it is at |
| `epc`, `pass`, `job`, `todo` | `stream_package_entries`: the pass, the job of the moment, its outputs not yet sent |
| `rpc`, `read`, `records` | the thread that reads the child's output, and its counter |
| `mpc`, `json`, `flushed` | the metadata writer, `packages.json`, and how much of it has left the buffer |
| `lines`, `metas`, `pkgs`, `pkgsOpen` | the three channels, and whether the last one has a receiver |
| `fed`, `fedAll`, `files`, `filesState` | what the fetcher was fed; the listings in `files` |
| `cache`, `disk`, `past` | the path cache in memory and saved; history: the inputs of all builds so far |

A run of the fetcher is used through `StoreClosure`: it writes, in any order, the
`Listings` of the closure of what it was fed, which is what `Promise` of section 3
shows.  `Answer` is `get_with_retry` over the outcomes of the attempts, `Source` is
`CachedSource`: a live half of a cache entry is as good as a request.  `Exit` is both
the end of the process and its death at any moment.

Run `index_build`: eight inputs over three paths (a scope that fails and one that
adds a package; the same packages later, when the network no longer answers;
evaluation only; another nixpkgs and a shallow run; a child that does not start, one
that fails at once, one whose output cannot be read; an invalid scope without a path
cache), two builds in a row in any combination, channels of one place, two attempts,
ages up to 2 against times to live of 1.  A channel of one place is the smallest in
which a sender waits, and both neighbours of each are there; two builds are one to fill
the path cache and one to read it.

* `CacheTruthful`: the types, and the path cache never holds references or a listing
  that no request for that path brought, though an entry joins two requests of
  different builds under one age.
* `SuccessIsWhole`: a build that succeeds, and whose metadata writer did not fail, has
  all metadata on disk and every listing that a build without a path cache writes; only
  a made-up listing may give way to what the cache has kept.
* `BuildEnds`: a build that has begun returns, whichever task fails while the others
  wait for it.

Fairness: weak, of the streamer with its reader, of the metadata writer, of the feeder
and of the build: tokio runs tasks that can proceed, and the child prints its lines and
exits.  Deadlock is not checked: builds run out.

### Proofs (`IndexBuildProofs`)

`CacheHoldsOnlyAnswers`: `CacheTruthful` for any inputs, capacities, attempts and number
of builds.  What a request has brought stays brought, since `past` only grows; a run's
entry for a path has a half either from the live entry before it or from its own `ok`;
and `Underway` ties the running build to the last element of `past`, which is what makes
its own answers count.

`SuccessWritesAll`: `SuccessIsWhole` under the same assumptions, from `WInv`:

* `InPass` places the reader: the lines in the channel, and the one the streamer has at
  hand, are the next of the pass, and the passes before it are over.
* `Told` accounts for what the streamer has heard so far: its attributes are those
  written, then those in the channel, then the one to be sent, in this order; its
  package entries are those fed, queued and still to be sent.  A writer that failed
  excuses the first half.
* `Progress` says how far the build is: past each await, the task waited for has ended
  and its channel is empty, so that at the end `Told` is about all lines of all passes.
* `WholeFiles` compares the run with one without a path cache.  The cache answers
  whatever a request answered (`CacheKeeps`), so the closure is at least as large
  (`CacheReaches`) and each listing is the same or replaces a made-up one
  (`ListingsAreEnough`).

The concatenations in the statement are recursive functions.  Induction over data being
out of the prover's reach, what they compute is proved from the smallest index at which
it would fail (`Smallest`, `FlatteningAgrees`).

## 11. Sidecar downloads

`SidecarUpdate` models the version history and the options from `HistoryBuilder` and
`OptionsBuilder` through the release server to `run_update` and the readers.

| Variable | In the code |
|---|---|
| `history`, `options` | the builders: versions of an attribute with their dates; a description, as its number of `"\| "` prefixes |
| `body`, `digest` | the published files, and the release each published digest is of (external) |
| `upc`, `art`, `attempt` | `run_update`, `download_sidecars`, `download_sidecar_once`: step, artifact, attempt |
| `got`, `tmp`, `dest` | the body received, the temporary file, the sidecar |
| `failed`, `stale` | the artifacts that failed; those the warning names as kept |
| `opened` | where the file is that an update has open: still under the temporary name, already under the sidecar's, or without a name |
| `begun` | history: the releases on the server when the run began |
| `beside` | history: the updates during which another ran |
| `shared`, `spoilt` | history: names whose temporary file two updates have had at once; names installed from such a file |

Any number of updates run in one directory, and nothing in the code keeps them apart:
the temporary file of a sidecar has one name (`sidecar_temp_path`).  An update creates
or truncates it, fills it and renames it, and each step may fall between those of
another.  What is open stays open under whatever name the file has by then, or none; of
a file that two have filled the outcome may be cut, which stands for a mixture.

Body and digest are published one after the other, so a client may see new bytes under
an old digest.  A step on the disk or a request may fail at any attempt, a body may be
cut, a temporary file may be left cut, and the process may die at any step and be run
again.

Run `sidecar_update` (628 thousand states): two updates with two attempts per artifact,
two releases, two records; the updates are of one process, one after the other, or of
two, also at once.  Two attempts are one that leaves something and one that finds it;
two releases make an older sidecar; two records of two dates come in either order; two
at once are every pairwise race.  The second process takes part while no more than one
entry is recorded or one file published (`SmallOrAlone`): what a file says is of no
account to the races.  A step of a running update leads out of that bound in no case, so
fairness is that of the code.

* `InstalledReadable`: the types; what lies under a sidecar's name opens, and its
  histories come newest first in whatever order they were recorded.  What was installed
  from a temporary file two updates had at once (`spoilt`) is excepted, until one that
  has the file alone installs the next.
* `WarnsWhenOlder`: an update that ends well leaves a sidecar no older than what the
  server had when it began, or names it.  Excepted is an update during which another
  ran, since the other may put back what it asked for earlier, and what is spoilt.
* `UpdateEnds`: attempts are bounded.

The exception of `InstalledReadable` is needed: without `spoilt` it fails in this run.
One process has filled the temporary file and is about to rename it; the other truncates
it for its own; the first renames a file with nothing in it.  The comment at
`nixdex.rs:1366` promises that a download that does not match "never becomes a file
another process could pick up".  `beside` is needed when two releases meet two updates at
once (with `SmallOrAlone` taken away), `spoilt` in `WarnsWhenOlder` when three processes
do; of those the theorems below speak.

Fairness: weak, of the steps of a running update; none of starting one.  Deadlock is
not checked: runs are counted.

### Proofs (`SidecarUpdateProofs`)

`SidecarsAreReadable` and `OlderSidecarsAreNamed`, for any versions, dates, caps and
attempts, any number of runs and any number of updates at once.  The invariant:

* Published releases only grow, so a whole body received is of at least the release the
  run began with (`Begun`, `Fetched`).
* Of a temporary file that is not shared, at most one update is between creating and
  renaming it (`Alone`), and it holds what that update left: nothing yet, or the body it
  received, or it is gone because another, giving up, removed it (`Holding`).  So what a
  rename installs from it is whole.
* Who still has a file open that another has renamed shares it (`Holding` again), so
  what it writes goes to a spoilt sidecar and to no other.
* Two updates that run are both excepted (`Solo`); the others have, of each artifact they
  are done with, a failure on record or a sidecar as new as their beginning (`Settled`).
  That stays when they have ended, for whoever installs later asked later (`Later`).

`Recorded` keeps a history sorted (the position of the first older entry exists because
`Dates` are naturals).

## 12. Regeneration

`Regeneration` follows packages from their listings into `files` and back:
`FileTrees` turns a listing into entries and an entry into a line, `FrontCoding` encodes
the lines and decodes them again, the scan puts packages together from the lines, and
`SecondaryIndexes` builds the files of each sidecar and looks things up in them.

| Definition | In the code |
|---|---|
| `Tree`, `ToList`, `EncodeMeta`, `DecodeMeta` | `hydra.rs` listings, `FileTree::to_list`, `FileTreeEntry` |
| `Encode`, `EncodeDiff`, `SharedLen` | `frcode::Encoder` |
| `Call`, `Fill`, `Take`, `Entry`, `Full`, `AtEnd` | `frcode::Decoder::decode` and `read_to_nul`, `copy_shared`, `ensure_len` |
| `Scan`, `ScanLine`, `Parses`, `IsFooter`, `EntryOf` | `scan_decoder_for_packages`, one line of a block in each step |
| `NextFrame`, `NextMap`, `Scanned` | one decoder for each frame, and the rebuilt frame map |
| `Writes`, `WriteFile`, `DieWriting` | `write_sidecars` of each builder, one file at a time |
| `BasenameFiles`, `PathFiles`, `EntryFiles`, `PathEntryFiles`, `NgramFiles`, `PathTrigramFiles`, `CommandFiles` | the builders |
| `LookupLabels`, `PathPrefix`, `PathEntries`, `CandidateOrdinals`, ... | the readers |

A byte of a difference is a number below `Base`, 4 instead of 256: the marker, the last
difference of one byte and the largest of two are then reached by paths of a few
characters, and a byte of a difference may look like a NUL or a newline, as in the code.
`InputsAssumption` says what listings and store paths are made of: names and targets
of any bytes, what is above a node in its listing, sizes and numbers of children of one
digit, the JSON of a store path free of NUL and newline and in the input once (the
fetcher asks for no store path twice), and no separator among the characters that the
program puts into a line itself.  `LookupsAssumption`: a trigram has a character, a bin
directory ends with a slash, and what is looked up is not empty.
`Sizes` are the sizes the buffer may start with, `Pieces` what a streaming decompressor
may hand out at once: lines, differences and shared prefixes are cut at every place.  A
footer is one character per store path, with as many more as needed to keep it from
looking like another's.

Run `regeneration` (19 thousand states): two inputs (commands whose paths share a prefix, with one excluded
and one with a newline in it; paths that share more than a difference of one byte
holds, and a listing that is refused), versions 1 (one frame, streamed) and 2 (a frame
per package), over nothing, over the sidecars of the build itself and over those of an
earlier index, with death between any two files.

* `DecodesWhole`: the decoder stays within its buffer and input, what the scan records
  is a prefix of what the writer recorded and in the end all of it, and a frame in
  memory never fails.
* `SidecarsAnswer`: a lookup in a sidecar whose files are all of this regeneration, or
  all of the build, answers what the listings say.
* `Reproduces`: over the sidecars of the build itself a regeneration writes what is
  there, file for file, so that it may die anywhere.

`DecodesWhole` allows a streamed frame to end in an error: when the footer of the last
package is cut at a full buffer, the decoder reports a missing NUL on a valid stream
(section 14).  There is no liveness: the code is sequential.  Deadlock is checked.

### Proofs (`RegenerationProofs`, `LookupProofs`)

`RegenerationDecodesWhole`, `RegenerationReproduces` and `RegenerationAnswers`, the three
properties of the run, for any inputs and packages of any number, any even `Base` of at
least 4, any starting sizes of the buffer, any pieces, any number of packages in a frame,
any length of a trigram, any bin directories and any texts looked up, under
`CodingAssumption`, `InputsAssumption` and `LookupsAssumption`.  Nothing is assumed of what the listings
contain otherwise: names may hold separators, and those entries are then left out by
`Entries`, with the code's own filter.

*A frame has a chart* (`FrameCharts`): the text it decodes to and, for each line, where
its difference ends in the frame, how long its shared prefix is, where its path starts
and where it ends in the text.  A state of the decoder is then a position in the chart:

* `Settled` and `Awaits` say that the buffer is a window on the text, in which the
  last path starts where the code believes it does, with and without the shared prefix
  copied; `ReadingAt` and `BetweenCalls` add what has been consumed and what the next
  call has to return; `InFrame` is their disjunction.
* Each of `Call`, `Fill`, `Take`, `Entry`, `Full`, `AtEnd` keeps `InFrame`, wherever
  the piece ends and the buffer is full, and a call that returns hands out whole
  lines.  Here the hazards of the code are decided: that the prefix to copy lies within
  the buffer, that a difference whose byte looks like a NUL is not mistaken for one,
  that an incomplete line is kept for the next call.

*What the writer encodes has a chart.*  `DiffDecodes`: a difference is written in one
byte or in three and read back the same, wherever it stands.  `EncodeCharted`: what
`Encode` makes of a package's lines has a chart that says those lines and the footer,
and ends with the shared length at nothing, so that another package can follow;
`FramedCharted` puts packages one behind the other, for both versions.  The inductions
over lines and packages are on natural numbers, by taking the least number for which
the fact fails.

*The lines say the packages.*  `MetaReads`: an entry's node, written and read, is the
node.  `TreeOrdered` and `EntriesOfTree`: the order in which `ToList` lists a tree is
one of its nodes, each from the listing, so that every recorded entry is one that
`MetaReads` speaks of.

`DecodesWhole` is not inductive: it does not say what the decoder still holds.
`RegenerationInv` adds that decoder and scan are about the same lines: of the text that
has been handed out some lines have been scanned, what is recorded and current is what
those lines say, the rest of them is in `block`, and the frame map so far gives each
recorded package its frame.  Only a streamed frame may be in error.

`WrittenSoFar` is added for what is written: every fresh file is the one that `Contents`
has for the packages of the build and their frames.  `SameContent` has it from
`RegenerationInv`: once all is scanned, the builders hold the packages of the build and
`NextMap` has the numbers the writer counted.  `OwnContents` says the same of the build's
own sidecars, and the two give `RegenerationReproduces`.

*A lookup finds what the listings say.*  `RegenerationAnswers` needs, besides, that the
readers undo what the builders do:

* Nothing is there twice (`KeptApart`): the paths of a package are apart, since names
  have no slash and so a path has one node (`PathsApart`), and no store path is given
  twice.
* Postings: lists that stand behind each other are read from where they start
  (`ListSlice`, `ListRead`), and the map of a sidecar has for each key the cookie of its
  list (`PostingsFind`).  `ListIs` puts this as it is used: the list found for a key is the
  one the builder had.  The lists are sorted sets, without loss (`TextsRanked`,
  `NumbersRanked`), or records, each once (`RecordsAre`).
* The readers: a path has the name that its basename is (`NameIsBasename`), and a command
  is what stands behind a bin directory (`CommandIs`); all keys with a prefix come before
  any key beyond it, so `PathPrefix` may stop there (`BeyondPrefix`, `PrefixSeen`); a text
  in the strings ends where its NUL is, since no path has one (`TextRead`); two offsets
  hold the entries of a path between them (`BlobIs`); providers are listed once
  (`ProvidersAre`); and where a text occurs, its trigrams do (`OccursGrams`).
* `BasenameAnswers`, `PathAnswers`, `EntryAnswers`, `PathEntryAnswers`, `NgramAnswers`,
  `PathTrigramAnswers` and `CommandAnswers` say so of each sidecar.  `WholeIs`: a sidecar
  whose files are all fresh, or that is the build's, is that of the packages of the build.

## 13. Requests

`DaemonRequests` models the handlers of the daemon and those who call them:
`nix-locate`, which finds or starts a daemon, waits for it and searches itself if that
fails; `nixdex which` and command-not-found, which fall back to the command index and a
scan and may run what they find; and clients of the other endpoints.  Meanwhile the
index is replaced in its directory, daemons load it, and die.  `PackageSearch` is the
search over package metadata that `/search` and `/info` answer with.

| Variable | In the code |
|---|---|
| `generation` | that of the index in the database directory |
| `servers` | each daemon: the process, its listener, its token, `IndexState.index` |
| `calls` | each client: its arguments, where it is in `ensure_client`, the request or the fallback, the snapshot its handler cloned, what it got |
| `calls[cl].seen` | history: the generations that were on disk or in a daemon during the call |

A path is a sequence of names and a generation a few packages with their files; how
candidates are found is `IndexSearch`, and only the ordinals of a path prefix are taken
from the resident index, as the handler does.  A search handles positions in
`packages.json`, since a regeneration leaves a record for each output of a package and
several may be the same.  Fuzzy scores (of the library frizbee) are a constant.

Run `daemon_requests` (228 thousand states): two clients that may both start a daemon,
and some fifty calls made alone, over four generations, of which two lack the metadata
and two the command index, and in one a package has two records; one replacement, one death or failed start, at most four
results.  One replacement is enough for every pair of generations to meet in a call, and
one fault for each fallback.

* `AnswersTrue`: the types; what `nix-locate` shows and what a command lookup says is
  true of one index that was there during the call.  A search of its own shows what was
  asked for and nothing else, `--all` and grouping included, unless a limit cut it.  A
  daemon's answer is of top-level packages alone, even under `--all`, which the client
  does not send (`daemon_query`, against the help at `locate.rs:79`); of those nothing
  that was asked for is missing, unless a limit cut it or the ordinals of a path prefix
  are of another generation than the file.  A command is run only from a top-level
  package, and unasked only if no other has it.
* `MetadataTrue`: so are the answers about metadata.  A search finds the records that
  match, each as often as it is there, and ranks a match of the whole attribute path
  above one at its start above one elsewhere above one only in other fields; reversed it
  is the other way round, and a sort by a field keeps the order of the field.  A limit
  keeps the first of that order.  A package asked for by name is found if it is there.
* `CallsEnd`: every call ends, whatever the daemon does.

Fairness: weak, of each client that has begun: it takes its steps, its clock runs, and a
daemon that runs answers what it received.  None of daemons loading or getting ready.
Deadlock is not checked: calls end.

### Proofs (`DaemonProofs`)

`AnswersAreTrue`: `AnswersTrue` for any number of clients, servers, generations,
replacements and faults.  `RequestsIInv` says of every call that runs that it has seen
what is in the directory and what each server has loaded (`Sees`), which a load and a
replacement keep because a server loads only what is in the directory; hence the
snapshot a handler takes was seen, and so was what a client finds alone.  Of a call that
is done it says that its answer is true of something seen, and that stays, for what
was seen is not forgotten.  The rest are lemmas about one answer: a limit leaves out
hits only if there are more than it (`LimitTakes`); what must be shown, both searches
find (`AloneFinds`: exactly what was asked for; `DaemonFinds`, for a resident index of the
same generation: all of that which is top-level);
what is run is of what was found and, unasked, alone there (`OutcomeRuns`).
Assumed of the constants: paths are sequences of names, not empty, an index lists
finitely many files, and limits are numbers.

`SearchesAreTrue`: `MetadataTrue`, for any metadata, queries and scores.  `RequestsIInv`
also says of an answer about metadata that it is true of something seen (`Described`);
what is new for that are lemmas about one search:

* Sorting.  Of a stable sort of finitely many positions by a weak order (of two none is
  before the other, or what is before one of three separates them: `Weak`), each has a
  rank of its own (`RanksDiffer`), every rank is taken (`RankTaken`), so the sorted
  sequence lists each position once and in order (`SortedLists`); so does its reverse,
  and a limit keeps the first (`SortedIsListed`, `ReversedIsListed`).
* The orders the code compares by are such orders: texts (`TextOrder`), numbers, one
  after the other where the first does not tell (`ThenOrder`), and a sort by a field
  (`FieldOrder`).  That relevance orders by the attribute path first is arithmetic: a
  better place there is worth 1000, and the other two fields add at most 600
  (`RelevanceIsTyped`).
* Filter, score and bucket agree: what the filter lets through scores
  (`PlacedIfMatched`), the bucket of an attribute path has what the filter would find
  (`MatchedAreHits`), and upper and lower case are forgotten by all in the same way
  (`FoldTwice`, `RegexFolds`).
* From positions to records: how often a record is listed (`ListedTimes`), hence
  `SearchIsRanked`.

Assumed (`MetadataAssumption`): texts are sequences of character codes, the wild
character of a regular expression is no letter, queries have the fields and sorts that
`parse_search_query` makes, and scores are natural numbers.

## 14. Limits

* Of the 40 properties of the passing runs 31 are stated by a theorem.  Only checked,
  not proved: all liveness, that of the refinement of `ClosureSpec` included, since the
  prover does not treat fairness or ENABLED (nine properties).
  No module declares a recursive operator.
* Of updates of one directory at once, `InstalledReadable` says nothing of a sidecar
  installed from a temporary file that two had, and `WarnsWhenOlder` nothing of updates
  that overlap: the code does not keep such promises.  What the index
  download of two updates does to `files` is not in `SidecarUpdate`.

Not modelled, and why:

* In the download: loss of power (the code never calls fsync, so the rename may outlive
  the data), weak entity tags, a tag that comes back for other bytes.
* In the writer: the limit on the number of frames.
* In the directory: `files.redb`, an alternative store with its own library.
* In the search: resident indexes of another generation than the reader (seen from
  `DaemonRequests` instead), the warm cache of a version 1 file, batches, package
  patterns and printing.
* In the daemon: what an open memory map shows when a build overwrites the file in place.
* In the requests: HTTP itself, terminals and the questions put to the user.
* At all: drawing (`nixdex-tui/src/ui.rs`), argument parsing and printing
  (`nixdex-cli`), the parsers of narinfo and store paths (pure functions over text),
  content-defined chunking (used for statistics only), cache directory and error types,
  benches, scripts and packaging.

Observed while modelling, without a run:

* Download: a part left by an interrupted run is reused by its length alone
  (`prebuilt.rs:360`, against the comments at 403 and 422), so an index merged from two
  published ones may be installed, its header being all that is validated; the third
  round of requests is counted before its result is looked at (line 488), so a download
  completed by it is deleted and fetched again serially; after the response to the first
  segment is cut, part 0 stays on disk, although `changelog.d/prebuilt-resume.fixed.md`
  says that parts are removed on every error path.
* Directory: a build replaces sidecars and leaves the hashes of the index before it;
  when that index is installed again, the sidecars of the build are called up to date
  (`SoundUntilOvertaken` excepts it); a rebuild for a missing sidecar that dies in the
  middle of a file leaves it cut and up to date; a version 1 `files` installed over a
  version 2 one keeps a frame map that `Reader::open` believes; `generate_sidecars`
  replaces the `packages.json` of a build by one with fewer fields; it never makes the
  command sidecar, so the one of an earlier build stays.
* Interactive search: a refresh or toggle searches the line of the moment without
  telling `dispatched_query`; take back the last character before its answer comes, and
  the debounce believes the remaining text was just searched (`tui.rs:188` against
  685-687); the memo files an answer under the settings of the moment it arrives
  (`tui.rs:708`); Ctrl+R on an empty line leaves the worker's open database; Ctrl+D
  cannot pin an open pane although the help offers it; an outcome closes a pinned pane.
* Daemon: a downloaded index, or a `files` copied into the local directory, is never
  served, because the command index is required and only a local build writes one
  (`daemon.rs:390` against `nixdex-daemon/main.rs:46`); signals sent during a refresh, or
  taken together with a tick, are dropped; the name of a directory is a digest of the tag
  and is compared with the tag itself, so each refresh downloads again; a failed bind of
  the HTTP server is never looked at.
* Search: an expression with one literal is answered with every path that contains it
  (`database.rs:1257`, against
  `changelog.d/regex-ngram-candidate-filtering.changed.md`).
* Decoder: a valid stream is refused when the last footer is cut at a full buffer
  (`frcode.rs:348`, against the comment at 250); a buffer of a million bytes makes it
  rare.
* Build: a metadata writer that fails ends the evaluation early and as a success, with a
  truncated `packages.json` (`nixpkgs.rs:719` with `index.rs:379`); a child that fails
  after its first line counts as a success; after an error in writing, feeder and
  evaluation go on until the process exits; a path cache of the same nixpkgs keeps the
  time to live it was made with, and `ttl 0`, documented as no expiry, expires
  (`path_cache.rs` 43-47 with 104, 119, 132).
* Sidecar downloads: two updates at once may install a cut file (`nixdex.rs:1371`
  against the comment at 1366); builder and reader both strip one `"| "` prefix of a description;
  nothing in the command line calls the builders.
* Requests: a daemon's lines name no output (`daemon_client.rs:251` says the same text);
  neither `--all` (`locate.rs:79`: "Print all matches") nor grouping is sent, a package pattern is sent unescaped, and without a
  limit an answer stops at 10,000; a client with another `--database` is answered by
  whichever daemon has the address; daemons started at the same time, or that never get
  ready, stay without HTTP; `/locate` answers 200 with nothing before the first load;
  `/info` matches case where the lookup by attribute path does not; relevance of a
  regular expression is scored with the lower-cased pattern; the scan and the command
  index do not agree on what a command is; the client has no time-out but for a command
  lookup.
