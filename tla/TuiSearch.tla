----------------------------- MODULE TuiSearch -----------------------------
(***************************************************************************)
(* The interactive search (nixdex-tui): the event loop `run_tui`, which    *)
(* handles keys, debounces the query, asks a worker thread and applies its *)
(* answers; the worker, which owns an open copy of the package database;   *)
(* and the two channels between them.  Each action is one turn of the loop *)
(* (one branch of its select!) or one step of the worker.                  *)
(*                                                                         *)
(* A query is a sequence of characters.  The rows of an answer are named   *)
(* by the request they answer and the generation of the index they were    *)
(* read from.                                                              *)
(***************************************************************************)
EXTENDS Naturals, Sequences

CONSTANTS Chars,       \* what can be typed
          Space,       \* the one that may not start a query
          Plain,       \* the way to match a query at first,
          Matchings,   \* and those that a key turns on and off: fuzzy, regex
          MaxLen,      \* bound: length of a query
          MaxKeys,     \* bound: keys pressed before the user rests
          MaxRebuilds, \* bound: how often the index is rebuilt meanwhile
          Nothing      \* None, of any Option

ASSUME TuiAssumption ==
  /\ Space \in Chars /\ Plain \notin Matchings
  /\ Nothing \notin Seq(Chars) /\ Nothing \notin Nat
  /\ MaxLen \in Nat /\ MaxKeys \in Nat /\ MaxRebuilds \in Nat

VARIABLES
  keys,        \* how many keys have been pressed
  mode,        \* app.mode
  matching,    \* app.search_fuzzy and app.search_regex, never both
  input,       \* app.input, the query line
  rows,        \* app.results
  pane,        \* app.detail: "none", "open" or "pinned"
  help,        \* app.show_help
  active,      \* app.active_request; is_searching is active # Nothing
  lastId,      \* app.next_request_id
  cache,       \* app.search_cache, as a set of [key, rows]
  pending,     \* pending_query
  deadline,    \* debounce_deadline is set
  dispatched,  \* dispatched_query
  loop,        \* "running", "waiting" (for the worker) or "ended"
  requests,    \* the channel to the worker
  outcomes,    \* the channel back
  handle,      \* the generation of its open database
  built,       \* the generation of the index on disk
  asked,       \* history: what the loop last asked for and is still to answer
  fresh        \* history: the generation on disk at the last Ctrl+R with a query
settings == <<mode, matching>>
screen == <<input, rows, pane, help>>
search == <<active, lastId, cache>>
debounce == <<pending, deadline, dispatched>>
history == <<asked, fresh>>
vars == <<keys, settings, screen, search, debounce, loop, requests, outcomes, handle,
          built, history>>

Modes == {"search", "locate", "which"}
NextMode == [m \in Modes |-> CASE m = "search" -> "locate" [] m = "locate" -> "which"
                               [] m = "which" -> "search"]
NoRows == << >>

Init ==
  /\ keys = 0
  /\ mode = "search" /\ matching = Plain
  /\ input = << >> /\ rows = NoRows /\ pane = "none" /\ help = FALSE
  /\ active = Nothing /\ lastId = 0 /\ cache = {}
  /\ pending = Nothing /\ deadline = FALSE /\ dispatched = Nothing
  /\ loop = "running"
  /\ requests = << >> /\ outcomes = << >> /\ handle = Nothing
  /\ built = 0 /\ asked = Nothing /\ fresh = 0

----------------------------------------------------------------------------
(***************************************************************************)
(* Asking the worker: search_request and send_search; the mutant takes the *)
(* id from before it was advanced.                                         *)
(***************************************************************************)
AskAs(id, query, match, reload) ==
  /\ lastId' = lastId + 1
  /\ active' = id
  /\ requests' = Append(requests, [id |-> lastId + 1, query |-> query, mode |-> mode,
                                   matching |-> match, reload |-> reload])
  /\ asked' = [query |-> query, mode |-> mode]

AskPreviousId(query, match, reload) == AskAs(lastId, query, match, reload)
Ask(query, match, reload) == AskAs(lastId + 1, query, match, reload)

(***************************************************************************)
(* cache_key and get_cached_results.                                       *)
(***************************************************************************)
CacheKey(query) == [mode |-> mode, query |-> query, matching |-> matching]
Cached(query) == {e.rows : e \in {e \in cache : e.key = CacheKey(query)}}

(***************************************************************************)
(* dispatch_search: nothing to search for, an answer that is still cached, *)
(* or a new request.  A cached answer may be older than cache_ttl at any   *)
(* time, dropped by a tick or not.  The mutant leaves the running search   *)
(* active when it answers from the cache.                                  *)
(***************************************************************************)
DispatchedWith(query, activeOnHit) ==
  \/ /\ query = << >>
     /\ active' = Nothing /\ rows' = NoRows
     /\ asked' = [query |-> query, mode |-> mode]
     /\ UNCHANGED <<lastId, requests>>
  \/ /\ query # << >> /\ Cached(query) # {}
     /\ active' = activeOnHit /\ rows' \in Cached(query)
     /\ asked' = [query |-> query, mode |-> mode]
     /\ UNCHANGED <<lastId, requests>>
  \/ /\ query # << >>
     /\ Ask(query, matching, FALSE)
     /\ UNCHANGED rows

DispatchKeepingActive(query) == DispatchedWith(query, active)
DispatchSearch(query) == DispatchedWith(query, Nothing)

(***************************************************************************)
(* dispatch_reload, after a key that asked for one; nothing to refresh     *)
(* without a query.                                                        *)
(***************************************************************************)
DispatchReload(match) ==
  IF input = << >> THEN UNCHANGED <<active, lastId, requests, asked>>
                   ELSE Ask(input, match, TRUE)

----------------------------------------------------------------------------
(***************************************************************************)
(* Keys.  A pinned pane takes every key.  Otherwise a key goes through     *)
(* handle_input_event, which edits the query, and then through the pane,   *)
(* the help overlay or the commands, whichever is in front.                *)
(***************************************************************************)
Pressed == loop = "running" /\ keys < MaxKeys /\ keys' = keys + 1
Draft == IF pending # Nothing THEN pending ELSE input

(***************************************************************************)
(* set_input and the debounce, for a typed character or a Backspace; the   *)
(* help overlay closes on any key.                                         *)
(***************************************************************************)
Edit(query) ==
  /\ input' = query /\ pending' = query /\ deadline' = TRUE
  /\ pane' = "none" /\ help' = FALSE
  /\ UNCHANGED dispatched

(***************************************************************************)
(* A space that would start the query stays out of it, and so reaches an   *)
(* open pane, where it pins.                                               *)
(***************************************************************************)
Type(c) ==
  /\ Pressed /\ pane # "pinned" /\ Len(Draft) < MaxLen
  /\ \/ /\ Draft = << >> /\ c = Space
        /\ pending' = << >> /\ help' = FALSE
        /\ pane' = IF pane = "open" THEN "pinned" ELSE pane
        /\ UNCHANGED <<input, deadline, dispatched>>
     \/ /\ Draft # << >> \/ c # Space
        /\ Edit(Append(Draft, c))
  /\ UNCHANGED <<settings, rows, search, loop, requests, outcomes, handle, built, history>>

Backspace ==
  /\ Pressed /\ pane # "pinned"
  /\ Edit(IF Draft = << >> THEN << >> ELSE SubSeq(Draft, 1, Len(Draft) - 1))
  /\ UNCHANGED <<settings, rows, search, loop, requests, outcomes, handle, built, history>>

(***************************************************************************)
(* Esc and Tab retire the query and the search in flight, whatever is in   *)
(* front; then Esc closes the pane or clears the screen, Tab changes the   *)
(* mode.                                                                   *)
(***************************************************************************)
Retire ==
  /\ pending' = Nothing /\ deadline' = FALSE /\ dispatched' = Nothing
  /\ active' = Nothing /\ asked' = Nothing

Escape ==
  /\ Pressed
  /\ \/ /\ pane = "pinned"
        /\ pane' = "none"
        /\ UNCHANGED <<input, rows, help, debounce, active, asked>>
     \/ /\ pane # "pinned" /\ Retire
        /\ pane' = "none" /\ help' = FALSE
        /\ IF pane = "open" \/ help THEN UNCHANGED <<input, rows>>
           ELSE input' = << >> /\ rows' = NoRows
  /\ UNCHANGED <<settings, lastId, cache, loop, requests, outcomes, handle, built, fresh>>

Tab ==
  /\ Pressed /\ pane # "pinned"
  /\ Retire
  /\ help' = FALSE
  /\ IF pane = "open" \/ help THEN UNCHANGED <<mode, input, rows, pane>>
     ELSE mode' = NextMode[mode] /\ input' = << >> /\ rows' = NoRows /\ pane' = "none"
  /\ UNCHANGED <<matching, lastId, cache, loop, requests, outcomes, handle, built, fresh>>

(***************************************************************************)
(* Commands need the screen to themselves: the overlay swallows the key    *)
(* that closes it, and an open pane knows only Enter here.                 *)
(***************************************************************************)
Command == Pressed /\ pane = "none" /\ ~help

(***************************************************************************)
(* Ctrl+R: the memo is cleared and the query asked again.                  *)
(***************************************************************************)
Refresh ==
  /\ Command
  /\ cache' = {}
  /\ DispatchReload(matching)
  /\ fresh' = IF input = << >> THEN fresh ELSE built
  /\ UNCHANGED <<settings, screen, debounce, loop, outcomes, handle, built>>

(***************************************************************************)
(* Ctrl+F and Ctrl+X: fuzzy and regex exclude each other, and a change     *)
(* asks the query again.                                                   *)
(***************************************************************************)
Toggle(m) ==
  /\ Command
  /\ matching' = IF matching = m THEN Plain ELSE m
  /\ DispatchReload(matching')
  /\ UNCHANGED <<mode, screen, cache, debounce, loop, outcomes, handle, built, fresh>>

Help ==
  /\ Pressed /\ pane = "none"
  /\ help' = ~help
  /\ UNCHANGED <<settings, input, rows, pane, search, debounce, loop, requests, outcomes,
                 handle, built, history>>

Enter ==
  /\ Pressed /\ pane # "pinned" /\ ~help
  /\ \/ pane = "open" /\ pane' = "none"
     \/ pane = "none" /\ rows # NoRows /\ pane' = "open"
  /\ UNCHANGED <<settings, input, rows, help, search, debounce, loop, requests, outcomes,
                 handle, built, history>>

(***************************************************************************)
(* Ctrl+D reaches the pane only when it is pinned.  It is not counted: a   *)
(* pin is, and there is nothing else to take back.                         *)
(***************************************************************************)
Unpin ==
  /\ loop = "running" /\ pane = "pinned"
  /\ pane' = "open"
  /\ UNCHANGED <<keys, settings, input, rows, help, search, debounce, loop, requests, outcomes,
                 handle, built, history>>

Key ==
  \/ \E c \in Chars : Type(c)
  \/ \E m \in Matchings : Toggle(m)
  \/ Backspace \/ Escape \/ Tab \/ Refresh \/ Help \/ Enter \/ Unpin

----------------------------------------------------------------------------
(***************************************************************************)
(* The other branches of the loop.  Debounce: the delay is over; a query   *)
(* that was the last one dispatched is not dispatched again.               *)
(***************************************************************************)
Debounce ==
  /\ loop = "running" /\ deadline
  /\ pending' = Nothing /\ deadline' = FALSE
  /\ IF dispatched = pending
     THEN UNCHANGED <<screen, search, dispatched, requests, asked>>
     ELSE /\ input' = pending /\ dispatched' = pending /\ pane' = "none"
          /\ DispatchSearch(pending)
          /\ UNCHANGED <<help, cache>>
  /\ UNCHANGED <<keys, settings, loop, outcomes, handle, built, fresh>>

(***************************************************************************)
(* apply_search_outcome: only the outcome of the active request counts.    *)
(* It is kept in the memo under the settings of now.  The mutant matches   *)
(* on query and mode.                                                      *)
(***************************************************************************)
AnswersQuery(outcome) == active # Nothing /\ outcome.query = input /\ outcome.mode = mode
Answers(outcome) == active = outcome.id

ApplyOutcome ==
  /\ loop = "running" /\ outcomes # << >>
  /\ LET outcome == Head(outcomes) IN
     \/ /\ ~Answers(outcome)
        /\ UNCHANGED <<active, cache, rows, pane, asked>>
     \/ /\ Answers(outcome) /\ outcome.rows # Nothing
        /\ active' = Nothing
        /\ cache' = {e \in cache : e.key # CacheKey(outcome.query)}
                      \cup {[key |-> CacheKey(outcome.query), rows |-> outcome.rows]}
        /\ rows' = outcome.rows /\ pane' = "none"
        /\ UNCHANGED asked
     \/ /\ Answers(outcome) /\ outcome.rows = Nothing
        /\ active' = Nothing /\ asked' = Nothing
        /\ UNCHANGED <<cache, rows, pane>>
  /\ outcomes' = Tail(outcomes)
  /\ UNCHANGED <<keys, settings, input, help, lastId, debounce, loop, requests, handle,
                 built, fresh>>

(***************************************************************************)
(* Ctrl+C, or the end of the terminal's events, ends the task that reads   *)
(* them; the loop breaks when it sees that, closes the channel of requests *)
(* and waits for the worker, which ends when it has done what is in it.    *)
(***************************************************************************)
Quit ==
  /\ loop = "running"
  /\ loop' = "waiting"
  /\ UNCHANGED <<keys, settings, screen, search, debounce, requests, outcomes, handle, built,
                 history>>

Joined ==
  /\ loop = "waiting" /\ requests = << >>
  /\ loop' = "ended"
  /\ UNCHANGED <<keys, settings, screen, search, debounce, requests, outcomes, handle, built,
                 history>>

----------------------------------------------------------------------------
(***************************************************************************)
(* The worker.  A reload replaces its handle; the mutant keeps it.         *)
(***************************************************************************)
HandleKept(request) == handle
HandleFor(request) == IF request.reload THEN Nothing ELSE handle

(***************************************************************************)
(* One turn of its loop, run_search included: a package search opens       *)
(* packages.json once and keeps it, the other two open the index each      *)
(* time; any of them may fail, at the latest when opening.                 *)
(***************************************************************************)
Work ==
  /\ requests # << >>
  /\ LET request == Head(requests)
         held == HandleFor(request)
         read == IF request.mode = "search" /\ held # Nothing THEN held ELSE built
         Answer(result) == outcomes' = Append(outcomes,
           [id |-> request.id, query |-> request.query, mode |-> request.mode, rows |-> result])
     IN \/ /\ Answer([query |-> request.query, mode |-> request.mode,
                      matching |-> request.matching, built |-> read])
           /\ handle' = IF request.mode = "search" THEN read ELSE held
        \/ /\ Answer(Nothing)
           /\ handle' \in IF request.mode = "search" THEN {held, read} ELSE {held}
  /\ requests' = Tail(requests)
  /\ UNCHANGED <<keys, settings, screen, search, debounce, loop, built, history>>

(***************************************************************************)
(* Somebody rebuilds the index.                                            *)
(***************************************************************************)
Rebuild ==
  /\ built < MaxRebuilds
  /\ built' = built + 1
  /\ UNCHANGED <<keys, settings, screen, search, debounce, loop, requests, outcomes, handle,
                 history>>

Loop == Debounce \/ ApplyOutcome \/ Joined
Next == Key \/ Loop \/ Quit \/ Work \/ Rebuild

Spec ==
  /\ Init /\ [][Next]_vars
  /\ WF_vars(Debounce) /\ WF_vars(ApplyOutcome) /\ WF_vars(Work)

----------------------------------------------------------------------------
Queries == UNION {[1 .. n -> Chars] : n \in 0 .. MaxLen}
Rows == [query : Queries, mode : Modes, matching : Matchings \cup {Plain},
         built : 0 .. MaxRebuilds]
InFlight ==
  {requests[i].id : i \in DOMAIN requests} \cup {outcomes[i].id : i \in DOMAIN outcomes}

(***************************************************************************)
(* Every variable keeps its type; the delay only runs for a query, and     *)
(* overlay and pane exclude each other.                                    *)
(***************************************************************************)
TypeOK ==
  /\ keys \in 0 .. MaxKeys /\ built \in 0 .. MaxRebuilds /\ fresh \in 0 .. built
  /\ mode \in Modes /\ matching \in Matchings \cup {Plain}
  /\ input \in Queries /\ pending \in Queries \cup {Nothing}
  /\ dispatched \in Queries \cup {Nothing}
  /\ deadline \in BOOLEAN /\ (deadline => pending # Nothing)
  /\ rows \in Rows \cup {NoRows}
  /\ pane \in {"none", "open", "pinned"} /\ help \in BOOLEAN /\ (help => pane = "none")
  /\ lastId \in Nat /\ active \in 1 .. lastId \cup {Nothing}
  /\ \A e \in cache : e.rows \in Rows
  /\ loop \in {"running", "waiting", "ended"}
  /\ handle \in 0 .. MaxRebuilds \cup {Nothing}

(***************************************************************************)
(* Every variable has its type, and the request the screen waits for is    *)
(* still on its way, queued or answered: a spinner whose answer was lost   *)
(* would turn for ever.                                                    *)
(***************************************************************************)
ActiveIsComing == TypeOK /\ (active # Nothing => active \in InFlight)

(***************************************************************************)
(* Rows never stay on screen, nor come back from the memo, in another mode *)
(* than the one they were searched in, however late an answer arrives; and *)
(* with nothing in flight the rows are the answer to the last thing that   *)
(* was asked, by the debounce, a refresh or a toggle, and was neither      *)
(* retired nor failed: no earlier answer overtakes a later one, nor one    *)
(* from the memo.                                                          *)
(***************************************************************************)
ShowsLastAsked ==
  /\ rows # NoRows => rows.mode = mode
  /\ active = Nothing /\ asked # Nothing =>
       IF asked.query = << >> THEN rows = NoRows
       ELSE rows # NoRows /\ rows.query = asked.query /\ rows.mode = asked.mode

(***************************************************************************)
(* After a Ctrl+R on a query neither the screen, once it has its answer,   *)
(* nor the memo shows anything read from an index older than that: queued  *)
(* requests, the worker's handle and answers on their way included.        *)
(***************************************************************************)
RefreshIsFresh ==
  /\ \A e \in cache : e.rows.built >= fresh
  /\ active = Nothing /\ asked # Nothing /\ rows # NoRows => rows.built >= fresh

(***************************************************************************)
(* A search shown as running is answered, replaced by another that is, or  *)
(* retired: the spinner stops once the user rests.                         *)
(***************************************************************************)
Spinning == active # Nothing /\ loop = "running"
SpinnerStops == Spinning ~> ~Spinning
=============================================================================
