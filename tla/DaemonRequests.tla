--------------------------- MODULE DaemonRequests ---------------------------
(***************************************************************************)
(* The daemon's HTTP handlers and those who call them: nix-locate, which   *)
(* looks for a daemon, starts one if there is none, waits for it to be     *)
(* ready and searches itself if that fails; `nixdex which` and             *)
(* command-not-found, which ask it for the packages that have a command,   *)
(* fall back to the command index and then to a scan, and may install or   *)
(* run what they find; and HTTP clients of the other endpoints.  Several   *)
(* calls run at once; meanwhile the index is replaced in its directory,    *)
(* servers load it when they please, and processes die.                    *)
(*                                                                         *)
(* A generation is what the directory holds at a time.  A path is a        *)
(* sequence of names.  How a search finds candidates is IndexSearch; here  *)
(* matters only that the daemon takes those of a path prefix from its      *)
(* resident index.                                                         *)
(***************************************************************************)
EXTENDS PackageSearch

CONSTANTS Servers,     \* 1 .. n, processes that may be started as daemons
          Clients,
          Workloads,   \* which call each client makes, or Nil
          Dir,         \* of each generation: packages, meta, command, extra
          Nil,        \* no snapshot, no metadata, no server, no answer
          MaxResults,  \* MAX_RESULT_LIMIT
          MaxInstalls, \* bound: replacements of the index
          MaxFailures    \* bound: daemons that die or cannot be started

Generations == DOMAIN Dir \* 1 .. n, in the order they were made

ASSUME DirectoryAssumption ==
  \A g \in Generations :
    /\ Dir[g].command \in {"ok", "missing", "unreadable"} /\ Dir[g].extra \in BOOLEAN
    /\ \A n \in DOMAIN Dir[g].packages : \A f \in Dir[g].packages[n].files :
         f.path \in Seq(STRING) \ {<<>>} /\ f.type \in {"x", "r", "d", "s"}

ASSUME CallsAssumption ==
  /\ {MaxResults, MaxInstalls, MaxFailures} \subseteq Nat
  /\ \A load \in Workloads, cl \in Clients :
       load[cl] # Nil /\ load[cl].kind = "nix-locate" =>
         /\ load[cl].pattern \in Seq(STRING) /\ load[cl].limit \in Nat \cup {Nil}
         /\ \A option \in {"rooted", "minimal", "all", "group"} : load[cl][option] \in BOOLEAN

VARIABLES
  generation, \* what is in the database directory
  servers,    \* of each: whether it runs, has the address, has a token, and its snapshot
  calls,      \* of each client: how far its call is
  installs, failures

requestVars == <<generation, servers, calls, installs, failures>>

Off == [pc |-> "off", http |-> "unbound", token |-> FALSE, snapshot |-> Nil]
NoCall == [pc |-> "idle", call |-> Nil, server |-> Nil, snapshot |-> Nil,
           seen |-> {}, out |-> Nil]

Serving == {s \in Servers : servers[s].http = "bound"}

----------------------------------------------------------------------------
(***************************************************************************)
(* What a query for a path finds.                                          *)
(***************************************************************************)
Files(g) ==
  UNION {{[n |-> n, path |-> f.path, type |-> f.type] : f \in Dir[g].packages[n].files}
         : n \in DOMAIN Dir[g].packages}
Package(g, h) == Dir[g].packages[h.n]

ASSUME FilesAssumption == \A g \in Generations : IsFiniteSet(Files(g))

Matching(g, c) ==
  {h \in Files(g) : \E i \in 0 .. Len(h.path) :
     OccursAt(c.pattern, h.path, i) /\ (c.rooted => i = 0)}

(* The last match is of a directory above the file.                        *)
Below(c, h) ==
  Max({i \in 0 .. Len(h.path) : OccursAt(c.pattern, h.path, i)}) + Len(c.pattern) < Len(h.path)

(***************************************************************************)
(* process_args and should_include_match: the line of attributes alone     *)
(* skips both filters.  The daemon is not told of --all and never groups.  *)
(***************************************************************************)
LocalHits(g, c) ==
  {h \in Matching(g, c) :
     ~c.minimal => (c.all \/ Package(g, h).toplevel) /\ (c.group => ~Below(c, h))}

PrefixOrdinals(g, c) == {h.n : h \in {f \in Files(g) : IsPrefix(c.pattern, f.path)}}

DaemonHits(g, resident, c) ==
  {h \in Matching(g, c) :
     Package(g, h).toplevel /\ (c.rooted => h.n \in PrefixOrdinals(resident, c))}

Limited(S, n) == IF n = Nil \/ Cardinality(S) <= n THEN {S} ELSE kSubset(n, S)
AtMost(limit) == IF limit = Nil THEN MaxResults ELSE limit  \* the daemon's

(* A line names the output only if it is not the daemon's.                 *)
Row(g, c, h, alone) ==
  (IF alone THEN <<Package(g, h).attr, Package(g, h).output>> ELSE <<Package(g, h).attr>>)
    \o (IF c.minimal THEN <<>> ELSE <<h.path>>)
Rows(g, c, S, alone) == {Row(g, c, h, alone) : h \in S}

----------------------------------------------------------------------------
(***************************************************************************)
(* The packages that have a command: from the command index, any file in   *)
(* one of four directories; from a scan, what can be executed in /bin.     *)
(* finalize_providers sorts and removes what is there twice: a set here.   *)
(***************************************************************************)
Bins == {<<"bin">>, <<"usr", "bin">>, <<"sbin">>, <<"usr", "sbin">>}
Provider(g, h) ==
  [attr |-> Package(g, h).attr, output |-> Package(g, h).output,
   toplevel |-> Package(g, h).toplevel]

Providers(g, name) ==
  {Provider(g, h) : h \in {f \in Files(g) : \E bin \in Bins : f.path = bin \o <<name>>}}
Scanned(g, name) ==
  {Provider(g, h) : h \in {f \in Files(g) : f.path = <<"bin", name>> /\ f.type \in {"x", "s"}}}

(***************************************************************************)
(* find_command_providers without a daemon.                                *)
(***************************************************************************)
FoundAlone(g, name) ==
  CASE Dir[g].command = "ok"      -> Providers(g, name)
    [] Dir[g].command = "missing" -> Scanned(g, name)
    [] OTHER                      -> {}

(***************************************************************************)
(* run_command_not_found and run_which: what is said and what is run.      *)
(* Only a top-level package is run, and unasked only the single one.       *)
(***************************************************************************)
Said(what, P, ran) == [said |-> what, providers |-> P, ran |-> ran]
Acts(P, mode) ==
  {Said("ran", P, p) : p \in P} \cup
  (IF mode = "install" THEN {Said("failed", P, Nil)} ELSE {})

Outcomes(P, mode) ==
  CASE P = {} -> {Said("not found", P, Nil)}
    [] P # {} /\ mode = "print" -> {Said("listed", P, Nil)}
    [] P # {} /\ mode # "print" /\ mode # "interactive" /\ Cardinality(P) > 1 ->
         {Said("listed", P, Nil)}
    [] OTHER ->
         IF \E p \in P : ~p.toplevel THEN {Said("refused", P, Nil)}
         ELSE Acts(P, mode) \cup (IF mode = "interactive" THEN {Said("declined", P, Nil)} ELSE {})

----------------------------------------------------------------------------
(***************************************************************************)
(* The handlers.  A reply is a status and a body; a request is refused     *)
(* without the daemon's token, and all the rest is answered from one       *)
(* snapshot, cloned when the handler begins.                               *)
(***************************************************************************)
Reply(status, body) == [status |-> status, body |-> body]
Refusal(status) == Reply(status, {})
Itself == 0 \* nix-locate without a daemon

Authorized(s, c) == servers[s].token => c.kind # "command" /\ c.token

NixLocate(g, resident, c) ==
  IF AtMost(c.limit) > MaxResults THEN {Refusal(400)}
  ELSE IF resident = Nil THEN {Refusal(503)}
  ELSE {Reply(200, Rows(g, c, S, FALSE)) :
          S \in Limited(DaemonHits(g, resident, c), AtMost(c.limit))}

PackageDb(g) == IF g = Nil THEN Nil ELSE Dir[g].meta

(* What the calls search for, and what they find, computed once.           *)
QueryOf(c) == IF c.kind = "info" THEN InfoQuery(c.attr) ELSE [c.q EXCEPT !.limit = AtMost(@)]
Searches ==
  {c \in {load[cl] : load \in Workloads, cl \in Clients} \ {Nil} : c.kind \in {"search", "info"}}
Results ==
  [g \in {h \in Generations : Dir[h].meta # Nil} |->
     [q \in {QueryOf(c) : c \in Searches} |-> Search(Dir[g].meta, q)]]

(***************************************************************************)
(* What packages.json has and what is asked of it: a character that stands *)
(* for any other is no letter, and scores are numbers.                     *)
(***************************************************************************)
ASSUME MetadataAssumption ==
  /\ AnyChar \in Int \ (65 .. 90 \cup 97 .. 122)
  /\ \A c \in Searches : IsQuery(QueryOf(c))
  /\ \A g \in Generations : Dir[g].meta # Nil =>
       /\ Dir[g].meta \in Seq(Range(Dir[g].meta))
       /\ \A r \in Range(Dir[g].meta) :
            IsRecord(r) /\ \A c \in Searches : IsScored(r, QueryOf(c))

MetadataReply(g, c) ==
  IF c.kind = "search" /\ AtMost(c.q.limit) > MaxResults THEN Refusal(400)
  ELSE IF PackageDb(g) = Nil THEN Refusal(503)
  ELSE LET found == Results[g][QueryOf(c)]
       IN IF c.kind = "search" THEN Reply(200, found)
          ELSE IF found = <<>> THEN Refusal(404)
          ELSE Reply(200, Head(found))

(* The labels of a basename, and before the first load none.               *)
LocateReply(g, c) ==
  Reply(200, IF g = Nil THEN {}
             ELSE {Provider(g, h) : h \in {f \in Files(g) : Last(f.path) = c.name}})

(* /history and /options need their sidecar, /stats shows what there is.   *)
SidecarReply(g) == IF g = Nil \/ ~Dir[g].extra THEN Refusal(503) ELSE Reply(200, g)
StatsReply(g) == Reply(200, IF g = Nil THEN Nil ELSE Len(Dir[g].packages))

Replies(cl) ==
  LET c == cl.call g == cl.snapshot
  IN CASE c.kind = "nix-locate" -> NixLocate(generation, g, c)
       [] c.kind = "command" ->
            {IF g = Nil THEN Refusal(503) ELSE Reply(200, Providers(g, c.name))}
       [] c.kind \in {"search", "info"} -> {MetadataReply(g, c)}
       [] c.kind = "locate"  -> {LocateReply(g, c)}
       [] c.kind = "sidecar" -> {SidecarReply(g)}
       [] OTHER              -> {StatsReply(g)}

----------------------------------------------------------------------------
RequestsInit ==
  /\ generation \in Generations
  /\ \E running, token \in BOOLEAN :
       servers = [s \in Servers |->
         IF s = 1 /\ running THEN [Off EXCEPT !.pc = "up", !.token = token]
         ELSE Off]
  /\ \E load \in Workloads : calls = [cl \in Clients |-> [NoCall EXCEPT !.call = load[cl]]]
  /\ installs = 0 /\ failures = 0

world == <<generation, installs>>

(***************************************************************************)
(* The index is replaced by the next one, by a build or an update.         *)
(***************************************************************************)
Replace ==
  /\ installs < MaxInstalls /\ installs' = installs + 1
  /\ generation' = generation + 1 /\ generation' \in Generations
  /\ calls' = [cl \in Clients |->
       IF calls[cl].pc \in {"idle", "done"} THEN calls[cl]
       ELSE [calls[cl] EXCEPT !.seen = @ \cup {generation'}]]
  /\ UNCHANGED <<servers, failures>>

(***************************************************************************)
(* A daemon.  The HTTP server is a task of its own: that it could not have *)
(* the address stops nothing but itself.  A load that lacks the command    *)
(* index leaves the snapshot that was there.  A daemon without the address *)
(* loads too, but nobody can ask it.                                       *)
(***************************************************************************)
Bind(s) ==
  /\ servers[s].pc = "up" /\ servers[s].http = "unbound"
  /\ servers' = [servers EXCEPT ![s].http = IF Serving = {} THEN "bound" ELSE "failed"]
  /\ UNCHANGED <<world, calls, failures>>

LoadIndex(s) ==
  /\ servers[s].pc = "up" /\ servers[s].http # "failed" /\ Dir[generation].command = "ok"
  /\ servers' = [servers EXCEPT ![s].snapshot = generation]
  /\ UNCHANGED <<world, calls, failures>>

Die(s) ==
  /\ servers[s].pc = "up" /\ failures < MaxFailures /\ failures' = failures + 1
  /\ servers' = [servers EXCEPT ![s] = Off]
  /\ calls' = [cl \in Clients |->
       IF calls[cl].server = s THEN [calls[cl] EXCEPT !.server = Nil] ELSE calls[cl]]
  /\ UNCHANGED world

----------------------------------------------------------------------------
(* The client: where it goes on, and how its call ends.                    *)
Step(cl, from, to) ==
  /\ calls[cl].pc = from
  /\ calls' = [calls EXCEPT ![cl].pc = to]

Ends(cl, out) == calls' = [calls EXCEPT ![cl].pc = "done", ![cl].out = out]

BeginCall(cl) ==
  /\ calls[cl].pc = "idle" /\ calls[cl].call # Nil
  /\ LET c == calls[cl].call
     IN calls' = [calls EXCEPT
          ![cl].pc = IF c.kind # "nix-locate" THEN "ask" ELSE IF c.daemon THEN "probe" ELSE "alone",
          ![cl].seen = {generation} \cup ({servers[s].snapshot : s \in Servers} \ {Nil})]
  /\ UNCHANGED <<world, servers, failures>>

(***************************************************************************)
(* ensure_client.                                                          *)
(***************************************************************************)
Ready == \E s \in Serving : PackageDb(servers[s].snapshot) # Nil

Probe(cl) == Ready /\ Step(cl, "probe", "ask") /\ UNCHANGED <<world, servers, failures>>

Spawn(cl) ==
  /\ ~Ready /\ Step(cl, "probe", "poll")
  /\ LET idle == {s \in Servers : servers[s].pc = "off"}
     IN IF idle = {} THEN UNCHANGED servers
        ELSE servers' = [servers EXCEPT ![Min(idle)].pc = "up"]
  /\ UNCHANGED <<world, failures>>

SpawnFails(cl) ==
  /\ ~Ready /\ Step(cl, "probe", "poll")
  /\ failures < MaxFailures /\ failures' = failures + 1
  /\ UNCHANGED <<world, servers>>

Poll(cl) == Ready /\ Step(cl, "poll", "ask") /\ UNCHANGED <<world, servers, failures>>

(* Ten seconds later it asks all the same.                                 *)
DeadlineNever(cl) == FALSE /\ UNCHANGED requestVars
Deadline(cl) == Step(cl, "poll", "ask") /\ UNCHANGED <<world, servers, failures>>

----------------------------------------------------------------------------
(***************************************************************************)
(* The request, and what its answer is taken for: nix-locate and a command *)
(* lookup go on alone without a good one.                                  *)
(***************************************************************************)
AcceptedAny(reply) == reply # Nil
Accepted(reply) == reply # Nil /\ reply.status = 200

Conclude(cl, reply) ==
  LET c == calls[cl].call
  IN IF c.kind \in {"nix-locate", "command"} /\ ~Accepted(reply) THEN
       calls' = [calls EXCEPT ![cl].pc = "alone"]
     ELSE IF c.kind = "command" THEN
       \E o \in Outcomes(reply.body, c.mode) : Ends(cl, o)
     ELSE Ends(cl, reply)

Ask(cl) ==
  /\ calls[cl].pc = "ask"
  /\ IF Serving = {} THEN Conclude(cl, Nil)
     ELSE \E s \in Serving : calls' = [calls EXCEPT ![cl].pc = "sent", ![cl].server = s]
  /\ UNCHANGED <<world, servers, failures>>

Served(cl) == calls[cl].server # Nil

Receive(cl) ==
  /\ calls[cl].pc = "sent" /\ Served(cl)
  /\ LET s == calls[cl].server
     IN IF Authorized(s, calls[cl].call)
        THEN calls' = [calls EXCEPT ![cl].pc = "handling", ![cl].snapshot = servers[s].snapshot]
        ELSE Conclude(cl, Refusal(401))
  /\ UNCHANGED <<world, servers, failures>>

Handle(cl) ==
  /\ calls[cl].pc = "handling" /\ Served(cl)
  /\ \E reply \in Replies(calls[cl]) : Conclude(cl, reply)
  /\ UNCHANGED <<world, servers, failures>>

Lost(cl) ==
  /\ calls[cl].pc \in {"sent", "handling"} /\ ~Served(cl)
  /\ Conclude(cl, Nil)
  /\ UNCHANGED <<world, servers, failures>>

(* Only a command lookup has a timeout.                                    *)
TimeOut(cl) ==
  /\ calls[cl].pc \in {"sent", "handling"} /\ calls[cl].call.kind = "command"
  /\ Conclude(cl, Nil)
  /\ UNCHANGED <<world, servers, failures>>

Alone(cl) ==
  /\ calls[cl].pc = "alone"
  /\ LET c == calls[cl].call
     IN IF c.kind = "command"
        THEN \E o \in Outcomes(FoundAlone(generation, c.name), c.mode) : Ends(cl, o)
        ELSE \E S \in Limited(LocalHits(generation, c), c.limit) :
               Ends(cl, Reply(Itself, Rows(generation, c, S, TRUE)))
  /\ UNCHANGED <<world, servers, failures>>

----------------------------------------------------------------------------
Client(cl) ==
  \/ BeginCall(cl)
  \/ Probe(cl) \/ Spawn(cl) \/ SpawnFails(cl) \/ Poll(cl) \/ Deadline(cl)
  \/ Ask(cl) \/ Receive(cl) \/ Handle(cl) \/ Lost(cl) \/ TimeOut(cl) \/ Alone(cl)

Server(s) == Bind(s) \/ LoadIndex(s) \/ Die(s)

(* The world goes on after the last call, unobserved.                      *)
Observed == \E cl \in Clients : calls[cl].call # Nil /\ calls[cl].pc # "done"

RequestsNext ==
  \/ Observed /\ (Replace \/ \E s \in Servers : Server(s))
  \/ \E cl \in Clients : Client(cl)

(***************************************************************************)
(* A client that runs takes its next step, the clock runs on, and a daemon *)
(* that runs answers what it has received.  Nothing else is certain.       *)
(***************************************************************************)
Fairness == \A cl \in Clients : WF_requestVars(Client(cl) /\ calls[cl].pc # "idle")

RequestsSpec == RequestsInit /\ [][RequestsNext]_requestVars /\ Fairness

----------------------------------------------------------------------------
RequestsTypeOK ==
  /\ generation \in Generations
  /\ \A s \in Servers :
       /\ servers[s].pc \in {"off", "up"} /\ servers[s].http \in {"unbound", "bound", "failed"}
       /\ servers[s].snapshot \in Generations \cup {Nil}
  /\ \A cl \in Clients :
       /\ calls[cl].pc \in {"idle", "probe", "poll", "ask", "sent", "handling", "alone", "done"}
       /\ calls[cl].seen \subseteq Generations
  /\ installs \in 0 .. MaxInstalls /\ failures \in 0 .. MaxFailures

(* The call of a client, k, and its answer.                                *)
Done(k, kind) == k.pc = "done" /\ k.call.kind = kind
Good(k) == k.out # Nil /\ k.out.status \in {200, Itself}

(***************************************************************************)
(* What a call of nix-locate asks for: with --all also what is not of a    *)
(* top-level package, with grouping nothing below a match, and for the     *)
(* line of attributes alone every package that matches.                    *)
(***************************************************************************)
Asked(g, c) ==
  {h \in Matching(g, c) : \/ c.minimal
                          \/ /\ c.all \/ Package(g, h).toplevel
                             /\ ~(c.group /\ Below(c, h))}

Toplevel(g, S) == {h \in S : Package(g, h).toplevel}

(***************************************************************************)
(* What it may show, and what it has to.  A daemon is not told of --all or *)
(* of grouping, and leaves out the other packages for the line of          *)
(* attributes too.                                                         *)
(***************************************************************************)
BySelf(k) == k.out.status = Itself
May(k, g) == IF BySelf(k) THEN Asked(g, k.call) ELSE Toplevel(g, Matching(g, k.call))
Must(k, g) == IF BySelf(k) THEN Asked(g, k.call) ELSE Toplevel(g, Asked(g, k.call))

Limit(k) == IF k.out.status = 200 THEN AtMost(k.call.limit) ELSE k.call.limit
CutOff(k, g) == Limit(k) # Nil /\ Cardinality(May(k, g)) > Limit(k)

(* The ordinals of the snapshot and the packages of the file may differ.   *)
Mixed(k) == k.out.status = 200 /\ k.call.rooted /\ \E g, h \in k.seen : g # h

Lines(k, g, S) == Rows(g, k.call, S, BySelf(k))

LocateTrue(k) ==
  \E g \in k.seen :
    /\ k.out.body \subseteq Lines(k, g, May(k, g))
    /\ ~CutOff(k, g) /\ ~Mixed(k) => Lines(k, g, Must(k, g)) \subseteq k.out.body

CommandTrue(k) ==
  LET o == k.out name == k.call.name
  IN /\ \E g \in k.seen :
          \/ o.providers \in {Providers(g, name), Scanned(g, name)}
          \/ o.providers = {} /\ Dir[g].command = "unreadable"
     /\ o.ran # Nil => /\ o.ran \in o.providers /\ o.ran.toplevel
                        /\ k.call.mode # "interactive" => o.providers = {o.ran}

(***************************************************************************)
(* However calls, installs, loads and deaths interleave, an answer is true *)
(* of the index as it was at some time during the call, or as a daemon     *)
(* still had it: nothing is invented, nothing is mixed of two generations  *)
(* and a search of its own shows what was asked for and nothing else,      *)
(* --all and grouping included, unless a limit cut it.  A daemon's answer  *)
(* is of top-level packages alone, whether --all was given or not; of      *)
(* those, nothing that was asked for is missing, unless a limit cut it or  *)
(* the ordinals of a path prefix are of another generation than the file.  *)
(* A command is run only from a top-level package, and unasked only if no  *)
(* other package has it.                                                   *)
(***************************************************************************)
AnswersTrue ==
  /\ RequestsTypeOK
  /\ \A cl \in Clients :
       /\ Done(calls[cl], "nix-locate") => LocateTrue(calls[cl])
       /\ Done(calls[cl], "command") => CommandTrue(calls[cl])

----------------------------------------------------------------------------
(***************************************************************************)
(* What a search must find, and how good a match is.                       *)
(***************************************************************************)
Hits(db, q) ==
  {r \in Range(db) :
     IF q.fuzzy THEN BestScore(r, q) > 0
     ELSE \E f \in Searched(r, q) : Place(r[f], Cased(q.pattern, q.sensitive), q) > 0}
Standing(r, q) ==
  IF q.fuzzy THEN BestScore(r, q)
  ELSE IF "attr" \in FieldsOf(q.field) THEN Place(r.attr, Cased(q.pattern, q.sensitive), q)
  ELSE 0

\* How often: packages.json has a record for each output after a regeneration.
Times(s, r) == Cardinality({i \in DOMAIN s : s[i] = r})

\* Whether the sort a query asks for allows one record before another.
Above(a, b, q) ==
  CASE q.sort = "none"    -> Standing(a, q) >= Standing(b, q)
    [] q.sort = "reverse" -> Standing(a, q) <= Standing(b, q)
    [] OTHER              -> ~ComesFirst(b, a, q.sort)

Ranked(db, q, body) ==
  /\ \A r \in Range(body) : r \in Hits(db, q) /\ Times(body, r) <= Times(db, r)
  /\ Len(body) = Min({q.limit, Cardinality({i \in DOMAIN db : db[i] \in Hits(db, q)})})
  /\ \A i, j \in DOMAIN body : i < j => Above(body[i], body[j], q)
  /\ \A r \in Hits(db, q) : Times(body, r) < Times(db, r) =>
       \A i \in DOMAIN body : Above(body[i], r, q)

SearchTrue(k) ==
  \E g \in k.seen : Dir[g].meta # Nil /\ Ranked(Dir[g].meta, QueryOf(k.call), k.out.body)

InfoTrue(k) ==
  \E g \in k.seen :
    /\ Dir[g].meta # Nil
    /\ LET named == {r \in Range(Dir[g].meta) : r.attr = k.call.attr}
       IN IF k.out.status = 404 THEN named = {} ELSE k.out.body \in named

(***************************************************************************)
(* An answer about metadata is true of one index that was there during the *)
(* call.  A search finds the records that match somewhere, whichever code  *)
(* decides it (the filter, the score or the bucket), each as often as it   *)
(* is there, and shows first those whose attribute path matches better: as *)
(* a whole before at its start before elsewhere before only in other       *)
(* fields.  Reversed, it shows them last; sorted by a field, in the order  *)
(* of the field.  A limit keeps the first of that order.  A package that   *)
(* is asked for by name is found if there is one.                          *)
(***************************************************************************)
MetadataTrue ==
  \A cl \in Clients :
    LET k == calls[cl]
    IN /\ Done(k, "search") /\ Good(k) => SearchTrue(k)
       /\ Done(k, "info") /\ (Good(k) \/ (k.out # Nil /\ k.out.status = 404)) => InfoTrue(k)

(***************************************************************************)
(* Every call ends, whether there is a daemon, it never becomes ready, it  *)
(* has another token, or it dies: a client waits for none of it for ever.  *)
(***************************************************************************)
CallsEnd == \A cl \in Clients : calls[cl].pc # "idle" ~> calls[cl].pc = "done"
=============================================================================
