---------------------------- MODULE ClosureFetch ----------------------------
(***************************************************************************)
(* fetch_listings: a feeder task that collects the root packages, a        *)
(* dispatcher that pops the work queue and spawns one task per store path  *)
(* under a semaphore, the tasks that fetch a narinfo and a file listing    *)
(* and push newly seen references back onto the queue, and the bounded     *)
(* channel to the index build.  Termination is detected from a counter,    *)
(* a flag and a one-permit Notify.  Each action is one atomic access.      *)
(***************************************************************************)
EXTENDS StoreClosure

CONSTANT Workers  \* the semaphore's permits; a running task occupies one

ASSUME WorkersAssumption == IsFiniteSet(Workers) /\ Workers # {}

VARIABLES
  world,        \* never changes: the input of this run
  fpc,          \* feeder: "recv", "extend", "flag", "wake", "gone"
  fed,          \* entries of world.input the feeder has received
  roots,        \* its local vector of first-seen root entries
  queue,        \* Mutex<VecDeque<PackageEntry>>
  seen,         \* keys of the deduplication map
  program,      \* main_program stored in that map
  inFlight,     \* AtomicUsize
  permit,       \* Notify: a stored (or just delivered) wake-up
  inputDone,    \* AtomicBool
  dpc,          \* dispatcher: "pop", "spawn", "flag", "count", "wait", "gone"
  dentry,       \* the entry it popped
  wpc,          \* task of each permit, "idle" when the permit is free
  wentry,       \* the task's entry
  wtodo,        \* references it has yet to look up
  wref,         \* the reference it is adding
  witem,        \* process_path's result
  out,          \* the output channel
  received,     \* what the build has taken from it
  stream        \* the build's end: "open", "ended" or "dropped"

feederVars == <<fpc, fed, roots>>
dispatcherVars == <<dpc, dentry>>
workerVars == <<wpc, wentry, wtodo, wref, witem>>
consumerVars == <<received, stream>>
vars == <<world, fpc, fed, roots, queue, seen, program, inFlight, permit,
          inputDone, dpc, dentry, wpc, wentry, wtodo, wref, witem, out,
          received, stream>>

Jobs == Cardinality(Workers)

Init ==
  /\ world \in Worlds
  /\ fpc = "recv" /\ fed = 0 /\ roots = << >>
  /\ queue = << >> /\ seen = {} /\ program = [p \in Paths |-> NoProgram]
  /\ inFlight = 0 /\ permit = FALSE /\ inputDone = FALSE
  /\ dpc = "pop" /\ dentry = NoItem
  /\ wpc = [w \in Workers |-> "idle"]
  /\ wentry = [w \in Workers |-> NoItem]
  /\ wtodo = [w \in Workers |-> {}]
  /\ wref = [w \in Workers |-> NoItem]
  /\ witem = [w \in Workers |-> NoItem]
  /\ out = << >> /\ received = << >> /\ stream = "open"

-----------------------------------------------------------------------------
(***************************************************************************)
(* Feeder.                                                                 *)
(***************************************************************************)
\* Fault: a root is queued as soon as it is received, before later entries.
FeederRecvEager ==
  /\ fpc = "recv"
  /\ fed < Len(world.input)
  /\ LET e == world.input[fed + 1]
         p == e.path
     IN  /\ seen' = seen \cup {p}
         /\ program' = [program EXCEPT ![p] = IF @ = NoProgram THEN e.program ELSE @]
         /\ IF p \in seen THEN UNCHANGED <<queue, inFlight>>
            ELSE /\ inFlight' = inFlight + 1
                 /\ queue' = Append(queue, [path |-> p, program |-> e.program,
                                            toplevel |-> TRUE])
  /\ fed' = fed + 1
  /\ UNCHANGED <<world, fpc, roots, permit, inputDone, dispatcherVars,
                 workerVars, out, consumerVars>>

FeederRecv ==
  /\ fpc = "recv"
  /\ fed < Len(world.input)
  /\ LET e == world.input[fed + 1]
         p == e.path
     IN  /\ seen' = seen \cup {p}
         /\ program' = [program EXCEPT ![p] = IF @ = NoProgram THEN e.program ELSE @]
         /\ roots' = IF p \in seen THEN roots
                     ELSE Append(roots, [path |-> p, program |-> e.program,
                                         toplevel |-> TRUE])
  /\ fed' = fed + 1
  /\ UNCHANGED <<world, fpc, queue, inFlight, permit, inputDone,
                 dispatcherVars, workerVars, out, consumerVars>>

\* Fault: counts the entries received instead of the first-seen roots.
FeederCountEntries ==
  /\ fpc = "recv"
  /\ fed = Len(world.input)
  /\ inFlight' = inFlight + fed
  /\ fpc' = "extend"
  /\ UNCHANGED <<world, fed, roots, queue, seen, program, permit, inputDone,
                 dispatcherVars, workerVars, out, consumerVars>>

FeederCount ==
  /\ fpc = "recv"
  /\ fed = Len(world.input)
  /\ inFlight' = inFlight + Len(roots)
  /\ fpc' = "extend"
  /\ UNCHANGED <<world, fed, roots, queue, seen, program, permit, inputDone,
                 dispatcherVars, workerVars, out, consumerVars>>

FeederExtend ==
  /\ fpc = "extend"
  /\ queue' = queue \o roots
  /\ roots' = << >>
  /\ fpc' = "flag"
  /\ UNCHANGED <<world, fed, seen, program, inFlight, permit, inputDone,
                 dispatcherVars, workerVars, out, consumerVars>>

FeederFlag ==
  /\ fpc = "flag"
  /\ inputDone' = TRUE
  /\ fpc' = "wake"
  /\ UNCHANGED <<world, fed, roots, queue, seen, program, inFlight, permit,
                 dispatcherVars, workerVars, out, consumerVars>>

FeederWake ==
  /\ fpc = "wake"
  /\ permit' = TRUE
  /\ fpc' = "gone"
  /\ UNCHANGED <<world, fed, roots, queue, seen, program, inFlight, inputDone,
                 dispatcherVars, workerVars, out, consumerVars>>

Feeder == FeederRecv \/ FeederCount \/ FeederExtend \/ FeederFlag \/ FeederWake

-----------------------------------------------------------------------------
(***************************************************************************)
(* Dispatcher.  It reads input_done before in_flight and goes to sleep in  *)
(* a step of its own; a wake-up sent in between is stored in `permit`.     *)
(***************************************************************************)
DispatcherPop ==
  /\ dpc = "pop"
  /\ IF queue = << >>
     THEN /\ dpc' = "flag"
          /\ UNCHANGED <<queue, dentry>>
     ELSE /\ dentry' = Head(queue)
          /\ queue' = Tail(queue)
          /\ dpc' = "spawn"
  /\ UNCHANGED <<world, feederVars, seen, program, inFlight, permit, inputDone,
                 workerVars, out, consumerVars>>

DispatcherSpawn(w) ==
  /\ dpc = "spawn"
  /\ wpc[w] = "idle"
  /\ wpc' = [wpc EXCEPT ![w] = IF world.shallow THEN "ls" ELSE "narinfo"]
  /\ wentry' = [wentry EXCEPT ![w] = dentry]
  /\ dentry' = NoItem
  /\ dpc' = "pop"
  /\ UNCHANGED <<world, feederVars, queue, seen, program, inFlight, permit,
                 inputDone, wtodo, wref, witem, out, consumerVars>>

DispatcherReadFlag ==
  /\ dpc = "flag"
  /\ dpc' = IF inputDone THEN "count" ELSE "wait"
  /\ UNCHANGED <<world, feederVars, queue, seen, program, inFlight, permit,
                 inputDone, dentry, workerVars, out, consumerVars>>

\* Fault: takes an empty queue for the end, whatever is still in flight.
DispatcherReadQueue ==
  /\ dpc = "count"
  /\ dpc' = IF queue = << >> THEN "gone" ELSE "wait"
  /\ UNCHANGED <<world, feederVars, queue, seen, program, inFlight, permit,
                 inputDone, dentry, workerVars, out, consumerVars>>

DispatcherReadCount ==
  /\ dpc = "count"
  /\ dpc' = IF inFlight = 0 THEN "gone" ELSE "wait"
  /\ UNCHANGED <<world, feederVars, queue, seen, program, inFlight, permit,
                 inputDone, dentry, workerVars, out, consumerVars>>

DispatcherWake ==
  /\ dpc = "wait"
  /\ permit
  /\ permit' = FALSE
  /\ dpc' = "pop"
  /\ UNCHANGED <<world, feederVars, queue, seen, program, inFlight, inputDone,
                 dentry, workerVars, out, consumerVars>>

Dispatcher ==
  \/ DispatcherPop
  \/ \E w \in Workers : DispatcherSpawn(w)
  \/ DispatcherReadFlag
  \/ DispatcherReadCount
  \/ DispatcherWake

-----------------------------------------------------------------------------
(***************************************************************************)
(* Tasks.  EffectiveProgram is the entry's own program or the one the      *)
(* deduplication map holds.                                                *)
(***************************************************************************)
\* Fault: forgets the program that another entry of the path gave.
OwnProgram(e) == e.program

EffectiveProgram(e) == IF e.program # NoProgram THEN e.program ELSE program[e.path]

\* Fault: makes a listing out of an unusable program.
MakeAnyItem(e, body) ==
  [path |-> e.path, toplevel |-> e.toplevel, body |-> body]

MakeItem(e, body) ==
  IF body = NoItem THEN NoItem
  ELSE [path |-> e.path, toplevel |-> e.toplevel, body |-> body]

SyntheticBody(e) ==
  IF EffectiveProgram(e) \in ValidPrograms THEN EffectiveProgram(e) ELSE NoItem

(***************************************************************************)
(* The answer to the narinfo request: the references to look up, or the    *)
(* end of this task's fetch.                                               *)
(***************************************************************************)
WorkerNarinfo(w) ==
  LET e == wentry[w] IN
  /\ wpc[w] = "narinfo"
  /\ \/ /\ world.narinfo[e.path] = "ok"
        /\ wtodo' = [wtodo EXCEPT ![w] = world.refs[e.path]]
        /\ wpc' = [wpc EXCEPT ![w] = "refs"]
        /\ UNCHANGED witem
     \/ /\ world.narinfo[e.path] = "not_found"
        /\ witem' = [witem EXCEPT ![w] = MakeItem(e, SyntheticBody(e))]
        /\ wpc' = [wpc EXCEPT ![w] = "sub"]
        /\ UNCHANGED wtodo
     \/ /\ world.narinfo[e.path] = "error"
        /\ wpc' = [wpc EXCEPT ![w] = "sub"]
        /\ UNCHANGED <<wtodo, witem>>
  /\ UNCHANGED <<world, feederVars, queue, seen, program, inFlight, permit,
                 inputDone, dispatcherVars, wentry, wref, out, consumerVars>>

WorkerLookup(w, r) ==
  /\ wpc[w] = "refs"
  /\ r \in wtodo[w]
  /\ wtodo' = [wtodo EXCEPT ![w] = @ \ {r}]
  /\ seen' = seen \cup {r}
  /\ IF r \in seen
     THEN UNCHANGED <<wpc, wref>>
     ELSE /\ wref' = [wref EXCEPT ![w] = r]
          /\ wpc' = [wpc EXCEPT ![w] = "add"]
  /\ UNCHANGED <<world, feederVars, queue, program, inFlight, permit, inputDone,
                 dispatcherVars, wentry, witem, out, consumerVars>>

WorkerCount(w) ==
  /\ wpc[w] = "add"
  /\ inFlight' = inFlight + 1
  /\ wpc' = [wpc EXCEPT ![w] = "push"]
  /\ UNCHANGED <<world, feederVars, queue, seen, program, permit, inputDone,
                 dispatcherVars, wentry, wtodo, wref, witem, out, consumerVars>>

WorkerPush(w) ==
  /\ wpc[w] = "push"
  /\ queue' = Append(queue, [path |-> wref[w], program |-> NoProgram,
                             toplevel |-> FALSE])
  /\ wref' = [wref EXCEPT ![w] = NoItem]
  /\ wpc' = [wpc EXCEPT ![w] = "notify"]
  /\ UNCHANGED <<world, feederVars, seen, program, inFlight, permit, inputDone,
                 dispatcherVars, wentry, wtodo, witem, out, consumerVars>>

WorkerNotify(w) ==
  /\ wpc[w] = "notify"
  /\ permit' = TRUE
  /\ wpc' = [wpc EXCEPT ![w] = "refs"]
  /\ UNCHANGED <<world, feederVars, queue, seen, program, inFlight, inputDone,
                 dispatcherVars, wentry, wtodo, wref, witem, out, consumerVars>>

WorkerRefsDone(w) ==
  /\ wpc[w] = "refs"
  /\ wtodo[w] = {}
  /\ wpc' = [wpc EXCEPT ![w] = "ls"]
  /\ UNCHANGED <<world, feederVars, queue, seen, program, inFlight, permit,
                 inputDone, dispatcherVars, wentry, wtodo, wref, witem, out,
                 consumerVars>>

WorkerLs(w) ==
  LET e == wentry[w] IN
  /\ wpc[w] = "ls"
  /\ witem' = [witem EXCEPT ![w] =
                 IF world.ls[e.path] = "ok" THEN MakeItem(e, Tree)
                 ELSE IF world.ls[e.path] = "not_found"
                      THEN MakeItem(e, SyntheticBody(e))
                      ELSE NoItem]
  /\ wpc' = [wpc EXCEPT ![w] = "sub"]
  /\ UNCHANGED <<world, feederVars, queue, seen, program, inFlight, permit,
                 inputDone, dispatcherVars, wentry, wtodo, wref, out, consumerVars>>

\* Fault: takes the value fetch_sub returns for the new one.
WorkerSubNewValue(w) ==
  /\ wpc[w] = "sub"
  /\ inFlight' = inFlight - 1
  /\ wpc' = [wpc EXCEPT ![w] = IF inFlight = 0 THEN "wake" ELSE "send"]
  /\ UNCHANGED <<world, feederVars, queue, seen, program, permit, inputDone,
                 dispatcherVars, wentry, wtodo, wref, witem, out, consumerVars>>

(***************************************************************************)
(* process_path gives up its count before its listing is sent.             *)
(***************************************************************************)
WorkerSub(w) ==
  /\ wpc[w] = "sub"
  /\ inFlight' = inFlight - 1
  /\ wpc' = [wpc EXCEPT ![w] = IF inFlight = 1 THEN "wake" ELSE "send"]
  /\ UNCHANGED <<world, feederVars, queue, seen, program, permit, inputDone,
                 dispatcherVars, wentry, wtodo, wref, witem, out, consumerVars>>

WorkerWake(w) ==
  /\ wpc[w] = "wake"
  /\ permit' = TRUE
  /\ wpc' = [wpc EXCEPT ![w] = "send"]
  /\ UNCHANGED <<world, feederVars, queue, seen, program, inFlight, inputDone,
                 dispatcherVars, wentry, wtodo, wref, witem, out, consumerVars>>

\* Fault: keeps waiting for room after the receiver is gone.
WorkerSendBlocking(w) ==
  /\ wpc[w] = "send"
  /\ IF witem[w] = NoItem
     THEN UNCHANGED out
     ELSE /\ stream # "dropped"
          /\ Len(out) < 2 * Jobs
          /\ out' = Append(out, witem[w])
  /\ wpc' = [wpc EXCEPT ![w] = "idle"]
  /\ wentry' = [wentry EXCEPT ![w] = NoItem]
  /\ witem' = [witem EXCEPT ![w] = NoItem]
  /\ UNCHANGED <<world, feederVars, queue, seen, program, inFlight, permit,
                 inputDone, dispatcherVars, wtodo, wref, consumerVars>>

(***************************************************************************)
(* The send waits for room; with the receiver gone it fails at once and    *)
(* the failure is ignored.  The task ends and frees its permit.            *)
(***************************************************************************)
WorkerSend(w) ==
  /\ wpc[w] = "send"
  /\ IF witem[w] = NoItem \/ stream = "dropped"
     THEN UNCHANGED out
     ELSE /\ Len(out) < 2 * Jobs
          /\ out' = Append(out, witem[w])
  /\ wpc' = [wpc EXCEPT ![w] = "idle"]
  /\ wentry' = [wentry EXCEPT ![w] = NoItem]
  /\ witem' = [witem EXCEPT ![w] = NoItem]
  /\ UNCHANGED <<world, feederVars, queue, seen, program, inFlight, permit,
                 inputDone, dispatcherVars, wtodo, wref, consumerVars>>

Worker(w) ==
  \/ WorkerNarinfo(w)
  \/ \E r \in Paths : WorkerLookup(w, r)
  \/ WorkerCount(w)
  \/ WorkerPush(w)
  \/ WorkerNotify(w)
  \/ WorkerRefsDone(w)
  \/ WorkerLs(w)
  \/ WorkerSub(w)
  \/ WorkerWake(w)
  \/ WorkerSend(w)

-----------------------------------------------------------------------------
(***************************************************************************)
(* The index build at the other end of the channel.  The channel closes    *)
(* when the dispatcher and every task have dropped their sender.           *)
(***************************************************************************)
Receive ==
  /\ stream = "open"
  /\ out # << >>
  /\ received' = Append(received, Head(out))
  /\ out' = Tail(out)
  /\ UNCHANGED <<world, feederVars, queue, seen, program, inFlight, permit,
                 inputDone, dispatcherVars, workerVars, stream>>

SendersGone == dpc = "gone" /\ \A w \in Workers : wpc[w] = "idle"

ReceiveEnd ==
  /\ stream = "open"
  /\ out = << >>
  /\ SendersGone
  /\ stream' = "ended"
  /\ UNCHANGED <<world, feederVars, queue, seen, program, inFlight, permit,
                 inputDone, dispatcherVars, workerVars, out, received>>

DropReceiver ==
  /\ stream = "open"
  /\ stream' = "dropped"
  /\ out' = << >>
  /\ UNCHANGED <<world, feederVars, queue, seen, program, inFlight, permit,
                 inputDone, dispatcherVars, workerVars, received>>

(***************************************************************************)
(* Every task is over and the build has let go of the channel.             *)
(***************************************************************************)
Quiescent == SendersGone /\ fpc = "gone" /\ stream # "open"

Terminated == Quiescent /\ UNCHANGED vars

Next ==
  \/ Feeder
  \/ Dispatcher
  \/ \E w \in Workers : Worker(w)
  \/ Receive
  \/ ReceiveEnd
  \/ DropReceiver
  \/ Terminated

(***************************************************************************)
(* The runtime keeps polling every task that can move, and the evaluator   *)
(* ends the input; the build keeps receiving until it drops the channel.   *)
(***************************************************************************)
Fairness ==
  /\ WF_vars(Feeder)
  /\ WF_vars(Dispatcher)
  /\ \A w \in Workers : WF_vars(Worker(w))
  /\ WF_vars(Receive)
  /\ WF_vars(ReceiveEnd)

Spec == Init /\ [][Next]_vars /\ Fairness

-----------------------------------------------------------------------------
(***************************************************************************)
(* Properties.                                                             *)
(***************************************************************************)
Phases == {"narinfo", "refs", "add", "push", "notify", "ls", "sub"}
Tails == {"wake", "send"}

\* Every variable has its type; a task has an entry from spawn to end and a
\* pending reference only while it adds one (fetch_listings_with_source).
TypeOK ==
  /\ world \in Worlds
  /\ fpc \in {"recv", "extend", "flag", "wake", "gone"}
  /\ fed \in 0..Len(world.input)
  /\ roots \in Seq(Entry)
  /\ queue \in Seq(Entry)
  /\ seen \in SUBSET Paths
  /\ program \in [Paths -> Programs \cup {NoProgram}]
  /\ inFlight \in Nat
  /\ permit \in BOOLEAN
  /\ inputDone \in BOOLEAN
  /\ dpc \in {"pop", "spawn", "flag", "count", "wait", "gone"}
  /\ dpc = "spawn" => dentry \in Entry
  /\ wpc \in [Workers -> {"idle"} \cup Phases \cup Tails]
  /\ wentry \in [Workers -> Entry \cup {NoItem}]
  /\ wtodo \in [Workers -> SUBSET Paths]
  /\ wref \in [Workers -> Paths \cup {NoItem}]
  /\ witem \in [Workers -> Item \cup {NoItem}]
  /\ \A w \in Workers :
       /\ wpc[w] # "idle" => wentry[w] \in Entry
       /\ wpc[w] \in {"add", "push"} => wref[w] \in Paths
  /\ out \in Seq(Item)
  /\ received \in Seq(Item)
  /\ stream \in {"open", "ended", "dropped"}

Running == {w \in Workers : wpc[w] \in Phases}
Pushing == {w \in Workers : wpc[w] = "push"}

\* in_flight is at every instant the number of entries that are queued, held
\* by the dispatcher, being processed, or counted and not yet queued: the
\* shutdown test of the dispatcher reads the counter as if it were this sum.
InFlightExact ==
  inFlight = Len(queue) + Cardinality(Running) + Cardinality(Pushing)
             + (IF dpc = "spawn" THEN 1 ELSE 0)
             + (IF fpc = "extend" THEN Len(roots) ELSE 0)

\* The dispatcher leaves its loop, and gives up its sender, only when every
\* root has been fed, nothing is queued or being processed, and the paths
\* seen are exactly the closure of the roots.
NoEarlyClose ==
  dpc = "gone" =>
    /\ fed = Len(world.input)
    /\ queue = << >>
    /\ Running = {}
    /\ seen = ClosureOf[world]

\* Without a stored or pending wake-up the dispatcher never sleeps over work
\* or over the end of the run: the store-flag / check / wait race of the
\* dispatcher against the feeder and the last task.
NoLostWakeup ==
  dpc = "wait" /\ ~permit =>
    /\ queue # << >> =>
         fpc \in {"flag", "wake"} \/ (\E w \in Workers : wpc[w] = "notify")
    /\ inputDone /\ inFlight = 0 =>
         fpc = "wake" \/ (\E w \in Workers : wpc[w] = "wake")

\* Whatever reaches the channel is the listing its path deserves: a root is
\* labelled as top-level even when another package refers to it, and a
\* synthetic listing names the first main program any root entry gave.
OnlyDeservedListings ==
  /\ \A i \in DOMAIN out : out[i] \in Wanted[world]
  /\ \A i \in DOMAIN received : received[i] \in Wanted[world]

\* fetch_listings implements what it promises: each listing of the closure
\* exactly once, the end of the stream only after all of them, and the end
\* always comes unless the build stops listening.
Abstract == INSTANCE ClosureSpec WITH delivered <- received
Promise == Abstract!Spec

\* Every spawned task ends, and with it every permit and sender is freed, even
\* when the build drops the receiver while tasks wait for room in the channel.
TasksEnd == <>[]Quiescent
=============================================================================
