--------------------------- MODULE TransferProofs ---------------------------
(***************************************************************************)
(* Theorems about what comes over the network.  Of ClosureFetch, the       *)
(* listings of a closure, for every input, every set of store paths and    *)
(* every number of jobs; and of SegmentedDownload, the prebuilt index, for *)
(* any server history in which a tag names one index, any segment size,    *)
(* number of connections, attempts and faults.                             *)
(***************************************************************************)
EXTENDS ClosureFetch, SegmentedDownload, FiniteSetTheorems, SequenceTheorems, TLAPS

-----------------------------------------------------------------------------
(***************************************************************************)
(* Counting.                                                               *)
(***************************************************************************)

\* The sets that the in-flight sum counts are finite.
LEMMA CountsAreNat ==
  ASSUME TypeOK
  PROVE  /\ IsFiniteSet(Running) /\ Cardinality(Running) \in Nat
         /\ IsFiniteSet(Pushing) /\ Cardinality(Pushing) \in Nat
         /\ Running \subseteq Workers /\ Pushing \subseteq Workers
<1>1. Running \subseteq Workers /\ Pushing \subseteq Workers
  BY DEF Running, Pushing
<1>2. QED
  BY <1>1, WorkersAssumption, FS_Subset, FS_CardinalityType

\* A task that has not given up its count keeps the counter above zero, so the
\* subtraction in process_path never underflows.
LEMMA RunningIsCounted ==
  ASSUME TypeOK, InFlightExact, NEW w \in Workers, wpc[w] \in Phases
  PROVE  inFlight >= 1
<1>1. w \in Running
  BY DEF Running
<1>2. Cardinality(Running) # 0
  BY <1>1, CountsAreNat, FS_EmptySet
<1>3. Len(queue) \in Nat /\ Len(roots) \in Nat
  BY DEF TypeOK
<1>4. QED
  BY <1>2, <1>3, CountsAreNat DEF InFlightExact, TypeOK

-----------------------------------------------------------------------------
(***************************************************************************)
(* Type correctness.                                                       *)
(***************************************************************************)
LEMMA InputFacts ==
  ASSUME NEW wld \in Worlds
  PROVE  /\ wld.input \in Seq([path : Paths, program : Programs \cup {NoProgram}])
         /\ Len(wld.input) \in Nat
         /\ wld.refs \in [Paths -> SUBSET Paths]
         /\ wld.narinfo \in [Paths -> Answers]
         /\ wld.ls \in [Paths -> Answers]
         /\ \A i \in 1..Len(wld.input) :
              /\ wld.input[i].path \in Paths
              /\ wld.input[i].program \in Programs \cup {NoProgram}
<1> DEFINE R == [path : Paths, program : Programs \cup {NoProgram}]
<1>1. IsWorld(wld)
  BY WorldsAssumption
<1>2. wld.input \in Seq(R)
  BY <1>1 DEF IsWorld
<1> HIDE DEF R
<1>3. /\ Len(wld.input) \in Nat
      /\ \A i \in 1..Len(wld.input) : wld.input[i] \in R
  BY <1>2, LenProperties, ElementOfSeq
<1> USE DEF R
<1>4. QED
  BY <1>1, <1>3 DEF IsWorld

LEMMA InitTypeOK == Init => TypeOK
<1> SUFFICES ASSUME Init PROVE TypeOK
  OBVIOUS
<1>1. Len(world.input) \in Nat
  BY InputFacts DEF Init
<1>2. /\ roots \in Seq(Entry) /\ queue \in Seq(Entry)
      /\ out \in Seq(Item) /\ received \in Seq(Item)
  BY EmptySeq DEF Init
<1>3. /\ program \in [Paths -> Programs \cup {NoProgram}]
      /\ wpc \in [Workers -> {"idle"} \cup Phases \cup Tails]
      /\ wentry \in [Workers -> Entry \cup {NoItem}]
      /\ wtodo \in [Workers -> SUBSET Paths]
      /\ wref \in [Workers -> Paths \cup {NoItem}]
      /\ witem \in [Workers -> Item \cup {NoItem}]
  BY DEF Init
<1>4. \A w \in Workers : wpc[w] = "idle"
  BY DEF Init
<1>5. world \in Worlds /\ fed \in 0..Len(world.input)
  BY <1>1 DEF Init
<1>6. QED
  BY <1>2, <1>3, <1>4, <1>5 DEF Init, TypeOK

LEMMA TypeStep ==
  ASSUME TypeOK, InFlightExact, [Next]_vars
  PROVE  TypeOK'
<1>0. /\ world.refs \in [Paths -> SUBSET Paths]
      /\ world.narinfo \in [Paths -> Answers]
      /\ world.ls \in [Paths -> Answers]
      /\ Len(world.input) \in Nat
  BY InputFacts DEF TypeOK
<1> USE DEF TypeOK, feederVars, dispatcherVars, workerVars, consumerVars
<1>1. CASE FeederRecv
  <2> DEFINE e == world.input[fed + 1]
  <2>1. fed + 1 \in 1..Len(world.input)
    BY <1>0, <1>1 DEF FeederRecv
  <2>2. e.path \in Paths /\ e.program \in Programs \cup {NoProgram}
    BY <2>1, InputFacts
  <2>3. roots' \in Seq(Entry)
    <3>1. [path |-> e.path, program |-> e.program, toplevel |-> TRUE] \in Entry
      BY <2>2 DEF Entry
    <3>2. QED
      BY <1>1, <3>1 DEF FeederRecv
  <2>4. program' \in [Paths -> Programs \cup {NoProgram}]
    BY <1>1, <2>2 DEF FeederRecv
  <2>5. QED
    BY <1>1, <2>1, <2>2, <2>3, <2>4 DEF FeederRecv
<1>2. CASE FeederCount
  BY <1>0, <1>2 DEF FeederCount
<1>3. CASE FeederExtend
  BY <1>0, <1>3 DEF FeederExtend
<1>4. CASE FeederFlag
  BY <1>4 DEF FeederFlag
<1>5. CASE FeederWake
  BY <1>5 DEF FeederWake
<1>6. CASE DispatcherPop
  <2>1. queue # << >> => Head(queue) \in Entry /\ Tail(queue) \in Seq(Entry)
    BY HeadTailProperties
  <2>2. QED
    BY <1>6, <2>1 DEF DispatcherPop
<1>7. ASSUME NEW w \in Workers, DispatcherSpawn(w) PROVE TypeOK'
  BY <1>7 DEF DispatcherSpawn, Phases
<1>8. CASE DispatcherReadFlag
  BY <1>8 DEF DispatcherReadFlag
<1>9. CASE DispatcherReadCount
  BY <1>9 DEF DispatcherReadCount
<1>10. CASE DispatcherWake
  BY <1>10 DEF DispatcherWake
<1>11. ASSUME NEW e \in Entry, NEW text \in Programs \cup {Tree, NoItem}
       PROVE  MakeItem(e, text) \in Item \cup {NoItem}
  BY DEF MakeItem, Entry, Item
<1>12. ASSUME NEW e \in Entry
       PROVE  SyntheticBody(e) \in Programs \cup {Tree, NoItem}
  BY ProgramsAssumption DEF SyntheticBody, EffectiveProgram, Entry
<1>13. ASSUME NEW w \in Workers, WorkerNarinfo(w) PROVE TypeOK'
  <2>1. wentry[w] \in Entry /\ wentry[w].path \in Paths
    BY <1>13 DEF WorkerNarinfo, Entry
  <2>2. MakeItem(wentry[w], SyntheticBody(wentry[w])) \in Item \cup {NoItem}
    BY <2>1, <1>11, <1>12
  <2>3. world.narinfo[wentry[w].path] \in {"ok", "not_found", "error"}
    BY <2>1, <1>0 DEF Answers
  <2>4. world.refs[wentry[w].path] \in SUBSET Paths
    BY <1>0, <2>1
  <2>5. /\ witem' \in [Workers -> Item \cup {NoItem}]
        /\ wtodo' \in [Workers -> SUBSET Paths]
    BY <1>13, <2>2, <2>4 DEF WorkerNarinfo
  <2>6. QED
    BY <1>13, <2>5, SMTT(30) DEF WorkerNarinfo, Phases
<1>14. ASSUME NEW w \in Workers, NEW r \in Paths, WorkerLookup(w, r) PROVE TypeOK'
  BY <1>14, ZenonT(40) DEF WorkerLookup, Phases
<1>15. ASSUME NEW w \in Workers, WorkerCount(w) PROVE TypeOK'
  BY <1>15 DEF WorkerCount, Phases
<1>16. ASSUME NEW w \in Workers, WorkerPush(w) PROVE TypeOK'
  BY <1>16 DEF WorkerPush, Phases, Entry
<1>17. ASSUME NEW w \in Workers, WorkerNotify(w) PROVE TypeOK'
  BY <1>17 DEF WorkerNotify, Phases
<1>18. ASSUME NEW w \in Workers, WorkerRefsDone(w) PROVE TypeOK'
  BY <1>18 DEF WorkerRefsDone, Phases
<1>19. ASSUME NEW w \in Workers, WorkerLs(w) PROVE TypeOK'
  <2>1. wentry[w] \in Entry /\ wentry[w].path \in Paths
    BY <1>19 DEF WorkerLs, Entry
  <2>2. /\ MakeItem(wentry[w], SyntheticBody(wentry[w])) \in Item \cup {NoItem}
        /\ MakeItem(wentry[w], Tree) \in Item \cup {NoItem}
    BY <2>1, <1>11, <1>12
  <2>3. world.ls[wentry[w].path] \in {"ok", "not_found", "error"}
    BY <2>1, <1>0 DEF Answers
  <2>4. witem' \in [Workers -> Item \cup {NoItem}]
    BY <1>19, <2>2, <2>3 DEF WorkerLs
  <2>5. QED
    BY <1>19, <2>4 DEF WorkerLs, Phases
<1>20. ASSUME NEW w \in Workers, WorkerSub(w) PROVE TypeOK'
  <2>1. inFlight >= 1
    BY <1>20, RunningIsCounted DEF WorkerSub, Phases
  <2>2. QED
    BY <1>20, <2>1 DEF WorkerSub, Phases, Tails
<1>21. ASSUME NEW w \in Workers, WorkerWake(w) PROVE TypeOK'
  BY <1>21 DEF WorkerWake, Tails
<1>22. ASSUME NEW w \in Workers, WorkerSend(w) PROVE TypeOK'
  <2>1. out' \in Seq(Item)
    <3>1. witem[w] \in Item => Append(out, witem[w]) \in Seq(Item)
      BY AppendProperties
    <3>2. QED
      BY <1>22, <3>1 DEF WorkerSend
  <2>2. QED
    BY <1>22, <2>1 DEF WorkerSend, Tails
<1>23. CASE Receive
  BY <1>23 DEF Receive
<1>24. CASE ReceiveEnd
  BY <1>24 DEF ReceiveEnd
<1>25. CASE DropReceiver
  BY <1>25 DEF DropReceiver
<1>26. CASE UNCHANGED vars
  BY <1>26 DEF vars
<1>27. QED
  BY <1>1, <1>2, <1>3, <1>4, <1>5, <1>6, <1>7, <1>8, <1>9, <1>10, <1>13, <1>14,
     <1>15, <1>16, <1>17, <1>18, <1>19, <1>20, <1>21, <1>22, <1>23, <1>24, <1>25,
     <1>26 DEF Next, Feeder, Dispatcher, Worker, Terminated

-----------------------------------------------------------------------------
(***************************************************************************)
(* The counter is exact.  The first group of actions leaves both counted   *)
(* sets alone; each remaining one moves a single task.                     *)
(***************************************************************************)
LEMMA InitInFlight == Init => InFlightExact
<1> SUFFICES ASSUME Init PROVE InFlightExact
  OBVIOUS
<1>1. Running = {} /\ Pushing = {}
  BY DEF Init, Running, Pushing, Phases
<1>2. Len(queue) = 0
  BY DEF Init
<1>3. QED
  BY <1>1, <1>2, FS_EmptySet DEF Init, InFlightExact

LEMMA InFlightStep ==
  ASSUME TypeOK, InFlightExact, [Next]_vars
  PROVE  InFlightExact'
<1> DEFINE nq == Len(queue)
           nr == Len(roots)
<1>0. /\ nq \in Nat /\ nr \in Nat /\ inFlight \in Nat
      /\ Cardinality(Running) \in Nat /\ Cardinality(Pushing) \in Nat
  BY CountsAreNat DEF TypeOK
<1> USE <1>0 DEF InFlightExact, feederVars, dispatcherVars, workerVars, consumerVars
<1>same. ASSUME UNCHANGED wpc PROVE Running' = Running /\ Pushing' = Pushing
  BY <1>same DEF Running, Pushing
<1>1. CASE FeederRecv
  BY <1>1, <1>same DEF FeederRecv
<1>2. CASE FeederCount
  BY <1>2, <1>same DEF FeederCount
<1>3. CASE FeederExtend
  <2>1. Len(queue') = nq + nr
    BY <1>3, ConcatProperties DEF FeederExtend, TypeOK
  <2>2. QED
    BY <1>3, <2>1, <1>same DEF FeederExtend
<1>4. CASE FeederFlag \/ FeederWake \/ DispatcherReadFlag \/ DispatcherReadCount
           \/ DispatcherWake \/ Receive \/ ReceiveEnd \/ DropReceiver \/ UNCHANGED vars
  BY <1>4, <1>same DEF FeederFlag, FeederWake, DispatcherReadFlag,
     DispatcherReadCount, DispatcherWake, Receive, ReceiveEnd, DropReceiver, vars
<1>5. CASE DispatcherPop
  <2>1. queue # << >> => Len(Tail(queue)) = nq - 1
    BY HeadTailProperties DEF TypeOK
  <2>2. CASE queue = << >>
    BY <1>5, <2>2, <1>same DEF DispatcherPop
  <2>3. CASE queue # << >>
    <3>1. /\ dpc = "pop" /\ dpc' = "spawn" /\ Len(queue') = nq - 1
          /\ UNCHANGED <<inFlight, fpc, roots, wpc>>
      BY <1>5, <2>1, <2>3 DEF DispatcherPop
    <3>2. QED
      BY <3>1, <1>same
  <2>4. QED
    BY <2>2, <2>3
<1>6. ASSUME NEW w \in Workers, DispatcherSpawn(w) PROVE InFlightExact'
  <2>1. Running' = Running \cup {w} /\ w \notin Running /\ Pushing' = Pushing
    BY <1>6 DEF DispatcherSpawn, Running, Pushing, Phases, TypeOK
  <2>2. Cardinality(Running') = Cardinality(Running) + 1
    BY <2>1, CountsAreNat, FS_AddElement
  <2>3. QED
    BY <1>6, <2>1, <2>2 DEF DispatcherSpawn
<1>moves. ASSUME NEW w \in Workers, NEW place \in Phases, wpc[w] \in Phases, wpc[w] # "push",
                 place # "push", wpc' = [wpc EXCEPT ![w] = place]
          PROVE  Running' = Running /\ Pushing' = Pushing
  BY <1>moves DEF Running, Pushing, Phases, TypeOK
<1>7. ASSUME NEW w \in Workers,
             \/ WorkerNarinfo(w)
             \/ \E r \in Paths : WorkerLookup(w, r)
             \/ WorkerNotify(w)
             \/ WorkerRefsDone(w)
             \/ WorkerLs(w)
      PROVE  InFlightExact'
  <2>1. Running' = Running /\ Pushing' = Pushing
    BY <1>7, <1>moves, <1>same DEF WorkerNarinfo, WorkerLookup, WorkerNotify,
       WorkerRefsDone, WorkerLs, Phases
  <2>2. UNCHANGED <<queue, inFlight, dpc, fpc, roots>>
    BY <1>7 DEF WorkerNarinfo, WorkerLookup, WorkerNotify, WorkerRefsDone, WorkerLs
  <2>3. QED
    BY <2>1, <2>2
<1>8. ASSUME NEW w \in Workers, WorkerCount(w) PROVE InFlightExact'
  <2>1. Running' = Running /\ Pushing' = Pushing \cup {w} /\ w \notin Pushing
    BY <1>8 DEF WorkerCount, Running, Pushing, Phases, TypeOK
  <2>2. Cardinality(Pushing') = Cardinality(Pushing) + 1
    BY <2>1, CountsAreNat, FS_AddElement
  <2>3. QED
    BY <1>8, <2>1, <2>2 DEF WorkerCount
<1>9. ASSUME NEW w \in Workers, WorkerPush(w) PROVE InFlightExact'
  <2>1. Running' = Running /\ Pushing' = Pushing \ {w} /\ w \in Pushing
    BY <1>9 DEF WorkerPush, Running, Pushing, Phases, TypeOK
  <2>2. Cardinality(Pushing') = Cardinality(Pushing) - 1
    BY <2>1, CountsAreNat, FS_RemoveElement
  <2>3. wref[w] \in Paths
    BY <1>9 DEF WorkerPush, TypeOK
  <2>4. [path |-> wref[w], program |-> NoProgram, toplevel |-> FALSE] \in Entry
    BY <2>3 DEF Entry
  <2>5. Len(queue') = nq + 1
    BY <1>9, <2>4, AppendProperties DEF WorkerPush, TypeOK
  <2>6. QED
    BY <1>9, <2>1, <2>2, <2>5 DEF WorkerPush
<1>10. ASSUME NEW w \in Workers, WorkerSub(w) PROVE InFlightExact'
  <2>1. Running' = Running \ {w} /\ w \in Running /\ Pushing' = Pushing
    BY <1>10 DEF WorkerSub, Running, Pushing, Phases, TypeOK
  <2>2. Cardinality(Running') = Cardinality(Running) - 1
    BY <2>1, CountsAreNat, FS_RemoveElement
  <2>3. QED
    BY <1>10, <2>1, <2>2 DEF WorkerSub
<1>11. ASSUME NEW w \in Workers, WorkerWake(w) \/ WorkerSend(w) PROVE InFlightExact'
  <2>1. Running' = Running /\ Pushing' = Pushing
    BY <1>11 DEF WorkerWake, WorkerSend, Running, Pushing, Phases, TypeOK
  <2>2. QED
    BY <1>11, <2>1 DEF WorkerWake, WorkerSend
<1>12. QED
  BY <1>1, <1>2, <1>3, <1>4, <1>5, <1>6, <1>7, <1>8, <1>9, <1>10, <1>11
     DEF Next, Feeder, Dispatcher, Worker, Terminated

\* Every variable keeps its type, and in_flight counts exactly the entries
\* that are queued, held, being processed, or about to be queued.
THEOREM TypeAndCount == Spec => []TypeOK /\ []InFlightExact
<1>1. Init => TypeOK /\ InFlightExact
  BY InitTypeOK, InitInFlight
<1>2. TypeOK /\ InFlightExact /\ [Next]_vars => TypeOK' /\ InFlightExact'
  BY TypeStep, InFlightStep
<1>3. QED
  BY <1>1, <1>2, PTL DEF Spec

\* Every variable keeps its type, for every input and number of tasks.
THEOREM TypeCorrect == Spec => []TypeOK
  BY TypeAndCount, PTL

-----------------------------------------------------------------------------
(***************************************************************************)
(* The closure of the roots is the least set that holds them and follows   *)
(* references.                                                             *)
(***************************************************************************)
LEMMA ClosureFacts ==
  ASSUME NEW wld \in Worlds
  PROVE  /\ RootPaths(wld) \subseteq Closure(wld)
         /\ \A p \in Closure(wld) : Follows(wld, p) \subseteq Closure(wld)
         /\ \A S \in SUBSET Paths :
              RootPaths(wld) \subseteq S /\ ClosedUnder(wld, S) => Closure(wld) \subseteq S
<1>1. RootPaths(wld) \subseteq Paths
  BY InputFacts DEF RootPaths
<1>2. \A p \in Paths : Follows(wld, p) \subseteq Paths
  BY InputFacts DEF Follows
<1>3. ASSUME NEW p \in Closure(wld), NEW q \in Follows(wld, p)
      PROVE  q \in Closure(wld)
  <2>1. p \in Paths /\ q \in Paths
    BY <1>2, <1>3 DEF Closure
  <2>2. ASSUME NEW S \in SUBSET Paths, RootPaths(wld) \subseteq S, ClosedUnder(wld, S)
        PROVE  q \in S
    <3>1. p \in S
      BY <1>3, <2>2 DEF Closure
    <3>2. QED
      BY <1>3, <2>2, <3>1 DEF ClosedUnder
  <2>3. QED
    BY <2>1, <2>2 DEF Closure
<1>4. QED
  BY <1>1, <1>3 DEF Closure

(***************************************************************************)
(* The paths named by a sequence of entries.                               *)
(***************************************************************************)
PathsIn(s) == {s[i].path : i \in 1..Len(s)}

LEMMA PathsInSequences ==
  /\ PathsIn(<< >>) = {}
  /\ \A s \in Seq(Entry), e \in Entry : PathsIn(Append(s, e)) = PathsIn(s) \cup {e.path}
  /\ \A s \in Seq(Entry) :
       s # << >> => PathsIn(s) = PathsIn(Tail(s)) \cup {Head(s).path}
  /\ \A s, t \in Seq(Entry) : PathsIn(s \o t) = PathsIn(s) \cup PathsIn(t)
<1>1. PathsIn(<< >>) = {}
  BY DEF PathsIn
<1>2. ASSUME NEW s \in Seq(Entry), NEW e \in Entry
      PROVE  PathsIn(Append(s, e)) = PathsIn(s) \cup {e.path}
  <2>1. /\ Len(s) \in Nat /\ Len(Append(s, e)) = Len(s) + 1
        /\ \A i \in 1..Len(s) : Append(s, e)[i] = s[i]
        /\ Append(s, e)[Len(s) + 1] = e
    BY AppendProperties, LenProperties
  <2>2. 1..(Len(s) + 1) = (1..Len(s)) \cup {Len(s) + 1}
    BY <2>1
  <2>3. QED
    BY <2>1, <2>2 DEF PathsIn
<1>3. ASSUME NEW s \in Seq(Entry), s # << >>
      PROVE  PathsIn(s) = PathsIn(Tail(s)) \cup {Head(s).path}
  <2> DEFINE n == Len(s)
  <2>1. n \in Nat /\ n >= 1 /\ Head(s) = s[1]
    BY <1>3
  <2>2. Len(Tail(s)) = n - 1 /\ \A i \in 1..(n - 1) : Tail(s)[i] = s[i + 1]
    BY <1>3, HeadTailProperties
  <2>3. ASSUME NEW p \in PathsIn(s) PROVE p \in PathsIn(Tail(s)) \cup {Head(s).path}
    <3>1. PICK i \in 1..n : p = s[i].path
      BY <2>3 DEF PathsIn
    <3>2. CASE i = 1
      BY <2>1, <3>1, <3>2
    <3>3. CASE i # 1
      <4>1. i - 1 \in 1..(n - 1) /\ Tail(s)[i - 1] = s[i]
        BY <2>1, <2>2, <3>1, <3>3
      <4>2. QED
        BY <2>2, <3>1, <4>1 DEF PathsIn
    <3>4. QED
      BY <3>2, <3>3
  <2>4. ASSUME NEW p \in PathsIn(Tail(s)) PROVE p \in PathsIn(s)
    <3>1. PICK i \in 1..(n - 1) : p = Tail(s)[i].path
      BY <2>2, <2>4 DEF PathsIn
    <3>2. i + 1 \in 1..n /\ p = s[i + 1].path
      BY <2>1, <2>2, <3>1
    <3>3. QED
      BY <3>2 DEF PathsIn
  <2>5. Head(s).path \in PathsIn(s)
    BY <2>1 DEF PathsIn
  <2>6. QED
    BY <2>3, <2>4, <2>5
<1>4. ASSUME NEW s \in Seq(Entry), NEW t \in Seq(Entry)
      PROVE  PathsIn(s \o t) = PathsIn(s) \cup PathsIn(t)
  <2> DEFINE m == Len(s)
             n == Len(t)
  <2>1. /\ m \in Nat /\ n \in Nat /\ Len(s \o t) = m + n
        /\ \A i \in 1..(m + n) : (s \o t)[i] = IF i <= m THEN s[i] ELSE t[i - m]
    BY ConcatProperties, LenProperties
  <2>2. ASSUME NEW p \in PathsIn(s \o t) PROVE p \in PathsIn(s) \cup PathsIn(t)
    <3>1. PICK i \in 1..(m + n) : p = (s \o t)[i].path
      BY <2>1, <2>2 DEF PathsIn
    <3>2. CASE i <= m
      BY <2>1, <3>1, <3>2 DEF PathsIn
    <3>3. CASE ~(i <= m)
      <4>1. i - m \in 1..n /\ p = t[i - m].path
        BY <2>1, <3>1, <3>3
      <4>2. QED
        BY <4>1 DEF PathsIn
    <3>4. QED
      BY <3>2, <3>3
  <2>3. ASSUME NEW p \in PathsIn(s) PROVE p \in PathsIn(s \o t)
    <3>1. PICK i \in 1..m : p = s[i].path
      BY <2>3 DEF PathsIn
    <3>2. i \in 1..(m + n) /\ p = (s \o t)[i].path
      BY <2>1, <3>1
    <3>3. QED
      BY <2>1, <3>2 DEF PathsIn
  <2>4. ASSUME NEW p \in PathsIn(t) PROVE p \in PathsIn(s \o t)
    <3>1. PICK i \in 1..n : p = t[i].path
      BY <2>4 DEF PathsIn
    <3>2. i + m \in 1..(m + n) /\ p = (s \o t)[i + m].path
      BY <2>1, <3>1
    <3>3. QED
      BY <2>1, <3>2 DEF PathsIn
  <2>5. QED
    BY <2>2, <2>3, <2>4
<1>5. QED
  BY <1>1, <1>2, <1>3, <1>4

-----------------------------------------------------------------------------
(***************************************************************************)
(* The order of the shutdown: the flag is only set once the roots are      *)
(* queued, and the dispatcher leaves only after it saw the flag and then a *)
(* zero count, which nothing can raise again.                              *)
(***************************************************************************)
ShutdownInv ==
  /\ fpc # "recv" => fed = Len(world.input)
  /\ fpc \notin {"recv", "extend"} => roots = << >>
  /\ inputDone => fpc \in {"wake", "gone"}
  /\ dpc \in {"count", "gone"} => inputDone
  /\ dpc = "gone" => inFlight = 0

LEMMA InitShutdown == Init => ShutdownInv
  BY DEF Init, ShutdownInv

LEMMA ShutdownStep ==
  ASSUME TypeOK, InFlightExact, ShutdownInv, [Next]_vars
  PROVE  ShutdownInv'
<1>0. inFlight \in Nat
  BY DEF TypeOK
<1> USE <1>0 DEF ShutdownInv, feederVars, dispatcherVars, workerVars, consumerVars
<1>1. CASE Feeder
  BY <1>1 DEF Feeder, FeederRecv, FeederCount, FeederExtend, FeederFlag, FeederWake
<1>2. CASE Dispatcher
  BY <1>2 DEF Dispatcher, DispatcherPop, DispatcherSpawn, DispatcherReadFlag,
     DispatcherReadCount, DispatcherWake
<1>3. ASSUME NEW w \in Workers, WorkerCount(w) \/ WorkerSub(w) PROVE ShutdownInv'
  <2>1. inFlight >= 1
    BY <1>3, RunningIsCounted DEF WorkerCount, WorkerSub, Phases
  <2>2. QED
    BY <1>3, <2>1 DEF WorkerCount, WorkerSub
<1>4. ASSUME NEW w \in Workers, Worker(w), ~WorkerCount(w), ~WorkerSub(w)
      PROVE  ShutdownInv'
  BY <1>4 DEF Worker, WorkerNarinfo, WorkerLookup, WorkerPush, WorkerNotify,
     WorkerRefsDone, WorkerLs, WorkerWake, WorkerSend
<1>5. CASE Receive \/ ReceiveEnd \/ DropReceiver \/ UNCHANGED vars
  BY <1>5 DEF Receive, ReceiveEnd, DropReceiver, vars
<1>6. QED
  BY <1>1, <1>2, <1>3, <1>4, <1>5 DEF Next, Terminated

-----------------------------------------------------------------------------
(***************************************************************************)
(* What has been seen lies within the closure, and every path seen is      *)
(* either still pending or has had all its references seen.                *)
(***************************************************************************)
Exploring(place) == place \in {"narinfo", "refs", "add", "push", "notify"}

HeldPaths == IF dpc = "spawn" THEN {dentry.path} ELSE {}
AddedPaths == {wref[w] : w \in {v \in Workers : wpc[v] \in {"add", "push"}}}
ExploredPaths == {wentry[w].path : w \in {v \in Workers : Exploring(wpc[v])}}

Pending == PathsIn(roots) \cup PathsIn(queue) \cup HeldPaths \cup AddedPaths
             \cup ExploredPaths

Done(p) == Follows(world, p) \subseteq seen

SeenInv ==
  /\ Pending \subseteq seen
  /\ \A i \in 1..fed : world.input[i].path \in seen
  /\ seen \subseteq Closure(world)
  /\ \A p \in seen : p \in Pending \/ Done(p)
  /\ \A w \in Workers :
       /\ Exploring(wpc[w]) => ~world.shallow
       /\ wpc[w] \in {"refs", "add", "push", "notify"} =>
            /\ wtodo[w] \subseteq Follows(world, wentry[w].path)
            /\ Follows(world, wentry[w].path) \subseteq seen \cup wtodo[w]

LEMMA InitSeen == Init => SeenInv
<1> SUFFICES ASSUME Init PROVE SeenInv
  OBVIOUS
<1>1. PathsIn(roots) = {} /\ PathsIn(queue) = {}
  BY PathsInSequences DEF Init
<1>2. HeldPaths = {} /\ AddedPaths = {} /\ ExploredPaths = {}
  BY DEF Init, HeldPaths, AddedPaths, ExploredPaths, Exploring
<1>3. QED
  BY <1>1, <1>2 DEF Init, SeenInv, Pending, Exploring

(***************************************************************************)
(* It suffices that a step keeps every pending path pending or completes   *)
(* it, and makes every newly seen path pending.                            *)
(***************************************************************************)
LEMMA SeenTransfer ==
  ASSUME SeenInv, UNCHANGED world, seen \subseteq seen',
         Pending' \subseteq seen',
         \A p \in Pending : p \in Pending' \/ Done(p)',
         \A p \in seen' : p \in seen \/ p \in Pending'
  PROVE  \A p \in seen' : p \in Pending' \/ Done(p)'
<1>1. \A p \in seen : Done(p) => Done(p)'
  BY DEF Done, Follows
<1>2. QED
  BY <1>1 DEF SeenInv

LEMMA SeenStep ==
  ASSUME TypeOK, ShutdownInv, SeenInv, [Next]_vars
  PROVE  SeenInv'
<1>0. UNCHANGED world /\ world \in Worlds
  BY DEF Next, Feeder, FeederRecv, FeederCount, FeederExtend, FeederFlag, FeederWake,
     Dispatcher, DispatcherPop, DispatcherSpawn, DispatcherReadFlag, DispatcherReadCount,
     DispatcherWake, Worker, WorkerNarinfo, WorkerLookup, WorkerCount, WorkerPush,
     WorkerNotify, WorkerRefsDone, WorkerLs, WorkerSub, WorkerWake, WorkerSend, Receive,
     ReceiveEnd, DropReceiver, Terminated, vars, TypeOK
<1>follows. \A p : Follows(world, p)' = Follows(world, p)
  BY <1>0 DEF Follows
<1> USE <1>0, <1>follows DEF feederVars, dispatcherVars, workerVars, consumerVars
<1>added. ASSUME UNCHANGED <<wpc, wref>> PROVE AddedPaths' = AddedPaths
  BY <1>added DEF AddedPaths
<1>explored. ASSUME UNCHANGED <<wpc, wentry>> PROVE ExploredPaths' = ExploredPaths
  BY <1>explored DEF ExploredPaths
<1>frame. ASSUME UNCHANGED <<seen, fed, wpc, wentry, wtodo, wref>>,
                 PathsIn(roots') \cup PathsIn(queue') \cup HeldPaths'
                   = PathsIn(roots) \cup PathsIn(queue) \cup HeldPaths
          PROVE  SeenInv'
  <2>1. Pending' = Pending
    BY <1>frame, <1>added, <1>explored DEF Pending
  <2>2. QED
    BY <1>frame, <2>1 DEF SeenInv, Done
<1>1. CASE FeederRecv
  <2> DEFINE e == world.input[fed + 1]
             new == [path |-> e.path, program |-> e.program, toplevel |-> TRUE]
  <2>1. fed \in Nat /\ fed + 1 \in 1..Len(world.input)
    BY <1>1, InputFacts DEF FeederRecv, TypeOK
  <2>2. new \in Entry /\ new.path = e.path /\ e.path \in RootPaths(world)
    BY <2>1, InputFacts DEF Entry, RootPaths
  <2>3. seen' = seen \cup {e.path}
    BY <1>1 DEF FeederRecv
  <2>4. PathsIn(roots') = IF e.path \in seen THEN PathsIn(roots)
                          ELSE PathsIn(roots) \cup {e.path}
    BY <1>1, <2>2, PathsInSequences, ZenonT(40) DEF FeederRecv, TypeOK
  <2>5. Pending' = Pending \cup (PathsIn(roots') \ PathsIn(roots))
    BY <1>1, <2>4, <1>added, <1>explored DEF FeederRecv, Pending, HeldPaths
  <2>6. \A p \in seen' : p \in Pending' \/ Done(p)'
    BY <2>3, <2>4, <2>5, SeenTransfer DEF SeenInv, Pending
  <2>7. \A i \in 1..fed' : world.input[i].path \in seen'
    BY <1>1, <2>1, <2>3 DEF FeederRecv, SeenInv
  <2>8. e.path \in Closure(world)
    BY <2>2, ClosureFacts
  <2>9. QED
    BY <1>1, <2>3, <2>4, <2>5, <2>6, <2>7, <2>8 DEF FeederRecv, SeenInv
<1>2. CASE FeederExtend
  BY <1>2, <1>frame, PathsInSequences DEF FeederExtend, TypeOK, HeldPaths
<1>3. CASE FeederCount \/ FeederFlag \/ FeederWake \/ DispatcherReadFlag
           \/ DispatcherReadCount \/ DispatcherWake \/ Receive \/ ReceiveEnd
           \/ DropReceiver \/ UNCHANGED vars
  BY <1>3, <1>frame DEF FeederCount, FeederFlag, FeederWake, DispatcherReadFlag,
     DispatcherReadCount, DispatcherWake, Receive, ReceiveEnd, DropReceiver, vars,
     HeldPaths
<1>4. CASE DispatcherPop
  <2>1. CASE queue = << >>
    BY <1>4, <2>1, <1>frame DEF DispatcherPop, HeldPaths
  <2>2. CASE queue # << >>
    <3>1. PathsIn(queue) = PathsIn(queue') \cup {dentry'.path}
      BY <1>4, <2>2, PathsInSequences DEF DispatcherPop, TypeOK
    <3>2. HeldPaths = {} /\ HeldPaths' = {dentry'.path}
      BY <1>4, <2>2 DEF DispatcherPop, HeldPaths
    <3>3. QED
      BY <1>4, <3>1, <3>2, <1>frame DEF DispatcherPop
  <2>3. QED
    BY <2>1, <2>2
<1>5. ASSUME NEW w \in Workers, DispatcherSpawn(w) PROVE SeenInv'
  <2>p. PICK p : p = dentry.path
    OBVIOUS
  <2>1. p \in seen /\ HeldPaths = {p} /\ HeldPaths' = {}
    BY <1>5, <2>p DEF DispatcherSpawn, HeldPaths, SeenInv, Pending
  <2>2. AddedPaths' = AddedPaths
    BY <1>5 DEF DispatcherSpawn, AddedPaths, TypeOK
  <2>3. ExploredPaths' = ExploredPaths \cup (IF world.shallow THEN {} ELSE {p})
    BY <1>5, <2>p DEF DispatcherSpawn, ExploredPaths, Exploring, TypeOK
  <2>4. world.shallow => Done(p)'
    BY DEF Done, Follows
  <2>5. UNCHANGED <<seen, fed, roots, queue, wtodo>>
    BY <1>5 DEF DispatcherSpawn
  <2>6. Pending' \subseteq seen' /\ \A q \in Pending : q \in Pending' \/ Done(q)'
    <3>1. PathsIn(roots') = PathsIn(roots) /\ PathsIn(queue') = PathsIn(queue)
      BY <2>5
    <3>2. Pending' \subseteq Pending /\ Pending \subseteq Pending' \cup {p}
      BY <2>1, <2>2, <2>3, <3>1 DEF Pending
    <3>3. ~world.shallow => p \in Pending'
      BY <2>3 DEF Pending
    <3>4. QED
      BY <2>4, <2>5, <3>2, <3>3 DEF SeenInv
  <2>7. \A q \in seen' : q \in Pending' \/ Done(q)'
    BY <2>5, <2>6, SeenTransfer
  <2>8. \A v \in Workers :
          /\ Exploring(wpc'[v]) => ~world.shallow
          /\ wpc'[v] \in {"refs", "add", "push", "notify"} => v # w
          /\ v # w => wpc'[v] = wpc[v] /\ wentry'[v] = wentry[v]
    BY <1>5 DEF DispatcherSpawn, SeenInv, Exploring, TypeOK
  <2>9. QED
    BY <2>5, <2>6, <2>7, <2>8 DEF SeenInv
<1>worker. ASSUME NEW w \in Workers, wpc[w] # "idle",
                  UNCHANGED <<fed, wentry>>, seen \subseteq seen', seen' \subseteq Closure(world),
                  Pending' \subseteq seen',
                  \A q \in Pending : q \in Pending' \/ Done(q)',
                  \A q \in seen' : q \in seen \/ q \in Pending',
                  \A v \in Workers \ {w} : wpc'[v] = wpc[v] /\ wtodo'[v] = wtodo[v],
                  Exploring(wpc'[w]) => ~world.shallow,
                  wpc'[w] \in {"refs", "add", "push", "notify"} =>
                    /\ wtodo'[w] \subseteq Follows(world, wentry[w].path)
                    /\ Follows(world, wentry[w].path) \subseteq seen' \cup wtodo'[w]
           PROVE  SeenInv'
  <2>1. \A q \in seen' : q \in Pending' \/ Done(q)'
    BY <1>worker, SeenTransfer
  <2>2. \A i \in 1..fed : world.input[i].path \in seen'
    BY <1>worker DEF SeenInv
  <2>3. \A v \in Workers :
          /\ Exploring(wpc'[v]) => ~world.shallow
          /\ wpc'[v] \in {"refs", "add", "push", "notify"} =>
               /\ wtodo'[v] \subseteq Follows(world, wentry[v].path)
               /\ Follows(world, wentry[v].path) \subseteq seen' \cup wtodo'[v]
    BY <1>worker DEF SeenInv
  <2>4. QED
    BY <1>worker, <2>1, <2>2, <2>3 DEF SeenInv
<1>held. UNCHANGED <<dpc, dentry, roots, queue>> =>
           /\ HeldPaths' = HeldPaths
           /\ PathsIn(roots') = PathsIn(roots)
           /\ PathsIn(queue') = PathsIn(queue)
  BY DEF HeldPaths
<1>6. ASSUME NEW w \in Workers, WorkerNarinfo(w) PROVE SeenInv'
  <2> DEFINE p == wentry[w].path
  <2>1. ~world.shallow /\ p \in seen /\ p \in Paths /\ wpc[w] = "narinfo"
    BY <1>6 DEF WorkerNarinfo, SeenInv, Pending, ExploredPaths, Exploring, TypeOK, Entry
  <2>2. AddedPaths' = AddedPaths /\ UNCHANGED <<fed, wentry, seen, dpc, dentry, roots, queue>>
    BY <1>6 DEF WorkerNarinfo, AddedPaths, TypeOK
  <2>3. CASE world.narinfo[p] = "ok"
    <3>1. wpc' = [wpc EXCEPT ![w] = "refs"] /\ wtodo' = [wtodo EXCEPT ![w] = Follows(world, p)]
      BY <1>6, <2>1, <2>3 DEF WorkerNarinfo, Follows
    <3>2. ExploredPaths' = ExploredPaths
      BY <2>1, <2>2, <3>1 DEF ExploredPaths, Exploring, TypeOK
    <3>3. Pending' = Pending
      BY <2>2, <3>2, <1>held DEF Pending
    <3>4. QED
      BY <2>1, <2>2, <3>1, <3>3, <1>worker DEF SeenInv, TypeOK
  <2>4. CASE world.narinfo[p] # "ok"
    <3>1. wpc' = [wpc EXCEPT ![w] = "sub"] /\ wtodo' = wtodo
      BY <1>6, <2>4 DEF WorkerNarinfo
    <3>2. ExploredPaths \subseteq ExploredPaths' \cup {p} /\ ExploredPaths' \subseteq ExploredPaths
      BY <2>1, <2>2, <3>1 DEF ExploredPaths, Exploring, TypeOK
    <3>3. Done(p)'
      <4>1. Follows(world, p) = {}
        BY <2>4 DEF Follows
      <4>2. QED
        BY <2>2, <4>1 DEF Done
    <3>4. Pending' \subseteq Pending /\ \A q \in Pending : q \in Pending' \/ Done(q)'
      BY <2>2, <3>2, <3>3, <1>held DEF Pending
    <3>5. QED
      BY <2>1, <2>2, <3>1, <3>4, <1>worker DEF SeenInv, TypeOK, Exploring
  <2>5. QED
    BY <2>3, <2>4
<1>7. ASSUME NEW w \in Workers, NEW r \in Paths, WorkerLookup(w, r) PROVE SeenInv'
  <2> DEFINE p == wentry[w].path
  <2>1. /\ ~world.shallow /\ p \in seen /\ wpc[w] = "refs" /\ r \in wtodo[w]
        /\ wtodo[w] \subseteq Follows(world, p)
        /\ Follows(world, p) \subseteq seen \cup wtodo[w]
    BY <1>7 DEF WorkerLookup, SeenInv, Pending, ExploredPaths, Exploring
  <2>2. r \in Closure(world)
    BY <2>1, ClosureFacts DEF SeenInv
  <2>3. /\ seen' = seen \cup {r} /\ UNCHANGED <<fed, wentry, dpc, dentry, roots, queue>>
        /\ wtodo' = [wtodo EXCEPT ![w] = wtodo[w] \ {r}]
    BY <1>7 DEF WorkerLookup
  <2>4. ExploredPaths' = ExploredPaths
    BY <1>7 DEF WorkerLookup, ExploredPaths, Exploring, TypeOK
  <2>5. AddedPaths' = IF r \in seen THEN AddedPaths ELSE AddedPaths \cup {r}
    <3>1. CASE r \in seen
      BY <1>7, <3>1, <1>added DEF WorkerLookup
    <3>2. CASE r \notin seen
      <4>1. wpc' = [wpc EXCEPT ![w] = "add"] /\ wref' = [wref EXCEPT ![w] = r]
        BY <1>7, <3>2 DEF WorkerLookup
      <4>2. QED
        BY <2>1, <3>2, <4>1 DEF AddedPaths, TypeOK
    <3>3. QED
      BY <3>1, <3>2
  <2>6. Pending' = IF r \in seen THEN Pending ELSE Pending \cup {r}
    BY <2>3, <2>4, <2>5, <1>held DEF Pending
  <2>7. \A v \in Workers \ {w} : wpc'[v] = wpc[v] /\ wtodo'[v] = wtodo[v]
    BY <1>7 DEF WorkerLookup, TypeOK
  <2>8. QED
    BY <2>1, <2>2, <2>3, <2>6, <2>7, <1>worker DEF SeenInv, TypeOK
<1>8. ASSUME NEW w \in Workers, WorkerCount(w) \/ WorkerNotify(w) PROVE SeenInv'
  <2>1. /\ UNCHANGED <<fed, wentry, seen, dpc, dentry, roots, queue, wtodo, wref>>
        /\ wpc[w] \in {"add", "notify"} /\ wpc'[w] \in {"push", "refs"}
        /\ \A v \in Workers \ {w} : wpc'[v] = wpc[v]
        /\ wpc[w] = "add" <=> wpc'[w] = "push"
    BY <1>8 DEF WorkerCount, WorkerNotify, TypeOK
  <2>2. AddedPaths' = AddedPaths /\ ExploredPaths' = ExploredPaths
    BY <2>1 DEF AddedPaths, ExploredPaths, Exploring
  <2>3. Pending' = Pending
    BY <2>1, <2>2, <1>held DEF Pending
  <2>4. QED
    BY <2>1, <2>3, <1>worker DEF SeenInv, Exploring
<1>9. ASSUME NEW w \in Workers, WorkerPush(w) PROVE SeenInv'
  <2> DEFINE new == [path |-> wref[w], program |-> NoProgram, toplevel |-> FALSE]
  <2>1. wpc[w] = "push" /\ wref[w] \in Paths
    BY <1>9 DEF WorkerPush, TypeOK
  <2>2. new \in Entry /\ new.path = wref[w]
    BY <2>1 DEF Entry
  <2>3. PathsIn(queue') = PathsIn(queue) \cup {wref[w]}
    BY <1>9, <2>2, PathsInSequences DEF WorkerPush, TypeOK
  <2>4. /\ wpc' = [wpc EXCEPT ![w] = "notify"]
        /\ UNCHANGED <<fed, wentry, seen, dpc, dentry, roots, wtodo>>
        /\ \A v \in Workers \ {w} : wref'[v] = wref[v]
    BY <1>9 DEF WorkerPush, TypeOK
  <2>5. AddedPaths = AddedPaths' \cup {wref[w]} /\ ExploredPaths' = ExploredPaths
    BY <2>1, <2>4 DEF AddedPaths, ExploredPaths, Exploring, TypeOK
  <2>6. Pending' = Pending
    BY <2>3, <2>4, <2>5 DEF Pending, HeldPaths
  <2>7. QED
    BY <2>1, <2>4, <2>6, <1>worker DEF SeenInv, Exploring, TypeOK
<1>10. ASSUME NEW w \in Workers, WorkerRefsDone(w) PROVE SeenInv'
  <2> DEFINE p == wentry[w].path
  <2>1. /\ wpc[w] = "refs" /\ wpc' = [wpc EXCEPT ![w] = "ls"] /\ wtodo[w] = {}
        /\ UNCHANGED <<fed, wentry, seen, dpc, dentry, roots, queue, wtodo, wref>>
    BY <1>10 DEF WorkerRefsDone
  <2>2. Done(p)'
    BY <2>1 DEF Done, SeenInv
  <2>3. AddedPaths' = AddedPaths
    BY <2>1 DEF AddedPaths, TypeOK
  <2>4. ExploredPaths \subseteq ExploredPaths' \cup {p} /\ ExploredPaths' \subseteq ExploredPaths
    BY <2>1 DEF ExploredPaths, Exploring, TypeOK
  <2>5. Pending' \subseteq Pending /\ \A q \in Pending : q \in Pending' \/ Done(q)'
    BY <2>1, <2>2, <2>3, <2>4, <1>held DEF Pending
  <2>6. QED
    BY <2>1, <2>5, <1>worker DEF SeenInv, TypeOK, Exploring
<1>11. ASSUME NEW w \in Workers,
              WorkerLs(w) \/ WorkerSub(w) \/ WorkerWake(w) \/ WorkerSend(w)
       PROVE  SeenInv'
  <2>1. /\ UNCHANGED <<fed, seen, dpc, dentry, roots, queue, wtodo, wref>>
        /\ wpc[w] \in {"ls", "sub", "wake", "send"}
        /\ wpc'[w] \in {"sub", "wake", "send", "idle"}
        /\ \A v \in Workers \ {w} : wpc'[v] = wpc[v] /\ wentry'[v] = wentry[v]
    BY <1>11 DEF WorkerLs, WorkerSub, WorkerWake, WorkerSend, TypeOK
  <2>2. AddedPaths' = AddedPaths /\ ExploredPaths' = ExploredPaths
    BY <2>1 DEF AddedPaths, ExploredPaths, Exploring
  <2>3. Pending' = Pending
    BY <2>1, <2>2, <1>held DEF Pending
  <2>4. \A v \in Workers : v = w => ~Exploring(wpc'[v])
    BY <2>1 DEF Exploring
  <2>5. QED
    BY <2>1, <2>3, <2>4 DEF SeenInv, Done, Exploring
<1>12. QED
  BY <1>1, <1>2, <1>3, <1>4, <1>5, <1>6, <1>7, <1>8, <1>9, <1>10, <1>11
     DEF Next, Feeder, Dispatcher, Worker, Terminated

-----------------------------------------------------------------------------
(***************************************************************************)
(* No early close, for every input and every number of jobs: with nothing  *)
(* in flight nothing is pending, so the paths seen are closed.             *)
(***************************************************************************)
LEMMA RootsSeen ==
  ASSUME TypeOK, SeenInv, fed = Len(world.input)
  PROVE  RootPaths(world) \subseteq seen
<1>1. DOMAIN world.input = 1..Len(world.input)
  BY InputFacts, LenProperties DEF TypeOK
<1>2. QED
  BY <1>1 DEF RootPaths, SeenInv

LEMMA ShutdownIsComplete ==
  ASSUME TypeOK, InFlightExact, ShutdownInv, SeenInv
  PROVE  NoEarlyClose
<1> SUFFICES ASSUME dpc = "gone" PROVE /\ fed = Len(world.input)
                                       /\ queue = << >>
                                       /\ Running = {}
                                       /\ seen = ClosureOf[world]
  BY DEF NoEarlyClose
<1>1. inFlight = 0 /\ fed = Len(world.input) /\ roots = << >> /\ fpc # "extend"
  BY DEF ShutdownInv
<1>2. Len(queue) \in Nat
  BY DEF TypeOK
<1>3. Len(queue) = 0 /\ Cardinality(Running) = 0
  BY <1>1, <1>2, CountsAreNat DEF InFlightExact
<1>4. queue = << >> /\ Running = {}
  BY <1>3, CountsAreNat, FS_EmptySet DEF TypeOK
<1>5. Pending = {}
  <2>1. PathsIn(roots) = {} /\ PathsIn(queue) = {}
    BY <1>1, <1>4, PathsInSequences
  <2>2. \A w \in Workers : wpc[w] \notin Phases
    BY <1>4 DEF Running
  <2>3. HeldPaths = {} /\ AddedPaths = {} /\ ExploredPaths = {}
    BY <2>2 DEF HeldPaths, AddedPaths, ExploredPaths, Exploring, Phases
  <2>4. QED
    BY <2>1, <2>3 DEF Pending
<1>6. ClosedUnder(world, seen)
  BY <1>5 DEF SeenInv, ClosedUnder, Done
<1>7. RootPaths(world) \subseteq seen
  BY <1>1, RootsSeen
<1>8. seen = Closure(world)
  BY <1>6, <1>7, ClosureFacts DEF SeenInv, TypeOK
<1>9. QED
  BY <1>1, <1>4, <1>8 DEF ClosureOf, TypeOK

FetchInv == TypeOK /\ InFlightExact /\ ShutdownInv /\ SeenInv

LEMMA FetchInvariance == Spec => []FetchInv
<1>1. Init => FetchInv
  BY InitTypeOK, InitInFlight, InitShutdown, InitSeen DEF FetchInv
<1>2. FetchInv /\ [Next]_vars => FetchInv'
  BY TypeStep, InFlightStep, ShutdownStep, SeenStep DEF FetchInv
<1>3. QED
  BY <1>1, <1>2, PTL DEF Spec

\* The dispatcher never closes the stream early: when it leaves its loop the
\* paths seen are exactly the closure of the roots and no task has work left.
THEOREM NeverClosesEarly == Spec => []NoEarlyClose
<1>1. FetchInv => NoEarlyClose
  BY ShutdownIsComplete DEF FetchInv
<1>2. QED
  BY <1>1, FetchInvariance, PTL

-----------------------------------------------------------------------------
(***************************************************************************)
(* Wake-ups.  From the moment the dispatcher has found the queue empty,    *)
(* whoever puts something in is about to wake it; once it waits, so is     *)
(* whoever brings the run to its end.                                      *)
(***************************************************************************)
WakeInv ==
  /\ dpc \in {"flag", "count", "wait"} /\ ~permit /\ queue # << >> =>
       fpc \in {"flag", "wake"} \/ (\E w \in Workers : wpc[w] = "notify")
  /\ dpc = "wait" /\ ~permit /\ inputDone /\ inFlight = 0 =>
       fpc = "wake" \/ (\E w \in Workers : wpc[w] = "wake")

LEMMA InitWake == Init => WakeInv
  BY DEF Init, WakeInv

LEMMA WakeStep ==
  ASSUME TypeOK, InFlightExact, ShutdownInv, WakeInv, [Next]_vars
  PROVE  WakeInv'
<1>0. inFlight \in Nat /\ wpc \in [Workers -> {"idle"} \cup Phases \cup Tails]
  BY DEF TypeOK
<1> USE <1>0 DEF WakeInv, feederVars, dispatcherVars, workerVars, consumerVars
<1>1. CASE FeederRecv \/ FeederCount \/ FeederExtend
  BY <1>1 DEF FeederRecv, FeederCount, FeederExtend, ShutdownInv
<1>2. CASE FeederFlag \/ FeederWake
  BY <1>2 DEF FeederFlag, FeederWake
<1>3. CASE DispatcherPop \/ DispatcherReadFlag \/ DispatcherReadCount \/ DispatcherWake
  BY <1>3 DEF DispatcherPop, DispatcherReadFlag, DispatcherReadCount, DispatcherWake
<1>4. CASE \E w \in Workers : DispatcherSpawn(w)
  BY <1>4 DEF DispatcherSpawn
<1>5. ASSUME NEW w \in Workers, WorkerPush(w) PROVE WakeInv'
  <2>1. wpc'[w] = "notify" /\ \A v \in Workers \ {w} : wpc'[v] = wpc[v]
    BY <1>5 DEF WorkerPush
  <2>2. UNCHANGED <<fpc, dpc, permit, inputDone, inFlight>> /\ wpc[w] = "push"
    BY <1>5 DEF WorkerPush
  <2>3. QED
    BY <2>1, <2>2
<1>6. ASSUME NEW w \in Workers, WorkerCount(w) \/ WorkerSub(w) PROVE WakeInv'
  <2>1. inFlight >= 1
    BY <1>6, RunningIsCounted DEF WorkerCount, WorkerSub, Phases
  <2>2. \A v \in Workers \ {w} : wpc'[v] = wpc[v]
    BY <1>6 DEF WorkerCount, WorkerSub
  <2>3. UNCHANGED <<fpc, dpc, permit, inputDone, queue>> /\ wpc[w] # "notify"
    BY <1>6 DEF WorkerCount, WorkerSub
  <2>4. inFlight' = 0 => wpc'[w] = "wake"
    BY <1>6, <2>1 DEF WorkerCount, WorkerSub
  <2>5. QED
    BY <2>1, <2>2, <2>3, <2>4
<1>7. ASSUME NEW w \in Workers, WorkerNotify(w) \/ WorkerWake(w) PROVE WakeInv'
  BY <1>7 DEF WorkerNotify, WorkerWake
<1>8. ASSUME NEW w \in Workers,
             \/ WorkerNarinfo(w)
             \/ \E r \in Paths : WorkerLookup(w, r)
             \/ WorkerRefsDone(w) \/ WorkerLs(w) \/ WorkerSend(w)
      PROVE  WakeInv'
  <2>1. UNCHANGED <<fpc, dpc, permit, inputDone, inFlight, queue>>
    BY <1>8 DEF WorkerNarinfo, WorkerLookup, WorkerRefsDone, WorkerLs, WorkerSend
  <2>2. \A v \in Workers \ {w} : wpc'[v] = wpc[v]
    BY <1>8 DEF WorkerNarinfo, WorkerLookup, WorkerRefsDone, WorkerLs, WorkerSend
  <2>3. wpc[w] \notin {"notify", "wake"}
    BY <1>8 DEF WorkerNarinfo, WorkerLookup, WorkerRefsDone, WorkerLs, WorkerSend
  <2>4. QED
    BY <2>1, <2>2, <2>3
<1>9. CASE Receive \/ ReceiveEnd \/ DropReceiver \/ UNCHANGED vars
  BY <1>9 DEF Receive, ReceiveEnd, DropReceiver, vars
<1>10. QED
  BY <1>1, <1>2, <1>3, <1>4, <1>5, <1>6, <1>7, <1>8, <1>9
     DEF Next, Feeder, Dispatcher, Worker, Terminated

\* The dispatcher never sleeps over work or over the end of the run: a wake-up
\* sent between its look at the flag and its wait is stored or still to come.
THEOREM WakeUpsArrive == Spec => []NoLostWakeup
<1> DEFINE Inv == TypeOK /\ InFlightExact /\ ShutdownInv /\ WakeInv
<1>1. Init => Inv
  BY InitTypeOK, InitInFlight, InitShutdown, InitWake
<1>2. Inv /\ [Next]_vars => Inv'
  BY TypeStep, InFlightStep, ShutdownStep, WakeStep
<1>3. Inv => NoLostWakeup
  BY DEF WakeInv, NoLostWakeup
<1>4. QED
  BY <1>1, <1>2, <1>3, PTL DEF Spec

-----------------------------------------------------------------------------
(***************************************************************************)
(* The main program of a path.                                             *)
(***************************************************************************)
FirstNaming(wld, n, p, i) ==
  i \in NamesProgram(wld, n, p) /\ \A j \in NamesProgram(wld, n, p) : i <= j

LEMMA FirstNamingIsMain ==
  ASSUME NEW wld, NEW n \in Nat, NEW p, NEW i, FirstNaming(wld, n, p, i)
  PROVE  MainProgram(wld, n, p) = wld.input[i].program
<1> DEFINE k == CHOOSE x \in NamesProgram(wld, n, p) :
                  \A j \in NamesProgram(wld, n, p) : x <= j
<1>1. k \in NamesProgram(wld, n, p) /\ \A j \in NamesProgram(wld, n, p) : k <= j
  BY DEF FirstNaming
<1>2. k <= i /\ i <= k /\ k \in 1..n /\ i \in 1..n
  BY <1>1 DEF FirstNaming, NamesProgram
<1>3. k = i
  BY <1>2
<1>4. QED
  BY <1>3 DEF MainProgram, FirstNaming

\* One more entry of the input adds at most its own position.
LEMMA NamesProgramStep ==
  ASSUME NEW wld, NEW n \in Nat, NEW p
  PROVE  NamesProgram(wld, n + 1, p) =
           IF wld.input[n + 1].path = p /\ wld.input[n + 1].program # NoProgram
           THEN NamesProgram(wld, n, p) \cup {n + 1}
           ELSE NamesProgram(wld, n, p)
<1>1. 1..(n + 1) = (1..n) \cup {n + 1}
  OBVIOUS
<1>2. QED
  BY <1>1 DEF NamesProgram

\* Entries after the first that names a program change nothing.
LEMMA FirstNamingStays ==
  ASSUME NEW wld, NEW n \in Nat, NEW m \in Nat, n <= m, NEW p, NEW i,
         FirstNaming(wld, n, p, i)
  PROVE  FirstNaming(wld, m, p, i)
BY DEF FirstNaming, NamesProgram

-----------------------------------------------------------------------------
(***************************************************************************)
(* Entries and listings carry what the roots say about their path.         *)
(***************************************************************************)
NoneOrFirst(wld, p, prog) ==
  prog = NoProgram \/ \E i \in Nat : /\ FirstNaming(wld, Len(wld.input), p, i)
                                     /\ prog = wld.input[i].program

Labelled(wld) ==
  {e \in Entry : /\ e.toplevel <=> (e.path \in RootPaths(wld))
                 /\ NoneOrFirst(wld, e.path, e.program)}

ProgramInv ==
  \A p \in Paths :
    \/ program[p] = NoProgram /\ NamesProgram(world, fed, p) = {}
    \/ \E i \in Nat : FirstNaming(world, fed, p, i) /\ program[p] = world.input[i].program

LabelInv ==
  /\ roots \in Seq(Labelled(world))
  /\ queue \in Seq(Labelled(world))
  /\ dpc = "spawn" => dentry \in Labelled(world)
  /\ \A w \in Workers :
       /\ wpc[w] # "idle" => wentry[w] \in Labelled(world)
       /\ wpc[w] \in {"add", "push"} => wref[w] \notin RootPaths(world)
  /\ fpc \in {"recv", "extend"} =>
       queue = << >> /\ dpc # "spawn" /\ \A w \in Workers : wpc[w] = "idle"

ListingInv ==
  /\ \A w \in Workers : wpc[w] # "idle" => wentry[w].path \in seen
  /\ \A w \in Workers :
       wpc[w] \in {"refs", "add", "push", "notify", "ls"} =>
         world.shallow \/ world.narinfo[wentry[w].path] = "ok"
  /\ \A w \in Workers : witem[w] = NoItem \/ witem[w] \in Wanted[world]
  /\ out \in Seq(Wanted[world])
  /\ received \in Seq(Wanted[world])

LEMMA InitLabels == Init => ProgramInv /\ LabelInv /\ ListingInv
<1> SUFFICES ASSUME Init PROVE ProgramInv /\ LabelInv /\ ListingInv
  OBVIOUS
<1>1. \A p : NamesProgram(world, fed, p) = {}
  BY DEF Init, NamesProgram
<1>2. ProgramInv
  BY <1>1 DEF Init, ProgramInv
<1>3. LabelInv
  BY EmptySeq DEF Init, LabelInv
<1>4. ListingInv
  BY EmptySeq DEF Init, ListingInv
<1>5. QED
  BY <1>2, <1>3, <1>4

LEMMA ProgramStep ==
  ASSUME TypeOK, ProgramInv, [Next]_vars
  PROVE  ProgramInv'
<1> USE DEF feederVars, dispatcherVars, workerVars, consumerVars
<1>1. CASE FeederRecv
  <2> DEFINE e == world.input[fed + 1]
  <2>1. /\ fed \in Nat /\ UNCHANGED world /\ fed' = fed + 1
        /\ e.path \in Paths /\ program \in [Paths -> Programs \cup {NoProgram}]
        /\ program' = [program EXCEPT ![e.path] = IF @ = NoProgram THEN e.program ELSE @]
    BY <1>1, InputFacts DEF FeederRecv, TypeOK
  <2>2. SUFFICES ASSUME NEW p \in Paths
                 PROVE  \/ program'[p] = NoProgram /\ NamesProgram(world, fed + 1, p) = {}
                        \/ \E i \in Nat : /\ FirstNaming(world, fed + 1, p, i)
                                          /\ program'[p] = world.input[i].program
    BY <2>1 DEF ProgramInv, FirstNaming, NamesProgram
  <2>3. CASE program[p] = NoProgram /\ NamesProgram(world, fed, p) = {}
    <3>1. CASE e.path = p /\ e.program # NoProgram
      <4>1. NamesProgram(world, fed + 1, p) = {fed + 1}
        BY <2>1, <2>3, <3>1, NamesProgramStep
      <4>2. FirstNaming(world, fed + 1, p, fed + 1) /\ program'[p] = e.program
        BY <2>1, <2>3, <3>1, <4>1 DEF FirstNaming
      <4>3. QED
        BY <2>1, <4>2
    <3>2. CASE ~(e.path = p /\ e.program # NoProgram)
      <4>1. NamesProgram(world, fed + 1, p) = {}
        BY <2>1, <2>3, <3>2, NamesProgramStep
      <4>2. program'[p] = NoProgram
        BY <2>1, <2>3, <3>2
      <4>3. QED
        BY <4>1, <4>2
    <3>3. QED
      BY <3>1, <3>2
  <2>4. CASE \E i \in Nat : /\ FirstNaming(world, fed, p, i)
                           /\ program[p] = world.input[i].program
    <3>1. PICK i \in Nat : FirstNaming(world, fed, p, i) /\ program[p] = world.input[i].program
      BY <2>4
    <3>2. FirstNaming(world, fed + 1, p, i)
      BY <2>1, <3>1, FirstNamingStays
    <3>3. program[p] # NoProgram
      BY <3>1 DEF FirstNaming, NamesProgram
    <3>4. program'[p] = program[p]
      BY <2>1, <3>3
    <3>5. QED
      BY <3>1, <3>2, <3>4
  <2>5. QED
    BY <2>3, <2>4 DEF ProgramInv
<1>2. CASE UNCHANGED <<world, fed, program>>
  BY <1>2 DEF ProgramInv, FirstNaming, NamesProgram
<1>3. QED
  BY <1>1, <1>2 DEF Next, Feeder, FeederCount, FeederExtend, FeederFlag, FeederWake,
     Dispatcher, DispatcherPop, DispatcherSpawn, DispatcherReadFlag, DispatcherReadCount,
     DispatcherWake, Worker, WorkerNarinfo, WorkerLookup, WorkerCount, WorkerPush,
     WorkerNotify, WorkerRefsDone, WorkerLs, WorkerSub, WorkerWake, WorkerSend, Receive,
     ReceiveEnd, DropReceiver, Terminated, vars

LEMMA LabelStep ==
  ASSUME TypeOK, ShutdownInv, SeenInv, LabelInv, [Next]_vars
  PROVE  LabelInv'
<1> DEFINE L == Labelled(world)
<1>0. UNCHANGED world /\ world \in Worlds
  BY DEF Next, Feeder, FeederRecv, FeederCount, FeederExtend, FeederFlag, FeederWake,
     Dispatcher, DispatcherPop, DispatcherSpawn, DispatcherReadFlag, DispatcherReadCount,
     DispatcherWake, Worker, WorkerNarinfo, WorkerLookup, WorkerCount, WorkerPush,
     WorkerNotify, WorkerRefsDone, WorkerLs, WorkerSub, WorkerWake, WorkerSend, Receive,
     ReceiveEnd, DropReceiver, Terminated, vars, TypeOK
<1>00. Labelled(world)' = L /\ RootPaths(world)' = RootPaths(world)
  BY <1>0 DEF Labelled, NoneOrFirst, FirstNaming, NamesProgram, RootPaths
<1> HIDE DEF L
<1>old. /\ roots \in Seq(L) /\ queue \in Seq(L)
        /\ dpc = "spawn" => dentry \in L
        /\ \A w \in Workers :
             /\ wpc[w] # "idle" => wentry[w] \in L
             /\ wpc[w] \in {"add", "push"} => wref[w] \notin RootPaths(world)
        /\ fpc \in {"recv", "extend"} =>
             queue = << >> /\ dpc # "spawn" /\ \A w \in Workers : wpc[w] = "idle"
  BY DEF LabelInv, L
<1>new. ASSUME /\ roots' \in Seq(L) /\ queue' \in Seq(L)
               /\ dpc' = "spawn" => dentry' \in L
               /\ \A w \in Workers :
                    /\ wpc'[w] # "idle" => wentry'[w] \in L
                    /\ wpc'[w] \in {"add", "push"} => wref'[w] \notin RootPaths(world)
               /\ fpc' \in {"recv", "extend"} =>
                    queue' = << >> /\ dpc' # "spawn" /\ \A w \in Workers : wpc'[w] = "idle"
        PROVE  LabelInv'
  BY <1>new, <1>00 DEF LabelInv
<1> USE <1>old DEF feederVars, dispatcherVars, workerVars, consumerVars
<1>1. CASE FeederRecv
  <2> DEFINE e == world.input[fed + 1]
             entry == [path |-> e.path, program |-> e.program, toplevel |-> TRUE]
  <2>1. /\ fed \in Nat /\ fed + 1 \in 1..Len(world.input) /\ Len(world.input) \in Nat
        /\ e.path \in Paths /\ e.program \in Programs \cup {NoProgram}
        /\ e.path \in RootPaths(world)
    BY <1>0, <1>1, InputFacts DEF FeederRecv, TypeOK, RootPaths
  <2>2. ASSUME e.path \notin seen PROVE entry \in L
    <3>1. NamesProgram(world, fed, e.path) = {}
      BY <2>2 DEF SeenInv, NamesProgram
    <3>2. ASSUME e.program # NoProgram
          PROVE  FirstNaming(world, Len(world.input), e.path, fed + 1)
      <4>1. NamesProgram(world, fed + 1, e.path) = {fed + 1}
        BY <2>1, <3>1, <3>2, NamesProgramStep
      <4>2. FirstNaming(world, fed + 1, e.path, fed + 1)
        BY <2>1, <4>1 DEF FirstNaming
      <4>3. QED
        BY <2>1, <4>2, FirstNamingStays
    <3>3. NoneOrFirst(world, e.path, e.program)
      BY <2>1, <3>2 DEF NoneOrFirst
    <3>4. QED
      BY <2>1, <3>3 DEF L, Labelled, Entry
  <2>3. roots' \in Seq(L)
    <3>1. CASE e.path \in seen
      BY <1>1, <3>1 DEF FeederRecv
    <3>2. CASE e.path \notin seen
      BY <1>1, <2>2, <3>2, AppendProperties DEF FeederRecv
    <3>3. QED
      BY <3>1, <3>2
  <2>4. UNCHANGED <<fpc, queue, dpc, dentry, wpc, wentry, wref>>
    BY <1>1 DEF FeederRecv
  <2>5. QED
    BY <2>3, <2>4, <1>new
<1>2. CASE FeederExtend
  <2>1. queue' \in Seq(L) /\ roots' \in Seq(L)
    BY <1>2, ConcatProperties, EmptySeq DEF FeederExtend
  <2>2. UNCHANGED <<dpc, dentry, wpc, wentry, wref>> /\ fpc' = "flag"
    BY <1>2 DEF FeederExtend
  <2>3. QED
    BY <2>1, <2>2, <1>new
<1>3. CASE FeederCount \/ FeederFlag \/ FeederWake
  BY <1>3, <1>new DEF FeederCount, FeederFlag, FeederWake
<1>4. CASE DispatcherPop
  <2>1. queue # << >> => Head(queue) \in L /\ Tail(queue) \in Seq(L)
    BY HeadTailProperties
  <2>2. QED
    BY <1>4, <2>1, <1>new DEF DispatcherPop
<1>5. ASSUME NEW w \in Workers, DispatcherSpawn(w) PROVE LabelInv'
  BY <1>5, <1>new DEF DispatcherSpawn, TypeOK
<1>6. CASE DispatcherReadFlag \/ DispatcherReadCount \/ DispatcherWake \/ Receive
           \/ ReceiveEnd \/ DropReceiver \/ UNCHANGED vars
  BY <1>6, <1>new DEF DispatcherReadFlag, DispatcherReadCount, DispatcherWake, Receive,
     ReceiveEnd, DropReceiver, vars
<1>7. ASSUME NEW w \in Workers, NEW r \in Paths, WorkerLookup(w, r) PROVE LabelInv'
  <2>1. r \notin seen => r \notin RootPaths(world)
    BY <1>7, RootsSeen DEF WorkerLookup, ShutdownInv
  <2>2. QED
    BY <1>7, <2>1, <1>new DEF WorkerLookup, TypeOK
<1>8. ASSUME NEW w \in Workers, WorkerPush(w) PROVE LabelInv'
  <2> DEFINE entry == [path |-> wref[w], program |-> NoProgram, toplevel |-> FALSE]
  <2>1. wref[w] \in Paths /\ wref[w] \notin RootPaths(world)
    BY <1>8 DEF WorkerPush, TypeOK
  <2>2. entry \in L
    <3>1. NoneOrFirst(world, entry.path, entry.program)
      BY DEF NoneOrFirst
    <3>2. entry \in Entry /\ entry.toplevel = FALSE /\ entry.path = wref[w]
      BY <2>1 DEF Entry
    <3>3. entry.toplevel <=> (entry.path \in RootPaths(world))
      BY <2>1, <3>2
    <3>4. QED
      BY <3>1, <3>2, <3>3 DEF L, Labelled
  <2>3. queue' \in Seq(L)
    BY <1>8, <2>2, AppendProperties DEF WorkerPush
  <2>4. QED
    BY <1>8, <2>3, <1>new DEF WorkerPush, TypeOK
<1>9. ASSUME NEW w \in Workers,
             \/ WorkerNarinfo(w) \/ WorkerCount(w) \/ WorkerNotify(w) \/ WorkerRefsDone(w)
             \/ WorkerLs(w) \/ WorkerSub(w) \/ WorkerWake(w) \/ WorkerSend(w)
      PROVE  LabelInv'
  <2>1. /\ UNCHANGED <<fpc, roots, queue, dpc, dentry, wref>>
        /\ wpc[w] # "idle" /\ (wpc'[w] = "push" => wpc[w] = "add") /\ wpc'[w] # "add"
        /\ \A v \in Workers \ {w} : wpc'[v] = wpc[v] /\ wentry'[v] = wentry[v]
        /\ wpc'[w] # "idle" => wentry'[w] = wentry[w]
    BY <1>9 DEF WorkerNarinfo, WorkerCount, WorkerNotify, WorkerRefsDone, WorkerLs,
       WorkerSub, WorkerWake, WorkerSend, TypeOK
  <2>2. QED
    BY <2>1, <1>new
<1>10. QED
  BY <1>1, <1>2, <1>3, <1>4, <1>5, <1>6, <1>7, <1>8, <1>9
     DEF Next, Feeder, Dispatcher, Worker, Terminated

-----------------------------------------------------------------------------
(***************************************************************************)
(* What a task makes of a labelled entry is the listing of its path.       *)
(***************************************************************************)
LEMMA EffectiveIsMain ==
  ASSUME TypeOK, ProgramInv, fed = Len(world.input),
         NEW e \in Labelled(world)
  PROVE  EffectiveProgram(e) = MainProgram(world, Len(world.input), e.path)
<1>1. Len(world.input) \in Nat
  BY InputFacts DEF TypeOK
<1>2. CASE e.program # NoProgram
  <2>1. PICK i \in Nat : /\ FirstNaming(world, Len(world.input), e.path, i)
                       /\ e.program = world.input[i].program
    BY <1>2 DEF Labelled, NoneOrFirst
  <2>2. QED
    BY <1>1, <1>2, <2>1, FirstNamingIsMain DEF EffectiveProgram
<1>3. CASE e.program = NoProgram
  <2>1. EffectiveProgram(e) = program[e.path] /\ e.path \in Paths
    BY <1>3 DEF EffectiveProgram, Labelled, Entry
  <2>2. CASE program[e.path] = NoProgram /\ NamesProgram(world, fed, e.path) = {}
    BY <2>1, <2>2 DEF MainProgram
  <2>3. CASE \E i \in Nat : /\ FirstNaming(world, fed, e.path, i)
                           /\ program[e.path] = world.input[i].program
    BY <1>1, <2>1, <2>3, FirstNamingIsMain
  <2>4. QED
    BY <2>1, <2>2, <2>3 DEF ProgramInv
<1>4. QED
  BY <1>2, <1>3

\* A labelled entry whose path has the text b yields the listing of its path.
LEMMA MadeItemIsListing ==
  ASSUME TypeOK, ProgramInv, fed = Len(world.input), NEW e \in Labelled(world),
         NEW text, text = Body(world, e.path, EffectiveProgram(e))
  PROVE  MakeItem(e, text) = Listing(world, e.path)
<1>1. text = Body(world, e.path, MainProgram(world, Len(world.input), e.path))
  BY EffectiveIsMain
<1>2. e.toplevel \in BOOLEAN /\ (e.toplevel <=> (e.path \in RootPaths(world)))
  BY DEF Labelled, Entry
<1>3. QED
  BY <1>1, <1>2 DEF MakeItem, Listing

LEMMA MadeItemIsWanted ==
  ASSUME TypeOK, ProgramInv, SeenInv, fed = Len(world.input),
         NEW e \in Labelled(world), e.path \in seen,
         NEW text, text = Body(world, e.path, EffectiveProgram(e))
  PROVE  MakeItem(e, text) = NoItem \/ MakeItem(e, text) \in Wanted[world]
<1>1. MakeItem(e, text) = Listing(world, e.path)
  BY MadeItemIsListing
<1>2. QED
  BY <1>1 DEF SeenInv, Wanted, Listings, TypeOK

LEMMA ListingStep ==
  ASSUME TypeOK, ShutdownInv, SeenInv, ProgramInv, LabelInv, ListingInv, [Next]_vars
  PROVE  ListingInv'
<1> DEFINE W == Wanted[world]
<1>0. UNCHANGED world /\ world \in Worlds /\ seen \subseteq seen'
  BY DEF Next, Feeder, FeederRecv, FeederCount, FeederExtend, FeederFlag, FeederWake,
     Dispatcher, DispatcherPop, DispatcherSpawn, DispatcherReadFlag, DispatcherReadCount,
     DispatcherWake, Worker, WorkerNarinfo, WorkerLookup, WorkerCount, WorkerPush,
     WorkerNotify, WorkerRefsDone, WorkerLs, WorkerSub, WorkerWake, WorkerSend, Receive,
     ReceiveEnd, DropReceiver, Terminated, vars, TypeOK
<1>00. Wanted[world]' = W
  BY <1>0 DEF Wanted
<1> HIDE DEF W
<1> DEFINE Fetched(place) == place \in {"refs", "add", "push", "notify", "ls"}
           Reached(e) == world.shallow \/ world.narinfo[e.path] = "ok"
<1>old. /\ \A w \in Workers : wpc[w] # "idle" => wentry[w].path \in seen
        /\ \A w \in Workers : Fetched(wpc[w]) => Reached(wentry[w])
        /\ \A w \in Workers : witem[w] = NoItem \/ witem[w] \in W
        /\ out \in Seq(W) /\ received \in Seq(W)
  BY DEF ListingInv, W
<1>new. ASSUME /\ \A w \in Workers : wpc'[w] # "idle" => wentry'[w].path \in seen
               /\ \A w \in Workers : Fetched(wpc'[w]) => Reached(wentry'[w])
               /\ \A w \in Workers : witem'[w] = NoItem \/ witem'[w] \in W
               /\ out' \in Seq(W) /\ received' \in Seq(W)
        PROVE  ListingInv'
  BY <1>0, <1>00, <1>new DEF ListingInv
<1> USE <1>old DEF feederVars, dispatcherVars, workerVars, consumerVars
<1>busy. ASSUME NEW w \in Workers, wpc[w] # "idle"
         PROVE  wentry[w] \in Labelled(world) /\ fed = Len(world.input)
                /\ wentry[w].path \in Paths
  BY <1>busy DEF LabelInv, ShutdownInv, TypeOK, Labelled, Entry
<1>made. ASSUME NEW w \in Workers, wpc[w] # "idle", NEW text,
                text = Body(world, wentry[w].path, EffectiveProgram(wentry[w]))
         PROVE  MakeItem(wentry[w], text) = NoItem \/ MakeItem(wentry[w], text) \in W
  BY <1>made, <1>busy, MadeItemIsWanted DEF W
<1>1. CASE UNCHANGED <<wpc, wentry, witem, out, received>>
  BY <1>1, <1>new
<1>2. ASSUME NEW w \in Workers, DispatcherSpawn(w) PROVE ListingInv'
  <2>1. dentry.path \in seen
    BY <1>2 DEF DispatcherSpawn, SeenInv, Pending, HeldPaths
  <2>2. /\ \A v \in Workers \ {w} : wpc'[v] = wpc[v] /\ wentry'[v] = wentry[v]
        /\ wentry'[w] = dentry /\ (Fetched(wpc'[w]) => world.shallow)
        /\ UNCHANGED <<witem, out, received>>
    BY <1>2 DEF DispatcherSpawn, TypeOK
  <2>3. QED
    BY <2>1, <2>2, <1>new
<1>3. ASSUME NEW w \in Workers, WorkerNarinfo(w) PROVE ListingInv'
  <2> DEFINE e == wentry[w]
  <2>1. wpc[w] = "narinfo" /\ ~world.shallow
    BY <1>3 DEF WorkerNarinfo, SeenInv, Exploring
  <2>2. /\ UNCHANGED <<wentry, out, received>>
        /\ \A v \in Workers \ {w} : wpc'[v] = wpc[v] /\ witem'[v] = witem[v]
        /\ Fetched(wpc'[w]) => Reached(e)
    BY <1>3 DEF WorkerNarinfo, TypeOK
  <2>3. CASE world.narinfo[e.path] = "not_found"
    <3>1. SyntheticBody(e) = Body(world, e.path, EffectiveProgram(e))
      BY <2>1, <2>3 DEF SyntheticBody, Body
    <3>2. witem'[w] = MakeItem(e, SyntheticBody(e))
      BY <1>3, <2>3 DEF WorkerNarinfo, TypeOK
    <3>3. witem'[w] = NoItem \/ witem'[w] \in W
      BY <2>1, <3>1, <3>2, <1>made
    <3>4. QED
      BY <2>1, <2>2, <3>3, <1>new
  <2>4. CASE world.narinfo[e.path] # "not_found"
    <3>1. UNCHANGED witem
      BY <1>3, <2>4 DEF WorkerNarinfo
    <3>2. QED
      BY <2>1, <2>2, <3>1, <1>new
  <2>5. QED
    BY <2>3, <2>4
<1>4. ASSUME NEW w \in Workers,
             \/ \E r \in Paths : WorkerLookup(w, r)
             \/ WorkerCount(w) \/ WorkerPush(w) \/ WorkerNotify(w) \/ WorkerRefsDone(w)
             \/ WorkerSub(w) \/ WorkerWake(w)
      PROVE  ListingInv'
  <2>1. /\ UNCHANGED <<wentry, witem, out, received>> /\ wpc[w] # "idle"
        /\ Fetched(wpc'[w]) => Fetched(wpc[w])
        /\ \A v \in Workers \ {w} : wpc'[v] = wpc[v]
    BY <1>4 DEF WorkerLookup, WorkerCount, WorkerPush, WorkerNotify, WorkerRefsDone,
       WorkerSub, WorkerWake, TypeOK
  <2>2. QED
    BY <2>1, <1>new
<1>5. ASSUME NEW w \in Workers, WorkerLs(w) PROVE ListingInv'
  <2> DEFINE e == wentry[w]
             answer == world.ls[e.path]
  <2>1. wpc[w] = "ls" /\ Reached(e)
    BY <1>5 DEF WorkerLs
  <2>2. /\ UNCHANGED <<wentry, out, received>> /\ wpc'[w] = "sub"
        /\ \A v \in Workers \ {w} : wpc'[v] = wpc[v] /\ witem'[v] = witem[v]
    BY <1>5 DEF WorkerLs, TypeOK
  <2>3. witem'[w] = IF answer = "ok" THEN MakeItem(e, Tree)
                    ELSE IF answer = "not_found" THEN MakeItem(e, SyntheticBody(e))
                    ELSE NoItem
    BY <1>5 DEF WorkerLs, TypeOK
  <2>4. /\ answer = "ok" => Tree = Body(world, e.path, EffectiveProgram(e))
        /\ answer = "not_found" => SyntheticBody(e) = Body(world, e.path, EffectiveProgram(e))
    BY <2>1 DEF SyntheticBody, Body
  <2>5. witem'[w] = NoItem \/ witem'[w] \in W
    BY <2>1, <2>3, <2>4, <1>made
  <2>6. QED
    BY <2>1, <2>2, <2>5, <1>new
<1>6. ASSUME NEW w \in Workers, WorkerSend(w) PROVE ListingInv'
  <2>1. out' \in Seq(W)
    <3>1. witem[w] \in W => Append(out, witem[w]) \in Seq(W)
      BY AppendProperties
    <3>2. QED
      BY <1>6, <3>1 DEF WorkerSend
  <2>2. /\ UNCHANGED received /\ wpc'[w] = "idle" /\ witem'[w] = NoItem
        /\ \A v \in Workers \ {w} :
             wpc'[v] = wpc[v] /\ wentry'[v] = wentry[v] /\ witem'[v] = witem[v]
    BY <1>6 DEF WorkerSend, TypeOK
  <2>3. QED
    BY <2>1, <2>2, <1>new
<1>7. CASE Receive
  <2>1. out # << >> => Head(out) \in W /\ Tail(out) \in Seq(W)
    BY HeadTailProperties
  <2>2. QED
    BY <1>7, <2>1, AppendProperties, <1>new DEF Receive
<1>8. CASE DropReceiver
  BY <1>8, EmptySeq, <1>new DEF DropReceiver
<1>9. QED
  BY <1>1, <1>2, <1>3, <1>4, <1>5, <1>6, <1>7, <1>8
     DEF Next, Feeder, FeederRecv, FeederCount, FeederExtend, FeederFlag, FeederWake,
     Dispatcher, DispatcherPop, DispatcherReadFlag, DispatcherReadCount, DispatcherWake,
     Worker, ReceiveEnd, Terminated, vars

\* Only the listings the input deserves are ever handed to the build: labelled
\* as the roots label them, and with the first main program any root named.
THEOREM OnlyDeserved == Spec => []OnlyDeservedListings
<1> DEFINE Inv == FetchInv /\ ProgramInv /\ LabelInv /\ ListingInv
<1>1. Init => Inv
  BY InitTypeOK, InitInFlight, InitShutdown, InitSeen, InitLabels DEF FetchInv
<1>2. Inv /\ [Next]_vars => Inv'
  BY TypeStep, InFlightStep, ShutdownStep, SeenStep, ProgramStep, LabelStep, ListingStep
     DEF FetchInv
<1>3. Inv => OnlyDeservedListings
  BY LenProperties, ElementOfSeq DEF ListingInv, OnlyDeservedListings
<1>4. QED
  BY <1>1, <1>2, <1>3, PTL DEF Spec

-----------------------------------------------------------------------------
(***************************************************************************)
(* Sequences of entries and of listings.                                   *)
(***************************************************************************)
\* The paths of a sequence of records when one is added, or taken from its head.
LEMMA PathsInAny ==
  ASSUME NEW S, NEW s \in Seq(S)
  PROVE  /\ \A e \in S : PathsIn(Append(s, e)) = PathsIn(s) \cup {e.path}
         /\ s # << >> => PathsIn(s) = PathsIn(Tail(s)) \cup {Head(s).path}
<1> DEFINE n == Len(s)
<1>0. n \in Nat
  OBVIOUS
<1>1. ASSUME NEW e \in S PROVE PathsIn(Append(s, e)) = PathsIn(s) \cup {e.path}
  <2>1. /\ Len(Append(s, e)) = n + 1 /\ Append(s, e)[n + 1] = e
        /\ \A i \in 1..n : Append(s, e)[i] = s[i]
    BY AppendProperties
  <2>2. 1..(n + 1) = (1..n) \cup {n + 1}
    BY <1>0
  <2>3. QED
    BY <2>1, <2>2 DEF PathsIn
<1>2. ASSUME s # << >> PROVE PathsIn(s) = PathsIn(Tail(s)) \cup {Head(s).path}
  <2>1. n >= 1 /\ Head(s) = s[1]
    BY <1>2
  <2>2. Len(Tail(s)) = n - 1 /\ \A i \in 1..(n - 1) : Tail(s)[i] = s[i + 1]
    BY <1>2, HeadTailProperties
  <2>3. ASSUME NEW i \in 1..n PROVE s[i].path \in PathsIn(Tail(s)) \cup {Head(s).path}
    <3>1. i # 1 => i - 1 \in 1..(n - 1) /\ Tail(s)[i - 1] = s[i]
      BY <1>0, <2>2
    <3>2. QED
      BY <2>1, <2>2, <3>1 DEF PathsIn
  <2>4. ASSUME NEW i \in 1..(n - 1) PROVE Tail(s)[i].path \in PathsIn(s)
    <3>1. i + 1 \in 1..n /\ Tail(s)[i] = s[i + 1]
      BY <1>0, <2>2
    <3>2. QED
      BY <3>1 DEF PathsIn
  <2>5. Head(s).path \in PathsIn(s)
    BY <1>0, <2>1 DEF PathsIn
  <2>6. QED
    BY <2>2, <2>3, <2>4, <2>5 DEF PathsIn
<1>3. QED
  BY <1>1, <1>2

(***************************************************************************)
(* A sequence of records that names no path twice.                         *)
(***************************************************************************)
Distinct(s) == \A i, j \in 1..Len(s) : s[i].path = s[j].path => i = j

LEMMA DistinctSequences ==
  ASSUME NEW S, NEW s \in Seq(S), Distinct(s)
  PROVE  /\ \A e \in S : e.path \notin PathsIn(s) => Distinct(Append(s, e))
         /\ s # << >> => Distinct(Tail(s)) /\ Head(s).path \notin PathsIn(Tail(s))
<1> DEFINE n == Len(s)
<1>0. n \in Nat
  OBVIOUS
<1>1. ASSUME NEW e \in S, e.path \notin PathsIn(s) PROVE Distinct(Append(s, e))
  <2>1. /\ Len(Append(s, e)) = n + 1 /\ Append(s, e)[n + 1] = e
        /\ \A i \in 1..n : Append(s, e)[i] = s[i]
    BY AppendProperties
  <2>2. \A i \in 1..n : s[i].path # e.path
    BY <1>1 DEF PathsIn
  <2>3. ASSUME NEW i \in 1..(n + 1), NEW j \in 1..(n + 1),
               Append(s, e)[i].path = Append(s, e)[j].path
        PROVE  i = j
    <3>1. (i \in 1..n \/ i = n + 1) /\ (j \in 1..n \/ j = n + 1)
      BY <1>0
    <3>2. QED
      BY <2>1, <2>2, <2>3, <3>1 DEF Distinct
  <2>4. QED
    BY <2>1, <2>3 DEF Distinct
<1>2. ASSUME s # << >>
      PROVE  Distinct(Tail(s)) /\ Head(s).path \notin PathsIn(Tail(s))
  <2>1. n >= 1 /\ Head(s) = s[1] /\ 1 \in 1..n
    BY <1>2
  <2>2. Len(Tail(s)) = n - 1 /\ \A i \in 1..(n - 1) : Tail(s)[i] = s[i + 1]
    BY <1>2, HeadTailProperties
  <2>3. ASSUME NEW i \in 1..(n - 1), NEW j \in 1..(n - 1), Tail(s)[i].path = Tail(s)[j].path
        PROVE  i = j
    <3>1. i + 1 \in 1..n /\ j + 1 \in 1..n /\ s[i + 1].path = s[j + 1].path
      BY <1>0, <2>2, <2>3
    <3>2. i + 1 = j + 1
      BY <3>1 DEF Distinct
    <3>3. QED
      BY <3>2
  <2>4. ASSUME NEW i \in 1..(n - 1) PROVE Tail(s)[i].path # Head(s).path
    <3>1. i + 1 \in 1..n /\ i + 1 # 1 /\ Tail(s)[i] = s[i + 1]
      BY <1>0, <2>2
    <3>2. QED
      BY <2>1, <3>1 DEF Distinct
  <2>5. QED
    BY <2>2, <2>3, <2>4 DEF Distinct, PathsIn
<1>3. QED
  BY <1>1, <1>2

LEMMA AbstractWanted == Abstract!Wanted = Wanted
  BY DEF Abstract!Wanted, Wanted, Abstract!Listings, Listings, Abstract!Listing, Listing,
     Abstract!Closure, Closure, Abstract!RootPaths, RootPaths, Abstract!ClosedUnder,
     ClosedUnder, Abstract!Follows, Follows, Abstract!Body, Body, Abstract!MainProgram,
     MainProgram, Abstract!NamesProgram, NamesProgram

-----------------------------------------------------------------------------
(***************************************************************************)
(* Exactly once.  A path is in one place at a time: waiting with the       *)
(* feeder, queued, held by the dispatcher, about to be queued by a task,   *)
(* with a task of its own, in the channel, or with the build.              *)
(***************************************************************************)
Busy(place) == place # "idle"
Adding(place) == place \in {"add", "push"}

AheadPaths == PathsIn(roots) \cup PathsIn(queue) \cup HeldPaths \cup AddedPaths
BusyPaths == {wentry[w].path : w \in {v \in Workers : Busy(wpc[v])}}
SentPaths == PathsIn(out) \cup PathsIn(received)

OnceInv ==
  /\ Distinct(roots) /\ Distinct(queue) /\ Distinct(out)
  /\ PathsIn(roots) \cap PathsIn(queue) = {}
  /\ HeldPaths \cap (PathsIn(roots) \cup PathsIn(queue)) = {}
  /\ AddedPaths \cap (PathsIn(roots) \cup PathsIn(queue) \cup HeldPaths) = {}
  /\ BusyPaths \cap AheadPaths = {}
  /\ SentPaths \cap (AheadPaths \cup BusyPaths) = {}
  /\ PathsIn(out) \cap PathsIn(received) = {}
  /\ SentPaths \subseteq seen
  /\ \A v, w \in Workers :
       /\ Adding(wpc[v]) /\ Adding(wpc[w]) /\ wref[v] = wref[w] => v = w
       /\ Busy(wpc[v]) /\ Busy(wpc[w]) /\ wentry[v].path = wentry[w].path => v = w

(***************************************************************************)
(* What a task takes to the channel is the listing of its path.            *)
(***************************************************************************)
AnswerInv ==
  \A w \in Workers :
    /\ wpc[w] \in {"idle"} \cup (Phases \ {"sub"}) => witem[w] = NoItem
    /\ wpc[w] \in {"sub"} \cup Tails => witem[w] = Listing(world, wentry[w].path)

LEMMA ListingPath ==
  ASSUME NEW wld, NEW p, Listing(wld, p) # NoItem
  PROVE  Listing(wld, p).path = p
<1> DEFINE text == Body(wld, p, MainProgram(wld, Len(wld.input), p))
<1>1. Listing(wld, p) = [path |-> p, toplevel |-> p \in RootPaths(wld), body |-> text]
  BY DEF Listing
<1>2. QED
  BY <1>1

LEMMA InitOnce == Init => OnceInv
<1> SUFFICES ASSUME Init PROVE OnceInv
  OBVIOUS
<1>1. /\ PathsIn(roots) = {} /\ PathsIn(queue) = {} /\ PathsIn(out) = {}
      /\ PathsIn(received) = {}
  BY PathsInSequences DEF Init
<1>2. HeldPaths = {} /\ AddedPaths = {} /\ BusyPaths = {}
  BY DEF Init, HeldPaths, AddedPaths, BusyPaths, Busy
<1>3. Distinct(roots) /\ Distinct(queue) /\ Distinct(out)
  BY DEF Init, Distinct
<1>4. QED
  BY <1>1, <1>2, <1>3 DEF Init, OnceInv, AheadPaths, SentPaths, Adding, Busy

\* Whatever is in a place has been seen.
LEMMA PlacesSeen ==
  ASSUME SeenInv, ListingInv, OnceInv
  PROVE  AheadPaths \subseteq seen /\ BusyPaths \subseteq seen /\ SentPaths \subseteq seen
BY DEF SeenInv, Pending, AheadPaths, BusyPaths, Busy, ListingInv, OnceInv

LEMMA OnceStep ==
  ASSUME TypeOK, ShutdownInv, SeenInv, LabelInv, ListingInv, AnswerInv, OnceInv, [Next]_vars
  PROVE  OnceInv'
<1>0. /\ AheadPaths \subseteq seen /\ BusyPaths \subseteq seen /\ SentPaths \subseteq seen
      /\ seen \subseteq seen'
  <2>1. seen \subseteq seen'
    BY DEF Next, Feeder, FeederRecv, FeederCount, FeederExtend, FeederFlag, FeederWake,
       Dispatcher, DispatcherPop, DispatcherSpawn, DispatcherReadFlag, DispatcherReadCount,
       DispatcherWake, Worker, WorkerNarinfo, WorkerLookup, WorkerCount, WorkerPush,
       WorkerNotify, WorkerRefsDone, WorkerLs, WorkerSub, WorkerWake, WorkerSend, Receive,
       ReceiveEnd, DropReceiver, Terminated, vars, feederVars, dispatcherVars, workerVars,
       consumerVars
  <2>2. QED
    BY <2>1, PlacesSeen
<1> USE <1>0 DEF feederVars, dispatcherVars, workerVars, consumerVars
<1>paths. /\ UNCHANGED roots => PathsIn(roots') = PathsIn(roots) /\ (Distinct(roots)' <=> Distinct(roots))
          /\ UNCHANGED queue => PathsIn(queue') = PathsIn(queue) /\ (Distinct(queue)' <=> Distinct(queue))
          /\ UNCHANGED out => PathsIn(out') = PathsIn(out) /\ (Distinct(out)' <=> Distinct(out))
          /\ UNCHANGED received => PathsIn(received') = PathsIn(received)
          /\ UNCHANGED <<dpc, dentry>> => HeldPaths' = HeldPaths
          /\ UNCHANGED <<wpc, wref>> => AddedPaths' = AddedPaths
          /\ UNCHANGED <<wpc, wentry>> => BusyPaths' = BusyPaths
  BY DEF HeldPaths, AddedPaths, BusyPaths, Distinct
<1>once. /\ Distinct(roots) /\ Distinct(queue) /\ Distinct(out)
         /\ PathsIn(roots) \cap PathsIn(queue) = {}
         /\ HeldPaths \cap (PathsIn(roots) \cup PathsIn(queue)) = {}
         /\ AddedPaths \cap (PathsIn(roots) \cup PathsIn(queue) \cup HeldPaths) = {}
         /\ BusyPaths \cap AheadPaths = {}
         /\ SentPaths \cap (AheadPaths \cup BusyPaths) = {}
         /\ PathsIn(out) \cap PathsIn(received) = {}
         /\ SentPaths \subseteq seen
         /\ \A v, w \in Workers :
              /\ Adding(wpc[v]) /\ Adding(wpc[w]) /\ wref[v] = wref[w] => v = w
              /\ Busy(wpc[v]) /\ Busy(wpc[w]) /\ wentry[v].path = wentry[w].path => v = w
  BY DEF OnceInv
<1>workers. ASSUME UNCHANGED <<wpc, wref, wentry>>
            PROVE  \A v, w \in Workers :
                     /\ Adding(wpc'[v]) /\ Adding(wpc'[w]) /\ wref'[v] = wref'[w] => v = w
                     /\ Busy(wpc'[v]) /\ Busy(wpc'[w]) /\ wentry'[v].path = wentry'[w].path
                          => v = w
  BY <1>workers, <1>once
<1>1. CASE FeederRecv
  <2> DEFINE e == world.input[fed + 1]
             new == [path |-> e.path, program |-> e.program, toplevel |-> TRUE]
  <2>1. /\ fed + 1 \in 1..Len(world.input) /\ new \in Entry /\ new.path = e.path
    BY <1>1, InputFacts DEF FeederRecv, TypeOK, Entry
  <2>2. /\ UNCHANGED <<queue, out, received, dpc, dentry, wpc, wref, wentry>>
        /\ seen' = seen \cup {e.path}
        /\ roots' = IF e.path \in seen THEN roots ELSE Append(roots, new)
    BY <1>1 DEF FeederRecv
  <2>3. CASE e.path \in seen
    BY <2>2, <2>3, <1>paths, <1>workers, <1>once DEF OnceInv, AheadPaths, SentPaths
  <2>4. CASE e.path \notin seen
    <3>1. PathsIn(roots') = PathsIn(roots) \cup {e.path}
      BY <2>1, <2>2, <2>4, PathsInSequences DEF TypeOK
    <3>2. Distinct(roots')
      BY <2>1, <2>2, <2>4, DistinctSequences, <1>once DEF TypeOK, AheadPaths
    <3>3. \A v, w \in Workers :
            /\ Adding(wpc'[v]) /\ Adding(wpc'[w]) /\ wref'[v] = wref'[w] => v = w
            /\ Busy(wpc'[v]) /\ Busy(wpc'[w]) /\ wentry'[v].path = wentry'[w].path => v = w
      BY <2>2, <1>workers
    <3>4. PICK p : p = e.path
      OBVIOUS
    <3> HIDE DEF e, new
    <3>5. QED
      BY <2>2, <2>4, <3>1, <3>2, <3>3, <3>4, <1>paths, <1>once DEF OnceInv, AheadPaths, SentPaths
  <2>5. QED
    BY <2>3, <2>4
<1>2. CASE FeederExtend
  <2>1. queue = << >> /\ queue' = queue \o roots /\ roots' = << >>
    BY <1>2 DEF FeederExtend, LabelInv
  <2>2. queue' = roots
    BY <2>1, ConcatEmptySeq DEF TypeOK
  <2>3. PathsIn(queue) = {} /\ PathsIn(roots') = {} /\ Distinct(roots)' /\ PathsIn(queue') = PathsIn(roots)
    BY <2>1, <2>2, PathsInSequences DEF Distinct
  <2>4. UNCHANGED <<seen, out, received, dpc, dentry, wpc, wref, wentry>>
    BY <1>2 DEF FeederExtend
  <2>5. QED
    BY <2>2, <2>3, <2>4, <1>paths, <1>workers, <1>once DEF OnceInv, AheadPaths, SentPaths
<1>3. CASE DispatcherPop
  <2>1. UNCHANGED <<seen, roots, out, received, wpc, wref, wentry>>
    BY <1>3 DEF DispatcherPop
  <2>2. CASE queue = << >>
    <3>1. UNCHANGED queue /\ HeldPaths' = HeldPaths
      BY <1>3, <2>2 DEF DispatcherPop, HeldPaths
    <3>2. QED
      BY <2>1, <3>1, <1>paths, <1>workers, <1>once DEF OnceInv, AheadPaths, SentPaths
  <2>3. CASE queue # << >>
    <3>1. /\ PathsIn(queue) = PathsIn(queue') \cup {dentry'.path}
          /\ Distinct(queue)' /\ dentry'.path \notin PathsIn(queue')
      <4>1. queue' = Tail(queue) /\ dentry' = Head(queue)
        BY <1>3, <2>3 DEF DispatcherPop
      <4>2. queue \in Seq(Entry)
        BY DEF TypeOK
      <4>3. QED
        BY <2>3, <4>1, <4>2, <1>once, PathsInSequences, DistinctSequences
    <3>2. HeldPaths = {} /\ HeldPaths' = {dentry'.path}
      BY <1>3, <2>3 DEF DispatcherPop, HeldPaths
    <3>3. QED
      BY <2>1, <3>1, <3>2, <1>paths, <1>workers, <1>once DEF OnceInv, AheadPaths, SentPaths
  <2>4. QED
    BY <2>2, <2>3
<1>4. ASSUME NEW w \in Workers, DispatcherSpawn(w) PROVE OnceInv'
  <2>p. PICK p : p = dentry.path
    OBVIOUS
  <2>1. /\ UNCHANGED <<seen, roots, queue, out, received, wref>>
        /\ HeldPaths = {p} /\ HeldPaths' = {}
    BY <1>4, <2>p DEF DispatcherSpawn, HeldPaths
  <2>2. /\ wpc[w] = "idle" /\ Busy(wpc'[w]) /\ ~Adding(wpc'[w]) /\ wentry'[w].path = p
        /\ \A v \in Workers \ {w} : wpc'[v] = wpc[v] /\ wentry'[v] = wentry[v]
    BY <1>4, <2>p DEF DispatcherSpawn, Busy, Adding, TypeOK
  <2>3. AddedPaths' = AddedPaths
    BY <2>1, <2>2 DEF AddedPaths, Adding
  <2>4. BusyPaths' = BusyPaths \cup {p}
    BY <2>2 DEF BusyPaths, Busy
  <2>5. \A v \in Workers : Busy(wpc[v]) => wentry[v].path \in BusyPaths
    BY DEF BusyPaths
  <2>6. \A v \in Workers \ {w} : Busy(wpc[v]) => wentry[v].path # p
    BY <2>1, <2>5, <1>once DEF AheadPaths
  <2>7. \A v, u \in Workers :
          /\ Adding(wpc'[v]) /\ Adding(wpc'[u]) /\ wref'[v] = wref'[u] => v = u
          /\ Busy(wpc'[v]) /\ Busy(wpc'[u]) /\ wentry'[v].path = wentry'[u].path => v = u
    BY <2>1, <2>2, <2>6, <1>once
  <2>8. QED
    BY <2>1, <2>3, <2>4, <2>7, <1>paths, <1>once DEF OnceInv, AheadPaths, SentPaths
<1>stays. ASSUME NEW w \in Workers, Busy(wpc[w]), Busy(wpc'[w]),
                 ~Adding(wpc'[w]) \/ Adding(wpc[w]),
                 \A v \in Workers \ {w} : wpc'[v] = wpc[v],
                 Adding(wpc'[w]) \/ ~Adding(wpc[w]),
                 UNCHANGED <<seen, roots, queue, out, received, dpc, dentry, wref, wentry>>
          PROVE  OnceInv'
  <2>1. \A v \in Workers : /\ Busy(wpc'[v]) <=> Busy(wpc[v])
                           /\ Adding(wpc'[v]) <=> Adding(wpc[v])
    BY <1>stays
  <2>2. BusyPaths' = BusyPaths /\ AddedPaths' = AddedPaths
    BY <1>stays, <2>1 DEF BusyPaths, AddedPaths, Adding
  <2>3. QED
    BY <1>stays, <2>1, <2>2, <1>paths, <1>once DEF OnceInv, AheadPaths, SentPaths
<1>5. ASSUME NEW w \in Workers, NEW r \in Paths, WorkerLookup(w, r) PROVE OnceInv'
  <2>1. CASE r \in seen
    <3>1. UNCHANGED <<seen, roots, queue, out, received, dpc, dentry, wpc, wref, wentry>>
      BY <1>5, <2>1 DEF WorkerLookup
    <3>2. QED
      BY <3>1, <1>paths, <1>workers, <1>once DEF OnceInv, AheadPaths, SentPaths
  <2>2. CASE r \notin seen
    <3>1. /\ UNCHANGED <<roots, queue, out, received, dpc, dentry, wentry>>
          /\ wpc[w] = "refs" /\ wpc'[w] = "add" /\ wref'[w] = r /\ seen' = seen \cup {r}
          /\ \A v \in Workers \ {w} : wpc'[v] = wpc[v] /\ wref'[v] = wref[v]
      BY <1>5, <2>2 DEF WorkerLookup, TypeOK
    <3>2. BusyPaths' = BusyPaths
      BY <3>1 DEF BusyPaths, Busy
    <3>3. AddedPaths' = AddedPaths \cup {r}
      BY <3>1 DEF AddedPaths
    <3>4. \A v \in Workers : Adding(wpc[v]) => wref[v] # r
      BY <2>2 DEF AheadPaths, AddedPaths, Adding
    <3>5. \A v, u \in Workers :
            /\ Adding(wpc'[v]) /\ Adding(wpc'[u]) /\ wref'[v] = wref'[u] => v = u
            /\ Busy(wpc'[v]) /\ Busy(wpc'[u]) /\ wentry'[v].path = wentry'[u].path => v = u
      BY <3>1, <3>4, <1>once DEF Adding, Busy
    <3>6. QED
      BY <2>2, <3>1, <3>2, <3>3, <3>5, <1>paths, <1>once DEF OnceInv, AheadPaths, SentPaths
  <2>3. QED
    BY <2>1, <2>2
<1>6. ASSUME NEW w \in Workers, WorkerPush(w) PROVE OnceInv'
  <2> DEFINE new == [path |-> wref[w], program |-> NoProgram, toplevel |-> FALSE]
  <2>p. PICK p : p = wref[w]
    OBVIOUS
  <2>1. /\ new \in Entry /\ new.path = p /\ queue' = Append(queue, new)
        /\ UNCHANGED <<seen, roots, out, received, dpc, dentry, wentry>>
        /\ wpc[w] = "push" /\ wpc'[w] = "notify"
        /\ \A v \in Workers \ {w} : wpc'[v] = wpc[v] /\ wref'[v] = wref[v]
    BY <1>6, <2>p DEF WorkerPush, TypeOK, Entry
  <2>2. p \in AddedPaths /\ \A v \in Workers \ {w} : Adding(wpc[v]) => wref[v] # p
    BY <2>p, <2>1, <1>once DEF AddedPaths, Adding
  <2>3. AddedPaths' = AddedPaths \ {p}
    BY <2>p, <2>1, <2>2 DEF AddedPaths, Adding
  <2>4. BusyPaths' = BusyPaths
    BY <2>1 DEF BusyPaths, Busy
  <2>5. PathsIn(queue') = PathsIn(queue) \cup {p}
    BY <2>1, PathsInSequences DEF TypeOK
  <2>6. Distinct(queue')
    BY <2>1, <2>2, DistinctSequences, <1>once DEF TypeOK
  <2>7. \A v, u \in Workers :
          /\ Adding(wpc'[v]) /\ Adding(wpc'[u]) /\ wref'[v] = wref'[u] => v = u
          /\ Busy(wpc'[v]) /\ Busy(wpc'[u]) /\ wentry'[v].path = wentry'[u].path => v = u
    BY <2>1, <1>once DEF Adding, Busy
  <2>8. UNCHANGED <<seen, roots, out, received, dpc, dentry>>
    BY <2>1
  <2>9. QED
    BY <2>2, <2>3, <2>4, <2>5, <2>6, <2>7, <2>8, <1>paths, <1>once
       DEF OnceInv, AheadPaths, SentPaths
<1>7. ASSUME NEW w \in Workers, \/ WorkerNarinfo(w) \/ WorkerCount(w) \/ WorkerNotify(w)
                                \/ WorkerRefsDone(w) \/ WorkerLs(w) \/ WorkerSub(w)
                                \/ WorkerWake(w)
      PROVE  OnceInv'
  BY <1>7, <1>stays DEF WorkerNarinfo, WorkerCount, WorkerNotify, WorkerRefsDone, WorkerLs,
     WorkerSub, WorkerWake, Busy, Adding, TypeOK
<1>8. ASSUME NEW w \in Workers, WorkerSend(w) PROVE OnceInv'
  <2>p. PICK p : p = wentry[w].path
    OBVIOUS
  <2>1. /\ UNCHANGED <<seen, roots, queue, received, dpc, dentry, wref>>
        /\ wpc[w] = "send" /\ wpc'[w] = "idle"
        /\ \A v \in Workers \ {w} : wpc'[v] = wpc[v] /\ wentry'[v] = wentry[v]
    BY <1>8 DEF WorkerSend, TypeOK
  <2>2. p \in BusyPaths /\ \A v \in Workers \ {w} : Busy(wpc[v]) => wentry[v].path # p
    BY <2>p, <2>1, <1>once DEF BusyPaths, Busy
  <2>3. BusyPaths' = BusyPaths \ {p}
    BY <2>p, <2>1, <2>2 DEF BusyPaths, Busy
  <2>4. AddedPaths' = AddedPaths
    BY <2>1 DEF AddedPaths
  <2>5. \A v, u \in Workers :
          /\ Adding(wpc'[v]) /\ Adding(wpc'[u]) /\ wref'[v] = wref'[u] => v = u
          /\ Busy(wpc'[v]) /\ Busy(wpc'[u]) /\ wentry'[v].path = wentry'[u].path => v = u
    BY <2>1, <1>once DEF Adding, Busy
  <2>6. PathsIn(out') \subseteq PathsIn(out) \cup {p} /\ Distinct(out')
    <3>1. CASE witem[w] = NoItem \/ stream = "dropped"
      BY <1>8, <3>1, <1>once DEF WorkerSend
    <3>2. CASE witem[w] # NoItem /\ stream # "dropped"
      <4>1. out' = Append(out, witem[w]) /\ witem[w] \in Item
        BY <1>8, <3>2 DEF WorkerSend, TypeOK
      <4>2. witem[w].path = p
        BY <2>p, <2>1, <3>2, ListingPath DEF AnswerInv, Tails
      <4>3. p \notin PathsIn(out)
        BY <2>2, <1>once DEF SentPaths
      <4>4. QED
        BY <4>1, <4>2, <4>3, PathsInAny, DistinctSequences, <1>once DEF TypeOK
    <3>3. QED
      BY <3>1, <3>2
  <2>7. QED
    BY <2>1, <2>2, <2>3, <2>4, <2>5, <2>6, <1>paths, <1>once DEF OnceInv, AheadPaths, SentPaths
<1>9. CASE Receive
  <2> DEFINE h == Head(out)
  <2>1. /\ UNCHANGED <<seen, roots, queue, dpc, dentry, wpc, wref, wentry>>
        /\ out # << >> /\ out' = Tail(out) /\ received' = Append(received, h)
        /\ h \in Item
    BY <1>9, HeadTailProperties DEF Receive, TypeOK
  <2>2. /\ PathsIn(out) = PathsIn(out') \cup {h.path} /\ h.path \notin PathsIn(out')
        /\ Distinct(out')
    BY <2>1, PathsInAny, DistinctSequences, <1>once DEF TypeOK
  <2>3. PathsIn(received') = PathsIn(received) \cup {h.path}
    BY <2>1, PathsInAny DEF TypeOK
  <2> HIDE DEF h
  <2>4. QED
    BY <2>1, <2>2, <2>3, <1>paths, <1>workers, <1>once DEF OnceInv, AheadPaths, SentPaths
<1>10. CASE DropReceiver
  <2>1. /\ UNCHANGED <<seen, roots, queue, received, dpc, dentry, wpc, wref, wentry>>
        /\ PathsIn(out') = {} /\ Distinct(out')
    BY <1>10, PathsInSequences DEF DropReceiver, Distinct
  <2>2. QED
    BY <2>1, <1>paths, <1>workers, <1>once DEF OnceInv, AheadPaths, SentPaths
<1>11. CASE FeederCount \/ FeederFlag \/ FeederWake \/ DispatcherReadFlag
            \/ DispatcherReadCount \/ DispatcherWake \/ ReceiveEnd \/ UNCHANGED vars
  <2>1. /\ UNCHANGED <<seen, roots, queue, out, received, wpc, wref, wentry>>
        /\ HeldPaths' = HeldPaths
    BY <1>11 DEF FeederCount, FeederFlag, FeederWake, DispatcherReadFlag,
       DispatcherReadCount, DispatcherWake, ReceiveEnd, vars, HeldPaths
  <2>2. QED
    BY <2>1, <1>paths, <1>workers, <1>once DEF OnceInv, AheadPaths, SentPaths
<1>12. QED
  BY <1>1, <1>2, <1>3, <1>4, <1>5, <1>6, <1>7, <1>8, <1>9, <1>10, <1>11
     DEF Next, Feeder, Dispatcher, Worker, Terminated

LEMMA InitAnswer == Init => AnswerInv
  BY DEF Init, AnswerInv, Tails

LEMMA AnswerStep ==
  ASSUME TypeOK, ShutdownInv, SeenInv, ProgramInv, LabelInv, ListingInv, AnswerInv,
         [Next]_vars
  PROVE  AnswerInv'
<1> DEFINE Asking(place) == place \in {"idle"} \cup (Phases \ {"sub"})
           Answered(place) == place \in {"sub"} \cup Tails
<1>0. UNCHANGED world
  BY DEF Next, Feeder, FeederRecv, FeederCount, FeederExtend, FeederFlag, FeederWake,
     Dispatcher, DispatcherPop, DispatcherSpawn, DispatcherReadFlag, DispatcherReadCount,
     DispatcherWake, Worker, WorkerNarinfo, WorkerLookup, WorkerCount, WorkerPush,
     WorkerNotify, WorkerRefsDone, WorkerLs, WorkerSub, WorkerWake, WorkerSend, Receive,
     ReceiveEnd, DropReceiver, Terminated, vars
<1>00. \A p : Listing(world, p)' = Listing(world, p)
  BY <1>0 DEF Listing, Body, MainProgram, NamesProgram, RootPaths
<1>old. \A w \in Workers :
          /\ Asking(wpc[w]) => witem[w] = NoItem
          /\ Answered(wpc[w]) => witem[w] = Listing(world, wentry[w].path)
  BY DEF AnswerInv
<1>new. ASSUME \A w \in Workers :
                 /\ Asking(wpc'[w]) => witem'[w] = NoItem
                 /\ Answered(wpc'[w]) => witem'[w] = Listing(world, wentry'[w].path)
        PROVE  AnswerInv'
  BY <1>new, <1>00 DEF AnswerInv
<1> USE DEF feederVars, dispatcherVars, workerVars, consumerVars
<1>1. CASE UNCHANGED <<wpc, wentry, witem>>
  BY <1>1, <1>old, <1>new
<1>2. ASSUME NEW w \in Workers, DispatcherSpawn(w) PROVE AnswerInv'
  <2>1. /\ wpc[w] = "idle" /\ wpc'[w] \in {"ls", "narinfo"} /\ UNCHANGED witem
        /\ \A v \in Workers \ {w} : wpc'[v] = wpc[v] /\ wentry'[v] = wentry[v]
    BY <1>2 DEF DispatcherSpawn, TypeOK
  <2>2. QED
    BY <2>1, <1>old, <1>new DEF Phases, Tails
<1>3. ASSUME NEW w \in Workers,
             \/ \E r \in Paths : WorkerLookup(w, r)
             \/ WorkerCount(w) \/ WorkerPush(w) \/ WorkerNotify(w) \/ WorkerRefsDone(w)
             \/ WorkerSub(w) \/ WorkerWake(w)
      PROVE  AnswerInv'
  <2>1. /\ UNCHANGED <<wentry, witem>>
        /\ \A v \in Workers \ {w} : wpc'[v] = wpc[v]
        /\ Asking(wpc'[w]) => Asking(wpc[w])
        /\ Answered(wpc'[w]) => Answered(wpc[w])
    BY <1>3 DEF WorkerLookup, WorkerCount, WorkerPush, WorkerNotify, WorkerRefsDone,
       WorkerSub, WorkerWake, TypeOK, Phases, Tails
  <2>2. QED
    BY <2>1, <1>old, <1>new
<1>busy. ASSUME NEW w \in Workers, wpc[w] # "idle"
         PROVE  wentry[w] \in Labelled(world) /\ fed = Len(world.input)
  BY <1>busy DEF LabelInv, ShutdownInv
<1>made. ASSUME NEW w \in Workers, wpc[w] # "idle", wpc'[w] = "sub",
                UNCHANGED wentry, witem'[w] = Listing(world, wentry[w].path),
                \A v \in Workers \ {w} : wpc'[v] = wpc[v] /\ witem'[v] = witem[v]
         PROVE  AnswerInv'
  BY <1>made, <1>old, <1>new DEF Phases, Tails
<1>4. ASSUME NEW w \in Workers, WorkerNarinfo(w) PROVE AnswerInv'
  <2> DEFINE e == wentry[w]
             answer == world.narinfo[e.path]
             main == MainProgram(world, Len(world.input), e.path)
  <2>1. /\ wpc[w] = "narinfo" /\ ~world.shallow /\ witem[w] = NoItem
        /\ UNCHANGED wentry /\ answer \in {"ok", "not_found", "error"}
        /\ \A v \in Workers \ {w} : wpc'[v] = wpc[v] /\ witem'[v] = witem[v]
    BY <1>4, <1>old DEF WorkerNarinfo, SeenInv, Exploring, TypeOK, Phases
  <2>2. CASE answer = "ok"
    <3>1. wpc'[w] = "refs" /\ UNCHANGED witem
      BY <1>4, <2>2 DEF WorkerNarinfo, TypeOK
    <3>2. QED
      BY <2>1, <3>1, <1>old, <1>new DEF Phases, Tails
  <2>3. CASE answer = "not_found"
    <3>1. wpc'[w] = "sub" /\ witem'[w] = MakeItem(e, SyntheticBody(e))
      BY <1>4, <2>3 DEF WorkerNarinfo, TypeOK
    <3>2. SyntheticBody(e) = Body(world, e.path, EffectiveProgram(e))
      BY <2>1, <2>3 DEF SyntheticBody, Body
    <3>3. MakeItem(e, SyntheticBody(e)) = Listing(world, e.path)
      BY <2>1, <3>2, <1>busy, MadeItemIsListing
    <3>4. QED
      BY <2>1, <3>1, <3>3, <1>made
  <2>4. CASE answer = "error"
    <3>1. wpc'[w] = "sub" /\ witem'[w] = NoItem
      BY <1>4, <2>1, <2>4 DEF WorkerNarinfo, TypeOK
    <3>2. Body(world, e.path, main) = NoItem
      BY <2>1, <2>4 DEF Body
    <3>3. Listing(world, e.path) = NoItem
      BY <3>2 DEF Listing
    <3>4. QED
      BY <2>1, <3>1, <3>3, <1>made
  <2>5. QED
    BY <2>1, <2>2, <2>3, <2>4
<1>5. ASSUME NEW w \in Workers, WorkerLs(w) PROVE AnswerInv'
  <2> DEFINE e == wentry[w]
             answer == world.ls[e.path]
             main == MainProgram(world, Len(world.input), e.path)
  <2>1. /\ wpc[w] = "ls" /\ wpc'[w] = "sub" /\ UNCHANGED wentry
        /\ world.shallow \/ world.narinfo[e.path] = "ok"
        /\ \A v \in Workers \ {w} : wpc'[v] = wpc[v] /\ witem'[v] = witem[v]
        /\ witem'[w] = IF answer = "ok" THEN MakeItem(e, Tree)
                       ELSE IF answer = "not_found" THEN MakeItem(e, SyntheticBody(e))
                       ELSE NoItem
    BY <1>5 DEF WorkerLs, ListingInv, TypeOK
  <2>2. CASE answer \in {"ok", "not_found"}
    <3>1. /\ answer = "ok" => Tree = Body(world, e.path, EffectiveProgram(e))
          /\ answer = "not_found" => SyntheticBody(e) = Body(world, e.path, EffectiveProgram(e))
      BY <2>1 DEF SyntheticBody, Body
    <3>2. witem'[w] = Listing(world, e.path)
      BY <2>1, <2>2, <3>1, <1>busy, MadeItemIsListing
    <3>3. QED
      BY <2>1, <3>2, <1>made
  <2>3. CASE answer \notin {"ok", "not_found"}
    <3>1. Body(world, e.path, main) = NoItem
      BY <2>1, <2>3 DEF Body
    <3>2. Listing(world, e.path) = NoItem
      BY <3>1 DEF Listing
    <3>3. QED
      BY <2>1, <2>3, <3>2, <1>made
  <2>4. QED
    BY <2>2, <2>3
<1>6. ASSUME NEW w \in Workers, WorkerSend(w) PROVE AnswerInv'
  <2>1. /\ wpc'[w] = "idle" /\ witem'[w] = NoItem
        /\ \A v \in Workers \ {w} :
             wpc'[v] = wpc[v] /\ wentry'[v] = wentry[v] /\ witem'[v] = witem[v]
    BY <1>6 DEF WorkerSend, TypeOK
  <2>2. QED
    BY <2>1, <1>old, <1>new DEF Phases, Tails
<1>7. QED
  BY <1>1, <1>2, <1>3, <1>4, <1>5, <1>6
     DEF Next, Feeder, FeederRecv, FeederCount, FeederExtend, FeederFlag, FeederWake,
     Dispatcher, DispatcherPop, DispatcherReadFlag, DispatcherReadCount, DispatcherWake,
     Worker, Receive, ReceiveEnd, DropReceiver, Terminated, vars

-----------------------------------------------------------------------------
(***************************************************************************)
(* Nothing is lost.  While the build listens, a path that has been seen    *)
(* stays in some place until its listing is with the build, unless it has  *)
(* no listing.                                                             *)
(***************************************************************************)
Placed == AheadPaths \cup BusyPaths \cup SentPaths

NothingLost ==
  stream # "dropped" => \A p \in seen : p \in Placed \/ Listing(world, p) = NoItem

LEMMA PlacesKept ==
  ASSUME TypeOK, AnswerInv, [Next]_vars, stream' # "dropped",
         NEW p \in Placed \cup (seen' \ seen), Listing(world, p) # NoItem
  PROVE  p \in Placed'
<1> USE DEF feederVars, dispatcherVars, workerVars, consumerVars
<1>p. \/ p \in PathsIn(roots) \/ p \in PathsIn(queue) \/ p \in HeldPaths \/ p \in AddedPaths
      \/ p \in BusyPaths \/ p \in PathsIn(out) \/ p \in PathsIn(received) \/ p \in seen' \ seen
  BY DEF Placed, AheadPaths, SentPaths
<1>placed. \/ p \in PathsIn(roots') \/ p \in PathsIn(queue') \/ p \in HeldPaths'
           \/ p \in AddedPaths' \/ p \in BusyPaths'
           \/ p \in PathsIn(out') \/ p \in PathsIn(received')
           => p \in Placed'
  BY DEF Placed, AheadPaths, SentPaths
<1>held. UNCHANGED <<dpc, dentry>> => HeldPaths' = HeldPaths
  BY DEF HeldPaths
<1>tasks. /\ UNCHANGED <<wpc, wref>> => AddedPaths' = AddedPaths
          /\ UNCHANGED <<wpc, wentry>> => BusyPaths' = BusyPaths
  BY DEF AddedPaths, BusyPaths
<1>1. CASE FeederRecv
  <2> DEFINE e == world.input[fed + 1]
             new == [path |-> e.path, program |-> e.program, toplevel |-> TRUE]
  <2>1. /\ new \in Entry /\ new.path = e.path
    BY <1>1, InputFacts DEF FeederRecv, TypeOK, Entry
  <2>2. /\ UNCHANGED <<queue, out, received, dpc, dentry, wpc, wref, wentry>>
        /\ seen' = seen \cup {e.path}
        /\ roots' = IF e.path \in seen THEN roots ELSE Append(roots, new)
    BY <1>1 DEF FeederRecv
  <2>3. PathsIn(roots') = IF e.path \in seen THEN PathsIn(roots)
                          ELSE PathsIn(roots) \cup {e.path}
    BY <2>1, <2>2, PathsInSequences DEF TypeOK
  <2> HIDE DEF e, new
  <2>4. QED
    BY <2>2, <2>3, <1>p, <1>placed, <1>held, <1>tasks
<1>2. CASE FeederExtend
  <2>1. /\ UNCHANGED <<seen, out, received, dpc, dentry, wpc, wref, wentry>>
        /\ PathsIn(queue') = PathsIn(queue) \cup PathsIn(roots)
    BY <1>2, PathsInSequences DEF FeederExtend, TypeOK
  <2>2. QED
    BY <2>1, <1>p, <1>placed, <1>held, <1>tasks
<1>3. CASE DispatcherPop
  <2>1. UNCHANGED <<seen, roots, out, received, wpc, wref, wentry>>
    BY <1>3 DEF DispatcherPop
  <2>2. CASE queue = << >>
    <3>1. UNCHANGED queue /\ HeldPaths' = HeldPaths
      BY <1>3, <2>2 DEF DispatcherPop, HeldPaths
    <3>2. QED
      BY <2>1, <3>1, <1>p, <1>placed, <1>tasks
  <2>3. CASE queue # << >>
    <3>1. PathsIn(queue) = PathsIn(queue') \cup {dentry'.path}
      BY <1>3, <2>3, PathsInSequences DEF DispatcherPop, TypeOK
    <3>2. HeldPaths = {} /\ HeldPaths' = {dentry'.path}
      BY <1>3, <2>3 DEF DispatcherPop, HeldPaths
    <3>3. QED
      BY <2>1, <3>1, <3>2, <1>p, <1>placed, <1>tasks
  <2>4. QED
    BY <2>2, <2>3
<1>4. ASSUME NEW w \in Workers, DispatcherSpawn(w) PROVE p \in Placed'
  <2>1. /\ UNCHANGED <<seen, roots, queue, out, received, wref>>
        /\ HeldPaths = {dentry.path}
    BY <1>4 DEF DispatcherSpawn, HeldPaths
  <2>2. /\ wpc[w] = "idle" /\ wpc'[w] # "idle" /\ wentry'[w] = dentry
        /\ \A v \in Workers \ {w} : wpc'[v] = wpc[v] /\ wentry'[v] = wentry[v]
    BY <1>4 DEF DispatcherSpawn, TypeOK
  <2>3. AddedPaths \subseteq AddedPaths'
    BY <2>1, <2>2 DEF AddedPaths
  <2>4. BusyPaths \subseteq BusyPaths' /\ dentry.path \in BusyPaths'
    BY <2>2 DEF BusyPaths, Busy
  <2>5. QED
    BY <2>1, <2>3, <2>4, <1>p, <1>placed
<1>5. ASSUME NEW w \in Workers, NEW r \in Paths, WorkerLookup(w, r) PROVE p \in Placed'
  <2>1. /\ UNCHANGED <<roots, queue, out, received, dpc, dentry, wentry>>
        /\ wpc[w] = "refs" /\ wpc'[w] # "idle" /\ seen' = seen \cup {r}
        /\ \A v \in Workers \ {w} : wpc'[v] = wpc[v] /\ wref'[v] = wref[v]
        /\ r \notin seen => wpc'[w] = "add" /\ wref'[w] = r
    BY <1>5 DEF WorkerLookup, TypeOK
  <2>2. BusyPaths' = BusyPaths
    BY <2>1 DEF BusyPaths, Busy
  <2>3. AddedPaths \subseteq AddedPaths' /\ (r \notin seen => r \in AddedPaths')
    BY <2>1 DEF AddedPaths
  <2>4. QED
    BY <2>1, <2>2, <2>3, <1>p, <1>placed, <1>held
<1>6. ASSUME NEW w \in Workers, WorkerPush(w) PROVE p \in Placed'
  <2> DEFINE new == [path |-> wref[w], program |-> NoProgram, toplevel |-> FALSE]
  <2>1. /\ new \in Entry /\ new.path = wref[w] /\ queue' = Append(queue, new)
        /\ UNCHANGED <<seen, roots, out, received, dpc, dentry, wentry>>
        /\ wpc[w] = "push" /\ wpc'[w] = "notify"
        /\ \A v \in Workers \ {w} : wpc'[v] = wpc[v] /\ wref'[v] = wref[v]
    BY <1>6 DEF WorkerPush, TypeOK, Entry
  <2>2. AddedPaths \subseteq AddedPaths' \cup {wref[w]}
    BY <2>1 DEF AddedPaths
  <2>3. BusyPaths' = BusyPaths
    BY <2>1 DEF BusyPaths, Busy
  <2>4. PathsIn(queue') = PathsIn(queue) \cup {wref[w]}
    BY <2>1, PathsInSequences DEF TypeOK
  <2>5. QED
    BY <2>1, <2>2, <2>3, <2>4, <1>p, <1>placed, <1>held
<1>7. ASSUME NEW w \in Workers, \/ WorkerNarinfo(w) \/ WorkerCount(w) \/ WorkerNotify(w)
                                \/ WorkerRefsDone(w) \/ WorkerLs(w) \/ WorkerSub(w)
                                \/ WorkerWake(w)
      PROVE  p \in Placed'
  <2>1. /\ UNCHANGED <<seen, roots, queue, out, received, dpc, dentry, wref, wentry>>
        /\ wpc[w] # "idle" /\ wpc'[w] # "idle" /\ (wpc[w] = "add" => wpc'[w] = "push")
        /\ wpc[w] # "push" /\ \A v \in Workers \ {w} : wpc'[v] = wpc[v]
    BY <1>7 DEF WorkerNarinfo, WorkerCount, WorkerNotify, WorkerRefsDone, WorkerLs,
       WorkerSub, WorkerWake, TypeOK
  <2>2. AddedPaths \subseteq AddedPaths' /\ BusyPaths \subseteq BusyPaths'
    BY <2>1 DEF AddedPaths, BusyPaths, Busy
  <2>3. QED
    BY <2>1, <2>2, <1>p, <1>placed, <1>held
<1>8. ASSUME NEW w \in Workers, WorkerSend(w) PROVE p \in Placed'
  <2>1. /\ UNCHANGED <<seen, roots, queue, received, dpc, dentry, wref, stream>>
        /\ wpc[w] = "send" /\ \A v \in Workers \ {w} : wpc'[v] = wpc[v] /\ wentry'[v] = wentry[v]
    BY <1>8 DEF WorkerSend, TypeOK
  <2>2. AddedPaths \subseteq AddedPaths'
    BY <2>1 DEF AddedPaths
  <2>3. BusyPaths \subseteq BusyPaths' \cup {wentry[w].path}
    BY <2>1 DEF BusyPaths
  <2>4. CASE witem[w] = NoItem
    <3>1. UNCHANGED out /\ p # wentry[w].path
      BY <1>8, <2>1, <2>4 DEF WorkerSend, AnswerInv, Tails
    <3>2. QED
      BY <2>1, <2>2, <2>3, <3>1, <1>p, <1>placed, <1>held
  <2>5. CASE witem[w] # NoItem
    <3>1. out' = Append(out, witem[w]) /\ witem[w] \in Item
      BY <1>8, <2>1, <2>5 DEF WorkerSend, TypeOK
    <3>2. witem[w].path = wentry[w].path
      BY <2>1, <2>5, ListingPath DEF AnswerInv, Tails
    <3>3. PathsIn(out') = PathsIn(out) \cup {wentry[w].path}
      BY <3>1, <3>2, PathsInAny DEF TypeOK
    <3>4. QED
      BY <2>1, <2>2, <2>3, <3>3, <1>p, <1>placed, <1>held
  <2>6. QED
    BY <2>4, <2>5
<1>9. CASE Receive
  <2>1. /\ UNCHANGED <<seen, roots, queue, dpc, dentry, wpc, wref, wentry>>
        /\ out # << >> /\ out' = Tail(out) /\ received' = Append(received, Head(out))
        /\ Head(out) \in Item
    BY <1>9, HeadTailProperties DEF Receive, TypeOK
  <2>2. /\ PathsIn(out) = PathsIn(out') \cup {Head(out).path}
        /\ PathsIn(received') = PathsIn(received) \cup {Head(out).path}
    BY <2>1, PathsInAny DEF TypeOK
  <2>3. QED
    BY <2>1, <2>2, <1>p, <1>placed, <1>held, <1>tasks
<1>10. CASE DropReceiver
  BY <1>10 DEF DropReceiver
<1>11. CASE FeederCount \/ FeederFlag \/ FeederWake \/ DispatcherReadFlag
            \/ DispatcherReadCount \/ DispatcherWake \/ ReceiveEnd \/ UNCHANGED vars
  <2>1. /\ UNCHANGED <<seen, roots, queue, out, received, wpc, wref, wentry>>
        /\ HeldPaths' = HeldPaths
    BY <1>11 DEF FeederCount, FeederFlag, FeederWake, DispatcherReadFlag,
       DispatcherReadCount, DispatcherWake, ReceiveEnd, vars, HeldPaths
  <2>2. QED
    BY <2>1, <1>p, <1>placed, <1>tasks
<1>12. QED
  BY <1>1, <1>2, <1>3, <1>4, <1>5, <1>6, <1>7, <1>8, <1>9, <1>10, <1>11
     DEF Next, Feeder, Dispatcher, Worker, Terminated

LEMMA LostStep ==
  ASSUME TypeOK, AnswerInv, NothingLost, [Next]_vars
  PROVE  NothingLost'
<1>0. UNCHANGED world /\ (stream' # "dropped" => stream # "dropped")
  BY DEF Next, Feeder, FeederRecv, FeederCount, FeederExtend, FeederFlag, FeederWake,
     Dispatcher, DispatcherPop, DispatcherSpawn, DispatcherReadFlag, DispatcherReadCount,
     DispatcherWake, Worker, WorkerNarinfo, WorkerLookup, WorkerCount, WorkerPush,
     WorkerNotify, WorkerRefsDone, WorkerLs, WorkerSub, WorkerWake, WorkerSend, Receive,
     ReceiveEnd, DropReceiver, Terminated, vars, consumerVars
<1>1. \A p : Listing(world, p)' = Listing(world, p)
  BY <1>0 DEF Listing, Body, MainProgram, NamesProgram, RootPaths
<1>2. ASSUME stream' # "dropped", NEW p \in seen', Listing(world, p) # NoItem
      PROVE  p \in Placed'
  <2>1. p \in Placed \cup (seen' \ seen)
    BY <1>0, <1>2 DEF NothingLost
  <2>2. QED
    BY <1>2, <2>1, PlacesKept
<1>3. QED
  BY <1>1, <1>2 DEF NothingLost

-----------------------------------------------------------------------------
(***************************************************************************)
(* fetch_listings implements the safety part of its promise.               *)
(***************************************************************************)
PromiseInv ==
  /\ FetchInv /\ ProgramInv /\ LabelInv /\ ListingInv /\ AnswerInv
  /\ OnceInv /\ NothingLost

LEMMA PromiseInvariance == Spec => []PromiseInv
<1>1. Init => PromiseInv
  <2>1. Init => NothingLost
    BY DEF Init, NothingLost
  <2>2. QED
    BY <2>1, InitTypeOK, InitInFlight, InitShutdown, InitSeen, InitLabels, InitAnswer,
       InitOnce DEF FetchInv, PromiseInv
<1>2. PromiseInv /\ [Next]_vars => PromiseInv'
  BY TypeStep, InFlightStep, ShutdownStep, SeenStep, ProgramStep, LabelStep, ListingStep,
     AnswerStep, OnceStep, LostStep DEF FetchInv, PromiseInv
<1>3. QED
  BY <1>1, <1>2, PTL DEF Spec

\* The build has a listing as soon as it has one of the same path.
LEMMA ReceivedByPath ==
  ASSUME PromiseInv, NEW item \in Wanted[world],
         item.path \in PathsIn(received)
  PROVE  \E i \in DOMAIN received : received[i] = item
<1>0. world \in Worlds /\ Wanted[world] = Listings(world)
  BY DEF PromiseInv, FetchInv, TypeOK, Wanted
<1>1. PICK i \in 1..Len(received) : received[i].path = item.path
  BY DEF PathsIn
<1>2. i \in DOMAIN received /\ received[i] \in Wanted[world]
  BY <1>1, LenProperties, ElementOfSeq DEF PromiseInv, ListingInv
<1>3. \A x \in Wanted[world] : x = Listing(world, x.path)
  BY <1>0, ListingPath DEF Listings
<1>4. QED
  BY <1>1, <1>2, <1>3

LEMMA ReceiveDelivers ==
  ASSUME PromiseInv, Receive
  PROVE  Abstract!DeliverSome
<1> DEFINE h == Head(out)
<1>1. /\ stream = "open" /\ received' = Append(received, h) /\ UNCHANGED <<world, stream>>
      /\ out # << >>
  BY DEF Receive
<1>2. h \in Wanted[world] /\ h.path \in PathsIn(out)
  BY <1>1, HeadTailProperties, PathsInAny DEF PromiseInv, ListingInv
<1>3. h.path \notin PathsIn(received)
  BY <1>2 DEF PromiseInv, OnceInv
<1>4. \A i \in DOMAIN received : received[i] # h
  BY <1>3, LenProperties DEF PathsIn, PromiseInv, FetchInv, TypeOK
<1>5. Abstract!Deliver(h)
  BY <1>1, <1>2, <1>4, AbstractWanted DEF Abstract!Deliver, Abstract!IsDelivered
<1>6. QED
  BY <1>2, <1>5, AbstractWanted DEF Abstract!DeliverSome

LEMMA ReceiveEndEnds ==
  ASSUME PromiseInv, ReceiveEnd
  PROVE  Abstract!End
<1>1. /\ stream = "open" /\ out = << >> /\ dpc = "gone" /\ \A w \in Workers : wpc[w] = "idle"
      /\ stream' = "ended" /\ UNCHANGED <<world, received>>
  BY DEF ReceiveEnd, SendersGone
<1>2. queue = << >> /\ seen = Closure(world) /\ roots = << >> /\ world \in Worlds
  BY <1>1, ShutdownIsComplete
     DEF PromiseInv, FetchInv, NoEarlyClose, ShutdownInv, ClosureOf, TypeOK
<1>3. Placed \subseteq PathsIn(received)
  BY <1>1, <1>2, PathsInSequences
     DEF Placed, AheadPaths, SentPaths, HeldPaths, AddedPaths, BusyPaths, Busy
<1>4. ASSUME NEW item \in Wanted[world]
      PROVE  \E i \in DOMAIN received : received[i] = item
  <2>1. PICK p \in Closure(world) : item = Listing(world, p) /\ item # NoItem
    BY <1>2 DEF Wanted, Listings
  <2>2. item.path = p /\ p \in Placed
    BY <1>1, <1>2, <2>1, ListingPath DEF PromiseInv, NothingLost
  <2>3. QED
    BY <1>1, <1>3, <2>2, ReceivedByPath
<1>5. QED
  BY <1>1, <1>4, AbstractWanted DEF Abstract!End, Abstract!IsDelivered

\* fetch_listings keeps the safety part of its promise: each step is one the
\* abstract stream allows or changes nothing the build sees, so the build gets
\* each listing of the closure at most once, nothing else, and the end of the
\* stream only after it has got them all.
THEOREM KeepsPromise == Spec => Abstract!Init /\ [][Abstract!Next]_Abstract!vars
<1>1. Init => Abstract!Init
  BY DEF Init, Abstract!Init
<1>2. PromiseInv /\ [Next]_vars => [Abstract!Next]_Abstract!vars
  <2> SUFFICES ASSUME PromiseInv, [Next]_vars
               PROVE  Abstract!Next \/ UNCHANGED <<world, received, stream>>
    BY DEF Abstract!vars
  <2> USE DEF feederVars, dispatcherVars, workerVars, consumerVars
  <2>1. CASE Receive
    BY <2>1, ReceiveDelivers DEF Abstract!Next
  <2>2. CASE ReceiveEnd
    BY <2>2, ReceiveEndEnds DEF Abstract!Next
  <2>3. CASE DropReceiver
    BY <2>3 DEF DropReceiver, Abstract!Next, Abstract!Drop
  <2>4. CASE Feeder \/ Dispatcher \/ UNCHANGED vars
    BY <2>4 DEF Feeder, FeederRecv, FeederCount, FeederExtend, FeederFlag, FeederWake,
       Dispatcher, DispatcherPop, DispatcherSpawn, DispatcherReadFlag, DispatcherReadCount,
       DispatcherWake, vars
  <2>5. ASSUME NEW w \in Workers, Worker(w) PROVE UNCHANGED <<world, received, stream>>
    BY <2>5 DEF Worker, WorkerNarinfo, WorkerLookup, WorkerCount, WorkerPush, WorkerNotify,
       WorkerRefsDone, WorkerLs, WorkerSub, WorkerWake, WorkerSend
  <2>6. QED
    BY <2>1, <2>2, <2>3, <2>4, <2>5 DEF Next, Terminated
<1>3. QED
  BY <1>1, <1>2, PromiseInvariance, PTL DEF Spec

----------------------------------------------------------------------------
(***************************************************************************)
(* Arithmetic of the segments: they follow one another, none is empty, and *)
(* together they are the whole.                                            *)
(***************************************************************************)
LEMMA Division ==
  ASSUME NEW a \in Nat, NEW b \in Nat \ {0}
  PROVE  /\ a \div b \in Nat /\ a % b \in 0 .. b - 1
         /\ a = b * (a \div b) + (a % b)
  OBVIOUS

LEMMA Products ==
  ASSUME NEW a \in Nat, NEW b \in Nat
  PROVE  /\ a * b \in Nat
         /\ (a + 1) * b = a * b + b
  OBVIOUS

LEMMA Larger ==
  ASSUME NEW a \in Nat, NEW b \in Nat, NEW q \in Nat, a <= b
  PROVE  a * q <= b * q
  <1>1. PICK d \in Nat : b = a + d
    BY b - a \in Nat
  <1>2. b * q = a * q + d * q
    BY <1>1
  <1>3. d * q \in Nat /\ a * q \in Nat
    BY Products, <1>1
  <1>. QED  BY <1>2, <1>3

LEMMA Quotient ==
  ASSUME NEW a \in Nat, NEW b \in Nat \ {0}
  PROVE  b <= a => a \div b >= 1
  BY Division

LEMMA Counting ==
  ASSUME NEW total \in Nat \ {0}
  PROVE  SegmentCount(total) \in 1 .. MaxConn /\ SegmentCount(total) <= total
<1>. DEFINE c == (total + MinSegment - 1) \div MinSegment
<1>1. c \in Nat /\ c >= 1
  <2>1. total + MinSegment - 1 \in Nat /\ MinSegment <= total + MinSegment - 1
    BY DownloadAssumption
  <2>. QED  BY <2>1, Division, Quotient, DownloadAssumption
<1>2. c <= total
  <2>. SUFFICES ASSUME c > total PROVE FALSE
    BY <1>1
  <2>. HIDE DEF c
  <2>1. MinSegment * c <= total + MinSegment - 1
    BY Division, DownloadAssumption, total + MinSegment - 1 \in Nat DEF c
  <2>2. (total + 1) * MinSegment <= c * MinSegment
    BY Larger, <1>1, DownloadAssumption
  <2>3. (total + 1) * MinSegment = total * MinSegment + MinSegment
    BY Products, DownloadAssumption
  <2>4. 1 * total <= MinSegment * total
    BY Larger, DownloadAssumption
  <2>5. total * MinSegment = MinSegment * total /\ c * MinSegment = MinSegment * c
    BY <1>1, DownloadAssumption
  <2>6. total * MinSegment \in Nat /\ MinSegment * c \in Nat
    BY <1>1, DownloadAssumption, Products, <2>5
  <2>. QED  BY <2>1, <2>2, <2>3, <2>4, <2>5, <2>6, DownloadAssumption
<1>. QED  BY <1>1, <1>2, DownloadAssumption DEF SegmentCount, Smaller

LEMMA Segments ==
  ASSUME NEW total \in Nat \ {0}
  PROVE  /\ SegmentStart(total, 0) = 0
         /\ SegmentStart(total, SegmentCount(total)) = total
         /\ \A i \in 0 .. SegmentCount(total) :
              SegmentStart(total, i) \in Nat /\ SegmentStart(total, i) <= total
         /\ \A i \in 0 .. SegmentCount(total) - 1 :
              SegmentStart(total, i) < SegmentStart(total, i + 1)
<1>. DEFINE n == SegmentCount(total)
            q == total \div n
            r == total % n
<1>1. n \in Nat \ {0} /\ n <= total
  BY Counting, DownloadAssumption
<1>. HIDE DEF n
<1>2. q \in Nat /\ r \in 0 .. n - 1 /\ total = n * q + r /\ q >= 1
  BY <1>1, Division, Quotient
<1>3. \A i : SegmentStart(total, i) = i * q + Smaller(i, r)
  BY DEF SegmentStart, n
<1>. HIDE DEF q, r
<1>4. \A i \in 0 .. n : i * q \in Nat /\ i * q <= n * q
  BY <1>1, <1>2, Larger, Products
<1>5. \A i \in 0 .. n : Smaller(i, r) \in Nat /\ Smaller(i, r) <= r
  BY <1>1, <1>2 DEF Smaller
<1>6. SegmentStart(total, 0) = 0
  BY <1>2, <1>3 DEF Smaller
<1>7. SegmentStart(total, n) = total
  BY <1>1, <1>2, <1>3 DEF Smaller
<1>8. ASSUME NEW i \in 0 .. n
      PROVE SegmentStart(total, i) \in Nat /\ SegmentStart(total, i) <= total
  <2>. DEFINE x == i * q  y == n * q  z == Smaller(i, r)
  <2>1. x \in Nat /\ y \in Nat /\ x <= y /\ z \in Nat /\ z <= r /\ total = y + r
    BY <1>1, <1>2, <1>4, <1>5
  <2>2. SegmentStart(total, i) = x + z
    BY <1>3
  <2>. HIDE DEF x, y, z
  <2>. QED  BY <2>1, <2>2, <1>2
<1>9. ASSUME NEW i \in 0 .. n - 1
      PROVE SegmentStart(total, i) < SegmentStart(total, i + 1)
  <2>. DEFINE x == i * q  y == (i + 1) * q
  <2>1. x \in Nat /\ y = x + q
    BY <1>1, <1>2, Products
  <2>2. Smaller(i, r) \in Nat /\ Smaller(i + 1, r) \in Nat /\ Smaller(i, r) <= Smaller(i + 1, r)
    BY <1>1, <1>2 DEF Smaller
  <2>3. SegmentStart(total, i) = x + Smaller(i, r) /\ SegmentStart(total, i + 1) = y + Smaller(i + 1, r)
    BY <1>3
  <2>. HIDE DEF x, y
  <2>. QED  BY <2>1, <2>2, <2>3, <1>2
<1>. QED  BY <1>1, <1>6, <1>7, <1>8, <1>9 DEF n
----------------------------------------------------------------------------
(***************************************************************************)
(* The inductive invariant.  In a segmented run the plan is of the index   *)
(* that was published when the run began, the attempts are those left, and *)
(* `step` is only used while parts are copied or removed.                  *)
(***************************************************************************)
Segmented == {"probe", "first", "check", "fetch", "concat", "tidy", "discard"}
Planning ==
  /\ pc \in Segmented => plan.total = asset[first].len /\ plan.tag = asset[first].tag
  /\ pc \in {"idle", "probe", "first"} => attempt = 0
  /\ pc \in {"check", "fetch"} => attempt <= MaxAttempts
  /\ pc \notin {"concat", "tidy", "discard"} => step = 0
  /\ step <= SegmentCount(plan.total)

(***************************************************************************)
(* A response that is written into a part stays inside its segment, and    *)
(* with tags it is of the planned index and reaches the end of it.         *)
(***************************************************************************)
Streams(response, i, file) ==
  /\ file # NoFile
  /\ SegmentStart(plan.total, i) + Len(file) <= response.end + 1
  /\ response.end <= SegmentEnd(plan.total, i)
  /\ response.end < asset[response.asset].len
  /\ Tagged => response.asset = first /\ response.end = SegmentEnd(plan.total, i)

(***************************************************************************)
(* The first part is of this run even when the others are leftovers.       *)
(***************************************************************************)
FirstPart ==
  /\ pc = "first" => Streams(body, 0, part[0])
  /\ pc \in {"check", "fetch", "concat"} =>
       /\ part[0] # NoFile /\ Len(part[0]) <= SegmentStart(plan.total, 1)
       /\ Tagged => Len(part[0]) = SegmentStart(plan.total, 1)
  /\ pc \in {"first", "check", "fetch", "concat"} /\ Tagged =>
       \A k \in DOMAIN part[0] : part[0][k] = <<first, k - 1>>

Tasks == \A i \in Index :
  /\ task[i].state # "none" => pc = "fetch" /\ i \in Planned \ {0}
  /\ task[i].state = "streaming" => Streams(task[i].body, i, part[i])

(***************************************************************************)
(* With tags and without leftovers every part is of the planned index, at  *)
(* its place there.                                                        *)
(***************************************************************************)
OfPlan(i, file) ==
  \/ file = NoFile
  \/ \A k \in DOMAIN file : file[k] = <<first, SegmentStart(plan.total, i) + k - 1>>
OwnParts ==
  pc \in {"probe", "first", "check", "fetch", "concat"} /\ clean /\ Tagged =>
    \A i \in Index : OfPlan(i, part[i])

Merging == pc = "concat" =>
  /\ tmp # NoFile
  /\ \A i \in Planned \ {0} :
       part[i] # NoFile /\ SegmentStart(plan.total, i) + Len(part[i]) = SegmentStart(plan.total, i + 1)
  /\ Len(tmp) <= SegmentStart(plan.total, step)
  /\ Tagged => /\ Len(tmp) = SegmentStart(plan.total, step)
               /\ step > 0 => Len(tmp) > 0 /\ tmp[1] = <<first, 0>>
  /\ Tagged /\ clean => \A k \in DOMAIN tmp : tmp[k] = <<first, k - 1>>

Serial == pc = "whole" =>
  /\ tmp # NoFile
  /\ body.asset \in first .. served /\ body.end = asset[body.asset].len - 1
  /\ Len(tmp) <= asset[body.asset].len
  /\ \A k \in DOMAIN tmp : tmp[k] = <<body.asset, k - 1>>

(***************************************************************************)
(* What goes on to be validated, and what is installed.                    *)
(***************************************************************************)
Merged ==
  /\ pc \in {"tidy", "validate", "rename"} =>
       /\ tmp # NoFile
       /\ Tagged => \E n \in first .. served : Len(tmp) = asset[n].len /\ tmp[1] = <<n, 0>>
       /\ Tagged /\ clean => \E n \in first .. served : tmp = Content(n)
  /\ pc = "rename" => HasHeader(tmp)
Installed == Tagged /\ dest # NoFile => HasHeader(dest) /\ Len(dest) = asset[dest[1][1]].len

(***************************************************************************)
(* Without an interruption the parts are those of the plan, and are gone   *)
(* when their removal has passed them.                                     *)
(***************************************************************************)
Leftovers == ~interrupted =>
  /\ pc \in {"idle", "probe", "serial", "whole", "validate", "rename", "done", "failed"} =>
       part = NoParts
  /\ pc \in Segmented => \A i \in Index \ Planned : part[i] = NoFile
  /\ pc \in {"tidy", "discard"} => \A i \in Index : i < step => part[i] = NoFile

IInv == /\ DownloadTypeOK /\ Planning /\ FirstPart /\ Tasks /\ OwnParts
        /\ Merging /\ Serial /\ Merged /\ Installed /\ Leftovers
----------------------------------------------------------------------------
LEMMA Server ==
  ASSUME DownloadTypeOK
  PROVE  /\ Published \subseteq Nat \ {0} /\ 1 \in Published /\ served \in Nat /\ first \in Nat
         /\ first .. served \subseteq Published
         /\ served \in first .. served /\ first \in first .. served
         /\ \A n \in Published : asset[n].len \in Nat \ {0}
         /\ \A n, k \in Published : asset[n].tag = asset[k].tag => n = k \/ asset[n].tag = NoTag
  BY DownloadAssumption DEF DownloadTypeOK, Published

LEMMA Files ==
  ASSUME DownloadTypeOK
  PROVE  /\ << >> \in File /\ << >> # NoFile
         /\ \A file \in File : file # NoFile =>
              file \in Seq(Published \X Nat) /\ Len(file) \in Nat /\ DOMAIN file = 1 .. Len(file)
         /\ \A file \in Seq(Published \X Nat) : file \in File /\ file # NoFile
<1>1. Seq(Published \X Nat) \subseteq Seq(Nat \X Nat)
  BY Server
<1>2. NoFile \notin Seq(Published \X Nat)
  BY <1>1, DownloadAssumption
<1>3. \A file \in Seq(Published \X Nat) :
        file \in File /\ file # NoFile /\ Len(file) \in Nat /\ DOMAIN file = 1 .. Len(file)
  BY <1>2, LenProperties DEF File
<1>4. << >> \in Seq(Published \X Nat)
  OBVIOUS
<1>. QED  BY <1>3, <1>4 DEF File

LEMMA Plan ==
  ASSUME DownloadTypeOK
  PROVE  /\ MaxConn \in Nat /\ Index \subseteq Nat /\ 0 \in Planned /\ Planned \subseteq Index
         /\ SegmentCount(plan.total) \in Nat /\ SegmentCount(plan.total) <= MaxConn
         /\ \A i \in Planned : i \in Nat /\ i + 1 \in 0 .. SegmentCount(plan.total)
         /\ \A i \in 0 .. SegmentCount(plan.total) :
              /\ SegmentStart(plan.total, i) \in Nat
              /\ SegmentStart(plan.total, i) <= plan.total
         /\ \A i \in Planned : SegmentStart(plan.total, i) < SegmentStart(plan.total, i + 1)
         /\ \A i \in 0 .. SegmentCount(plan.total) : i \in Planned \/ i = SegmentCount(plan.total)
         /\ SegmentStart(plan.total, 0) = 0
         /\ SegmentStart(plan.total, SegmentCount(plan.total)) = plan.total
<1>. DEFINE n == SegmentCount(plan.total)
<1>1. plan.total \in Nat \ {0}
  BY DEF DownloadTypeOK
<1>2. n \in 1 .. MaxConn /\ MaxConn \in Nat
  BY <1>1, Counting, DownloadAssumption
<1>3. Planned = 0 .. n - 1 /\ Index = 0 .. MaxConn - 1
  BY DEF Planned, Index
<1>4. /\ SegmentStart(plan.total, 0) = 0 /\ SegmentStart(plan.total, n) = plan.total
      /\ \A i \in 0 .. n : SegmentStart(plan.total, i) \in Nat /\ SegmentStart(plan.total, i) <= plan.total
      /\ \A i \in 0 .. n - 1 : SegmentStart(plan.total, i) < SegmentStart(plan.total, i + 1)
  BY <1>1, Segments
<1>. HIDE DEF n
<1>5. \A i \in Planned : i \in Nat /\ i + 1 \in 0 .. n
  BY <1>2, <1>3
<1>6. \A i \in 0 .. n : i \in Planned \/ i = n
  BY <1>2, <1>3
<1>7. 0 \in Planned /\ Planned \subseteq Index /\ Index \subseteq Nat
  BY <1>2, <1>3
<1>. QED  BY <1>2, <1>3, <1>4, <1>5, <1>6, <1>7 DEF n

\* One more byte of a file.
LEMMA Appending ==
  ASSUME DownloadTypeOK, NEW file \in File, file # NoFile, NEW n \in Published, NEW k \in Nat
  PROVE  /\ Append(file, <<n, k>>) \in File /\ Append(file, <<n, k>>) # NoFile
         /\ Len(Append(file, <<n, k>>)) = Len(file) + 1 /\ Len(file) \in Nat
         /\ DOMAIN file = 1 .. Len(file)
         /\ DOMAIN Append(file, <<n, k>>) = 1 .. Len(file) + 1
         /\ \A j \in DOMAIN file : Append(file, <<n, k>>)[j] = file[j]
         /\ Append(file, <<n, k>>)[Len(file) + 1] = <<n, k>>
<1>1. file \in Seq(Published \X Nat) /\ <<n, k>> \in Published \X Nat
  BY Files
<1>2. Append(file, <<n, k>>) \in Seq(Published \X Nat)
  BY <1>1, AppendProperties
<1>3. \A j \in 1 .. Len(file) : Append(file, <<n, k>>)[j] = file[j]
  BY <1>1, AppendProperties
<1>4. Len(Append(file, <<n, k>>)) = Len(file) + 1 /\ Append(file, <<n, k>>)[Len(file) + 1] = <<n, k>>
  BY <1>1, AppendProperties
<1>5. Len(file) \in Nat /\ DOMAIN file = 1 .. Len(file)
  BY Files
<1>6. Append(file, <<n, k>>) \in File /\ Append(file, <<n, k>>) # NoFile
      /\ DOMAIN Append(file, <<n, k>>) = 1 .. Len(file) + 1
  BY <1>2, <1>4, Files
<1>. QED  BY <1>3, <1>4, <1>5, <1>6

\* A tag that the server still sends is that of the planned index.
LEMMA SameIndex ==
  ASSUME DownloadTypeOK, Planning, Tagged, pc \in Segmented, plan.tag \in {NoTag, asset[served].tag}
  PROVE  served = first
  BY Server DEF Planning, Tagged

\* What the server answers to a request for a segment.
LEMMA Answering ==
  ASSUME DownloadTypeOK, Planning, pc \in Segmented, NEW i \in Planned,
         HonorsRange(SegmentStart(plan.total, i)), NEW file, file = << >>
  PROVE  LET response == ResponseTo(SegmentEnd(plan.total, i)) IN
         response \in Response /\ Streams(response, i, file)
<1>. DEFINE b == SegmentStart(plan.total, i)  e == SegmentStart(plan.total, i + 1) - 1
            l == asset[served].len
<1>1. b \in Nat /\ e \in Nat /\ b <= e /\ e < plan.total /\ plan.total \in Nat
  <2>1. i \in Nat /\ i \in 0 .. SegmentCount(plan.total) /\ i + 1 \in 0 .. SegmentCount(plan.total)
    BY Plan
  <2>2. b \in Nat /\ e + 1 \in Nat /\ b < e + 1 /\ e + 1 <= plan.total /\ plan.total \in Nat
    <3>1. SegmentStart(plan.total, i + 1) \in Nat /\ SegmentStart(plan.total, i + 1) <= plan.total
      BY <2>1, Plan
    <3>2. b \in Nat /\ b < SegmentStart(plan.total, i + 1)
      BY <2>1, Plan
    <3>. QED  BY <3>1, <3>2 DEF DownloadTypeOK
  <2>3. e \in Int
    BY Plan, <2>1
  <2>. HIDE DEF b, e
  <2>. QED  BY <2>2, <2>3
<1>2. l \in Nat \ {0} /\ b < l /\ served \in Published
  BY Server DEF HonorsRange
<1>3. Tagged => served = first /\ e < l
  BY <1>1, SameIndex DEF HonorsRange, Planning
<1>4. ResponseTo(SegmentEnd(plan.total, i)) = [asset |-> served, end |-> Smaller(e, l - 1)]
  BY DEF ResponseTo, SegmentEnd
<1>. HIDE DEF b, e, l
<1>5. /\ Smaller(e, l - 1) \in Nat /\ Smaller(e, l - 1) <= e /\ Smaller(e, l - 1) < l
      /\ b <= Smaller(e, l - 1) + 1 /\ (e < l => Smaller(e, l - 1) = e)
  BY <1>1, <1>2 DEF Smaller
<1>6. Len(file) = 0 /\ file # NoFile
  BY Files
<1>7. b = SegmentStart(plan.total, i) /\ e = SegmentEnd(plan.total, i) /\ l = asset[served].len
  BY DEF b, e, l, SegmentEnd
<1>. QED  BY <1>1, <1>2, <1>3, <1>4, <1>5, <1>6, <1>7 DEF Response, Streams
----------------------------------------------------------------------------
(***************************************************************************)
(* Every action keeps the invariant.                                       *)
(***************************************************************************)
LEMMA Start == DownloadInit => IInv
<1>. SUFFICES ASSUME DownloadInit PROVE IInv
  OBVIOUS
<1>1. DownloadTypeOK
  <2>1. Len(asset) \in Nat \ {0} /\ DOMAIN asset = 1 .. Len(asset)
    BY DownloadAssumption DEF DownloadInit
  <2>2. 1 \in Published
    BY <2>1 DEF Published
  <2>3. NoBody \in Response
    BY <2>2 DEF NoBody, Response
  <2>4. NoTasks \in [Index -> [state : {"none", "asked", "streaming", "ok", "transient", "changed"},
                              body : Response]]
    BY <2>3 DEF NoTasks
  <2>5. NoParts \in [Index -> File] /\ \A i \in Index : Fits(NoParts[i])
    BY DEF NoParts, File, Fits
  <2>6. faults \in 0 .. MaxFaults /\ attempt \in 0 .. MaxAttempts + 1 /\ step \in 0 .. MaxConn
        /\ first \in 1 .. served /\ plan.total \in Nat \ {0}
    BY DownloadAssumption DEF DownloadInit, NoPlan
  <2>. QED  BY <2>2, <2>3, <2>4, <2>5, <2>6 DEF DownloadTypeOK, DownloadInit, File, Fits
<1>2. Planning
  BY <1>1, Plan DEF Planning, DownloadInit, Segmented
<1>3. Tasks
  BY DEF Tasks, DownloadInit, NoTasks
<1>4. Leftovers
  BY <1>1 DEF Leftovers, DownloadInit, Segmented
<1>. QED  BY <1>1, <1>2, <1>3, <1>4
          DEF IInv, DownloadInit, FirstPart, OwnParts, Merging, Serial, Merged, Installed

LEMMA PublishKeeps == ASSUME IInv, Publish PROVE IInv'
<1>. USE DEF IInv
<1>1. served' = served + 1 /\ served \in Nat /\ served < Len(asset) /\ served' \in Published
      /\ UNCHANGED <<asset, faults, disk, pc, local, history>>
  BY Server, DownloadAssumption DEF Publish, Published, DownloadTypeOK
<1>2. first .. served \subseteq first .. served' /\ first \in 1 .. served'
  BY <1>1, Server DEF history, DownloadTypeOK
<1>3. DownloadTypeOK'
  BY <1>1, <1>2 DEF DownloadTypeOK, disk, local, history, File, Fits, Response, Published
<1>4. Planning' /\ FirstPart' /\ Tasks' /\ OwnParts' /\ Merging' /\ Installed' /\ Leftovers'
  BY <1>1 DEF disk, local, history, Planning, FirstPart, Tasks, OwnParts, OfPlan, Merging,
     Installed, Leftovers, Streams, Tagged, Published, Planned, HasHeader
<1>5. Serial' /\ Merged'
  BY <1>1, <1>2 DEF disk, local, history, Serial, Merged, Tagged, Published, HasHeader, Content
<1>. QED  BY <1>3, <1>4, <1>5

LEMMA HeadRequestKeeps == ASSUME IInv, HeadRequest PROVE IInv'
<1>. USE DEF IInv
<1>1. /\ pc = "idle" /\ first' = served /\ clean' = (part = NoParts)
      /\ UNCHANGED <<asset, served, tmp, part, dest, attempt, body, task, step, interrupted>>
      /\ faults' \in 0 .. MaxFaults
  BY DownloadAssumption DEF HeadRequest, Fault, server, disk, DownloadTypeOK
<1>2. \/ /\ plan' = [total |-> asset[served].len, tag |-> asset[served].tag]
         /\ pc' \in {"serial", "probe"}
      \/ pc' = "serial" /\ plan' = plan
  BY DEF HeadRequest
<1>3. DownloadTypeOK'
  <2>1. plan'.total \in Nat \ {0}
    BY <1>2, Server DEF DownloadTypeOK
  <2>2. first' \in 1 .. served'
    BY <1>1, Server
  <2>. QED  BY <1>1, <1>2, <2>1, <2>2 DEF DownloadTypeOK, File, Fits, Response, Published
<1>4. Planning'
  <2>1. step' = 0 /\ 0 <= SegmentCount(plan'.total)
    <3>1. plan'.total \in Nat \ {0}
      BY <1>3 DEF DownloadTypeOK
    <3>2. SegmentCount(plan'.total) \in 1 .. MaxConn
      BY <3>1, Counting
    <3>. QED  BY <1>1, <3>2, DownloadAssumption DEF Planning
  <2>. QED  BY <1>1, <1>2, <2>1 DEF Planning, Segmented
<1>5. FirstPart' /\ Merging' /\ Serial' /\ Merged'
  BY <1>1, <1>2 DEF FirstPart, Merging, Serial, Merged
<1>6. Tasks' /\ Installed'
  BY <1>1, <1>2 DEF Tasks, Installed, Tagged, Published, HasHeader
<1>7. OwnParts'
  BY <1>1, <1>2 DEF OwnParts, OfPlan, NoParts
<1>8. Leftovers'
  BY <1>1, <1>2 DEF Leftovers, NoParts, Index
<1>. QED  BY <1>3, <1>4, <1>5, <1>6, <1>7, <1>8

LEMMA ProbeKeeps == ASSUME IInv, Probe PROVE IInv'
<1>. USE DEF IInv
<1>1. /\ pc = "probe"
      /\ UNCHANGED <<asset, served, tmp, dest, plan, attempt, task, step, first, clean, interrupted>>
      /\ faults' \in 0 .. MaxFaults
  BY DownloadAssumption DEF Probe, Fault, server, history, DownloadTypeOK
<1>2. CASE pc' = "serial" /\ UNCHANGED <<part, body>>
  <2>1. DownloadTypeOK' /\ Planning'
    BY <1>1, <1>2 DEF DownloadTypeOK, File, Fits, Response, Published, Planning, Segmented
  <2>2. FirstPart' /\ Tasks' /\ OwnParts' /\ Merging' /\ Serial' /\ Merged' /\ Installed'
    BY <1>1, <1>2 DEF FirstPart, Tasks, OwnParts, Merging, Serial, Merged, Installed,
       Tagged, Published, HasHeader
  <2>3. Leftovers'
    BY <1>1, <1>2 DEF Leftovers, Segmented, NoParts, Index
  <2>. QED  BY <2>1, <2>2, <2>3
<1>3. CASE /\ HonorsRange(0) /\ part' = [part EXCEPT ![0] = << >>] /\ pc' = "first"
           /\ body' = ResponseTo(SegmentEnd(plan.total, 0))
  <2>1. 0 \in Planned /\ 0 \in Index /\ SegmentStart(plan.total, 0) = 0
    BY Plan
  <2>2. body' \in Response /\ part'[0] = << >> /\ Streams(body', 0, part'[0])
    BY <1>1, <1>3, <2>1, Answering DEF Segmented, DownloadTypeOK
  <2>3. DownloadTypeOK'
    <3>1. part' \in [Index -> File]
      BY <1>3, <2>1, Files DEF DownloadTypeOK
    <3>2. \A i \in Index : Fits(part'[i])
      BY <1>3, Server DEF DownloadTypeOK, Fits
    <3>. QED  BY <1>1, <1>3, <2>2, <3>1, <3>2 DEF DownloadTypeOK, File, Fits, Response, Published
  <2>4. Planning'
    BY <1>1, <1>3 DEF Planning, Segmented
  <2>5. FirstPart'
    BY <1>1, <1>3, <2>2 DEF FirstPart, Streams, Tagged, Published
  <2>6. Tasks' /\ Installed'
    BY <1>1, <1>3 DEF Tasks, Installed, Tagged, Published, HasHeader
  <2>7. OwnParts'
    BY <1>1, <1>3, <2>1 DEF OwnParts, OfPlan, Tagged, Published, DownloadTypeOK
  <2>8. Merging' /\ Serial' /\ Merged'
    BY <1>3 DEF Merging, Serial, Merged
  <2>9. Leftovers'
    BY <1>1, <1>3, <2>1 DEF Leftovers, Segmented, Planned, DownloadTypeOK
  <2>. QED  BY <2>3, <2>4, <2>5, <2>6, <2>7, <2>8, <2>9
<1>. QED  BY <1>2, <1>3 DEF Probe

LEMMA StreamFirstKeeps == ASSUME IInv, StreamFirst PROVE IInv'
<1>. USE DEF IInv
<1>1. /\ pc = "first" /\ 0 \in Planned /\ 0 \in Index /\ SegmentStart(plan.total, 0) = 0
      /\ UNCHANGED <<asset, served, tmp, dest, plan, attempt, task, step, first, clean>>
  BY Plan DEF StreamFirst, server
<1>2. /\ part[0] \in File /\ part[0] # NoFile /\ Len(part[0]) \in Nat
      /\ body.end \in Nat /\ body.asset \in Published /\ attempt = 0 /\ step = 0
      /\ Len(part[0]) <= body.end + 1 /\ body.end < asset[body.asset].len
      /\ Tagged => body.asset = first
  BY <1>1, Files DEF FirstPart, Streams, DownloadTypeOK, Response, Planning
<1>3. CASE /\ Len(part[0]) <= body.end /\ UNCHANGED <<pc, faults, body, interrupted>>
           /\ part' = [part EXCEPT ![0] = Append(@, <<body.asset, Len(@)>>)]
  <2>. DEFINE file == Append(part[0], <<body.asset, Len(part[0])>>)
  <2>1. /\ file \in File /\ file # NoFile /\ Len(file) = Len(part[0]) + 1
        /\ DOMAIN part[0] = 1 .. Len(part[0]) /\ DOMAIN file = 1 .. Len(part[0]) + 1
        /\ \A k \in DOMAIN part[0] : file[k] = part[0][k]
        /\ file[Len(part[0]) + 1] = <<body.asset, Len(part[0])>>
    BY <1>2, Appending
  <2>. HIDE DEF file
  <2>2. /\ part'[0] = file /\ \A i \in Index : i # 0 => part'[i] = part[i]
        /\ part' \in [Index -> File]
    BY <1>1, <1>3, <2>1 DEF DownloadTypeOK, file
  <2>3. Fits(file)
    BY <1>2, <1>3, <2>1, Server DEF Fits
  <2>4. DownloadTypeOK'
    BY <1>1, <1>3, <2>2, <2>3 DEF DownloadTypeOK, File, Fits, Response, Published
  <2>5. Planning'
    BY <1>1, <1>3 DEF Planning
  <2>6. FirstPart'
    <3>1. Streams(body, 0, file)
      BY <1>1, <1>2, <1>3, <2>1 DEF FirstPart, Streams
    <3>2. ASSUME Tagged, NEW k \in DOMAIN file PROVE file[k] = <<first, k - 1>>
      <4>1. CASE k \in DOMAIN part[0]
        BY <1>1, <2>1, <3>2, <4>1 DEF FirstPart
      <4>2. CASE k = Len(part[0]) + 1
        BY <1>2, <2>1, <3>2, <4>2
      <4>. QED  BY <1>2, <2>1, <4>1, <4>2
    <3>. QED  BY <1>1, <1>3, <2>2, <3>1, <3>2 DEF FirstPart, Streams, Tagged, Published
  <2>7. Tasks'
    BY <1>1, <1>3 DEF Tasks
  <2>8. OwnParts'
    <3>1. Tagged => OfPlan(0, file)
      <4>. SUFFICES ASSUME Tagged, NEW k \in DOMAIN file PROVE file[k] = <<first, 0 + k - 1>>
        BY <1>1 DEF OfPlan
      <4>1. file[k] = <<first, k - 1>> /\ k \in Nat
        BY <1>1, <1>2, <1>3, <2>1, <2>2, <2>6 DEF FirstPart, Tagged, Published
      <4>. QED  BY <4>1
    <3>. QED  BY <1>1, <1>3, <2>2, <3>1 DEF OwnParts, OfPlan, Tagged, Published
  <2>9. Merging' /\ Serial' /\ Merged' /\ Installed'
    BY <1>1, <1>3 DEF Merging, Serial, Merged, Installed, Tagged, Published, HasHeader
  <2>10. Leftovers'
    BY <1>1, <1>3, <2>2 DEF Leftovers, Segmented, Planned
  <2>. QED  BY <2>4, <2>5, <2>6, <2>7, <2>8, <2>9, <2>10
<1>4. CASE Len(part[0]) > body.end /\ pc' = "check" /\ body' = NoBody
           /\ UNCHANGED <<part, faults, interrupted>>
  <2>1. Len(part[0]) = body.end + 1
    BY <1>2, <1>4
  <2>2. /\ Len(part[0]) <= SegmentStart(plan.total, 1)
        /\ Tagged => Len(part[0]) = SegmentStart(plan.total, 1)
    <3>1. 0 + 1 = 1 /\ SegmentStart(plan.total, 0 + 1) \in Nat
      BY <1>1, Plan
    <3>. QED  BY <1>1, <1>2, <2>1, <3>1 DEF FirstPart, Streams, SegmentEnd
  <2>3. NoBody \in Response
    BY Server DEF NoBody, Response
  <2>4. DownloadTypeOK'
    BY <1>1, <1>4, <2>3 DEF DownloadTypeOK, File, Fits, Response, Published
  <2>5. Planning'
    BY <1>1, <1>2, <1>4, DownloadAssumption DEF Planning, Segmented
  <2>6. FirstPart'
    BY <1>1, <1>2, <1>4, <2>2 DEF FirstPart, Tagged, Published
  <2>7. Tasks' /\ OwnParts' /\ Merging' /\ Serial' /\ Merged' /\ Installed'
    BY <1>1, <1>4 DEF Tasks, OwnParts, OfPlan, Merging, Serial, Merged, Installed,
       Tagged, Published, HasHeader
  <2>8. Leftovers'
    BY <1>1, <1>4 DEF Leftovers, Segmented, Planned
  <2>. QED  BY <2>4, <2>5, <2>6, <2>7, <2>8
<1>5. CASE Fault /\ pc' = "serial" /\ body' = NoBody /\ interrupted' = TRUE /\ UNCHANGED part
  <2>1. NoBody \in Response /\ faults' \in 0 .. MaxFaults
    BY <1>5, Server, DownloadAssumption DEF NoBody, Response, Fault, DownloadTypeOK
  <2>2. DownloadTypeOK'
    BY <1>1, <1>5, <2>1 DEF DownloadTypeOK, File, Fits, Response, Published
  <2>3. Planning'
    BY <1>1, <1>2, <1>5 DEF Planning, Segmented
  <2>4. FirstPart' /\ Tasks' /\ OwnParts' /\ Merging' /\ Serial' /\ Merged' /\ Installed' /\ Leftovers'
    BY <1>1, <1>5 DEF FirstPart, Tasks, OwnParts, Merging, Serial, Merged, Installed, Leftovers,
       Tagged, Published, HasHeader
  <2>. QED  BY <2>2, <2>3, <2>4
<1>. QED  BY <1>3, <1>4, <1>5 DEF StreamFirst

LEMMA CheckKeeps == ASSUME IInv, Check PROVE IInv'
<1>. USE DEF IInv
<1>1. /\ pc = "check" /\ attempt' = attempt + 1 /\ attempt \in Nat /\ attempt <= MaxAttempts
      /\ MaxAttempts \in Nat /\ attempt' \in 0 .. MaxAttempts + 1 /\ step = 0
      /\ UNCHANGED <<asset, served, faults, part, dest, plan, body, step, first, clean, interrupted>>
  BY DownloadAssumption DEF Check, server, history, Planning, DownloadTypeOK
<1>2. CASE pc' = "discard" /\ UNCHANGED <<tmp, task>>
  <2>1. DownloadTypeOK' /\ Planning'
    BY <1>1, <1>2 DEF DownloadTypeOK, File, Fits, Response, Published, Planning, Segmented
  <2>2. FirstPart' /\ Tasks' /\ OwnParts' /\ Merging' /\ Serial' /\ Merged' /\ Installed'
    BY <1>1, <1>2 DEF FirstPart, Tasks, OwnParts, Merging, Serial, Merged, Installed,
       Tagged, Published, HasHeader
  <2>3. Leftovers'
    BY <1>1, <1>2 DEF Leftovers, Segmented, Planned, Index
  <2>. QED  BY <2>1, <2>2, <2>3
<1>3. CASE attempt' <= MaxAttempts /\ MissingSegments = {} /\ pc' = "concat" /\ tmp' = << >>
           /\ UNCHANGED task
  <2>1. << >> \in File /\ << >> # NoFile /\ Len(<< >>) = 0 /\ Fits(<< >>)
    BY Files, Server DEF Fits
  <2>2. DownloadTypeOK' /\ Planning'
    BY <1>1, <1>3, <2>1 DEF DownloadTypeOK, File, Fits, Response, Published, Planning, Segmented
  <2>3. FirstPart'
    BY <1>1, <1>3 DEF FirstPart, Tagged, Published
  <2>4. Merging'
    <3>1. ASSUME NEW i \in Planned \ {0}
          PROVE part[i] # NoFile
                /\ SegmentStart(plan.total, i) + Len(part[i]) = SegmentStart(plan.total, i + 1)
      <4>1. part[i] # NoFile
            /\ Len(part[i]) = SegmentEnd(plan.total, i) - SegmentStart(plan.total, i) + 1
        BY <1>3 DEF MissingSegments
      <4>2. /\ i \in 0 .. SegmentCount(plan.total) /\ i + 1 \in 0 .. SegmentCount(plan.total)
        BY Plan
      <4>3. SegmentStart(plan.total, i) \in Nat /\ SegmentStart(plan.total, i + 1) \in Nat
        BY <4>2, Plan
      <4>. QED  BY <4>1, <4>3 DEF SegmentEnd
    <3>2. SegmentStart(plan.total, 0) = 0
      BY Plan
    <3>. QED  BY <1>1, <1>3, <2>1, <3>1, <3>2 DEF Merging, Planned, Tagged, Published
  <2>5. Tasks' /\ OwnParts' /\ Serial' /\ Merged' /\ Installed'
    BY <1>1, <1>3 DEF Tasks, OwnParts, OfPlan, Serial, Merged, Installed, Tagged, Published, HasHeader
  <2>6. Leftovers'
    BY <1>1, <1>3 DEF Leftovers, Segmented, Planned
  <2>. QED  BY <2>2, <2>3, <2>4, <2>5, <2>6
<1>4. CASE attempt' <= MaxAttempts /\ Spawn(MissingSegments)
  <2>1. pc' = "fetch" /\ tmp' = tmp
    BY <1>4 DEF Spawn
  <2>2. /\ \A i \in Index : task'[i].state # "none" => task'[i].state = "asked" /\ i \in Planned \ {0}
        /\ task' \in [Index -> [state : {"none", "asked", "streaming", "ok", "transient", "changed"},
                                body : Response]]
    <3>1. NoBody \in Response
      BY Server DEF NoBody, Response
    <3>2. \A i \in Index :
            task'[i] = [state |-> IF i \in MissingSegments THEN "asked" ELSE "none", body |-> NoBody]
      BY <1>4 DEF Spawn, NoTasks
    <3>3. DOMAIN task' = Index /\ task' = [i \in Index |-> task'[i]]
      BY <1>4 DEF Spawn
    <3>. QED  BY <3>1, <3>2, <3>3 DEF MissingSegments
  <2>3. DownloadTypeOK' /\ Planning'
    BY <1>1, <1>4, <2>1, <2>2 DEF DownloadTypeOK, File, Fits, Response, Published, Planning, Segmented
  <2>4. FirstPart'
    BY <1>1, <2>1 DEF FirstPart, Tagged, Published
  <2>5. Tasks'
    BY <1>1, <2>1, <2>2 DEF Tasks, Planned
  <2>6. OwnParts' /\ Merging' /\ Serial' /\ Merged' /\ Installed'
    BY <1>1, <2>1 DEF OwnParts, OfPlan, Merging, Serial, Merged, Installed, Tagged, Published, HasHeader
  <2>7. Leftovers'
    BY <1>1, <2>1 DEF Leftovers, Segmented, Planned
  <2>. QED  BY <2>3, <2>4, <2>5, <2>6, <2>7
<1>. QED  BY <1>2, <1>3, <1>4 DEF Check

LEMMA FetchKeeps == ASSUME IInv, NEW i \in Index, Fetch(i) PROVE IInv'
<1>. USE DEF IInv
<1>1. /\ task[i].state = "asked" /\ pc = "fetch" /\ i \in Planned /\ i # 0
      /\ UNCHANGED <<asset, served, tmp, dest, pc, plan, attempt, body, step, first, clean, interrupted>>
      /\ faults' \in 0 .. MaxFaults
  BY DownloadAssumption DEF Fetch, Fault, server, history, Tasks, DownloadTypeOK
<1>2. task[i] \in [state : {"none", "asked", "streaming", "ok", "transient", "changed"},
                   body : Response]
  BY DEF DownloadTypeOK
<1>3. CASE \E s \in {"changed", "transient"} : task' = [task EXCEPT ![i].state = s] /\ part' = part
  <2>. PICK s \in {"changed", "transient"} : task' = [task EXCEPT ![i].state = s] /\ part' = part
    BY <1>3
  <2>1. task'[i].state = s /\ \A j \in Index : j # i => task'[j] = task[j]
    BY DEF DownloadTypeOK
  <2>2. DownloadTypeOK'
    BY <1>1, <1>2 DEF DownloadTypeOK, File, Fits, Response, Published
  <2>3. Planning' /\ FirstPart' /\ OwnParts' /\ Merging' /\ Serial' /\ Merged' /\ Installed'
    BY <1>1 DEF Planning, FirstPart, OwnParts, OfPlan, Merging, Serial, Merged, Installed,
       Tagged, Published, HasHeader
  <2>4. Tasks'
    BY <1>1, <2>1 DEF Tasks, Planned, Streams, Tagged, Published
  <2>5. Leftovers'
    BY <1>1 DEF Leftovers, Segmented, Planned
  <2>. QED  BY <2>2, <2>3, <2>4, <2>5
<1>4. CASE /\ HonorsRange(SegmentStart(plan.total, i))
           /\ part' = [part EXCEPT ![i] = << >>]
           /\ task' = [task EXCEPT ![i] = [state |-> "streaming",
                                           body |-> ResponseTo(SegmentEnd(plan.total, i))]]
  <2>. DEFINE response == ResponseTo(SegmentEnd(plan.total, i))
  <2>1. response \in Response /\ Streams(response, i, << >>)
    BY <1>1, <1>4, Answering DEF Segmented
  <2>. HIDE DEF response
  <2>2. /\ task'[i] = [state |-> "streaming", body |-> response] /\ part'[i] = << >>
        /\ \A j \in Index : j # i => task'[j] = task[j] /\ part'[j] = part[j]
    BY <1>4 DEF DownloadTypeOK, response
  <2>3. /\ task' \in [Index -> [state : {"none", "asked", "streaming", "ok", "transient", "changed"},
                                body : Response]]
        /\ part' \in [Index -> File]
    BY <1>4, <2>1, Files DEF DownloadTypeOK, response
  <2>4. Fits(<< >>)
    BY Server DEF Fits
  <2>5. DownloadTypeOK'
    BY <1>1, <2>2, <2>3, <2>4 DEF DownloadTypeOK, File, Fits, Response, Published
  <2>6. Planning' /\ Merging' /\ Serial' /\ Merged' /\ Installed'
    BY <1>1 DEF Planning, Merging, Serial, Merged, Installed, Tagged, Published, HasHeader
  <2>7. FirstPart'
    BY <1>1, <2>2, Plan DEF FirstPart, Tagged, Published
  <2>8. Tasks'
    BY <1>1, <2>1, <2>2 DEF Tasks, Planned, Streams, Tagged, Published
  <2>9. OwnParts'
    BY <1>1, <2>2 DEF OwnParts, OfPlan, Tagged, Published
  <2>10. Leftovers'
    BY <1>1, <2>2 DEF Leftovers, Segmented, Planned
  <2>. QED  BY <2>5, <2>6, <2>7, <2>8, <2>9, <2>10
<1>. QED  BY <1>3, <1>4 DEF Fetch

LEMMA StreamKeeps == ASSUME IInv, NEW i \in Index, Stream(i) PROVE IInv'
<1>. USE DEF IInv
<1>. DEFINE b == SegmentStart(plan.total, i)
            file == Append(part[i], <<task[i].body.asset, b + Len(part[i])>>)
<1>1. /\ task[i].state = "streaming" /\ pc = "fetch" /\ i \in Planned /\ i # 0
      /\ UNCHANGED <<asset, served, tmp, dest, pc, plan, attempt, body, step, first, clean, interrupted>>
      /\ Streams(task[i].body, i, part[i])
  BY DEF Stream, server, history, Tasks
<1>2. /\ task[i].body.end \in Nat /\ task[i].body.asset \in Published
      /\ part[i] \in File /\ part[i] # NoFile /\ Len(part[i]) \in Nat
  BY <1>1, Files DEF DownloadTypeOK, Response, Streams
<1>3. b \in Nat
  BY <1>1, Plan
<1>4. CASE /\ b + Len(part[i]) <= task[i].body.end
           /\ part' = [part EXCEPT ![i] = Append(@, <<task[i].body.asset, b + Len(part[i])>>)]
           /\ UNCHANGED <<task, faults>>
  <2>1. /\ file \in File /\ file # NoFile /\ Len(file) = Len(part[i]) + 1
        /\ DOMAIN part[i] = 1 .. Len(part[i]) /\ DOMAIN file = 1 .. Len(part[i]) + 1
        /\ \A k \in DOMAIN part[i] : file[k] = part[i][k]
        /\ file[Len(part[i]) + 1] = <<task[i].body.asset, b + Len(part[i])>>
    BY <1>2, <1>3, Appending, SMTT(30)
  <2>2. /\ part'[i] = file /\ \A j \in Index : j # i => part'[j] = part[j]
        /\ part' \in [Index -> File]
    BY <1>4, <2>1 DEF DownloadTypeOK
  <2>. HIDE DEF file
  <2>3. Fits(file)
    <3>1. task[i].body.end < asset[task[i].body.asset].len /\ asset[task[i].body.asset].len \in Nat
      BY <1>1, <1>2, Server DEF Streams
    <3>2. Len(file) <= asset[task[i].body.asset].len
      BY <1>2, <1>3, <1>4, <2>1, <3>1
    <3>. QED  BY <1>2, <3>2 DEF Fits
  <2>4. DownloadTypeOK'
    BY <1>1, <1>4, <2>2, <2>3 DEF DownloadTypeOK, File, Fits, Response, Published
  <2>5. Planning' /\ Merging' /\ Serial' /\ Merged' /\ Installed'
    BY <1>1 DEF Planning, Merging, Serial, Merged, Installed, Tagged, Published, HasHeader
  <2>6. FirstPart'
    BY <1>1, <2>2, Plan DEF FirstPart, Tagged, Published
  <2>7. Tasks'
    <3>1. Streams(task[i].body, i, file)
      BY <1>1, <1>2, <1>3, <1>4, <2>1 DEF Streams
    <3>. QED  BY <1>1, <1>4, <2>2, <3>1 DEF Tasks, Planned, Streams, Tagged, Published
  <2>8. OwnParts'
    <3>1. clean /\ Tagged => OfPlan(i, file)
      <4>. SUFFICES ASSUME clean, Tagged, NEW k \in DOMAIN file PROVE file[k] = <<first, b + k - 1>>
        BY DEF OfPlan
      <4>1. CASE k \in DOMAIN part[i]
        BY <1>1, <1>2, <2>1, <4>1 DEF OwnParts, OfPlan
      <4>2. CASE k = Len(part[i]) + 1
        <5>1. task[i].body.asset = first
          BY <1>1 DEF Streams
        <5>2. b + k - 1 = b + Len(part[i])
          BY <1>2, <1>3, <4>2
        <5>. QED  BY <2>1, <4>2, <5>1, <5>2
      <4>. QED  BY <1>2, <2>1, <4>1, <4>2
    <3>. QED  BY <1>1, <2>2, <3>1 DEF OwnParts, OfPlan, Tagged, Published
  <2>9. Leftovers'
    BY <1>1, <2>2 DEF Leftovers, Segmented, Planned
  <2>. QED  BY <2>4, <2>5, <2>6, <2>7, <2>8, <2>9
<1>5. CASE \E s \in {"ok", "transient"} :
             task' = [task EXCEPT ![i] = [state |-> s, body |-> NoBody]] /\ part' = part
           /\ faults' \in 0 .. MaxFaults
  <2>. PICK s \in {"ok", "transient"} :
         task' = [task EXCEPT ![i] = [state |-> s, body |-> NoBody]] /\ part' = part
    BY <1>5
  <2>1. NoBody \in Response /\ faults' \in 0 .. MaxFaults
    BY <1>5, Server DEF NoBody, Response
  <2>2. task'[i].state = s /\ \A j \in Index : j # i => task'[j] = task[j]
    BY DEF DownloadTypeOK
  <2>3. DownloadTypeOK'
    BY <1>1, <2>1 DEF DownloadTypeOK, File, Fits, Response, Published
  <2>4. Planning' /\ FirstPart' /\ OwnParts' /\ Merging' /\ Serial' /\ Merged' /\ Installed'
    BY <1>1 DEF Planning, FirstPart, OwnParts, OfPlan, Merging, Serial, Merged, Installed,
       Tagged, Published, HasHeader
  <2>5. Tasks'
    BY <1>1, <2>2 DEF Tasks, Planned, Streams, Tagged, Published
  <2>6. Leftovers'
    BY <1>1 DEF Leftovers, Segmented, Planned
  <2>. QED  BY <2>3, <2>4, <2>5, <2>6
<1>6. Fault => faults' \in 0 .. MaxFaults
  BY DownloadAssumption DEF Fault, DownloadTypeOK
<1>7. faults' = faults => faults' \in 0 .. MaxFaults
  BY DEF DownloadTypeOK
<1>. QED  BY <1>4, <1>5, <1>6, <1>7 DEF Stream

LEMMA JoinKeeps == ASSUME IInv, Join PROVE IInv'
<1>. USE DEF IInv
<1>1. /\ pc = "fetch" /\ pc' \in {"discard", "check"} /\ task' = NoTasks
      /\ UNCHANGED <<asset, served, faults, tmp, part, dest, plan, attempt, body, step, first, clean,
                     interrupted>>
  BY DEF Join, Joined, server, disk, history
<1>2. /\ task' \in [Index -> [state : {"none", "asked", "streaming", "ok", "transient", "changed"},
                              body : Response]]
      /\ \A i \in Index : task'[i].state = "none"
  <2>1. NoBody \in Response
    BY Server DEF NoBody, Response
  <2>. QED  BY <1>1, <2>1 DEF NoTasks
<1>3. DownloadTypeOK' /\ Planning'
  BY <1>1, <1>2 DEF DownloadTypeOK, File, Fits, Response, Published, Planning, Segmented
<1>4. FirstPart' /\ OwnParts' /\ Merging' /\ Serial' /\ Merged' /\ Installed'
  BY <1>1 DEF FirstPart, OwnParts, OfPlan, Merging, Serial, Merged, Installed,
     Tagged, Published, HasHeader
<1>5. Tasks'
  BY <1>2 DEF Tasks
<1>6. Leftovers'
  <2>1. step = 0 /\ Index \subseteq Nat
    BY <1>1, Plan DEF Planning
  <2>. QED  BY <1>1, <2>1 DEF Leftovers, Segmented, Planned
<1>. QED  BY <1>3, <1>4, <1>5, <1>6

\* A file with the length and the bytes of an index is that index.
LEMMA WholeFile ==
  ASSUME DownloadTypeOK, NEW file \in File, file # NoFile, NEW n \in Published,
         Len(file) = asset[n].len, \A k \in DOMAIN file : file[k] = <<n, k - 1>>
  PROVE  file = Content(n)
<1>1. file \in Seq(Published \X Nat) /\ DOMAIN file = 1 .. asset[n].len
  BY Files
<1>2. file = [k \in DOMAIN file |-> file[k]]
  BY <1>1
<1>. QED  BY <1>1, <1>2 DEF Content

LEMMA Joining ==
  ASSUME DownloadTypeOK, NEW f \in File, f # NoFile, NEW g \in File, g # NoFile
  PROVE  /\ f \o g \in File /\ f \o g # NoFile
         /\ Len(f) \in Nat /\ Len(g) \in Nat /\ Len(f \o g) = Len(f) + Len(g)
         /\ DOMAIN f = 1 .. Len(f) /\ DOMAIN g = 1 .. Len(g)
         /\ DOMAIN (f \o g) = 1 .. Len(f) + Len(g)
         /\ \A k \in 1 .. Len(f) : (f \o g)[k] = f[k]
         /\ \A k \in 1 .. Len(f) + Len(g) : k > Len(f) => (f \o g)[k] = g[k - Len(f)]
<1>1. f \in Seq(Published \X Nat) /\ g \in Seq(Published \X Nat)
  BY Files
<1>2. f \o g \in Seq(Published \X Nat) /\ Len(f \o g) = Len(f) + Len(g)
  BY <1>1, ConcatProperties
<1>3. \A k \in 1 .. Len(f) + Len(g) : (f \o g)[k] = IF k <= Len(f) THEN f[k] ELSE g[k - Len(f)]
  BY <1>1, ConcatProperties
<1>4. /\ Len(f) \in Nat /\ Len(g) \in Nat /\ DOMAIN f = 1 .. Len(f) /\ DOMAIN g = 1 .. Len(g)
  BY Files
<1>5. f \o g \in File /\ f \o g # NoFile /\ DOMAIN (f \o g) = 1 .. Len(f) + Len(g)
  BY <1>2, Files
<1>6. \A k \in 1 .. Len(f) : k \in 1 .. Len(f) + Len(g) /\ k <= Len(f)
  BY <1>4
<1>7. \A k \in 1 .. Len(f) + Len(g) : k > Len(f) => ~(k <= Len(f))
  BY <1>4
<1>. QED  BY <1>2, <1>3, <1>4, <1>5, <1>6, <1>7

LEMMA ConcatKeeps == ASSUME IInv, Concat PROVE IInv'
<1>. USE DEF IInv
<1>1. /\ pc = "concat" /\ tmp \in File /\ tmp # NoFile /\ step \in Nat
      /\ UNCHANGED <<asset, served, part, dest, plan, attempt, body, task, first, clean, interrupted>>
      /\ step \in 0 .. SegmentCount(plan.total) /\ first \in first .. served /\ first \in Published
      /\ plan.total = asset[first].len /\ faults' \in 0 .. MaxFaults
  <2>1. pc = "concat" /\ tmp \in File /\ tmp # NoFile /\ step \in Nat
        /\ UNCHANGED <<asset, served, part, dest, plan, attempt, body, task, first, clean, interrupted>>
    BY DEF Concat, Copied, server, history, Merging, DownloadTypeOK
  <2>2. step \in 0 .. SegmentCount(plan.total)
    BY <2>1, Plan DEF Planning
  <2>3. first \in first .. served /\ first \in Published /\ plan.total = asset[first].len
    BY <2>1, Server DEF Planning, Segmented
  <2>4. faults' \in 0 .. MaxFaults
    BY DownloadAssumption DEF Concat, Copied, Fault, DownloadTypeOK
  <2>. QED  BY <2>1, <2>2, <2>3, <2>4
<1>2. CASE step \in Planned /\ part[step] # NoFile /\ tmp' = tmp \o part[step] /\ step' = step + 1
           /\ UNCHANGED <<pc, faults>>
  <2>. DEFINE s == SegmentStart(plan.total, step)  t == SegmentStart(plan.total, step + 1)
              l == Len(tmp)  m == Len(part[step])
  <2>1. step \in Index /\ part[step] \in File /\ s \in Nat /\ t \in Nat /\ s < t
        /\ t <= plan.total /\ step + 1 \in 0 .. SegmentCount(plan.total)
    BY <1>1, <1>2, Plan DEF DownloadTypeOK
  <2>2. /\ tmp' \in File /\ tmp' # NoFile /\ l \in Nat /\ m \in Nat /\ Len(tmp') = l + m
        /\ DOMAIN tmp = 1 .. l /\ DOMAIN part[step] = 1 .. m /\ DOMAIN tmp' = 1 .. l + m
        /\ \A k \in 1 .. l : tmp'[k] = tmp[k]
        /\ \A k \in 1 .. l + m : k > l => tmp'[k] = part[step][k - l]
    BY <1>1, <1>2, <2>1, Joining
  <2>3. /\ l <= s /\ (Tagged => l = s)
        /\ s + m <= t /\ (Tagged => s + m = t)
    <3>1. l <= s /\ (Tagged => l = s)
      BY <1>1 DEF Merging
    <3>2. CASE step = 0
      <4>1. s = 0 /\ t = SegmentStart(plan.total, 1) /\ m <= t /\ (Tagged => m = t)
        BY <1>1, <3>2, Plan DEF FirstPart
      <4>. QED  BY <2>2, <3>1, <4>1
    <3>3. CASE step # 0
      <4>1. s + m = t
        BY <1>1, <1>2, <3>3 DEF Merging
      <4>. QED  BY <2>1, <2>2, <3>1, <4>1
    <3>. QED  BY <3>2, <3>3
  <2>4. ASSUME Tagged PROVE Len(tmp') > 0 /\ tmp'[1] = <<first, 0>>
    <3>1. CASE step = 0
      <4>1. l = 0 /\ m > 0
        <5>1. s = 0
          BY <3>1, Plan
        <5>. QED  BY <2>1, <2>2, <2>3, <2>4, <5>1
      <4>2. tmp'[1] = part[0][1]
        BY <2>2, <3>1, <4>1
      <4>3. 1 \in DOMAIN part[0]
        BY <2>2, <3>1, <4>1
      <4>. QED  BY <1>1, <2>2, <2>4, <4>1, <4>2, <4>3 DEF FirstPart
    <3>2. CASE step # 0
      <4>1. l > 0 /\ tmp[1] = <<first, 0>>
        BY <1>1, <2>4, <3>2 DEF Merging
      <4>. QED  BY <2>2, <4>1
    <3>. QED  BY <3>1, <3>2
  <2>5. ASSUME Tagged, clean, NEW k \in DOMAIN tmp' PROVE tmp'[k] = <<first, k - 1>>
    <3>1. CASE k \in 1 .. l
      BY <1>1, <2>2, <2>5, <3>1 DEF Merging
    <3>2. CASE k > l
      <4>1. tmp'[k] = part[step][k - l] /\ k - l \in DOMAIN part[step] /\ k \in Nat
        BY <2>2, <2>5, <3>2
      <4>2. part[step][k - l] = <<first, s + (k - l) - 1>>
        BY <1>1, <1>2, <2>1, <2>5, <4>1 DEF OwnParts, OfPlan
      <4>3. s + (k - l) - 1 = k - 1
        BY <2>1, <2>2, <2>3, <2>5, <4>1
      <4>. QED  BY <4>1, <4>2, <4>3
    <3>. QED  BY <2>2, <2>5, <3>1, <3>2
  <2>6. Len(tmp') <= t /\ (Tagged => Len(tmp') = t)
    <3>1. Len(tmp') = l + m /\ s \in Nat /\ t \in Nat /\ l \in Nat /\ m \in Nat
      BY <2>1, <2>2
    <3>. HIDE DEF s, t, l, m
    <3>2. Len(tmp') <= t
      BY <2>3, <3>1
    <3>3. ASSUME Tagged PROVE Len(tmp') = t
      BY <2>3, <3>1, <3>3
    <3>. QED  BY <3>2, <3>3
  <2>7. Fits(tmp')
    <3>1. Len(tmp') <= asset[first].len
      BY <1>1, <2>1, <2>2, <2>6, Server
    <3>. QED  BY <1>1, <3>1 DEF Fits
  <2>8. DownloadTypeOK'
    <3>1. step' \in 0 .. MaxConn
      BY <1>2, <2>1, Plan
    <3>2. (tmp \in File)' /\ Fits(tmp)'
      BY <1>1, <2>2, <2>7 DEF File, Fits, Published
    <3>. QED  BY <1>1, <1>2, <3>1, <3>2 DEF DownloadTypeOK, File, Fits, Response, Published
  <2>9. Planning'
    BY <1>1, <1>2, <2>1 DEF Planning
  <2>10. Merging'
    BY <1>1, <1>2, <2>2, <2>4, <2>5, <2>6 DEF Merging, Planned, Tagged, Published
  <2>11. FirstPart' /\ Tasks' /\ OwnParts' /\ Serial' /\ Merged' /\ Installed'
    BY <1>1, <1>2 DEF FirstPart, Tasks, OwnParts, OfPlan, Serial, Merged, Installed,
       Tagged, Published, HasHeader
  <2>12. Leftovers'
    BY <1>1, <1>2 DEF Leftovers, Segmented, Planned
  <2>. QED  BY <2>8, <2>9, <2>10, <2>11, <2>12
<1>3. CASE pc' = "discard" /\ step' = 0 /\ UNCHANGED tmp
  <2>1. DownloadTypeOK' /\ Planning'
    <3>1. 0 \in 0 .. MaxConn /\ 0 <= SegmentCount(plan.total)
      BY Plan
    <3>. QED  BY <1>1, <1>3, <3>1 DEF DownloadTypeOK, File, Fits, Response, Published, Planning, Segmented
  <2>2. FirstPart' /\ Tasks' /\ OwnParts' /\ Merging' /\ Serial' /\ Merged' /\ Installed'
    BY <1>1, <1>3 DEF FirstPart, Tasks, OwnParts, Merging, Serial, Merged, Installed,
       Tagged, Published, HasHeader
  <2>3. Leftovers'
    BY <1>1, <1>3, Plan DEF Leftovers, Segmented, Planned
  <2>. QED  BY <2>1, <2>2, <2>3
<1>4. CASE step \notin Planned /\ pc' = "tidy" /\ step' = 0 /\ UNCHANGED <<tmp, faults>>
  <2>1. step = SegmentCount(plan.total) /\ step > 0
    BY <1>1, <1>4, Plan
  <2>2. Tagged => Len(tmp) = asset[first].len /\ tmp[1] = <<first, 0>>
    BY <1>1, <2>1, Plan DEF Merging
  <2>3. Tagged /\ clean => tmp = Content(first)
    BY <1>1, <2>2, WholeFile DEF Merging
  <2>4. DownloadTypeOK' /\ Planning'
    <3>1. 0 \in 0 .. MaxConn /\ 0 <= SegmentCount(plan.total)
      BY Plan
    <3>. QED  BY <1>1, <1>4, <3>1 DEF DownloadTypeOK, File, Fits, Response, Published, Planning, Segmented
  <2>5. Merged'
    BY <1>1, <1>4, <2>2, <2>3 DEF Merged, Tagged, Published, Content
  <2>6. FirstPart' /\ Tasks' /\ OwnParts' /\ Merging' /\ Serial' /\ Installed'
    BY <1>1, <1>4 DEF FirstPart, Tasks, OwnParts, Merging, Serial, Installed,
       Tagged, Published, HasHeader
  <2>7. Leftovers'
    BY <1>1, <1>4, Plan DEF Leftovers, Segmented, Planned
  <2>. QED  BY <2>4, <2>5, <2>6, <2>7
<1>. QED  BY <1>2, <1>3, <1>4 DEF Concat, Copied

LEMMA RemovePartKeeps == ASSUME IInv, RemovePart PROVE IInv'
<1>. USE DEF IInv
<1>1. /\ pc \in {"tidy", "discard"} /\ step \in 0 .. SegmentCount(plan.total) /\ step \in Nat
      /\ UNCHANGED <<asset, served, faults, tmp, dest, plan, attempt, body, task, first, clean, interrupted>>
  BY Plan DEF RemovePart, server, history, Planning, DownloadTypeOK
<1>2. CASE step \in Planned /\ part' = [part EXCEPT ![step] = NoFile] /\ step' = step + 1 /\ pc' = pc
  <2>1. step \in Index /\ step + 1 \in 0 .. SegmentCount(plan.total) /\ step + 1 \in 0 .. MaxConn
    BY <1>1, <1>2, Plan
  <2>2. /\ part'[step] = NoFile /\ \A i \in Index : i # step => part'[i] = part[i]
        /\ part' \in [Index -> File] /\ \A i \in Index : Fits(part'[i])
    BY <1>2, <2>1 DEF DownloadTypeOK, File, Fits
  <2>3. DownloadTypeOK' /\ Planning'
    BY <1>1, <1>2, <2>1, <2>2 DEF DownloadTypeOK, File, Fits, Response, Published, Planning, Segmented
  <2>4. FirstPart' /\ Tasks' /\ OwnParts' /\ Merging' /\ Serial' /\ Installed'
    BY <1>1, <1>2 DEF FirstPart, Tasks, OwnParts, Merging, Serial, Installed,
       Tagged, Published, HasHeader
  <2>5. Merged'
    BY <1>1, <1>2 DEF Merged, Tagged, Published, Content, HasHeader
  <2>6. Leftovers'
    <3>1. \A i \in Index : i < step + 1 => i = step \/ i < step
      BY <1>1, Plan
    <3>. QED  BY <1>1, <1>2, <2>2, <3>1 DEF Leftovers, Segmented, Planned
  <2>. QED  BY <2>3, <2>4, <2>5, <2>6
<1>3. CASE step \notin Planned /\ pc' = (IF pc = "tidy" THEN "validate" ELSE "serial")
           /\ step' = 0 /\ UNCHANGED part
  <2>1. \A i \in Planned : i < step
    BY <1>1, <1>3, Plan DEF Planned
  <2>2. 0 \in 0 .. MaxConn /\ 0 <= SegmentCount(plan.total)
    BY Plan
  <2>3. DownloadTypeOK' /\ Planning'
    BY <1>1, <1>3, <2>2 DEF DownloadTypeOK, File, Fits, Response, Published, Planning, Segmented
  <2>4. FirstPart' /\ Tasks' /\ OwnParts' /\ Merging' /\ Serial' /\ Installed'
    BY <1>1, <1>3 DEF FirstPart, Tasks, OwnParts, Merging, Serial, Installed,
       Tagged, Published, HasHeader
  <2>5. Merged'
    BY <1>1, <1>3 DEF Merged, Tagged, Published, Content, HasHeader
  <2>6. Leftovers'
    <3>1. ~interrupted => \A i \in Index : part[i] = NoFile
      BY <1>1, <2>1 DEF Leftovers, Segmented
    <3>2. ~interrupted => part = NoParts
      BY <3>1 DEF NoParts, DownloadTypeOK
    <3>. QED  BY <1>1, <1>3, <3>2 DEF Leftovers, Segmented
  <2>. QED  BY <2>3, <2>4, <2>5, <2>6
<1>. QED  BY <1>2, <1>3 DEF RemovePart

LEMMA SerialGetKeeps == ASSUME IInv, SerialGet PROVE IInv'
<1>. USE DEF IInv
<1>1. /\ pc = "serial" /\ faults' \in 0 .. MaxFaults
      /\ UNCHANGED <<asset, served, part, dest, plan, attempt, task, step, first, clean, interrupted>>
  BY DownloadAssumption DEF SerialGet, Fault, server, history, DownloadTypeOK
<1>2. CASE tmp' = << >> /\ body' = ResponseTo(asset[served].len - 1) /\ pc' = "whole"
  <2>1. asset[served].len \in Nat \ {0} /\ served \in Published /\ served \in first .. served
    BY Server DEF DownloadTypeOK
  <2>2. body' = [asset |-> served, end |-> asset[served].len - 1] /\ body' \in Response
    BY <1>2, <2>1 DEF ResponseTo, Smaller, Response
  <2>3. << >> \in File /\ << >> # NoFile /\ Fits(<< >>) /\ Len(<< >>) = 0
    BY <2>1, Files DEF Fits
  <2>4. DownloadTypeOK' /\ Planning'
    BY <1>1, <1>2, <2>2, <2>3 DEF DownloadTypeOK, File, Fits, Response, Published, Planning, Segmented
  <2>5. Serial'
    BY <1>1, <1>2, <2>1, <2>2, <2>3 DEF Serial
  <2>6. FirstPart' /\ Tasks' /\ OwnParts' /\ Merging' /\ Merged' /\ Installed'
    BY <1>1, <1>2 DEF FirstPart, Tasks, OwnParts, Merging, Merged, Installed,
       Tagged, Published, HasHeader
  <2>7. Leftovers'
    BY <1>1, <1>2 DEF Leftovers, Segmented, NoParts, Index
  <2>. QED  BY <2>4, <2>5, <2>6, <2>7
<1>3. CASE pc' = "failed" /\ UNCHANGED <<tmp, body>>
  <2>1. DownloadTypeOK' /\ Planning'
    BY <1>1, <1>3 DEF DownloadTypeOK, File, Fits, Response, Published, Planning, Segmented
  <2>2. FirstPart' /\ Tasks' /\ OwnParts' /\ Merging' /\ Serial' /\ Merged' /\ Installed'
    BY <1>1, <1>3 DEF FirstPart, Tasks, OwnParts, Merging, Serial, Merged, Installed,
       Tagged, Published, HasHeader
  <2>3. Leftovers'
    BY <1>1, <1>3 DEF Leftovers, Segmented, NoParts, Index
  <2>. QED  BY <2>1, <2>2, <2>3
<1>. QED  BY <1>2, <1>3 DEF SerialGet

LEMMA SerialStreamKeeps == ASSUME IInv, SerialStream PROVE IInv'
<1>. USE DEF IInv
<1>1. /\ pc = "whole" /\ tmp \in File /\ tmp # NoFile /\ Len(tmp) \in Nat
      /\ UNCHANGED <<asset, served, part, dest, plan, attempt, task, step, first, clean, interrupted>>
      /\ body.asset \in first .. served /\ body.asset \in Published /\ body.end \in Nat
      /\ asset[body.asset].len \in Nat /\ body.end = asset[body.asset].len - 1
      /\ Len(tmp) <= asset[body.asset].len
      /\ \A k \in DOMAIN tmp : tmp[k] = <<body.asset, k - 1>>
  <2>1. pc = "whole" /\ UNCHANGED <<asset, served, part, dest, plan, attempt, task, step, first, clean, interrupted>>
    BY DEF SerialStream, server, history
  <2>2. body.asset \in Published /\ body.end \in Nat /\ tmp \in File
    BY DEF DownloadTypeOK, Response
  <2>. QED  BY <2>1, <2>2, Server, Files DEF Serial
<1>2. CASE Len(tmp) <= body.end /\ tmp' = Append(tmp, <<body.asset, Len(tmp)>>)
           /\ UNCHANGED <<pc, faults, body>>
  <2>1. /\ tmp' \in File /\ tmp' # NoFile /\ Len(tmp') = Len(tmp) + 1
        /\ DOMAIN tmp = 1 .. Len(tmp) /\ DOMAIN tmp' = 1 .. Len(tmp) + 1
        /\ \A k \in DOMAIN tmp : tmp'[k] = tmp[k]
        /\ tmp'[Len(tmp) + 1] = <<body.asset, Len(tmp)>>
    BY <1>1, <1>2, Appending
  <2>2. Len(tmp') <= asset[body.asset].len
    BY <1>1, <1>2, <2>1
  <2>3. ASSUME NEW k \in DOMAIN tmp' PROVE tmp'[k] = <<body.asset, k - 1>>
    <3>1. CASE k \in DOMAIN tmp
      BY <1>1, <2>1, <3>1
    <3>2. CASE k = Len(tmp) + 1
      BY <1>1, <2>1, <3>2
    <3>. QED  BY <1>1, <2>1, <3>1, <3>2
  <2>4. DownloadTypeOK'
    BY <1>1, <1>2, <2>1, <2>2 DEF DownloadTypeOK, File, Fits, Response, Published
  <2>5. Serial'
    BY <1>1, <1>2, <2>1, <2>2, <2>3 DEF Serial
  <2>6. Planning' /\ FirstPart' /\ Tasks' /\ OwnParts' /\ Merging' /\ Merged' /\ Installed'
    BY <1>1, <1>2 DEF Planning, FirstPart, Tasks, OwnParts, Merging, Merged, Installed,
       Tagged, Published, HasHeader
  <2>7. Leftovers'
    BY <1>1, <1>2 DEF Leftovers, Segmented, NoParts, Index
  <2>. QED  BY <2>4, <2>5, <2>6, <2>7
<1>3. CASE Len(tmp) > body.end /\ pc' = "validate" /\ body' = NoBody /\ UNCHANGED <<tmp, faults>>
  <2>1. Len(tmp) = asset[body.asset].len /\ 1 \in DOMAIN tmp
    <3>1. asset[body.asset].len \in Nat \ {0} /\ DOMAIN tmp = 1 .. Len(tmp)
      BY <1>1, Files, Server
    <3>2. Len(tmp) = asset[body.asset].len
      BY <1>1, <1>3, <3>1
    <3>. QED  BY <3>1, <3>2
  <2>2. tmp[1] = <<body.asset, 0>> /\ tmp = Content(body.asset)
    BY <1>1, <2>1, WholeFile
  <2>3. NoBody \in Response
    BY Server DEF NoBody, Response
  <2>4. DownloadTypeOK' /\ Planning'
    BY <1>1, <1>3, <2>3 DEF DownloadTypeOK, File, Fits, Response, Published, Planning, Segmented
  <2>5. Merged'
    BY <1>1, <1>3, <2>1, <2>2 DEF Merged, Tagged, Published, Content
  <2>6. FirstPart' /\ Tasks' /\ OwnParts' /\ Merging' /\ Serial' /\ Installed'
    BY <1>1, <1>3 DEF FirstPart, Tasks, OwnParts, Merging, Serial, Installed,
       Tagged, Published, HasHeader
  <2>7. Leftovers'
    BY <1>1, <1>3 DEF Leftovers, Segmented, NoParts, Index
  <2>. QED  BY <2>4, <2>5, <2>6, <2>7
<1>4. CASE Fault /\ pc' = "failed" /\ body' = NoBody /\ UNCHANGED tmp
  <2>1. NoBody \in Response /\ faults' \in 0 .. MaxFaults
    BY <1>4, Server, DownloadAssumption DEF NoBody, Response, Fault, DownloadTypeOK
  <2>2. DownloadTypeOK' /\ Planning'
    BY <1>1, <1>4, <2>1 DEF DownloadTypeOK, File, Fits, Response, Published, Planning, Segmented
  <2>3. FirstPart' /\ Tasks' /\ OwnParts' /\ Merging' /\ Serial' /\ Merged' /\ Installed'
    BY <1>1, <1>4 DEF FirstPart, Tasks, OwnParts, Merging, Serial, Merged, Installed,
       Tagged, Published, HasHeader
  <2>4. Leftovers'
    BY <1>1, <1>4 DEF Leftovers, Segmented, NoParts, Index
  <2>. QED  BY <2>2, <2>3, <2>4
<1>. QED  BY <1>2, <1>3, <1>4 DEF SerialStream

LEMMA ValidateKeeps == ASSUME IInv, Validate PROVE IInv'
<1>. USE DEF IInv
<1>1. /\ pc = "validate" /\ pc' \in {"rename", "failed"} /\ (pc' = "rename" => HasHeader(tmp))
      /\ UNCHANGED <<asset, served, faults, tmp, part, dest, plan, attempt, body, task, step,
                     first, clean, interrupted>>
  BY DEF Validate, server, disk, local, history
<1>2. DownloadTypeOK' /\ Planning'
  BY <1>1 DEF DownloadTypeOK, File, Fits, Response, Published, Planning, Segmented
<1>3. FirstPart' /\ Tasks' /\ OwnParts' /\ Merging' /\ Serial' /\ Installed'
  BY <1>1 DEF FirstPart, Tasks, OwnParts, Merging, Serial, Installed, Tagged, Published, HasHeader
<1>4. Merged'
  BY <1>1 DEF Merged, Tagged, Published, Content, HasHeader
<1>5. Leftovers'
  BY <1>1 DEF Leftovers, Segmented, NoParts, Index
<1>. QED  BY <1>2, <1>3, <1>4, <1>5

LEMMA RenameKeeps == ASSUME IInv, Rename PROVE IInv'
<1>. USE DEF IInv
<1>1. /\ pc = "rename" /\ pc' = "done" /\ dest' = tmp /\ tmp' = NoFile
      /\ UNCHANGED <<asset, served, faults, part, plan, attempt, body, task, step,
                     first, clean, interrupted>>
  BY DEF Rename, server, local, history
<1>2. DownloadTypeOK' /\ Planning'
  BY <1>1 DEF DownloadTypeOK, File, Fits, Response, Published, Planning, Segmented
<1>3. FirstPart' /\ Tasks' /\ OwnParts' /\ Merging' /\ Serial' /\ Merged'
  BY <1>1 DEF FirstPart, Tasks, OwnParts, Merging, Serial, Merged
<1>4. Installed'
  <2>1. Tagged => HasHeader(tmp) /\ Len(tmp) = asset[tmp[1][1]].len
    BY <1>1 DEF Merged
  <2>. QED  BY <1>1, <2>1 DEF Installed, Tagged, Published, HasHeader
<1>5. Leftovers'
  BY <1>1 DEF Leftovers, Segmented, NoParts, Index
<1>. QED  BY <1>2, <1>3, <1>4, <1>5

\* The end of a run, and a crash.
LEMMA ResetKeeps ==
  ASSUME IInv, Reset, UNCHANGED <<server, disk, first, clean>>, faults' \in 0 .. MaxFaults,
         \/ interrupted' = TRUE
         \/ interrupted' = interrupted /\ pc \in {"done", "failed"}
  PROVE  IInv'
<1>. USE DEF IInv
<1>1. /\ UNCHANGED <<asset, served, tmp, part, dest, first, clean>> /\ pc' = "idle"
      /\ plan' = NoPlan /\ attempt' = 0 /\ body' = NoBody /\ task' = NoTasks /\ step' = 0
  BY DEF Reset, server, disk
<1>2. NoBody \in Response
  BY Server DEF NoBody, Response
<1>3. /\ task' \in [Index -> [state : {"none", "asked", "streaming", "ok", "transient", "changed"},
                              body : Response]]
      /\ \A i \in Index : task'[i].state = "none"
  BY <1>1, <1>2 DEF NoTasks
<1>4. plan'.total = 1 /\ 0 \in 0 .. MaxConn /\ 0 \in 0 .. MaxAttempts + 1 /\ interrupted' \in BOOLEAN
  <2>1. plan'.total = 1 /\ 0 \in 0 .. MaxConn /\ 0 \in 0 .. MaxAttempts + 1
    BY <1>1, DownloadAssumption DEF NoPlan
  <2>2. interrupted' \in BOOLEAN
    BY DEF DownloadTypeOK
  <2>. QED  BY <2>1, <2>2
<1>5. DownloadTypeOK'
  BY <1>1, <1>2, <1>3, <1>4 DEF DownloadTypeOK, File, Fits, Response, Published
<1>6. Planning'
  <2>1. SegmentCount(plan'.total) \in 1 .. MaxConn
    BY <1>4, Counting
  <2>2. 0 <= SegmentCount(plan'.total)
    BY <2>1, DownloadAssumption
  <2>. QED  BY <1>1, <2>2 DEF Planning, Segmented
<1>7. FirstPart' /\ OwnParts' /\ Merging' /\ Serial' /\ Merged' /\ Installed'
  BY <1>1 DEF FirstPart, OwnParts, Merging, Serial, Merged, Installed, Tagged, Published, HasHeader
<1>8. Tasks'
  BY <1>3 DEF Tasks
<1>9. Leftovers'
  BY <1>1 DEF Leftovers, Segmented, NoParts, Index
<1>. QED  BY <1>5, <1>6, <1>7, <1>8, <1>9

LEMMA Step == IInv /\ [DownloadNext]_download => IInv'
<1>. SUFFICES ASSUME IInv, [DownloadNext]_download PROVE IInv'
  OBVIOUS
<1>1. ASSUME Download PROVE IInv'
  <2>1. ASSUME Again PROVE IInv'
    BY <2>1, ResetKeeps DEF Again, history, IInv, DownloadTypeOK
  <2>. QED  BY <1>1, <2>1, HeadRequestKeeps, ProbeKeeps, StreamFirstKeeps, CheckKeeps, JoinKeeps,
             ConcatKeeps, RemovePartKeeps, SerialGetKeeps, SerialStreamKeeps, ValidateKeeps,
             RenameKeeps DEF Download
<1>2. ASSUME Crash PROVE IInv'
  <2>1. faults' \in 0 .. MaxFaults
    BY <1>2, DownloadAssumption DEF Crash, Fault, IInv, DownloadTypeOK
  <2>. QED  BY <1>2, <2>1, ResetKeeps DEF Crash
<1>3. ASSUME UNCHANGED download PROVE IInv'
  <2>1. UNCHANGED <<asset, served, faults, tmp, part, dest, pc, plan, attempt, body, task, step,
                    first, clean, interrupted>>
    BY <1>3 DEF download, server, disk, local, history
  <2>2. DownloadTypeOK' /\ Planning'
    BY <2>1 DEF IInv, DownloadTypeOK, File, Fits, Response, Published, Planning
  <2>3. FirstPart' /\ Tasks' /\ OwnParts'
    BY <2>1 DEF IInv, FirstPart, Streams, Tasks, Planned, OwnParts, OfPlan, Tagged, Published
  <2>4. Merging' /\ Serial'
    BY <2>1 DEF IInv, Merging, Serial, Planned, Tagged, Published
  <2>5. Merged' /\ Installed' /\ Leftovers'
    BY <2>1 DEF IInv, Merged, Installed, Leftovers, Planned, Tagged, Published, Content, HasHeader
  <2>. QED  BY <2>2, <2>3, <2>4, <2>5 DEF IInv
<1>. QED  BY <1>1, <1>2, <1>3, FetchKeeps, StreamKeeps, PublishKeeps DEF DownloadNext, Fetching

(***************************************************************************)
(* Through every publication, fault, crash and repetition.                 *)
(***************************************************************************)
THEOREM Invariance == DownloadSpec => []IInv
  BY Start, Step, PTL DEF DownloadSpec

----------------------------------------------------------------------------
(***************************************************************************)
(* On a server with entity tags the installed file has its header and the  *)
(* length of its index, whatever was left on disk by interrupted runs, and *)
(* every variable keeps its type.                                          *)
(***************************************************************************)
THEOREM InstalledIsWholeLength == DownloadSpec => []NeverShort
<1>1. IInv => NeverShort
  BY DEF IInv, Installed, NeverShort
<1>. QED  BY <1>1, Invariance, PTL

(***************************************************************************)
(* A run that is neither killed nor cut in its first segment leaves no     *)
(* part file behind, on whichever way it ends.                             *)
(***************************************************************************)
THEOREM RunsTidyUp == DownloadSpec => []LeftoversOnlyWhenInterrupted
<1>1. IInv => LeftoversOnlyWhenInterrupted
  BY DEF IInv, Leftovers, LeftoversOnlyWhenInterrupted
<1>. QED  BY <1>1, Invariance, PTL

(***************************************************************************)
(* A run without leftovers installs one whole index that the server        *)
(* published while it ran, for any number of segments, retries and faults. *)
(***************************************************************************)
THEOREM FreshRunsInstallOneIndex == DownloadSpec => FreshInstall
<1>. DEFINE A == dest' # dest /\ clean /\ Tagged => \E n \in first .. served : dest' = Content(n)
<1>1. IInv /\ [DownloadNext]_download => [A]_download
  <2>. SUFFICES ASSUME IInv, DownloadNext PROVE A
    OBVIOUS
  <2>1. ASSUME Rename PROVE A
    BY <2>1 DEF Rename, IInv, Merged
  <2>2. ASSUME ~Rename PROVE dest' = dest
    BY <2>2 DEF DownloadNext, Download, Fetching, HeadRequest, Probe, StreamFirst, Check, Join, Joined,
       Concat, Copied, RemovePart, SerialGet, SerialStream, Validate, Again, Fetch, Stream,
       Publish, Crash, disk
  <2>. QED  BY <2>1, <2>2
<1>. QED  BY <1>1, Invariance, PTL DEF DownloadSpec, FreshInstall
=============================================================================
