------------------------ MODULE SidecarUpdateProofs ------------------------
(***************************************************************************)
(* Proofs about the sidecars beside `files`: of their update and of the    *)
(* directory they are in.                                                  *)
(*                                                                         *)
(* SidecarUpdate, for any versions, dates and descriptions, any number of  *)
(* releases and attempts, any faults and any number of updates at once.    *)
(* The invariant: what an update holds is whole and no older than when it  *)
(* began (Fetched); a temporary file that no two have at once is what its  *)
(* update left in it, or gone (Holding, Alone); so what is installed from  *)
(* one is whole; and an update by itself has, of every sidecar it is done  *)
(* with, a failure on record or a current file (Settled), which no later   *)
(* update makes older again (Later).                                       *)
(*                                                                         *)
(* IndexDirectory, for any indexes, any number of operations and any       *)
(* number of deaths.  The invariant: what a rebuild has written so far     *)
(* describes the index it works on (Progress), and as long as nothing was  *)
(* written under the hashes, every sidecar that a rebuild of their index   *)
(* writes is gone or describes that index (Certified), whatever `files` is *)
(* by now.                                                                 *)
(***************************************************************************)
EXTENDS SidecarUpdate, IndexDirectory, SequenceTheorems, WellFoundedInduction, TLAPS

-----------------------------------------------------------------------------
(***************************************************************************)
(* Lists of versions.                                                      *)
(***************************************************************************)
LEMMA Bounded ==
  ASSUME NEW S, NEW n \in Nat, NEW s
  PROVE  s \in BoundedSeq(S, n) <=> s \in Seq(S) /\ Len(s) <= n
<1>1. ASSUME s \in BoundedSeq(S, n) PROVE s \in Seq(S) /\ Len(s) <= n
  <2>1. PICK m \in 0 .. n : s \in [1 .. m -> S]
    BY <1>1 DEF BoundedSeq, SeqOf
  <2>. QED  BY <2>1
<1>2. ASSUME s \in Seq(S), Len(s) <= n PROVE s \in BoundedSeq(S, n)
  <2>1. Len(s) \in 0 .. n /\ s \in [1 .. Len(s) -> S]
    BY <1>2
  <2>. QED  BY <2>1 DEF BoundedSeq, SeqOf
<1>. QED  BY <1>1, <1>2

\* The position CHOOSE finds in Recorded exists.
LEMMA Smallest ==
  ASSUME NEW T, T \subseteq Nat, T # {}
  PROVE  \E i \in T : \A j \in T : i <= j
<1>1. PICK i \in T : \A j \in T : ~ (<<j, i>> \in OpToRel(<, Nat))
  BY NatLessThanWellFounded, WFMin
<1>2. \A j \in Nat : <<j, i>> \in OpToRel(<, Nat) <=> j < i
  BY <1>1 DEF OpToRel
<1>. HIDE DEF OpToRel
<1>3. ASSUME NEW j \in T PROVE i <= j
  <2>1. ~(j < i) /\ i \in Nat /\ j \in Nat
    BY <1>1, <1>2
  <2>. QED  BY <2>1
<1>. QED  BY <1>3

Kept(list) == list \in Seq(Entry) /\ Len(list) <= MaxVersions /\ NewestFirst(list)

LEMMA Recording ==
  ASSUME NEW list, Kept(list), NEW e \in Entry
  PROVE  Kept(Recorded(list, e))
<1>. DEFINE older == {i \in DOMAIN list : e.date > list[i].date}
            position == IF older = {} THEN Len(list) + 1
                        ELSE CHOOSE i \in older : \A j \in older : i <= j
<1>1. /\ Len(list) \in Nat /\ MaxVersions \in Nat /\ list \in Seq(Entry)
      /\ DOMAIN list = 1 .. Len(list) /\ e.date \in Nat
      /\ \A i \in DOMAIN list : list[i] \in Entry /\ list[i].date \in Nat
  <2>1. list \in Seq(Entry) /\ \A x \in Entry : x.date \in Nat
    BY UpdateAssumption DEF Kept, Entry
  <2>2. MaxVersions \in Nat
    BY UpdateAssumption
  <2>. QED  BY <2>1, <2>2
<1>2. CASE \E i \in DOMAIN list : list[i].version = e.version
  BY <1>2 DEF Recorded
<1>3. CASE Len(list) >= MaxVersions
  BY <1>3 DEF Recorded
<1>4. CASE ~(Len(list) >= MaxVersions) /\ \A i \in DOMAIN list : list[i].version # e.version
  <2>1. /\ position \in 1 .. Len(list) + 1
        /\ \A j \in DOMAIN list : j < position => ~(e.date > list[j].date)
        /\ position \in DOMAIN list => e.date > list[position].date
    <3>1. CASE older = {}
      BY <1>1, <3>1
    <3>2. CASE older # {}
      <4>1. older \subseteq Nat
        BY <1>1
      <4>. DEFINE Least(i) == i \in older /\ \A j \in older : i <= j
      <4>2. \E i \in older : \A j \in older : i <= j
        BY <3>2, <4>1, Smallest
      <4>3. position \in older /\ \A j \in older : position <= j
        BY <3>2, <4>2
      <4>4. position \in DOMAIN list /\ e.date > list[position].date
        BY <4>3
      <4>5. ASSUME NEW j \in DOMAIN list, j < position PROVE ~(e.date > list[j].date)
        <5>1. j \in Nat /\ position \in Nat
          BY <1>1, <4>4
        <5>. QED  BY <4>3, <4>5, <5>1
      <4>. HIDE DEF position
      <4>. QED  BY <1>1, <4>4, <4>5
    <3>. QED  BY <3>1, <3>2
  <2>. DEFINE before == SubSeq(list, 1, position - 1)
              after == SubSeq(list, position, Len(list))
              new == before \o <<e>> \o after
  <2>2. Recorded(list, e) = new
    BY <1>4 DEF Recorded, InsertAt
  <2>. HIDE DEF older, position
  <2>3. /\ before \in Seq(Entry) /\ Len(before) = position - 1
        /\ \A k \in 1 .. position - 1 : before[k] = list[k]
    <3>1. position - 1 \in Int /\ \A k \in 1 .. position - 1 : list[k] \in Entry
      BY <1>1, <2>1
    <3>2. /\ before \in Seq(Entry)
          /\ Len(before) = IF 1 <= position - 1 THEN position - 1 - 1 + 1 ELSE 0
          /\ \A k \in 1 .. position - 1 - 1 + 1 : before[k] = list[1 + k - 1]
      BY <3>1, SubSeqProperties
    <3>. HIDE DEF before
    <3>. QED  BY <2>1, <3>2
  <2>4. /\ after \in Seq(Entry) /\ Len(after) = Len(list) - position + 1
        /\ \A k \in 1 .. Len(list) - position + 1 : after[k] = list[position + k - 1]
    <3>1. position \in Int /\ Len(list) \in Int /\ \A k \in position .. Len(list) : list[k] \in Entry
      BY <1>1, <2>1
    <3>2. /\ after \in Seq(Entry)
          /\ Len(after) = IF position <= Len(list) THEN Len(list) - position + 1 ELSE 0
          /\ \A k \in 1 .. Len(list) - position + 1 : after[k] = list[position + k - 1]
      BY <3>1, SubSeqProperties
    <3>. HIDE DEF after
    <3>. QED  BY <1>1, <2>1, <3>2
  <2>. HIDE DEF before, after
  <2>5. /\ before \o <<e>> \in Seq(Entry) /\ Len(before \o <<e>>) = position
        /\ \A k \in 1 .. position : (before \o <<e>>)[k] = IF k < position THEN list[k] ELSE e
    <3>1. <<e>> \in Seq(Entry) /\ Len(<<e>>) = 1 /\ <<e>>[1] = e
      OBVIOUS
    <3>2. /\ before \o <<e>> \in Seq(Entry) /\ Len(before \o <<e>>) = Len(before) + Len(<<e>>)
          /\ \A k \in 1 .. Len(before) + Len(<<e>>) :
               (before \o <<e>>)[k] = IF k <= Len(before) THEN before[k] ELSE <<e>>[k - Len(before)]
      BY <2>3, <3>1, ConcatProperties
    <3>. QED  BY <2>1, <2>3, <3>1, <3>2
  <2>6. /\ new \in Seq(Entry) /\ Len(new) = Len(list) + 1
        /\ \A k \in 1 .. Len(list) + 1 :
             new[k] = IF k < position THEN list[k] ELSE IF k = position THEN e ELSE list[k - 1]
    <3>1. /\ new \in Seq(Entry) /\ Len(new) = Len(before \o <<e>>) + Len(after)
          /\ \A k \in 1 .. Len(before \o <<e>>) + Len(after) :
               new[k] = IF k <= Len(before \o <<e>>) THEN (before \o <<e>>)[k]
                        ELSE after[k - Len(before \o <<e>>)]
      BY <2>4, <2>5, ConcatProperties
    <3>. HIDE DEF new
    <3>2. ASSUME NEW k \in 1 .. Len(list) + 1, ~(k <= position)
          PROVE  new[k] = list[k - 1]
      <4>1. k - position \in 1 .. Len(list) - position + 1 /\ position + (k - position) - 1 = k - 1
        BY <1>1, <2>1, <3>2
      <4>2. after[k - position] = list[k - 1]
        BY <2>4, <4>1
      <4>3. k \in 1 .. Len(before \o <<e>>) + Len(after) /\ ~(k <= Len(before \o <<e>>))
        BY <1>1, <2>1, <2>4, <2>5, <3>2
      <4>4. new[k] = after[k - Len(before \o <<e>>)]
        BY <3>1, <4>3
      <4>. QED  BY <2>5, <4>2, <4>4
    <3>3. ASSUME NEW k \in 1 .. Len(list) + 1, k <= position
          PROVE  new[k] = IF k < position THEN list[k] ELSE e
      <4>1. k \in 1 .. Len(before \o <<e>>) + Len(after) /\ k <= Len(before \o <<e>>) /\ k \in 1 .. position
        BY <1>1, <2>1, <2>4, <2>5, <3>3
      <4>2. new[k] = (before \o <<e>>)[k]
        BY <3>1, <4>1
      <4>. QED  BY <2>5, <4>1, <4>2
    <3>4. Len(new) = Len(list) + 1
      <4>1. Len(new) = Len(before \o <<e>>) + Len(after)
        BY <3>1
      <4>2. Len(before \o <<e>>) = position /\ Len(after) = Len(list) - position + 1
        BY <2>4, <2>5
      <4>3. position \in Nat /\ Len(list) \in Nat
        BY <1>1, <2>1
      <4>. QED  BY <4>1, <4>2, <4>3
    <3>5. ASSUME NEW k \in 1 .. Len(list) + 1
          PROVE  new[k] = IF k < position THEN list[k] ELSE IF k = position THEN e ELSE list[k - 1]
      <4>1. k \in Nat /\ position \in Nat
        BY <1>1, <2>1
      <4>2. CASE k <= position
        BY <3>3, <4>1, <4>2
      <4>3. CASE ~(k <= position)
        BY <3>2, <4>1, <4>3
      <4>. QED  BY <4>2, <4>3
    <3>. QED  BY <3>1, <3>4, <3>5
  <2>. HIDE DEF new
  <2>7. NewestFirst(new)
    <3>. SUFFICES ASSUME NEW i \in 1 .. Len(list) + 1, NEW j \in 1 .. Len(list) + 1, i < j
                  PROVE  new[i].date >= new[j].date /\ new[i].version # new[j].version
      BY <2>6 DEF NewestFirst
    <3>1. \A k, l \in DOMAIN list : k < l => list[k].date >= list[l].date
                                            /\ list[k].version # list[l].version
      BY DEF Kept, NewestFirst
    <3>2. CASE j < position
      BY <1>1, <2>1, <2>6, <3>1, <3>2, SMTT(30)
    <3>3. CASE j = position
      <4>1. i \in DOMAIN list /\ new[i] = list[i] /\ new[j] = e
        BY <1>1, <2>1, <2>6, <3>3
      <4>. QED  BY <1>1, <1>4, <2>1, <3>3, <4>1
    <3>4. CASE j > position /\ i < position
      <4>1. i \in DOMAIN list /\ j - 1 \in DOMAIN list /\ new[i] = list[i] /\ new[j] = list[j - 1]
        BY <1>1, <2>1, <2>6, <3>4
      <4>2. i < j - 1
        BY <2>1, <3>4
      <4>. QED  BY <3>1, <4>1, <4>2
    <3>5. CASE j > position /\ i = position
      <4>1. position \in DOMAIN list /\ j - 1 \in DOMAIN list /\ new[i] = e /\ new[j] = list[j - 1]
        BY <1>1, <2>1, <2>6, <3>5
      <4>2. list[position].date >= list[j - 1].date
        BY <1>1, <2>1, <3>1, <3>5, <4>1
      <4>. QED  BY <1>1, <1>4, <2>1, <4>1, <4>2
    <3>6. CASE i > position
      <4>1. /\ i - 1 \in DOMAIN list /\ j - 1 \in DOMAIN list /\ i - 1 < j - 1
            /\ new[i] = list[i - 1] /\ new[j] = list[j - 1]
        BY <1>1, <2>1, <2>6, <3>6
      <4>. QED  BY <3>1, <4>1
    <3>. QED  BY <2>1, <3>2, <3>3, <3>4, <3>5, <3>6
  <2>. QED  BY <1>1, <1>4, <2>2, <2>6, <2>7 DEF Kept
<1>. QED  BY <1>2, <1>3, <1>4 DEF Kept

-----------------------------------------------------------------------------
(***************************************************************************)
(* The inductive invariant.  A whole file of n opens and is in order.      *)
(***************************************************************************)
Whole(n, f) ==
  /\ Opens(n, f) /\ f.release \in Nat
  /\ n = "history" => \A l \in f.lines : NewestFirst(l.value)

Histories == \A a \in Attrs : NewestFirst(history[a])

\* A new publication is younger than all before it.
Served == \A n \in Names :
  body[n] = Absent \/ (Whole(n, body[n]) /\ body[n].release <= releases)

Begun == \A u \in Updaters, n \in Names :
  begun[u][n] \in Nat /\ begun[u][n] <= Release(body[n])

Installed == \A n \in Names \ spoilt : dest[n] = Absent \/ Whole(n, dest[n])

(***************************************************************************)
(* What is compared with its digest is cut or whole, and whole from there  *)
(* on.                                                                     *)
(***************************************************************************)
Fresh(u) == Whole(Name(u), got[u]) /\ got[u].release >= begun[u][Name(u)]

Fetched(u) ==
  /\ upc[u] = "index" => art[u] = 1
  /\ upc[u] = "digest" => got[u] = Cut \/ Fresh(u)
  /\ upc[u] \in {"write", "fill", "rename"} => Fresh(u)

(***************************************************************************)
(* What nobody shares with the update is the beginning of the file it has  *)
(* open, or what it received, or gone.                                     *)
(***************************************************************************)
Holding(u) ==
  /\ opened[u] # "none" => upc[u] = "fill"
  /\ opened[u] = "dest" => Name(u) \in shared /\ Name(u) \in spoilt
  /\ Name(u) \notin shared /\ upc[u] = "fill" =>
       tmp[Name(u)] = IF opened[u] = "tmp" THEN Cut ELSE Absent
  /\ Name(u) \notin shared /\ upc[u] = "rename" => tmp[Name(u)] \in {got[u], Absent}

Alone == \A n \in Names \ shared, u, v \in Updaters : Has(u, n) /\ Has(v, n) => u = v

(***************************************************************************)
(* Every sidecar the update is done with has failed or is current, if the  *)
(* update has run by itself.                                               *)
(***************************************************************************)
Solo == \A u, v \in Updaters : u # v /\ ~Ended(u) /\ ~Ended(v) => u \in beside /\ v \in beside

Running == {"prepare", "get", "digest", "write", "fill", "rename", "discard"}
Newer(u, n) == dest[n] # Absent /\ Release(dest[n]) >= begun[u][n]
Current(u, n) == n \in failed[u] \/ Newer(u, n)

Settled(u) == u \notin beside =>
  /\ upc[u] \in Running /\ art[u] = 2 => Current(u, "history")
  /\ upc[u] = "report" => \A n \in Names : Current(u, n)
  /\ upc[u] \in {"fill", "rename"} => Name(u) \notin shared
  /\ upc[u] = "ok" => \A n \in Names \ (spoilt \cup stale[u]) : dest[n] = Absent \/ Newer(u, n)

\* What is received after an update is at least as new.
Carries(v) == upc[v] \in {"digest", "write", "fill", "rename"} /\ got[v] # Cut

Later == \A u, v \in Updaters :
  u # v /\ u \notin beside /\ upc[u] = "ok" /\ Carries(v) => Release(got[v]) >= begun[u][Name(v)]

Shapes == /\ tmp = [n \in Names |-> tmp[n]] /\ dest = [n \in Names |-> dest[n]]
          /\ body = [n \in Names |-> body[n]] /\ got = [u \in Updaters |-> got[u]]
          /\ begun = [u \in Updaters |-> [n \in Names |-> begun[u][n]]]

IInv ==
  /\ TypeOK /\ Shapes /\ Histories /\ Served /\ Begun
  /\ Installed /\ Alone /\ Solo /\ Later
  /\ \A u \in Updaters : Fetched(u) /\ Holding(u) /\ Settled(u)

LEMMA Start == Init => IInv
<1>. SUFFICES ASSUME Init PROVE IInv
  OBVIOUS
<1>. USE DEF Init, Names
<1>1. TypeOK
  <2>1. << >> \in BoundedSeq(Entry, MaxVersions) /\ << >> \in BoundedSeq(0 .. MaxPrefixes, 1)
    <3>1. << >> \in Seq(Entry) /\ << >> \in Seq(0 .. MaxPrefixes) /\ Len(<< >>) = 0
      OBVIOUS
    <3>2. MaxVersions \in Nat /\ 0 <= MaxVersions
      BY UpdateAssumption
    <3>3. Len(<< >>) <= MaxVersions /\ Len(<< >>) <= 1
      BY <3>1, <3>2
    <3>. QED  BY <3>1, <3>2, <3>3, Bounded
  <2>. QED  BY <2>1, UpdateAssumption DEF TypeOK
<1>2. Shapes
  BY DEF Shapes
<1>3. Histories /\ Served /\ Installed
  BY DEF Histories, Served, Installed, NewestFirst
<1>4. Begun
  BY DEF Begun, Release, Absent
<1>5. \A u \in Updaters : upc[u] = "idle"
  OBVIOUS
<1>6. Alone /\ Solo /\ Later
  BY <1>5 DEF Alone, Has, Solo, Ended, Later
<1>7. \A u \in Updaters : Fetched(u) /\ Holding(u) /\ Settled(u)
  BY DEF Fetched, Holding, Settled, Running
<1>. QED  BY <1>1, <1>2, <1>3, <1>4, <1>6, <1>7 DEF IInv

-----------------------------------------------------------------------------
(***************************************************************************)
(* The server: what the updates hold and have installed is left alone.     *)
(***************************************************************************)
LEMMA Aside ==
  ASSUME IInv, UNCHANGED updateVars
  PROVE  /\ Installed' /\ Alone' /\ Solo' /\ Later'
         /\ \A u \in Updaters : Fetched(u)' /\ Holding(u)' /\ Settled(u)'
<1>. USE DEF IInv, updateVars, fileVars
<1>1. Installed' /\ Alone'
  BY DEF Installed, Whole, Opens, Alone, Has, Name
<1>2. Solo' /\ Later'
  BY DEF Solo, Ended, Later, Carries, Release, Name
<1>3. ASSUME NEW u \in Updaters PROVE Fetched(u)' /\ Holding(u)' /\ Settled(u)'
  <2>1. Fetched(u)'
    BY DEF Fetched, Fresh, Whole, Opens, Name
  <2>2. Holding(u)'
    BY DEF Holding, Name
  <2>3. Settled(u)'
    BY DEF Settled, Current, Newer, Name
  <2>. QED  BY <2>1, <2>2, <2>3
<1>. QED  BY <1>1, <1>2, <1>3

LEMMA RecordVersionStep ==
  ASSUME IInv, NEW a \in Attrs, NEW e \in Entry, RecordVersion(a, e)
  PROVE  IInv'
<1>. USE DEF IInv, RecordVersion, updateVars, fileVars
<1>1. MaxVersions \in Nat /\ {MaxRecords} \subseteq Nat
  BY UpdateAssumption
<1>2. Kept(history[a])
  <2>1. history[a] \in BoundedSeq(Entry, MaxVersions)
    BY DEF TypeOK
  <2>. QED  BY <1>1, <2>1, Bounded DEF Kept, Histories
<1>3. Kept(Recorded(history[a], e))
  BY <1>2, Recording
<1>4. TypeOK'
  <2>1. Recorded(history[a], e) \in BoundedSeq(Entry, MaxVersions)
    BY <1>1, <1>3, Bounded DEF Kept
  <2>2. history' \in [Attrs -> BoundedSeq(Entry, MaxVersions)]
    BY <2>1 DEF TypeOK
  <2>3. records' \in 0 .. MaxRecords
    BY <1>1 DEF TypeOK
  <2>. QED  BY <2>2, <2>3 DEF TypeOK
<1>5. Histories'
  BY <1>3 DEF Histories, TypeOK, Kept
<1>6. Shapes' /\ Served' /\ Begun'
  BY DEF Shapes, Served, Begun, Whole, Opens
<1>. QED  BY <1>4, <1>5, <1>6, Aside

LEMMA RecordOptionStep ==
  ASSUME IInv, NEW a \in Attrs, NEW d \in 0 .. MaxPrefixes, RecordOption(a, d)
  PROVE  IInv'
<1>. USE DEF IInv, RecordOption, updateVars, fileVars
<1>1. TypeOK'
  <2>1. Normal(d) \in 0 .. MaxPrefixes
    BY UpdateAssumption DEF Normal
  <2>2. <<Normal(d)>> \in Seq(0 .. MaxPrefixes) /\ Len(<<Normal(d)>>) <= 1
    BY <2>1
  <2>3. <<Normal(d)>> \in BoundedSeq(0 .. MaxPrefixes, 1)
    BY <2>2, Bounded
  <2>4. options' \in [Attrs -> BoundedSeq(0 .. MaxPrefixes, 1)]
    BY <2>3 DEF TypeOK
  <2>5. records' \in 0 .. MaxRecords
    BY UpdateAssumption DEF TypeOK
  <2>. QED  BY <2>4, <2>5 DEF TypeOK
<1>2. Shapes' /\ Served' /\ Begun' /\ Histories'
  BY DEF Shapes, Served, Begun, Whole, Opens, Histories
<1>. QED  BY <1>1, <1>2, Aside

LEMMA PublishStep ==
  ASSUME IInv, NEW n \in Names, Publish(n)
  PROVE  IInv'
<1>. USE DEF IInv, Publish, updateVars, fileVars
<1>. DEFINE file == [state |-> "whole", release |-> releases + 1,
                     lines |-> IF n = "history" THEN Lines(history) ELSE Lines(options)]
<1>1. releases \in Nat /\ releases' = releases + 1 /\ releases' \in 0 .. MaxReleases
  BY UpdateAssumption DEF TypeOK
<1>2. n = "history" => \A l \in file.lines : Len(l.value) <= MaxVersions /\ NewestFirst(l.value)
  <2>1. ASSUME NEW a \in Attrs PROVE Len(history[a]) <= MaxVersions
    <3>1. history[a] \in BoundedSeq(Entry, MaxVersions) /\ MaxVersions \in Nat
      BY UpdateAssumption DEF TypeOK
    <3>. QED  BY <3>1, Bounded
  <2>. QED  BY <2>1 DEF Lines, Histories
<1>3. n = "options" => Cardinality(file.lines) <= MaxOptions
  BY DEF Names
<1>4. Whole(n, file) /\ file.release = releases + 1
  BY <1>1, <1>2, <1>3 DEF Whole, Opens
<1>5. body' = [body EXCEPT ![n] = file]
  OBVIOUS
<1>. HIDE DEF file
<1>6. TypeOK'
  BY <1>1 DEF TypeOK
<1>7. Shapes' /\ Histories'
  BY <1>5, ZenonT(40) DEF Shapes, Histories
<1>8. Served'
  BY <1>1, <1>4, <1>5 DEF Served, Shapes, Whole, Opens
<1>9. Begun'
  <2>. SUFFICES ASSUME NEW u \in Updaters, NEW k \in Names
                PROVE  begun[u][k] \in Nat /\ begun[u][k] <= Release(body'[k])
    BY DEF Begun
  <2>1. begun[u][k] \in Nat /\ begun[u][k] <= Release(body[k])
    BY DEF Begun
  <2>2. CASE k # n
    BY <1>5, <2>1, <2>2 DEF Shapes
  <2>3. CASE k = n
    <3>1. file # Absent /\ body'[k] = file
      BY <1>4, <1>5, <2>3 DEF Shapes, Whole, Opens, Absent
    <3>2. Release(body[k]) \in Nat /\ Release(body[k]) <= releases
      BY <1>1 DEF Served, Release, Whole, Absent
    <3>. QED  BY <1>1, <1>4, <2>1, <3>1, <3>2 DEF Release, Whole, Opens
  <2>. QED  BY <2>2, <2>3
<1>. QED  BY <1>6, <1>7, <1>8, <1>9, Aside

LEMMA PublishDigestStep ==
  ASSUME IInv, NEW n \in Names, PublishDigest(n)
  PROVE  IInv'
<1>. USE DEF IInv, PublishDigest, updateVars, fileVars
<1>1. body[n].release \in 0 .. MaxReleases
  BY UpdateAssumption DEF Served, Whole, TypeOK
<1>2. TypeOK'
  BY <1>1 DEF TypeOK
<1>3. Shapes' /\ Served' /\ Begun' /\ Histories'
  BY DEF Shapes, Served, Begun, Whole, Opens, Histories
<1>. QED  BY <1>2, <1>3, Aside

-----------------------------------------------------------------------------
(***************************************************************************)
(* A step of one updater: the server is left alone, and so is what every   *)
(* other updater keeps to itself.                                          *)
(***************************************************************************)
Phases == Running \cup {"idle", "index", "report", "ok", "err"}

Own(u) == \A v \in Updaters \ {u} :
  /\ upc'[v] = upc[v] /\ art'[v] = art[v] /\ got'[v] = got[v]
  /\ failed'[v] = failed[v] /\ stale'[v] = stale[v] /\ begun'[v] = begun[v]

LEMMA ServerAside ==
  ASSUME IInv, UNCHANGED <<serverVars, begun>>
  PROVE  Histories' /\ Served' /\ Begun'
<1>. USE DEF IInv, serverVars
<1>1. Histories' /\ Served'
  BY DEF Histories, Served, Whole, Opens
<1>2. Begun'
  BY DEF Begun
<1>. QED  BY <1>1, <1>2

LEMMA Naming ==
  ASSUME TypeOK, NEW u \in Updaters
  PROVE  /\ Name(u) \in Names /\ art[u] \in {1, 2}
         /\ art[u] = 1 => Name(u) = "history"
         /\ art[u] = 2 => Name(u) = "options"
<1>. QED  BY DEF TypeOK, Name, Artifacts, Names

(***************************************************************************)
(* What a step of u may do to the others: install what it received, or     *)
(* spoil a name, and receive no older body than the server's.              *)
(***************************************************************************)
Installs(u) == \A n \in Names \ spoilt' :
  \/ n \notin spoilt /\ dest'[n] = dest[n]
  \/ upc[u] = "rename" /\ n = Name(u) /\ dest'[n] = got[u]

Receives(u) == Carries(u)' =>
  \/ Carries(u) /\ got'[u] = got[u] /\ art'[u] = art[u]
  \/ upc[u] = "get" /\ got'[u] = body[Name(u)] /\ art'[u] = art[u]

LEMMA Bystanders ==
  ASSUME IInv, NEW u \in Updaters, ~Ended(u), Own(u), Installs(u), Receives(u),
         UNCHANGED beside
  PROVE  Solo' /\ Later' /\ \A v \in Updaters \ {u} : Fetched(v)' /\ Settled(v)'
<1>. USE DEF IInv
<1>1. Solo'
  <2>. SUFFICES ASSUME NEW x \in Updaters, NEW y \in Updaters, x # y, ~Ended(x)', ~Ended(y)'
                PROVE  x \in beside /\ y \in beside
    BY DEF Solo
  <2>1. ~Ended(x) /\ ~Ended(y)
    BY DEF Own, Ended
  <2>. QED  BY <2>1 DEF Solo
<1>2. \A v \in Updaters \ {u} : v \notin beside => Ended(v) /\ Ended(v)'
  BY DEF Solo, Own, Ended
<1>3. \A v \in Updaters \ {u} : Fetched(v)'
  BY DEF Fetched, Fresh, Own, Name, Whole, Opens
<1>4. ASSUME NEW v \in Updaters \ {u} PROVE Settled(v)'
  <2>. SUFFICES ASSUME v \notin beside PROVE Settled(v)'
    BY DEF Settled
  <2>1. upc'[v] \in {"idle", "ok", "err"}
    BY <1>2 DEF Ended
  <2>. SUFFICES ASSUME upc[v] = "ok", NEW n \in Names \ (spoilt' \cup stale[v])
                PROVE  dest'[n] = Absent \/ Newer(v, n)'
    BY <2>1 DEF Settled, Running, Own
  <2>2. n \notin spoilt =>
          dest[n] = Absent \/ (dest[n] # Absent /\ Release(dest[n]) >= begun[v][n])
    BY DEF Settled, Newer
  <2>3. CASE n \notin spoilt /\ dest'[n] = dest[n]
    BY <2>2, <2>3 DEF Newer, Own, Release
  <2>4. CASE upc[u] = "rename" /\ n = Name(u) /\ dest'[n] = got[u]
    <3>1. Fresh(u) /\ got[u] # Cut /\ got[u] # Absent
      BY <2>4 DEF Fetched, Fresh, Whole, Opens, Cut, Absent
    <3>2. Release(got[u]) >= begun[v][n]
      BY <2>4, <3>1 DEF Later, Carries
    <3>. QED  BY <2>4, <3>1, <3>2 DEF Newer, Own, Release
  <2>. QED  BY <2>3, <2>4 DEF Installs
<1>5. Later'
  <2>. SUFFICES ASSUME NEW x \in Updaters, NEW y \in Updaters, x # y, x \notin beside,
                       upc'[x] = "ok", Carries(y)'
                PROVE  Release(got'[y]) >= begun'[x][Name(y)']
    BY DEF Later, Release
  <2>1. x # u
    <3>. SUFFICES ASSUME x = u PROVE FALSE
      OBVIOUS
    <3>1. ~Ended(y)
      BY DEF Own, Carries, Ended
    <3>. QED  BY <3>1 DEF Solo
  <2>2. upc[x] = "ok" /\ begun'[x] = begun[x]
    BY <2>1 DEF Own
  <2>3. CASE Carries(y) /\ got'[y] = got[y] /\ art'[y] = art[y]
    BY <2>2, <2>3 DEF Later, Name
  <2>4. CASE y = u /\ upc[u] = "get" /\ got'[u] = body[Name(u)] /\ art'[u] = art[u]
    <3>1. Name(u) \in Names /\ Name(u)' = Name(u)
      BY <2>4, Naming DEF Name
    <3>2. begun[x][Name(u)] \in Nat /\ begun[x][Name(u)] <= Release(body[Name(u)])
      BY <3>1 DEF Begun
    <3>3. Release(body[Name(u)]) \in Nat
      BY <3>1 DEF Served, Release, Whole, Absent
    <3>. QED  BY <2>2, <2>4, <3>1, <3>2, <3>3
  <2>5. CASE y # u
    <3>1. Carries(y) /\ got'[y] = got[y] /\ art'[y] = art[y]
      BY <2>5 DEF Own, Carries
    <3>. QED  BY <2>3, <3>1
  <2>. QED  BY <2>3, <2>4, <2>5 DEF Receives
<1>. QED  BY <1>1, <1>3, <1>4, <1>5

LEMMA Filing ==
  ASSUME IInv, NEW u \in Updaters, ~Ended(u), Own(u), Installs(u), Receives(u),
         UNCHANGED <<serverVars, beside>>,
         TypeOK', Shapes', Begun', Fetched(u)', Settled(u)',
         Installed', Alone', \A v \in Updaters : Holding(v)'
  PROVE  IInv'
<1>1. Histories' /\ Served'
  BY DEF IInv, Histories, Served, serverVars, Whole, Opens
<1>2. Solo' /\ Later' /\ \A v \in Updaters \ {u} : Fetched(v)' /\ Settled(v)'
  BY Bystanders
<1>. QED  BY <1>1, <1>2 DEF IInv

\* A step that has no file open and leaves the files alone.
LEMMA Quiet ==
  ASSUME IInv, NEW u \in Updaters, Own(u), UNCHANGED fileVars,
         upc[u] \notin {"fill"}, upc'[u] \notin {"fill", "rename"}
  PROVE  Installed' /\ Alone' /\ \A v \in Updaters : Holding(v)'
<1>. USE DEF IInv, fileVars
<1>1. Installed'
  BY DEF Installed, Whole, Opens
<1>2. \A v \in Updaters, n \in Names : Has(v, n)' => Has(v, n) /\ v # u
  BY DEF Has, Own, Name
<1>3. Alone'
  BY <1>2 DEF Alone
<1>4. Holding(u)'
  BY DEF Holding
<1>5. \A v \in Updaters \ {u} : Holding(v)'
  BY DEF Holding, Own, Name
<1>. QED  BY <1>1, <1>3, <1>4, <1>5

\* After an artifact, given that it failed or is current.
LEMMA Proceeding ==
  ASSUME IInv, NEW u \in Updaters, NEW lost \in BOOLEAN, Proceed(u, lost),
         upc[u] \in Running, UNCHANGED <<stale, begun, beside>>,
         u \notin beside => \A n \in Names : Newer(u, n) => Newer(u, n)',
         NEW name, name = Name(u), u \in beside \/ lost \/ Newer(u, name)'
  PROVE  /\ upc' \in [Updaters -> Phases]
         /\ upc'[u] \in {"prepare", "report"} /\ Own(u)
         /\ art' \in [Updaters -> 1 .. 2] /\ attempt' \in [Updaters -> 1 .. MaxRetries]
         /\ failed' \in [Updaters -> SUBSET Names]
         /\ got' = [v \in Updaters |-> IF v = u THEN Absent ELSE got[v]]
         /\ Fetched(u)' /\ Settled(u)'
<1>. USE DEF IInv, Proceed, Goto
<1>2. Name(u) \in Names /\ art[u] \in {1, 2} /\ (art[u] = 1 => Name(u) = "history")
      /\ (art[u] = 2 => Name(u) = "options")
  BY Naming
<1>3. got' = [v \in Updaters |-> IF v = u THEN Absent ELSE got[v]]
  BY DEF Shapes
<1>4. /\ attempt' \in [Updaters -> 1 .. MaxRetries] /\ failed' \in [Updaters -> SUBSET Names]
      /\ failed'[u] = IF lost THEN failed[u] \cup {Name(u)} ELSE failed[u]
  BY <1>2, UpdateAssumption DEF TypeOK
<1>5. u \notin beside => \A n \in Names : Current(u, n) => Current(u, n)'
  BY <1>4 DEF Current
<1>6. u \notin beside => Current(u, name)'
  <2>1. CASE lost
    BY <1>4, <2>1 DEF Current
  <2>2. CASE ~lost
    BY <2>2 DEF Current
  <2>. QED  BY <2>1, <2>2
<1>7. CASE art[u] = 1
  <2>1. /\ upc' = [upc EXCEPT ![u] = "prepare"] /\ art' = [art EXCEPT ![u] = 2]
    BY <1>7 DEF Artifacts, TypeOK
  <2>2. upc'[u] = "prepare" /\ art'[u] = 2 /\ art' \in [Updaters -> 1 .. 2]
    BY <2>1 DEF TypeOK
  <2>3. upc' \in [Updaters -> Phases] /\ Own(u)
    BY <1>3, <2>1 DEF TypeOK, Own, Phases, Running
  <2>4. Fetched(u)'
    BY <2>2 DEF Fetched
  <2>5. Settled(u)'
    BY <1>2, <1>6, <1>7, <2>2 DEF Settled
  <2>. QED  BY <1>3, <1>4, <2>2, <2>3, <2>4, <2>5
<1>8. CASE art[u] = 2
  <2>1. /\ upc' = [upc EXCEPT ![u] = "report"] /\ art' = [art EXCEPT ![u] = 1]
    BY <1>8 DEF Artifacts, TypeOK
  <2>2. upc'[u] = "report" /\ art' \in [Updaters -> 1 .. 2]
    BY <2>1 DEF TypeOK
  <2>3. upc' \in [Updaters -> Phases] /\ Own(u)
    BY <1>3, <2>1 DEF TypeOK, Own, Phases, Running
  <2>4. Fetched(u)'
    BY <2>2 DEF Fetched
  <2>5. u \notin beside => Current(u, "history")'
    BY <1>5, <1>8 DEF Settled, Names
  <2>6. Settled(u)'
    BY <1>2, <1>6, <1>8, <2>2, <2>5 DEF Settled, Running, Names
  <2>. QED  BY <1>3, <1>4, <2>2, <2>3, <2>4, <2>6
<1>. QED  BY <1>2, <1>7, <1>8

\* A step that stays with its artifact and installs nothing of its own.
LEMMA Staying ==
  ASSUME IInv, NEW u \in Updaters, NEW next \in Running, Goto(u, next),
         upc[u] \in Running, UNCHANGED <<art, failed, stale, begun, beside>>,
         u \notin beside => UNCHANGED dest /\ (upc'[u] \in {"fill", "rename"} => Name(u) \notin shared')
  PROVE  Settled(u)'
<1>. USE DEF IInv, Goto
<1>1. upc'[u] = next
  BY DEF TypeOK
<1>2. u \notin beside /\ art[u] = 2 => Current(u, "history")
  BY DEF Settled
<1>3. u \notin beside /\ art[u] = 2 => Current(u, "history")'
  BY <1>2 DEF Current, Newer
<1>4. Name(u)' = Name(u)
  BY DEF Name
<1>. QED  BY <1>1, <1>3, <1>4 DEF Settled, Running

\* The attempt has failed: nothing is known of what was received.
LEMMA Retrying ==
  ASSUME IInv, NEW u \in Updaters, Again(u), upc[u] \in Running,
         UNCHANGED <<stale, begun, beside>>,
         \A v \in Updaters \ {u} : got'[v] = got[v],
         u \notin beside => UNCHANGED dest
  PROVE  /\ upc' \in [Updaters -> Phases]
         /\ upc'[u] \in {"get", "discard"} /\ Own(u)
         /\ attempt' \in [Updaters -> 1 .. MaxRetries]
         /\ UNCHANGED <<art, failed>>
         /\ Fetched(u)' /\ Settled(u)'
<1>. USE DEF IInv
<1>2. PICK next \in {"get", "discard"} : Goto(u, next)
  BY DEF Again
<1>3. /\ upc' \in [Updaters -> Phases]
      /\ upc'[u] \in {"get", "discard"}
  BY <1>2 DEF Goto, TypeOK, Phases, Running
<1>4. attempt' \in [Updaters -> 1 .. MaxRetries]
  <2>1. MaxRetries \in Nat /\ attempt[u] \in 1 .. MaxRetries
    BY UpdateAssumption DEF TypeOK
  <2>2. attempt[u] < MaxRetries => attempt[u] + 1 \in 1 .. MaxRetries
    BY <2>1
  <2>. QED  BY <2>2 DEF Again, TypeOK
<1>5. UNCHANGED <<art, failed>>
  BY DEF Again
<1>6. Own(u)
  BY <1>2, <1>5 DEF Goto, TypeOK, Own
<1>7. Fetched(u)'
  BY <1>3 DEF Fetched
<1>8. Settled(u)'
  BY <1>2, <1>3, <1>5, Staying DEF Running
<1>. QED  BY <1>3, <1>4, <1>5, <1>6, <1>7, <1>8

-----------------------------------------------------------------------------
(***************************************************************************)
(* The steps of an updater, one lemma each.                                *)
(***************************************************************************)
\* The others are excepted if they run, and so is the one that begins then.
LEMMA BeginStep ==
  ASSUME IInv, NEW u \in Updaters, Begin(u)
  PROVE  IInv'
<1>. USE DEF IInv, Begin, Goto
<1>1. TypeOK'
  <2>1. runs' \in 0 .. MaxRuns /\ 1 \in 1 .. MaxRetries
    BY UpdateAssumption DEF TypeOK
  <2>2. beside' \subseteq Updaters
    BY DEF TypeOK, Others
  <2>. QED  BY <2>1, <2>2 DEF TypeOK, serverVars, fileVars
<1>2. Shapes' /\ Histories' /\ Served'
  <2>1. Shapes'
    BY DEF Shapes, serverVars, fileVars
  <2>. QED  BY <2>1 DEF Histories, Served, serverVars, Whole, Opens
<1>3. upc'[u] = "index" /\ art'[u] = 1 /\ Own(u)
  BY DEF TypeOK, Shapes, Own
<1>4. Begun'
  <2>1. \A n \in Names : Release(body[n]) \in Nat
    BY DEF Served, Release, Whole, Absent
  <2>2. \A n \in Names : begun'[u][n] = Release(body[n]) /\ body' = body
    BY DEF Shapes, serverVars
  <2>. QED  BY <1>3, <2>1, <2>2 DEF Begun, Release, Own
<1>5. Installed' /\ Alone' /\ \A v \in Updaters : Holding(v)'
  BY <1>3, Quiet DEF Ended
<1>6. \A v \in Updaters \ {u} : v \notin beside' => v \notin beside /\ Ended(v)
  BY DEF Others
<1>7. Solo'
  <2>. SUFFICES ASSUME NEW x \in Updaters, NEW y \in Updaters, x # y, ~Ended(x)', ~Ended(y)'
                PROVE  x \in beside' /\ y \in beside'
    BY DEF Solo
  <2>1. CASE x # u /\ y # u
    <3>1. ~Ended(x) /\ ~Ended(y)
      BY <1>3, <2>1 DEF Ended, Own
    <3>. QED  BY <1>6, <3>1, <2>1
  <2>2. CASE x = u
    <3>1. y \in Others(u)
      BY <1>3, <2>2 DEF Ended, Own, Others
    <3>. QED  BY <2>2, <3>1
  <2>3. CASE y = u
    <3>1. x \in Others(u)
      BY <1>3, <2>3 DEF Ended, Own, Others
    <3>. QED  BY <2>3, <3>1
  <2>. QED  BY <2>1, <2>2, <2>3
<1>8. Later'
  <2>. SUFFICES ASSUME NEW x \in Updaters, NEW y \in Updaters, x # y, x \notin beside',
                       upc'[x] = "ok", Carries(y)'
                PROVE  Release(got'[y]) >= begun'[x][Name(y)']
    BY DEF Later, Release
  <2>1. x # u /\ y # u
    BY <1>3 DEF Carries
  <2>2. x \notin beside /\ upc[x] = "ok" /\ Carries(y)
    BY <1>3, <1>6, <2>1 DEF Own, Carries
  <2>. QED  BY <1>3, <2>1, <2>2 DEF Later, Own, Name
<1>9. Fetched(u)' /\ Settled(u)'
  BY <1>3 DEF Fetched, Settled, Running
<1>10. ASSUME NEW v \in Updaters \ {u} PROVE Fetched(v)' /\ Settled(v)'
  <2>1. Fetched(v)'
    BY <1>3 DEF Fetched, Fresh, Own, Name, Whole, Opens
  <2>2. v \notin beside' => v \notin beside
    BY <1>6
  <2>3. Settled(v)'
    BY <1>3, <2>2 DEF Settled, Own, Current, Newer, Release, fileVars, Name
  <2>. QED  BY <2>1, <2>3
<1>. QED  BY <1>1, <1>2, <1>4, <1>5, <1>7, <1>8, <1>9, <1>10

\* The steps that leave the files alone.
LEMMA Moving ==
  ASSUME IInv, NEW u \in Updaters, ~Ended(u), upc[u] \notin {"fill"}, Own(u), Receives(u),
         UNCHANGED <<serverVars, begun, beside, fileVars>>,
         upc'[u] \notin {"fill", "rename"}, TypeOK', Shapes', Fetched(u)', Settled(u)'
  PROVE  IInv'
<1>1. Installed' /\ Alone' /\ \A v \in Updaters : Holding(v)'
  BY Quiet
<1>2. Begun'
  BY ServerAside
<1>3. Installs(u)
  BY DEF Installs, fileVars
<1>. QED  BY <1>1, <1>2, <1>3, Filing

LEMMA InstallIndexStep ==
  ASSUME IInv, NEW u \in Updaters, InstallIndex(u)
  PROVE  IInv'
<1>. USE DEF IInv, InstallIndex, Goto
<1>1. upc'[u] \in {"prepare", "err"} /\ art[u] = 1 /\ Own(u)
  BY DEF TypeOK, Fetched, Own
<1>2. TypeOK' /\ Shapes'
  <2>1. upc' \in [Updaters -> Phases]
    BY DEF TypeOK, Phases, Running
  <2>. QED  BY <2>1 DEF TypeOK, Phases, Running, serverVars, fileVars, Shapes
<1>3. Fetched(u)' /\ Settled(u)'
  BY <1>1 DEF Fetched, Settled
<1>4. Receives(u)
  BY <1>1 DEF Receives, Carries
<1>. QED  BY <1>1, <1>2, <1>3, <1>4, Moving DEF Ended

LEMMA PrepareStep ==
  ASSUME IInv, NEW u \in Updaters, Prepare(u)
  PROVE  IInv'
<1>. USE DEF IInv, Prepare
<1>1. CASE Goto(u, "get") /\ UNCHANGED <<art, attempt, failed, got>>
  <2>1. TypeOK' /\ Shapes' /\ Own(u) /\ upc'[u] = "get"
    BY <1>1 DEF TypeOK, serverVars, fileVars, Shapes, Goto, Own
  <2>2. Settled(u)'
    BY <1>1, <2>1, Staying DEF Running, fileVars
  <2>3. Fetched(u)' /\ Receives(u)
    BY <2>1 DEF Fetched, Receives, Carries
  <2>. QED  BY <2>1, <2>2, <2>3, Moving DEF Ended
<1>2. CASE Proceed(u, TRUE)
  <2>1. \A n \in Names : Newer(u, n) => Newer(u, n)'
    BY DEF Newer, fileVars
  <2>2. PICK name : name = Name(u)
    OBVIOUS
  <2>3. /\ upc' \in [Updaters -> Phases] /\ upc'[u] \in {"prepare", "report"} /\ Own(u)
        /\ art' \in [Updaters -> 1 .. 2] /\ attempt' \in [Updaters -> 1 .. MaxRetries]
        /\ failed' \in [Updaters -> SUBSET Names]
        /\ got' = [v \in Updaters |-> IF v = u THEN Absent ELSE got[v]]
        /\ Fetched(u)' /\ Settled(u)'
    BY <1>2, <2>1, <2>2, Proceeding DEF Running, fileVars
  <2>4. TypeOK' /\ Shapes'
    BY <2>3 DEF TypeOK, serverVars, fileVars, Shapes, Phases, Running
  <2>5. Receives(u)
    BY <2>3 DEF Receives, Carries
  <2>. QED  BY <2>3, <2>4, <2>5, Moving DEF Ended
<1>. QED  BY <1>1, <1>2

\* Whatever the server has when it is asked is as new as when the run began.
LEMMA GetStep ==
  ASSUME IInv, NEW u \in Updaters, Get(u)
  PROVE  IInv'
<1>. USE DEF IInv, Get
<1>1. Name(u) \in Names
  BY Naming
<1>2. ASSUME NEW f, f = Cut \/ (f = body[Name(u)] /\ f # Absent), got' = [got EXCEPT ![u] = f],
             Goto(u, "digest"), UNCHANGED <<art, attempt, failed>>
      PROVE  IInv'
  <2>1. upc' \in [Updaters -> Phases] /\ upc'[u] = "digest" /\ got'[u] = f /\ Own(u)
    BY <1>2 DEF TypeOK, Goto, Own, Shapes, Phases, Running
  <2>2. TypeOK' /\ Shapes'
    <3>1. TypeOK'
      BY <1>2, <2>1 DEF TypeOK, serverVars, fileVars, Phases, Running
    <3>2. got' = [v \in Updaters |-> got'[v]]
      BY <1>2 DEF Shapes
    <3>. QED  BY <3>1, <3>2 DEF serverVars, fileVars, Shapes
  <2>3. Settled(u)'
    BY <1>2, <2>1, Staying DEF Running, fileVars
  <2>4. f # Cut => Whole(Name(u), f) /\ f.release >= begun[u][Name(u)]
    <3>1. f # Cut => Whole(Name(u), f) /\ f.release = Release(body[Name(u)])
      BY <1>1, <1>2 DEF Served, Release, Whole, Opens
    <3>2. /\ Release(body[Name(u)]) >= begun[u][Name(u)] /\ begun[u][Name(u)] \in Nat
          /\ f # Cut => f.release \in Nat
      BY <1>1, <3>1 DEF Begun, Whole
    <3>. QED  BY <3>1, <3>2
  <2>5. Name(u)' = Name(u) /\ begun' = begun
    BY <1>2 DEF Name
  <2>6. f # Cut => Fresh(u)'
    BY <2>1, <2>4, <2>5 DEF Fresh, Whole, Opens
  <2>7. Fetched(u)'
    BY <2>1, <2>6 DEF Fetched
  <2>8. Receives(u)
    BY <1>2, <2>1 DEF Receives, Carries
  <2>. QED  BY <2>1, <2>2, <2>3, <2>7, <2>8, Moving DEF Ended
<1>3. CASE Again(u) /\ got' = [got EXCEPT ![u] = Absent]
  <2>1. /\ upc' \in [Updaters -> Phases] /\ upc'[u] \in {"get", "discard"} /\ Own(u)
        /\ attempt' \in [Updaters -> 1 .. MaxRetries]
        /\ UNCHANGED <<art, failed>> /\ Fetched(u)' /\ Settled(u)'
    BY <1>3, Retrying DEF Running, fileVars, Shapes
  <2>2. TypeOK' /\ Shapes'
    <3>1. got' = [v \in Updaters |-> got'[v]]
      BY <1>3 DEF Shapes
    <3>. QED  BY <2>1, <3>1 DEF TypeOK, serverVars, fileVars, Shapes, Phases, Running
  <2>3. Receives(u)
    BY <2>1 DEF Receives, Carries
  <2>. QED  BY <2>1, <2>2, <2>3, Moving DEF Ended
<1>. QED  BY <1>2, <1>3

\* Only a whole body can have the digest of a release.
LEMMA VerifyStep ==
  ASSUME IInv, NEW u \in Updaters, Verify(u)
  PROVE  IInv'
<1>. USE DEF IInv, Verify
<1>1. CASE got[u].state = "whole" /\ Goto(u, "write") /\ UNCHANGED <<art, attempt, failed>>
  <2>1. TypeOK' /\ Shapes' /\ Own(u) /\ upc'[u] = "write"
    BY <1>1 DEF TypeOK, serverVars, fileVars, Shapes, Goto, Own
  <2>2. Settled(u)'
    BY <1>1, <2>1, Staying DEF Running, fileVars
  <2>3. Fresh(u) /\ got[u] # Cut
    BY <1>1 DEF Fetched, Cut
  <2>4. Fresh(u)'
    BY <1>1, <2>3 DEF Fresh, Whole, Opens, Name
  <2>5. Fetched(u)'
    BY <2>1, <2>4 DEF Fetched
  <2>6. Receives(u)
    BY <1>1, <2>3 DEF Receives, Carries
  <2>. QED  BY <2>1, <2>2, <2>5, <2>6, Moving DEF Ended
<1>2. CASE Again(u)
  <2>1. /\ upc' \in [Updaters -> Phases] /\ upc'[u] \in {"get", "discard"} /\ Own(u)
        /\ attempt' \in [Updaters -> 1 .. MaxRetries]
        /\ UNCHANGED <<art, failed>> /\ Fetched(u)' /\ Settled(u)'
    BY <1>2, Retrying DEF Running, fileVars
  <2>2. TypeOK' /\ Shapes'
    BY <2>1 DEF TypeOK, serverVars, fileVars, Shapes, Phases, Running
  <2>3. Receives(u)
    BY <2>1 DEF Receives, Carries
  <2>. QED  BY <2>1, <2>2, <2>3, Moving DEF Ended
<1>. QED  BY <1>1, <1>2

-----------------------------------------------------------------------------
(***************************************************************************)
(* The steps on the files.                                                 *)
(***************************************************************************)
\* Whoever has a file of nobody else's open creates it.
LEMMA WriteTmpStep ==
  ASSUME IInv, NEW u \in Updaters, WriteTmp(u)
  PROVE  IInv'
<1>. USE DEF IInv, WriteTmp
<1>1. Name(u) \in Names
  BY Naming
<1>2. CASE /\ tmp' = [tmp EXCEPT ![Name(u)] = Cut]
           /\ opened' = [opened EXCEPT ![u] = "tmp"]
           /\ shared' = IF \E v \in Updaters \ {u} : Has(v, Name(u))
                        THEN shared \cup {Name(u)} ELSE shared \ {Name(u)}
           /\ Goto(u, "fill") /\ UNCHANGED <<art, attempt, failed>>
  <2>. PICK name : name = Name(u)
    OBVIOUS
  <2>1. TypeOK' /\ Shapes' /\ Own(u) /\ upc'[u] = "fill"
    <3>1. upc' \in [Updaters -> Phases] /\ Own(u) /\ upc'[u] = "fill"
      BY <1>2 DEF TypeOK, Goto, Own, Phases, Running
    <3>2. opened' \in [Updaters -> {"none", "tmp", "dest"}] /\ shared' \subseteq Names
      BY <1>1, <1>2 DEF TypeOK
    <3>3. tmp' = [n \in Names |-> tmp'[n]]
      BY <1>2 DEF Shapes
    <3>. QED  BY <1>2, <3>1, <3>2, <3>3 DEF TypeOK, Shapes, serverVars, Phases, Running
  <2>2. /\ opened'[u] = "tmp" /\ \A n \in Names : n # name => (n \in shared' <=> n \in shared)
        /\ \A v \in Updaters \ {u} : opened'[v] = opened[v] /\ (Has(v, name) => name \in shared')
        /\ \A n \in Names : tmp'[n] = IF n = name THEN Cut ELSE tmp[n]
    BY <1>1, <1>2 DEF TypeOK, Shapes
  <2>3. Settled(u)'
    <3>1. u \notin beside => \A v \in Updaters \ {u} : ~Has(v, Name(u))
      BY DEF Solo, Ended, Has
    <3>2. u \notin beside => Name(u) \notin shared'
      BY <1>2, <3>1
    <3>. QED  BY <1>2, <3>2, Staying DEF Running
  <2>4. Fresh(u) /\ got[u] # Cut
    BY DEF Fetched, Fresh, Whole, Opens, Cut
  <2>5. Fetched(u)'
    BY <1>2, <2>1, <2>4 DEF Fetched, Fresh, Whole, Opens, Name
  <2>6. Receives(u) /\ Installs(u)
    BY <1>2, <2>4 DEF Receives, Carries, Installs
  <2>7. Installed' /\ Begun'
    BY DEF Installed, Whole, Opens, Begun, serverVars
  <2>8. Alone'
    <3>1. \A v \in Updaters, n \in Names : Has(v, n)' => Has(v, n) \/ (v = u /\ n = name)
      BY <1>2, <2>1 DEF Has, Own, Name
    <3>. QED  BY <2>2, <3>1 DEF Alone
  <2>9. Holding(u)'
    BY <1>1, <1>2, <2>1, <2>2 DEF Holding, Name
  <2>10. ASSUME NEW v \in Updaters \ {u} PROVE Holding(v)'
    <3>1. Name(v) \in Names /\ Name(v)' = Name(v)
      BY <2>1, Naming DEF Own, Name
    <3>2. CASE Name(v) # name
      BY <2>1, <2>2, <3>1, <3>2 DEF Holding, Own
    <3>3. CASE Name(v) = name
      <4>1. Has(v, name) => name \in shared'
        BY <2>2
      <4>2. opened[v] = "dest" => Has(v, name) /\ name \in spoilt
        BY <3>3 DEF Holding, Has
      <4>. QED  BY <2>1, <2>2, <3>1, <3>3, <4>1, <4>2 DEF Holding, Own, Has
    <3>. QED  BY <3>2, <3>3
  <2>. QED  BY <2>1, <2>2, <2>3, <2>5, <2>6, <2>7, <2>8, <2>9, <2>10, Filing DEF Ended
<1>3. CASE Again(u) /\ UNCHANGED <<tmp, opened, shared>>
  <2>1. /\ upc' \in [Updaters -> Phases] /\ upc'[u] \in {"get", "discard"} /\ Own(u)
        /\ attempt' \in [Updaters -> 1 .. MaxRetries]
        /\ UNCHANGED <<art, failed>> /\ Fetched(u)' /\ Settled(u)'
    BY <1>3, Retrying DEF Running
  <2>2. TypeOK' /\ Shapes'
    BY <1>3, <2>1 DEF TypeOK, serverVars, Shapes, Phases, Running
  <2>3. Receives(u)
    BY <2>1 DEF Receives, Carries
  <2>. QED  BY <1>3, <2>1, <2>2, <2>3, Moving DEF Ended, fileVars
<1>. QED  BY <1>2, <1>3

(***************************************************************************)
(* Leaving a file: one that nobody shares gets what it was left with, and  *)
(* no file that is installed is written to.                                *)
(***************************************************************************)
LEMMA Leaving ==
  ASSUME IInv, NEW u \in Updaters, NEW new, NEW file \in Outcomes(Filling(u), new), Leave(u, file),
         Own(u), UNCHANGED <<shared, spoilt>>
  PROVE  /\ opened' \in [Updaters -> {"none", "tmp", "dest"}] /\ opened'[u] = "none"
         /\ tmp' = [n \in Names |-> tmp'[n]] /\ dest' = [n \in Names |-> dest'[n]]
         /\ \A n \in Names \ spoilt : dest'[n] = dest[n]
         /\ Name(u) \notin shared => UNCHANGED dest
         /\ Name(u) \notin shared => tmp'[Name(u)] = IF opened[u] = "tmp" THEN new ELSE tmp[Name(u)]
         /\ \A v \in Updaters \ {u} : Holding(v)'
<1>. USE DEF IInv, Leave
<1>1. Name(u) \in Names
  BY Naming
<1>2. opened' \in [Updaters -> {"none", "tmp", "dest"}] /\ opened'[u] = "none"
      /\ \A v \in Updaters \ {u} : opened'[v] = opened[v]
  BY DEF TypeOK
<1>3. tmp' = [n \in Names |-> tmp'[n]] /\ dest' = [n \in Names |-> dest'[n]]
  BY DEF Shapes
<1>4. /\ \A n \in Names \ spoilt : dest'[n] = dest[n]
      /\ Name(u) \notin shared => UNCHANGED dest
  BY <1>1 DEF Holding, Shapes
<1>5. Name(u) \notin shared /\ opened[u] = "tmp" => file = new
  BY DEF Holding, Filling, Outcomes
<1>6. \A n \in Names : tmp'[n] = IF opened[u] = "tmp" /\ n = Name(u) THEN file ELSE tmp[n]
  BY <1>1 DEF Shapes
<1>7. ASSUME NEW v \in Updaters \ {u} PROVE Holding(v)'
  <2>1. Name(v) \in Names /\ Name(v)' = Name(v)
    BY Naming DEF Own, Name
  <2>2. CASE tmp'[Name(v)] = tmp[Name(v)]
    BY <1>2, <2>1, <2>2 DEF Holding, Own
  <2>3. CASE opened[u] = "tmp" /\ Name(v) = Name(u)
    <3>1. Has(u, Name(v))
      BY <2>3 DEF Holding, Has
    <3>2. Has(v, Name(v)) => Name(v) \in shared
      BY <2>1, <3>1 DEF Alone
    <3>. QED  BY <1>2, <2>1, <3>2 DEF Holding, Own, Has
  <2>. QED  BY <1>6, <2>1, <2>2, <2>3
<1>. QED  BY <1>1, <1>2, <1>3, <1>4, <1>5, <1>6, <1>7

LEMMA FillTmpStep ==
  ASSUME IInv, NEW u \in Updaters, FillTmp(u)
  PROVE  IInv'
<1>. USE DEF IInv, FillTmp
<1>0. Name(u) \in Names
  BY Naming
<1>1. ASSUME NEW new, NEW file \in Outcomes(Filling(u), new), Leave(u, file), Own(u),
             upc' \in [Updaters -> Phases], upc'[u] \in {"rename", "get", "discard"},
             attempt' \in [Updaters -> 1 .. MaxRetries], UNCHANGED <<art, failed>>,
             Fetched(u)', Settled(u)', upc'[u] = "rename" => new = got[u]
      PROVE  IInv'
  <2>1. /\ opened' \in [Updaters -> {"none", "tmp", "dest"}] /\ opened'[u] = "none"
        /\ tmp' = [n \in Names |-> tmp'[n]] /\ dest' = [n \in Names |-> dest'[n]]
        /\ \A n \in Names \ spoilt : dest'[n] = dest[n]
        /\ Name(u) \notin shared => tmp'[Name(u)] = IF opened[u] = "tmp" THEN new ELSE tmp[Name(u)]
        /\ \A v \in Updaters \ {u} : Holding(v)'
    BY <1>1, Leaving
  <2>2. TypeOK' /\ Shapes'
    BY <1>1, <2>1 DEF TypeOK, Shapes, serverVars, Phases, Running
  <2>3. Installed' /\ Begun'
    BY <2>1 DEF Installed, Whole, Opens, Begun, serverVars
  <2>4. \A v \in Updaters, n \in Names : Has(v, n)' => Has(v, n)
    BY <1>1 DEF Has, Own, Name
  <2>5. Alone'
    BY <2>4 DEF Alone
  <2>6. Holding(u)'
    <3>1. Name(u) \notin shared /\ opened[u] # "tmp" => tmp[Name(u)] = Absent
      BY DEF Holding
    <3>2. Name(u)' = Name(u)
      BY <1>1 DEF Name
    <3>. QED  BY <1>1, <2>1, <3>1, <3>2 DEF Holding
  <2>7. Installs(u) /\ Receives(u)
    <3>1. got[u] # Cut
      BY DEF Fetched, Fresh, Whole, Opens, Cut
    <3>. QED  BY <1>1, <2>1, <3>1 DEF Installs, Receives, Carries
  <2>. QED  BY <1>1, <2>1, <2>2, <2>3, <2>5, <2>6, <2>7, Filing DEF Ended
<1>2. CASE /\ \E file \in Outcomes(Filling(u), got[u]) : Leave(u, file)
           /\ Goto(u, "rename") /\ UNCHANGED <<art, attempt, failed>>
  <2>1. PICK file \in Outcomes(Filling(u), got[u]) : Leave(u, file)
    BY <1>2
  <2>2. upc' \in [Updaters -> Phases] /\ upc'[u] = "rename" /\ Own(u)
    BY <1>2 DEF Goto, TypeOK, Own, Phases, Running
  <2>3. Fetched(u)'
    BY <1>2, <2>2 DEF Fetched, Fresh, Whole, Opens, Name
  <2>4. u \notin beside => UNCHANGED dest /\ Name(u) \notin shared
    BY <2>1, <2>2, Leaving DEF Settled
  <2>5. Settled(u)'
    BY <1>2, <2>4, Staying DEF Running
  <2>6. attempt' \in [Updaters -> 1 .. MaxRetries]
    BY <1>2 DEF TypeOK
  <2>. QED  BY <1>1, <1>2, <2>1, <2>2, <2>3, <2>5, <2>6
<1>3. CASE Again(u) /\ \E file \in Outcomes(Filling(u), Filling(u)) : Leave(u, file)
  <2>1. PICK file \in Outcomes(Filling(u), Filling(u)) : Leave(u, file)
    BY <1>3
  <2>2. Own(u)
    BY <1>3 DEF Again, Goto, TypeOK, Own
  <2>3. u \notin beside => UNCHANGED dest
    BY <2>1, <2>2, Leaving DEF Settled
  <2>4. /\ upc' \in [Updaters -> Phases] /\ upc'[u] \in {"get", "discard"}
        /\ attempt' \in [Updaters -> 1 .. MaxRetries]
        /\ UNCHANGED <<art, failed>> /\ Fetched(u)' /\ Settled(u)'
    BY <1>3, <2>3, Retrying DEF Running
  <2>. QED  BY <1>1, <2>1, <2>2, <2>4
<1>. QED  BY <1>2, <1>3

\* What is installed is whole, and as new as when the run began.
LEMMA RenameStep ==
  ASSUME IInv, NEW u \in Updaters, Rename(u)
  PROVE  IInv'
<1>. USE DEF IInv, Rename
<1>1. CASE /\ tmp[Name(u)] # Absent
           /\ dest' = [dest EXCEPT ![Name(u)] = tmp[Name(u)]]
           /\ tmp' = [tmp EXCEPT ![Name(u)] = Absent]
           /\ opened' = [v \in Updaters |->
                IF Name(v) # Name(u) THEN opened[v] ELSE IF opened[v] = "tmp" THEN "dest" ELSE "none"]
           /\ spoilt' = IF Name(u) \in shared THEN spoilt \cup {Name(u)} ELSE spoilt \ {Name(u)}
           /\ Proceed(u, FALSE)
  <2>0. PICK f, name : f = got[u] /\ name = Name(u)
    OBVIOUS
  <2>1. name \in Names /\ (name \notin shared => tmp[name] = f)
    BY <1>1, <2>0, Naming DEF Holding
  <2>2. Whole(name, f) /\ f.release >= begun[u][name] /\ f # Absent
    BY <2>0 DEF Fetched, Fresh, Whole, Opens, Absent
  <2>3. /\ \A n \in Names : n # name => dest'[n] = dest[n] /\ tmp'[n] = tmp[n]
        /\ name \notin shared => dest'[name] = f
        /\ begun' = begun /\ shared' = shared
        /\ spoilt' = IF name \in shared THEN spoilt \cup {name} ELSE spoilt \ {name}
        /\ dest' = [n \in Names |-> dest'[n]] /\ tmp' = [n \in Names |-> tmp'[n]]
    BY <1>1, <2>0, <2>1 DEF Shapes
  <2>4. Installed'
    BY <2>1, <2>2, <2>3 DEF Installed, Whole, Opens
  <2>5. u \notin beside => /\ \A n \in Names : Newer(u, n) => Newer(u, n)'
                          /\ Newer(u, name)'
    <3>0. u \notin beside => name \notin shared
      BY <2>0 DEF Settled
    <3>1. \A n \in Names : Newer(u, n)' <=> dest'[n] # Absent /\ Release(dest'[n]) >= begun[u][n]
      BY <2>3 DEF Newer, Release
    <3>2. Release(f) = f.release
      BY <2>2 DEF Release, Whole, Opens
    <3>. QED  BY <2>1, <2>2, <2>3, <3>0, <3>1, <3>2 DEF Newer
  <2>6. /\ upc' \in [Updaters -> Phases] /\ upc'[u] \in {"prepare", "report"} /\ Own(u)
        /\ art' \in [Updaters -> 1 .. 2] /\ attempt' \in [Updaters -> 1 .. MaxRetries]
        /\ failed' \in [Updaters -> SUBSET Names]
        /\ got' = [v \in Updaters |-> IF v = u THEN Absent ELSE got[v]]
        /\ Fetched(u)' /\ Settled(u)'
    BY <1>1, <2>0, <2>1, <2>5, Proceeding DEF Running
  <2>7. opened' \in [Updaters -> {"none", "tmp", "dest"}]
    BY <1>1 DEF TypeOK
  <2>8. TypeOK' /\ Shapes'
    BY <2>1, <2>3, <2>6, <2>7 DEF TypeOK, Shapes, serverVars, Phases, Running
  <2>9. Alone' /\ Begun'
    <3>1. \A v \in Updaters, n \in Names : Has(v, n)' => Has(v, n)
      BY <2>6 DEF Has, Own, Name
    <3>. QED  BY <3>1, <2>3 DEF Alone, Begun, serverVars
  <2>10. Holding(u)'
    <3>1. opened'[u] = "none"
      BY <1>1 DEF Holding, TypeOK
    <3>. QED  BY <2>6, <3>1 DEF Holding
  <2>11. ASSUME NEW v \in Updaters \ {u} PROVE Holding(v)'
    <3>1. Name(v) \in Names /\ Name(v)' = Name(v)
      BY <2>6, Naming DEF Own, Name
    <3>2. CASE Name(v) # name
      <4>1. opened'[v] = opened[v] /\ tmp'[Name(v)] = tmp[Name(v)]
        BY <1>1, <2>0, <2>3, <3>1, <3>2
      <4>. QED  BY <2>3, <2>6, <3>1, <4>1 DEF Holding, Own
    <3>3. CASE Name(v) = name
      <4>1. Has(v, name) => name \in shared
        BY <2>0, <2>1 DEF Alone, Has
      <4>2. opened'[v] = (IF opened[v] = "tmp" THEN "dest" ELSE "none")
        BY <1>1, <2>0, <3>3
      <4>3. opened[v] = "tmp" => Has(v, name)
        BY <3>3 DEF Holding, Has
      <4>. QED  BY <2>3, <2>6, <3>1, <3>3, <4>1, <4>2, <4>3 DEF Holding, Own, Has
    <3>. QED  BY <3>2, <3>3
  <2>12. Installs(u)
    BY <2>0, <2>3 DEF Installs
  <2>13. Receives(u)
    BY <2>6 DEF Receives, Carries
  <2>. QED  BY <2>3, <2>4, <2>6, <2>8, <2>9, <2>10, <2>11, <2>12, <2>13, Filing DEF Ended
<1>2. CASE Again(u) /\ UNCHANGED <<got, tmp, dest, opened, spoilt>>
  <2>1. /\ upc' \in [Updaters -> Phases] /\ upc'[u] \in {"get", "discard"} /\ Own(u)
        /\ attempt' \in [Updaters -> 1 .. MaxRetries]
        /\ UNCHANGED <<art, failed>> /\ Fetched(u)' /\ Settled(u)'
    BY <1>2, Retrying DEF Running
  <2>2. TypeOK' /\ Shapes'
    BY <1>2, <2>1 DEF TypeOK, serverVars, Shapes, Phases, Running
  <2>3. Receives(u)
    BY <2>1 DEF Receives, Carries
  <2>. QED  BY <1>2, <2>1, <2>2, <2>3, Moving DEF Ended, fileVars
<1>. QED  BY <1>1, <1>2

\* Who removes a file leaves its name to nobody, or to one whose file is gone.
LEMMA DiscardStep ==
  ASSUME IInv, NEW u \in Updaters, Discard(u)
  PROVE  IInv'
<1>. USE DEF IInv, Discard
<1>1. PICK name : name = Name(u)
  OBVIOUS
<1>2. \A n \in Names : Newer(u, n) => Newer(u, n)'
  BY DEF Newer
<1>3. /\ upc' \in [Updaters -> Phases] /\ upc'[u] \in {"prepare", "report"} /\ Own(u)
      /\ art' \in [Updaters -> 1 .. 2] /\ attempt' \in [Updaters -> 1 .. MaxRetries]
      /\ failed' \in [Updaters -> SUBSET Names]
      /\ got' = [v \in Updaters |-> IF v = u THEN Absent ELSE got[v]]
      /\ Fetched(u)' /\ Settled(u)'
  BY <1>1, <1>2, Proceeding DEF Running
<1>4. /\ opened' \in [Updaters -> {"none", "tmp", "dest"}] /\ tmp' = [n \in Names |-> tmp'[n]]
  BY DEF TypeOK, Shapes
<1>5. TypeOK' /\ Shapes'
  BY <1>3, <1>4 DEF TypeOK, Shapes, serverVars, Phases, Running
<1>6. Installed' /\ Begun'
  BY DEF Installed, Whole, Opens, Begun, serverVars
<1>7. Alone'
  <2>1. \A v \in Updaters, n \in Names : Has(v, n)' => Has(v, n)
    BY <1>3 DEF Has, Own, Name
  <2>. QED  BY <2>1 DEF Alone
<1>8. Holding(u)'
  <2>1. opened'[u] = "none"
    BY DEF Holding, TypeOK
  <2>. QED  BY <1>3, <2>1 DEF Holding
<1>9. ASSUME NEW v \in Updaters \ {u} PROVE Holding(v)'
  <2>1. Name(v) \in Names /\ Name(v)' = Name(v)
    BY <1>3, Naming DEF Own, Name
  <2>2. CASE opened'[v] = opened[v] /\ tmp'[Name(v)] = tmp[Name(v)]
    BY <1>3, <2>1, <2>2 DEF Holding, Own
  <2>3. CASE /\ Name(v) = Name(u) /\ tmp'[Name(v)] = Absent
             /\ opened'[v] = IF opened[v] = "tmp" THEN "none" ELSE opened[v]
    BY <1>3, <2>1, <2>3 DEF Holding, Own
  <2>. QED  BY <2>1, <2>2, <2>3 DEF Shapes
<1>10. Installs(u) /\ Receives(u)
  BY <1>3 DEF Installs, Receives, Carries
<1>. QED  BY <1>3, <1>5, <1>6, <1>7, <1>8, <1>9, <1>10, Filing DEF Ended

LEMMA ReportStep ==
  ASSUME IInv, NEW u \in Updaters, Report(u)
  PROVE  IInv'
<1>. USE DEF IInv, Report, Goto
<1>1. upc'[u] = "ok" /\ stale'[u] = {n \in failed[u] : dest[n] # Absent} /\ Own(u)
  BY DEF TypeOK, Own
<1>2. TypeOK' /\ Shapes'
  BY DEF TypeOK, serverVars, fileVars, Shapes
<1>3. Fetched(u)' /\ Receives(u)
  BY <1>1 DEF Fetched, Receives, Carries
<1>4. Settled(u)'
  <2>1. u \notin beside => \A n \in Names : n \in failed[u] \/ Newer(u, n)
    BY DEF Settled, Current
  <2>2. \A n \in Names : Newer(u, n)' <=> Newer(u, n)
    BY DEF Newer, fileVars
  <2>. QED  BY <1>1, <2>1, <2>2 DEF Settled, Running, fileVars
<1>. QED  BY <1>1, <1>2, <1>3, <1>4, Moving DEF Ended

LEMMA DieStep ==
  ASSUME IInv, NEW u \in Updaters, Die(u)
  PROVE  IInv'
<1>. USE DEF IInv, Die, Goto
<1>1. PICK file \in Outcomes(Filling(u), Filling(u)) : Leave(u, file)
  OBVIOUS
<1>2. upc'[u] = "idle" /\ Own(u)
  BY DEF TypeOK, Shapes, Own
<1>3. /\ opened' \in [Updaters -> {"none", "tmp", "dest"}] /\ opened'[u] = "none"
      /\ tmp' = [n \in Names |-> tmp'[n]] /\ dest' = [n \in Names |-> dest'[n]]
      /\ \A n \in Names \ spoilt : dest'[n] = dest[n]
      /\ \A v \in Updaters \ {u} : Holding(v)'
  BY <1>1, <1>2, Leaving
<1>4. TypeOK'
  <2>1. upc' \in [Updaters -> Phases]
    BY DEF TypeOK, Phases, Running
  <2>2. art' \in [Updaters -> 1 .. 2] /\ attempt' \in [Updaters -> 1 .. MaxRetries]
    BY UpdateAssumption DEF TypeOK
  <2>3. failed' \in [Updaters -> SUBSET Names]
    BY DEF TypeOK
  <2>. HIDE DEF Die
  <2>4. UNCHANGED <<serverVars, stale, runs, beside, shared, spoilt>>
    BY DEF Die
  <2>. QED  BY <1>3, <2>1, <2>2, <2>3, <2>4 DEF TypeOK, Phases, Running, serverVars
<1>5. Shapes'
  BY <1>3 DEF Shapes, serverVars
<1>6. Begun'
  <2>1. begun'[u] = [n \in Names |-> 0] /\ body' = body
    BY DEF Shapes, serverVars
  <2>2. \A n \in Names : Release(body[n]) \in Nat
    BY DEF Served, Release, Whole, Absent
  <2>. QED  BY <1>2, <2>1, <2>2 DEF Begun, Release, Own
<1>7. Fetched(u)' /\ Settled(u)' /\ Receives(u)
  BY <1>2 DEF Fetched, Settled, Running, Receives, Carries
<1>8. Installed' /\ Installs(u)
  BY <1>3 DEF Installed, Whole, Opens, Installs
<1>9. Alone'
  <2>1. \A v \in Updaters, n \in Names : Has(v, n)' => Has(v, n)
    BY <1>2 DEF Has, Own, Name
  <2>. QED  BY <2>1 DEF Alone
<1>10. Holding(u)'
  BY <1>2, <1>3 DEF Holding
<1>. QED  BY <1>2, <1>3, <1>4, <1>5, <1>6, <1>7, <1>8, <1>9, <1>10, Filing

-----------------------------------------------------------------------------
LEMMA NextStep ==
  ASSUME IInv, [Next]_vars
  PROVE  IInv'
<1>1. CASE Server
  BY <1>1, RecordVersionStep, RecordOptionStep, PublishStep, PublishDigestStep DEF Server
<1>2. ASSUME NEW u \in Updaters, Begin(u) \/ Step(u) \/ Die(u) PROVE IInv'
  BY <1>2, BeginStep, InstallIndexStep, PrepareStep, GetStep, VerifyStep, WriteTmpStep,
     FillTmpStep, RenameStep, DiscardStep, ReportStep, DieStep DEF Step
<1>3. CASE UNCHANGED vars
  <2>. USE <1>3 DEF IInv, vars, serverVars, updateVars, fileVars
  <2>1. TypeOK' /\ Shapes' /\ Histories' /\ Served' /\ Begun'
    BY DEF TypeOK, Shapes, Histories, Served, Begun, Whole, Opens
  <2>. QED  BY <2>1, Aside
<1>. QED  BY <1>1, <1>2, <1>3 DEF Next

THEOREM Invariance == Spec => []IInv
<1>1. IInv /\ [Next]_vars => IInv'
  BY NextStep
<1>. QED  BY <1>1, Start, PTL DEF Spec

(***************************************************************************)
(* Whatever fails or is repeated, however many updates run at once and     *)
(* whenever they die, an installed sidecar opens and its histories come    *)
(* newest first, unless two updates had its temporary file at once.        *)
(***************************************************************************)
THEOREM SidecarsAreReadable == Spec => []InstalledReadable
<1>1. IInv => InstalledReadable
  <2>. SUFFICES ASSUME IInv PROVE InstalledReadable
    OBVIOUS
  <2>1. \A n \in Names \ spoilt : dest[n] # Absent => Whole(n, dest[n])
    BY DEF IInv, Installed
  <2>2. ASSUME "history" \notin spoilt, dest["history"] # Absent,
               NEW l \in dest["history"].lines
        PROVE  NewestFirst(Lookup("history", dest["history"], l.attr))
    <3>. DEFINE mine == {k \in dest["history"].lines : k.attr = l.attr}
    <3>1. Lookup("history", dest["history"], l.attr) = (CHOOSE k \in mine : TRUE).value
      BY <2>2 DEF Lookup
    <3>2. (CHOOSE k \in mine : TRUE) \in dest["history"].lines
      <4>1. l \in mine
        BY <2>2
      <4>2. (CHOOSE k \in mine : TRUE) \in mine
        BY <4>1
      <4>. QED  BY <4>2
    <3>3. Whole("history", dest["history"])
      BY <2>1, <2>2 DEF Names
    <3>. QED  BY <3>1, <3>2, <3>3 DEF Whole
  <2>. QED  BY <2>1, <2>2 DEF IInv, InstalledReadable, Whole
<1>. QED  BY <1>1, Invariance, PTL

(***************************************************************************)
(* A sidecar that stays older than what the server had when an update by   *)
(* itself began is named by the update, whatever other updates come before *)
(* it and after it.                                                        *)
(***************************************************************************)
THEOREM OlderSidecarsAreNamed == Spec => []WarnsWhenOlder
<1>1. IInv => WarnsWhenOlder
  BY DEF IInv, Settled, Newer, WarnsWhenOlder
<1>. QED  BY <1>1, Invariance, PTL

-----------------------------------------------------------------------------
(***************************************************************************)
(* The directory.                                                          *)
(***************************************************************************)
Progress ==
  proc.op = "generate" =>
    /\ \A i \in 1 .. proc.next - 1 : Describes(Generated(Version[Index])[i])
    /\ proc.next > 1 => overtaken

Certified ==
  disk["hashes"] \in Gens /\ ~overtaken =>
    \A i \in 1 .. Len(Generated(Version[disk["hashes"]])) :
      LET s == Generated(Version[disk["hashes"]])[i]
      IN \/ disk[s] = Missing
         \/ disk[s] \in Gens /\ Frames[disk[s]] = Frames[disk["hashes"]]

DirectoryInv == DirectoryTypeOK /\ Progress /\ Certified

----------------------------------------------------------------------------
(***************************************************************************)
(* What the order of a rebuild contains: the files it names, each once,    *)
(* the hashes at the end, and before them all that the check asks for.     *)
(***************************************************************************)
LEMMA GeneratedOrder ==
  ASSUME NEW v \in {1, 2}
  PROVE  /\ Generated(v) \in Seq(Files)
         /\ Len(Generated(v)) = 8 + v
         /\ Len(Generated(v)) \in 1 .. 10
         /\ DOMAIN Generated(v) = 1 .. 8 + v
         /\ Generated(v)[8 + v] = "hashes"
         /\ \A i \in 1 .. 8 + v : Generated(v)[i] \in Files \ {"files", "command"}
         /\ \A i, j \in 1 .. 8 + v : i # j => Generated(v)[i] # Generated(v)[j]
         /\ \A s \in Required(v) : \E i \in 1 .. 7 + v : Generated(v)[i] = s
         /\ \A i \in 1 .. 7 + v : Generated(v)[i] \in Required(v)
<1>1. CASE v = 1
  BY <1>1, SMTT(60) DEF Generated, Required, Files, Heavy
<1>2. CASE v = 2
  BY <1>2, SMTT(60) DEF Generated, Required, Files, Heavy
<1>. QED  BY <1>1, <1>2

(***************************************************************************)
(* A build writes no hashes.                                               *)
(***************************************************************************)
LEMMA BuiltOrder ==
  ASSUME NEW v \in {1, 2}
  PROVE  /\ Len(Built(v)) = 5 + v
         /\ Len(Built(v)) \in 1 .. 10
         /\ \A i \in 1 .. 5 + v : Built(v)[i] \in Files \ {"hashes"}
<1>1. CASE v = 1
  BY <1>1 DEF Built, Files
<1>2. CASE v = 2
  BY <1>2 DEF Built, Files
<1>. QED  BY <1>1, <1>2

(***************************************************************************)
(* frame_hashes_diff finds nothing exactly when nothing differs.           *)
(***************************************************************************)
LEMMA NothingChanged ==
  ASSUME NEW s \in Seq(STRING), NEW t \in Seq(STRING)
  PROVE  Changed(s, t) = {} <=> s = t
<1>1. ASSUME Changed(s, t) = {}
      PROVE  s = t
  <2>1. DOMAIN s = DOMAIN t
    BY <1>1 DEF Changed
  <2>2. \A i \in DOMAIN s : s[i] = t[i]
    BY <1>1 DEF Changed
  <2>3. s = [i \in DOMAIN s |-> s[i]] /\ t = [i \in DOMAIN t |-> t[i]]
    OBVIOUS
  <2>. QED  BY <2>1, <2>2, <2>3
<1>2. ASSUME s = t
      PROVE  Changed(s, t) = {}
  BY <1>2 DEF Changed
<1>. QED  BY <1>1, <1>2

----------------------------------------------------------------------------
LEMMA InitDirectory == DirectoryInit => DirectoryInv
<1>. SUFFICES ASSUME DirectoryInit PROVE DirectoryInv
  OBVIOUS
<1>1. disk \in [Files -> Gens \cup {Missing, Torn}] /\ proc = Rest
  BY DEF DirectoryInit
<1>2. DirectoryTypeOK
  <2>1. ~Working /\ proc.op # "generate"
    BY <1>1 DEF Working, Rest
  <2>2. started \in 0 .. MaxStarted /\ deaths \in 0 .. MaxDeaths
    BY BoundsAssumption DEF DirectoryInit
  <2>3. overtaken \in BOOLEAN
    BY DEF DirectoryInit
  <2>. QED  BY <1>1, <2>1, <2>2, <2>3 DEF DirectoryTypeOK
<1>3. disk["hashes"] = Missing
  BY DEF DirectoryInit, Files
<1>. QED  BY <1>1, <1>2, <1>3, DirectoryAssumption DEF DirectoryInv, Progress, Certified, Rest

(***************************************************************************)
(* Each step keeps the invariant.                                          *)
(***************************************************************************)
LEMMA InstallDirectory ==
  ASSUME DirectoryInv, NEW g \in Releases, Install(g)
  PROVE  DirectoryInv'
<1>1. DirectoryTypeOK'
  BY DirectoryAssumption, BoundsAssumption DEF DirectoryInv, DirectoryTypeOK, Install, Started, Rest, Working, Gens, Index, Files
<1>2. Progress'
  BY DEF Install, Progress
<1>3. \A v \in {1, 2} : \A i \in 1 .. Len(Generated(v)) :
        Generated(v)[i] \in Files /\ Generated(v)[i] # "files"
  BY GeneratedOrder
<1>4. \A f \in Files : f # "files" => disk'[f] = disk[f]
  BY DEF Install, DirectoryInv, DirectoryTypeOK
<1>5. "hashes" \in Files
  BY DEF Files
<1>6. Certified'
  <2>. SUFFICES ASSUME disk["hashes"] \in Gens, ~overtaken
                PROVE  Certified'
    BY <1>4, <1>5 DEF Certified, Install
  <2>1. Version[disk["hashes"]] \in {1, 2}
    BY DirectoryAssumption
  <2>. QED  BY <1>3, <1>4, <1>5, <2>1 DEF DirectoryInv, Certified, Install
<1>. QED  BY <1>1, <1>2, <1>6 DEF DirectoryInv

LEMMA GenerateDirectory ==
  ASSUME DirectoryInv, Generate
  PROVE  DirectoryInv'
<1>1. DirectoryTypeOK'
  <2>1. FilesOpen => Len(Generated(Version[Index])) \in 1 .. 10
    <3>1. FilesOpen => Version[Index] \in {1, 2}
      BY DirectoryAssumption DEF FilesOpen, Index
    <3>. QED  BY <3>1, GeneratedOrder
  <2>2. started' \in 0 .. MaxStarted
    BY BoundsAssumption DEF DirectoryInv, DirectoryTypeOK, Generate, Started
  <2>3. proc' = Rest \/ (FilesOpen /\ proc' = [op |-> "generate", of |-> Index, next |-> 1])
    BY DEF Generate
  <2>4. CASE proc' = Rest
    BY <2>2, <2>4 DEF DirectoryInv, DirectoryTypeOK, Generate, Rest, Working
  <2>5. CASE FilesOpen /\ proc' = [op |-> "generate", of |-> Index, next |-> 1]
    <3>. proc'.op = "generate" /\ proc'.of = Index /\ proc'.next = 1
      BY <2>5
    <3>1. proc' \in Busy
      BY <2>5 DEF Busy, FilesOpen, Index
    <3>3. Len(Order(proc)') = Len(Generated(Version[Index]))
      BY DEF Order
    <3>4. (Working => proc.next \in 1 .. Len(Order(proc)))'
      <4>. DEFINE n == Len(Generated(Version[Index]))
      <4>1. n \in 1 .. 10
        BY <2>1, <2>5
      <4>. HIDE DEF n
      <4>2. 1 \in 1 .. n
        BY <4>1
      <4>. USE DEF n
      <4>. QED  BY <3>3, <4>2
    <3>2. (proc.op = "generate" => proc.of = Index)'
      BY <2>5 DEF Index, Generate
    <3>. QED  BY <2>2, <3>1, <3>2, <3>4 DEF DirectoryInv, DirectoryTypeOK, Generate
  <2>. QED  BY <2>3, <2>4, <2>5
<1>2. Progress'
  BY DEF Generate, Progress, Rest
<1>3. Certified'
  BY DEF DirectoryInv, Certified, Generate
<1>. QED  BY <1>1, <1>2, <1>3 DEF DirectoryInv

LEMMA BuildDirectory ==
  ASSUME DirectoryInv, NEW g \in Locals, Build(g)
  PROVE  DirectoryInv'
<1>1. DirectoryTypeOK'
  <2>1. Len(Built(Version[g])) \in 1 .. 10
    BY BuiltOrder, DirectoryAssumption DEF Gens
  <2>2. disk' \in [Files -> Gens \cup {Missing, Torn}]
    BY DEF DirectoryInv, DirectoryTypeOK, Build
  <2>3. started' \in 0 .. MaxStarted
    BY BoundsAssumption DEF DirectoryInv, DirectoryTypeOK, Build, Started
  <2>4. proc' = [op |-> "build", of |-> g, next |-> 1]
    BY DEF Build
  <2>5. proc' \in Busy
    BY <2>4 DEF Busy, Gens
  <2>6. (Working => proc.next \in 1 .. Len(Order(proc)))'
    <3>1. proc'.op = "build" /\ proc'.of = g /\ proc'.next = 1
      BY <2>4
    <3>2. Order(proc') = Built(Version[g])
      BY <3>1, Zenon DEF Order
    <3>3. 1 \in 1 .. Len(Built(Version[g]))
      BY <2>1
    <3>. QED  BY <3>1, <3>2, <3>3, Zenon
  <2>7. (proc.op = "generate" => proc.of = Index)'
    BY <2>4
  <2>. QED  BY <2>2, <2>3, <2>5, <2>6, <2>7 DEF DirectoryInv, DirectoryTypeOK, Build
<1>2. Progress' /\ Certified'
  BY DEF Build, Progress, Certified
<1>. QED  BY <1>1, <1>2 DEF DirectoryInv

LEMMA RemoveDirectory ==
  ASSUME DirectoryInv, NEW f \in Files, RemoveFile(f)
  PROVE  DirectoryInv'
<1>1. DirectoryTypeOK'
  BY DirectoryAssumption, BoundsAssumption DEF DirectoryInv, DirectoryTypeOK, RemoveFile, Started, Rest, Working, Index, Files
<1>2. Progress'
  BY DEF RemoveFile, Started, Progress, Rest
<1>3. Certified'
  <2>1. \A s \in Files : disk'[s] = disk[s] \/ disk'[s] = Missing
    BY DEF RemoveFile, DirectoryInv, DirectoryTypeOK
  <2>2. "hashes" \in Files /\ Missing \notin Gens
    BY DirectoryAssumption DEF Files
  <2>3. \A v \in {1, 2} : \A i \in 1 .. Len(Generated(v)) : Generated(v)[i] \in Files
    BY GeneratedOrder
  <2>. QED  BY <2>1, <2>2, <2>3, DirectoryAssumption DEF DirectoryInv, Certified, RemoveFile
<1>. QED  BY <1>1, <1>2, <1>3 DEF DirectoryInv

(***************************************************************************)
(* A write of a rebuild in terms of the order of its index, and what it    *)
(* touches.                                                                *)
(***************************************************************************)
LEMMA Rebuilding ==
  ASSUME DirectoryInv, proc.op = "generate"
  PROVE  /\ Working /\ FilesOpen /\ proc.of = Index
         /\ Version[Index] \in {1, 2}
         /\ Order(proc) = Generated(Version[Index])
         /\ proc.next \in 1 .. 8 + Version[Index]
         /\ Target = Generated(Version[Index])[proc.next]
         /\ Target \in Files \ {"files", "command"}
         /\ Target = "hashes" <=> proc.next = 8 + Version[Index]
<1>1. Working
  BY DEF Working
<1>2. proc \in Busy /\ proc.of = Index /\ FilesOpen
  BY <1>1 DEF DirectoryInv, DirectoryTypeOK, Working, Rest, Busy, FilesOpen, Index
<1>3. Version[Index] \in {1, 2}
  BY <1>2, DirectoryAssumption DEF FilesOpen, Index
<1>4. Order(proc) = Generated(Version[Index])
  BY <1>2 DEF Order
<1>5. proc.next \in 1 .. 8 + Version[Index]
  BY <1>1, <1>3, <1>4, GeneratedOrder DEF DirectoryInv, DirectoryTypeOK
<1>6. Target = Generated(Version[Index])[proc.next]
  BY <1>4 DEF Target
<1>7. Target \in Files \ {"files", "command"}
  BY <1>3, <1>5, <1>6, GeneratedOrder
<1>8. Target = "hashes" <=> proc.next = 8 + Version[Index]
  <2>. DEFINE v == Version[Index]
  <2>1. 8 + v \in 1 .. 8 + v
    BY <1>3
  <2>2. /\ Generated(v)[8 + v] = "hashes"
        /\ \A i, j \in 1 .. 8 + v : i # j => Generated(v)[i] # Generated(v)[j]
    BY <1>3, GeneratedOrder
  <2>3. proc.next \in 1 .. 8 + v /\ Target = Generated(v)[proc.next]
    BY <1>5, <1>6
  <2>. HIDE DEF v
  <2>4. Target = "hashes" <=> proc.next = 8 + v
    BY <2>1, <2>2, <2>3
  <2>. QED  BY <2>4 DEF v
<1>. QED  BY <1>1, <1>2, <1>3, <1>4, <1>5, <1>6, <1>7, <1>8

LEMMA Building ==
  ASSUME DirectoryInv, proc.op = "build"
  PROVE  /\ Working /\ proc.of \in Gens
         /\ Target \in Files \ {"hashes"}
<1>1. Working
  BY DEF Working
<1>2. proc \in Busy
  BY <1>1 DEF DirectoryInv, DirectoryTypeOK, Working, Rest, Busy
<1>3. Version[proc.of] \in {1, 2} /\ proc.of \in Gens
  BY <1>2, DirectoryAssumption DEF Busy
<1>4. proc.next \in 1 .. 5 + Version[proc.of]
  BY <1>1, <1>3, BuiltOrder DEF DirectoryInv, DirectoryTypeOK, Order
<1>. QED  BY <1>1, <1>3, <1>4, BuiltOrder DEF Target, Order

(***************************************************************************)
(* After a write that does not complete a rebuild nothing is certified,    *)
(* and the last one certifies what the rebuild has written.                *)
(***************************************************************************)
LEMMA WrittenDescribes ==
  ASSUME DirectoryInv, proc.op = "generate", Write
  PROVE  /\ Index' = Index
         /\ \A i \in 1 .. proc.next : Describes(Generated(Version[Index])[i])'
<1>. DEFINE v == Version[Index]
            G == Generated(v)
<1>a. /\ v \in {1, 2} /\ proc.next \in 1 .. 8 + v /\ Target = G[proc.next]
      /\ Index \in Gens /\ disk \in [Files -> Gens \cup {Missing, Torn}]
  BY Rebuilding DEF FilesOpen, Index, DirectoryInv, DirectoryTypeOK
<1>b. /\ \A i \in 1 .. 8 + v : G[i] \in Files
      /\ \A i, j \in 1 .. 8 + v : i # j => G[i] # G[j]
  BY <1>a, GeneratedOrder
<1>c. \A i \in 1 .. proc.next - 1 : Describes(G[i])
  BY DEF DirectoryInv, Progress
<1>1. disk' = [disk EXCEPT ![Target] = Index]
  BY Rebuilding DEF Write
<1>2. Index' = Index
  BY <1>1, Rebuilding DEF Index, DirectoryInv, DirectoryTypeOK, Files
<1>3. ASSUME NEW i \in 1 .. proc.next
      PROVE  Describes(G[i])'
  <2>0. G' = G
    BY <1>2
  <2>. HIDE DEF v, G
  <2>1. i \in 1 .. 8 + v /\ i <= proc.next
    <3>1. v \in Nat
      BY <1>a
    <3>. QED  BY <1>a, <3>1
  <2>2. CASE i = proc.next
    BY <1>1, <1>2, <1>a, <1>b, <2>0, <2>1, <2>2 DEF Describes
  <2>3. CASE i # proc.next
    <3>1. G[i] # Target /\ G[i] \in Files
      BY <1>a, <1>b, <2>1, <2>3
    <3>2. Describes(G[i])
      BY <1>a, <1>c, <2>1, <2>3
    <3>. QED  BY <1>1, <1>2, <1>a, <2>0, <3>1, <3>2 DEF Describes
  <2>. QED  BY <2>2, <2>3
<1>. QED  BY <1>2, <1>3

LEMMA WriteDirectory ==
  ASSUME DirectoryInv, Write
  PROVE  DirectoryInv'
<1>0. proc.op \in {"generate", "build"} /\ Working
  BY DEF Write, Working
<1>1. CASE proc.op = "generate"
  <2>. DEFINE v == Version[Index]
              G == Generated(v)
  <2>1. /\ v \in {1, 2} /\ proc.next \in 1 .. 8 + v /\ Index \in Gens /\ proc.of = Index
        /\ Order(proc) = G /\ Target \in Files
        /\ Target = "hashes" <=> proc.next = 8 + v
        /\ Len(G) = 8 + v /\ G[8 + v] = "hashes"
    BY <1>1, Rebuilding, GeneratedOrder DEF FilesOpen, Index
  <2>2. disk' = [disk EXCEPT ![Target] = Index]
    BY <1>1, <2>1 DEF Write
  <2>3. Index' = Index /\ v' = v /\ G' = G
    BY <1>1, WrittenDescribes
  <2>4. \A i \in 1 .. proc.next : Describes(G[i])'
    BY <1>1, WrittenDescribes
  <2>5. disk' \in [Files -> Gens \cup {Missing, Torn}]
    BY <2>1, <2>2 DEF DirectoryInv, DirectoryTypeOK
  <2>6. proc \in Busy
    BY <1>1 DEF DirectoryInv, DirectoryTypeOK, Rest, Busy
  <2>7. /\ overtaken' \in BOOLEAN /\ overtaken' = (Target # "hashes")
        /\ started' \in 0 .. MaxStarted /\ deaths' \in 0 .. MaxDeaths
    BY DEF Write, DirectoryInv, DirectoryTypeOK
  <2>. HIDE DEF v, G
  <2>8. CASE Final(proc)
    <3>1. proc' = Rest /\ proc.next = 8 + v /\ Target = "hashes"
      BY <2>1, <2>8 DEF Write, Final
    <3>2. DirectoryTypeOK'
      BY <2>5, <2>7, <3>1 DEF DirectoryTypeOK, Rest, Working
    <3>3. Progress'
      BY <3>1 DEF Progress, Rest
    <3>4. disk'["hashes"] = Index
      BY <2>1, <2>2, <3>1 DEF DirectoryInv, DirectoryTypeOK
    <3>5. Generated(Version[disk["hashes"]])' = G
      BY <3>4 DEF G, v
    <3>6. Certified'
      <4>1. \A i \in 1 .. Len(G) : Describes(G[i])'
        BY <2>1, <2>4, <3>1
      <4>2. \A i \in 1 .. Len(G) : disk'[G[i]] \in Gens
                /\ Frames[disk'[G[i]]] = Frames[disk'["hashes"]]
        BY <2>3, <3>4, <4>1 DEF Describes
      <4>. QED  BY <3>5, <4>2 DEF Certified
    <3>. QED  BY <3>2, <3>3, <3>6 DEF DirectoryInv
  <2>9. CASE ~Final(proc)
    <3>1. proc' = [proc EXCEPT !.next = @ + 1] /\ proc.next # 8 + v
      BY <2>1, <2>9 DEF Write, Final
    <3>2. /\ proc'.op = "generate" /\ proc'.of = Index /\ proc'.next = proc.next + 1
          /\ proc' \in [op : {"generate", "build"}, of : Gens, next : Nat]
      BY <1>1, <2>1, <2>6, <3>1 DEF Busy
    <3>3. proc'.next \in 1 .. 8 + v /\ proc'.next \in 1 .. 10
      BY <2>1, <3>1, <3>2
    <3>4. Order(proc)' = G
      BY <2>3, <3>2 DEF Order, G, v
    <3>5. proc' \in Busy
      BY <3>2, <3>3 DEF Busy
    <3>6. DirectoryTypeOK'
      BY <2>1, <2>3, <2>5, <2>7, <3>2, <3>3, <3>4, <3>5 DEF DirectoryTypeOK
    <3>7. overtaken'
      BY <2>1, <2>7, <3>1
    <3>8. Progress'
      <4>1. \A i \in 1 .. proc'.next - 1 : Describes(G[i])'
        BY <2>1, <2>4, <3>2
      <4>2. Generated(Version[Index])' = G
        BY <2>3 DEF G, v
      <4>. QED  BY <2>3, <3>7, <4>1, <4>2 DEF Progress, Describes
    <3>9. Certified'
      BY <3>7 DEF Certified
    <3>. QED  BY <3>6, <3>8, <3>9 DEF DirectoryInv
  <2>. QED  BY <2>8, <2>9
<1>2. CASE proc.op = "build"
  <2>1. /\ Target \in Files \ {"hashes"} /\ proc.of \in Gens
    BY <1>2, Building
  <2>2. disk' \in [Files -> Gens \cup {Missing, Torn}]
    BY <2>1 DEF Write, DirectoryInv, DirectoryTypeOK
  <2>3. proc \in Busy
    BY <1>2 DEF DirectoryInv, DirectoryTypeOK, Rest, Busy
  <2>4. /\ overtaken' = TRUE
        /\ started' \in 0 .. MaxStarted /\ deaths' \in 0 .. MaxDeaths
    BY <2>1 DEF Write, DirectoryInv, DirectoryTypeOK
  <2>5. proc' = Rest \/ (proc' = [proc EXCEPT !.next = @ + 1] /\ ~Final(proc))
    BY DEF Write
  <2>6. CASE proc' = Rest
    BY <2>2, <2>4, <2>6 DEF DirectoryInv, DirectoryTypeOK, Progress, Certified, Rest, Working
  <2>7. CASE proc' = [proc EXCEPT !.next = @ + 1] /\ ~Final(proc)
    <3>. DEFINE n == Len(Order(proc))
    <3>1. n \in 1 .. 10
      <4>1. Order(proc) = Built(Version[proc.of]) /\ Version[proc.of] \in {1, 2}
        BY <1>2, <2>1, DirectoryAssumption DEF Order
      <4>. QED  BY <4>1, BuiltOrder
    <3>2. proc.next \in 1 .. n /\ proc.next # n
      BY <1>0, <2>7 DEF DirectoryInv, DirectoryTypeOK, Final
    <3>3. /\ proc'.op = "build" /\ proc'.of = proc.of /\ proc'.next = proc.next + 1
          /\ proc' \in [op : {"generate", "build"}, of : Gens, next : Nat]
      BY <1>2, <2>3, <2>7 DEF Busy
    <3>4. n' = n
      BY <1>2, <3>3 DEF Order
    <3>. HIDE DEF n
    <3>5. proc'.next \in 1 .. n /\ proc'.next \in 1 .. 10
      BY <3>1, <3>2, <3>3
    <3>6. proc' \in Busy
      BY <3>3, <3>5 DEF Busy
    <3>7. (Working => proc.next \in 1 .. Len(Order(proc)))'
      BY <3>4, <3>5 DEF n
    <3>. QED  BY <2>2, <2>4, <3>3, <3>6, <3>7 DEF DirectoryInv, DirectoryTypeOK, Progress, Certified
  <2>. QED  BY <2>5, <2>6, <2>7
<1>. QED  BY <1>0, <1>1, <1>2

LEMMA DieDirectory ==
  ASSUME DirectoryInv, DieWorking
  PROVE  DirectoryInv'
<1>1. proc' = Rest /\ started' = started /\ deaths' \in 0 .. MaxDeaths
  BY BoundsAssumption DEF DieWorking, DirectoryInv, DirectoryTypeOK
<1>2. CASE UNCHANGED <<disk, overtaken>>
  <2>1. DirectoryTypeOK'
    BY <1>1, <1>2 DEF DirectoryInv, DirectoryTypeOK, Rest, Working
  <2>. QED  BY <1>1, <1>2, <2>1 DEF DirectoryInv, Progress, Certified, Rest
<1>3. ASSUME Working, NEW content \in {Torn} \cup (IF Target = "hashes" THEN {Missing} ELSE {}),
             disk' = [disk EXCEPT ![Target] = content],
             overtaken' = (overtaken \/ Target # "hashes")
      PROVE  DirectoryInv'
  <2>0. content \in {Missing, Torn}
    OBVIOUS
  <2>1. Target \in Files
    BY <1>3, Rebuilding, Building DEF Working
  <2>2. disk' \in [Files -> Gens \cup {Missing, Torn}] /\ overtaken' \in BOOLEAN
    BY <1>3, <2>0, <2>1 DEF DirectoryInv, DirectoryTypeOK
  <2>3. DirectoryTypeOK'
    BY <1>1, <2>2 DEF DirectoryInv, DirectoryTypeOK, Rest, Working
  <2>4. Progress'
    BY <1>1 DEF Progress, Rest
  <2>5. Certified'
    <3>1. CASE Target = "hashes"
      BY <1>3, <2>0, <2>1, <3>1, DirectoryAssumption DEF Certified, DirectoryInv, DirectoryTypeOK
    <3>2. CASE Target # "hashes"
      BY <1>3, <3>2 DEF Certified
    <3>. QED  BY <3>1, <3>2
  <2>. QED  BY <2>3, <2>4, <2>5 DEF DirectoryInv
<1>. QED  BY <1>2, <1>3 DEF DieWorking

LEMMA StutterDirectory ==
  ASSUME DirectoryInv, UNCHANGED directory
  PROVE  DirectoryInv'
BY DEF directory, DirectoryInv, DirectoryTypeOK, Progress, Certified, Working, Order, Index, Describes, Busy

LEMMA Inductive == DirectoryInv /\ [DirectoryNext]_directory => DirectoryInv'
<1>. SUFFICES ASSUME DirectoryInv, [DirectoryNext]_directory PROVE DirectoryInv'
  OBVIOUS
<1>1. ASSUME NEW g \in Releases, Install(g) PROVE DirectoryInv'
  BY <1>1, InstallDirectory
<1>2. ASSUME NEW g \in Locals, Build(g) PROVE DirectoryInv'
  BY <1>2, BuildDirectory
<1>3. CASE Generate
  BY <1>3, GenerateDirectory
<1>4. CASE Write
  BY <1>4, WriteDirectory
<1>5. CASE DieWorking
  BY <1>5, DieDirectory
<1>6. ASSUME NEW f \in Files, RemoveFile(f) PROVE DirectoryInv'
  BY <1>6, RemoveDirectory
<1>7. CASE UNCHANGED directory
  BY <1>7, StutterDirectory
<1>. QED  BY <1>1, <1>2, <1>3, <1>4, <1>5, <1>6, <1>7 DEF DirectoryNext

LEMMA DirectoryInvariance == DirectorySpec => []DirectoryInv
<1>. QED  BY InitDirectory, Inductive, PTL DEF DirectorySpec

----------------------------------------------------------------------------
(***************************************************************************)
(* Two indexes with the same frames are as one to the sidecars.            *)
(***************************************************************************)
LEMMA CertifiedIndex ==
  ASSUME DirectoryInv, UpToDate, ~overtaken
  PROVE  AllDescribe
<1>. DEFINE h == disk["hashes"]
            v == Version[Index]
<1>1. h \in Gens /\ Index \in Gens /\ FilesOpen
  BY DEF UpToDate, FilesOpen, Index
<1>2. Frames[h] = Frames[Index]
  BY <1>1, NothingChanged, DirectoryAssumption DEF UpToDate
<1>3. Version[h] = v /\ v \in {1, 2}
  BY <1>1, <1>2, DirectoryAssumption
<1>4. \A i \in 1 .. Len(Generated(v)) :
        \/ disk[Generated(v)[i]] = Missing
        \/ Describes(Generated(v)[i])
  BY <1>1, <1>2, <1>3 DEF DirectoryInv, Certified, Describes
<1>5. \A i \in 1 .. 8 + v : Describes(Generated(v)[i])
  <2>1. ASSUME NEW i \in 1 .. 7 + v
        PROVE  disk[Generated(v)[i]] # Missing
    BY <1>3, GeneratedOrder DEF UpToDate
  <2>2. disk[Generated(v)[8 + v]] # Missing
    BY <1>1, <1>3, GeneratedOrder, DirectoryAssumption, ZenonT(40)
  <2>3. \A i \in 1 .. 8 + v : i \in 1 .. 7 + v \/ i = 8 + v
    BY <1>3
  <2>4. Len(Generated(v)) = 8 + v
    BY <1>3, GeneratedOrder
  <2>. HIDE DEF v
  <2>. QED  BY <1>4, <2>1, <2>2, <2>3, <2>4
<1>. QED  BY <1>1, <1>3, <1>5, GeneratedOrder DEF AllDescribe

(***************************************************************************)
(* Type correctness.                                                       *)
(***************************************************************************)
THEOREM TypeCorrect == DirectorySpec => []DirectoryTypeOK
<1>1. DirectoryInv => DirectoryTypeOK
  BY DEF DirectoryInv
<1>. QED  BY <1>1, DirectoryInvariance, PTL

(***************************************************************************)
(* The check of generate_sidecars is right until sidecars are written      *)
(* under hashes that are already there.                                    *)
(***************************************************************************)
THEOREM Sound == DirectorySpec => []SoundUntilOvertaken
<1>1. DirectoryInv => SoundUntilOvertaken
  BY CertifiedIndex DEF SoundUntilOvertaken
<1>. QED  BY <1>1, DirectoryInvariance, PTL

(***************************************************************************)
(* The last write of a rebuild leaves every sidecar describing the index.  *)
(***************************************************************************)
LEMMA LastWrite ==
  ASSUME DirectoryInv, proc.op = "generate", Final(proc), Write
  PROVE  AllDescribe' /\ disk'["hashes"] = Index' /\ Index' = Index
<1>. DEFINE v == Version[Index]
            G == Generated(v)
<1>1. /\ Order(proc) = G /\ v \in {1, 2} /\ Index \in Gens /\ Target \in Files
      /\ proc.of = Index /\ Target = "hashes" <=> proc.next = 8 + v
  BY Rebuilding DEF FilesOpen, Index
<1>2. Len(G) = 8 + v /\ DOMAIN G = 1 .. 8 + v
  BY <1>1, GeneratedOrder
<1>3. proc.next = 8 + v
  BY <1>1, <1>2 DEF Final
<1>4. Index' = Index /\ \A i \in 1 .. proc.next : Describes(G[i])'
  BY WrittenDescribes
<1>5. disk'["hashes"] = Index
  BY <1>1, <1>3 DEF Write, DirectoryInv, DirectoryTypeOK
<1>6. AllDescribe'
  BY <1>1, <1>2, <1>3, <1>4 DEF AllDescribe, FilesOpen, Index, Describes
<1>. QED  BY <1>4, <1>5, <1>6

(***************************************************************************)
(* Hashes are only ever put on disk over a complete set.                   *)
(***************************************************************************)
THEOREM Certifying == DirectorySpec => HashesCertify
<1>. DEFINE Closing == disk'["hashes"] \in Gens /\ disk'["hashes"] # disk["hashes"]
<1>1. ASSUME DirectoryInv, [DirectoryNext]_directory, Closing
      PROVE  AllDescribe'
  <2>1. "hashes" \in Files /\ disk \in [Files -> Gens \cup {Missing, Torn}]
    BY <1>1 DEF Files, DirectoryInv, DirectoryTypeOK
  <2>2. Write
    <3>1. ASSUME NEW g \in Releases, Install(g) PROVE FALSE
      BY <1>1, <2>1, <3>1 DEF Install
    <3>2. ASSUME NEW g \in Locals, Build(g) PROVE FALSE
      BY <1>1, <2>1, <3>2 DEF Build
    <3>3. CASE Generate
      BY <1>1, <3>3 DEF Generate
    <3>4. CASE DieWorking
      <4>1. Torn \notin Gens /\ Missing \notin Gens
        BY DirectoryAssumption
      <4>. QED  BY <1>1, <2>1, <3>4, <4>1 DEF DieWorking
    <3>5. ASSUME NEW f \in Files, RemoveFile(f) PROVE FALSE
      BY <1>1, <2>1, <3>5, DirectoryAssumption DEF RemoveFile
    <3>6. CASE UNCHANGED directory
      BY <1>1, <3>6 DEF directory
    <3>. QED  BY <1>1, <3>1, <3>2, <3>3, <3>4, <3>5, <3>6 DEF DirectoryNext
  <2>3. Target = "hashes"
    BY <1>1, <2>1, <2>2 DEF Write
  <2>4. proc.op = "generate"
    BY <1>1, <2>2, <2>3, Building DEF Write, Working
  <2>5. Final(proc)
    <3>1. /\ Target = "hashes" <=> proc.next = 8 + Version[Index]
          /\ Len(Order(proc)) = 8 + Version[Index]
      BY <1>1, <2>4, Rebuilding, GeneratedOrder
    <3>. QED  BY <2>3, <3>1 DEF Final
  <2>. QED  BY <1>1, <2>2, <2>4, <2>5, LastWrite
<1>2. DirectoryInv /\ [DirectoryNext]_directory => [Closing => AllDescribe']_directory
  BY <1>1
<1>. QED  BY <1>2, DirectoryInvariance, PTL DEF DirectorySpec, HashesCertify

(***************************************************************************)
(* After a rebuild that got to its end the check does not ask for another. *)
(***************************************************************************)
THEOREM Settling == DirectorySpec => RebuildSettles
<1>. DEFINE Closing == proc.op = "generate" /\ Final(proc) /\ Write
<1>1. ASSUME DirectoryInv, Closing
      PROVE  UpToDate'
  <2>1. AllDescribe' /\ disk'["hashes"] = Index' /\ Index' = Index /\ Index \in Gens
    BY <1>1, LastWrite, Rebuilding DEF FilesOpen, Index
  <2>2. Changed(Frames[disk["hashes"]], Frames[Index])' = {}
    <3>1. Frames[Index] \in Seq(STRING)
      BY <2>1, DirectoryAssumption
    <3>. QED  BY <2>1, <3>1, NothingChanged
  <2>3. \A s \in Required(Version[Index]) : disk'[s] # Missing
    <3>1. Version[Index] \in {1, 2}
      BY <2>1, DirectoryAssumption
    <3>. DEFINE v == Version[Index]
    <3>2. \A s \in Required(v) : \E i \in 1 .. 8 + v : Generated(v)[i] = s
      <4>1. \A s \in Required(v) : \E i \in 1 .. 7 + v : Generated(v)[i] = s
        BY <3>1, GeneratedOrder
      <4>2. \A i \in 1 .. 7 + v : i \in 1 .. 8 + v
        BY <3>1
      <4>. HIDE DEF v
      <4>. QED  BY <4>1, <4>2
    <3>3. \A i \in 1 .. 8 + v : disk'[Generated(v)[i]] \in Gens
      <4>1. DOMAIN Generated(v) = 1 .. 8 + v
        BY <3>1, GeneratedOrder
      <4>. QED  BY <2>1, <4>1 DEF AllDescribe, Describes
    <3>. HIDE DEF v
    <3>4. \A s \in Required(v) : disk'[s] # Missing
      BY <3>2, <3>3, DirectoryAssumption
    <3>. QED  BY <3>4 DEF v
  <2>. QED  BY <2>1, <2>2, <2>3 DEF UpToDate, AllDescribe, FilesOpen, Index
<1>2. DirectoryInv => [Closing => UpToDate']_directory
  BY <1>1
<1>. QED  BY <1>2, DirectoryInvariance, PTL DEF RebuildSettles
=============================================================================
