-------------------------- MODULE IndexBuildProofs --------------------------
(***************************************************************************)
(* Proofs about IndexBuild: for any packages, scopes and answers of the    *)
(* binary cache, any capacities of the channels and number of builds, and  *)
(* a process that may die at any step, the path cache holds only what some *)
(* request has brought, and a build that succeeds has written everything.  *)
(*                                                                         *)
(* And about the IndexWriter that such a build drives: for listings of any *)
(* number and sizes, and a build that may fail or die at any step, a file  *)
(* that opens holds the first packages of the build, and an ordinal finds  *)
(* its package by way of the frame map.                                    *)
(***************************************************************************)
EXTENDS IndexBuild, IndexWriter, SequenceTheorems, WellFoundedInduction, TLAPS

Package == [path : Paths, program : Programs \cup {NoProgram}]

(***************************************************************************)
(* The channels, and where the streamer and its reader can be.             *)
(***************************************************************************)
Channels ==
  /\ lines \in Seq(Line) /\ metas \in Seq(STRING) /\ pkgs \in Seq(Package)
  /\ todo \in Seq(Package) /\ json \in Seq(STRING) /\ flushed \in Nat
  /\ past \in Seq(Inputs) /\ pass \in Nat \ {0} /\ read \in Nat
  /\ epc = "meta" => job \in Line
  /\ epc \in {"recv", "meta", "send"} => pass \in DOMAIN input.passes
  /\ rpc # "off" => epc \in {"recv", "meta", "send"}

\* The running build is one that has begun, and one that keeps a cache if it fetches.
Underway ==
  /\ bpc # "idle" => \E i \in DOMAIN past : past[i] = input
  /\ bpc = "write" \/ bpc = "fetcher" => ~input.onlyEval

IsCache(c) ==
  /\ c = [key |-> c.key, ttl |-> c.ttl, entries |-> c.entries]
  /\ c.entries = [p \in Paths |-> [refs |-> c.entries[p].refs, tree |-> c.entries[p].tree,
                                   age |-> c.entries[p].age]]
  /\ \A p \in Paths : c.entries[p].refs \in BOOLEAN /\ c.entries[p].tree \in BOOLEAN

Truthful(c) == \A p \in Paths : /\ c.entries[p].refs => BroughtRefs(p)
                                /\ c.entries[p].tree => BroughtTree(p)

Caches == IsCache(cache) /\ IsCache(disk) /\ Truthful(cache) /\ Truthful(disk)

IInv == TypeOK /\ Channels /\ Underway /\ Caches

-----------------------------------------------------------------------------
LEMMA Bounded ==
  ASSUME NEW S, NEW n \in Nat, NEW s
  PROVE  s \in BoundedSeq(S, n) <=> s \in Seq(S) /\ Len(s) <= n
<1>1. ASSUME s \in BoundedSeq(S, n) PROVE s \in Seq(S) /\ Len(s) <= n
  <2>1. PICK m \in 0 .. n : s \in [1 .. m -> S]
    BY <1>1 DEF BoundedSeq, SeqOf
  <2>. QED  BY <2>1
<1>2. ASSUME s \in Seq(S), Len(s) <= n PROVE s \in BoundedSeq(S, n)
  <2>1. Len(s) \in 0 .. n /\ s \in [1 .. Len(s) -> S]
    BY <1>2
  <2>. QED  BY <2>1 DEF BoundedSeq, SeqOf
<1>. QED  BY <1>1, <1>2

LEMMA Rooms ==
  /\ LineRoom \in Nat \ {0} /\ MetaRoom \in Nat \ {0} /\ PkgRoom \in Nat \ {0}
  /\ MaxBuilds \in Nat
BY RoomAssumption

\* A sequence that loses its head, or is added to when there is room.
LEMMA Shorter ==
  ASSUME NEW S, NEW s \in Seq(S), s # << >>
  PROVE  Tail(s) \in Seq(S) /\ Head(s) \in S /\ Len(Tail(s)) = Len(s) - 1 /\ Len(s) \in Nat
<1>. QED  BY HeadTailProperties

LEMMA Longer ==
  ASSUME NEW S, NEW s \in Seq(S), NEW e \in S, NEW n \in Nat, Len(s) < n
  PROVE  Append(s, e) \in Seq(S) /\ Len(Append(s, e)) <= n
<1>1. Append(s, e) \in Seq(S) /\ Len(Append(s, e)) = Len(s) + 1 /\ Len(s) \in Nat
  BY AppendProperties
<1>. QED  BY <1>1

LEMMA Initially == Init => IInv
<1>. SUFFICES ASSUME Init PROVE IInv
  OBVIOUS
<1>. USE DEF Init
<1>1. << >> \in Seq(Inputs) /\ << >> \in Seq(STRING) /\ << >> \in Seq(Package)
      /\ << >> \in Seq(Line) /\ Len(<< >>) = 0
  OBVIOUS
<1>2. << >> \in BoundedSeq(Inputs, MaxBuilds)
  <2>1. 0 <= MaxBuilds
    BY Rooms
  <2>2. Len(<< >>) <= MaxBuilds
    BY <1>1, <2>1
  <2>. QED  BY <1>1, <2>2, Rooms, Bounded
<1>3. TypeOK
  BY <1>1, <1>2, Rooms DEF TypeOK
<1>4. Channels /\ Underway
  BY <1>1 DEF Channels, Underway
<1>5. Caches
  BY DEF Caches, IsCache, Truthful, NoCache, NoEntry
<1>. QED  BY <1>3, <1>4, <1>5 DEF IInv

-----------------------------------------------------------------------------
(***************************************************************************)
(* Beginning a build: what earlier builds have brought stays brought.      *)
(***************************************************************************)
LEMMA PastGrows ==
  ASSUME IInv, NEW w \in Inputs, past' = Append(past, w)
  PROVE  /\ past' \in Seq(Inputs) /\ past'[Len(past) + 1] = w /\ Len(past) + 1 \in DOMAIN past'
         /\ \A p : (BroughtRefs(p) => BroughtRefs(p)') /\ (BroughtTree(p) => BroughtTree(p)')
<1>. USE DEF IInv, Channels
<1>1. /\ past' \in Seq(Inputs) /\ Len(past') = Len(past) + 1 /\ Len(past) \in Nat
      /\ \A i \in DOMAIN past : i \in DOMAIN past' /\ past'[i] = past[i]
      /\ past'[Len(past) + 1] = w /\ Len(past) + 1 \in DOMAIN past'
  BY AppendProperties
<1>2. \A p : (BroughtRefs(p) => BroughtRefs(p)') /\ (BroughtTree(p) => BroughtTree(p)')
  BY <1>1 DEF BroughtRefs, BroughtTree
<1>. QED  BY <1>1, <1>2

LEMMA Loading ==
  ASSUME IInv, NEW w \in Inputs
  PROVE  IsCache(Load(w)) /\ Truthful(Load(w))
<1>. USE DEF IInv, Caches
<1>1. CASE ~w.pathCache
  BY <1>1 DEF Load, NoCache, NoEntry, IsCache, Truthful
<1>2. CASE w.pathCache /\ (w.force \/ disk.key # w.nixpkgs)
  BY <1>2 DEF Load, EmptyCache, NoEntry, IsCache, Truthful
<1>3. CASE w.pathCache /\ ~(w.force \/ disk.key # w.nixpkgs)
  <2>. DEFINE f == [p \in Paths |-> Live(disk, p)]
  <2>1. Load(w) = [disk EXCEPT !.entries = f]
    BY <1>3 DEF Load
  <2>2. \A p \in Paths : f[p] = NoEntry \/ f[p] = disk.entries[p]
    BY DEF Live
  <2>. HIDE DEF f
  <2>3. Load(w) = [key |-> disk.key, ttl |-> disk.ttl, entries |-> f]
    BY <2>1 DEF IsCache
  <2>4. f = [p \in Paths |-> [refs |-> f[p].refs, tree |-> f[p].tree, age |-> f[p].age]]
        /\ \A p \in Paths : f[p].refs \in BOOLEAN /\ f[p].tree \in BOOLEAN
    <3>1. f = [p \in Paths |-> f[p]]
      BY DEF f
    <3>2. \A p \in Paths : /\ f[p] = [refs |-> f[p].refs, tree |-> f[p].tree, age |-> f[p].age]
                           /\ f[p].refs \in BOOLEAN /\ f[p].tree \in BOOLEAN
      <4>. SUFFICES ASSUME NEW p \in Paths
                    PROVE  /\ f[p] = [refs |-> f[p].refs, tree |-> f[p].tree, age |-> f[p].age]
                           /\ f[p].refs \in BOOLEAN /\ f[p].tree \in BOOLEAN
        OBVIOUS
      <4>1. CASE f[p] = NoEntry
        BY <4>1 DEF NoEntry
      <4>2. CASE f[p] = disk.entries[p]
        <5>1. disk.entries[p] = [refs |-> disk.entries[p].refs, tree |-> disk.entries[p].tree,
                                 age |-> disk.entries[p].age]
          BY DEF IsCache
        <5>2. disk.entries[p].refs \in BOOLEAN /\ disk.entries[p].tree \in BOOLEAN
          BY DEF IsCache
        <5>. QED  BY <4>2, <5>1, <5>2
      <4>. QED  BY <2>2, <4>1, <4>2
    <3>. QED  BY <3>1, <3>2
  <2>5. Truthful(Load(w))
    BY <2>2, <2>3 DEF Truthful, NoEntry
  <2>6. IsCache(Load(w))
    BY <2>3, <2>4 DEF IsCache
  <2>. QED  BY <2>5, <2>6
<1>. QED  BY <1>1, <1>2, <1>3

LEMMA StartStep ==
  ASSUME IInv, NEW w \in Inputs, Start(w)
  PROVE  IInv'
<1>. USE DEF IInv, Start
<1>1. /\ past' \in Seq(Inputs) /\ past'[Len(past) + 1] = w /\ Len(past) + 1 \in DOMAIN past'
      /\ \A p : (BroughtRefs(p) => BroughtRefs(p)') /\ (BroughtTree(p) => BroughtTree(p)')
  BY PastGrows
<1>2. past' \in BoundedSeq(Inputs, MaxBuilds)
  BY <1>1, Rooms, Longer, Bounded DEF Channels
<1>3. TypeOK'
  <2>1. Len(<< >>) = 0 /\ files' \subseteq Item
    BY DEF TypeOK, fetchVars
  <2>. QED  BY <1>2, <2>1, Rooms DEF TypeOK
<1>4. Channels'
  BY <1>1 DEF Channels
<1>5. Underway'
  BY <1>1 DEF Underway
<1>6. \A c : Truthful(c) => Truthful(c)'
  BY <1>1 DEF Truthful
<1>7. IsCache(cache') /\ Truthful(cache')
  BY Loading DEF Caches
<1>8. Caches'
  <2>1. IsCache(cache)' /\ IsCache(disk)'
    BY <1>7 DEF IsCache, Caches
  <2>2. Truthful(cache)' /\ Truthful(disk)'
    BY <1>1, <1>7 DEF Truthful, Caches
  <2>. QED  BY <2>1, <2>2 DEF Caches
<1>. QED  BY <1>3, <1>4, <1>5, <1>8

-----------------------------------------------------------------------------
(***************************************************************************)
(* Steps that leave the path cache and the builds so far alone.            *)
(***************************************************************************)
LEMMA CachesAside ==
  ASSUME IInv, UNCHANGED <<past, cache, disk>>
  PROVE  Caches'
<1>. USE DEF IInv, Caches
<1>1. IsCache(cache)' /\ IsCache(disk)'
  BY DEF IsCache
<1>2. \A p : (BroughtRefs(p) => BroughtRefs(p)') /\ (BroughtTree(p) => BroughtTree(p)')
  BY DEF BroughtRefs, BroughtTree
<1>3. Truthful(cache)' /\ Truthful(disk)'
  BY <1>2 DEF Truthful
<1>. QED  BY <1>1, <1>3

\* The build goes on, to where it may be with what it was asked for.
LEMMA UnderwayAside ==
  ASSUME IInv, UNCHANGED <<past, input>>, bpc # "idle" \/ bpc' = bpc,
         bpc' \in {"write", "fetcher"} => bpc \in {"write", "fetcher"}
  PROVE  Underway'
BY DEF IInv, Underway

LEMMA NewFetcherStep == ASSUME IInv, NewFetcher PROVE IInv'
<1>. USE DEF IInv, NewFetcher
<1>1. TypeOK'
  BY DEF TypeOK, evalVars, metaVars, Return
<1>2. Channels'
  BY DEF Channels, evalVars, metaVars
<1>3. Underway'
  BY UnderwayAside
<1>4. Caches'
  BY CachesAside
<1>. QED  BY <1>1, <1>2, <1>3, <1>4

LEMMA FeedStep == ASSUME IInv, Feed PROVE IInv'
<1>. USE DEF IInv, Feed
<1>1. Tail(pkgs) \in Seq(Package) /\ Len(Tail(pkgs)) = Len(pkgs) - 1 /\ Len(pkgs) \in Nat
  BY Shorter DEF Channels
<1>2. TypeOK'
  <2>1. Len(pkgs') <= PkgRoom
    BY <1>1, Rooms DEF TypeOK
  <2>. QED  BY <2>1 DEF TypeOK, evalVars, metaVars
<1>3. Channels'
  BY <1>1 DEF Channels, evalVars, metaVars
<1>4. Underway'
  BY UnderwayAside
<1>5. Caches'
  BY CachesAside
<1>. QED  BY <1>2, <1>3, <1>4, <1>5

LEMMA FeedEndsStep == ASSUME IInv, FeedEnds PROVE IInv'
<1>. USE DEF IInv, FeedEnds
<1>1. TypeOK' /\ Channels'
  BY DEF TypeOK, Channels, evalVars, metaVars
<1>2. Underway'
  BY UnderwayAside
<1>3. Caches'
  BY CachesAside
<1>. QED  BY <1>1, <1>2, <1>3

LEMMA ListingsAreItems == \A w : Listings(w) \subseteq Item
<1>. SUFFICES ASSUME NEW w, NEW p \in Closure(w), Listing(w, p) # NoItem
              PROVE  Listing(w, p) \in Item
  BY DEF Listings
<1>1. p \in Paths
  BY DEF Closure
<1>. DEFINE body == Body(w, p, MainProgram(w, Len(w.input), p))
<1>2. body # NoItem => body \in Programs \cup {Tree}
  BY ProgramsAssumption DEF Body
<1>. HIDE DEF body
<1>3. Listing(w, p) = IF body = NoItem THEN NoItem
                      ELSE [path |-> p, toplevel |-> p \in RootPaths(w), body |-> body]
  BY DEF Listing, body
<1>4. (p \in RootPaths(w)) \in BOOLEAN
  OBVIOUS
<1>. QED  BY <1>1, <1>2, <1>3, <1>4 DEF Item

LEMMA WriteListingStep == ASSUME IInv, WriteListing PROVE IInv'
<1>. USE DEF IInv, WriteListing
<1>1. files' \subseteq Item /\ bpc' \in {"write", "err"}
  BY ListingsAreItems DEF TypeOK, Return
<1>2. TypeOK'
  BY <1>1 DEF TypeOK, evalVars, metaVars
<1>3. Channels'
  BY DEF Channels, evalVars, metaVars
<1>4. Underway'
  BY <1>1, UnderwayAside
<1>5. Caches'
  BY CachesAside
<1>. QED  BY <1>2, <1>3, <1>4, <1>5

(***************************************************************************)
(* A run of the fetcher adds to the cache what this build has brought.     *)
(***************************************************************************)
LEMMA Keeping ==
  ASSUME IInv, bpc = "write", input.pathCache
  PROVE  IsCache(CacheAfter(input, cache)) /\ Truthful(CacheAfter(input, cache))
<1>. USE DEF IInv, Caches
<1>. DEFINE f == [p \in Paths |-> IF p \in Closure(Source(input, cache))
                                 THEN EntryAfter(input, cache, p) ELSE cache.entries[p]]
<1>1. CacheAfter(input, cache) = [key |-> cache.key, ttl |-> cache.ttl, entries |-> f]
  <2>1. CacheAfter(input, cache) = [cache EXCEPT !.entries = f]
    BY DEF CacheAfter
  <2>. HIDE DEF f
  <2>. QED  BY <2>1 DEF IsCache
<1>2. ~input.onlyEval /\ \E i \in DOMAIN past : past[i] = input
  BY DEF Underway
<1>3. ASSUME NEW p \in Paths
      PROVE  /\ EntryAfter(input, cache, p) = [refs |-> EntryAfter(input, cache, p).refs,
                                              tree |-> EntryAfter(input, cache, p).tree,
                                              age |-> EntryAfter(input, cache, p).age]
             /\ EntryAfter(input, cache, p).refs \in BOOLEAN
             /\ EntryAfter(input, cache, p).tree \in BOOLEAN
             /\ EntryAfter(input, cache, p).refs => BroughtRefs(p)
             /\ EntryAfter(input, cache, p).tree => BroughtTree(p)
  <2>. DEFINE e == Live(cache, p)  s == Source(input, cache)
  <2>1. /\ e = [refs |-> e.refs, tree |-> e.tree, age |-> e.age]
        /\ e.refs \in BOOLEAN /\ e.tree \in BOOLEAN
        /\ (e.refs => BroughtRefs(p)) /\ (e.tree => BroughtTree(p))
    <3>1. CASE e = NoEntry
      BY <3>1 DEF NoEntry
    <3>2. CASE e = cache.entries[p]
      <4>1. cache.entries[p] = [refs |-> cache.entries[p].refs, tree |-> cache.entries[p].tree,
                                age |-> cache.entries[p].age]
        BY DEF IsCache
      <4>2. /\ cache.entries[p].refs \in BOOLEAN /\ cache.entries[p].tree \in BOOLEAN
            /\ (cache.entries[p].refs => BroughtRefs(p)) /\ (cache.entries[p].tree => BroughtTree(p))
        BY DEF IsCache, Truthful
      <4>. QED  BY <3>2, <4>1, <4>2
    <3>. QED  BY <3>1, <3>2 DEF Live
  <2>2. s.narinfo[p] = "ok" => e.refs \/ Answer(input.narinfo[p]) = "ok"
    BY DEF Source
  <2>3. s.ls[p] = "ok" => e.tree \/ Answer(input.ls[p]) = "ok"
    BY DEF Source
  <2>4. Answer(input.narinfo[p]) = "ok" => BroughtRefs(p)
    BY <1>2 DEF BroughtRefs, Fetches
  <2>5. Answer(input.ls[p]) = "ok" => BroughtTree(p)
    BY <1>2 DEF BroughtTree, Fetches
  <2>6. (s.narinfo[p] = "ok" => BroughtRefs(p)) /\ (s.ls[p] = "ok" => BroughtTree(p))
    BY <2>1, <2>2, <2>3, <2>4, <2>5
  <2>. DEFINE narinfo == ~input.shallow /\ s.narinfo[p] = "ok"
              tree == (input.shallow \/ narinfo) /\ s.ls[p] = "ok"
              fresh == (narinfo /\ ~e.refs) \/ (tree /\ ~e.tree)
  <2>7. EntryAfter(input, cache, p) =
          IF fresh THEN [refs |-> e.refs \/ narinfo, tree |-> e.tree \/ tree, age |-> 0] ELSE e
    BY DEF EntryAfter
  <2>8. (narinfo => BroughtRefs(p)) /\ (tree => BroughtTree(p))
    BY <2>6
  <2>. HIDE DEF e, s, narinfo, tree, fresh
  <2>9. CASE fresh
    <3>. DEFINE r == e.refs \/ narinfo  t == e.tree \/ tree
    <3>1. r \in BOOLEAN /\ t \in BOOLEAN /\ (r => BroughtRefs(p)) /\ (t => BroughtTree(p))
      BY <2>1, <2>8
    <3>2. EntryAfter(input, cache, p) = [refs |-> r, tree |-> t, age |-> 0]
      BY <2>7, <2>9
    <3>. HIDE DEF r, t
    <3>. QED  BY <3>1, <3>2
  <2>10. CASE ~fresh
    BY <2>1, <2>7, <2>10
  <2>. QED  BY <2>9, <2>10
<1>4. \A p \in Paths : /\ cache.entries[p] = [refs |-> cache.entries[p].refs,
                            tree |-> cache.entries[p].tree, age |-> cache.entries[p].age]
                       /\ cache.entries[p].refs \in BOOLEAN /\ cache.entries[p].tree \in BOOLEAN
                       /\ (cache.entries[p].refs => BroughtRefs(p))
                       /\ (cache.entries[p].tree => BroughtTree(p))
  <2>1. IsCache(cache) /\ Truthful(cache)
    OBVIOUS
  <2>2. \A p \in Paths : cache.entries[p] = [refs |-> cache.entries[p].refs,
                            tree |-> cache.entries[p].tree, age |-> cache.entries[p].age]
    BY <2>1, ZenonT(40) DEF IsCache
  <2>3. \A p \in Paths : cache.entries[p].refs \in BOOLEAN /\ cache.entries[p].tree \in BOOLEAN
    BY <2>1 DEF IsCache
  <2>4. \A p \in Paths : /\ (cache.entries[p].refs => BroughtRefs(p))
                         /\ (cache.entries[p].tree => BroughtTree(p))
    BY <2>1 DEF Truthful
  <2>. QED  BY <2>2, <2>3, <2>4
<1>5. /\ f = [p \in Paths |-> f[p]]
      /\ \A p \in Paths : f[p] = EntryAfter(input, cache, p) \/ f[p] = cache.entries[p]
  OBVIOUS
<1>. HIDE DEF f
<1>6. \A p \in Paths : /\ f[p] = [refs |-> f[p].refs, tree |-> f[p].tree, age |-> f[p].age]
                       /\ f[p].refs \in BOOLEAN /\ f[p].tree \in BOOLEAN
                       /\ (f[p].refs => BroughtRefs(p)) /\ (f[p].tree => BroughtTree(p))
  <2>. SUFFICES ASSUME NEW p \in Paths
                PROVE  /\ f[p] = [refs |-> f[p].refs, tree |-> f[p].tree, age |-> f[p].age]
                       /\ f[p].refs \in BOOLEAN /\ f[p].tree \in BOOLEAN
                       /\ (f[p].refs => BroughtRefs(p)) /\ (f[p].tree => BroughtTree(p))
    OBVIOUS
  <2>1. CASE f[p] = EntryAfter(input, cache, p)
    BY <1>3, <2>1
  <2>2. CASE f[p] = cache.entries[p]
    BY <1>4, <2>2
  <2>. QED  BY <1>5, <2>1, <2>2
<1>7. IsCache(CacheAfter(input, cache))
  BY <1>1, <1>5, <1>6 DEF IsCache
<1>8. Truthful(CacheAfter(input, cache))
  <2>1. CacheAfter(input, cache).entries = f
    BY <1>1
  <2>. QED  BY <1>6, <2>1 DEF Truthful
<1>. QED  BY <1>7, <1>8

LEMMA ListingsEndStep == ASSUME IInv, ListingsEnd PROVE IInv'
<1>. USE DEF IInv, ListingsEnd
<1>1. TypeOK' /\ Channels'
  BY DEF TypeOK, Channels, evalVars, metaVars
<1>2. Underway'
  BY UnderwayAside
<1>3. IsCache(cache') /\ Truthful(cache')
  BY Keeping DEF Caches
<1>4. \A p : (BroughtRefs(p) => BroughtRefs(p)') /\ (BroughtTree(p) => BroughtTree(p)')
  BY DEF BroughtRefs, BroughtTree
<1>5. IsCache(cache)' /\ IsCache(disk)'
  BY <1>3 DEF IsCache, Caches
<1>6. Truthful(cache)' /\ Truthful(disk)'
  BY <1>3, <1>4 DEF Truthful, Caches
<1>. QED  BY <1>1, <1>2, <1>5, <1>6 DEF Caches

LEMMA DrainStep == ASSUME IInv, Drain PROVE IInv'
<1>. USE DEF IInv, Drain
<1>1. pkgs' \in Seq(Package) /\ Len(pkgs') <= PkgRoom
  <2>1. CASE pkgs # << >> /\ pkgs' = Tail(pkgs)
    <3>1. Tail(pkgs) \in Seq(Package) /\ Len(Tail(pkgs)) = Len(pkgs) - 1 /\ Len(pkgs) \in Nat
      BY <2>1, Shorter DEF Channels
    <3>2. Len(pkgs) <= PkgRoom /\ PkgRoom \in Nat
      BY Rooms DEF TypeOK
    <3>3. Len(Tail(pkgs)) <= PkgRoom
      BY <3>1, <3>2
    <3>. QED  BY <2>1, <3>1, <3>3
  <2>2. CASE pkgs' = pkgs
    BY <2>2 DEF TypeOK, Channels
  <2>. QED  BY <2>1, <2>2
<1>2. TypeOK' /\ Channels'
  BY <1>1 DEF TypeOK, Channels, evalVars, metaVars, fetchVars
<1>3. Underway'
  BY UnderwayAside
<1>4. Caches'
  BY CachesAside DEF fetchVars
<1>. QED  BY <1>2, <1>3, <1>4

LEMMA AwaitEvalStep == ASSUME IInv, AwaitEval PROVE IInv'
<1>. USE DEF IInv, AwaitEval
<1>1. bpc' \in {"err", "meta"}
  BY DEF Return
<1>2. TypeOK' /\ Channels'
  BY <1>1 DEF TypeOK, Channels, evalVars, metaVars
<1>3. Underway'
  BY <1>1, UnderwayAside
<1>4. Caches'
  BY CachesAside
<1>. QED  BY <1>2, <1>3, <1>4

LEMMA AwaitMetaStep == ASSUME IInv, AwaitMeta PROVE IInv'
<1>. USE DEF IInv, AwaitMeta
<1>1. bpc' \in {"ok", "finish"}
  OBVIOUS
<1>2. TypeOK' /\ Channels'
  BY <1>1 DEF TypeOK, Channels, evalVars, metaVars, fetchVars
<1>3. Underway'
  BY <1>1, UnderwayAside
<1>4. cache' = cache /\ (disk' = disk \/ disk' = cache)
  BY DEF fetchVars
<1>5. \A p : (BroughtRefs(p) => BroughtRefs(p)') /\ (BroughtTree(p) => BroughtTree(p)')
  BY DEF BroughtRefs, BroughtTree
<1>6. IsCache(cache)' /\ IsCache(disk)'
  BY <1>4 DEF IsCache, Caches
<1>7. Truthful(cache)' /\ Truthful(disk)'
  BY <1>4, <1>5 DEF Truthful, Caches
<1>. QED  BY <1>2, <1>3, <1>6, <1>7 DEF Caches

LEMMA FinishStep == ASSUME IInv, Finish PROVE IInv'
<1>. USE DEF IInv, Finish
<1>1. bpc' \in {"err", "ok"}
  BY DEF Return
<1>2. TypeOK' /\ Channels'
  BY <1>1 DEF TypeOK, Channels, evalVars, metaVars
<1>3. Underway'
  BY <1>1, UnderwayAside
<1>4. Caches'
  BY CachesAside
<1>. QED  BY <1>2, <1>3, <1>4

-----------------------------------------------------------------------------
(***************************************************************************)
(* The evaluation: the pass it is in is one of the passes of its input.    *)
(***************************************************************************)
LEMMA InputIsGood == ASSUME IInv PROVE IsInput(input)
BY InputsAssumption DEF IInv, TypeOK

LEMMA ReadLineStep == ASSUME IInv, ReadLine PROVE IInv'
<1>. USE DEF IInv, ReadLine
<1>1. pass \in DOMAIN input.passes
  BY DEF Channels
<1>2. Pass.lines \in Seq(Line)
  BY <1>1, InputIsGood DEF IsInput, IsPass, Pass
<1>3. Pass.lines[read + 1] \in Line /\ read + 1 \in Nat
  <2>1. read \in Nat /\ Len(Pass.lines) \in Nat
    BY <1>2 DEF Channels
  <2>2. read + 1 \in 1 .. Len(Pass.lines)
    BY <2>1
  <2>. QED  BY <1>2, <2>2
<1>4. lines' \in Seq(Line) /\ Len(lines') <= LineRoom
  BY <1>3, Longer, Rooms DEF Channels
<1>5. TypeOK' /\ Channels'
  BY <1>3, <1>4 DEF TypeOK, Channels, metaVars, fetchVars
<1>6. Underway'
  BY UnderwayAside
<1>7. Caches'
  BY CachesAside DEF fetchVars
<1>. QED  BY <1>5, <1>6, <1>7

LEMMA ChildExitsStep == ASSUME IInv, ChildExits PROVE IInv'
<1>. USE DEF IInv, ChildExits
<1>1. rpc' \in {"ok", "err"}
  OBVIOUS
<1>2. TypeOK' /\ Channels'
  BY <1>1 DEF TypeOK, Channels, metaVars, fetchVars
<1>3. Underway'
  BY UnderwayAside
<1>4. Caches'
  BY CachesAside DEF fetchVars
<1>. QED  BY <1>2, <1>3, <1>4

LEMMA Leaving ==
  ASSUME IInv, NEW lost, LeavePass(lost)
  PROVE  /\ lines' = << >> /\ todo' = << >> /\ rpc' = "off" /\ read' = 0
         /\ epc' \in {"err", "pass"} /\ pass' \in Nat \ {0}
<1>1. pass \in Nat \ {0} /\ (pass' = pass \/ pass' = pass + 1)
  BY DEF LeavePass, IInv, Channels
<1>. QED  BY <1>1 DEF LeavePass

\* What a step of the streamer must keep of its own.
LEMMA Streaming ==
  ASSUME IInv, UNCHANGED <<input, past, bpc, metaVars, pkgsOpen, fetchVars, disk>>,
         lines' \in Seq(Line), Len(lines') <= LineRoom,
         metas' \in Seq(STRING), Len(metas') <= MetaRoom,
         pkgs' \in Seq(Package), Len(pkgs') <= PkgRoom,
         todo' \in Seq(Package), pass' \in Nat \ {0}, read' \in Nat,
         epc' \in {"pass", "recv", "meta", "send", "ok", "err"},
         rpc' \in {"off", "read", "ok", "err"},
         epc' = "meta" => job' \in Line,
         epc' \in {"recv", "meta", "send"} => pass' \in DOMAIN input.passes,
         rpc' # "off" => epc' \in {"recv", "meta", "send"}
  PROVE  IInv'
<1>1. TypeOK' /\ Channels'
  BY DEF IInv, TypeOK, Channels, metaVars, fetchVars
<1>2. Underway'
  BY UnderwayAside
<1>3. Caches'
  BY CachesAside DEF fetchVars
<1>. QED  BY <1>1, <1>2, <1>3 DEF IInv

LEMMA Still ==
  ASSUME IInv
  PROVE  /\ lines \in Seq(Line) /\ Len(lines) <= LineRoom
         /\ metas \in Seq(STRING) /\ Len(metas) <= MetaRoom
         /\ pkgs \in Seq(Package) /\ Len(pkgs) <= PkgRoom
         /\ todo \in Seq(Package) /\ pass \in Nat \ {0} /\ read \in Nat
         /\ epc = "meta" => job \in Line
         /\ epc \in {"recv", "meta", "send"} => pass \in DOMAIN input.passes
         /\ rpc \in {"off", "read", "ok", "err"}
         /\ rpc # "off" => epc \in {"recv", "meta", "send"}
         /\ << >> \in Seq(Line) /\ << >> \in Seq(Package) /\ Len(<< >>) <= LineRoom
<1>1. << >> \in Seq(Line) /\ << >> \in Seq(Package) /\ Len(<< >>) <= LineRoom
  <2>1. 0 <= LineRoom
    BY Rooms
  <2>. QED  BY <2>1
<1>. QED  BY <1>1 DEF IInv, TypeOK, Channels

LEMMA LeavingStep ==
  ASSUME IInv, NEW lost, LeavePass(lost),
         UNCHANGED <<input, past, bpc, metaVars, metas, pkgs, pkgsOpen, fetchVars, disk>>
  PROVE  IInv'
<1>1. /\ lines' = << >> /\ todo' = << >> /\ rpc' = "off" /\ read' = 0
      /\ epc' \in {"err", "pass"} /\ pass' \in Nat \ {0}
  BY Leaving
<1>2. /\ lines' \in Seq(Line) /\ Len(lines') <= LineRoom /\ todo' \in Seq(Package)
      /\ read' \in Nat /\ pass' \in Nat \ {0}
  BY <1>1, Still
<1>3. /\ metas' \in Seq(STRING) /\ Len(metas') <= MetaRoom
      /\ pkgs' \in Seq(Package) /\ Len(pkgs') <= PkgRoom
  BY Still
<1>4. /\ epc' \in {"pass", "recv", "meta", "send", "ok", "err"}
      /\ rpc' \in {"off", "read", "ok", "err"}
      /\ epc' # "meta" /\ epc' \notin {"recv", "meta", "send"} /\ ~(rpc' # "off")
  BY <1>1
<1>. QED  BY <1>2, <1>3, <1>4, Streaming

LEMMA BeginPassStep == ASSUME IInv, BeginPass PROVE IInv'
<1>. USE DEF BeginPass
<1>1. CASE epc' = "ok" /\ UNCHANGED <<pass, job, todo, rpc, read, records, lines>>
  BY <1>1, Still, Streaming
<1>2. CASE /\ pass <= Len(input.passes) /\ epc' = "recv" /\ rpc' = "read"
           /\ UNCHANGED <<pass, job, todo, read, records, lines>>
  <2>1. pass \in DOMAIN input.passes
    BY <1>2, InputIsGood, Still DEF IsInput
  <2>. QED  BY <1>2, <2>1, Still, Streaming
<1>3. CASE LeavePass(pkgsOpen)
  BY <1>3, LeavingStep
<1>. QED  BY <1>1, <1>2, <1>3

LEMMA RecvStep == ASSUME IInv, Recv PROVE IInv'
<1>. USE DEF Recv
<1>1. CASE /\ lines # << >> /\ lines' = Tail(lines)
           /\ IF Available(Head(lines)) THEN job' = Head(lines) /\ epc' = "meta"
              ELSE UNCHANGED <<job, epc>>
           /\ UNCHANGED <<pass, todo, rpc, read, records>>
  <2>1. /\ Tail(lines) \in Seq(Line) /\ Head(lines) \in Line
        /\ Len(Tail(lines)) = Len(lines) - 1 /\ Len(lines) \in Nat
    BY <1>1, Still, Shorter
  <2>2. Len(lines') <= LineRoom
    BY <1>1, <2>1, Still, Rooms
  <2>. QED  BY <1>1, <2>1, <2>2, Still, Streaming
<1>2. CASE LeavePass(rpc = "err")
  BY <1>2, LeavingStep
<1>. QED  BY <1>1, <1>2

LEMMA EntriesArePackages ==
  ASSUME NEW j \in Line
  PROVE  EntriesOf(j) \in Seq(Package)
<1>1. j.outputs \in Seq([path : Paths, out : BOOLEAN]) /\ j.program \in Programs \cup {NoProgram}
  BY DEF Line
<1>2. DOMAIN j.outputs = 1 .. Len(j.outputs) /\ Len(j.outputs) \in Nat
      /\ \A i \in DOMAIN j.outputs : j.outputs[i].path \in Paths
  <2>. DEFINE Output == [path : Paths, out : BOOLEAN]
  <2>1. \A o \in Output : o.path \in Paths
    OBVIOUS
  <2>. HIDE DEF Output
  <2>2. j.outputs \in Seq(Output)
    BY <1>1 DEF Output
  <2>3. \A i \in DOMAIN j.outputs : j.outputs[i] \in Output
    BY <2>2
  <2>. QED  BY <2>1, <2>2, <2>3
<1>3. ASSUME NEW i \in DOMAIN j.outputs PROVE EntriesOf(j)[i] \in Package
  <2>. DEFINE program == IF input.mainProgram /\ j.outputs[i].out THEN j.program ELSE NoProgram
  <2>1. EntriesOf(j)[i] = [path |-> j.outputs[i].path, program |-> program]
    BY DEF EntriesOf
  <2>2. program \in Programs \cup {NoProgram}
    BY <1>1
  <2>. QED  BY <1>2, <2>1, <2>2 DEF Package
<1>4. EntriesOf(j) \in [1 .. Len(j.outputs) -> Package]
  BY <1>2, <1>3 DEF EntriesOf
<1>. QED  BY <1>2, <1>4

LEMMA SendMetaStep == ASSUME IInv, SendMeta PROVE IInv'
<1>. USE DEF SendMeta
<1>1. CASE LeavePass(FALSE) /\ UNCHANGED metas
  BY <1>1, LeavingStep
<1>2. CASE /\ Len(metas) < MetaRoom /\ metas' = Append(metas, MetaOf(job))
           /\ todo' = EntriesOf(job) /\ epc' = "send"
           /\ UNCHANGED <<pass, job, rpc, read, records, lines>>
  <2>1. job \in Line
    BY Still
  <2>2. MetaOf(job) \in STRING /\ EntriesOf(job) \in Seq(Package)
    BY <2>1, EntriesArePackages DEF MetaOf, Line
  <2>3. metas' \in Seq(STRING) /\ Len(metas') <= MetaRoom
    BY <1>2, <2>2, Still, Longer, Rooms
  <2>. QED  BY <1>2, <2>2, <2>3, Still, Streaming
<1>. QED  BY <1>1, <1>2

LEMMA SendEntryStep == ASSUME IInv, SendEntry PROVE IInv'
<1>. USE DEF SendEntry
<1>1. CASE epc' = "recv" /\ UNCHANGED <<pkgs, pass, job, todo, rpc, read, records, lines>>
  BY <1>1, Still, Streaming
<1>2. CASE /\ todo # << >> /\ Len(pkgs) < PkgRoom
           /\ pkgs' = Append(pkgs, Head(todo)) /\ todo' = Tail(todo)
           /\ UNCHANGED <<epc, pass, job, rpc, read, records, lines>>
  <2>1. Head(todo) \in Package /\ Tail(todo) \in Seq(Package)
    BY <1>2, Still, Shorter
  <2>2. pkgs' \in Seq(Package) /\ Len(pkgs') <= PkgRoom
    BY <1>2, <2>1, Still, Longer, Rooms
  <2>. QED  BY <1>2, <2>1, <2>2, Still, Streaming
<1>3. CASE LeavePass(FALSE) /\ UNCHANGED pkgs
  BY <1>3, LeavingStep
<1>. QED  BY <1>1, <1>2, <1>3

-----------------------------------------------------------------------------
(***************************************************************************)
(* The metadata writer, the end of the process, and time.                  *)
(***************************************************************************)
LEMMA Writing ==
  ASSUME IInv, UNCHANGED <<input, past, bpc, evalVars, lines, pkgs, pkgsOpen, fetchVars, disk>>,
         metas' \in Seq(STRING), Len(metas') <= MetaRoom,
         json' \in Seq(STRING), flushed' \in Nat, flushed' <= Len(json'),
         mpc' \in {"create", "recv", "ok", "err"}
  PROVE  IInv'
<1>1. TypeOK' /\ Channels'
  BY DEF IInv, TypeOK, Channels, evalVars, fetchVars
<1>2. Underway'
  BY UnderwayAside
<1>3. Caches'
  BY CachesAside DEF fetchVars
<1>. QED  BY <1>1, <1>2, <1>3 DEF IInv

LEMMA Written ==
  ASSUME IInv
  PROVE  /\ metas \in Seq(STRING) /\ Len(metas) <= MetaRoom
         /\ json \in Seq(STRING) /\ Len(json) \in Nat /\ flushed \in Nat /\ flushed <= Len(json)
BY DEF IInv, TypeOK, Channels

LEMMA MetaStep == ASSUME IInv, Meta PROVE IInv'
<1>1. CASE CreateJson
  <2>1. /\ metas' = metas /\ mpc' \in {"recv", "err"}
        /\ (json' = << >> /\ flushed' = 0) \/ UNCHANGED <<json, flushed>>
    BY <1>1 DEF CreateJson
  <2>2. << >> \in Seq(STRING) /\ 0 <= Len(<< >>) /\ 0 \in Nat
    OBVIOUS
  <2>3. json' \in Seq(STRING) /\ flushed' \in Nat /\ flushed' <= Len(json')
    BY <2>1, <2>2, Written
  <2>. QED  BY <1>1, <2>1, <2>3, Written, Writing DEF CreateJson
<1>2. CASE WriteMeta
  <2>1. /\ metas # << >> /\ metas' = Tail(metas) /\ mpc' \in {"recv", "err"} /\ flushed' = flushed
        /\ json' = Append(json, Head(metas)) \/ json' = json
    BY <1>2 DEF WriteMeta
  <2>2. /\ Tail(metas) \in Seq(STRING) /\ Head(metas) \in STRING
        /\ Len(Tail(metas)) = Len(metas) - 1 /\ Len(metas) \in Nat
    BY <2>1, Written, Shorter
  <2>3. Len(metas') <= MetaRoom
    BY <2>1, <2>2, Written, Rooms
  <2>4. Append(json, Head(metas)) \in Seq(STRING) /\ Len(Append(json, Head(metas))) = Len(json) + 1
    BY <2>2, Written, AppendProperties
  <2>5. json' \in Seq(STRING)
    BY <2>1, <2>4, Written
  <2>6. flushed' \in Nat /\ flushed' <= Len(json')
    BY <2>1, <2>4, Written
  <2>. QED  BY <1>2, <2>1, <2>2, <2>3, <2>5, <2>6, Writing DEF WriteMeta
<1>3. CASE FlushMeta
  <2>1. /\ UNCHANGED <<metas, json>> /\ mpc' \in {"ok", "err"}
        /\ flushed' = Len(json) \/ flushed' = flushed
    BY <1>3 DEF FlushMeta
  <2>2. flushed' \in Nat /\ flushed' <= Len(json')
    BY <2>1, Written
  <2>. QED  BY <1>3, <2>1, <2>2, Written, Writing DEF FlushMeta
<1>. QED  BY <1>1, <1>2, <1>3 DEF Meta

LEMMA ExitStep == ASSUME IInv, Exit PROVE IInv'
<1>. USE DEF IInv, Exit
<1>1. json' \in Seq(STRING) /\ Len(json') = flushed
  <2>1. \A i \in 1 .. flushed : json[i] \in STRING
    BY Written
  <2>2. /\ SubSeq(json, 1, flushed) \in Seq(STRING)
        /\ Len(SubSeq(json, 1, flushed)) = IF 1 <= flushed THEN flushed - 1 + 1 ELSE 0
    BY <2>1, Written, SubSeqProperties
  <2>. QED  BY <2>2, Written
<1>2. Len(<< >>) = 0 /\ << >> \in Seq(Line) /\ << >> \in Seq(STRING) /\ << >> \in Seq(Package)
  OBVIOUS
<1>3. TypeOK'
  BY <1>1, <1>2, Rooms, Written DEF TypeOK
<1>4. Channels'
  BY <1>1, <1>2 DEF Channels
<1>5. Underway'
  BY DEF Underway
<1>6. \A p : (BroughtRefs(p) => BroughtRefs(p)') /\ (BroughtTree(p) => BroughtTree(p)')
  BY DEF BroughtRefs, BroughtTree
<1>7. IsCache(cache)' /\ IsCache(disk)' /\ Truthful(cache)'
  BY DEF IsCache, Truthful, Caches, NoCache, NoEntry
<1>8. Truthful(disk)'
  BY <1>6 DEF Truthful, Caches
<1>. QED  BY <1>3, <1>4, <1>5, <1>7, <1>8 DEF Caches

LEMMA Ageing ==
  ASSUME NEW e, e = [refs |-> e.refs, tree |-> e.tree, age |-> e.age]
  PROVE  /\ Aged(e) = [refs |-> Aged(e).refs, tree |-> Aged(e).tree, age |-> Aged(e).age]
         /\ Aged(e).refs = e.refs /\ Aged(e).tree = e.tree
<1>1. CASE e = NoEntry
  BY <1>1 DEF Aged, NoEntry
<1>2. CASE e # NoEntry
  <2>1. PICK age : Aged(e) = [e EXCEPT !.age = age]
    BY <1>2 DEF Aged
  <2>2. Aged(e) = [refs |-> e.refs, tree |-> e.tree, age |-> age]
    BY <2>1
  <2>. QED  BY <2>2
<1>. QED  BY <1>1, <1>2

LEMMA AgeStep == ASSUME IInv, Age PROVE IInv'
<1>. USE DEF IInv, Age
<1>1. TypeOK' /\ Channels'
  BY DEF TypeOK, Channels, evalVars, metaVars, fetchVars
<1>2. Underway'
  BY UnderwayAside
<1>3. cache' = cache /\ past' = past
  BY DEF fetchVars
<1>4. \A p : (BroughtRefs(p) => BroughtRefs(p)') /\ (BroughtTree(p) => BroughtTree(p)')
  BY <1>3 DEF BroughtRefs, BroughtTree
<1>5. IsCache(cache)' /\ Truthful(cache)'
  BY <1>3, <1>4 DEF IsCache, Truthful, Caches
<1>. DEFINE old == disk.entries
            f == [p \in Paths |-> Aged(old[p])]
<1>6. disk' = [key |-> disk.key, ttl |-> disk.ttl, entries |-> f]
  <2>1. disk' = [disk EXCEPT !.entries = f]
    OBVIOUS
  <2>. HIDE DEF f
  <2>. QED  BY <2>1 DEF IsCache, Caches
<1>7. \A p \in Paths : /\ old[p] = [refs |-> old[p].refs, tree |-> old[p].tree, age |-> old[p].age]
                       /\ old[p].refs \in BOOLEAN /\ old[p].tree \in BOOLEAN
  BY DEF IsCache, Caches
<1>. HIDE DEF old
<1>8. ASSUME NEW p \in Paths
      PROVE  /\ f[p] = [refs |-> f[p].refs, tree |-> f[p].tree, age |-> f[p].age]
             /\ f[p].refs = old[p].refs /\ f[p].tree = old[p].tree
  BY <1>7, Ageing
<1>9. f = [p \in Paths |-> f[p]]
  OBVIOUS
<1>. HIDE DEF f
<1>10. IsCache(disk)'
  <2>0. disk'.key = disk.key /\ disk'.ttl = disk.ttl /\ disk'.entries = f
    BY <1>6
  <2>1. disk' = [key |-> disk'.key, ttl |-> disk'.ttl, entries |-> disk'.entries] /\ disk'.entries = f
    BY <1>6, <2>0
  <2>2. f = [p \in Paths |-> [refs |-> f[p].refs, tree |-> f[p].tree, age |-> f[p].age]]
    BY <1>8, <1>9
  <2>. QED  BY <1>7, <1>8, <2>1, <2>2 DEF IsCache
<1>11. Truthful(disk)'
  <2>1. disk'.entries = f
    BY <1>6
  <2>2. \A p \in Paths : (old[p].refs => BroughtRefs(p)') /\ (old[p].tree => BroughtTree(p)')
    BY <1>4 DEF Caches, Truthful, old
  <2>. QED  BY <1>8, <2>1, <2>2 DEF Truthful
<1>. QED  BY <1>1, <1>2, <1>5, <1>10, <1>11 DEF Caches

-----------------------------------------------------------------------------
LEMMA NextStep == ASSUME IInv, [Next]_vars PROVE IInv'
<1>1. CASE \E w \in Inputs : Start(w)
  BY <1>1, StartStep
<1>2. CASE Eval
  BY <1>2, ReadLineStep, ChildExitsStep, BeginPassStep, RecvStep, SendMetaStep, SendEntryStep DEF Eval
<1>3. CASE Meta
  BY <1>3, MetaStep
<1>4. CASE Fetch
  BY <1>4, FeedStep, FeedEndsStep DEF Fetch
<1>5. CASE Build
  BY <1>5, NewFetcherStep, WriteListingStep, ListingsEndStep, DrainStep, AwaitEvalStep,
     AwaitMetaStep, FinishStep DEF Build
<1>6. CASE Exit
  BY <1>6, ExitStep
<1>7. CASE Age
  BY <1>7, AgeStep
<1>8. CASE UNCHANGED vars
  <2>. USE <1>8 DEF vars
  <2>. QED  BY Still, Written, Writing DEF metaVars, IInv, TypeOK
<1>. QED  BY <1>1, <1>2, <1>3, <1>4, <1>5, <1>6, <1>7, <1>8 DEF Next

THEOREM Invariance == Spec => []IInv
<1>1. IInv /\ [Next]_vars => IInv'
  BY NextStep
<1>. QED  BY <1>1, Initially, PTL DEF Spec

(***************************************************************************)
(* Over any number of builds, with failures at any request, time passing   *)
(* and the process dying anywhere, what the path cache has of a path is    *)
(* what a request for it brought: a request that failed leaves nothing.    *)
(***************************************************************************)
THEOREM CacheHoldsOnlyAnswers == Spec => []CacheTruthful
<1>1. IInv => CacheTruthful
  <2>. SUFFICES ASSUME IInv PROVE CacheTruthful
    OBVIOUS
  <2>1. TypeOK /\ Truthful(cache) /\ Truthful(disk)
    BY DEF IInv, Caches
  <2>2. ASSUME NEW p \in Paths, NEW c \in {cache, disk}
        PROVE  (c.entries[p].refs => BroughtRefs(p)) /\ (c.entries[p].tree => BroughtTree(p))
    <3>1. CASE c = cache
      BY <2>1, <3>1 DEF Truthful
    <3>2. CASE c = disk
      BY <2>1, <3>2 DEF Truthful
    <3>. QED  BY <3>1, <3>2
  <2>. QED  BY <2>1, <2>2, Zenon DEF CacheTruthful
<1>. QED  BY <1>1, Invariance, PTL
-----------------------------------------------------------------------------
\* The least of some numbers: what stands in for induction below.
LEMMA Smallest ==
  ASSUME NEW T, T \subseteq Nat, T # {}
  PROVE  \E i \in T : \A j \in T : i <= j
<1>1. PICK i \in T : \A j \in T : ~ (<<j, i>> \in OpToRel(<, Nat))
  BY NatLessThanWellFounded, WFMin
<1>2. \A j \in Nat : <<j, i>> \in OpToRel(<, Nat) <=> j < i
  BY <1>1 DEF OpToRel
<1>. HIDE DEF OpToRel
<1>3. ASSUME NEW j \in T PROVE i <= j
  <2>1. ~(j < i) /\ i \in Nat /\ j \in Nat
    BY <1>1, <1>2
  <2>. QED  BY <2>1
<1>. QED  BY <1>3

(***************************************************************************)
(* FlattenSeq: f is the function it is computed with, on the first n       *)
(* sequences of g.  Such a function exists, and what it is up to m depends *)
(* on the first m sequences only.                                          *)
(***************************************************************************)
Flattens(f, g, n) == f = [i \in 1 .. n |-> IF i = 1 THEN g[i] ELSE f[i - 1] \o g[i]]

LEMMA FlatteningExists ==
  ASSUME NEW g, NEW n \in Nat
  PROVE  \E f : Flattens(f, g, n)
<1>. DEFINE T == {m \in Nat : ~ \E f : Flattens(f, g, m)}
<1>. SUFFICES ASSUME T # {} PROVE FALSE
  OBVIOUS
<1>1. PICK m \in T : \A k \in T : m <= k
  <2>. HIDE DEF T
  <2>1. T \subseteq Nat
    BY DEF T
  <2>. QED  BY <2>1, Smallest
<1>2. m # 0
  <2>1. Flattens([i \in 1 .. 0 |-> g[i]], g, 0)
    BY DEF Flattens
  <2>. QED  BY <2>1
<1>3. m \in Nat /\ m - 1 \in Nat /\ m - 1 \notin T
  BY <1>1, <1>2
<1>4. PICK f : Flattens(f, g, m - 1)
  BY <1>3
<1>. DEFINE h == [i \in 1 .. m |-> IF i = 1 THEN g[i] ELSE f[i - 1] \o g[i]]
<1>5. \A i \in 1 .. m - 1 : h[i] = f[i]
  <2>. SUFFICES ASSUME NEW i \in 1 .. m - 1 PROVE h[i] = f[i]
    OBVIOUS
  <2>1. i \in 1 .. m
    BY <1>3
  <2>2. h[i] = IF i = 1 THEN g[i] ELSE f[i - 1] \o g[i]
    BY <2>1
  <2>3. f[i] = IF i = 1 THEN g[i] ELSE f[i - 1] \o g[i]
    BY <1>4 DEF Flattens
  <2>. QED  BY <2>2, <2>3
<1>6. Flattens(h, g, m)
  <2>1. h = [i \in 1 .. m |-> h[i]]
    OBVIOUS
  <2>2. ASSUME NEW i \in 1 .. m
        PROVE  h[i] = IF i = 1 THEN g[i] ELSE h[i - 1] \o g[i]
    <3>1. CASE i = 1
      BY <3>1
    <3>2. CASE i # 1
      <4>1. i - 1 \in 1 .. m - 1
        BY <1>3, <3>2
      <4>2. h[i] = f[i - 1] \o g[i]
        BY <3>2
      <4>. QED  BY <1>5, <3>2, <4>1, <4>2
    <3>. QED  BY <3>1, <3>2
  <2>. HIDE DEF h
  <2>. QED  BY <2>1, <2>2 DEF Flattens
<1>. QED  BY <1>1, <1>6

LEMMA FlatteningAgrees ==
  ASSUME NEW f, NEW g, NEW n \in Nat, Flattens(f, g, n),
         NEW h, NEW k, NEW m \in Nat, Flattens(h, k, m), m <= n,
         \A i \in 1 .. m : g[i] = k[i],
         NEW j \in 1 .. m
  PROVE  f[j] = h[j]
<1>. DEFINE T == {i \in 1 .. m : f[i] # h[i]}
<1>. SUFFICES ASSUME T # {} PROVE FALSE
  OBVIOUS
<1>1. PICK i \in T : \A l \in T : i <= l
  <2>. HIDE DEF T
  <2>1. T \subseteq Nat
    BY DEF T
  <2>. QED  BY <2>1, Smallest
<1>2. /\ i \in 1 .. m /\ i \in 1 .. n /\ g[i] = k[i]
      /\ f[i] = IF i = 1 THEN g[i] ELSE f[i - 1] \o g[i]
      /\ h[i] = IF i = 1 THEN k[i] ELSE h[i - 1] \o k[i]
  <2>1. i \in 1 .. m /\ i \in 1 .. n
    BY <1>1
  <2>2. f[i] = IF i = 1 THEN g[i] ELSE f[i - 1] \o g[i]
    BY <2>1 DEF Flattens
  <2>3. h[i] = IF i = 1 THEN k[i] ELSE h[i - 1] \o k[i]
    BY <2>1 DEF Flattens
  <2>. QED  BY <2>1, <2>2, <2>3
<1>3. i # 1
  BY <1>1, <1>2
<1>4. i - 1 \in 1 .. m /\ i - 1 \notin T
  BY <1>1, <1>2, <1>3
<1>. QED  BY <1>1, <1>2, <1>3, <1>4

LEMMA FlattenedSeq ==
  ASSUME NEW n \in Nat \ {0}, NEW S, NEW g \in [1 .. n -> Seq(S)]
  PROVE  \E f : Flattens(f, g, n) /\ FlattenSeq(g) = f[n]
<1>1. Len(g) = n /\ n # 0 /\ 1 .. Len(g) = 1 .. n
  <2>1. g \in Seq(Seq(S))
    OBVIOUS
  <2>2. DOMAIN g = 1 .. n
    OBVIOUS
  <2>. QED  BY <2>1, <2>2
<1>2. \E f : f = [i \in 1 .. Len(g) |-> IF i = 1 THEN g[i] ELSE f[i - 1] \o g[i]]
  BY <1>1, FlatteningExists DEF Flattens
<1>3. \E f : /\ f = [i \in 1 .. Len(g) |-> IF i = 1 THEN g[i] ELSE f[i - 1] \o g[i]]
             /\ FlattenSeq(g) = f[Len(g)]
  <2>1. Len(g) # 0
    BY <1>1
  <2>. QED  BY <1>2, <2>1, Zenon DEF FlattenSeq
<1>. QED  BY <1>1, <1>3 DEF Flattens

LEMMA FlattenNothing == ASSUME NEW g, Len(g) = 0 PROVE FlattenSeq(g) = g
BY DEF FlattenSeq

\* The type of a flattened sequence, and one more sequence at its end.
LEMMA FlattenType ==
  ASSUME NEW S, NEW n \in Nat, NEW g \in [1 .. n -> Seq(S)]
  PROVE  FlattenSeq(g) \in Seq(S)
<1>1. CASE n = 0
  <2>1. g = << >> /\ Len(g) = 0 /\ << >> \in Seq(S)
    BY <1>1
  <2>. QED  BY <2>1, FlattenNothing
<1>2. CASE n # 0
  <2>1. PICK f : Flattens(f, g, n) /\ FlattenSeq(g) = f[n]
    BY <1>2, FlattenedSeq
  <2>. DEFINE T == {i \in 1 .. n : f[i] \notin Seq(S)}
  <2>2. ASSUME T # {} PROVE FALSE
    <3>1. PICK i \in T : \A l \in T : i <= l
      <4>. HIDE DEF T
      <4>1. T \subseteq Nat
        BY DEF T
      <4>. QED  BY <2>2, <4>1, Smallest
    <3>2. i \in 1 .. n /\ g[i] \in Seq(S) /\ f[i] = IF i = 1 THEN g[i] ELSE f[i - 1] \o g[i]
      <4>1. i \in 1 .. n
        OBVIOUS
      <4>. QED  BY <2>1, <4>1 DEF Flattens
    <3>3. i # 1
      BY <3>2
    <3>4. i - 1 \in 1 .. n /\ i - 1 \notin T
      BY <3>1, <3>2, <3>3
    <3>5. f[i - 1] \in Seq(S)
      BY <3>4
    <3>6. f[i - 1] \o g[i] \in Seq(S)
      BY <3>2, <3>5
    <3>. QED  BY <3>2, <3>3, <3>6
  <2>. QED  BY <1>2, <2>1, <2>2
<1>. QED  BY <1>1, <1>2

LEMMA FlattenStep ==
  ASSUME NEW S, NEW n \in Nat, NEW g \in [1 .. n + 1 -> Seq(S)]
  PROVE  FlattenSeq(g) = FlattenSeq([i \in 1 .. n |-> g[i]]) \o g[n + 1]
<1>. DEFINE k == [i \in 1 .. n |-> g[i]]
<1>1. k \in [1 .. n -> Seq(S)] /\ g[n + 1] \in Seq(S) /\ n + 1 \in Nat \ {0} /\ n + 1 \in 1 .. n + 1
  OBVIOUS
<1>2. PICK f : Flattens(f, g, n + 1) /\ FlattenSeq(g) = f[n + 1]
  BY <1>1, FlattenedSeq
<1>3. f[n + 1] = IF n + 1 = 1 THEN g[n + 1] ELSE f[n + 1 - 1] \o g[n + 1]
  <2>. DEFINE m == n + 1
  <2>1. m \in 1 .. m /\ f = [i \in 1 .. m |-> IF i = 1 THEN g[i] ELSE f[i - 1] \o g[i]]
    BY <1>1, <1>2 DEF Flattens
  <2>. HIDE DEF m
  <2>2. f[m] = IF m = 1 THEN g[m] ELSE f[m - 1] \o g[m]
    BY <2>1
  <2>. QED  BY <2>2 DEF m
<1>4. CASE n = 0
  <2>1. k = << >> /\ Len(k) = 0
    BY <1>4
  <2>2. FlattenSeq(k) = << >>
    BY <2>1, FlattenNothing
  <2>3. << >> \o g[n + 1] = g[n + 1]
    BY <1>1
  <2>. QED  BY <1>2, <1>3, <1>4, <2>2, <2>3
<1>5. CASE n # 0
  <2>1. PICK h : Flattens(h, k, n) /\ FlattenSeq(k) = h[n]
    BY <1>1, <1>5, FlattenedSeq
  <2>2. n <= n + 1 /\ n \in 1 .. n /\ n + 1 - 1 = n /\ n + 1 # 1
        /\ \A i \in 1 .. n : g[i] = k[i]
    BY <1>5
  <2>3. f[n] = h[n]
    <3>. HIDE DEF k
    <3>1. n \in Nat /\ n + 1 \in Nat
      OBVIOUS
    <3>. QED  BY <1>2, <2>1, <2>2, <3>1, FlatteningAgrees
  <2>. QED  BY <1>2, <1>3, <2>1, <2>2, <2>3
<1>. QED  BY <1>4, <1>5

-----------------------------------------------------------------------------
(***************************************************************************)
(* What the streamer has heard: the available packages of the passes it    *)
(* has left, and of the lines it has received in the one it is in.         *)
(***************************************************************************)
SaidBefore(n) == FlattenSeq([i \in 1 .. n |-> OfPass(i)])
Inside == epc \in {"recv", "meta", "send"}
Heard == SaidBefore(pass - 1) \o
         (IF Inside THEN Spoken(Pass.lines, read - Len(lines)) ELSE << >>)
AttrsOf(h) == [i \in DOMAIN h |-> MetaOf(h[i])]
EntriesIn(h) == FlattenSeq([i \in DOMAIN h |-> EntriesOf(h[i])])

LEMMA SpokenStep ==
  ASSUME NEW ls \in Seq(Line), NEW n \in Nat, n + 1 <= Len(ls)
  PROVE  /\ Spoken(ls, n) \in Seq(Line)
         /\ Spoken(ls, n + 1) = IF Available(ls[n + 1]) THEN Append(Spoken(ls, n), ls[n + 1])
                                ELSE Spoken(ls, n)
<1>. DEFINE g == [i \in 1 .. n + 1 |-> IF Available(ls[i]) THEN <<ls[i]>> ELSE << >>]
            k == [i \in 1 .. n |-> g[i]]
<1>1. \A i \in 1 .. n + 1 : ls[i] \in Line
  OBVIOUS
<1>2. g \in [1 .. n + 1 -> Seq(Line)]
  <2>. SUFFICES ASSUME NEW i \in 1 .. n + 1
                PROVE  (IF Available(ls[i]) THEN <<ls[i]>> ELSE << >>) \in Seq(Line)
    OBVIOUS
  <2>1. ls[i] \in Line
    BY <1>1
  <2>. HIDE DEF g
  <2>2. <<ls[i]>> \in Seq(Line) /\ << >> \in Seq(Line)
    BY <2>1
  <2>. QED  BY <2>2
<1>3. k = [i \in 1 .. n |-> IF Available(ls[i]) THEN <<ls[i]>> ELSE << >>]
  OBVIOUS
<1>4. n + 1 \in 1 .. n + 1
  OBVIOUS
<1>5. g[n + 1] = IF Available(ls[n + 1]) THEN <<ls[n + 1]>> ELSE << >>
  BY <1>4
<1>6. FlattenSeq(g) = Spoken(ls, n + 1) /\ FlattenSeq(k) = Spoken(ls, n)
  BY <1>3 DEF Spoken
<1>7. k \in [1 .. n -> Seq(Line)]
  <2>. HIDE DEF g
  <2>1. \A i \in 1 .. n : g[i] \in Seq(Line)
    BY <1>2
  <2>. QED  BY <2>1
<1>8. ls[n + 1] \in Line
  BY <1>1, <1>4
<1>. HIDE DEF g
<1>9. FlattenSeq(g) = FlattenSeq(k) \o g[n + 1]
  BY <1>2, FlattenStep
<1>. HIDE DEF k
<1>10. Spoken(ls, n) \in Seq(Line)
  BY <1>6, <1>7, FlattenType
<1>11. Spoken(ls, n) \o <<ls[n + 1]>> = Append(Spoken(ls, n), ls[n + 1])
       /\ Spoken(ls, n) \o << >> = Spoken(ls, n)
  BY <1>8, <1>10
<1>. QED  BY <1>5, <1>6, <1>9, <1>10, <1>11

LEMMA SpokenNothing == \A ls : Spoken(ls, 0) = << >>
<1>. SUFFICES ASSUME NEW ls PROVE Spoken(ls, 0) = << >>
  OBVIOUS
<1>. DEFINE g == [i \in 1 .. 0 |-> IF Available(ls[i]) THEN <<ls[i]>> ELSE << >>]
<1>1. g = << >> /\ Len(g) = 0
  <2>1. g \in Seq({}) /\ DOMAIN g = 1 .. 0
    OBVIOUS
  <2>. HIDE DEF g
  <2>. QED  BY <2>1
<1>. QED  BY <1>1, FlattenNothing DEF Spoken

LEMMA SpokenType ==
  ASSUME NEW ls \in Seq(Line), NEW n \in Nat, n <= Len(ls)
  PROVE  Spoken(ls, n) \in Seq(Line)
<1>1. CASE n = 0
  <2>1. Spoken(ls, n) = << >> /\ << >> \in Seq(Line)
    BY <1>1, SpokenNothing
  <2>. QED  BY <2>1
<1>2. CASE n # 0
  <2>. DEFINE m == n - 1
  <2>1. m \in Nat /\ n = m + 1 /\ m + 1 <= Len(ls) /\ Len(ls) \in Nat
    BY <1>2
  <2>. HIDE DEF m
  <2>2. ls[m + 1] \in Line
    BY <2>1
  <2>3. /\ Spoken(ls, m) \in Seq(Line)
        /\ \/ Spoken(ls, m + 1) = Append(Spoken(ls, m), ls[m + 1])
           \/ Spoken(ls, m + 1) = Spoken(ls, m)
    BY <2>1, SpokenStep
  <2>4. Append(Spoken(ls, m), ls[m + 1]) \in Seq(Line)
    BY <2>2, <2>3
  <2>. QED  BY <2>1, <2>3, <2>4
<1>. QED  BY <1>1, <1>2

LEMMA OfPassType ==
  ASSUME IsInput(input), NEW i \in DOMAIN input.passes
  PROVE  OfPass(i) \in Seq(Line)
<1>1. input.passes[i].lines \in Seq(Line)
  BY DEF IsInput, IsPass
<1>2. Len(input.passes[i].lines) \in Nat /\ Len(input.passes[i].lines) <= Len(input.passes[i].lines)
  BY <1>1
<1>. QED  BY <1>1, <1>2, SpokenType DEF OfPass

LEMMA SaidStep ==
  ASSUME IsInput(input), NEW n \in Nat
  PROVE  /\ SaidBefore(0) = << >>
         /\ n <= Len(input.passes) => SaidBefore(n) \in Seq(Line)
         /\ n + 1 <= Len(input.passes) => SaidBefore(n + 1) = SaidBefore(n) \o OfPass(n + 1)
<1>. DEFINE g(m) == [i \in 1 .. m |-> OfPass(i)]
<1>1. DOMAIN input.passes = 1 .. Len(input.passes) /\ Len(input.passes) \in Nat
  BY DEF IsInput
<1>2. \A m \in Nat : m <= Len(input.passes) => g(m) \in [1 .. m -> Seq(Line)]
  <2>. SUFFICES ASSUME NEW m \in Nat, m <= Len(input.passes), NEW i \in 1 .. m
                PROVE  OfPass(i) \in Seq(Line)
    OBVIOUS
  <2>1. i \in DOMAIN input.passes
    BY <1>1
  <2>. QED  BY <2>1, OfPassType
<1>3. SaidBefore(0) = << >>
  <2>1. g(0) = << >> /\ Len(g(0)) = 0
    <3>1. g(0) \in Seq({}) /\ DOMAIN g(0) = 1 .. 0
      OBVIOUS
    <3>. HIDE DEF g
    <3>. QED  BY <3>1
  <2>. QED  BY <2>1, FlattenNothing DEF SaidBefore
<1>4. ASSUME n <= Len(input.passes) PROVE SaidBefore(n) \in Seq(Line)
  <2>1. SaidBefore(n) = FlattenSeq(g(n)) /\ g(n) \in [1 .. n -> Seq(Line)]
    BY <1>2, <1>4 DEF SaidBefore
  <2>. HIDE DEF g
  <2>. QED  BY <2>1, FlattenType
<1>5. ASSUME n + 1 <= Len(input.passes) PROVE SaidBefore(n + 1) = SaidBefore(n) \o OfPass(n + 1)
  <2>1. g(n + 1) \in [1 .. n + 1 -> Seq(Line)]
    BY <1>2, <1>5
  <2>2. g(n) = [i \in 1 .. n |-> g(n + 1)[i]] /\ g(n + 1)[n + 1] = OfPass(n + 1)
    OBVIOUS
  <2>3. SaidBefore(n + 1) = FlattenSeq(g(n + 1)) /\ SaidBefore(n) = FlattenSeq(g(n))
    BY DEF SaidBefore
  <2>. HIDE DEF g
  <2>4. FlattenSeq(g(n + 1)) = FlattenSeq([i \in 1 .. n |-> g(n + 1)[i]]) \o g(n + 1)[n + 1]
    BY <2>1, FlattenStep
  <2>. QED  BY <2>2, <2>3, <2>4
<1>. QED  BY <1>3, <1>4, <1>5

LEMMA SaidIsAll ==
  ASSUME IsInput(input)
  PROVE  Said = SaidBefore(Len(input.passes))
BY DEF IsInput, Said, SaidBefore

\* A selected attribute has one pass to say anything.
LEMMA SaidSelected ==
  ASSUME IsInput(input), input.select
  PROVE  Said = SaidBefore(1)
<1>1. Len(input.passes) \in Nat \ {0} /\ DOMAIN input.passes = 1 .. Len(input.passes)
  BY DEF IsInput
<1>. DEFINE T == {n \in 1 .. Len(input.passes) : SaidBefore(n) # SaidBefore(1)}
<1>2. ASSUME T # {} PROVE FALSE
  <2>1. PICK n \in T : \A m \in T : n <= m
    <3>. HIDE DEF T
    <3>1. T \subseteq Nat
      BY <1>1 DEF T
    <3>. QED  BY <1>2, <3>1, Smallest
  <2>2. n \in 1 .. Len(input.passes) /\ n # 1 /\ SaidBefore(n) # SaidBefore(1)
    OBVIOUS
  <2>. DEFINE m == n - 1
  <2>3. m \in Nat /\ n = m + 1 /\ m + 1 <= Len(input.passes) /\ m \in 1 .. Len(input.passes) /\ m < n
    BY <1>1, <2>2
  <2>. HIDE DEF m
  <2>4. SaidBefore(m) = SaidBefore(1)
    BY <2>1, <2>3
  <2>5. OfPass(n) = << >>
    BY <2>2 DEF OfPass, Usable
  <2>6. SaidBefore(m + 1) = SaidBefore(m) \o << >> /\ SaidBefore(m) \in Seq(Line)
    <3>1. m <= Len(input.passes) /\ OfPass(m + 1) = << >>
      BY <1>1, <2>3, <2>5
    <3>2. SaidBefore(m) \in Seq(Line) /\ SaidBefore(m + 1) = SaidBefore(m) \o OfPass(m + 1)
      BY <2>3, <3>1, SaidStep
    <3>. QED  BY <3>1, <3>2
  <2>7. SaidBefore(m) \o << >> = SaidBefore(m)
    BY <2>6
  <2>. QED  BY <2>2, <2>3, <2>4, <2>6, <2>7
<1>3. Len(input.passes) \in 1 .. Len(input.passes)
  BY <1>1
<1>. QED  BY <1>2, <1>3, SaidIsAll

LEMMA ListTypes ==
  ASSUME NEW h \in Seq(Line)
  PROVE  /\ AttrsOf(h) \in Seq(STRING) /\ Len(AttrsOf(h)) = Len(h)
         /\ EntriesIn(h) \in Seq(Package)
<1>1. \A x \in Line : MetaOf(x) \in STRING
  BY DEF Line, MetaOf
<1>2. AttrsOf(h) \in Seq(STRING) /\ Len(AttrsOf(h)) = Len(h)
  <2>1. \A i \in 1 .. Len(h) : MetaOf(h[i]) \in STRING
    BY <1>1
  <2>2. AttrsOf(h) = [i \in 1 .. Len(h) |-> MetaOf(h[i])] /\ Len(h) \in Nat
    BY DEF AttrsOf
  <2>. QED  BY <2>1, <2>2
<1>. DEFINE n == Len(h)
            k == [i \in 1 .. n |-> EntriesOf(h[i])]
<1>3. k \in [1 .. n -> Seq(Package)] /\ n \in Nat
  <2>. SUFFICES ASSUME NEW i \in 1 .. n PROVE EntriesOf(h[i]) \in Seq(Package)
    OBVIOUS
  <2>. QED  BY EntriesArePackages
<1>4. EntriesIn(h) = FlattenSeq(k)
  BY DEF EntriesIn
<1>. HIDE DEF k, n
<1>5. EntriesIn(h) \in Seq(Package)
  BY <1>3, <1>4, FlattenType
<1>. QED  BY <1>2, <1>5

LEMMA AttrsAppend ==
  ASSUME NEW h \in Seq(Line), NEW l \in Line
  PROVE  AttrsOf(Append(h, l)) = Append(AttrsOf(h), MetaOf(l))
<1>1. \A x \in Line : MetaOf(x) \in STRING
  BY DEF Line, MetaOf
<1>2. AttrsOf(h) \in Seq(STRING) /\ Len(AttrsOf(h)) = Len(h)
  BY ListTypes
<1>3. /\ Append(h, l) \in Seq(Line) /\ Len(Append(h, l)) = Len(h) + 1
      /\ \A i \in 1 .. Len(h) : Append(h, l)[i] = h[i]
      /\ Append(h, l)[Len(h) + 1] = l
  BY AppendProperties
<1>4. AttrsOf(Append(h, l)) = [i \in 1 .. Len(h) + 1 |-> MetaOf(Append(h, l)[i])]
  BY <1>3 DEF AttrsOf
<1>5. /\ Append(AttrsOf(h), MetaOf(l)) \in Seq(STRING)
      /\ Len(Append(AttrsOf(h), MetaOf(l))) = Len(h) + 1
      /\ \A i \in 1 .. Len(h) : Append(AttrsOf(h), MetaOf(l))[i] = AttrsOf(h)[i]
      /\ Append(AttrsOf(h), MetaOf(l))[Len(h) + 1] = MetaOf(l)
  BY <1>1, <1>2, AppendProperties
<1>6. \A i \in 1 .. Len(h) : AttrsOf(h)[i] = MetaOf(h[i])
  BY DEF AttrsOf
<1>. DEFINE a == Append(AttrsOf(h), MetaOf(l))
<1>7. a = [i \in 1 .. Len(h) + 1 |-> a[i]]
  <2>. HIDE DEF a
  <2>1. a \in Seq(STRING) /\ Len(a) = Len(h) + 1
    BY <1>5 DEF a
  <2>. QED  BY <2>1
<1>8. \A i \in 1 .. Len(h) + 1 : a[i] = MetaOf(Append(h, l)[i])
  <2>. SUFFICES ASSUME NEW i \in 1 .. Len(h) + 1 PROVE a[i] = MetaOf(Append(h, l)[i])
    OBVIOUS
  <2>1. Len(h) \in Nat
    OBVIOUS
  <2>2. CASE i = Len(h) + 1
    BY <1>3, <1>5, <2>2
  <2>3. CASE i \in 1 .. Len(h)
    BY <1>3, <1>5, <1>6, <2>3
  <2>. HIDE DEF a
  <2>. QED  BY <2>1, <2>2, <2>3
<1>. HIDE DEF a
<1>9. AttrsOf(Append(h, l)) = a
  BY <1>4, <1>7, <1>8
<1>. QED  BY <1>9 DEF a

LEMMA EntriesAppend ==
  ASSUME NEW h \in Seq(Line), NEW l \in Line
  PROVE  EntriesIn(Append(h, l)) = EntriesIn(h) \o EntriesOf(l)
<1>. DEFINE H == Append(h, l)
            n == Len(h)
            g == [i \in 1 .. n + 1 |-> EntriesOf(H[i])]
            k == [i \in 1 .. n |-> EntriesOf(h[i])]
<1>1. /\ H \in Seq(Line) /\ Len(H) = n + 1 /\ n \in Nat
      /\ \A i \in 1 .. n : H[i] = h[i]
      /\ H[n + 1] = l
  BY AppendProperties
<1>2. EntriesIn(H) = FlattenSeq(g) /\ EntriesIn(h) = FlattenSeq(k)
  <2>. HIDE DEF H
  <2>1. DOMAIN H = 1 .. n + 1 /\ DOMAIN h = 1 .. n
    BY <1>1
  <2>. QED  BY <2>1 DEF EntriesIn
<1>3. k = [i \in 1 .. n |-> g[i]]
  BY <1>1
<1>4. g \in [1 .. n + 1 -> Seq(Package)]
  <2>. SUFFICES ASSUME NEW i \in 1 .. n + 1 PROVE EntriesOf(H[i]) \in Seq(Package)
    OBVIOUS
  <2>. HIDE DEF H
  <2>1. H[i] \in Line
    BY <1>1
  <2>. QED  BY <2>1, EntriesArePackages
<1>5. g[n + 1] = EntriesOf(l)
  BY <1>1
<1>. HIDE DEF g, H, n
<1>6. FlattenSeq(g) = FlattenSeq([i \in 1 .. n |-> g[i]]) \o g[n + 1]
  BY <1>1, <1>4, FlattenStep
<1>. QED  BY <1>2, <1>3, <1>5, <1>6 DEF H

-----------------------------------------------------------------------------
(***************************************************************************)
(* Where the streamer is in its pass, and the lines still in the channel.  *)
(***************************************************************************)
InPass ==
  /\ read <= Len(Pass.lines) /\ Len(lines) <= read /\ Usable(pass)
  /\ \A k \in 1 .. Len(lines) : lines[k] = Pass.lines[read - Len(lines) + k]
  /\ rpc # "read" => read = Len(Pass.lines)

Position ==
  /\ pass <= Len(input.passes) + 1 /\ (input.select => pass <= 2)
  /\ epc # "send" => todo = << >>
  /\ IF Inside THEN InPass ELSE read = 0 /\ lines = << >>

(***************************************************************************)
(* What the streamer has heard is what has been written and sent: the      *)
(* attributes in order, and in order the entries, those the fetcher has    *)
(* received first.                                                         *)
(***************************************************************************)
OnRecord == (IF mpc = "create" THEN << >> ELSE json) \o
            (metas \o (IF epc = "meta" THEN <<MetaOf(job)>> ELSE << >>))
Handed == fed \o (pkgs \o (todo \o (IF epc = "meta" THEN EntriesOf(job) ELSE << >>)))

Sound == epc # "err" /\ pkgsOpen /\ mpc # "err"
Told ==
  /\ fed \in Seq(Package)
  /\ Sound => /\ epc = "ok" => Heard = Said
              /\ OnRecord = AttrsOf(Heard)
              /\ ~input.onlyEval => Handed = EntriesIn(Heard)

LEMMA ThePass ==
  ASSUME IInv, Inside
  PROVE  /\ pass \in DOMAIN input.passes /\ Pass.lines \in Seq(Line) /\ Len(Pass.lines) \in Nat
         /\ pass <= Len(input.passes) /\ Len(input.passes) \in Nat
<1>1. pass \in DOMAIN input.passes
  BY Still DEF Inside
<1>. QED  BY <1>1, InputIsGood DEF IsInput, IsPass, Pass

LEMMA HeardKept ==
  ASSUME IInv, input' = input, pass' = pass, Inside' <=> Inside,
         Inside => read' - Len(lines') = read - Len(lines)
  PROVE  Heard' = Heard
<1>1. SaidBefore(pass - 1)' = SaidBefore(pass - 1)
  BY DEF SaidBefore, OfPass, Usable
<1>2. Pass' = Pass
  BY DEF Pass
<1>3. (IF Inside THEN Spoken(Pass.lines, read - Len(lines)) ELSE << >>)' =
      (IF Inside THEN Spoken(Pass.lines, read - Len(lines)) ELSE << >>)
  <2>1. CASE Inside
    <3>1. Spoken(Pass.lines, read - Len(lines))' = Spoken(Pass.lines, read - Len(lines))
      <4>1. Spoken(Pass.lines, read - Len(lines))' = Spoken(Pass'.lines, read' - Len(lines'))
        OBVIOUS
      <4>. QED  BY <1>2, <2>1, <4>1
    <3>. QED  BY <2>1, <3>1
  <2>2. CASE ~Inside
    BY <2>2
  <2>. QED  BY <2>1, <2>2
<1>. QED  BY <1>1, <1>3 DEF Heard

LEMMA InputAside ==
  ASSUME input' = input
  PROVE  /\ Said' = Said
         /\ \A h : Heard' = h => EntriesIn(Heard)' = EntriesIn(h) /\ AttrsOf(Heard)' = AttrsOf(h)
         /\ \A j : job' = j => EntriesOf(job)' = EntriesOf(j)
<1>1. Said' = Said
  BY DEF Said, OfPass, Usable
<1>2. ASSUME NEW h, Heard' = h
      PROVE  EntriesIn(Heard)' = EntriesIn(h) /\ AttrsOf(Heard)' = AttrsOf(h)
  BY <1>2 DEF EntriesIn, EntriesOf, AttrsOf
<1>3. ASSUME NEW j, job' = j PROVE EntriesOf(job)' = EntriesOf(j)
  BY <1>3 DEF EntriesOf
<1>. QED  BY <1>1, <1>2, <1>3

\* A step with which nothing is heard, written or handed on.
LEMMA ToldAside ==
  ASSUME IInv, Told, Heard' = Heard, input' = input, fed' = fed, Sound' => Sound,
         Sound => /\ epc' = "ok" => epc = "ok" \/ Heard = Said
                  /\ OnRecord' = OnRecord
                  /\ ~input.onlyEval => Handed' = Handed
  PROVE  Told'
<1>1. /\ Said' = Said /\ EntriesIn(Heard)' = EntriesIn(Heard) /\ AttrsOf(Heard)' = AttrsOf(Heard)
  BY InputAside
<1>. QED  BY <1>1 DEF Told

LEMMA HeardType ==
  ASSUME IInv, Position
  PROVE  /\ Heard \in Seq(Line) /\ SaidBefore(pass - 1) \in Seq(Line) /\ pass - 1 \in Nat
         /\ AttrsOf(Heard) \in Seq(STRING) /\ EntriesIn(Heard) \in Seq(Package)
<1>1. IsInput(input) /\ pass - 1 \in Nat /\ pass - 1 <= Len(input.passes)
  <2>1. IsInput(input) /\ Len(input.passes) \in Nat /\ pass \in Nat \ {0}
    BY InputIsGood, Still DEF IsInput
  <2>. QED  BY <2>1 DEF Position
<1>2. SaidBefore(pass - 1) \in Seq(Line)
  BY <1>1, SaidStep
<1>3. Inside => Spoken(Pass.lines, read - Len(lines)) \in Seq(Line)
  <2>. SUFFICES ASSUME Inside PROVE Spoken(Pass.lines, read - Len(lines)) \in Seq(Line)
    OBVIOUS
  <2>1. read \in Nat /\ Len(lines) \in Nat /\ Pass.lines \in Seq(Line) /\ Len(Pass.lines) \in Nat
    BY Still, ThePass
  <2>2. read - Len(lines) \in Nat /\ read - Len(lines) <= Len(Pass.lines)
    BY <2>1 DEF Position, InPass
  <2>. QED  BY <2>1, <2>2, SpokenType
<1>4. Heard \in Seq(Line)
  <2>. DEFINE here == IF Inside THEN Spoken(Pass.lines, read - Len(lines)) ELSE << >>
  <2>1. here \in Seq(Line)
    <3>1. << >> \in Seq(Line)
      OBVIOUS
    <3>. QED  BY <1>3, <3>1
  <2>2. Heard = SaidBefore(pass - 1) \o here
    BY DEF Heard
  <2>. HIDE DEF here
  <2>. QED  BY <1>2, <2>1, <2>2
<1>. QED  BY <1>1, <1>2, <1>4, ListTypes

-----------------------------------------------------------------------------
(***************************************************************************)
(* Concatenation under a name, for the provers to match: it is associative.*)
(***************************************************************************)
Then(a, b) == a \o b
LEMMA Regroup ==
  \A S : \A a, b, c \in Seq(S) : Then(Then(a, b), c) = Then(a, Then(b, c))
<1>1. \A S : \A a, b, c \in Seq(S) : (a \o b) \o c = a \o (b \o c)
  BY ConcatAssociative
<1>. QED  BY <1>1 DEF Then

(***************************************************************************)
(* Sequences moved from one channel to the next.                           *)
(***************************************************************************)
Moved(a, b, x) == Append(a, Head(b)) \o (Tail(b) \o x) = a \o (b \o x)
LEMMA Shift ==
  ASSUME NEW S, NEW a \in Seq(S), NEW b \in Seq(S), b # << >>, NEW x \in Seq(S)
  PROVE  Moved(a, b, x)
<1>1. Head(b) \in S /\ Tail(b) \in Seq(S) /\ b = <<Head(b)>> \o Tail(b)
  <2>1. Head(b) \in S /\ Tail(b) \in Seq(S)
    BY Shorter
  <2>. QED  BY <2>1
<1>. DEFINE e == Head(b)  t == Tail(b)
<1>. HIDE DEF e, t
<1>2. e \in S /\ t \in Seq(S) /\ b = <<e>> \o t /\ <<e>> \in Seq(S)
  <2>1. e \in S /\ t \in Seq(S) /\ b = <<e>> \o t
    BY <1>1 DEF e, t
  <2>. QED  BY <2>1
<1>3. Append(a, e) = a \o <<e>>
  BY <1>2
<1>4. (a \o <<e>>) \o (t \o x) = a \o (<<e>> \o (t \o x))
  BY <1>2
<1>5. <<e>> \o (t \o x) = (<<e>> \o t) \o x
  BY <1>2
<1>. QED  BY <1>2, <1>3, <1>4, <1>5 DEF e, t, Moved

-----------------------------------------------------------------------------
LEMMA PositionLeft ==
  ASSUME IInv, Position, NEW lost, LeavePass(lost), input' = input,
         pass <= Len(input.passes), input.select => pass = 1
  PROVE  Position' /\ ~Inside'
<1>1. /\ pass \in Nat \ {0} /\ Len(input.passes) \in Nat
      /\ epc' \in {"err", "pass"} /\ read' = 0 /\ lines' = << >> /\ todo' = << >>
      /\ pass' = pass \/ pass' = pass + 1
  <2>1. pass' = pass \/ pass' = pass + 1
    BY DEF LeavePass
  <2>2. pass \in Nat \ {0} /\ Len(input.passes) \in Nat
    BY Still, InputIsGood DEF IsInput
  <2>. QED  BY <2>1, <2>2, Leaving
<1>2. ~Inside'
  BY <1>1 DEF Inside
<1>3. pass' <= Len(input.passes) + 1 /\ (input.select => pass' <= 2)
  BY <1>1
<1>. QED  BY <1>1, <1>2, <1>3 DEF Position

\* A pass that is over has said all it had to say.
LEMMA HeardLeft ==
  ASSUME IInv, Position, NEW lost, LeavePass(lost), input' = input, epc' # "err",
         pass <= Len(input.passes), SaidBefore(pass - 1) \o OfPass(pass) = Heard,
         epc = "pass" \/ Inside
  PROVE  Heard' = Heard
<1>1. /\ pass \in Nat \ {0} /\ IsInput(input) /\ pass - 1 + 1 = pass /\ pass - 1 \in Nat
      /\ epc' = "pass"
  <2>1. epc' = "pass"
    BY Leaving
  <2>2. pass \in Nat \ {0} /\ IsInput(input)
    BY Still, InputIsGood
  <2>. QED  BY <2>1, <2>2
<1>2. SaidBefore(pass) = Heard
  BY <1>1, SaidStep
<1>3. pass' = pass + 1
  BY DEF LeavePass
<1>4. SaidBefore(pass - 1)' = SaidBefore(pass)
  <2>1. pass' - 1 = pass
    BY <1>1, <1>3
  <2>. QED  BY <2>1 DEF SaidBefore, OfPass, Usable
<1>5. ~Inside'
  BY <1>1 DEF Inside
<1>6. Heard' = SaidBefore(pass) \o << >>
  BY <1>4, <1>5 DEF Heard
<1>7. SaidBefore(pass) \o << >> = SaidBefore(pass)
  BY <1>2, HeardType
<1>. QED  BY <1>2, <1>6, <1>7

-----------------------------------------------------------------------------
(***************************************************************************)
(* The steps of the evaluation.                                            *)
(***************************************************************************)
LEMMA ReadLineTells ==
  ASSUME IInv, Position, Told, ReadLine
  PROVE  Position' /\ Told'
<1>. USE DEF ReadLine
<1>1. /\ Inside /\ Inside' /\ InPass /\ read \in Nat /\ lines \in Seq(Line) /\ Len(lines) \in Nat
      /\ Pass.lines \in Seq(Line) /\ Len(Pass.lines) \in Nat
  <2>1. Inside
    BY Still DEF Inside
  <2>2. read \in Nat /\ lines \in Seq(Line) /\ Len(lines) \in Nat
    BY Still
  <2>. QED  BY <2>1, <2>2, ThePass DEF Inside, Position
<1>2. /\ Len(lines') = Len(lines) + 1
      /\ \A k \in 1 .. Len(lines) : lines'[k] = lines[k]
      /\ lines'[Len(lines) + 1] = Pass.lines[read + 1]
  <2>1. Pass.lines[read + 1] \in Line
    <3>1. read + 1 \in 1 .. Len(Pass.lines)
      BY <1>1
    <3>. QED  BY <1>1, <3>1
  <2>. QED  BY <1>1, <2>1, AppendProperties
<1>3. Pass' = Pass /\ Usable(pass)' = Usable(pass)
  BY DEF Pass, Usable
<1>4. InPass'
  <2>1. read' <= Len(Pass.lines) /\ Len(lines') <= read'
    BY <1>1, <1>2 DEF InPass
  <2>2. ASSUME NEW k \in 1 .. Len(lines') PROVE lines'[k] = Pass.lines[read' - Len(lines') + k]
    <3>1. read' - Len(lines') + k = read - Len(lines) + k
      BY <1>1, <1>2
    <3>2. CASE k = Len(lines) + 1
      <4>1. read - Len(lines) + k = read + 1
        BY <1>1, <3>2
      <4>. QED  BY <1>2, <3>1, <3>2, <4>1
    <3>3. CASE k \in 1 .. Len(lines)
      BY <1>1, <1>2, <3>1, <3>3 DEF InPass
    <3>. QED  BY <1>1, <1>2, <3>2, <3>3
  <2>. QED  BY <1>1, <1>3, <2>1, <2>2 DEF InPass
<1>5. Position'
  BY <1>1, <1>4 DEF Position
<1>6. Heard' = Heard
  <2>1. read' - Len(lines') = read - Len(lines)
    BY <1>1, <1>2
  <2>. QED  BY <1>1, <2>1, HeardKept
<1>7. Sound' = Sound /\ OnRecord' = OnRecord /\ Handed' = Handed /\ fed' = fed
  BY DEF Sound, OnRecord, Handed, EntriesOf, metaVars, fetchVars
<1>. QED  BY <1>5, <1>6, <1>7, ToldAside

LEMMA ChildExitsTells ==
  ASSUME IInv, Position, Told, ChildExits
  PROVE  Position' /\ Told'
<1>. USE DEF ChildExits
<1>1. Inside /\ Inside' /\ InPass
  BY Still DEF Inside, Position
<1>2. Pass' = Pass /\ Usable(pass)' = Usable(pass)
  BY DEF Pass, Usable
<1>3. InPass'
  BY <1>1, <1>2 DEF InPass
<1>4. Position'
  BY <1>1, <1>3 DEF Position
<1>5. Heard' = Heard
  BY <1>1, HeardKept
<1>6. Sound' = Sound /\ OnRecord' = OnRecord /\ Handed' = Handed /\ fed' = fed
  BY DEF Sound, OnRecord, Handed, EntriesOf, metaVars, fetchVars
<1>. QED  BY <1>4, <1>5, <1>6, ToldAside

LEMMA BeginPassTells ==
  ASSUME IInv, Position, Told, BeginPass
  PROVE  Position' /\ Told'
<1>. USE DEF BeginPass
<1>1. /\ epc = "pass" /\ ~Inside /\ read = 0 /\ lines = << >> /\ todo = << >>
      /\ pass \in Nat \ {0} /\ Len(input.passes) \in Nat \ {0} /\ pass <= Len(input.passes) + 1
      /\ input.select => pass <= 2
  <2>1. epc = "pass" /\ ~Inside
    BY DEF Inside
  <2>2. pass \in Nat \ {0} /\ Len(input.passes) \in Nat \ {0}
    BY Still, InputIsGood DEF IsInput
  <2>. QED  BY <2>1, <2>2 DEF Position
<1>2. Heard = SaidBefore(pass - 1)
  <2>1. SaidBefore(pass - 1) \o << >> = SaidBefore(pass - 1)
    BY HeardType
  <2>. QED  BY <1>1, <2>1 DEF Heard
<1>3. CASE /\ pass > Len(input.passes) \/ (input.select /\ pass > 1)
           /\ epc' = "ok"
           /\ UNCHANGED <<pass, job, todo, rpc, read, records, lines>>
  <2>1. Position' /\ ~Inside'
    BY <1>1, <1>3 DEF Position, Inside
  <2>2. Heard' = Heard
    BY <1>1, <1>3, <2>1, HeardKept
  <2>3. Heard = Said
    <3>1. CASE pass > Len(input.passes)
      <4>1. pass - 1 = Len(input.passes)
        BY <1>1, <3>1
      <4>. QED  BY <1>2, <4>1, InputIsGood, SaidIsAll
    <3>2. CASE input.select /\ pass > 1
      <4>1. pass - 1 = 1
        BY <1>1, <3>2
      <4>. QED  BY <1>2, <3>2, <4>1, InputIsGood, SaidSelected
    <3>. QED  BY <1>3, <3>1, <3>2
  <2>4. Sound' = Sound /\ OnRecord' = OnRecord /\ Handed' = Handed /\ fed' = fed
    BY <1>1, <1>3 DEF Sound, OnRecord, Handed, EntriesOf, metaVars, fetchVars
  <2>. QED  BY <2>1, <2>2, <2>3, <2>4, ToldAside
<1>4. CASE /\ pass <= Len(input.passes) /\ ~(input.select /\ pass > 1) /\ pkgsOpen /\ Starts(Pass)
           /\ epc' = "recv" /\ rpc' = "read"
           /\ UNCHANGED <<pass, job, todo, read, records, lines>>
  <2>1. Inside' /\ Usable(pass)' /\ Usable(pass) /\ Pass' = Pass
    <3>1. Usable(pass)
      BY <1>1, <1>4 DEF Usable, Pass
    <3>2. Usable(pass)' = Usable(pass) /\ Pass' = Pass
      BY <1>4 DEF Usable, Pass
    <3>. QED  BY <1>4, <3>1, <3>2 DEF Inside
  <2>2. Len(<< >>) = 0 /\ Pass.lines \in Seq(Line) /\ Len(Pass.lines) \in Nat
    <3>1. pass \in DOMAIN input.passes
      BY <1>1, <1>4, InputIsGood DEF IsInput
    <3>2. Pass.lines \in Seq(Line)
      BY <3>1, InputIsGood DEF Pass, IsInput, IsPass
    <3>. QED  BY <3>2
  <2>3. InPass'
    BY <1>1, <1>4, <2>1, <2>2 DEF InPass
  <2>4. Position'
    BY <1>1, <1>4, <2>1, <2>3 DEF Position
  <2>5. Heard' = Heard
    <3>1. SaidBefore(pass - 1)' = SaidBefore(pass - 1)
      BY <1>4 DEF SaidBefore, OfPass, Usable
    <3>2. Spoken(Pass.lines, read - Len(lines))' = << >>
      <4>1. read' = 0 /\ Len(lines') = 0
        <5>1. read' = 0 /\ lines' = << >>
          BY <1>1, <1>4
        <5>. QED  BY <2>2, <5>1
      <4>2. read' - Len(lines') = 0
        BY <4>1
      <4>. QED  BY <4>2, SpokenNothing
    <3>3. Heard' = SaidBefore(pass - 1) \o << >>
      BY <2>1, <3>1, <3>2 DEF Heard
    <3>. QED  BY <1>2, <3>3, HeardType
  <2>6. Sound' = Sound /\ OnRecord' = OnRecord /\ Handed' = Handed /\ fed' = fed
    BY <1>1, <1>4 DEF Sound, OnRecord, Handed, EntriesOf, metaVars, fetchVars
  <2>. QED  BY <1>4, <2>4, <2>5, <2>6, ToldAside
<1>5. CASE /\ pass <= Len(input.passes) /\ ~(input.select /\ pass > 1)
           /\ ~(pkgsOpen /\ Starts(Pass)) /\ LeavePass(pkgsOpen)
  <2>1. Position' /\ ~Inside'
    <3>1. input.select => pass = 1
      BY <1>1, <1>5
    <3>. QED  BY <1>5, <3>1, PositionLeft
  <2>2. ASSUME Sound' PROVE Sound /\ Heard' = Heard /\ epc' = "pass"
    <3>1. pkgsOpen /\ epc' # "err" /\ epc' = "pass" /\ mpc # "err"
      BY <2>2, <1>5, Leaving DEF Sound, metaVars
    <3>2. pass # 1
      BY <1>5, <3>1 DEF LeavePass
    <3>3. OfPass(pass) = << >>
      BY <1>5, <3>1, <3>2 DEF OfPass, Usable, Pass
    <3>4. SaidBefore(pass - 1) \o OfPass(pass) = Heard
      BY <1>2, <3>3, HeardType
    <3>. QED  BY <1>1, <1>5, <3>1, <3>4, HeardLeft DEF Sound
  <2>3. epc' # "meta" /\ todo' = << >> /\ fed' = fed
    BY <1>5, Leaving DEF fetchVars
  <2>4. OnRecord' = OnRecord /\ Handed' = Handed
    BY <1>1, <2>3 DEF OnRecord, Handed, metaVars, fetchVars
  <2>5. CASE Sound'
    BY <2>1, <2>2, <2>3, <2>4, <2>5, ToldAside
  <2>6. CASE ~Sound'
    BY <2>1, <2>3, <2>6 DEF Told
  <2>. QED  BY <2>1, <2>5, <2>6
<1>. QED  BY <1>1, <1>3, <1>4, <1>5

LEMMA ReceivedLine ==
  ASSUME IInv, Position, epc = "recv", lines # << >>, lines' = Tail(lines),
         UNCHANGED <<input, pass, rpc, read>>, Inside'
  PROVE  /\ InPass' /\ Head(lines) \in Line /\ Heard \in Seq(Line)
         /\ Heard' = IF Available(Head(lines)) THEN Append(Heard, Head(lines)) ELSE Heard
<1>. DEFINE n == read - Len(lines)
<1>1. /\ Inside /\ InPass /\ read \in Nat /\ lines \in Seq(Line) /\ Len(lines) \in Nat \ {0}
      /\ Pass.lines \in Seq(Line) /\ Len(Pass.lines) \in Nat
  <2>1. Inside
    BY DEF Inside
  <2>2. read \in Nat /\ lines \in Seq(Line)
    BY Still
  <2>3. Len(lines) \in Nat \ {0}
    BY <2>2
  <2>. QED  BY <2>1, <2>2, <2>3, ThePass DEF Position
<1>2. /\ Head(lines) = lines[1] /\ Head(lines) \in Line /\ Tail(lines) \in Seq(Line)
      /\ Len(Tail(lines)) = Len(lines) - 1
      /\ \A k \in 1 .. Len(lines) - 1 : Tail(lines)[k] = lines[k + 1]
  BY <1>1, HeadTailProperties
<1>3. /\ n \in Nat /\ n + 1 <= Len(Pass.lines) /\ Head(lines) = Pass.lines[n + 1]
      /\ read' - Len(lines') = n + 1
  <2>1. n \in Nat /\ n + 1 <= Len(Pass.lines)
    BY <1>1 DEF InPass
  <2>2. 1 \in 1 .. Len(lines)
    BY <1>1
  <2>3. lines[1] = Pass.lines[n + 1]
    BY <2>2, <1>1 DEF InPass
  <2>4. read' - Len(lines') = n + 1
    BY <1>1, <1>2
  <2>. QED  BY <1>2, <2>1, <2>3, <2>4
<1>4. Pass' = Pass /\ Usable(pass)' = Usable(pass)
  BY DEF Pass, Usable
<1>5. InPass'
  <2>1. read' <= Len(Pass.lines) /\ Len(lines') <= read' /\ Usable(pass)
    BY <1>1, <1>2 DEF InPass
  <2>2. ASSUME NEW k \in 1 .. Len(lines') PROVE lines'[k] = Pass.lines[read' - Len(lines') + k]
    <3>1. k \in 1 .. Len(lines) - 1 /\ k + 1 \in 1 .. Len(lines) /\ k \in Nat
      BY <1>1, <1>2
    <3>2. lines'[k] = lines[k + 1]
      BY <1>2, <3>1
    <3>3. lines[k + 1] = Pass.lines[read - Len(lines) + (k + 1)]
      BY <1>1, <3>1 DEF InPass
    <3>4. read - Len(lines) + (k + 1) = read' - Len(lines') + k
      BY <1>1, <1>2, <3>1
    <3>. QED  BY <3>2, <3>3, <3>4
  <2>. QED  BY <1>1, <1>4, <2>1, <2>2 DEF InPass
<1>. HIDE DEF n
<1>6. /\ Spoken(Pass.lines, n) \in Seq(Line)
      /\ Spoken(Pass.lines, n + 1) = IF Available(Head(lines))
                                     THEN Append(Spoken(Pass.lines, n), Head(lines))
                                     ELSE Spoken(Pass.lines, n)
  BY <1>1, <1>3, SpokenStep
<1>7. Heard = SaidBefore(pass - 1) \o Spoken(Pass.lines, n)
  BY <1>1 DEF Heard, n
<1>8. Heard' = SaidBefore(pass - 1) \o Spoken(Pass.lines, n + 1)
  <2>1. SaidBefore(pass - 1)' = SaidBefore(pass - 1)
    BY DEF SaidBefore, OfPass, Usable
  <2>2. Spoken(Pass.lines, read - Len(lines))' = Spoken(Pass.lines, n + 1)
    <3>1. Spoken(Pass.lines, read - Len(lines))' = Spoken(Pass'.lines, read' - Len(lines'))
      OBVIOUS
    <3>. QED  BY <1>3, <1>4, <3>1
  <2>. QED  BY <2>1, <2>2 DEF Heard
<1>9. Heard \in Seq(Line) /\ SaidBefore(pass - 1) \in Seq(Line)
  BY HeardType
<1>10. CASE Available(Head(lines))
  <2>. DEFINE a == SaidBefore(pass - 1)  b == Spoken(Pass.lines, n)  l == Head(lines)
  <2>1. a \in Seq(Line) /\ b \in Seq(Line) /\ l \in Line
    BY <1>2, <1>6, <1>9
  <2>2. Heard' = a \o Append(b, l) /\ Heard = a \o b
    BY <1>6, <1>7, <1>8, <1>10
  <2>. HIDE DEF a, b, l
  <2>3. a \o Append(b, l) = Append(a \o b, l)
    BY <2>1
  <2>. QED  BY <1>2, <1>5, <1>9, <1>10, <2>2, <2>3 DEF l
<1>11. CASE ~Available(Head(lines))
  BY <1>2, <1>5, <1>6, <1>7, <1>8, <1>9, <1>11
<1>. QED  BY <1>10, <1>11

\* The line just received is on its way: its attribute and its entries.
LEMMA OneMore ==
  ASSUME IInv, Position, Told, epc = "recv", epc' = "meta", NEW l \in Line, job' = l,
         Heard' = Append(Heard, l), todo' = todo,
         UNCHANGED <<input, metaVars, metas, pkgs, pkgsOpen, fetchVars>>
  PROVE  Told'
<1>1. /\ Sound' => Sound
      /\ fed' = fed /\ json' = json /\ mpc' = mpc /\ metas' = metas /\ pkgs' = pkgs
      /\ todo = << >> /\ todo' = << >> /\ input' = input
  BY DEF Sound, metaVars, fetchVars, Position
<1>2. /\ AttrsOf(Heard)' = Append(AttrsOf(Heard), MetaOf(l))
      /\ EntriesIn(Heard)' = EntriesIn(Heard) \o EntriesOf(l)
      /\ EntriesOf(job)' = EntriesOf(l)
  <2>1. Heard \in Seq(Line)
    BY HeardType
  <2>2. /\ AttrsOf(Heard)' = AttrsOf(Append(Heard, l))
        /\ EntriesIn(Heard)' = EntriesIn(Append(Heard, l))
        /\ EntriesOf(job)' = EntriesOf(l)
    BY InputAside
  <2>. QED  BY <2>1, <2>2, AttrsAppend, EntriesAppend
<1>. DEFINE old == IF mpc = "create" THEN << >> ELSE json
<1>3. old \in Seq(STRING) /\ metas \in Seq(STRING) /\ MetaOf(l) \in STRING
  <2>1. MetaOf(l) \in STRING
    BY DEF MetaOf, Line
  <2>2. << >> \in Seq(STRING)
    OBVIOUS
  <2>3. old \in Seq(STRING)
    BY <2>2, Written
  <2>. QED  BY <2>1, <2>3, Written
<1>4. OnRecord = old \o (metas \o << >>) /\ OnRecord' = old \o (metas \o <<MetaOf(l)>>)
  BY <1>1 DEF OnRecord, MetaOf
<1>. HIDE DEF old
<1>5. Append(old \o (metas \o << >>), MetaOf(l)) = old \o (metas \o <<MetaOf(l)>>)
  <2>. DEFINE m == MetaOf(l)
  <2>1. m \in STRING
    BY <1>3
  <2>. HIDE DEF m
  <2>2. metas \o << >> = metas /\ <<m>> \in Seq(STRING)
    BY <1>3, <2>1
  <2>3. Append(old \o metas, m) = (old \o metas) \o <<m>>
    BY <1>3, <2>1
  <2>4. (old \o metas) \o <<m>> = old \o (metas \o <<m>>)
    BY <1>3, <2>2
  <2>. QED  BY <2>2, <2>3, <2>4 DEF m
<1>6. fed \in Seq(Package) /\ pkgs \in Seq(Package) /\ EntriesOf(l) \in Seq(Package)
  BY Still, EntriesArePackages DEF Told
<1>7. /\ Handed = fed \o (pkgs \o (<< >> \o << >>))
      /\ Handed' = fed \o (pkgs \o (<< >> \o EntriesOf(l)))
  BY <1>1, <1>2 DEF Handed
<1>8. (fed \o (pkgs \o (<< >> \o << >>))) \o EntriesOf(l) = fed \o (pkgs \o (<< >> \o EntriesOf(l)))
  <2>. DEFINE E == EntriesOf(l)
  <2>1. E \in Seq(Package)
    BY <1>6
  <2>. HIDE DEF E
  <2>2. << >> \o E = E /\ << >> \o << >> = << >> /\ pkgs \o << >> = pkgs
    BY <1>6, <2>1
  <2>3. (fed \o pkgs) \o E = fed \o (pkgs \o E)
    BY <1>6, <2>1
  <2>. QED  BY <2>2, <2>3 DEF E
<1>9. ASSUME Sound' PROVE OnRecord' = AttrsOf(Heard)' /\ (~input.onlyEval => Handed' = EntriesIn(Heard)')
  <2>1. OnRecord = AttrsOf(Heard) /\ (~input.onlyEval => Handed = EntriesIn(Heard))
    BY <1>1, <1>9 DEF Told
  <2>2. OnRecord' = AttrsOf(Heard)'
    BY <1>2, <1>4, <1>5, <2>1
  <2>3. ~input.onlyEval => Handed' = EntriesIn(Heard)'
    BY <1>2, <1>7, <1>8, <2>1
  <2>. QED  BY <2>2, <2>3
<1>. QED  BY <1>1, <1>6, <1>9 DEF Told

LEMMA RecvTells ==
  ASSUME IInv, Position, Told, Recv
  PROVE  Position' /\ Told'
<1>. USE DEF Recv
<1>1. Inside /\ InPass /\ todo = << >> /\ pass <= Len(input.passes) /\ (input.select => pass = 1)
      /\ fed' = fed /\ mpc' = mpc /\ json' = json
  <2>1. Inside /\ fed' = fed /\ mpc' = mpc /\ json' = json
    BY DEF Inside, metaVars, fetchVars
  <2>2. InPass /\ todo = << >>
    BY <2>1 DEF Position
  <2>. QED  BY <2>1, <2>2, ThePass DEF InPass, Usable
<1>2. CASE /\ lines # << >> /\ lines' = Tail(lines)
           /\ Available(Head(lines)) /\ job' = Head(lines) /\ epc' = "meta"
           /\ UNCHANGED <<pass, todo, rpc, read, records>>
  <2>1. Inside' /\ (input.select => pass' = 1)
    BY <1>1, <1>2 DEF Inside
  <2>2. InPass' /\ Head(lines) \in Line /\ Heard' = Append(Heard, Head(lines))
    BY <1>2, <2>1, ReceivedLine
  <2>3. Position'
    BY <1>1, <1>2, <2>1, <2>2 DEF Position
  <2>. QED  BY <1>2, <2>2, <2>3, OneMore
<1>3. CASE /\ lines # << >> /\ lines' = Tail(lines)
           /\ ~Available(Head(lines)) /\ UNCHANGED <<job, epc>>
           /\ UNCHANGED <<pass, todo, rpc, read, records>>
  <2>1. Inside'
    BY <1>1, <1>3 DEF Inside
  <2>2. InPass' /\ Heard' = Heard
    BY <1>3, <2>1, ReceivedLine
  <2>3. Position'
    BY <1>1, <1>3, <2>1, <2>2 DEF Position
  <2>4. Sound' = Sound /\ OnRecord' = OnRecord /\ Handed' = Handed
    BY <1>1, <1>3 DEF Sound, OnRecord, Handed, EntriesOf, metaVars, fetchVars
  <2>. QED  BY <1>1, <1>3, <2>2, <2>3, <2>4, ToldAside
<1>4. CASE lines = << >> /\ rpc \in {"ok", "err"} /\ LeavePass(rpc = "err")
  <2>1. Position' /\ ~Inside'
    BY <1>1, <1>4, PositionLeft
  <2>2. SaidBefore(pass - 1) \o OfPass(pass) = Heard
    <3>1. /\ read = Len(Pass.lines) /\ Usable(pass) /\ Pass.lines \in Seq(Line)
          /\ Len(Pass.lines) \in Nat /\ Len(<< >>) = 0
      BY <1>1, <1>4, ThePass DEF InPass
    <3>2. read - Len(lines) = Len(Pass.lines)
      BY <1>4, <3>1
    <3>. QED  BY <1>1, <3>1, <3>2 DEF Heard, OfPass, Pass
  <2>3. ASSUME Sound' PROVE Sound /\ Heard' = Heard /\ epc' = "pass"
    <3>1. pkgsOpen /\ epc' # "err" /\ epc' = "pass" /\ mpc # "err"
      BY <1>1, <1>4, <2>3, Leaving DEF Sound
    <3>. QED  BY <1>1, <1>4, <2>2, <3>1, HeardLeft DEF Sound
  <2>4. epc' # "meta" /\ todo' = << >>
    BY <1>4, Leaving
  <2>5. OnRecord' = OnRecord /\ Handed' = Handed
    BY <1>1, <2>4 DEF OnRecord, Handed
  <2>6. CASE Sound'
    BY <1>1, <2>1, <2>3, <2>5, <2>6, ToldAside
  <2>7. CASE ~Sound'
    BY <1>1, <2>1, <2>7 DEF Told
  <2>. QED  BY <2>6, <2>7
<1>. QED  BY <1>2, <1>3, <1>4

\* A pass that is left because a receiver is gone: there is nothing to show.
LEMMA GivenUp ==
  ASSUME IInv, Position, Told, Inside, LeavePass(FALSE), input' = input, fed' = fed,
         mpc' = mpc, pkgsOpen' = pkgsOpen, mpc = "err" \/ ~pkgsOpen
  PROVE  Position' /\ Told'
<1>1. pass <= Len(input.passes) /\ (input.select => pass = 1)
  BY ThePass DEF Position, InPass, Usable
<1>2. Position'
  BY <1>1, PositionLeft
<1>3. ~Sound'
  BY DEF Sound
<1>. QED  BY <1>2, <1>3 DEF Told

\* A step of the streamer that goes on with the line it holds.
LEMMA StillInPass ==
  ASSUME IInv, Position, Inside, Inside', UNCHANGED <<input, pass, rpc, read, lines>>,
         epc' # "send" => todo' = << >>
  PROVE  Position' /\ Heard' = Heard
<1>1. Pass' = Pass /\ Usable(pass)' = Usable(pass)
  BY DEF Pass, Usable
<1>2. InPass'
  BY <1>1 DEF InPass, Position
<1>. QED  BY <1>2, HeardKept DEF Position

LEMMA SendMetaTells ==
  ASSUME IInv, Position, Told, SendMeta
  PROVE  Position' /\ Told'
<1>. USE DEF SendMeta
<1>1. /\ Inside /\ epc = "meta" /\ todo = << >> /\ job \in Line
      /\ fed' = fed /\ json' = json /\ mpc' = mpc
  BY Still DEF Inside, Position, metaVars, fetchVars
<1>2. CASE mpc = "err" /\ LeavePass(FALSE)
  BY <1>1, <1>2, GivenUp
<1>3. CASE /\ metas' = Append(metas, MetaOf(job)) /\ todo' = EntriesOf(job) /\ epc' = "send"
           /\ UNCHANGED <<pass, job, rpc, read, records, lines>>
  <2>1. Position' /\ Heard' = Heard
    BY <1>1, <1>3, StillInPass DEF Inside
  <2>2. Sound' <=> Sound
    BY <1>1, <1>3 DEF Sound
  <2>3. OnRecord' = OnRecord
    <3>. DEFINE m == MetaOf(job)
    <3>1. m \in STRING /\ metas \in Seq(STRING)
      BY <1>1, Still DEF MetaOf, Line
    <3>2. /\ OnRecord = (IF mpc = "create" THEN << >> ELSE json) \o (metas \o <<m>>)
          /\ OnRecord' = (IF mpc = "create" THEN << >> ELSE json) \o (Append(metas, m) \o << >>)
      BY <1>1, <1>3 DEF OnRecord
    <3>. HIDE DEF m
    <3>3. Append(metas, m) \o << >> = metas \o <<m>>
      BY <3>1
    <3>. QED  BY <3>2, <3>3
  <2>4. Handed' = Handed
    <3>. DEFINE E == EntriesOf(job)
    <3>1. E \in Seq(Package)
      BY <1>1, EntriesArePackages
    <3>2. Handed = fed \o (pkgs \o (<< >> \o E)) /\ Handed' = fed \o (pkgs \o (E \o << >>))
      BY <1>1, <1>3 DEF Handed
    <3>. HIDE DEF E
    <3>3. << >> \o E = E \o << >>
      BY <3>1
    <3>. QED  BY <3>2, <3>3
  <2>. QED  BY <1>1, <1>3, <2>1, <2>2, <2>3, <2>4, ToldAside
<1>. QED  BY <1>2, <1>3

LEMMA SendEntryTells ==
  ASSUME IInv, Position, Told, SendEntry
  PROVE  Position' /\ Told'
<1>. USE DEF SendEntry
<1>1. /\ Inside /\ epc = "send" /\ fed' = fed /\ json' = json /\ mpc' = mpc
  BY DEF Inside, metaVars, fetchVars
<1>2. CASE todo = << >> /\ epc' = "recv" /\ UNCHANGED <<pkgs, pass, job, todo, rpc, read, records, lines>>
  <2>1. Position' /\ Heard' = Heard
    BY <1>1, <1>2, StillInPass DEF Inside
  <2>2. Sound' <=> Sound
    BY <1>1, <1>2 DEF Sound
  <2>3. OnRecord' = OnRecord /\ Handed' = Handed
    BY <1>1, <1>2 DEF OnRecord, Handed
  <2>. QED  BY <1>1, <1>2, <2>1, <2>2, <2>3, ToldAside
<1>3. CASE /\ todo # << >> /\ pkgs' = Append(pkgs, Head(todo)) /\ todo' = Tail(todo)
           /\ UNCHANGED <<epc, pass, job, rpc, read, records, lines>>
  <2>1. Position' /\ Heard' = Heard
    BY <1>1, <1>3, StillInPass DEF Inside
  <2>2. Sound' <=> Sound
    BY <1>1, <1>3 DEF Sound
  <2>3. OnRecord' = OnRecord
    BY <1>1, <1>3 DEF OnRecord
  <2>4. Handed' = Handed
    <3>1. pkgs \in Seq(Package) /\ todo \in Seq(Package) /\ << >> \in Seq(Package)
      BY Still
    <3>2. Append(pkgs, Head(todo)) \o (Tail(todo) \o << >>) = pkgs \o (todo \o << >>)
      <4>1. Moved(pkgs, todo, << >>)
        BY <1>3, <3>1, Shift
      <4>. QED  BY <4>1 DEF Moved
    <3>3. Handed = fed \o (pkgs \o (todo \o << >>))
          /\ Handed' = fed \o (Append(pkgs, Head(todo)) \o (Tail(todo) \o << >>))
      BY <1>1, <1>3 DEF Handed
    <3>. QED  BY <3>2, <3>3
  <2>. QED  BY <1>1, <1>3, <2>1, <2>2, <2>3, <2>4, ToldAside
<1>4. CASE ~pkgsOpen /\ LeavePass(FALSE)
  BY <1>1, <1>4, GivenUp
<1>. QED  BY <1>2, <1>3, <1>4

LEMMA EvalTells == ASSUME IInv, Position, Told, Eval PROVE Position' /\ Told'
BY ReadLineTells, ChildExitsTells, BeginPassTells, RecvTells, SendMetaTells, SendEntryTells DEF Eval

-----------------------------------------------------------------------------
(***************************************************************************)
(* The steps of the others: what one channel loses the next one gains.     *)
(***************************************************************************)
LEMMA Singleton == ASSUME NEW S, NEW m \in S PROVE <<m>> \in Seq(S)
OBVIOUS

LEMMA StreamerAside ==
  ASSUME IInv, Position, UNCHANGED <<input, pass, epc, todo, rpc, read, lines>>
  PROVE  Position' /\ Heard' = Heard
<1>1. Inside' <=> Inside
  BY DEF Inside
<1>2. Pass' = Pass /\ Usable(pass)' = Usable(pass)
  BY DEF Pass, Usable
<1>3. InPass' <=> InPass
  BY <1>2 DEF InPass
<1>. QED  BY <1>1, <1>3, HeardKept DEF Position

LEMMA MetaTells ==
  ASSUME IInv, Position, Told, Meta
  PROVE  Position' /\ Told'
<1>1. /\ UNCHANGED <<input, pass, epc, todo, rpc, read, lines, job, fed, pkgs, pkgsOpen>>
  BY DEF Meta, CreateJson, WriteMeta, FlushMeta, evalVars, fetchVars
<1>2. Position' /\ Heard' = Heard
  BY <1>1, StreamerAside
<1>3. Handed' = Handed
  BY <1>1 DEF Handed, EntriesOf
<1>4. CASE mpc' = "err"
  BY <1>1, <1>2, <1>4 DEF Told, Sound
<1>5. CASE mpc' # "err"
  <2>1. mpc # "err"
    BY <1>5 DEF Meta, CreateJson, WriteMeta, FlushMeta
  <2>2. Sound' <=> Sound
    BY <1>1, <1>5, <2>1 DEF Sound
  <2>3. OnRecord' = OnRecord
    <3>1. CASE CreateJson
      BY <1>1, <1>5, <3>1 DEF CreateJson, OnRecord, MetaOf
    <3>2. CASE WriteMeta
      <4>. DEFINE x == IF epc = "meta" THEN <<MetaOf(job)>> ELSE << >>
      <4>1. /\ mpc = "recv" /\ mpc' = "recv" /\ metas # << >> /\ metas' = Tail(metas)
            /\ json' = Append(json, Head(metas)) /\ x' = x
        BY <1>1, <1>5, <3>2 DEF WriteMeta, MetaOf
      <4>2. x \in Seq(STRING) /\ json \in Seq(STRING) /\ metas \in Seq(STRING)
        <5>1. << >> \in Seq(STRING)
          OBVIOUS
        <5>2. ASSUME epc = "meta" PROVE <<MetaOf(job)>> \in Seq(STRING)
          <6>. DEFINE m == MetaOf(job)
          <6>1. m \in STRING
            BY <5>2, Still DEF MetaOf, Line
          <6>. HIDE DEF m
          <6>2. <<m>> \in Seq(STRING)
            BY <6>1, Singleton
          <6>. QED  BY <6>2 DEF m
        <5>. QED  BY <5>1, <5>2, Written
      <4>3. /\ OnRecord = json \o (metas \o x)
            /\ OnRecord' = Append(json, Head(metas)) \o (Tail(metas) \o x)
        BY <4>1 DEF OnRecord
      <4>. HIDE DEF x
      <4>4. Append(json, Head(metas)) \o (Tail(metas) \o x) = json \o (metas \o x)
        <5>1. Moved(json, metas, x)
          BY <4>1, <4>2, Shift
        <5>. QED  BY <5>1 DEF Moved
      <4>. QED  BY <4>3, <4>4
    <3>3. CASE FlushMeta
      BY <1>1, <1>5, <3>3 DEF FlushMeta, OnRecord, MetaOf
    <3>. QED  BY <3>1, <3>2, <3>3 DEF Meta
  <2>. QED  BY <1>1, <1>2, <1>3, <2>2, <2>3, ToldAside
<1>. QED  BY <1>4, <1>5

LEMMA FeedTells ==
  ASSUME IInv, Position, Told, Feed
  PROVE  Position' /\ Told'
<1>. USE DEF Feed
<1>1. UNCHANGED <<input, pass, epc, todo, rpc, read, lines, job, json, mpc, metas, pkgsOpen>>
  BY DEF evalVars, metaVars
<1>2. Position' /\ Heard' = Heard
  BY <1>1, StreamerAside
<1>3. /\ Said' = Said /\ EntriesIn(Heard)' = EntriesIn(Heard) /\ AttrsOf(Heard)' = AttrsOf(Heard)
  BY <1>1, <1>2, InputAside
<1>4. (Sound' <=> Sound) /\ OnRecord' = OnRecord
  BY <1>1 DEF Sound, OnRecord, MetaOf
<1>5. fed \in Seq(Package) /\ pkgs \in Seq(Package) /\ todo \in Seq(Package) /\ << >> \in Seq(Package)
  BY Still DEF Told
<1>6. fed' \in Seq(Package)
  BY <1>5, Shorter
<1>7. Handed' = Handed
  <2>. DEFINE x == todo \o (IF epc = "meta" THEN EntriesOf(job) ELSE << >>)
  <2>1. x \in Seq(Package)
    <3>1. epc = "meta" => EntriesOf(job) \in Seq(Package)
      BY Still, EntriesArePackages
    <3>. DEFINE y == IF epc = "meta" THEN EntriesOf(job) ELSE << >>
    <3>2. y \in Seq(Package)
      BY <1>5, <3>1
    <3>. HIDE DEF y
    <3>3. todo \o y \in Seq(Package)
      BY <1>5, <3>2
    <3>. QED  BY <3>3 DEF y
  <2>2. Handed = fed \o (pkgs \o x) /\ Handed' = Append(fed, Head(pkgs)) \o (Tail(pkgs) \o x)
    BY <1>1 DEF Handed, EntriesOf
  <2>. HIDE DEF x
  <2>3. pkgs # << >>
    OBVIOUS
  <2>4. Append(fed, Head(pkgs)) \o (Tail(pkgs) \o x) = fed \o (pkgs \o x)
    <3>. HIDE DEF Feed
    <3>1. Moved(fed, pkgs, x)
      BY <1>5, <2>1, <2>3, Shift
    <3>. QED  BY <3>1 DEF Moved
  <2>. QED  BY <2>2, <2>4
<1>. QED  BY <1>1, <1>2, <1>3, <1>4, <1>6, <1>7 DEF Told

\* A step that leaves the evaluation, the metadata and what has been fed alone.
LEMMA OthersTell ==
  ASSUME IInv, Position, Told, UNCHANGED <<input, evalVars, metaVars, lines, metas, fed>>,
         pkgsOpen' => pkgsOpen, pkgs' = pkgs \/ input.onlyEval
  PROVE  Position' /\ Told'
<1>1. UNCHANGED <<input, pass, epc, todo, rpc, read, lines, job, json, mpc, metas, fed>>
  BY DEF evalVars, metaVars
<1>2. Position' /\ Heard' = Heard
  BY <1>1, StreamerAside
<1>3. (Sound' => Sound) /\ OnRecord' = OnRecord
  BY <1>1 DEF Sound, OnRecord, MetaOf
<1>4. ~input.onlyEval => Handed' = Handed
  BY <1>1 DEF Handed, EntriesOf
<1>. QED  BY <1>1, <1>2, <1>3, <1>4, ToldAside

LEMMA NothingInNothing ==
  ASSUME NEW f
  PROVE  [i \in 1 .. 0 |-> f[i]] = << >>
<1>. DEFINE g == [i \in 1 .. 0 |-> f[i]]
<1>1. g \in Seq({}) /\ DOMAIN g = 1 .. 0
  OBVIOUS
<1>. HIDE DEF g
<1>2. g = << >>
  BY <1>1
<1>. QED  BY <1>2 DEF g

LEMMA StartTells ==
  ASSUME IInv, NEW w \in Inputs, Start(w)
  PROVE  Position' /\ Told'
<1>. USE DEF Start
<1>1. /\ IsInput(w) /\ Len(w.passes) \in Nat \ {0} /\ ~Inside'
  BY InputsAssumption DEF IsInput, Inside
<1>2. Position'
  BY <1>1 DEF Position
<1>3. Heard' = << >>
  <2>1. SaidBefore(pass - 1)' = << >>
    <3>1. pass' - 1 = 0
      OBVIOUS
    <3>. DEFINE g == [i \in 1 .. 0 |-> OfPass(i)']
    <3>2. g = << >> /\ Len(g) = 0
      <4>1. g \in Seq({}) /\ DOMAIN g = 1 .. 0
        OBVIOUS
      <4>. HIDE DEF g
      <4>. QED  BY <4>1
    <3>3. FlattenSeq(g) = << >>
      BY <3>2, FlattenNothing
    <3>. QED  BY <3>1, <3>3 DEF SaidBefore
  <2>2. << >> \o << >> = << >>
    OBVIOUS
  <2>. QED  BY <1>1, <2>1, <2>2 DEF Heard
<1>4. AttrsOf(Heard)' = << >> /\ EntriesIn(Heard)' = << >>
  <2>1. DOMAIN << >> = 1 .. 0 /\ Len(<< >>) = 0
    OBVIOUS
  <2>2. AttrsOf(Heard)' = << >>
    BY <1>3, <2>1, NothingInNothing DEF AttrsOf
  <2>. DEFINE g == [i \in 1 .. 0 |-> EntriesOf(Heard[i])']
  <2>3. g = << >>
    <3>1. g \in Seq({}) /\ DOMAIN g = 1 .. 0
      OBVIOUS
    <3>. HIDE DEF g
    <3>. QED  BY <3>1
  <2>4. EntriesIn(Heard)' = FlattenSeq(<< >>)
    BY <1>3, <2>1, <2>3 DEF EntriesIn
  <2>. QED  BY <2>1, <2>2, <2>4, FlattenNothing
<1>5. OnRecord' = << >> /\ Handed' = << >>
  <2>1. << >> \o (<< >> \o << >>) = << >> /\ << >> \o (<< >> \o (<< >> \o << >>)) = << >>
    OBVIOUS
  <2>. QED  BY <2>1 DEF OnRecord, Handed
<1>6. << >> \in Seq(Package) /\ epc' = "pass"
  OBVIOUS
<1>. QED  BY <1>2, <1>4, <1>5, <1>6 DEF Told

LEMMA ExitTells ==
  ASSUME IInv, Exit
  PROVE  Position' /\ Told'
<1>. USE DEF Exit
<1>1. Len(input.passes) \in Nat \ {0} /\ ~Inside' /\ ~Sound'
  BY InputIsGood DEF IsInput, Inside, Sound
<1>2. Position'
  BY <1>1 DEF Position
<1>3. << >> \in Seq(Package)
  OBVIOUS
<1>. QED  BY <1>1, <1>2, <1>3 DEF Told

-----------------------------------------------------------------------------
(***************************************************************************)
(* How far the build and the metadata writer can be ahead of the others.   *)
(***************************************************************************)
Progress ==
  /\ bpc \in {"fetcher", "write", "drain", "eval", "meta", "finish", "ok"} => pkgsOpen
  /\ fedAll \/ bpc \in {"eval", "meta", "finish", "ok"} => pkgs = << >> /\ epc \in {"ok", "err"}
  /\ bpc \in {"meta", "finish", "ok"} => epc = "ok"
  /\ bpc \in {"finish", "ok"} => mpc \in {"ok", "err"}
  /\ bpc # "idle" /\ mpc = "ok" => metas = << >> /\ flushed = Len(json) /\ epc \in {"ok", "err"}
  /\ bpc = "ok" /\ ~input.onlyEval => filesState = "closed"
  /\ bpc = "drain" => input.onlyEval

LEMMA InitProgress == Init => Progress
BY DEF Init, Progress

LEMMA EvalProgress == ASSUME IInv, Progress, Eval PROVE Progress'
<1>1. /\ epc \notin {"ok", "err"} \/ UNCHANGED <<epc, metas, pkgs>>
      /\ UNCHANGED <<input, bpc, mpc, json, flushed, pkgsOpen, fedAll, filesState>>
  BY DEF Eval, ReadLine, ChildExits, BeginPass, Recv, SendMeta, SendEntry, metaVars, fetchVars
<1>. QED  BY <1>1 DEF Progress

LEMMA MetaProgress == ASSUME IInv, Progress, Meta PROVE Progress'
<1>1. /\ UNCHANGED <<input, bpc, epc, pkgs, pkgsOpen, fedAll, filesState>>
      /\ mpc \in {"create", "recv"}
      /\ mpc' = "ok" => metas' = << >> /\ flushed' = Len(json') /\ epc \in {"ok", "err"}
  BY DEF Meta, CreateJson, WriteMeta, FlushMeta, evalVars, fetchVars
<1>. QED  BY <1>1 DEF Progress

LEMMA FetchProgress == ASSUME IInv, Progress, Fetch PROVE Progress'
<1>1. CASE Feed
  <2>1. pkgs # << >> /\ UNCHANGED <<input, bpc, epc, mpc, json, flushed, metas, pkgsOpen, fedAll, filesState>>
    BY <1>1 DEF Feed, evalVars, metaVars
  <2>. QED  BY <2>1 DEF Progress
<1>2. CASE FeedEnds
  BY <1>2 DEF FeedEnds, Progress, evalVars, metaVars
<1>. QED  BY <1>1, <1>2 DEF Fetch

LEMMA BuildProgress == ASSUME IInv, Progress, Build PROVE Progress'
<1>. USE DEF Progress, evalVars, metaVars, fetchVars, Return
<1>1. CASE NewFetcher
  BY <1>1 DEF NewFetcher
<1>2. CASE WriteListing
  BY <1>2 DEF WriteListing
<1>3. CASE ListingsEnd
  BY <1>3 DEF ListingsEnd
<1>4. CASE Drain
  BY <1>4 DEF Drain, IInv, Underway
<1>5. CASE AwaitEval
  BY <1>5 DEF AwaitEval
<1>6. CASE AwaitMeta
  BY <1>6 DEF AwaitMeta
<1>7. CASE Finish
  BY <1>7 DEF Finish
<1>. QED  BY <1>1, <1>2, <1>3, <1>4, <1>5, <1>6, <1>7 DEF Build

LEMMA StartProgress == ASSUME IInv, NEW w \in Inputs, Start(w) PROVE Progress'
<1>1. w.onlyEval \in BOOLEAN
  BY InputsAssumption DEF IsInput
<1>. QED  BY <1>1 DEF Start, Progress

-----------------------------------------------------------------------------
(***************************************************************************)
(* What a path cache adds to a run of the fetcher: answers.  Every path it *)
(* would reach without a cache it reaches with one, and the listing of a   *)
(* path is the same, or a made-up one gives way to what the cache knows.   *)
(***************************************************************************)
LEMMA NoCacheAnswers ==
  ASSUME NEW w, NEW p \in Paths
  PROVE  /\ Source(w, NoCache).narinfo[p] = Answer(w.narinfo[p])
         /\ Source(w, NoCache).ls[p] = Answer(w.ls[p])
<1>1. Live(NoCache, p) = NoEntry
  BY DEF Live, NoCache, NoEntry
<1>. QED  BY <1>1 DEF Source, NoEntry

LEMMA CacheReaches ==
  ASSUME NEW w, NEW c
  PROVE  Closure(Source(w, NoCache)) \subseteq Closure(Source(w, c))
<1>. DEFINE bare == Source(w, NoCache)  cached == Source(w, c)
<1>1. RootPaths(bare) = RootPaths(cached)
  BY DEF Source, RootPaths
<1>2. ASSUME NEW p \in Paths PROVE Follows(bare, p) \subseteq Follows(cached, p)
  <2>1. /\ bare.shallow = w.shallow /\ cached.shallow = w.shallow
        /\ bare.refs = w.refs /\ cached.refs = w.refs
    BY DEF Source
  <2>2. bare.narinfo[p] = "ok" => cached.narinfo[p] = "ok"
    <3>1. cached.narinfo[p] = IF Live(c, p).refs THEN "ok" ELSE Answer(w.narinfo[p])
      BY DEF Source
    <3>. QED  BY <3>1, NoCacheAnswers
  <2>. HIDE DEF bare, cached
  <2>. QED  BY <2>1, <2>2 DEF Follows
<1>. HIDE DEF bare, cached
<1>3. ASSUME NEW S \in SUBSET Paths, ClosedUnder(cached, S) PROVE ClosedUnder(bare, S)
  BY <1>2, <1>3 DEF ClosedUnder
<1>. QED  BY <1>1, <1>3 DEF Closure, bare, cached

Enough == \A item \in Listings(Source(input, NoCache)) :
            item \in files \/ (item.body # Tree /\ Older(item.path))

FirstProgram(in, n, p) ==
  LET names == {i \in 1 .. n : in[i].path = p /\ in[i].program # NoProgram}
  IN  IF names = {} THEN NoProgram
      ELSE in[CHOOSE i \in names : \A j \in names : i <= j].program

LEMMA ProgramOfInput ==
  ASSUME NEW w, NEW n, NEW p
  PROVE  MainProgram(w, n, p) = FirstProgram(w.input, n, p)
BY DEF MainProgram, NamesProgram, FirstProgram

LEMMA SameProgram ==
  ASSUME NEW w, NEW c, NEW p
  PROVE  /\ MainProgram(Source(w, NoCache), Len(Source(w, NoCache).input), p) =
              MainProgram(Source(w, c), Len(Source(w, c).input), p)
         /\ RootPaths(Source(w, NoCache)) = RootPaths(Source(w, c))
<1>. DEFINE bare == Source(w, NoCache)  cached == Source(w, c)
<1>1. bare.input = fed /\ cached.input = fed
  BY DEF Source
<1>. HIDE DEF bare, cached
<1>2. MainProgram(bare, Len(bare.input), p) = MainProgram(cached, Len(cached.input), p)
  <2>1. /\ MainProgram(bare, Len(bare.input), p) = FirstProgram(bare.input, Len(bare.input), p)
        /\ MainProgram(cached, Len(cached.input), p) = FirstProgram(cached.input, Len(cached.input), p)
    BY ProgramOfInput
  <2>. QED  BY <1>1, <2>1
<1>3. RootPaths(bare) = RootPaths(cached)
  BY <1>1 DEF RootPaths
<1>. QED  BY <1>2, <1>3 DEF bare, cached

\* What the cache holds for a path that a run has reached it still holds after it.
LEMMA CacheKeeps ==
  ASSUME IInv, NEW p \in Closure(Source(input, cache)),
         cache' = IF input.pathCache THEN CacheAfter(input, cache) ELSE cache
  PROVE  /\ Live(cache, p).refs => cache'.entries[p].refs
         /\ Live(cache, p).tree => cache'.entries[p].tree
<1>1. p \in Paths /\ IsCache(cache)
  BY DEF Closure, IInv, Caches
<1>2. CASE ~input.pathCache
  BY <1>2 DEF Live, NoEntry
<1>3. CASE input.pathCache
  <2>. DEFINE f == [q \in Paths |-> IF q \in Closure(Source(input, cache))
                                   THEN EntryAfter(input, cache, q) ELSE cache.entries[q]]
  <2>1. cache'.entries[p] = EntryAfter(input, cache, p)
    <3>1. cache' = [cache EXCEPT !.entries = f]
      BY <1>3 DEF CacheAfter
    <3>2. f[p] = EntryAfter(input, cache, p)
      BY <1>1
    <3>. HIDE DEF f
    <3>3. cache' = [key |-> cache.key, ttl |-> cache.ttl, entries |-> f]
      BY <1>1, <3>1 DEF IsCache
    <3>. QED  BY <3>2, <3>3
  <2>. DEFINE e == Live(cache, p)
              narinfo == ~input.shallow /\ Source(input, cache).narinfo[p] = "ok"
              tree == (input.shallow \/ narinfo) /\ Source(input, cache).ls[p] = "ok"
              fresh == (narinfo /\ ~e.refs) \/ (tree /\ ~e.tree)
  <2>2. EntryAfter(input, cache, p) =
          IF fresh THEN [refs |-> e.refs \/ narinfo, tree |-> e.tree \/ tree, age |-> 0] ELSE e
    BY DEF EntryAfter
  <2>. HIDE DEF e, narinfo, tree, fresh
  <2>3. CASE fresh
    <3>1. EntryAfter(input, cache, p) = [refs |-> e.refs \/ narinfo, tree |-> e.tree \/ tree, age |-> 0]
      BY <2>2, <2>3
    <3>2. /\ EntryAfter(input, cache, p).refs = (e.refs \/ narinfo)
          /\ EntryAfter(input, cache, p).tree = (e.tree \/ tree)
      BY <3>1
    <3>. QED  BY <2>1, <3>2 DEF e
  <2>4. CASE ~fresh
    BY <2>1, <2>2, <2>4 DEF e
  <2>. QED  BY <2>3, <2>4
<1>. QED  BY <1>2, <1>3

LEMMA ListingsAreEnough ==
  ASSUME IInv, ListingsEnd
  PROVE  Enough'
<1>. DEFINE bare == Source(input, NoCache)  cached == Source(input, cache)
<1>1. /\ UNCHANGED <<input, fed, files>> /\ Listings(cached) \subseteq files
      /\ cache' = IF input.pathCache THEN CacheAfter(input, cache) ELSE cache
  BY DEF ListingsEnd
<1>2. Source(input, NoCache)' = bare
  BY <1>1 DEF Source, NoCache, NoEntry, Live
<1>. SUFFICES ASSUME NEW item \in Listings(bare)
              PROVE  item \in files \/ (item.body # Tree /\ Older(item.path)')
  BY <1>1, <1>2 DEF Enough
<1>3. PICK p \in Closure(bare) : item = Listing(bare, p) /\ item # NoItem
  BY DEF Listings
<1>4. p \in Paths /\ p \in Closure(cached)
  BY CacheReaches DEF Closure
<1>. DEFINE m == MainProgram(bare, Len(bare.input), p)
<1>5. /\ Listing(bare, p) = IF Body(bare, p, m) = NoItem THEN NoItem
                            ELSE [path |-> p, toplevel |-> p \in RootPaths(bare), body |-> Body(bare, p, m)]
      /\ Listing(cached, p) = IF Body(cached, p, m) = NoItem THEN NoItem
                              ELSE [path |-> p, toplevel |-> p \in RootPaths(bare), body |-> Body(cached, p, m)]
  <2>1. /\ m = MainProgram(cached, Len(cached.input), p)
        /\ RootPaths(bare) = RootPaths(cached)
    BY SameProgram
  <2>. HIDE DEF bare, cached
  <2>. QED  BY <2>1 DEF Listing, m
<1>6. /\ bare.shallow = input.shallow /\ cached.shallow = input.shallow
      /\ bare.narinfo[p] = Answer(input.narinfo[p]) /\ bare.ls[p] = Answer(input.ls[p])
      /\ cached.narinfo[p] = IF Live(cache, p).refs THEN "ok" ELSE Answer(input.narinfo[p])
      /\ cached.ls[p] = IF Live(cache, p).tree THEN "ok" ELSE Answer(input.ls[p])
  <2>1. bare.shallow = input.shallow /\ cached.shallow = input.shallow
    BY DEF Source
  <2>2. /\ cached.narinfo[p] = IF Live(cache, p).refs THEN "ok" ELSE Answer(input.narinfo[p])
        /\ cached.ls[p] = IF Live(cache, p).tree THEN "ok" ELSE Answer(input.ls[p])
    BY <1>4 DEF Source
  <2>. QED  BY <1>4, <2>1, <2>2, NoCacheAnswers
<1>7. /\ Live(cache, p).refs => cache'.entries[p].refs
      /\ Live(cache, p).tree => cache'.entries[p].tree
  BY <1>1, <1>4, CacheKeeps
<1>8. Older(p)' <=> \/ cache'.entries[p].refs /\ Answer(input.narinfo[p]) # "ok"
                    \/ cache'.entries[p].tree /\ Answer(input.ls[p]) # "ok"
  BY <1>1 DEF Older
<1>. HIDE DEF bare, cached, m
<1>9. Body(bare, p, m) # NoItem /\ item.path = p /\ item.body = Body(bare, p, m)
  BY <1>3, <1>5
<1>10. CASE Body(cached, p, m) = Body(bare, p, m)
  <2>1. Listing(cached, p) = item
    BY <1>3, <1>5, <1>10
  <2>2. item \in Listings(cached)
    BY <1>3, <1>4, <2>1 DEF Listings
  <2>. QED  BY <1>1, <2>2
<1>11. CASE Body(cached, p, m) # Body(bare, p, m)
  <2>1. Body(bare, p, m) # Tree
    <3>. SUFFICES ASSUME Body(bare, p, m) = Tree PROVE FALSE
      OBVIOUS
    <3>1. (bare.shallow \/ bare.narinfo[p] = "ok") /\ bare.ls[p] = "ok"
      BY <1>9, ProgramsAssumption DEF Body
    <3>2. (cached.shallow \/ cached.narinfo[p] = "ok") /\ cached.ls[p] = "ok"
      BY <1>6, <3>1
    <3>3. Body(cached, p, m) = Tree
      BY <3>2 DEF Body
    <3>. QED  BY <1>11, <3>3
  <2>2. /\ (IF bare.shallow \/ bare.narinfo[p] = "ok" THEN bare.ls[p] ELSE bare.narinfo[p]) = "not_found"
    BY <1>9, <2>1 DEF Body
  <2>3. \/ Live(cache, p).refs /\ Answer(input.narinfo[p]) # "ok"
        \/ Live(cache, p).tree /\ Answer(input.ls[p]) # "ok"
    <3>1. ASSUME bare.narinfo[p] = cached.narinfo[p], bare.ls[p] = cached.ls[p] PROVE FALSE
      <4>1. Body(cached, p, m) = Body(bare, p, m)
        BY <1>6, <3>1 DEF Body
      <4>. QED  BY <1>11, <4>1
    <3>2. bare.narinfo[p] # cached.narinfo[p] => Live(cache, p).refs /\ Answer(input.narinfo[p]) # "ok"
      BY <1>6
    <3>3. bare.ls[p] # cached.ls[p] => Live(cache, p).tree /\ Answer(input.ls[p]) # "ok"
      BY <1>6
    <3>. QED  BY <3>1, <3>2, <3>3
  <2>4. Older(p)'
    BY <1>7, <1>8, <2>3
  <2>5. Older(item.path)'
    BY <1>9, <2>4
  <2>. QED  BY <1>9, <2>1, <2>5
<1>. QED  BY <1>10, <1>11

-----------------------------------------------------------------------------
WholeFiles == bpc \in {"eval", "meta", "finish", "ok"} /\ ~input.onlyEval => Enough

(***************************************************************************)
(* The inductive invariant behind SuccessIsWhole.                          *)
(***************************************************************************)
WInv == Position /\ Told /\ Progress /\ WholeFiles

LEMMA FilesKept ==
  ASSUME IInv, WholeFiles, UNCHANGED <<input, fed, files, cache>>,
         bpc' \in {"eval", "meta", "finish", "ok"} => bpc \in {"eval", "meta", "finish", "ok"} \/ input.onlyEval
  PROVE  WholeFiles'
<1>1. Enough' <=> Enough
  <2>1. Source(input, NoCache)' = Source(input, NoCache)
    BY DEF Source, NoCache, NoEntry, Live
  <2>2. \A p : Older(p)' <=> Older(p)
    BY DEF Older
  <2>. QED  BY <2>1, <2>2 DEF Enough
<1>. QED  BY <1>1 DEF WholeFiles

LEMMA InitWhole == Init => WInv
<1>. SUFFICES ASSUME Init PROVE WInv
  OBVIOUS
<1>. USE DEF Init
<1>1. Len(input.passes) \in Nat \ {0} /\ ~Inside /\ ~Sound /\ << >> \in Seq(Package)
  BY InputsAssumption DEF IsInput, Inside, Sound
<1>2. Position
  BY <1>1 DEF Position
<1>3. Told
  BY <1>1 DEF Told
<1>. QED  BY <1>2, <1>3, InitProgress DEF WInv, WholeFiles

LEMMA EvalWhole == ASSUME IInv, WInv, Eval PROVE WInv'
<1>. USE DEF WInv
<1>1. UNCHANGED <<input, bpc, fed, files, cache>>
  BY DEF Eval, ReadLine, ChildExits, BeginPass, Recv, SendMeta, SendEntry, fetchVars
<1>. QED  BY <1>1, EvalTells, EvalProgress, FilesKept

LEMMA MetaWhole == ASSUME IInv, WInv, Meta PROVE WInv'
<1>. USE DEF WInv
<1>1. UNCHANGED <<input, bpc, fed, files, cache>>
  BY DEF Meta, CreateJson, WriteMeta, FlushMeta, fetchVars
<1>. QED  BY <1>1, MetaTells, MetaProgress, FilesKept

LEMMA FetchWhole == ASSUME IInv, WInv, Fetch PROVE WInv'
<1>. USE DEF WInv
<1>1. CASE Feed
  <2>1. bpc' = bpc /\ bpc \notin {"eval", "meta", "finish", "ok"}
    BY <1>1 DEF Feed, Progress
  <2>2. WholeFiles'
    BY <2>1 DEF WholeFiles
  <2>. QED  BY <1>1, <2>2, FeedTells, FetchProgress DEF Fetch
<1>2. CASE FeedEnds
  <2>1. UNCHANGED <<input, bpc, evalVars, metaVars, lines, metas, pkgs, pkgsOpen, fed, files, cache>>
    BY <1>2 DEF FeedEnds
  <2>2. Position' /\ Told'
    BY <2>1, OthersTell
  <2>. QED  BY <1>2, <2>1, <2>2, FetchProgress, FilesKept DEF Fetch
<1>. QED  BY <1>1, <1>2 DEF Fetch

LEMMA BuildWhole == ASSUME IInv, WInv, Build PROVE WInv'
<1>. USE DEF WInv
<1>1. /\ UNCHANGED <<input, evalVars, metaVars, lines, metas, fed>>
      /\ pkgsOpen' => pkgsOpen
      /\ pkgs' = pkgs \/ input.onlyEval
  <2>. USE DEF fetchVars
  <2>1. CASE NewFetcher
    BY <2>1 DEF NewFetcher, Progress
  <2>2. CASE Drain
    BY <2>2 DEF Drain, Progress
  <2>3. CASE WriteListing \/ ListingsEnd \/ AwaitEval \/ AwaitMeta \/ Finish
    BY <2>3 DEF WriteListing, ListingsEnd, AwaitEval, AwaitMeta, Finish
  <2>. QED  BY <2>1, <2>2, <2>3 DEF Build
<1>2. Position' /\ Told'
  BY <1>1, OthersTell
<1>3. WholeFiles'
  <2>1. CASE ListingsEnd
    BY <2>1, ListingsAreEnough DEF WholeFiles
  <2>2. CASE WriteListing
    <3>1. bpc' \in {"write", "err"}
      BY <2>2 DEF WriteListing, Return
    <3>. QED  BY <3>1 DEF WholeFiles
  <2>3. CASE NewFetcher
    <3>1. bpc' \in {"write", "err"}
      BY <2>3 DEF NewFetcher, Return
    <3>. QED  BY <3>1 DEF WholeFiles
  <2>4. CASE Drain \/ AwaitEval \/ AwaitMeta \/ Finish
    <3>1. /\ UNCHANGED <<input, fed, files, cache>>
          /\ bpc \in {"eval", "meta", "finish"} \/ input.onlyEval
      BY <2>4 DEF Drain, AwaitEval, AwaitMeta, Finish, Progress, fetchVars
    <3>. QED  BY <3>1, FilesKept
  <2>. QED  BY <2>1, <2>2, <2>3, <2>4 DEF Build
<1>. QED  BY <1>2, <1>3, BuildProgress

LEMMA StartWhole == ASSUME IInv, NEW w \in Inputs, Start(w) PROVE WInv'
<1>1. bpc' \in {"drain", "fetcher"}
  BY DEF Start
<1>2. WholeFiles'
  BY <1>1 DEF WholeFiles
<1>. QED  BY <1>2, StartTells, StartProgress DEF WInv

LEMMA ExitWhole == ASSUME IInv, WInv, Exit PROVE WInv'
<1>1. bpc' = "idle" /\ ~fedAll'
  BY DEF Exit
<1>2. WholeFiles' /\ Progress'
  BY <1>1 DEF WholeFiles, Progress
<1>. QED  BY <1>2, ExitTells DEF WInv

LEMMA RestWhole == ASSUME IInv, WInv, Age \/ UNCHANGED vars PROVE WInv'
<1>. USE DEF WInv
<1>1. UNCHANGED <<input, bpc, evalVars, metaVars, lines, metas, pkgs, pkgsOpen, fetchVars>>
  BY DEF Age, vars
<1>2. Position' /\ Told'
  BY <1>1, OthersTell DEF fetchVars
<1>3. Progress'
  BY <1>1 DEF Progress, evalVars, metaVars, fetchVars
<1>4. WholeFiles'
  BY <1>1, FilesKept DEF fetchVars
<1>. QED  BY <1>2, <1>3, <1>4

LEMMA NextWhole == ASSUME IInv, WInv, [Next]_vars PROVE WInv'
BY StartWhole, EvalWhole, MetaWhole, FetchWhole, BuildWhole, ExitWhole, RestWhole DEF Next

LEMMA WholeInvariance == Spec => [](IInv /\ WInv)
<1>1. IInv /\ WInv /\ [Next]_vars => IInv' /\ WInv'
  BY NextStep, NextWhole
<1>. QED  BY <1>1, Initially, InitWhole, PTL DEF Spec

\* What the invariant says of a build that has returned.
LEMMA ReturnedWhole == ASSUME IInv, WInv PROVE SuccessIsWhole
<1>. SUFFICES ASSUME bpc = "ok", mpc # "err"
              PROVE  /\ json = Attrs /\ flushed = Len(json)
                     /\ ~input.onlyEval =>
                          /\ filesState = "closed"
                          /\ \A item \in Plain : item \in files \/ (item.body # Tree /\ Older(item.path))
  BY DEF SuccessIsWhole
<1>. USE DEF WInv
<1>1. /\ pkgsOpen /\ pkgs = << >> /\ epc = "ok" /\ mpc = "ok" /\ metas = << >>
      /\ flushed = Len(json) /\ todo = << >>
      /\ ~input.onlyEval => filesState = "closed"
  BY DEF Progress, Position
<1>2. Heard = Said /\ OnRecord = AttrsOf(Said) /\ (~input.onlyEval => Handed = EntriesIn(Said))
  <2>1. Sound
    BY <1>1 DEF Sound
  <2>. QED  BY <1>1, <2>1 DEF Told
<1>3. AttrsOf(Said) = Attrs /\ EntriesIn(Said) = Entries
  BY DEF AttrsOf, EntriesIn, Attrs, Entries
<1>4. json = Attrs
  <2>1. OnRecord = json \o (<< >> \o << >>)
    BY <1>1 DEF OnRecord
  <2>2. json \o (<< >> \o << >>) = json
    BY Written
  <2>. QED  BY <1>2, <1>3, <2>1, <2>2
<1>5. ASSUME ~input.onlyEval
      PROVE  \A item \in Plain : item \in files \/ (item.body # Tree /\ Older(item.path))
  <2>1. fed = Entries
    <3>1. Handed = fed \o (<< >> \o (<< >> \o << >>))
      BY <1>1 DEF Handed
    <3>2. fed \o (<< >> \o (<< >> \o << >>)) = fed
      BY DEF Told
    <3>. QED  BY <1>2, <1>3, <1>5, <3>1, <3>2
  <2>2. [Source(input, NoCache) EXCEPT !.input = Entries] = Source(input, NoCache)
    BY <2>1 DEF Source
  <2>3. Enough
    BY <1>5 DEF WholeFiles
  <2>. QED  BY <2>2, <2>3 DEF Plain, Enough
<1>. QED  BY <1>1, <1>4, <1>5

(***************************************************************************)
(* A build that returns success, whatever failed on the way, has written   *)
(* every attribute the evaluation named and every listing that a build     *)
(* without a path cache would have, except a made-up one where the cache   *)
(* knows better: for any packages, scopes, answers and room in the         *)
(* channels, after any number of earlier builds and deaths of the process. *)
(***************************************************************************)
THEOREM SuccessWritesAll == Spec => []SuccessIsWhole
<1>1. IInv /\ WInv => SuccessIsWhole
  BY ReturnedWhole
<1>. QED  BY <1>1, WholeInvariance, PTL
----------------------------------------------------------------------------
(***************************************************************************)
(* The writer's frames: sequences laid one after the other.  FrameEnd(g,f) *)
(* is where the f-th one ends.                                             *)
(***************************************************************************)
LEMMA FlattenPlus ==
  ASSUME NEW S, NEW g \in Seq(Seq(S)), NEW x \in Seq(S)
  PROVE  /\ FlattenSeq(g) \in Seq(S)
         /\ FlattenSeq(g \o <<x>>) = FlattenSeq(g) \o x
<1>. DEFINE n == Len(g)
            h == g \o <<x>>
<1>1. n \in Nat /\ g \in [1 .. n -> Seq(S)]
  BY LenProperties
<1>2. <<x>> \in Seq(Seq(S)) /\ Len(<<x>>) = 1 /\ <<x>>[1] = x
  OBVIOUS
<1>3. h \in Seq(Seq(S)) /\ Len(h) = n + 1
      /\ \A i \in 1 .. n + 1 : h[i] = IF i <= n THEN g[i] ELSE <<x>>[i - n]
  BY <1>2, ConcatProperties
<1>. HIDE DEF h
<1>4. h \in [1 .. n + 1 -> Seq(S)]
  BY <1>3, LenProperties
<1>5. h[n + 1] = x
  <2>1. n + 1 \in 1 .. n + 1 /\ ~(n + 1 <= n) /\ (n + 1) - n = 1
    BY <1>1
  <2>. QED  BY <1>2, <1>3, <2>1
<1>6. [i \in 1 .. n |-> h[i]] = g
  <2>1. \A i \in 1 .. n : h[i] = g[i]
    BY <1>1, <1>3
  <2>. QED  BY <1>1, <2>1
<1>. HIDE DEF n
<1>7. FlattenSeq(g) \in Seq(S)
  BY <1>1, FlattenType
<1>8. FlattenSeq(h) = FlattenSeq([i \in 1 .. n |-> h[i]]) \o h[n + 1]
  BY <1>1, <1>4, FlattenStep
<1>. QED  BY <1>5, <1>6, <1>7, <1>8 DEF h

LEMMA FlattenNone == FlattenSeq(<< >>) = << >>
BY EmptySeq, FlattenNothing

LEMMA FlattenOne ==
  ASSUME NEW S, NEW x \in Seq(S)
  PROVE  FlattenSeq(<<x>>) = x
<1>1. << >> \in Seq(Seq(S))
  BY EmptySeq
<1>2. << >> \o <<x>> = <<x>> /\ << >> \o x = x
  <2>1. <<x>> \in Seq(Seq(S))
    OBVIOUS
  <2>. QED  BY <2>1, ConcatEmptySeq
<1>. QED  BY <1>1, <1>2, FlattenPlus, FlattenNone

LEMMA FlattenBoth ==
  ASSUME NEW S, NEW g \in Seq(Seq(S)), NEW h \in Seq(Seq(S))
  PROVE  FlattenSeq(g \o h) = FlattenSeq(g) \o FlattenSeq(h)
<1>. DEFINE H(n) == SubSeq(h, 1, n)
            T == {n \in 0 .. Len(h) : FlattenSeq(g \o H(n)) # FlattenSeq(g) \o FlattenSeq(H(n))}
<1>1. Len(h) \in Nat
  BY LenProperties
<1>2. T = {}
  <2>. SUFFICES ASSUME T # {} PROVE FALSE
    OBVIOUS
  <2>1. PICK n \in T : \A k \in T : n <= k
    <3>1. T \subseteq Nat
      BY <1>1
    <3>. HIDE DEF T
    <3>. QED  BY <3>1, Smallest
  <2>2. n \in 0 .. Len(h) /\ FlattenSeq(g \o H(n)) # FlattenSeq(g) \o FlattenSeq(H(n))
    OBVIOUS
  <2>3. CASE n = 0
    <3>1. H(0) = << >>
      BY SubSeqEmpty
    <3>2. FlattenSeq(g) \in Seq(S)
      BY <1>1, FlattenPlus, EmptySeq
    <3>. HIDE DEF H
    <3>3. g \o << >> = g /\ FlattenSeq(g) \o << >> = FlattenSeq(g)
      BY <3>2, ConcatEmptySeq
    <3>. QED  BY <2>2, <2>3, <3>1, <3>3, FlattenNone
  <2>4. CASE n # 0
    <3>1. n - 1 \in 0 .. Len(h) /\ n - 1 \notin T
      <4>1. n - 1 \in 0 .. Len(h) /\ ~(n <= n - 1)
        BY <1>1, <2>2, <2>4
      <4>. HIDE DEF T
      <4>. QED  BY <2>1, <4>1
    <3>2. FlattenSeq(g \o H(n - 1)) = FlattenSeq(g) \o FlattenSeq(H(n - 1))
      BY <3>1
    <3>3. n \in 1 .. Len(h) /\ 1 \in 1 .. Len(h) /\ n \in 1 .. Len(h)
      BY <1>1, <2>2, <2>4
    <3>4. H(n) = H(n - 1) \o <<h[n]>>
      BY <3>3, SubSeqRecursiveSecond
    <3>5. h[n] \in Seq(S)
      BY <3>3, ElementOfSeq
    <3>6. H(n - 1) \in Seq(Seq(S))
      <4>1. \A i \in 1 .. n - 1 : h[i] \in Seq(S)
        <5>1. \A i \in 1 .. n - 1 : i \in 1 .. Len(h)
          BY <1>1, <2>2
        <5>. QED  BY <5>1, ElementOfSeq
      <4>2. n - 1 \in Int
        BY <3>3
      <4>. QED  BY <4>1, <4>2, SubSeqProperties
    <3>. HIDE DEF H, T
    <3>. DEFINE x == h[n]
                k == H(n - 1)
    <3>7. k \in Seq(Seq(S)) /\ x \in Seq(S) /\ <<x>> \in Seq(Seq(S))
      BY <3>5, <3>6
    <3>. HIDE DEF x, k
    <3>8. g \o k \in Seq(Seq(S)) /\ g \o (k \o <<x>>) = (g \o k) \o <<x>>
      <4>. DEFINE t == <<x>>
      <4>1. t \in Seq(Seq(S))
        BY <3>7
      <4>. HIDE DEF t
      <4>2. Then(Then(g, k), t) = Then(g, Then(k, t))
        BY <3>7, <4>1, Regroup
      <4>3. g \o k \in Seq(Seq(S))
        BY <3>7, ConcatProperties
      <4>. QED  BY <4>2, <4>3 DEF t, Then
    <3>9. FlattenSeq(g \o (k \o <<x>>)) = FlattenSeq(g \o k) \o x
      BY <3>7, <3>8, FlattenPlus
    <3>10. FlattenSeq(k \o <<x>>) = FlattenSeq(k) \o x
      BY <3>7, FlattenPlus
    <3>11. FlattenSeq(g) \in Seq(S) /\ FlattenSeq(k) \in Seq(S)
      BY <3>7, FlattenPlus
    <3>12. (FlattenSeq(g) \o FlattenSeq(k)) \o x = FlattenSeq(g) \o (FlattenSeq(k) \o x)
      <4>1. Then(Then(FlattenSeq(g), FlattenSeq(k)), x) = Then(FlattenSeq(g), Then(FlattenSeq(k), x))
        BY <3>7, <3>11, Regroup
      <4>. QED  BY <4>1 DEF Then
    <3>13. FlattenSeq(g \o k) = FlattenSeq(g) \o FlattenSeq(k)
      BY <3>2 DEF k
    <3>. QED  BY <2>2, <3>4, <3>9, <3>10, <3>12, <3>13 DEF k, x
  <2>. QED  BY <2>3, <2>4
<1>3. H(Len(h)) = h /\ Len(h) \in 0 .. Len(h)
  BY <1>1, SubSeqFull
<1>. QED  BY <1>2, <1>3

\* The first n frames.
LEMMA FirstFrames ==
  ASSUME NEW S, NEW g \in Seq(Seq(S)), NEW n \in 0 .. Len(g)
  PROVE  SubSeq(g, 1, n) \in Seq(Seq(S)) /\ Len(SubSeq(g, 1, n)) = n
<1>1. Len(g) \in Nat
  BY LenProperties
<1>2. \A i \in 1 .. n : g[i] \in Seq(S)
  <2>1. \A i \in 1 .. n : i \in 1 .. Len(g)
    BY <1>1
  <2>. QED  BY <2>1, ElementOfSeq
<1>3. n \in Int /\ 1 \in Int /\ (IF 1 <= n THEN n - 1 + 1 ELSE 0) = n
  BY <1>1
<1>. QED  BY <1>2, <1>3, SubSeqProperties

LEMMA Ends ==
  ASSUME NEW S, NEW g \in Seq(Seq(S))
  PROVE  /\ FrameEnd(g, 0) = 0 /\ FrameEnd(g, Len(g)) = Len(FlattenSeq(g))
         /\ \A f \in 0 .. Len(g) : FrameEnd(g, f) \in Nat
         /\ \A f \in 1 .. Len(g) : /\ FrameEnd(g, f) = FrameEnd(g, f - 1) + Len(g[f])
                                   /\ Len(g[f]) \in Nat
<1>1. Len(g) \in Nat
  BY LenProperties
<1>2. FrameEnd(g, 0) = 0
  <2>1. SubSeq(g, 1, 0) = << >>
    BY SubSeqEmpty
  <2>. QED  BY <2>1, FlattenNone, EmptySeq DEF FrameEnd
<1>3. SubSeq(g, 1, Len(g)) = g
  BY SubSeqFull
<1>4. ASSUME NEW f \in 0 .. Len(g) PROVE FrameEnd(g, f) \in Nat
  <2>1. SubSeq(g, 1, f) \in Seq(Seq(S))
    BY FirstFrames
  <2>. HIDE DEF FrameEnd
  <2>. DEFINE k == SubSeq(g, 1, f)
  <2>2. FrameEnd(g, f) = Len(FlattenSeq(k))
    BY DEF FrameEnd
  <2>. HIDE DEF k
  <2>3. FlattenSeq(k) \in Seq(S)
    <3>1. k \in Seq(Seq(S)) /\ << >> \in Seq(S)
      BY <2>1, EmptySeq DEF k
    <3>. QED  BY <3>1, FlattenPlus
  <2>. QED  BY <2>2, <2>3, LenProperties
<1>5. ASSUME NEW f \in 1 .. Len(g)
      PROVE  FrameEnd(g, f) = FrameEnd(g, f - 1) + Len(g[f]) /\ Len(g[f]) \in Nat
  <2>. DEFINE k == SubSeq(g, 1, f - 1)
              x == g[f]
  <2>1. x \in Seq(S)
    BY ElementOfSeq
  <2>2. f - 1 \in 0 .. Len(g) /\ 1 \in 1 .. Len(g)
    BY <1>1
  <2>3. k \in Seq(Seq(S))
    BY <2>2, FirstFrames
  <2>4. SubSeq(g, 1, f) = k \o <<x>>
    BY <2>2, SubSeqRecursiveSecond
  <2>5. FrameEnd(g, f) = Len(FlattenSeq(k \o <<x>>)) /\ FrameEnd(g, f - 1) = Len(FlattenSeq(k))
    BY <2>4 DEF FrameEnd
  <2>. HIDE DEF k, x
  <2>6. FlattenSeq(k) \in Seq(S) /\ FlattenSeq(k \o <<x>>) = FlattenSeq(k) \o x
    BY <2>1, <2>3, FlattenPlus
  <2>7. Len(FlattenSeq(k) \o x) = Len(FlattenSeq(k)) + Len(x) /\ Len(x) \in Nat
    BY <2>1, <2>6, ConcatProperties, LenProperties
  <2>. QED  BY <2>5, <2>6, <2>7 DEF x
<1>. QED  BY <1>2, <1>3, <1>4, <1>5 DEF FrameEnd

LEMMA EndsOfBoth ==
  ASSUME NEW S, NEW g \in Seq(Seq(S)), NEW h \in Seq(Seq(S))
  PROVE  /\ g \o h \in Seq(Seq(S)) /\ Len(g \o h) = Len(g) + Len(h)
         /\ \A f \in 0 .. Len(g) : FrameEnd(g \o h, f) = FrameEnd(g, f)
         /\ \A f \in 0 .. Len(h) :
              FrameEnd(g \o h, Len(g) + f) = Len(FlattenSeq(g)) + FrameEnd(h, f)
<1>. DEFINE G == g \o h
            n == Len(g)
            m == Len(h)
<1>1. n \in Nat /\ m \in Nat /\ G \in Seq(Seq(S)) /\ Len(G) = n + m
  BY LenProperties, ConcatProperties
<1>2. ASSUME NEW f \in 0 .. n PROVE SubSeq(G, 1, f) = SubSeq(g, 1, f)
  <2>1. CASE f = 0
    <3>1. SubSeq(G, 1, 0) = << >> /\ SubSeq(g, 1, 0) = << >>
      BY SubSeqEmpty
    <3>. QED  BY <2>1, <3>1
  <2>2. CASE f # 0
    <3>1. f \in 1 .. Len(g) /\ 1 \in 1 .. Len(g)
      BY <1>1, <2>2
    <3>. QED  BY <3>1, SubSeqOfConcat1
  <2>. QED  BY <2>1, <2>2
<1>3. ASSUME NEW f \in 0 .. m PROVE SubSeq(G, 1, n + f) = g \o SubSeq(h, 1, f)
  <2>1. CASE f = 0
    <3>1. SubSeq(h, 1, 0) = << >> /\ g \o << >> = g
      BY SubSeqEmpty, ConcatEmptySeq
    <3>2. SubSeq(g, 1, n) = g /\ n \in 0 .. n /\ n + 0 = n
      BY <1>1, SubSeqFull
    <3>3. SubSeq(G, 1, n) = SubSeq(g, 1, n)
      BY <1>2, <3>2
    <3>. HIDE DEF G, n
    <3>. QED  BY <2>1, <3>1, <3>2, <3>3
  <2>2. CASE f # 0
    <3>1. f \in 1 .. m /\ 1 \in 1 .. m /\ n + f \in n + 1 .. n + m /\ n + 1 \in n + 1 .. n + m
          /\ 1 \in 1 .. Len(G) + 1 /\ n \in 1 - 1 .. Len(G) /\ n + f \in n .. Len(G)
          /\ n + 1 - n = 1 /\ n + f - n = f /\ n \in 0 .. n
      BY <1>1, <2>2
    <3>2. SubSeq(G, 1, n + f) = SubSeq(G, 1, n) \o SubSeq(G, n + 1, n + f)
      <4>. HIDE DEF G, n
      <4>. QED  BY <1>1, <3>1, ConcatAdjacentSubSeq
    <3>3. SubSeq(G, n + 1, n + f) = SubSeq(h, n + 1 - n, n + f - n)
      <4>1. n + f \in Len(g) + 1 .. Len(g) + Len(h) /\ n + 1 \in Len(g) + 1 .. Len(g) + Len(h)
        BY <3>1
      <4>. DEFINE a == n + 1
                  z == n + f
      <4>. HIDE DEF n, m, a, z
      <4>2. SubSeq(g \o h, a, z) = SubSeq(h, a - Len(g), z - Len(g))
        BY <4>1, SubSeqOfConcat2 DEF a, z
      <4>3. SubSeq(G, n + 1, n + f) = SubSeq(g \o h, a, z)
        BY DEF a, z
      <4>4. a - Len(g) = n + 1 - n /\ z - Len(g) = n + f - n
        BY <1>1, <3>1 DEF a, z, n
      <4>. QED  BY <4>2, <4>3, <4>4
    <3>4. SubSeq(G, 1, n) = g
      <4>1. SubSeq(g, 1, n) = g
        BY SubSeqFull
      <4>. HIDE DEF G, n
      <4>. QED  BY <1>2, <3>1, <4>1
    <3>. HIDE DEF G, n
    <3>. QED  BY <3>1, <3>2, <3>3, <3>4
  <2>. QED  BY <2>1, <2>2
<1>4. ASSUME NEW f \in 0 .. m PROVE FrameEnd(G, n + f) = Len(FlattenSeq(g)) + FrameEnd(h, f)
  <2>. DEFINE k == SubSeq(h, 1, f)
  <2>1. k \in Seq(Seq(S))
    BY FirstFrames
  <2>2. FrameEnd(G, n + f) = Len(FlattenSeq(g \o k)) /\ FrameEnd(h, f) = Len(FlattenSeq(k))
    BY <1>3 DEF FrameEnd
  <2>. HIDE DEF k
  <2>3. << >> \in Seq(S)
    BY EmptySeq
  <2>4. /\ FlattenSeq(g \o k) = FlattenSeq(g) \o FlattenSeq(k)
        /\ FlattenSeq(g) \in Seq(S) /\ FlattenSeq(k) \in Seq(S)
    BY <2>1, <2>3, FlattenBoth, FlattenPlus
  <2>5. Len(FlattenSeq(g) \o FlattenSeq(k)) = Len(FlattenSeq(g)) + Len(FlattenSeq(k))
    BY <2>4, ConcatProperties
  <2>. QED  BY <2>2, <2>4, <2>5
<1>. QED  BY <1>1, <1>2, <1>4 DEF FrameEnd

LEMMA EndsRise ==
  ASSUME NEW S, NEW g \in Seq(Seq(S)), NEW i \in 0 .. Len(g), NEW j \in 0 .. Len(g), i <= j
  PROVE  FrameEnd(g, i) <= FrameEnd(g, j)
<1>. DEFINE T == {k \in 0 .. Len(g) : i <= k /\ ~(FrameEnd(g, i) <= FrameEnd(g, k))}
<1>. SUFFICES ASSUME T # {} PROVE FALSE
  OBVIOUS
<1>1. Len(g) \in Nat
  BY LenProperties
<1>2. PICK k \in T : \A l \in T : k <= l
  <2>1. T \subseteq Nat
    BY <1>1
  <2>. HIDE DEF T
  <2>. QED  BY <2>1, Smallest
<1>3. k \in 0 .. Len(g) /\ i <= k /\ ~(FrameEnd(g, i) <= FrameEnd(g, k))
  OBVIOUS
<1>4. FrameEnd(g, i) \in Nat /\ k # i
  <2>1. FrameEnd(g, i) \in Nat
    BY Ends
  <2>. QED  BY <1>3, <2>1
<1>5. k \in 1 .. Len(g) /\ k - 1 \in 0 .. Len(g) /\ i <= k - 1 /\ ~(k <= k - 1)
  BY <1>1, <1>3, <1>4
<1>6. k - 1 \notin T
  <2>. HIDE DEF T
  <2>. QED  BY <1>2, <1>5
<1>7. FrameEnd(g, i) <= FrameEnd(g, k - 1)
  BY <1>5, <1>6
<1>8. FrameEnd(g, k) = FrameEnd(g, k - 1) + Len(g[k]) /\ Len(g[k]) \in Nat /\ FrameEnd(g, k - 1) \in Nat
  BY <1>5, Ends
<1>. QED  BY <1>3, <1>4, <1>7, <1>8

(***************************************************************************)
(* The f-th frame holds the o-th package.  Each is held by one frame.      *)
(***************************************************************************)
Within(g, f, o) == f \in DOMAIN g /\ FrameEnd(g, f - 1) < o /\ o <= FrameEnd(g, f)

LEMMA FrameIsFound ==
  ASSUME NEW S, NEW g \in Seq(Seq(S)), NEW o \in 1 .. Len(FlattenSeq(g))
  PROVE  \E f : Within(g, f, o)
<1>. DEFINE T == {f \in 0 .. Len(g) : o <= FrameEnd(g, f)}
<1>1. Len(g) \in Nat /\ DOMAIN g = 1 .. Len(g)
  BY LenProperties
<1>2. FrameEnd(g, 0) = 0 /\ FrameEnd(g, Len(g)) = Len(FlattenSeq(g))
      /\ \A f \in 0 .. Len(g) : FrameEnd(g, f) \in Nat
  BY Ends
<1>3. Len(g) \in T
  BY <1>1, <1>2
<1>4. PICK f \in T : \A l \in T : f <= l
  <2>1. T \subseteq Nat
    BY <1>1
  <2>. HIDE DEF T
  <2>. QED  BY <1>3, <2>1, Smallest
<1>5. f \in 0 .. Len(g) /\ o <= FrameEnd(g, f)
  OBVIOUS
<1>6. f # 0
  <2>1. FrameEnd(g, Len(g)) \in Nat /\ Len(g) \in 0 .. Len(g)
    BY <1>1, <1>2
  <2>. QED  BY <1>2, <1>5, <2>1
<1>7. f \in 1 .. Len(g) /\ f - 1 \in 0 .. Len(g) /\ ~(f <= f - 1)
  BY <1>1, <1>5, <1>6
<1>8. f - 1 \notin T
  <2>. HIDE DEF T
  <2>. QED  BY <1>4, <1>7
<1>9. ~(o <= FrameEnd(g, f - 1)) /\ FrameEnd(g, f - 1) \in Nat
  BY <1>2, <1>7, <1>8
<1>10. FrameEnd(g, f - 1) < o
  <2>1. o \in Int
    BY <1>1, <1>2
  <2>. QED  BY <1>9, <2>1
<1>. QED  BY <1>1, <1>5, <1>7, <1>10 DEF Within

LEMMA WithinOne ==
  ASSUME NEW S, NEW g \in Seq(Seq(S)), NEW o \in Int, NEW e, NEW f,
         Within(g, e, o), Within(g, f, o)
  PROVE  e = f
<1>1. DOMAIN g = 1 .. Len(g) /\ Len(g) \in Nat
  BY LenProperties
<1>2. e \in 1 .. Len(g) /\ f \in 1 .. Len(g)
  BY <1>1 DEF Within
<1>3. ASSUME NEW a \in 1 .. Len(g), NEW b \in 1 .. Len(g), Within(g, a, o), Within(g, b, o)
      PROVE  ~(a < b)
  <2>. SUFFICES ASSUME a < b PROVE FALSE
    OBVIOUS
  <2>1. a \in 0 .. Len(g) /\ b - 1 \in 0 .. Len(g) /\ a <= b - 1
    BY <1>1, <1>3
  <2>2. FrameEnd(g, a) <= FrameEnd(g, b - 1)
    BY <2>1, EndsRise
  <2>3. o <= FrameEnd(g, a) /\ FrameEnd(g, b - 1) < o
    BY <1>3 DEF Within
  <2>4. FrameEnd(g, a) \in Nat /\ FrameEnd(g, b - 1) \in Nat
    BY <2>1, Ends
  <2>. QED  BY <2>2, <2>3, <2>4
<1>4. ~(e < f) /\ ~(f < e)
  BY <1>2, <1>3
<1>. QED  BY <1>2, <1>4

LEMMA WithinRange ==
  ASSUME NEW S, NEW g \in Seq(Seq(S)), NEW f, NEW o \in Int, Within(g, f, o)
  PROVE  /\ f \in 1 .. Len(g) /\ o \in 1 .. Len(FlattenSeq(g))
         /\ o - FrameEnd(g, f - 1) \in 1 .. Len(g[f])
<1>1. Len(g) \in Nat /\ DOMAIN g = 1 .. Len(g)
  BY LenProperties
<1>2. f \in 1 .. Len(g)
  BY <1>1 DEF Within
<1>3. f - 1 \in 0 .. Len(g) /\ f \in 0 .. Len(g) /\ Len(g) \in 0 .. Len(g) /\ f <= Len(g)
  BY <1>1, <1>2
<1>4. /\ FrameEnd(g, f - 1) \in Nat /\ FrameEnd(g, f) \in Nat
      /\ FrameEnd(g, f) = FrameEnd(g, f - 1) + Len(g[f]) /\ Len(g[f]) \in Nat
      /\ FrameEnd(g, Len(g)) = Len(FlattenSeq(g)) /\ FrameEnd(g, Len(g)) \in Nat
  BY <1>2, <1>3, Ends
<1>5. FrameEnd(g, f) <= FrameEnd(g, Len(g))
  BY <1>3, EndsRise
<1>6. FrameEnd(g, f - 1) < o /\ o <= FrameEnd(g, f)
  BY DEF Within
<1>. HIDE DEF FrameEnd
<1>. QED  BY <1>2, <1>4, <1>5, <1>6

\* Where the k-th package of a frame is.
LEMMA InFrame ==
  ASSUME NEW S, NEW g \in Seq(Seq(S)), NEW f \in 1 .. Len(g), NEW k \in 1 .. Len(g[f])
  PROVE  /\ Within(g, f, FrameEnd(g, f - 1) + k)
         /\ FlattenSeq(g)[FrameEnd(g, f - 1) + k] = g[f][k]
<1>. DEFINE a == SubSeq(g, 1, f - 1)
            x == g[f]
            c == SubSeq(g, f + 1, Len(g))
            n == Len(g)
<1>1. n \in Nat /\ DOMAIN g = 1 .. n
  BY LenProperties
<1>2. x \in Seq(S)
  BY ElementOfSeq
<1>3. f - 1 \in 0 .. n /\ f \in 0 .. n /\ f \in 1 .. n /\ 1 \in 1 .. n
  BY <1>1
<1>4. a \in Seq(Seq(S)) /\ SubSeq(g, 1, f) = a \o <<x>>
  BY <1>3, FirstFrames, SubSeqRecursiveSecond
<1>5. c \in Seq(Seq(S))
  <2>1. \A i \in f + 1 .. n : g[i] \in Seq(S)
    <3>1. \A i \in f + 1 .. n : i \in 1 .. Len(g)
      BY <1>1
    <3>. QED  BY <3>1, ElementOfSeq
  <2>2. f + 1 \in Int /\ n \in Int
    BY <1>1
  <2>. QED  BY <2>1, <2>2, SubSeqProperties
<1>6. g = (a \o <<x>>) \o c
  <2>1. SubSeq(g, 1, f) \o SubSeq(g, f + 1, n) = SubSeq(g, 1, n)
    <3>1. 1 \in 1 .. Len(g) + 1 /\ f \in 1 - 1 .. Len(g) /\ Len(g) \in f .. Len(g)
      BY <1>1
    <3>. QED  BY <3>1, ConcatAdjacentSubSeq
  <2>2. SubSeq(g, 1, n) = g
    BY SubSeqFull
  <2>. QED  BY <1>4, <2>1, <2>2
<1>7. FrameEnd(g, f - 1) = Len(FlattenSeq(a))
  BY DEF FrameEnd
<1>8. Len(x) \in Nat /\ k \in 1 .. Len(x)
  BY <1>2, LenProperties
<1>9. /\ FrameEnd(g, f) = FrameEnd(g, f - 1) + Len(x)
      /\ FrameEnd(g, f - 1) \in Nat
  BY <1>3, Ends
<1>10. Within(g, f, FrameEnd(g, f - 1) + k)
  <2>1. f \in DOMAIN g
    BY <1>1
  <2>. HIDE DEF x, FrameEnd
  <2>. QED  BY <1>8, <1>9, <2>1 DEF Within
<1>. HIDE DEF a, x, c
<1>11. a \o <<x>> \in Seq(Seq(S)) /\ FlattenSeq(a) \in Seq(S) /\ FlattenSeq(c) \in Seq(S)
       /\ FlattenSeq(a \o <<x>>) = FlattenSeq(a) \o x
  <2>1. <<x>> \in Seq(Seq(S))
    BY <1>2
  <2>. QED  BY <1>2, <1>4, <1>5, <2>1, FlattenPlus, ConcatProperties
<1>12. FlattenSeq(g) = (FlattenSeq(a) \o x) \o FlattenSeq(c)
  <2>1. FlattenSeq((a \o <<x>>) \o c) = FlattenSeq(a \o <<x>>) \o FlattenSeq(c)
    BY <1>5, <1>11, FlattenBoth
  <2>. QED  BY <1>6, <1>11, <2>1
<1>. DEFINE u == FlattenSeq(a)
            w == FlattenSeq(c)
            o == Len(u) + k
<1>13. u \in Seq(S) /\ w \in Seq(S) /\ Len(u) \in Nat /\ Len(w) \in Nat
  BY <1>11, LenProperties
<1>. HIDE DEF u, w
<1>14. u \o x \in Seq(S) /\ Len(u \o x) = Len(u) + Len(x)
       /\ \A i \in 1 .. Len(u) + Len(x) : (u \o x)[i] = IF i <= Len(u) THEN u[i] ELSE x[i - Len(u)]
  BY <1>2, <1>13, ConcatProperties
<1>15. \A i \in 1 .. Len(u \o x) + Len(w) :
         ((u \o x) \o w)[i] = IF i <= Len(u \o x) THEN (u \o x)[i] ELSE w[i - Len(u \o x)]
  BY <1>13, <1>14, ConcatProperties
<1>16. o \in 1 .. Len(u) + Len(x) /\ o \in 1 .. (Len(u) + Len(x)) + Len(w) /\ o <= Len(u) + Len(x)
       /\ ~(o <= Len(u)) /\ o - Len(u) = k
  BY <1>8, <1>13
<1>. HIDE DEF o
<1>17. ((u \o x) \o w)[o] = x[k]
  BY <1>14, <1>15, <1>16
<1>. QED  BY <1>7, <1>10, <1>12, <1>17 DEF u, w, o, x

(***************************************************************************)
(* frame_ranges: every package of the buffer is in a frame, in order, and  *)
(* no frame is empty.  f is the function the frames are computed with.     *)
(***************************************************************************)
Places(f, target, packages, n) ==
  f = [k \in 0 .. n |-> IF k = 0 THEN [done |-> << >>, open |-> << >>]
                        ELSE Place(target, f[k - 1], packages[k])]

LEMMA PlacesExist ==
  ASSUME NEW target, NEW packages, NEW n \in Nat
  PROVE  \E f : Places(f, target, packages, n)
<1>. DEFINE T == {m \in Nat : ~ \E f : Places(f, target, packages, m)}
            zero == [done |-> << >>, open |-> << >>]
<1>. SUFFICES ASSUME T # {} PROVE FALSE
  OBVIOUS
<1>1. PICK m \in T : \A k \in T : m <= k
  <2>. HIDE DEF T
  <2>1. T \subseteq Nat
    BY DEF T
  <2>. QED  BY <2>1, Smallest
<1>2. m # 0
  <2>. DEFINE h == [k \in 0 .. 0 |-> zero]
  <2>1. Places(h, target, packages, 0)
    <3>1. h = [k \in 0 .. 0 |-> IF k = 0 THEN zero ELSE Place(target, h[k - 1], packages[k])]
      <4>1. \A k \in 0 .. 0 : k = 0
        OBVIOUS
      <4>. QED  BY <4>1
    <3>. QED  BY <3>1 DEF Places
  <2>. QED  BY <2>1
<1>3. m \in Nat /\ m - 1 \in Nat /\ m - 1 \notin T
  BY <1>1, <1>2
<1>4. PICK f : Places(f, target, packages, m - 1)
  BY <1>3
<1>. DEFINE h == [k \in 0 .. m |-> IF k = 0 THEN zero ELSE Place(target, f[k - 1], packages[k])]
<1>5. \A k \in 0 .. m - 1 : h[k] = f[k]
  <2>. SUFFICES ASSUME NEW k \in 0 .. m - 1 PROVE h[k] = f[k]
    OBVIOUS
  <2>1. k \in 0 .. m
    BY <1>3
  <2>2. h[k] = IF k = 0 THEN zero ELSE Place(target, f[k - 1], packages[k])
    BY <2>1
  <2>3. f[k] = IF k = 0 THEN zero ELSE Place(target, f[k - 1], packages[k])
    BY <1>4 DEF Places
  <2>. QED  BY <2>2, <2>3
<1>6. Places(h, target, packages, m)
  <2>1. h = [k \in 0 .. m |-> h[k]]
    OBVIOUS
  <2>2. ASSUME NEW k \in 0 .. m
        PROVE  h[k] = IF k = 0 THEN zero ELSE Place(target, h[k - 1], packages[k])
    <3>1. CASE k = 0
      BY <3>1
    <3>2. CASE k # 0
      <4>1. k - 1 \in 0 .. m - 1
        BY <1>3, <3>2
      <4>2. h[k] = Place(target, f[k - 1], packages[k])
        BY <3>2
      <4>. QED  BY <1>5, <3>2, <4>1, <4>2
    <3>. QED  BY <3>1, <3>2
  <2>. HIDE DEF h
  <2>. QED  BY <2>1, <2>2 DEF Places
<1>. QED  BY <1>1, <1>6

LEMMA FlattenIn ==
  ASSUME NEW S, NEW g \in Seq(Seq(S))
  PROVE  FlattenSeq(g) \in Seq(S)
<1>1. << >> \in Seq(S)
  BY EmptySeq
<1>. QED  BY <1>1, FlattenPlus

LEMMA AppendedFrame ==
  ASSUME NEW S, NEW g \in Seq(Seq(S)), NEW x \in Seq(S)
  PROVE  /\ Append(g, x) \in Seq(Seq(S)) /\ Len(Append(g, x)) = Len(g) + 1
         /\ \A i \in 1 .. Len(g) : Append(g, x)[i] = g[i]
         /\ Append(g, x)[Len(g) + 1] = x
         /\ FlattenSeq(Append(g, x)) = FlattenSeq(g) \o x
<1>. DEFINE Q == Seq(S)
<1>1. g \in Seq(Q) /\ x \in Q
  OBVIOUS
<1>. HIDE DEF Q
<1>2. /\ Append(g, x) \in Seq(Q) /\ Len(Append(g, x)) = Len(g) + 1
      /\ \A i \in 1 .. Len(g) : Append(g, x)[i] = g[i]
      /\ Append(g, x)[Len(g) + 1] = x
  BY <1>1, AppendProperties
<1>3. Append(g, x) = g \o <<x>>
  BY <1>1, AppendIsConcat
<1>4. FlattenSeq(g \o <<x>>) = FlattenSeq(g) \o x
  BY FlattenPlus
<1>. QED  BY <1>2, <1>3, <1>4 DEF Q

\* After the first n packages: the frames done, and the open one.
Placed(S, r, packages, n) ==
  /\ r.done \in Seq(Seq(S)) /\ r.open \in Seq(S)
  /\ FlattenSeq(r.done) \o r.open = SubSeq(packages, 1, n)
  /\ \A f \in 1 .. Len(r.done) : Len(r.done[f]) >= 1

LEMMA PlacedSoFar ==
  ASSUME NEW S, NEW d, NEW o, NEW packages, NEW n,
         d \in Seq(Seq(S)), o \in Seq(S), FlattenSeq(d) \o o = SubSeq(packages, 1, n),
         \A f \in 1 .. Len(d) : Len(d[f]) >= 1
  PROVE  Placed(S, [done |-> d, open |-> o], packages, n)
<1>. DEFINE r == [done |-> d, open |-> o]
<1>1. r.done = d /\ r.open = o
  OBVIOUS
<1>. HIDE DEF r
<1>2. Placed(S, r, packages, n)
  BY <1>1 DEF Placed
<1>. QED  BY <1>2 DEF r

LEMMA PlaceOne ==
  ASSUME NEW S, NEW target, NEW packages \in Seq(S), NEW n \in 1 .. Len(packages), NEW r,
         Placed(S, r, packages, n - 1)
  PROVE  Placed(S, Place(target, r, packages[n]), packages, n)
<1>. DEFINE d == r.done
            b == r.open
            p == packages[n]
            s == Append(b, p)
<1>1. d \in Seq(Seq(S)) /\ b \in Seq(S) /\ FlattenSeq(d) \o b = SubSeq(packages, 1, n - 1)
      /\ \A f \in 1 .. Len(d) : Len(d[f]) >= 1
  BY DEF Placed
<1>types. d \in Seq(Seq(S)) /\ b \in Seq(S)
  BY <1>1
<1>2. p \in S
  BY ElementOfSeq
<1>3. Len(packages) \in Nat /\ 1 \in 1 .. Len(packages)
  BY LenProperties
<1>4. SubSeq(packages, 1, n) = SubSeq(packages, 1, n - 1) \o <<p>>
  BY <1>3, SubSeqRecursiveSecond
<1>. HIDE DEF d, b, p
<1>5. s \in Seq(S) /\ s = b \o <<p>> /\ Len(s) >= 1
  BY <1>1, <1>2, AppendProperties, AppendIsConcat
<1>own. s \in Seq(S)
  BY <1>5
<1>6. FlattenSeq(d) \o s = SubSeq(packages, 1, n)
  <2>. DEFINE u == FlattenSeq(d)
  <2>1. u \in Seq(S)
    BY <1>types, FlattenIn
  <2>. HIDE DEF u
  <2>2. (u \o b) \o <<p>> = u \o (b \o <<p>>)
    <3>. DEFINE t == <<p>>
    <3>1. u \in Seq(S) /\ b \in Seq(S) /\ t \in Seq(S)
      BY <1>2, <1>types, <2>1
    <3>. HIDE DEF t
    <3>2. Then(Then(u, b), t) = Then(u, Then(b, t))
      BY <3>1, Regroup
    <3>. QED  BY <3>2 DEF t, Then
  <2>. QED  BY <1>1, <1>4, <1>5, <2>2 DEF u
<1>. HIDE DEF s
<1>7. CASE Size(s) >= target
  <2>. DEFINE D == Append(d, s)
  <2>1. D \in Seq(Seq(S)) /\ Len(D) = Len(d) + 1
        /\ (\A f \in 1 .. Len(d) : D[f] = d[f]) /\ D[Len(d) + 1] = s
        /\ FlattenSeq(D) = FlattenSeq(d) \o s
    BY <1>types, <1>own, AppendedFrame
  <2>. HIDE DEF D
  <2>2. FlattenSeq(D) = FlattenSeq(d) \o s
    BY <2>1
  <2>3. FlattenSeq(D) \in Seq(S) /\ << >> \in Seq(S)
    BY <2>1, FlattenIn, EmptySeq
  <2>4. FlattenSeq(D) \o << >> = SubSeq(packages, 1, n)
    BY <1>6, <2>2, <2>3, ConcatEmptySeq
  <2>5. \A f \in 1 .. Len(D) : Len(D[f]) >= 1
    <3>. SUFFICES ASSUME NEW f \in 1 .. Len(D) PROVE Len(D[f]) >= 1
      OBVIOUS
    <3>1. Len(d) \in Nat
      BY <1>1, LenProperties
    <3>2. f \in 1 .. Len(d) \/ f = Len(d) + 1
      BY <2>1, <3>1
    <3>. QED  BY <1>1, <1>5, <2>1, <3>2
  <2>6. Place(target, r, packages[n]) = [done |-> D, open |-> << >>]
    BY <1>7 DEF Place, D, s, d, b, p
  <2>. QED  BY <2>1, <2>3, <2>4, <2>5, <2>6, PlacedSoFar
<1>8. CASE ~(Size(s) >= target)
  <2>1. Place(target, r, packages[n]) = [done |-> d, open |-> s]
    BY <1>8 DEF Place, s, d, b, p
  <2>. QED  BY <1>1, <1>5, <1>6, <2>1, PlacedSoFar
<1>. QED  BY <1>7, <1>8

LEMMA RangesHoldAll ==
  ASSUME NEW S, NEW packages \in Seq(S)
  PROVE  /\ FrameRanges(packages) \in Seq(Seq(S))
         /\ FlattenSeq(FrameRanges(packages)) = packages
         /\ \A f \in 1 .. Len(FrameRanges(packages)) : Len(FrameRanges(packages)[f]) >= 1
<1>. DEFINE share == Size(packages) \div parallelism
            target == IF share = 0 THEN 1 ELSE share
            n == Len(packages)
            Result(f) == IF f[n].open = << >> THEN f[n].done ELSE Append(f[n].done, f[n].open)
<1>1. n \in Nat
  BY LenProperties
<1>2. PICK f : Places(f, target, packages, n) /\ FrameRanges(packages) = Result(f)
  <2>1. \E f : f = [k \in 0 .. Len(packages) |->
                      IF k = 0 THEN [done |-> << >>, open |-> << >>]
                      ELSE Place(target, f[k - 1], packages[k])]
    <3>1. \E f : Places(f, target, packages, n)
      BY <1>1, PlacesExist
    <3>. QED  BY <3>1 DEF Places
  <2>2. \E f : /\ f = [k \in 0 .. Len(packages) |->
                         IF k = 0 THEN [done |-> << >>, open |-> << >>]
                         ELSE Place(target, f[k - 1], packages[k])]
               /\ FrameRanges(packages) = Result(f)
    BY <2>1, Zenon DEF FrameRanges
  <2>. QED  BY <2>2 DEF Places
<1>. HIDE DEF target
<1>. DEFINE T == {k \in 0 .. n : ~Placed(S, f[k], packages, k)}
<1>3. T = {}
  <2>. SUFFICES ASSUME T # {} PROVE FALSE
    OBVIOUS
  <2>1. PICK k \in T : \A l \in T : k <= l
    <3>1. T \subseteq Nat
      BY <1>1
    <3>. HIDE DEF T
    <3>. QED  BY <3>1, Smallest
  <2>2. k \in 0 .. n /\ ~Placed(S, f[k], packages, k)
    OBVIOUS
  <2>3. f[k] = IF k = 0 THEN [done |-> << >>, open |-> << >>] ELSE Place(target, f[k - 1], packages[k])
    BY <1>2, <2>2 DEF Places
  <2>4. CASE k = 0
    <3>1. SubSeq(packages, 1, 0) = << >>
      BY SubSeqEmpty
    <3>2. << >> \in Seq(S) /\ << >> \in Seq(Seq(S)) /\ << >> \o << >> = << >> /\ Len(<< >>) = 0
      <4>1. << >> \in Seq(S) /\ << >> \in Seq(Seq(S)) /\ Len(<< >>) = 0
        BY EmptySeq
      <4>. QED  BY <4>1, ConcatEmptySeq
    <3>3. FlattenSeq(<< >>) = << >>
      BY FlattenNone
    <3>4. Placed(S, [done |-> << >>, open |-> << >>], packages, 0)
      <4>1. FlattenSeq(<< >>) \o << >> = SubSeq(packages, 1, 0)
        BY <3>1, <3>2, <3>3
      <4>2. \A i \in 1 .. 0 : FALSE
        OBVIOUS
      <4>3. \A i \in 1 .. Len(<< >>) : Len(<< >>[i]) >= 1
        BY <3>2, <4>2
      <4>. QED  BY <3>2, <4>1, <4>3, PlacedSoFar
    <3>. QED  BY <2>2, <2>3, <2>4, <3>4
  <2>5. CASE k # 0
    <3>1. k \in 1 .. Len(packages) /\ k - 1 \in 0 .. n /\ ~(k <= k - 1)
      BY <1>1, <2>2, <2>5
    <3>2. k - 1 \notin T
      <4>. HIDE DEF T
      <4>. QED  BY <2>1, <3>1
    <3>3. Placed(S, f[k - 1], packages, k - 1)
      BY <3>1, <3>2
    <3>4. Placed(S, Place(target, f[k - 1], packages[k]), packages, k)
      BY <3>1, <3>3, PlaceOne
    <3>. QED  BY <2>2, <2>3, <2>5, <3>4
  <2>. QED  BY <2>4, <2>5
<1>4. Placed(S, f[n], packages, n)
  <2>1. n \in 0 .. n
    BY <1>1
  <2>. QED  BY <1>3, <2>1
<1>. DEFINE d == f[n].done
            b == f[n].open
<1>5. /\ d \in Seq(Seq(S)) /\ b \in Seq(S) /\ FlattenSeq(d) \o b = packages
      /\ \A i \in 1 .. Len(d) : Len(d[i]) >= 1
  <2>1. SubSeq(packages, 1, n) = packages
    BY SubSeqFull
  <2>. QED  BY <1>4, <2>1 DEF Placed
<1>6. FrameRanges(packages) = IF b = << >> THEN d ELSE Append(d, b)
  BY <1>2
<1>. HIDE DEF d, b
<1>7. CASE b = << >>
  <2>1. FlattenSeq(d) \in Seq(S)
    BY <1>5, FlattenIn
  <2>2. FlattenSeq(d) = packages
    BY <1>5, <1>7, <2>1, ConcatEmptySeq
  <2>. QED  BY <1>5, <1>6, <1>7, <2>2
<1>8. CASE b # << >>
  <2>. DEFINE D == Append(d, b)
  <2>1. D \in Seq(Seq(S)) /\ Len(D) = Len(d) + 1
        /\ (\A i \in 1 .. Len(d) : D[i] = d[i]) /\ D[Len(d) + 1] = b
        /\ FlattenSeq(D) = FlattenSeq(d) \o b
    <3>1. d \in Seq(Seq(S)) /\ b \in Seq(S)
      BY <1>5
    <3>. QED  BY <3>1, AppendedFrame
  <2>2. Len(b) >= 1 /\ Len(d) \in Nat
    BY <1>5, <1>8, EmptySeq, LenProperties
  <2>3. FrameRanges(packages) = D
    BY <1>6, <1>8
  <2>. HIDE DEF D
  <2>4. FlattenSeq(D) = packages
    BY <1>5, <2>1
  <2>5. \A i \in 1 .. Len(D) : Len(D[i]) >= 1
    <3>. SUFFICES ASSUME NEW i \in 1 .. Len(D) PROVE Len(D[i]) >= 1
      OBVIOUS
    <3>1. i \in 1 .. Len(d) \/ i = Len(d) + 1
      BY <2>1, <2>2
    <3>. QED  BY <1>5, <2>1, <2>2, <3>1
  <2>. QED  BY <2>1, <2>3, <2>4, <2>5
<1>. QED  BY <1>7, <1>8

(***************************************************************************)
(* Each ordinal is mapped to the frame that holds its package.             *)
(***************************************************************************)
Maps(map, g) ==
  /\ Len(map) = Len(FlattenSeq(g))
  /\ \A o \in 1 .. Len(map) : Within(g, map[o] + 1, o)

LEMMA WiderSeq ==
  ASSUME NEW A, NEW B, A \subseteq B
  PROVE  Seq(A) \subseteq Seq(B) /\ Seq(Seq(A)) \subseteq Seq(Seq(B))
<1>1. Seq(A) \subseteq Seq(B)
  BY SeqMonotonic
<1>. QED  BY <1>1, SeqMonotonic

LEMMA Shifted ==
  ASSUME NEW a \in Int, NEW b \in Int, NEW j \in Int, NEW n \in Int, a < j, j <= b
  PROVE  n + a < n + j /\ n + j <= n + b
OBVIOUS

LEMMA Before ==
  ASSUME NEW a \in Nat, NEW p \in Nat, NEW q \in Nat, a + 1 \in 1 .. p
  PROVE  a + 1 \in 0 .. p /\ (a + 1) - 1 \in 0 .. p /\ a + 1 \in 1 .. p + q
OBVIOUS

\* The entries of a new chunk go after those of the frames before it.
LEMMA MapGrows ==
  ASSUME NEW S, NEW g \in Seq(Seq(S)), NEW h \in Seq(Seq(S)), NEW map \in Seq(Nat), Maps(map, g)
  PROVE  /\ map \o ChunkMap(h, Len(g)) \in Seq(Nat)
         /\ Maps(map \o ChunkMap(h, Len(g)), g \o h)
         /\ \A j \in 1 .. Len(FlattenSeq(h)) :
              /\ Len(map) + j \in 1 .. Len(map \o ChunkMap(h, Len(g)))
              /\ (map \o ChunkMap(h, Len(g)))[Len(map) + j] >= Len(g)
<1>. DEFINE m == Len(FlattenSeq(h))
            n == Len(map)
            c == ChunkMap(h, Len(g))
            all == map \o c
<1>1. FlattenSeq(h) \in Seq(S) /\ FlattenSeq(g) \in Seq(S) /\ m \in Nat /\ Len(g) \in Nat /\ n \in Nat
      /\ n = Len(FlattenSeq(g)) /\ Len(h) \in Nat
  BY FlattenIn, LenProperties DEF Maps
<1>2. ASSUME NEW j \in 1 .. m
      PROVE  /\ Within(h, FrameOf(h, j), j) /\ FrameOf(h, j) \in 1 .. Len(h)
             /\ c[j] = Len(g) + FrameOf(h, j) - 1 /\ c[j] \in Nat
  <2>1. \E f : Within(h, f, j)
    BY FrameIsFound
  <2>2. \E f \in DOMAIN h : FrameEnd(h, f - 1) < j /\ j <= FrameEnd(h, f)
    BY <2>1 DEF Within
  <2>3. Within(h, FrameOf(h, j), j)
    BY <2>2 DEF Within, FrameOf
  <2>4. FrameOf(h, j) \in 1 .. Len(h)
    BY <2>3, WithinRange
  <2>5. c[j] = Len(g) + FrameOf(h, j) - 1
    BY DEF ChunkMap
  <2>. QED  BY <1>1, <2>3, <2>4, <2>5
<1>3. c \in Seq(Nat) /\ Len(c) = m
  <2>0. c = [j \in 1 .. m |-> Len(g) + FrameOf(h, j) - 1]
    BY DEF ChunkMap
  <2>. HIDE DEF c, m
  <2>1. c \in [1 .. m -> Nat]
    BY <1>2, <2>0
  <2>2. c \in Seq(Nat)
    BY <1>1, <2>1, SeqDef
  <2>3. DOMAIN c = 1 .. m /\ Len(c) \in Nat /\ DOMAIN c = 1 .. Len(c)
    BY <2>1, <2>2, LenProperties
  <2>. HIDE DEF c, m
  <2>. QED  BY <1>1, <2>2, <2>3
<1>. HIDE DEF c
<1>4. all \in Seq(Nat) /\ Len(all) = n + m
      /\ \A i \in 1 .. n + m : all[i] = IF i <= n THEN map[i] ELSE c[i - n]
  <2>1. all \in Seq(Nat) /\ Len(all) = n + Len(c)
        /\ \A i \in 1 .. n + Len(c) : all[i] = IF i <= n THEN map[i] ELSE c[i - n]
    BY <1>3, ConcatProperties
  <2>. QED  BY <1>3, <2>1
<1>5. g \o h \in Seq(Seq(S)) /\ Len(g \o h) = Len(g) + Len(h)
      /\ (\A f \in 0 .. Len(g) : FrameEnd(g \o h, f) = FrameEnd(g, f))
      /\ (\A f \in 0 .. Len(h) : FrameEnd(g \o h, Len(g) + f) = n + FrameEnd(h, f))
  BY <1>1, EndsOfBoth
<1>6. Len(FlattenSeq(g \o h)) = n + m
  <2>1. FlattenSeq(g \o h) = FlattenSeq(g) \o FlattenSeq(h)
    BY FlattenBoth
  <2>. QED  BY <1>1, <2>1, ConcatProperties
<1>. HIDE DEF m, n, all
<1>7. DOMAIN (g \o h) = 1 .. Len(g) + Len(h)
  BY <1>5, LenProperties
<1>8. \A f \in 1 .. Len(h) : FrameEnd(h, f - 1) \in Int /\ FrameEnd(h, f) \in Int
  <2>1. \A f \in 0 .. Len(h) : FrameEnd(h, f) \in Nat
    BY Ends
  <2>2. \A f \in 1 .. Len(h) : f - 1 \in 0 .. Len(h) /\ f \in 0 .. Len(h)
    BY <1>1
  <2>. QED  BY <2>1, <2>2
<1>9. ASSUME NEW o \in 1 .. n + m
      PROVE  Within(g \o h, all[o] + 1, o)
  <2>1. CASE o <= n
    <3>1. all[o] = map[o] /\ o \in 1 .. n /\ o \in Int
      BY <1>1, <1>4, <2>1
    <3>5. map[o] \in Nat
      BY <3>1, ElementOfSeq DEF n
    <3>2. Within(g, map[o] + 1, o)
      BY <3>1 DEF Maps, n
    <3>3. map[o] + 1 \in 1 .. Len(g)
      BY <3>1, <3>2, WithinRange
    <3>4. map[o] + 1 \in 0 .. Len(g) /\ (map[o] + 1) - 1 \in 0 .. Len(g)
          /\ map[o] + 1 \in 1 .. Len(g) + Len(h)
      <4>1. Len(g) \in Nat /\ Len(h) \in Nat
        BY <1>1
      <4>. QED  BY <4>1, <3>3, <3>5, Before
    <3>. QED  BY <1>5, <1>7, <3>1, <3>2, <3>4 DEF Within
  <2>2. CASE ~(o <= n)
    <3>. DEFINE j == o - n
                f == FrameOf(h, j)
    <3>1. j \in 1 .. m /\ all[o] = c[j] /\ o = n + j
      BY <1>1, <1>4, <2>2
    <3>. HIDE DEF j
    <3>2. Within(h, f, j) /\ f \in 1 .. Len(h) /\ c[j] = Len(g) + f - 1
      BY <1>2, <3>1
    <3>. HIDE DEF f
    <3>3. FrameEnd(h, f - 1) < j /\ j <= FrameEnd(h, f)
      BY <3>2 DEF Within
    <3>4. f - 1 \in 0 .. Len(h) /\ f \in 0 .. Len(h) /\ all[o] + 1 = Len(g) + f
          /\ (all[o] + 1) - 1 = Len(g) + (f - 1) /\ Len(g) + f \in 1 .. Len(g) + Len(h)
      BY <1>1, <3>1, <3>2
    <3>5. FrameEnd(g \o h, all[o] + 1) = n + FrameEnd(h, f)
          /\ FrameEnd(g \o h, (all[o] + 1) - 1) = n + FrameEnd(h, f - 1)
      BY <1>5, <3>4
    <3>6. FrameEnd(g \o h, (all[o] + 1) - 1) < o /\ o <= FrameEnd(g \o h, all[o] + 1)
      <4>1. j \in Int /\ n \in Int
        BY <1>1, <3>1
      <4>2. FrameEnd(h, f - 1) \in Int /\ FrameEnd(h, f) \in Int
        BY <1>8, <3>2
      <4>3. n + FrameEnd(h, f - 1) < n + j /\ n + j <= n + FrameEnd(h, f)
        BY <3>3, <4>1, <4>2, Shifted
      <4>. QED  BY <3>1, <3>5, <4>3
    <3>. QED  BY <1>7, <3>4, <3>6 DEF Within
  <2>. QED  BY <2>1, <2>2
<1>10. Maps(all, g \o h)
  BY <1>4, <1>6, <1>9 DEF Maps
<1>11. ASSUME NEW j \in 1 .. m
       PROVE  n + j \in 1 .. Len(all) /\ all[n + j] >= Len(g)
  <2>1. n + j \in 1 .. n + m /\ ~(n + j <= n) /\ (n + j) - n = j
    BY <1>1
  <2>2. all[n + j] = c[j]
    BY <1>4, <2>1
  <2>3. FrameOf(h, j) \in 1 .. Len(h) /\ c[j] = Len(g) + FrameOf(h, j) - 1
    BY <1>2
  <2>4. c[j] >= Len(g)
    BY <1>1, <2>3
  <2>. QED  BY <1>4, <2>1, <2>2, <2>4
<1>. QED  BY <1>4, <1>10, <1>11 DEF all, c, m, n

LEMMA NoLess ==
  ASSUME NEW a \in Nat, NEW b \in Nat, a + 1 = b + 1
  PROVE  a >= b
OBVIOUS

\* With a frame still to write, the map goes beyond those written.
LEMMA MapAhead ==
  ASSUME NEW S, NEW g \in Seq(Seq(S)), NEW h \in Seq(Seq(S)), NEW map \in Seq(Nat),
         Maps(map, g \o h), Len(h) >= 1, Len(h[1]) >= 1
  PROVE  \E o \in 1 .. Len(map) : map[o] >= Len(g)
<1>. DEFINE w == g \o h
            f == Len(g) + 1
            o == FrameEnd(w, f - 1) + 1
<1>1. Len(g) \in Nat /\ Len(h) \in Nat /\ w \in Seq(Seq(S)) /\ Len(w) = Len(g) + Len(h)
      /\ \A i \in 1 .. Len(g) + Len(h) : w[i] = IF i <= Len(g) THEN g[i] ELSE h[i - Len(g)]
  BY LenProperties, ConcatProperties
<1>2. f \in 1 .. Len(w) /\ w[f] = h[1]
  <2>1. f \in 1 .. Len(g) + Len(h) /\ ~(f <= Len(g)) /\ f - Len(g) = 1
    BY <1>1
  <2>. QED  BY <1>1, <2>1
<1>. HIDE DEF w, f
<1>3. 1 \in 1 .. Len(w[f])
  <2>1. 1 \in 1 .. Len(h) /\ h[1] \in Seq(S)
    BY <1>1, ElementOfSeq
  <2>2. Len(h[1]) \in Nat
    BY <2>1, LenProperties
  <2>. QED  BY <1>2, <2>2
<1>4. Within(w, f, o)
  BY <1>1, <1>2, <1>3, InFrame
<1>5. o \in Int
  <2>1. f - 1 \in 0 .. Len(w)
    BY <1>1, <1>2
  <2>2. \A e \in 0 .. Len(w) : FrameEnd(w, e) \in Nat
    BY <1>1, Ends
  <2>. QED  BY <2>1, <2>2
<1>. HIDE DEF o
<1>6. o \in 1 .. Len(map)
  BY <1>1, <1>4, <1>5, WithinRange DEF Maps, w
<1>7. Within(w, map[o] + 1, o) /\ map[o] \in Nat
  BY <1>6, ElementOfSeq DEF Maps, w
<1>8. map[o] + 1 = f
  BY <1>1, <1>4, <1>5, <1>7, WithinOne
<1>9. map[o] >= Len(g)
  <2>1. map[o] \in Nat /\ Len(g) \in Nat /\ map[o] + 1 = Len(g) + 1
    BY <1>1, <1>7, <1>8 DEF f
  <2>. QED  BY <2>1, NoLess
<1>. QED  BY <1>6, <1>9

LEMMA OneLess ==
  ASSUME NEW n \in Nat, n >= 1
  PROVE  (IF 2 <= n THEN n - 2 + 1 ELSE 0) = n - 1 /\ n - 2 + 1 = n - 1
OBVIOUS

\* The first frame to write goes to the end of the file.
LEMMA FrameMoves ==
  ASSUME NEW S, NEW g \in Seq(Seq(S)), NEW h \in Seq(Seq(S))
  PROVE  h # << >> =>
         /\ Append(g, h[1]) \in Seq(Seq(S)) /\ RemoveAt(h, 1) \in Seq(Seq(S))
         /\ Append(g, h[1]) \o RemoveAt(h, 1) = g \o h
         /\ Len(RemoveAt(h, 1)) = Len(h) - 1
         /\ \A f \in 1 .. Len(h) - 1 : RemoveAt(h, 1)[f] = h[f + 1]
<1>. HAVE h # << >>
<1>. DEFINE Q == Seq(S)
            x == h[1]
            r == SubSeq(h, 2, Len(h))
<1>0. g \in Seq(Q) /\ h \in Seq(Q)
  OBVIOUS
<1>. HIDE DEF Q
<1>1. Len(h) \in Nat /\ Len(h) >= 1 /\ 1 \in 1 .. Len(h)
  BY <1>0, EmptySeq
<1>2. x \in Q
  BY <1>0, <1>1, ElementOfSeq
<1>3. r \in Seq(Q) /\ Len(r) = Len(h) - 1 /\ \A f \in 1 .. Len(h) - 1 : r[f] = h[f + 1]
  <2>1. \A i \in 2 .. Len(h) : h[i] \in Q
    <3>1. \A i \in 2 .. Len(h) : i \in 1 .. Len(h)
      BY <1>1
    <3>. QED  BY <1>0, <3>1, ElementOfSeq
  <2>2. 2 \in Int /\ Len(h) \in Int
    BY <1>1
  <2>3. /\ r \in Seq(Q)
        /\ Len(r) = IF 2 <= Len(h) THEN Len(h) - 2 + 1 ELSE 0
        /\ \A i \in 1 .. Len(h) - 2 + 1 : r[i] = h[2 + i - 1]
    BY <2>1, <2>2, SubSeqProperties
  <2>4. (IF 2 <= Len(h) THEN Len(h) - 2 + 1 ELSE 0) = Len(h) - 1 /\ Len(h) - 2 + 1 = Len(h) - 1
    BY <1>1, OneLess
  <2>5. \A f \in 1 .. Len(h) - 1 : 2 + f - 1 = f + 1
    BY <1>1
  <2>. HIDE DEF r
  <2>. QED  BY <2>3, <2>4, <2>5
<1>4. RemoveAt(h, 1) = r
  <2>1. RemoveAt(h, 1) = SubSeq(h, 1, 0) \o r
    BY DEF RemoveAt
  <2>2. SubSeq(h, 1, 0) = << >>
    BY SubSeqEmpty
  <2>3. << >> \o r = r
    BY <1>3, ConcatEmptySeq
  <2>. QED  BY <2>1, <2>2, <2>3
<1>5. h = <<x>> \o r
  <2>1. SubSeq(h, 1, Len(h)) = <<x>> \o r
    BY <1>0, <1>1, SubSeqRecursiveFirst
  <2>2. SubSeq(h, 1, Len(h)) = h
    BY <1>0, SubSeqFull
  <2>. QED  BY <2>1, <2>2
<1>. HIDE DEF x, r
<1>6. Append(g, x) \in Seq(Q) /\ Append(g, x) = g \o <<x>> /\ <<x>> \in Seq(Q)
  BY <1>0, <1>2, AppendProperties, AppendIsConcat
<1>7. Then(Then(g, <<x>>), r) = Then(g, Then(<<x>>, r))
  <2>. DEFINE t == <<x>>
  <2>1. g \in Seq(Q) /\ t \in Seq(Q) /\ r \in Seq(Q)
    BY <1>0, <1>3, <1>6
  <2>. HIDE DEF t
  <2>2. Then(Then(g, t), r) = Then(g, Then(t, r))
    BY <2>1, Regroup
  <2>. QED  BY <2>2 DEF t
<1>8. (g \o <<x>>) \o r = g \o (<<x>> \o r)
  BY <1>7 DEF Then
<1>. QED  BY <1>3, <1>4, <1>5, <1>6, <1>8 DEF Q, x

\* The packages of frames g and h and of the buffer r begin with those of g.
Laid(g, h, r) == FlattenSeq(g \o h) \o r
Begins(S, g, all) == \E rest \in Seq(S) : all = FlattenSeq(g) \o rest
LEMMA FileBegins ==
  ASSUME NEW S, NEW g \in Seq(Seq(S)), NEW h \in Seq(Seq(S)), NEW r \in Seq(S)
  PROVE  Begins(S, g, Laid(g, h, r))
<1>1. FlattenSeq(g) \in Seq(S) /\ FlattenSeq(h) \in Seq(S)
  BY FlattenIn
<1>2. FlattenSeq(g \o h) = FlattenSeq(g) \o FlattenSeq(h)
  BY FlattenBoth
<1>3. \A c \in Seq(S) : Then(Then(FlattenSeq(g), FlattenSeq(h)), c)
                         = Then(FlattenSeq(g), Then(FlattenSeq(h), c))
  BY <1>1, Regroup
<1>4. FlattenSeq(h) \o r \in Seq(S)
  BY <1>1, ConcatProperties
<1>5. Laid(g, h, r) = FlattenSeq(g) \o (FlattenSeq(h) \o r)
  BY <1>2, <1>3 DEF Then, Laid
<1>. QED  BY <1>4, <1>5 DEF Begins

(***************************************************************************)
(* The packages in order: of none, of one more listing, and of the first   *)
(* part of a sequence.                                                     *)
(***************************************************************************)
LEMMA InOrderNone == InOrder(<< >>, 0)
<1>1. \A i \in 1 .. 0 : FALSE
  OBVIOUS
<1>2. DOMAIN << >> = 1 .. 0
  OBVIOUS
<1>. QED  BY <1>1, <1>2 DEF InOrder, ToSet

LEMMA InOrderNext ==
  ASSUME NEW n \in Nat, NEW s \in Seq(Nat), InOrder(s, n),
         NEW t, t = IF sizes[n + 1] > 0 THEN Append(s, n + 1) ELSE s
  PROVE  InOrder(t, n + 1)
<1>1. DOMAIN s = 1 .. Len(s) /\ Len(s) \in Nat
  BY LenProperties
<1>2. ToSet(s) = {k \in 1 .. n : sizes[k] > 0} /\ \A i, j \in DOMAIN s : i < j => s[i] < s[j]
  BY DEF InOrder
<1>3. \A k \in 1 .. n + 1 : k \in 1 .. n \/ k = n + 1
  OBVIOUS
<1>4. 1 .. n \subseteq 1 .. n + 1 /\ n + 1 \in 1 .. n + 1
  OBVIOUS
<1>5. CASE sizes[n + 1] > 0
  <2>1. t \in Seq(Nat) /\ Len(t) = Len(s) + 1 /\ (\A i \in 1 .. Len(s) : t[i] = s[i])
        /\ t[Len(s) + 1] = n + 1
    BY <1>5, AppendProperties
  <2>2. DOMAIN t = 1 .. Len(s) + 1
    BY <2>1, LenProperties
  <2>3. \A i \in 1 .. Len(s) + 1 : i \in 1 .. Len(s) \/ i = Len(s) + 1
    BY <1>1
  <2>4. 1 .. Len(s) \subseteq 1 .. Len(s) + 1 /\ Len(s) + 1 \in 1 .. Len(s) + 1
    BY <1>1
  <2>5. ToSet(t) = ToSet(s) \cup {n + 1}
    BY <1>1, <2>1, <2>2, <2>3, <2>4 DEF ToSet
  <2>6. {k \in 1 .. n + 1 : sizes[k] > 0} = {k \in 1 .. n : sizes[k] > 0} \cup {n + 1}
    BY <1>3, <1>4, <1>5
  <2>7. ASSUME NEW i \in DOMAIN t, NEW j \in DOMAIN t, i < j
        PROVE  t[i] < t[j]
    <3>1. i \in 1 .. Len(s) /\ t[i] = s[i]
      BY <1>1, <2>1, <2>2, <2>3, <2>7
    <3>2. s[i] \in 1 .. n
      BY <1>1, <1>2, <3>1 DEF ToSet
    <3>3. CASE j \in 1 .. Len(s)
      BY <1>1, <1>2, <2>1, <2>7, <3>1, <3>3
    <3>4. CASE j = Len(s) + 1
      BY <2>1, <3>1, <3>2, <3>4
    <3>. QED  BY <2>2, <2>3, <3>3, <3>4
  <2>. QED  BY <1>2, <2>5, <2>6, <2>7 DEF InOrder
<1>6. CASE ~(sizes[n + 1] > 0)
  <2>1. {k \in 1 .. n + 1 : sizes[k] > 0} = {k \in 1 .. n : sizes[k] > 0}
    BY <1>3, <1>4, <1>6
  <2>. QED  BY <1>2, <1>6, <2>1 DEF InOrder
<1>. QED  BY <1>5, <1>6

LEMMA InOrderFirst ==
  ASSUME NEW n \in Nat, NEW a \in Seq(Nat), NEW b \in Seq(Nat), InOrder(a \o b, n)
  PROVE  \E m \in 0 .. n : InOrder(a, m)
<1>. DEFINE s == a \o b
            l == Len(a)
<1>1. l \in Nat /\ Len(b) \in Nat /\ s \in Seq(Nat) /\ Len(s) = l + Len(b)
      /\ \A i \in 1 .. l + Len(b) : s[i] = IF i <= l THEN a[i] ELSE b[i - l]
  BY LenProperties, ConcatProperties
<1>2. DOMAIN s = 1 .. l + Len(b) /\ DOMAIN a = 1 .. l
  BY <1>1, LenProperties
<1>3. ToSet(s) = {k \in 1 .. n : sizes[k] > 0} /\ \A i, j \in DOMAIN s : i < j => s[i] < s[j]
  BY DEF InOrder
<1>. HIDE DEF s, l
<1>4. 1 .. l \subseteq 1 .. l + Len(b) /\ \A i \in 1 .. l : a[i] = s[i]
  BY <1>1
<1>5. \A i, j \in DOMAIN a : i < j => a[i] < a[j]
  BY <1>2, <1>3, <1>4
<1>6. \A i \in 1 .. l : a[i] \in 1 .. n /\ sizes[a[i]] > 0
  BY <1>2, <1>3, <1>4 DEF ToSet
<1>7. CASE l = 0
  <2>1. \A i \in DOMAIN a : FALSE
    BY <1>2, <1>7
  <2>2. InOrder(a, 0)
    BY <2>1 DEF InOrder, ToSet
  <2>. QED  BY <2>2
<1>8. CASE l # 0
  <2>. DEFINE m == a[l]
  <2>1. l \in 1 .. l /\ m \in 1 .. n
    BY <1>1, <1>6, <1>8
  <2>2. \A i \in 1 .. l : i < l \/ i = l
    BY <1>1
  <2>3. \A i \in 1 .. l : a[i] <= m
    <3>. SUFFICES ASSUME NEW i \in 1 .. l PROVE a[i] <= m
      OBVIOUS
    <3>1. a[i] \in Int /\ m \in Int
      BY <1>6, <2>1
    <3>2. CASE i < l
      <4>1. a[i] < a[l]
        BY <1>2, <1>5, <2>1, <3>2
      <4>. QED  BY <3>1, <4>1
    <3>. QED  BY <2>2, <3>1, <3>2
  <2>. HIDE DEF m
  <2>4. ToSet(a) \subseteq {k \in 1 .. m : sizes[k] > 0}
    <3>1. \A i \in 1 .. l : a[i] \in 1 .. m /\ sizes[a[i]] > 0
      BY <1>6, <2>1, <2>3
    <3>. QED  BY <1>2, <3>1 DEF ToSet
  <2>5. ASSUME NEW k \in 1 .. m, sizes[k] > 0
        PROVE  k \in ToSet(a)
    <3>1. k \in ToSet(s)
      BY <1>3, <2>1, <2>5
    <3>2. PICK i \in 1 .. l + Len(b) : s[i] = k
      BY <1>2, <3>1 DEF ToSet
    <3>3. i <= l
      <4>. SUFFICES ASSUME ~(i <= l) PROVE FALSE
        OBVIOUS
      <4>1. l < i /\ l \in 1 .. l + Len(b)
        BY <1>1, <1>4, <2>1
      <4>2. s[l] < s[i] /\ s[l] = m
        BY <1>2, <1>3, <1>4, <2>1, <4>1 DEF m
      <4>. QED  BY <2>1, <2>5, <3>2, <4>2
    <3>4. i \in 1 .. l
      BY <1>1, <3>3
    <3>. QED  BY <1>2, <1>4, <3>2, <3>4 DEF ToSet
  <2>6. ToSet(a) = {k \in 1 .. m : sizes[k] > 0}
    BY <2>4, <2>5
  <2>7. InOrder(a, m) /\ m \in 0 .. n
    BY <1>5, <2>1, <2>6 DEF InOrder
  <2>. QED  BY <2>7
<1>. QED  BY <1>7, <1>8

(***************************************************************************)
(* The inductive invariant.  WriterStages: what each step of the writer    *)
(* has done.  Contents and WholeStages: nothing is lost, the ordinals go   *)
(* through the file, the frames to write and the buffer.  LostChunk and    *)
(* LostStages: a chunk was lost, the map goes on where the file does not,  *)
(* and neither it nor the sidecars are ever written.                       *)
(***************************************************************************)
WriterStages ==
  /\ finished <=> mode # "build"
  /\ pc = "add" => mode = "build"
  /\ pc \in {"table", "map", "labels"} => finished
  /\ pc \notin {"dropped", "crashed"} => labelFile = NoFile
  /\ pc \in {"add", "flush", "frames", "table"} => table = NoFile
  /\ pc \in {"add", "flush", "frames", "table", "map"} => mapFile = NoFile
  /\ pc = "map" \/ (pc = "labels" /\ version = 2) => table = Len(frames)
  /\ mapFile \notin {NoFile, Torn} => table = Len(frames)

Contents ==
  /\ labels = FlattenSeq(frames \o pending) \o raw
  /\ version = 2 => Maps(frameMap, frames \o pending)
  /\ \A f \in 1 .. Len(pending) : Len(pending[f]) >= 1

WholeStages ==
  /\ version = 1 => frameMap = << >> /\ pending = << >>
  /\ version = 1 /\ pc \in {"add", "flush", "table"} => frames = << >>
  /\ pending # << >> => pc \in {"frames", "crashed"}
  /\ pc = "frames" => version = 2 /\ raw = << >>
  /\ pc \in {"table", "map"} /\ version = 2 => raw = << >>
  /\ pc = "map" => version = 2
  /\ pc = "labels" => raw = << >> /\ (version = 2 => mapFile = frameMap)
  /\ cut => pc \in {"dropped", "crashed"} /\ result # "ok"
  /\ mode = "build" => result = "running"
  /\ mode = "finish" => next = Len(sizes) + 1
  /\ result = "ok" => pc = "dropped" /\ mode = "finish" /\ ~cut /\ labelFile = labels
  /\ mapFile \notin {NoFile, Torn} =>
       mapFile = frameMap /\ version = 2 /\ raw = << >> /\ pending = << >>
  /\ labelFile \notin {NoFile, Torn} =>
       /\ labelFile = labels /\ raw = << >> /\ pending = << >>
       /\ version = 2 => mapFile = frameMap

LostChunk ==
  /\ \E rest \in Seq(Nat) : labels = FlattenSeq(frames) \o rest
  /\ \E o \in 1 .. Len(frameMap) : frameMap[o] >= Len(frames)

LostStages ==
  /\ version = 2 /\ raw = << >> /\ pending = << >>
  /\ pc \in {"flush", "table", "map"} => mode = "drop"
  /\ pc \in {"flush", "table", "map", "dropped", "crashed"}
  /\ result # "ok" /\ mapFile \in {NoFile, Torn} /\ labelFile = NoFile

Whole == Contents /\ WholeStages
Lost == LostChunk /\ LostStages
WriterInv == WriterTypeOK /\ WriterStages /\ InOrder(labels, next - 1) /\ (Whole \/ Lost)

LEMMA NoSuchFile ==
  /\ NoFile # Torn
  /\ \A s \in Seq(Nat) : s # NoFile /\ s # Torn
  /\ \A n \in Nat : n # NoFile /\ n # Torn
BY WriterAssumption

LEMMA WriterTypes ==
  ASSUME WriterTypeOK
  PROVE  /\ sizes \in Seq(Nat) /\ Len(sizes) \in Nat /\ version \in {1, 2}
         /\ next \in Nat /\ next >= 1 /\ next <= Len(sizes) + 1
         /\ raw \in Seq(1 .. next - 1) /\ labels \in Seq(1 .. next - 1)
         /\ frames \in Seq(Seq(1 .. next - 1)) /\ pending \in Seq(Seq(1 .. next - 1))
         /\ frameMap \in Seq(Nat) /\ labels \in Seq(Nat)
         /\ frames \in Seq(Seq(Nat)) /\ raw \in Seq(Nat) /\ Len(frames) \in Nat
         /\ FlattenSeq(frames) \in Seq(Nat)
<1>1. sizes \in Seq(Nat) /\ version \in {1, 2}
  BY WriterAssumption DEF WriterTypeOK
<1>2. Len(sizes) \in Nat
  BY <1>1, LenProperties
<1>3. next \in 1 .. Len(sizes) + 1
  BY DEF WriterTypeOK
<1>4. next \in Nat /\ next >= 1 /\ next <= Len(sizes) + 1
  BY <1>2, <1>3
<1>5. raw \in Seq(1 .. next - 1) /\ labels \in Seq(1 .. next - 1)
      /\ frames \in Seq(Seq(1 .. next - 1)) /\ pending \in Seq(Seq(1 .. next - 1))
      /\ frameMap \in Seq(Nat)
  BY DEF WriterTypeOK
<1>6. 1 .. next - 1 \subseteq Nat
  BY <1>4
<1>. DEFINE S == 1 .. next - 1
<1>7. S \subseteq Nat /\ raw \in Seq(S) /\ labels \in Seq(S) /\ frames \in Seq(Seq(S))
  BY <1>5, <1>6
<1>. HIDE DEF S
<1>8. Seq(S) \subseteq Seq(Nat) /\ Seq(Seq(S)) \subseteq Seq(Seq(Nat))
  BY <1>7, WiderSeq
<1>9. labels \in Seq(Nat) /\ frames \in Seq(Seq(Nat)) /\ raw \in Seq(Nat)
  BY <1>7, <1>8
<1>10. Len(frames) \in Nat
  BY <1>9, LenProperties
<1>11. FlattenSeq(frames) \in Seq(Nat)
  BY <1>9, FlattenIn
<1>. QED  BY <1>1, <1>2, <1>4, <1>5, <1>9, <1>10, <1>11

LEMMA WriterStarts ==
  ASSUME WriterInit
  PROVE  WriterInv
<1>1. WriterTypeOK
  <2>1. sizes \in Seq(Nat) /\ next = 1
    BY WriterAssumption DEF WriterInit
  <2>2. Len(sizes) \in Nat
    BY <2>1, LenProperties
  <2>3. next \in 1 .. Len(sizes) + 1
    BY <2>1, <2>2
  <2>4. \A S : << >> \in Seq(S)
    BY EmptySeq
  <2>5. << >> \in Seq(1 .. next - 1) /\ << >> \in Seq(Seq(1 .. next - 1)) /\ << >> \in Seq(Nat)
    BY <2>4
  <2>6. Len(<< >>) <= Len(<< >>)
    BY EmptySeq
  <2>7. /\ {raw, labels} \subseteq Seq(1 .. next - 1)
        /\ {frames, pending} \subseteq Seq(Seq(1 .. next - 1))
        /\ frameMap \in Seq(Nat) /\ Len(frameMap) <= Len(labels)
    BY <2>5, <2>6 DEF WriterInit
  <2>8. /\ sizes \in SizeLists /\ version \in Formats /\ parallelism \in Parallelisms
        /\ finished \in BOOLEAN /\ cut \in BOOLEAN /\ failed \in BOOLEAN
        /\ table \in {NoFile} \cup Nat
        /\ pc \in Steps /\ mode \in {"build", "finish", "drop"}
        /\ result \in {"running", "ok", "error"}
    BY DEF WriterInit, Steps
  <2>. QED  BY <2>3, <2>7, <2>8 DEF WriterTypeOK
<1>2. WriterStages
  BY DEF WriterInit, WriterStages
<1>3. InOrder(labels, next - 1)
  <2>1. labels = << >> /\ next - 1 = 0
    BY DEF WriterInit
  <2>. QED  BY <2>1, InOrderNone
<1>4. Contents
  <2>1. << >> \o << >> = << >> /\ Len(<< >>) = 0
    BY EmptySeq, ConcatEmptySeq
  <2>2. \A i \in 1 .. 0 : FALSE
    OBVIOUS
  <2>3. FlattenSeq(<< >> \o << >>) = << >>
    BY <2>1, FlattenNone
  <2>4. FlattenSeq(<< >> \o << >>) \o << >> = << >>
    BY <2>1, <2>3
  <2>5. Maps(<< >>, << >> \o << >>)
    BY <2>1, <2>2, <2>3 DEF Maps
  <2>6. \A f \in 1 .. Len(<< >>) : Len(<< >>[f]) >= 1
    BY <2>1, <2>2
  <2>7. frames = << >> /\ pending = << >> /\ raw = << >> /\ labels = << >> /\ frameMap = << >>
    BY DEF WriterInit
  <2>. QED  BY <2>4, <2>5, <2>6, <2>7 DEF Contents
<1>5. WholeStages
  BY DEF WriterInit, WholeStages
<1>. QED  BY <1>1, <1>2, <1>3, <1>4, <1>5 DEF WriterInv, Whole

(***************************************************************************)
(* The steps of the writer.                                                *)
(***************************************************************************)
LEMMA SameOrder ==
  ASSUME InOrder(labels, next - 1), UNCHANGED <<labels, next, sizes>>
  PROVE  InOrder(labels, next - 1)'
BY DEF InOrder

LEMMA SameContents ==
  ASSUME Contents, UNCHANGED <<labels, frames, pending, raw, version, frameMap>>
  PROVE  Contents'
BY DEF Contents

LEMMA SameLoss ==
  ASSUME LostChunk, UNCHANGED <<labels, frames, frameMap>>
  PROVE  LostChunk'
BY DEF LostChunk

LEMMA AddingKept ==
  ASSUME WriterInv, Add
  PROVE  WriterInv'
<1>. DEFINE k == next
            S == 1 .. k - 1
            T == 1 .. (k + 1) - 1
<1>1. /\ pc = "add" /\ k <= Len(sizes) /\ next' = k + 1
      /\ raw' = (IF sizes[k] > 0 THEN Append(raw, k) ELSE raw)
      /\ labels' = (IF sizes[k] > 0 THEN Append(labels, k) ELSE labels)
      /\ pc' \in {"flush", "add"}
      /\ UNCHANGED <<config, frameMap, finished, pending, onDisk, mode, result, failed>>
  BY DEF Add, Adding
<1>2. UNCHANGED <<sizes, version, parallelism, frames, cut, table, mapFile, labelFile>>
  BY <1>1 DEF config, onDisk
<1>3. WriterTypeOK /\ WriterStages /\ InOrder(labels, k - 1) /\ Whole
  BY <1>1 DEF WriterInv, Lost, LostStages
<1>4. k \in Nat /\ k >= 1 /\ Len(sizes) \in Nat
      /\ raw \in Seq(S) /\ labels \in Seq(S) /\ frames \in Seq(Seq(S)) /\ pending \in Seq(Seq(S))
      /\ frameMap \in Seq(Nat) /\ labels \in Seq(Nat)
  BY <1>3, WriterTypes
<1>5. S \subseteq T /\ k \in T /\ (k + 1) - 1 = k /\ k - 1 \in Nat /\ (k - 1) + 1 = k
  BY <1>4
<1>. HIDE DEF S, T, k
<1>6. raw \in Seq(T) /\ labels \in Seq(T) /\ frames \in Seq(Seq(T)) /\ pending \in Seq(Seq(T))
  BY <1>4, <1>5, WiderSeq
<1>7. /\ Append(raw, k) \in Seq(T) /\ Append(labels, k) \in Seq(T)
      /\ Len(Append(labels, k)) = Len(labels) + 1
      /\ Append(raw, k) = raw \o <<k>> /\ Append(labels, k) = labels \o <<k>>
  BY <1>5, <1>6, AppendProperties, AppendIsConcat
<1>8. raw' \in Seq(T) /\ labels' \in Seq(T)
  BY <1>1, <1>6, <1>7
<1>9. WriterTypeOK'
  <2>1. k + 1 \in 1 .. Len(sizes) + 1
    BY <1>1, <1>4
  <2>2. Len(frameMap) <= Len(labels')
    <3>1. Len(frameMap) <= Len(labels) /\ Len(frameMap) \in Nat /\ Len(labels) \in Nat
      BY <1>3, <1>4, LenProperties DEF WriterTypeOK
    <3>2. labels' = labels \/ Len(labels') = Len(labels) + 1
      BY <1>1, <1>7
    <3>. QED  BY <3>1, <3>2
  <2>3. next' \in 1 .. Len(sizes') + 1
    BY <1>1, <1>2, <2>1
  <2>4. {raw', labels'} \subseteq Seq(1 .. next' - 1)
        /\ {frames', pending'} \subseteq Seq(Seq(1 .. next' - 1))
    BY <1>1, <1>2, <1>6, <1>8 DEF T
  <2>5. pc' \in Steps
    BY <1>1 DEF Steps
  <2>. QED  BY <1>1, <1>2, <1>3, <2>2, <2>3, <2>4, <2>5 DEF WriterTypeOK
<1>10. WriterStages'
  BY <1>1, <1>2, <1>3 DEF WriterStages
<1>11. InOrder(labels, next - 1)'
  <2>1. labels' = IF sizes[(k - 1) + 1] > 0 THEN Append(labels, (k - 1) + 1) ELSE labels
    BY <1>1, <1>5
  <2>2. InOrder(labels', (k - 1) + 1)
    BY <1>3, <1>4, <1>5, <2>1, InOrderNext
  <2>3. (k - 1) + 1 = next' - 1
    BY <1>1, <1>5
  <2>4. InOrder(labels', next' - 1)
    BY <2>2, <2>3
  <2>. QED  BY <1>2, <2>4 DEF InOrder
<1>12. Contents'
  <2>1. labels = FlattenSeq(frames \o pending) \o raw
    BY <1>3 DEF Whole, Contents
  <2>2. FlattenSeq(frames \o pending) \in Seq(T)
    <3>1. frames \o pending \in Seq(Seq(T))
      BY <1>6, EndsOfBoth
    <3>. QED  BY <3>1, FlattenIn
  <2>3. (FlattenSeq(frames \o pending) \o raw) \o <<k>> = FlattenSeq(frames \o pending) \o (raw \o <<k>>)
    <3>. DEFINE t == <<k>>
                u == FlattenSeq(frames \o pending)
    <3>1. u \in Seq(T) /\ raw \in Seq(T) /\ t \in Seq(T)
      BY <1>5, <1>6, <2>2
    <3>. HIDE DEF t, u
    <3>2. Then(Then(u, raw), t) = Then(u, Then(raw, t))
      BY <3>1, Regroup
    <3>3. (u \o raw) \o t = u \o (raw \o t)
      BY <3>2 DEF Then
    <3>. QED  BY <3>3 DEF t, u
  <2>4. labels' = FlattenSeq(frames \o pending) \o raw'
    BY <1>1, <1>7, <2>1, <2>3
  <2>. QED  BY <1>1, <1>2, <1>3, <2>4 DEF Whole, Contents
<1>13. WholeStages'
  BY <1>1, <1>2, <1>3 DEF Whole, WholeStages, WriterStages
<1>. QED  BY <1>9, <1>10, <1>11, <1>12, <1>13 DEF WriterInv, Whole

LEMMA FinishKept ==
  ASSUME WriterInv, CallFinish
  PROVE  WriterInv'
<1>1. /\ pc = "add" /\ next > Len(sizes) /\ mode' = "finish" /\ finished' = TRUE /\ pc' = "flush"
      /\ UNCHANGED <<sizes, version, parallelism, next, raw, frameMap, labels, pending, frames, cut,
                     table, mapFile, labelFile, result, failed>>
  BY DEF CallFinish, config, onDisk
<1>2. WriterTypeOK /\ WriterStages /\ InOrder(labels, next - 1) /\ Whole
  BY <1>1 DEF WriterInv, Lost, LostStages
<1>3. next' = Len(sizes') + 1
  <2>1. next \in Nat /\ Len(sizes) \in Nat /\ next <= Len(sizes) + 1
    BY <1>2, WriterTypes
  <2>2. next = Len(sizes) + 1
    BY <1>1, <2>1
  <2>. QED  BY <1>1, <2>2
<1>4. WriterTypeOK'
  BY <1>1, <1>2 DEF WriterTypeOK, Steps
<1>5. WriterStages'
  BY <1>1, <1>2 DEF WriterStages
<1>6. InOrder(labels, next - 1)'
  BY <1>1, <1>2, SameOrder
<1>7. Contents'
  BY <1>1, <1>2, SameContents DEF Whole
<1>8. WholeStages'
  BY <1>1, <1>2, <1>3 DEF Whole, WholeStages, WriterStages
<1>. QED  BY <1>4, <1>5, <1>6, <1>7, <1>8 DEF WriterInv, Whole

LEMMA EvaluationKept ==
  ASSUME WriterInv, EvaluationFails
  PROVE  WriterInv'
<1>1. /\ pc = "add" /\ failed' = TRUE /\ Error
      /\ UNCHANGED <<sizes, version, parallelism, next, raw, frameMap, labels, pending, frames, cut,
                     table, mapFile, labelFile>>
  BY DEF EvaluationFails, config, onDisk
<1>2. WriterTypeOK /\ WriterStages /\ InOrder(labels, next - 1) /\ Whole
  BY <1>1 DEF WriterInv, Lost, LostStages
<1>3. pc' = "flush" /\ mode' = "drop" /\ finished' = TRUE /\ result' = "error"
  BY <1>1, <1>2 DEF Error, WriterStages, WriterTypeOK
<1>4. WriterTypeOK'
  BY <1>1, <1>2, <1>3 DEF WriterTypeOK, Steps
<1>5. WriterStages'
  BY <1>1, <1>2, <1>3 DEF WriterStages
<1>6. InOrder(labels, next - 1)'
  BY <1>1, <1>2, SameOrder
<1>7. Contents'
  BY <1>1, <1>2, SameContents DEF Whole
<1>8. WholeStages'
  BY <1>1, <1>2, <1>3 DEF Whole, WholeStages, WriterStages
<1>. QED  BY <1>4, <1>5, <1>6, <1>7, <1>8 DEF WriterInv, Whole

LEMMA ErrorIsDrop ==
  ASSUME WriterTypeOK, WriterStages, Error, pc \notin {"dropped", "crashed"}
  PROVE  /\ pc' \in {"dropped", "flush"} /\ mode' \in {"build", "finish", "drop"}
         /\ finished' = TRUE /\ mode' # "build"
         /\ pc' = "flush" => mode' = "drop"
         /\ mode' = "finish" => mode = "finish"
         /\ result' \in {"running", "ok", "error"}
         /\ result # "ok" => result' # "ok"
         /\ pc' = "dropped" \/ ~finished
BY DEF WriterTypeOK, WriterStages, Error

LEMMA FlushKept ==
  ASSUME WriterInv, Flush
  PROVE  WriterInv'
<1>1. /\ pc = "flush"
      /\ UNCHANGED <<sizes, version, parallelism, next, labels, frames, cut, table, mapFile,
                     labelFile, failed>>
  BY DEF Flush, config, onDisk
<1>2. WriterTypeOK /\ WriterStages /\ InOrder(labels, next - 1) /\ (Whole \/ Lost)
  BY DEF WriterInv
<1>3. InOrder(labels, next - 1)'
  BY <1>1, <1>2, SameOrder
<1>4. CASE /\ version # 2 \/ raw = << >>
           /\ Flushed /\ UNCHANGED <<raw, frameMap, pending, mode, finished, result>>
  <2>1. WriterTypeOK'
    BY <1>1, <1>2, <1>4 DEF WriterTypeOK, Steps, Flushed
  <2>2. WriterStages'
    BY <1>1, <1>2, <1>4 DEF WriterStages, Flushed, WriterTypeOK
  <2>3. CASE Whole
    <3>1. Contents'
      BY <1>1, <1>4, <2>3, SameContents DEF Whole
    <3>2. WholeStages'
      BY <1>1, <1>2, <1>4, <2>3 DEF Whole, WholeStages, WriterStages, Flushed
    <3>. QED  BY <1>3, <2>1, <2>2, <3>1, <3>2 DEF WriterInv, Whole
  <2>4. CASE Lost
    <3>1. LostChunk'
      BY <1>1, <1>4, <2>4, SameLoss DEF Lost
    <3>2. LostStages'
      BY <1>1, <1>2, <1>4, <2>4 DEF Lost, LostStages, WriterStages, Flushed
    <3>. QED  BY <1>3, <2>1, <2>2, <3>1, <3>2 DEF WriterInv, Lost
  <2>. QED  BY <1>2, <2>3, <2>4
<1>5. CASE version = 2 /\ raw # << >>
  <2>. DEFINE ranges == FrameRanges(raw)
              S == 1 .. next - 1
              longer == frameMap \o ChunkMap(ranges, Len(frames))
              Checked == MapChecked(longer, ranges, Len(frames))
  <2>1. /\ raw' = << >> /\ frameMap' = longer
        /\ \/ Checked /\ pending' = ranges /\ pc' = "frames" /\ UNCHANGED <<mode, finished, result>>
           \/ Error /\ UNCHANGED pending
    BY <1>1, <1>5 DEF Flush
  <2>. HIDE DEF Checked
  <2>2. Whole /\ Contents /\ WholeStages
    BY <1>2, <1>5 DEF Lost, LostStages, Whole
  <2>3. pending = << >>
    BY <1>1, <2>2 DEF WholeStages
  <2>4. raw \in Seq(S) /\ frames \in Seq(Seq(S)) /\ frameMap \in Seq(Nat) /\ raw \in Seq(Nat)
        /\ labels \in Seq(S)
    BY <1>2, WriterTypes
  <2>. HIDE DEF S
  <2>5. ranges \in Seq(Seq(S)) /\ FlattenSeq(ranges) = raw
        /\ \A f \in 1 .. Len(ranges) : Len(ranges[f]) >= 1
    BY <2>4, RangesHoldAll
  <2>. HIDE DEF ranges
  <2>6. frames \o pending = frames
    BY <2>3, <2>4, ConcatEmptySeq
  <2>7. Maps(frameMap, frames) /\ labels = FlattenSeq(frames) \o raw
    BY <1>5, <2>2, <2>6 DEF Contents
  <2>8. /\ longer \in Seq(Nat) /\ Maps(longer, frames \o ranges)
        /\ \A j \in 1 .. Len(FlattenSeq(ranges)) :
             Len(frameMap) + j \in 1 .. Len(longer) /\ longer[Len(frameMap) + j] >= Len(frames)
    BY <2>4, <2>5, <2>7, MapGrows
  <2>. HIDE DEF longer
  <2>9. FlattenSeq(frames \o ranges) = labels
    <3>1. FlattenSeq(frames \o ranges) = FlattenSeq(frames) \o FlattenSeq(ranges)
      BY <2>4, <2>5, FlattenBoth
    <3>. QED  BY <2>5, <2>7, <3>1
  <2>10. Len(longer) <= Len(labels)
    <3>1. Len(longer) = Len(labels) /\ Len(labels) \in Nat
      BY <2>4, <2>8, <2>9, LenProperties DEF Maps
    <3>. QED  BY <3>1
  <2>11. ASSUME NEW v, v \in {ranges, << >>}
         PROVE  v \in Seq(Seq(S))
    BY <2>5, <2>11, EmptySeq
  <2>types. ASSUME pending' \in Seq(Seq(S)), pc' \in Steps, mode' \in {"build", "finish", "drop"},
                   result' \in {"running", "ok", "error"}, finished' \in BOOLEAN
            PROVE  WriterTypeOK'
    <3>1. << >> \in Seq(S)
      BY EmptySeq
    <3>2. {raw', labels'} \subseteq Seq(1 .. next' - 1)
          /\ {frames', pending'} \subseteq Seq(Seq(1 .. next' - 1))
      BY <1>1, <2>1, <2>4, <2>types, <3>1 DEF S
    <3>3. frameMap' \in Seq(Nat) /\ Len(frameMap') <= Len(labels')
      BY <1>1, <2>1, <2>8, <2>10
    <3>. QED  BY <1>1, <1>2, <2>types, <3>2, <3>3 DEF WriterTypeOK
  <2>12. CASE Checked /\ pending' = ranges /\ pc' = "frames" /\ UNCHANGED <<mode, finished, result>>
    <3>1. WriterTypeOK'
      <4>1. mode \in {"build", "finish", "drop"} /\ result \in {"running", "ok", "error"}
            /\ finished \in BOOLEAN
        BY <1>2 DEF WriterTypeOK
      <4>2. pc' \in Steps
        BY <2>12 DEF Steps
      <4>. QED  BY <2>5, <2>12, <2>types, <4>1, <4>2
    <3>2. WriterStages'
      BY <1>1, <1>2, <2>12 DEF WriterStages
    <3>3. Contents'
      <4>1. labels \o << >> = labels
        BY <2>4, ConcatEmptySeq
      <4>2. labels' = FlattenSeq(frames' \o pending') \o raw'
        BY <1>1, <2>1, <2>9, <2>12, <4>1
      <4>3. Maps(frameMap', frames' \o pending')
        BY <1>1, <2>1, <2>8, <2>12
      <4>4. \A f \in 1 .. Len(pending') : Len(pending'[f]) >= 1
        BY <2>5, <2>12
      <4>. QED  BY <4>2, <4>3, <4>4 DEF Contents
    <3>4. WholeStages'
      BY <1>1, <1>2, <1>5, <2>1, <2>2, <2>12 DEF WholeStages, WriterStages
    <3>. QED  BY <1>3, <3>1, <3>2, <3>3, <3>4 DEF WriterInv, Whole
  <2>13. CASE Error /\ UNCHANGED pending
    <3>1. /\ pc' \in {"dropped", "flush"} /\ mode' \in {"build", "finish", "drop"}
          /\ finished' = TRUE /\ mode' # "build"
          /\ pc' = "flush" => mode' = "drop"
          /\ result' \in {"running", "ok", "error"} /\ (result # "ok" => result' # "ok")
      BY <1>1, <1>2, <2>13, ErrorIsDrop
    <3>2. result # "ok"
      BY <1>1, <2>2 DEF WholeStages
    <3>3. WriterTypeOK'
      <4>1. pending' \in Seq(Seq(S))
        BY <2>3, <2>11, <2>13
      <4>2. pc' \in Steps
        BY <3>1 DEF Steps
      <4>. QED  BY <2>types, <3>1, <4>1, <4>2
    <3>4. WriterStages'
      BY <1>1, <1>2, <3>1 DEF WriterStages
    <3>5. LostChunk'
      <4>1. Len(raw) >= 1
        BY <1>5, <2>4, EmptySeq
      <4>2. 1 \in 1 .. Len(FlattenSeq(ranges))
        <5>1. Len(raw) \in Nat
          BY <2>4, LenProperties
        <5>. QED  BY <2>5, <4>1, <5>1
      <4>3. \E o \in 1 .. Len(longer) : longer[o] >= Len(frames)
        BY <2>8, <4>2
      <4>. QED  BY <1>1, <2>1, <2>4, <2>7, <4>3 DEF LostChunk
    <3>6. LostStages'
      BY <1>1, <1>2, <1>5, <2>1, <2>3, <2>13, <3>1, <3>2 DEF LostStages, WriterStages
    <3>. QED  BY <1>3, <3>3, <3>4, <3>5, <3>6 DEF WriterInv, Lost
  <2>. QED  BY <2>1, <2>12, <2>13
<1>. QED  BY <1>4, <1>5 DEF Flush

LEMMA FrameKept ==
  ASSUME WriterInv, WriteFrame
  PROVE  WriterInv'
<1>. DEFINE S == 1 .. next - 1
<1>1. /\ pc = "frames"
      /\ UNCHANGED <<sizes, version, parallelism, next, raw, frameMap, labels, table, mapFile,
                     labelFile>>
  BY DEF WriteFrame, FrameWritten, config
<1>2. WriterTypeOK /\ WriterStages /\ InOrder(labels, next - 1) /\ Contents /\ WholeStages
  BY <1>1 DEF WriterInv, Whole, Lost, LostStages
<1>3. InOrder(labels, next - 1)'
  BY <1>1, <1>2, SameOrder
<1>4. version = 2 /\ raw = << >> /\ result # "ok"
  BY <1>1, <1>2 DEF WholeStages
<1>5. raw \in Seq(S) /\ frames \in Seq(Seq(S)) /\ pending \in Seq(Seq(S)) /\ labels \in Seq(S)
      /\ frameMap \in Seq(Nat) /\ S \subseteq Nat
  BY <1>2, WriterTypes
<1>types. ASSUME frames' \in Seq(Seq(S)), pending' \in Seq(Seq(S)), cut' \in BOOLEAN,
                 pc' \in Steps, mode' \in {"build", "finish", "drop"}, finished' \in BOOLEAN,
                 result' \in {"running", "ok", "error"}, failed' \in BOOLEAN
          PROVE  WriterTypeOK'
  <2>1. {raw', labels'} \subseteq Seq(1 .. next' - 1)
        /\ {frames', pending'} \subseteq Seq(Seq(1 .. next' - 1))
    BY <1>1, <1>5, <1>types
  <2>. QED  BY <1>1, <1>2, <1>types, <2>1 DEF WriterTypeOK
<1>now. /\ cut \in BOOLEAN /\ mode \in {"build", "finish", "drop"} /\ finished \in BOOLEAN
        /\ result \in {"running", "ok", "error"} /\ failed \in BOOLEAN /\ pc \in Steps
  BY <1>2 DEF WriterTypeOK
<1>. HIDE DEF S
<1>6. CASE \E f \in {1} \cap DOMAIN pending :
             /\ frames' = Append(frames, pending[f])
             /\ pending' = RemoveAt(pending, f)
             /\ UNCHANGED <<cut, pc, mode, finished, result, failed>>
  <2>1. 1 \in DOMAIN pending /\ frames' = Append(frames, pending[1])
        /\ pending' = RemoveAt(pending, 1) /\ UNCHANGED <<cut, pc, mode, finished, result, failed>>
    BY <1>6
  <2>2. Len(pending) \in Nat /\ DOMAIN pending = 1 .. Len(pending)
    BY <1>5, LenProperties
  <2>3. pending # << >>
    <3>1. \A i \in 1 .. 0 : FALSE
      OBVIOUS
    <3>2. Len(<< >>) = 0
      BY EmptySeq
    <3>. QED  BY <2>1, <2>2, <3>1, <3>2
  <2>4. /\ frames' \in Seq(Seq(S)) /\ pending' \in Seq(Seq(S))
        /\ frames' \o pending' = frames \o pending
        /\ Len(pending') = Len(pending) - 1
        /\ \A f \in 1 .. Len(pending) - 1 : pending'[f] = pending[f + 1]
    <3>1. frames \in Seq(Seq(S)) /\ pending \in Seq(Seq(S))
      BY <1>5
    <3>2. /\ Append(frames, pending[1]) \in Seq(Seq(S)) /\ RemoveAt(pending, 1) \in Seq(Seq(S))
          /\ Append(frames, pending[1]) \o RemoveAt(pending, 1) = frames \o pending
          /\ Len(RemoveAt(pending, 1)) = Len(pending) - 1
          /\ \A f \in 1 .. Len(pending) - 1 : RemoveAt(pending, 1)[f] = pending[f + 1]
      BY <2>3, <3>1, FrameMoves
    <3>. QED  BY <2>1, <3>2
  <2>5. WriterTypeOK'
    BY <1>types, <1>now, <2>1, <2>4
  <2>6. WriterStages'
    BY <1>1, <1>2, <2>1, NoSuchFile DEF WriterStages
  <2>7. Contents'
    <3>1. labels = FlattenSeq(frames \o pending) \o raw /\ Maps(frameMap, frames \o pending)
          /\ \A f \in 1 .. Len(pending) : Len(pending[f]) >= 1
      BY <1>2, <1>4 DEF Contents
    <3>2. \A f \in 1 .. Len(pending) - 1 : f + 1 \in 1 .. Len(pending)
      BY <2>2
    <3>3. \A f \in 1 .. Len(pending') : Len(pending'[f]) >= 1
      BY <2>4, <3>1, <3>2
    <3>. QED  BY <1>1, <2>4, <3>1, <3>3 DEF Contents
  <2>8. WholeStages'
    BY <1>1, <1>2, <1>4, <2>1 DEF WholeStages, WriterStages
  <2>. QED  BY <1>3, <2>5, <2>6, <2>7, <2>8 DEF WriterInv, Whole
<1>7. CASE /\ pending # << >> /\ cut' \in BOOLEAN /\ pending' = << >> /\ failed' = TRUE
           /\ Error /\ UNCHANGED frames
  <2>1. /\ pc' \in {"dropped", "flush"} /\ mode' \in {"build", "finish", "drop"}
        /\ finished' = TRUE /\ mode' # "build"
        /\ pc' = "flush" => mode' = "drop"
        /\ result' \in {"running", "ok", "error"} /\ (result # "ok" => result' # "ok")
    BY <1>1, <1>2, <1>7, ErrorIsDrop
  <2>2. WriterTypeOK'
    <3>1. pending' \in Seq(Seq(S)) /\ frames' \in Seq(Seq(S))
      BY <1>5, <1>7, EmptySeq
    <3>2. pc' \in Steps
      BY <2>1 DEF Steps
    <3>3. finished' \in BOOLEAN /\ failed' \in BOOLEAN
      BY <1>7, <2>1
    <3>. QED  BY <1>types, <1>7, <2>1, <3>1, <3>2, <3>3
  <2>3. WriterStages'
    BY <1>1, <1>2, <1>7, <2>1, NoSuchFile DEF WriterStages
  <2>4. LostChunk'
    <3>1. Len(pending) >= 1
      BY <1>5, <1>7, EmptySeq
    <3>2. Len(pending[1]) >= 1
      <4>1. Len(pending) \in Nat
        BY <1>5, LenProperties
      <4>2. 1 \in 1 .. Len(pending)
        BY <3>1, <4>1
      <4>. QED  BY <1>2, <4>2 DEF Contents
    <3>3. Maps(frameMap, frames \o pending) /\ labels = FlattenSeq(frames \o pending) \o raw
      BY <1>2, <1>4 DEF Contents
    <3>4. \E o \in 1 .. Len(frameMap) : frameMap[o] >= Len(frames)
      BY <1>5, <3>1, <3>2, <3>3, MapAhead
    <3>5. PICK rest \in Seq(S) : labels = FlattenSeq(frames) \o rest
      <4>1. frames \in Seq(Seq(S)) /\ pending \in Seq(Seq(S)) /\ raw \in Seq(S)
        BY <1>5
      <4>2. Begins(S, frames, Laid(frames, pending, raw))
        BY <4>1, FileBegins
      <4>. QED  BY <3>3, <4>2 DEF Begins, Laid
    <3>6. rest \in Seq(Nat)
      BY <1>5, <3>5, WiderSeq
    <3>7. labels' = FlattenSeq(frames') \o rest
      BY <1>1, <1>7, <3>3, <3>5
    <3>8. \E o \in 1 .. Len(frameMap') : frameMap'[o] >= Len(frames')
      BY <1>1, <1>7, <3>4
    <3>. QED  BY <3>6, <3>7, <3>8 DEF LostChunk
  <2>5. LostStages'
    BY <1>1, <1>2, <1>4, <1>7, <2>1 DEF LostStages, WriterStages
  <2>. QED  BY <1>3, <2>2, <2>3, <2>4, <2>5 DEF WriterInv, Lost
<1>8. CASE /\ pending = << >> /\ Flushed
           /\ UNCHANGED <<frames, pending, cut, mode, finished, result, failed>>
  <2>1. WriterTypeOK'
    <3>1. pc' \in Steps
      BY <1>8 DEF Steps, Flushed
    <3>. QED  BY <1>types, <1>now, <1>5, <1>8, <3>1
  <2>2. WriterStages'
    BY <1>1, <1>2, <1>8 DEF WriterStages, Flushed
  <2>3. Contents'
    BY <1>1, <1>2, <1>8, SameContents
  <2>4. WholeStages'
    BY <1>1, <1>2, <1>4, <1>8 DEF WholeStages, WriterStages, Flushed
  <2>. QED  BY <1>3, <2>1, <2>2, <2>3, <2>4 DEF WriterInv, Whole
<1>. QED  BY <1>6, <1>7, <1>8 DEF WriteFrame, FrameWritten

LEMMA TableKept ==
  ASSUME WriterInv, WriteTable
  PROVE  WriterInv'
<1>1. /\ pc = "table"
      /\ UNCHANGED <<sizes, version, parallelism, next, frameMap, labels, pending, mapFile, labelFile>>
  BY DEF WriteTable, config
<1>2. WriterTypeOK /\ WriterStages /\ InOrder(labels, next - 1) /\ (Whole \/ Lost)
  BY DEF WriterInv
<1>3. InOrder(labels, next - 1)'
  BY <1>1, <1>2, SameOrder
<1>4. Len(frames) \in Nat
  BY <1>2, WriterTypes
<1>5. CASE /\ version = 2 /\ table' = Len(frames) /\ pc' = "map"
           /\ UNCHANGED <<raw, frames, cut, mode, finished, result, failed>>
  <2>1. WriterTypeOK'
    BY <1>1, <1>2, <1>4, <1>5 DEF WriterTypeOK, Steps
  <2>2. WriterStages'
    BY <1>1, <1>2, <1>5 DEF WriterStages
  <2>3. CASE Whole
    <3>1. Contents'
      BY <1>1, <1>5, <2>3, SameContents DEF Whole
    <3>2. WholeStages'
      BY <1>1, <1>2, <1>5, <2>3 DEF Whole, WholeStages, WriterStages
    <3>. QED  BY <1>3, <2>1, <2>2, <3>1, <3>2 DEF WriterInv, Whole
  <2>4. CASE Lost
    <3>1. LostChunk'
      BY <1>1, <1>5, <2>4, SameLoss DEF Lost
    <3>2. LostStages'
      BY <1>1, <1>2, <1>5, <2>4 DEF Lost, LostStages
    <3>. QED  BY <1>3, <2>1, <2>2, <3>1, <3>2 DEF WriterInv, Lost
  <2>. QED  BY <1>2, <2>3, <2>4
<1>6. CASE /\ version = 1 /\ frames' = <<raw>> /\ raw' = << >> /\ pc' = "labels"
           /\ UNCHANGED <<table, cut, mode, finished, result, failed>>
  <2>. DEFINE S == 1 .. next - 1
  <2>1. Contents /\ WholeStages
    BY <1>2, <1>6 DEF Whole, Lost, LostStages
  <2>2. frames = << >> /\ pending = << >>
    BY <1>1, <1>6, <2>1 DEF WholeStages
  <2>3. raw \in Seq(S) /\ labels \in Seq(S) /\ << >> \in Seq(S) /\ << >> \in Seq(Seq(S))
    BY <1>2, WriterTypes, EmptySeq
  <2>. HIDE DEF S
  <2>4. <<raw>> \in Seq(Seq(S))
    BY <2>3
  <2>5. labels = raw
    <3>1. << >> \o << >> = << >> /\ << >> \o raw = raw
      BY <2>3, ConcatEmptySeq
    <3>2. labels = FlattenSeq(<< >> \o << >>) \o raw
      BY <2>1, <2>2 DEF Contents
    <3>3. labels = FlattenSeq(<< >>) \o raw
      BY <3>1, <3>2
    <3>. QED  BY <3>1, <3>3, FlattenNone
  <2>6. labels = FlattenSeq(<<raw>> \o << >>) \o << >>
    <3>1. <<raw>> \o << >> = <<raw>> /\ raw \o << >> = raw
      BY <2>3, <2>4, ConcatEmptySeq
    <3>2. FlattenSeq(<<raw>>) = raw
      BY <2>3, FlattenOne
    <3>. QED  BY <2>5, <3>1, <3>2
  <2>7. WriterTypeOK'
    <3>1. {raw', labels'} \subseteq Seq(1 .. next' - 1)
          /\ {frames', pending'} \subseteq Seq(Seq(1 .. next' - 1))
      BY <1>1, <1>6, <2>2, <2>3, <2>4 DEF S
    <3>2. pc' \in Steps
      BY <1>6 DEF Steps
    <3>. QED  BY <1>1, <1>2, <1>6, <3>1, <3>2 DEF WriterTypeOK
  <2>8. WriterStages'
    BY <1>1, <1>2, <1>6, NoSuchFile DEF WriterStages
  <2>9. Contents'
    <3>1. labels' = FlattenSeq(frames' \o pending') \o raw'
      BY <1>1, <1>6, <2>2, <2>6
    <3>2. version' # 2
      BY <1>1, <1>6
    <3>3. pending' = pending
      BY <1>1
    <3>. QED  BY <2>1, <3>1, <3>2, <3>3 DEF Contents
  <2>10. WholeStages'
    BY <1>1, <1>2, <1>6, <2>1 DEF WholeStages, WriterStages
  <2>. QED  BY <1>3, <2>7, <2>8, <2>9, <2>10 DEF WriterInv, Whole
<1>7. CASE /\ cut' \in BOOLEAN /\ failed' = TRUE /\ Error /\ UNCHANGED <<raw, frames, table>>
  <2>1. pc' = "dropped" /\ UNCHANGED <<mode, finished>> /\ result' \in {result, "error"}
        /\ finished = TRUE
    BY <1>1, <1>2, <1>7 DEF Error, WriterStages, WriterTypeOK
  <2>2. WriterTypeOK'
    BY <1>1, <1>2, <1>7, <2>1 DEF WriterTypeOK, Steps
  <2>3. WriterStages'
    BY <1>1, <1>2, <1>7, <2>1 DEF WriterStages
  <2>4. CASE Whole
    <3>1. Contents'
      BY <1>1, <1>7, <2>4, SameContents DEF Whole
    <3>2. WholeStages'
      BY <1>1, <1>2, <1>7, <2>1, <2>4 DEF Whole, WholeStages, WriterStages
    <3>. QED  BY <1>3, <2>2, <2>3, <3>1, <3>2 DEF WriterInv, Whole
  <2>5. CASE Lost
    <3>1. LostChunk'
      BY <1>1, <1>7, <2>5, SameLoss DEF Lost
    <3>2. LostStages'
      BY <1>1, <1>2, <1>7, <2>1, <2>5 DEF Lost, LostStages
    <3>. QED  BY <1>3, <2>2, <2>3, <3>1, <3>2 DEF WriterInv, Lost
  <2>. QED  BY <1>2, <2>4, <2>5
<1>. QED  BY <1>5, <1>6, <1>7 DEF WriteTable

LEMMA MapKept ==
  ASSUME WriterInv, WriteMap
  PROVE  WriterInv'
<1>1. /\ pc = "map"
      /\ UNCHANGED <<sizes, version, parallelism, next, raw, frameMap, labels, pending, frames, cut,
                     table, labelFile>>
  BY DEF WriteMap, config
<1>2. WriterTypeOK /\ WriterStages /\ InOrder(labels, next - 1) /\ (Whole \/ Lost)
  BY DEF WriterInv
<1>3. InOrder(labels, next - 1)'
  BY <1>1, <1>2, SameOrder
<1>4. table = Len(frames) /\ table \in Nat /\ frameMap \in Seq(Nat)
      /\ DOMAIN frameMap = 1 .. Len(frameMap)
  <2>1. Len(frames) \in Nat /\ frameMap \in Seq(Nat)
    BY <1>2, WriterTypes
  <2>2. DOMAIN frameMap = 1 .. Len(frameMap)
    BY <2>1, LenProperties
  <2>. QED  BY <1>1, <1>2, <2>1, <2>2 DEF WriterStages
<1>5. CASE /\ MapFits /\ mapFile' = frameMap /\ pc' = "labels"
           /\ UNCHANGED <<mode, finished, result, failed>>
  <2>1. ~LostChunk
    <3>1. \A o \in 1 .. Len(frameMap) : frameMap[o] < table /\ frameMap[o] \in Nat
      BY <1>4, <1>5, ElementOfSeq DEF MapFits
    <3>. QED  BY <1>4, <3>1 DEF LostChunk
  <2>2. Contents /\ WholeStages
    BY <1>2, <2>1 DEF Whole, Lost
  <2>3. WriterTypeOK'
    BY <1>1, <1>2, <1>5 DEF WriterTypeOK, Steps
  <2>4. WriterStages'
    BY <1>1, <1>2, <1>4, <1>5 DEF WriterStages
  <2>5. Contents'
    BY <1>1, <2>2, SameContents
  <2>6. WholeStages'
    BY <1>1, <1>2, <1>5, <2>2 DEF WholeStages, WriterStages
  <2>. QED  BY <1>3, <2>3, <2>4, <2>5, <2>6 DEF WriterInv, Whole
<1>6. CASE mapFile' = Torn /\ failed' = (failed \/ MapFits) /\ Error
  <2>1. pc' = "dropped" /\ UNCHANGED <<mode, finished>> /\ result' \in {result, "error"}
        /\ finished = TRUE
    BY <1>1, <1>2, <1>6 DEF Error, WriterStages, WriterTypeOK
  <2>2. WriterTypeOK'
    <3>1. failed' \in BOOLEAN
      BY <1>2, <1>6 DEF WriterTypeOK, MapFits
    <3>. QED  BY <1>1, <1>2, <2>1, <3>1 DEF WriterTypeOK, Steps
  <2>3. WriterStages'
    BY <1>1, <1>2, <1>6, <2>1 DEF WriterStages
  <2>4. CASE Whole
    <3>1. Contents'
      BY <1>1, <2>4, SameContents DEF Whole
    <3>2. WholeStages'
      BY <1>1, <1>2, <1>6, <2>1, <2>4 DEF Whole, WholeStages, WriterStages
    <3>. QED  BY <1>3, <2>2, <2>3, <3>1, <3>2 DEF WriterInv, Whole
  <2>5. CASE Lost
    <3>1. LostChunk'
      BY <1>1, <2>5, SameLoss DEF Lost
    <3>2. LostStages'
      BY <1>1, <1>2, <1>6, <2>1, <2>5 DEF Lost, LostStages
    <3>. QED  BY <1>3, <2>2, <2>3, <3>1, <3>2 DEF WriterInv, Lost
  <2>. QED  BY <1>2, <2>4, <2>5
<1>. QED  BY <1>5, <1>6 DEF WriteMap

LEMMA LabelsKept ==
  ASSUME WriterInv, WriteLabels
  PROVE  WriterInv'
<1>1. /\ pc = "labels"
      /\ UNCHANGED <<sizes, version, parallelism, next, raw, frameMap, labels, pending, frames, cut,
                     table, mapFile>>
  BY DEF WriteLabels, config
<1>2. WriterTypeOK /\ WriterStages /\ InOrder(labels, next - 1) /\ Contents /\ WholeStages
  BY <1>1 DEF WriterInv, Whole, Lost, LostStages
<1>3. InOrder(labels, next - 1)'
  BY <1>1, <1>2, SameOrder
<1>4. Contents'
  BY <1>1, <1>2, SameContents
<1>5. /\ pc' = "dropped" /\ UNCHANGED <<mode, finished>> /\ finished = TRUE /\ failed' \in BOOLEAN
      /\ \/ labelFile' = labels /\ result' = IF mode = "finish" THEN "ok" ELSE result
         \/ labelFile' = Torn /\ result' \in {result, "error"}
  BY <1>1, <1>2 DEF WriteLabels, Error, WriterStages, WriterTypeOK
<1>6. WriterTypeOK'
  BY <1>1, <1>2, <1>5 DEF WriterTypeOK, Steps
<1>7. WriterStages'
  BY <1>1, <1>2, <1>5 DEF WriterStages
<1>8. WholeStages'
  <2>1. raw = << >> /\ pending = << >> /\ (version = 2 => mapFile = frameMap) /\ cut = FALSE
        /\ result # "ok" /\ mode # "build"
    BY <1>1, <1>2, <1>5 DEF WholeStages, WriterStages, WriterTypeOK
  <2>. QED  BY <1>1, <1>2, <1>5, <2>1 DEF WholeStages, WriterStages
<1>. QED  BY <1>3, <1>4, <1>6, <1>7, <1>8 DEF WriterInv, Whole

LEMMA CrashKept ==
  ASSUME WriterInv, Crash
  PROVE  WriterInv'
<1>1. /\ pc \notin {"dropped", "crashed"} /\ pc' = "crashed"
      /\ cut' \in BOOLEAN /\ mapFile' \in {mapFile, Torn} /\ labelFile' \in {labelFile, Torn}
      /\ pc # "labels" => labelFile' = labelFile
      /\ UNCHANGED <<sizes, version, parallelism, next, raw, frameMap, labels, finished, pending,
                     frames, table, mode, result, failed>>
  BY DEF Crash, config, WriterInv, WriterTypeOK
<1>2. WriterTypeOK /\ WriterStages /\ InOrder(labels, next - 1) /\ (Whole \/ Lost)
  BY DEF WriterInv
<1>3. InOrder(labels, next - 1)'
  BY <1>1, <1>2, SameOrder
<1>4. WriterTypeOK'
  BY <1>1, <1>2 DEF WriterTypeOK, Steps
<1>5. WriterStages'
  BY <1>1, <1>2 DEF WriterStages
<1>6. CASE Whole
  <2>1. Contents'
    BY <1>1, <1>6, SameContents DEF Whole
  <2>2. WholeStages'
    BY <1>1, <1>2, <1>6 DEF Whole, WholeStages, WriterStages
  <2>. QED  BY <1>3, <1>4, <1>5, <2>1, <2>2 DEF WriterInv, Whole
<1>7. CASE Lost
  <2>1. LostChunk'
    BY <1>1, <1>7, SameLoss DEF Lost
  <2>2. LostStages'
    BY <1>1, <1>2, <1>7 DEF Lost, LostStages
  <2>. QED  BY <1>3, <1>4, <1>5, <2>1, <2>2 DEF WriterInv, Lost
<1>. QED  BY <1>2, <1>6, <1>7

LEMMA WriterKept ==
  ASSUME WriterInv, [WriterNext]_writerVars
  PROVE  WriterInv'
<1>1. CASE Add
  BY <1>1, AddingKept
<1>2. CASE CallFinish
  BY <1>2, FinishKept
<1>3. CASE EvaluationFails
  BY <1>3, EvaluationKept
<1>4. CASE Flush
  BY <1>4, FlushKept
<1>5. CASE WriteFrame
  BY <1>5, FrameKept
<1>6. CASE WriteTable
  BY <1>6, TableKept
<1>7. CASE WriteMap
  BY <1>7, MapKept
<1>8. CASE WriteLabels
  BY <1>8, LabelsKept
<1>9. CASE Crash
  BY <1>9, CrashKept
<1>10. CASE UNCHANGED writerVars
  <2>1. UNCHANGED <<sizes, version, parallelism, next, raw, frameMap, labels, finished, pending,
                    frames, cut, table, mapFile, labelFile, pc, mode, result, failed>>
    BY <1>10 DEF writerVars, config, onDisk
  <2>2. WriterTypeOK'
    BY <2>1 DEF WriterInv, WriterTypeOK
  <2>3. WriterStages'
    BY <2>1 DEF WriterInv, WriterStages
  <2>4. InOrder(labels, next - 1)'
    BY <2>1, SameOrder DEF WriterInv
  <2>5. Whole => Whole'
    <3>1. Contents => Contents'
      BY <2>1, SameContents
    <3>2. WholeStages => WholeStages'
      BY <2>1 DEF WholeStages
    <3>. QED  BY <3>1, <3>2 DEF Whole
  <2>6. Lost => Lost'
    <3>1. LostChunk => LostChunk'
      BY <2>1, SameLoss
    <3>2. LostStages => LostStages'
      BY <2>1 DEF LostStages
    <3>. QED  BY <3>1, <3>2 DEF Lost
  <2>. QED  BY <2>2, <2>3, <2>4, <2>5, <2>6 DEF WriterInv
<1>. QED
  BY <1>1, <1>2, <1>3, <1>4, <1>5, <1>6, <1>7, <1>8, <1>9, <1>10 DEF WriterNext, WriterStep

\* Whatever happened, the file holds the first of the packages added.
LEMMA FileIsFirst ==
  ASSUME WriterInv
  PROVE  \E rest \in Seq(Nat) : labels = FlattenSeq(frames) \o rest
<1>1. CASE Lost
  BY <1>1 DEF Lost, LostChunk
<1>2. CASE Whole
  <2>. DEFINE S == 1 .. next - 1
  <2>1. labels = FlattenSeq(frames \o pending) \o raw
    BY <1>2 DEF Whole, Contents
  <2>2. frames \in Seq(Seq(S)) /\ pending \in Seq(Seq(S)) /\ raw \in Seq(S) /\ S \subseteq Nat
    BY WriterTypes DEF WriterInv
  <2>. HIDE DEF S
  <2>3. Begins(S, frames, Laid(frames, pending, raw))
    BY <2>2, FileBegins
  <2>4. PICK rest \in Seq(S) : labels = FlattenSeq(frames) \o rest
    BY <2>1, <2>3 DEF Begins, Laid
  <2>5. rest \in Seq(Nat)
    BY <2>2, <2>4, WiderSeq
  <2>. QED  BY <2>4, <2>5
<1>. QED  BY <1>1, <1>2 DEF WriterInv

\* Once the sidecars are written, the file holds all the packages recorded.
LEMMA FileIsAll ==
  ASSUME WriterInv, labelFile \notin {NoFile, Torn}
  PROVE  /\ WholeStages /\ labelFile = FlattenSeq(frames) /\ labels = labelFile
         /\ version = 2 => mapFile = frameMap /\ Maps(frameMap, frames)
<1>1. Contents /\ WholeStages
  BY DEF WriterInv, Whole, Lost, LostStages
<1>2. labelFile = labels /\ raw = << >> /\ pending = << >> /\ (version = 2 => mapFile = frameMap)
  BY <1>1 DEF WholeStages
<1>3. frames \in Seq(Seq(Nat)) /\ FlattenSeq(frames) \in Seq(Nat)
  BY WriterTypes DEF WriterInv
<1>4. frames \o << >> = frames /\ FlattenSeq(frames) \o << >> = FlattenSeq(frames)
  BY <1>3, ConcatEmptySeq
<1>5. labels = FlattenSeq(frames \o << >>) \o << >> /\ (version = 2 => Maps(frameMap, frames \o << >>))
  BY <1>1, <1>2 DEF Contents
<1>. QED  BY <1>1, <1>2, <1>4, <1>5

LEMMA InvIsPrefix ==
  ASSUME WriterInv
  PROVE  OpenableIsPrefix
<1>1. WriterTypeOK /\ WriterStages /\ InOrder(labels, next - 1)
  BY DEF WriterInv
<1>2. next \in Nat /\ next >= 1 /\ next <= Len(sizes) + 1 /\ Len(sizes) \in Nat
      /\ FlattenSeq(frames) \in Seq(Nat) /\ Len(frames) \in Nat /\ frameMap \in Seq(Nat)
      /\ labels \in Seq(Nat)
  BY <1>1, WriterTypes
<1>3. \E n \in 0 .. Len(sizes) : InOrder(FlattenSeq(frames), n)
  <2>1. PICK rest \in Seq(Nat) : labels = FlattenSeq(frames) \o rest
    BY FileIsFirst
  <2>. DEFINE a == FlattenSeq(frames)
              k == next - 1
  <2>2. a \in Seq(Nat) /\ k \in Nat /\ InOrder(a \o rest, k)
    BY <1>1, <1>2, <2>1
  <2>3. 0 .. k \subseteq 0 .. Len(sizes)
    BY <1>2
  <2>. HIDE DEF a, k
  <2>4. PICK m \in 0 .. k : InOrder(a, m)
    BY <2>2, InOrderFirst
  <2>. QED  BY <2>3, <2>4 DEF a
<1>4. ASSUME result = "ok"
      PROVE  /\ Opens /\ InOrder(FlattenSeq(frames), Len(sizes)) /\ labelFile = FlattenSeq(frames)
             /\ version = 2 => HasMap /\ Len(mapFile) = Len(labelFile)
  <2>1. WholeStages
    BY <1>4 DEF WriterInv, Whole, Lost, LostStages
  <2>2. mode = "finish" /\ ~cut /\ labelFile = labels /\ next = Len(sizes) + 1
    BY <1>4, <2>1 DEF WholeStages
  <2>3. labelFile \notin {NoFile, Torn}
    BY <1>2, <2>2, NoSuchFile
  <2>4. labelFile = FlattenSeq(frames) /\ (version = 2 => mapFile = frameMap /\ Maps(frameMap, frames))
    BY <2>3, FileIsAll
  <2>5. next - 1 = Len(sizes)
    BY <1>2, <2>2
  <2>6. version = 2 => mapFile \notin {NoFile, Torn} /\ table # NoFile
    BY <1>1, <1>2, <2>4, NoSuchFile DEF WriterStages
  <2>7. version = 2 => Len(mapFile) = Len(labelFile)
    BY <2>4 DEF Maps
  <2>8. InOrder(FlattenSeq(frames), Len(sizes))
    BY <1>1, <2>2, <2>4, <2>5
  <2>. QED  BY <2>2, <2>4, <2>6, <2>7, <2>8 DEF Opens, HasMap
<1>. QED  BY <1>1, <1>3, <1>4 DEF OpenableIsPrefix

\* The first ordinal mapped to a frame is that of the frame's first package.
LEMMA StartOfFrame ==
  ASSUME NEW g \in Seq(Seq(Nat)), mapFile \in Seq(Nat), Maps(mapFile, g),
         NEW o \in 1 .. Len(mapFile)
  PROVE  /\ mapFile[o] + 1 \in 1 .. Len(g) /\ mapFile[o] \in Nat
         /\ FrameStart(mapFile[o]) = FrameEnd(g, mapFile[o]) + 1
<1>. DEFINE f == mapFile[o]
            c == FrameEnd(g, f) + 1
<1>1. DOMAIN mapFile = 1 .. Len(mapFile) /\ Len(mapFile) \in Nat
      /\ \A q \in 1 .. Len(mapFile) : mapFile[q] \in Nat
  BY LenProperties, ElementOfSeq
<1>2. \A q \in 1 .. Len(mapFile) : Within(g, mapFile[q] + 1, q)
  BY DEF Maps
<1>3. f + 1 \in 1 .. Len(g) /\ Len(g[f + 1]) \in Nat /\ Len(g[f + 1]) >= 1
  <2>1. Within(g, f + 1, o) /\ o \in Int
    BY <1>1, <1>2
  <2>2. f + 1 \in 1 .. Len(g) /\ o - FrameEnd(g, (f + 1) - 1) \in 1 .. Len(g[f + 1])
    BY <2>1, WithinRange
  <2>3. g[f + 1] \in Seq(Nat)
    BY <2>2, ElementOfSeq
  <2>4. Len(g[f + 1]) \in Nat
    BY <2>3, LenProperties
  <2>. QED  BY <2>2, <2>4
<1>4. f \in Nat /\ (f + 1) - 1 = f
  BY <1>1
<1>. HIDE DEF f
<1>5. Within(g, f + 1, c) /\ c \in Int
  <2>1. 1 \in 1 .. Len(g[f + 1])
    BY <1>3
  <2>2. Within(g, f + 1, FrameEnd(g, (f + 1) - 1) + 1)
    BY <1>3, <2>1, InFrame
  <2>3. Len(g) \in Nat /\ \A e \in 0 .. Len(g) : FrameEnd(g, e) \in Nat
    BY LenProperties, Ends
  <2>4. f \in 0 .. Len(g)
    BY <1>3, <1>4, <2>3
  <2>. QED  BY <1>4, <2>2, <2>3, <2>4
<1>6. c \in 1 .. Len(mapFile)
  BY <1>5, WithinRange DEF Maps
<1>7. mapFile[c] = f
  <2>1. mapFile[c] + 1 = f + 1
    BY <1>2, <1>5, <1>6, WithinOne
  <2>. QED  BY <1>1, <1>4, <1>6, <2>1
<1>8. ASSUME NEW q \in 1 .. Len(mapFile), mapFile[q] = f
      PROVE  c <= q
  <2>1. Within(g, f + 1, q)
    BY <1>2, <1>8
  <2>2. FrameEnd(g, f) < q
    BY <1>4, <2>1 DEF Within
  <2>3. FrameEnd(g, f) \in Nat
    <3>1. Len(g) \in Nat /\ \A e \in 0 .. Len(g) : FrameEnd(g, e) \in Nat
      BY LenProperties, Ends
    <3>2. f \in 0 .. Len(g)
      BY <1>3, <1>4, <3>1
    <3>. QED  BY <3>1, <3>2
  <2>. QED  BY <2>2, <2>3
<1>. HIDE DEF c
<1>9. \E x \in DOMAIN mapFile : mapFile[x] = f /\ \A q \in DOMAIN mapFile : mapFile[q] = f => x <= q
  BY <1>1, <1>6, <1>7, <1>8
<1>. DEFINE s == FrameStart(f)
<1>10. s \in DOMAIN mapFile /\ mapFile[s] = f /\ \A q \in DOMAIN mapFile : mapFile[q] = f => s <= q
  BY <1>9 DEF FrameStart
<1>. HIDE DEF s
<1>11. c <= s /\ s <= c
  BY <1>1, <1>6, <1>7, <1>8, <1>10
<1>12. s = c
  BY <1>1, <1>5, <1>10, <1>11
<1>. QED  BY <1>3, <1>4, <1>12 DEF f, c, s

LEMMA InvIsExact ==
  ASSUME WriterInv
  PROVE  LookupExact
<1>. SUFFICES ASSUME labelFile \notin {NoFile, Torn}, NEW ordinals \in SUBSET DOMAIN labelFile
              PROVE  /\ {labelFile[o] : o \in ordinals} \subseteq Scan(ordinals)
                     /\ HasMap => Scan(ordinals) = {labelFile[o] : o \in ordinals}
  BY DEF LookupExact
<1>. DEFINE meant == {labelFile[o] : o \in ordinals}
<1>1. /\ WholeStages /\ labelFile = FlattenSeq(frames)
      /\ version = 2 => mapFile = frameMap /\ Maps(frameMap, frames)
  BY FileIsAll
<1>2. frames \in Seq(Seq(Nat)) /\ FlattenSeq(frames) \in Seq(Nat) /\ frameMap \in Seq(Nat)
  BY WriterTypes DEF WriterInv
<1>3. ordinals \subseteq DOMAIN labelFile /\ DOMAIN labelFile = 1 .. Len(labelFile)
      /\ Len(labelFile) \in Nat
  BY <1>1, <1>2, LenProperties
<1>4. CASE ~HasMap
  <2>1. Scan(ordinals) = ToSet(FlattenSeq(frames))
    BY <1>4 DEF Scan
  <2>2. meant \subseteq ToSet(FlattenSeq(frames))
    BY <1>1, <1>3 DEF ToSet
  <2>. QED  BY <1>4, <2>1, <2>2
<1>5. CASE HasMap
  <2>1. version = 2
    BY <1>1, <1>5 DEF WholeStages, HasMap
  <2>2. mapFile \in Seq(Nat) /\ Maps(mapFile, frames) /\ Len(mapFile) = Len(labelFile)
        /\ DOMAIN mapFile = 1 .. Len(mapFile)
    BY <1>1, <1>2, <2>1, LenProperties DEF Maps
  <2>. DEFINE Kept(f) == {frames[f + 1][k] : k \in {k \in DOMAIN frames[f + 1] :
                                                     FrameStart(f) + k - 1 \in ordinals}}
  <2>3. Scan(ordinals) = UNION {Kept(f) : f \in {mapFile[o] : o \in ordinals \cap DOMAIN mapFile}}
    BY <1>5 DEF Scan
  <2>4. ASSUME NEW o \in 1 .. Len(mapFile)
        PROVE  LET f == mapFile[o] IN
               /\ f \in Nat /\ f + 1 \in 1 .. Len(frames)
               /\ FrameStart(f) = FrameEnd(frames, f) + 1 /\ FrameEnd(frames, f) \in Nat
               /\ DOMAIN frames[f + 1] = 1 .. Len(frames[f + 1]) /\ Len(frames[f + 1]) \in Nat
               /\ \A k \in 1 .. Len(frames[f + 1]) :
                    labelFile[FrameEnd(frames, f) + k] = frames[f + 1][k]
    <3>. DEFINE f == mapFile[o]
    <3>1. f \in Nat /\ f + 1 \in 1 .. Len(frames) /\ FrameStart(f) = FrameEnd(frames, f) + 1
      BY <1>2, <2>2, StartOfFrame
    <3>. HIDE DEF f
    <3>2. frames[f + 1] \in Seq(Nat)
      BY <1>2, <3>1, ElementOfSeq
    <3>3. DOMAIN frames[f + 1] = 1 .. Len(frames[f + 1]) /\ Len(frames[f + 1]) \in Nat
      BY <3>2, LenProperties
    <3>4. FrameEnd(frames, f) \in Nat
      <4>1. Len(frames) \in Nat /\ \A e \in 0 .. Len(frames) : FrameEnd(frames, e) \in Nat
        BY <1>2, LenProperties, Ends
      <4>2. f \in 0 .. Len(frames)
        BY <3>1, <4>1
      <4>. QED  BY <4>1, <4>2
    <3>5. (f + 1) - 1 = f
      BY <3>1
    <3>6. ASSUME NEW k \in 1 .. Len(frames[f + 1])
          PROVE  labelFile[FrameEnd(frames, f) + k] = frames[f + 1][k]
      <4>1. FlattenSeq(frames)[FrameEnd(frames, (f + 1) - 1) + k] = frames[f + 1][k]
        BY <1>2, <3>1, InFrame
      <4>. QED  BY <1>1, <3>5, <4>1
    <3>. QED  BY <3>1, <3>3, <3>4, <3>6 DEF f
  <2>5. ASSUME NEW o \in 1 .. Len(mapFile), NEW k \in DOMAIN frames[mapFile[o] + 1],
               FrameStart(mapFile[o]) + k - 1 \in ordinals
        PROVE  frames[mapFile[o] + 1][k] \in meant
    <3>. DEFINE f == mapFile[o]
    <3>0. /\ FrameStart(f) = FrameEnd(frames, f) + 1 /\ FrameEnd(frames, f) \in Nat
          /\ DOMAIN frames[f + 1] = 1 .. Len(frames[f + 1]) /\ Len(frames[f + 1]) \in Nat
          /\ \A i \in 1 .. Len(frames[f + 1]) : labelFile[FrameEnd(frames, f) + i] = frames[f + 1][i]
          /\ k \in DOMAIN frames[f + 1]
      BY <2>4
    <3>. HIDE DEF f
    <3>1. FrameStart(f) = FrameEnd(frames, f) + 1 /\ FrameEnd(frames, f) \in Nat /\ k \in Nat
          /\ labelFile[FrameEnd(frames, f) + k] = frames[f + 1][k]
      BY <3>0
    <3>2. FrameStart(f) + k - 1 = FrameEnd(frames, f) + k
      BY <3>1
    <3>3. FrameEnd(frames, f) + k \in ordinals
      BY <2>5, <3>2 DEF f
    <3>4. frames[f + 1][k] \in meant
      BY <3>1, <3>3
    <3>. QED  BY <3>4 DEF f
  <2>6. ASSUME NEW o \in ordinals
        PROVE  /\ o \in ordinals \cap DOMAIN mapFile
               /\ \E k \in DOMAIN frames[mapFile[o] + 1] :
                    /\ FrameStart(mapFile[o]) + k - 1 \in ordinals
                    /\ frames[mapFile[o] + 1][k] = labelFile[o]
    <3>1. o \in 1 .. Len(mapFile) /\ o \in Int
      BY <1>3, <2>2
    <3>. DEFINE f == mapFile[o]
                k == o - FrameEnd(frames, f)
    <3>2. /\ f \in Nat /\ FrameStart(f) = FrameEnd(frames, f) + 1 /\ FrameEnd(frames, f) \in Nat
          /\ DOMAIN frames[f + 1] = 1 .. Len(frames[f + 1])
          /\ \A i \in 1 .. Len(frames[f + 1]) : labelFile[FrameEnd(frames, f) + i] = frames[f + 1][i]
      BY <2>4, <3>1
    <3>3. Within(frames, f + 1, o)
      BY <2>2, <3>1 DEF Maps
    <3>. HIDE DEF f
    <3>4. o - FrameEnd(frames, (f + 1) - 1) \in 1 .. Len(frames[f + 1]) /\ (f + 1) - 1 = f
      BY <1>2, <3>1, <3>2, <3>3, WithinRange
    <3>5. k \in 1 .. Len(frames[f + 1]) /\ FrameEnd(frames, f) + k = o /\ FrameStart(f) + k - 1 = o
      BY <3>1, <3>2, <3>4
    <3>. HIDE DEF k
    <3>6. k \in DOMAIN frames[f + 1] /\ FrameStart(f) + k - 1 \in ordinals
          /\ frames[f + 1][k] = labelFile[o]
      BY <3>2, <3>5
    <3>. QED  BY <2>2, <3>1, <3>6 DEF f
  <2>7. meant \subseteq Scan(ordinals)
    <3>. SUFFICES ASSUME NEW o \in ordinals PROVE labelFile[o] \in Scan(ordinals)
      OBVIOUS
    <3>1. labelFile[o] \in Kept(mapFile[o])
      BY <2>6
    <3>2. mapFile[o] \in {mapFile[q] : q \in ordinals \cap DOMAIN mapFile}
      BY <2>6
    <3>. HIDE DEF Kept
    <3>. QED  BY <2>3, <3>1, <3>2
  <2>8. Scan(ordinals) \subseteq meant
    <3>. SUFFICES ASSUME NEW o \in ordinals \cap DOMAIN mapFile PROVE Kept(mapFile[o]) \subseteq meant
      <4>. HIDE DEF Kept, meant
      <4>. QED  BY <2>3
    <3>. QED  BY <2>2, <2>5
  <2>. QED  BY <2>7, <2>8
<1>. QED  BY <1>4, <1>5

(***************************************************************************)
(* However a build ended, failed, dropped or killed, whatever the listings,*)
(* the threads and the chunk size, the files Writer leaves open only as    *)
(* the first packages of the build; those of a build that succeeded hold   *)
(* every listing with entries, with sidecars and frame map that agree.     *)
(***************************************************************************)
THEOREM WriterKeepsPrefix == WriterSpec => []OpenableIsPrefix
<1>1. WriterInit => WriterInv
  BY WriterStarts
<1>2. WriterInv /\ [WriterNext]_writerVars => WriterInv'
  BY WriterKept
<1>3. WriterInv => OpenableIsPrefix
  BY InvIsPrefix
<1>. QED  BY <1>1, <1>2, <1>3, PTL DEF WriterSpec

(***************************************************************************)
(* search_entries finds the packages of any set of ordinals, and with a    *)
(* frame map no others: frame_ranges, flush_chunk's map, the order of the  *)
(* writes and compute_frame_starts count alike.                            *)
(***************************************************************************)
THEOREM LookupsAreExact == WriterSpec => []LookupExact
<1>1. WriterInit => WriterInv
  BY WriterStarts
<1>2. WriterInv /\ [WriterNext]_writerVars => WriterInv'
  BY WriterKept
<1>3. WriterInv => LookupExact
  BY InvIsExact
<1>. QED  BY <1>1, <1>2, <1>3, PTL DEF WriterSpec
=============================================================================
