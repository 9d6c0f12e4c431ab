------------------------- MODULE IndexSearchProofs -------------------------
(***************************************************************************)
(* Proofs about IndexSearch, for any index, any sidecars, any queries in   *)
(* any order and any capacity: the cache remembers what would be computed, *)
(* no match is hidden, and the sidecars answer as a scan of all files.     *)
(*                                                                         *)
(* The cache is first.  Then, what a match says of a path, so that the     *)
(* candidates keep its package; what the shortcuts find; the lines of a    *)
(* frame, its blocks and what a scan of them finds; the answer of each     *)
(* step.                                                                   *)
(***************************************************************************)
EXTENDS IndexSearch, SequenceTheorems, FiniteSetTheorems, NaturalsInduction, TLAPS

(***************************************************************************)
(* What the cache may remember: of each query, under its key, what would   *)
(* be computed for it.  Two queries with one key have the same candidates, *)
(* because nothing else of a query is looked at.                           *)
(***************************************************************************)
Remembered == {[key |-> Key(q), value |-> NgramOrdinals(q)] : q \in Queries}

IInv ==
  /\ cache \in Seq(Remembered) /\ Len(cache) <= Capacity
  /\ pc \in {"resolve", "plan"} => query \in Queries
  /\ pc = "plan" => ordinals = Both(BaseOrdinals(query), NgramOrdinals(query))

LEMMA SameKey ==
  ASSUME NEW q, NEW r, Key(q) = Key(r)
  PROVE  NgramOrdinals(q) = NgramOrdinals(r)
<1>1. /\ Literal(q) = Literal(r) /\ RegexPrefix(q) = RegexPrefix(r)
      /\ RegexSuffix(q) = RegexSuffix(r)
  BY DEF Key
<1>. HIDE DEF Key
<1>2. Usable(q) = Usable(r)
  BY <1>1 DEF Usable
<1>. QED  BY <1>2 DEF NgramOrdinals

\* The least recently used entry is dropped, but no other.
LEMMA Inserting ==
  ASSUME NEW s \in Seq(Remembered), Len(s) <= Capacity, NEW e \in Remembered
  PROVE  LET t == <<e>> \o (IF Len(s) >= Capacity THEN Front(s) ELSE s)
         IN  t \in Seq(Remembered) /\ Len(t) <= Capacity
<1>1. Capacity \in Nat \ {0} /\ Len(s) \in Nat
  BY SearchAssumption
<1>. DEFINE f == SubSeq(s, 1, Len(s) - 1)
<1>2. f \in Seq(Remembered) /\ (Len(s) >= Capacity => Len(f) = Len(s) - 1)
  <2>1. \A i \in 1 .. Len(s) - 1 : s[i] \in Remembered
    BY <1>1
  <2>2. /\ f \in Seq(Remembered)
        /\ Len(f) = IF 1 <= Len(s) - 1 THEN Len(s) - 1 - 1 + 1 ELSE 0
    BY <1>1, <2>1, SubSeqProperties
  <2>. HIDE DEF f
  <2>3. ASSUME Len(s) >= Capacity PROVE Len(f) = Len(s) - 1
    <3>1. PICK n \in Nat : n = Len(s)
      BY <1>1
    <3>2. n >= 1
      BY <1>1, <2>3, <3>1
    <3>3. Len(f) = IF 1 <= n - 1 THEN n - 1 - 1 + 1 ELSE 0
      BY <2>2, <3>1
    <3>4. Len(f) = n - 1
      BY <3>2, <3>3
    <3>. QED  BY <3>1, <3>4
  <2>. QED  BY <2>2, <2>3
<1>6. Front(s) = f
  BY DEF Front
<1>. HIDE DEF f
<1>3. <<e>> \in Seq(Remembered) /\ Len(<<e>>) = 1
  OBVIOUS
<1>4. CASE Len(s) >= Capacity
  <2>1. <<e>> \o Front(s) \in Seq(Remembered) /\ Len(<<e>> \o Front(s)) = 1 + Len(Front(s))
    BY <1>2, <1>3, <1>6, ConcatProperties
  <2>. QED  BY <1>1, <1>2, <1>4, <1>6, <2>1
<1>5. CASE ~(Len(s) >= Capacity)
  <2>1. <<e>> \o s \in Seq(Remembered) /\ Len(<<e>> \o s) = 1 + Len(s)
    BY <1>3, ConcatProperties
  <2>. QED  BY <1>1, <1>5, <2>1
<1>. QED  BY <1>4, <1>5

\* What was found in the cache is moved to its front.
LEMMA Renewing ==
  ASSUME NEW s \in Seq(Remembered), NEW i \in DOMAIN s
  PROVE  LET t == <<s[i]>> \o RemoveAt(s, i)
         IN  t \in Seq(Remembered) /\ Len(t) = Len(s) /\ s[i] \in Remembered
<1>. DEFINE a == SubSeq(s, 1, i - 1)  b == SubSeq(s, i + 1, Len(s))
<1>1. Len(s) \in Nat /\ i \in 1 .. Len(s) /\ s[i] \in Remembered
  OBVIOUS
<1>2. a \in Seq(Remembered) /\ Len(a) = i - 1
  <2>1. \A k \in 1 .. i - 1 : s[k] \in Remembered
    BY <1>1
  <2>2. a \in Seq(Remembered) /\ Len(a) = IF 1 <= i - 1 THEN i - 1 - 1 + 1 ELSE 0
    BY <1>1, <2>1, SubSeqProperties
  <2>. QED  BY <1>1, <2>2
<1>3. b \in Seq(Remembered) /\ Len(b) = Len(s) - i
  <2>1. \A k \in i + 1 .. Len(s) : s[k] \in Remembered
    BY <1>1
  <2>2. b \in Seq(Remembered) /\ Len(b) = IF i + 1 <= Len(s) THEN Len(s) - (i + 1) + 1 ELSE 0
    BY <1>1, <2>1, SubSeqProperties
  <2>. QED  BY <1>1, <2>2
<1>4. RemoveAt(s, i) = a \o b
  BY DEF RemoveAt
<1>. HIDE DEF a, b
<1>5. a \o b \in Seq(Remembered) /\ Len(a \o b) = Len(s) - 1
  BY <1>1, <1>2, <1>3, ConcatProperties
<1>6. <<s[i]>> \in Seq(Remembered) /\ Len(<<s[i]>>) = 1
  BY <1>1
<1>7. <<s[i]>> \o (a \o b) \in Seq(Remembered) /\ Len(<<s[i]>> \o (a \o b)) = 1 + Len(a \o b)
  BY <1>5, <1>6, ConcatProperties
<1>. QED  BY <1>1, <1>4, <1>5, <1>7

LEMMA Start == Init => IInv
<1>. SUFFICES ASSUME Init PROVE IInv
  OBVIOUS
<1>1. << >> \in Seq(Remembered) /\ Len(<< >>) = 0 /\ Capacity \in Nat
  BY SearchAssumption, EmptySeq
<1>. QED  BY <1>1 DEF Init, IInv

LEMMA Step == IInv /\ [Next]_vars => IInv'
<1>. SUFFICES ASSUME IInv, [Next]_vars PROVE IInv'
  OBVIOUS
<1>. USE DEF IInv
<1>1. UNCHANGED reader
  BY DEF Next, Ask, ResolveCached, Resolve, Nothing, FromPathEntries, FromEntries, FromTrigrams,
     FromPaths, Scan, Answer, vars
<1>2. /\ Remembered' = Remembered
      /\ \A q : NgramOrdinals(q)' = NgramOrdinals(q)
      /\ \A q : BaseOrdinals(q)' = BaseOrdinals(q)
  BY <1>1 DEF reader, Remembered, NgramOrdinals, GramOrdinals, BaseOrdinals, BasenameOrdinals,
     PathOrdinals, PrefixOrdinals, Packages, Paths
<1>3. ASSUME ResolveCached PROVE IInv'
  <2>1. PICK i \in Cached(Key(query)) :
          /\ ordinals' = Both(BaseOrdinals(query), cache[i].value)
          /\ cache' = <<cache[i]>> \o RemoveAt(cache, i)
    BY <1>3 DEF ResolveCached, Candidates
  <2>2. i \in DOMAIN cache /\ cache[i].key = Key(query)
    BY DEF Cached
  <2>3. cache' \in Seq(Remembered) /\ Len(cache') = Len(cache) /\ cache[i] \in Remembered
    BY <2>1, <2>2, Renewing
  <2>4. PICK q \in Queries : cache[i] = [key |-> Key(q), value |-> NgramOrdinals(q)]
    BY <2>3 DEF Remembered
  <2>5. cache[i].value = NgramOrdinals(query)
    BY <2>2, <2>4, SameKey
  <2>6. pc = "resolve" /\ pc' = "plan" /\ query' = query
    BY <1>3 DEF ResolveCached
  <2>. QED  BY <1>2, <2>1, <2>3, <2>5, <2>6
<1>4. ASSUME Resolve PROVE IInv'
  <2>1. /\ pc = "resolve" /\ pc' = "plan" /\ query' = query /\ query \in Queries
        /\ ordinals' = Both(BaseOrdinals(query), NgramOrdinals(query))
    BY <1>4 DEF Resolve, Candidates
  <2>2. [key |-> Key(query), value |-> NgramOrdinals(query)] \in Remembered
    BY <2>1 DEF Remembered
  <2>3. cache' \in Seq(Remembered) /\ Len(cache') <= Capacity
    BY <1>4, <2>2, Inserting DEF Resolve, Insert
  <2>. QED  BY <1>2, <2>1, <2>3
<1>5. ASSUME Ask PROVE IInv'
  BY <1>2, <1>5 DEF Ask
<1>6. ASSUME NEW S, Answer(S) PROVE IInv'
  BY <1>2, <1>6 DEF Answer
<1>7. ASSUME UNCHANGED vars PROVE IInv'
  BY <1>2, <1>7 DEF vars
<1>8. ASSUME FromPaths PROVE \E S : Answer(S)
  BY <1>8 DEF FromPaths
<1>. QED  BY <1>3, <1>4, <1>5, <1>6, <1>7, <1>8
          DEF Next, Nothing, FromPathEntries, FromEntries, FromTrigrams, Scan

(***************************************************************************)
(* Candidates are the same whether they were computed or remembered, for   *)
(* any sequence of queries, and the cache stays within its capacity.       *)
(***************************************************************************)
THEOREM CacheIsExact == Spec => []CacheExact
<1>1. IInv => CacheExact
  BY DEF IInv, CacheExact
<1>. QED  BY <1>1, Start, Step, PTL DEF Spec

\* The least of some numbers: what stands in for induction below.
LEMMA Smallest ==
  ASSUME NEW T, T \subseteq Nat, T # {}
  PROVE  \E i \in T : \A j \in T : i <= j
<1>1. PICK i \in T : \A j \in T : ~ (<<j, i>> \in OpToRel(<, Nat))
  BY NatLessThanWellFounded, WFMin
<1>2. \A j \in Nat : <<j, i>> \in OpToRel(<, Nat) <=> j < i
  BY <1>1 DEF OpToRel
<1>. HIDE DEF OpToRel
<1>3. ASSUME NEW j \in T PROVE i <= j
  <2>1. ~(j < i) /\ i \in Nat /\ j \in Nat
    BY <1>1, <1>2
  <2>. QED  BY <2>1
<1>. QED  BY <1>3

LEMMA MinIs ==
  ASSUME NEW T, T \subseteq Nat, T # {}
  PROVE  Min(T) \in T /\ \A j \in T : Min(T) <= j
<1>1. \E i \in T : \A j \in T : i <= j
  BY Smallest
<1>. QED  BY <1>1 DEF Min

\* Places in a sequence of x elements followed by one of y, the last left out.
LEMMA Behind ==
  ASSUME NEW x \in Nat, NEW y \in Nat, NEW i \in x + 1 .. x + y - 1
  PROVE  i \in 1 .. x + y /\ ~(i <= x) /\ i - x \in 1 .. y - 1
OBVIOUS

LEMMA Ahead ==
  ASSUME NEW x \in Nat, NEW y \in Nat, NEW i \in 1 .. y - 1
  PROVE  /\ x + i \in x + 1 .. x + y - 1 /\ x + i \in 1 .. x + y
         /\ ~(x + i <= x) /\ (x + i) - x = i
OBVIOUS

LEMMA Regrouped ==
  ASSUME NEW x \in Nat, NEW y \in Nat, NEW z \in Nat
  PROVE  (x + y) + z = x + (y + z)
OBVIOUS

\* Places in a block of w elements after the first lo.
LEMMA InBlock ==
  ASSUME NEW lo \in Nat, NEW w \in Nat, NEW f \in 1 .. w, NEW h \in 1 .. w,
         NEW m \in lo + h .. lo + f - 1
  PROVE  m - lo \in 1 .. w /\ lo + (m - lo) = m /\ m - lo >= h /\ ~(f <= m - lo)
OBVIOUS

(***************************************************************************)
(* Text, character by character.                                           *)
(***************************************************************************)
LEMMA Shape ==
  ASSUME NEW t, IsText(t)
  PROVE  Len(t) \in Nat /\ DOMAIN t = 1 .. Len(t) /\ t = [k \in 1 .. Len(t) |-> t[k]]
BY LenProperties DEF IsText

LEMMA Cut ==
  ASSUME NEW p, IsText(p), NEW i \in Nat \ {0}, NEW j \in Int, i - 1 <= j, j <= Len(p)
  PROVE  /\ SubSeq(p, i, j) = [k \in 1 .. j - i + 1 |-> p[i + k - 1]]
         /\ IsText(SubSeq(p, i, j)) /\ Len(SubSeq(p, i, j)) = j - i + 1
<1>1. Len(p) \in Nat /\ DOMAIN p = 1 .. Len(p)
  BY Shape
<1>. DEFINE s == SubSeq(p, i, j)
<1>2. \A k \in i .. j : p[k] \in Range(p)
  BY <1>1 DEF Range
<1>3. /\ s \in Seq(Range(p)) /\ Len(s) = IF i <= j THEN j - i + 1 ELSE 0
      /\ \A k \in 1 .. j - i + 1 : s[k] = p[i + k - 1]
  BY <1>2, SubSeqProperties
<1>. HIDE DEF s
<1>4. Len(s) = j - i + 1
  BY <1>3
<1>5. s \in [1 .. Len(s) -> Range(p)]
  BY <1>3, LenProperties
<1>6. s = [k \in 1 .. j - i + 1 |-> p[i + k - 1]]
  BY <1>3, <1>4, <1>5
<1>7. IsText(s)
  BY <1>3, SeqOfRange DEF IsText
<1>. QED  BY <1>4, <1>6, <1>7 DEF s

LEMMA At ==
  ASSUME NEW t, NEW p, IsText(t), IsText(p), NEW i \in 1 .. Len(p) + 1 - Len(t)
  PROVE  OccursAt(t, p, i) <=> \A k \in 1 .. Len(t) : t[k] = p[i + k - 1]
<1>1. /\ Len(t) \in Nat /\ t = [k \in 1 .. Len(t) |-> t[k]] /\ Len(p) \in Nat
  BY Shape
<1>2. SubSeq(p, i, i + Len(t) - 1) = [k \in 1 .. Len(t) |-> p[i + k - 1]]
  <2>1. i \in Nat \ {0} /\ i + Len(t) - 1 \in Int /\ i - 1 <= i + Len(t) - 1 /\ i + Len(t) - 1 <= Len(p)
    BY <1>1
  <2>2. (i + Len(t) - 1) - i + 1 = Len(t)
    BY <1>1
  <2>. QED  BY <2>1, <2>2, Cut
<1>3. ASSUME OccursAt(t, p, i), NEW k \in 1 .. Len(t) PROVE t[k] = p[i + k - 1]
  BY <1>2, <1>3 DEF OccursAt
<1>4. ASSUME \A k \in 1 .. Len(t) : t[k] = p[i + k - 1] PROVE OccursAt(t, p, i)
  <2>1. [k \in 1 .. Len(t) |-> t[k]] = [k \in 1 .. Len(t) |-> p[i + k - 1]]
    BY <1>4
  <2>. QED  BY <1>1, <1>2, <2>1 DEF OccursAt
<1>. QED  BY <1>3, <1>4

\* Whatever contains a text contains its trigrams.
LEMMA GramsInside ==
  ASSUME NEW t, NEW p, IsText(t), IsText(p), Occurs(t, p)
  PROVE  Grams(t) \subseteq Grams(p)
<1>. SUFFICES ASSUME NEW k \in 1 .. Len(t) + 1 - Gram
              PROVE  SubSeq(t, k, k + Gram - 1) \in Grams(p)
  BY DEF Grams
<1>1. Gram \in Nat \ {0} /\ Len(t) \in Nat /\ Len(p) \in Nat
  BY SearchAssumption, Shape
<1>2. PICK i \in 1 .. Len(p) + 1 - Len(t) : \A l \in 1 .. Len(t) : t[l] = p[i + l - 1]
  <2>1. PICK i \in 1 .. Len(p) + 1 - Len(t) : OccursAt(t, p, i)
    BY DEF Occurs
  <2>2. \A l \in 1 .. Len(t) : t[l] = p[i + l - 1]
    BY <2>1, At
  <2>. QED  BY <2>2
<1>. DEFINE j == i + k - 1
<1>3. j \in 1 .. Len(p) + 1 - Gram
  BY <1>1
<1>4. SubSeq(t, k, k + Gram - 1) = [l \in 1 .. Gram |-> t[k + l - 1]]
  <2>1. k \in Nat \ {0} /\ k + Gram - 1 \in Int /\ k - 1 <= k + Gram - 1 /\ k + Gram - 1 <= Len(t)
    BY <1>1
  <2>2. (k + Gram - 1) - k + 1 = Gram
    BY <1>1
  <2>. QED  BY <2>1, <2>2, Cut
<1>5. SubSeq(p, j, j + Gram - 1) = [l \in 1 .. Gram |-> p[j + l - 1]]
  <2>1. j \in Nat \ {0} /\ j + Gram - 1 \in Int /\ j - 1 <= j + Gram - 1 /\ j + Gram - 1 <= Len(p)
    BY <1>1
  <2>2. (j + Gram - 1) - j + 1 = Gram
    BY <1>1
  <2>. QED  BY <2>1, <2>2, Cut
<1>6. \A l \in 1 .. Gram : t[k + l - 1] = p[j + l - 1]
  <2>. SUFFICES ASSUME NEW l \in 1 .. Gram PROVE t[k + l - 1] = p[j + l - 1]
    OBVIOUS
  <2>1. k + l - 1 \in 1 .. Len(t) /\ i + (k + l - 1) - 1 = j + l - 1
    BY <1>1
  <2>. QED  BY <1>2, <2>1
<1>7. SubSeq(t, k, k + Gram - 1) = SubSeq(p, j, j + Gram - 1)
  BY <1>4, <1>5, <1>6
<1>. QED  BY <1>3, <1>7 DEF Grams

(***************************************************************************)
(* The basename is what follows the last slash, and what ends with a text  *)
(* that has a slash has its basename.                                      *)
(***************************************************************************)
LastSlash(p, m) == m \in 1 .. Len(p) /\ p[m] = "/" /\ \A k \in m + 1 .. Len(p) : p[k] # "/"

LEMMA LastSlashExists ==
  ASSUME NEW p, IsText(p), Contains(p, "/")
  PROVE  \E m : LastSlash(p, m)
<1>1. Len(p) \in Nat
  BY Shape
<1>. DEFINE T == {n \in Nat : n < Len(p) /\ p[Len(p) - n] = "/"}
<1>2. PICK n \in T : \A k \in T : n <= k
  <2>1. PICK i \in 1 .. Len(p) : p[i] = "/"
    BY DEF Contains
  <2>2. Len(p) - i \in T
    <3>1. Len(p) - i \in Nat /\ Len(p) - i < Len(p) /\ Len(p) - (Len(p) - i) = i
      BY <1>1
    <3>. QED  BY <2>1, <3>1
  <2>3. T \subseteq Nat /\ T # {}
    BY <2>2
  <2>. HIDE DEF T
  <2>. QED  BY <2>3, Smallest
<1>3. Len(p) - n \in 1 .. Len(p) /\ p[Len(p) - n] = "/"
  BY <1>1
<1>4. ASSUME NEW k \in Len(p) - n + 1 .. Len(p), p[k] = "/" PROVE FALSE
  <2>1. Len(p) - k \in Nat /\ Len(p) - k < Len(p) /\ Len(p) - (Len(p) - k) = k /\ ~(n <= Len(p) - k)
    BY <1>1
  <2>2. Len(p) - k \in T
    BY <1>4, <2>1
  <2>. QED  BY <1>2, <2>1, <2>2
<1>. QED  BY <1>3, <1>4 DEF LastSlash

LEMMA BasenameIs ==
  ASSUME NEW p, IsText(p), NEW m, LastSlash(p, m)
  PROVE  BasenameOf(p) = SubSeq(p, m + 1, Len(p))
<1>1. Len(p) \in Nat /\ m \in 1 .. Len(p)
  BY Shape DEF LastSlash
<1>. DEFINE I == {i \in 1 .. Len(p) : p[i] = "/"}
<1>2. m \in I /\ \A k \in I : k <= m
  BY <1>1 DEF LastSlash
<1>3. I \subseteq Nat
  BY <1>1
<1>4. BasenameOf(p) = SubSeq(p, (IF I # {} THEN Max(I) ELSE 0) + 1, Len(p))
  BY DEF BasenameOf, SelectLastInSeq
<1>. HIDE DEF I
<1>5. Max(I) = m
  <2>1. Max(I) \in I /\ \A k \in I : Max(I) >= k
    BY <1>2, <1>3 DEF Max
  <2>2. Max(I) >= m /\ Max(I) <= m /\ m \in Nat /\ Max(I) \in Nat
    BY <1>2, <1>3, <2>1
  <2>. QED  BY <2>2
<1>. QED  BY <1>2, <1>4, <1>5

LEMMA SameBasename ==
  ASSUME NEW t, NEW p, IsText(t), IsText(p), Contains(t, "/"),
         NEW i \in 1 .. Len(p) + 1 - Len(t), OccursAt(t, p, i), i + Len(t) = Len(p) + 1
  PROVE  BasenameOf(p) = BasenameOf(t)
<1>1. Len(t) \in Nat /\ Len(p) \in Nat /\ \A k \in 1 .. Len(t) : t[k] = p[i + k - 1]
  BY Shape, At
<1>2. PICK m : LastSlash(t, m)
  BY LastSlashExists
<1>3. m \in 1 .. Len(t) /\ t[m] = "/" /\ \A k \in m + 1 .. Len(t) : t[k] # "/"
  BY <1>2 DEF LastSlash
<1>. DEFINE n == i + m - 1
<1>4. LastSlash(p, n)
  <2>1. n \in 1 .. Len(p) /\ p[n] = "/"
    BY <1>1, <1>3
  <2>2. ASSUME NEW k \in n + 1 .. Len(p) PROVE p[k] # "/"
    <3>1. k - i + 1 \in m + 1 .. Len(t) /\ k - i + 1 \in 1 .. Len(t) /\ i + (k - i + 1) - 1 = k
      BY <1>1, <1>3
    <3>2. t[k - i + 1] = p[k]
      BY <1>1, <3>1
    <3>. QED  BY <1>3, <3>1, <3>2
  <2>. QED  BY <2>1, <2>2 DEF LastSlash
<1>5. BasenameOf(p) = SubSeq(p, n + 1, Len(p)) /\ BasenameOf(t) = SubSeq(t, m + 1, Len(t))
  BY <1>2, <1>4, BasenameIs
<1>6. Len(p) - (n + 1) + 1 = Len(t) - m /\ Len(t) - (m + 1) + 1 = Len(t) - m
  BY <1>1, <1>3
<1>7. SubSeq(p, n + 1, Len(p)) = [k \in 1 .. Len(t) - m |-> p[n + 1 + k - 1]]
  BY <1>1, <1>3, <1>6, Cut
<1>8. SubSeq(t, m + 1, Len(t)) = [k \in 1 .. Len(t) - m |-> t[m + 1 + k - 1]]
  BY <1>1, <1>3, <1>6, Cut
<1>9. \A k \in 1 .. Len(t) - m : p[n + 1 + k - 1] = t[m + 1 + k - 1]
  <2>. SUFFICES ASSUME NEW k \in 1 .. Len(t) - m PROVE p[n + 1 + k - 1] = t[m + 1 + k - 1]
    OBVIOUS
  <2>1. m + k \in 1 .. Len(t) /\ i + (m + k) - 1 = n + 1 + k - 1 /\ m + 1 + k - 1 = m + k
    BY <1>1, <1>3
  <2>2. t[m + k] = p[i + (m + k) - 1]
    BY <1>1, <2>1
  <2>. QED  BY <2>1, <2>2
<1>. QED  BY <1>5, <1>7, <1>8, <1>9

(***************************************************************************)
(* What a match of a query says of the path.                               *)
(***************************************************************************)
LEMMA IndexFacts ==
  ASSUME index \in Indexes
  PROVE  /\ \E n \in Nat : Packages(index) = 1 .. n
         /\ index.frame \in [Packages(index) -> Nat]
         /\ \A S \in SUBSET Packages(index) : S # None
         /\ \A n \in Packages(index) :
              /\ IsFiniteSet(Paths(index, n))
              /\ \A p \in Paths(index, n) : IsText(p) /\ Len(p) >= 1 /\ p[1] = "/"
              /\ n > 1 => index.frame[n] \in {index.frame[n - 1], index.frame[n - 1] + 1}
<1>1. /\ index.packages \in Seq(Range(index.packages))
      /\ index.frame \in [Packages(index) -> Nat]
      /\ \A S \in SUBSET Packages(index) : S # None
      /\ \A n \in Packages(index) :
            /\ IsFiniteSet(Paths(index, n))
            /\ \A p \in Paths(index, n) : IsText(p) /\ p # <<>> /\ p[1] = "/"
            /\ n > 1 => index.frame[n] \in {index.frame[n - 1], index.frame[n - 1] + 1}
  BY SearchAssumption
<1>2. /\ Len(index.packages) \in Nat
      /\ DOMAIN index.packages = 1 .. Len(index.packages)
  BY <1>1, LenProperties
<1>3. \E n \in Nat : Packages(index) = 1 .. n
  BY <1>2 DEF Packages
<1>4. ASSUME NEW p, IsText(p), p # << >> PROVE Len(p) >= 1
  <2>1. Len(p) \in Nat \ {0}
    BY <1>4, EmptySeq DEF IsText
  <2>. QED  BY <2>1
<1>. QED  BY <1>1, <1>3, <1>4

LEMMA QueryFacts ==
  ASSUME NEW q, Query(q)
  PROVE  /\ IsText(q.pattern.head) /\ IsText(q.pattern.tail)
         /\ Len(q.pattern.head) \in Nat /\ Len(q.pattern.tail) \in Nat
         /\ q.pattern.group => q.pattern.gap
         /\ ~q.pattern.gap => q.pattern.tail = << >>
         /\ ~q.regex => ~q.pattern.gap
BY Shape DEF Query

LEMMA MatchContains ==
  ASSUME NEW q, Query(q), NEW p, IsText(p), Matches(q, p)
  PROVE  Occurs(q.pattern.head, p) /\ (q.pattern.gap => Occurs(q.pattern.tail, p))
<1>1. /\ Len(q.pattern.head) \in Nat /\ Len(q.pattern.tail) \in Nat /\ Len(p) \in Nat
  BY QueryFacts, Shape
<1>2. PICK i \in 1 .. Len(p) + 1 - Len(q.pattern.head) :
        /\ OccursAt(q.pattern.head, p, i)
        /\ q.pattern.gap =>
             \E j \in i + Len(q.pattern.head) .. Len(p) + 1 - Len(q.pattern.tail) :
               OccursAt(q.pattern.tail, p, j)
  BY DEF Matches
<1>3. Occurs(q.pattern.head, p)
  BY <1>2 DEF Occurs
<1>4. ASSUME q.pattern.gap PROVE Occurs(q.pattern.tail, p)
  <2>1. PICK j \in i + Len(q.pattern.head) .. Len(p) + 1 - Len(q.pattern.tail) :
          OccursAt(q.pattern.tail, p, j)
    BY <1>2, <1>4
  <2>2. j \in 1 .. Len(p) + 1 - Len(q.pattern.tail)
    BY <1>1, <1>2, <2>1
  <2>. QED  BY <2>1, <2>2 DEF Occurs
<1>. QED  BY <1>3, <1>4

\* Without .* there is one place to look at.
LEMMA MatchPlain ==
  ASSUME NEW q, Query(q), ~q.pattern.gap, NEW p
  PROVE  Matches(q, p) <=>
           \E i \in 1 .. Len(p) + 1 - Len(q.pattern.head) :
             /\ OccursAt(q.pattern.head, p, i)
             /\ q.root => i = 1
             /\ q.whole => i + Len(q.pattern.head) = Len(p) + 1
BY DEF Matches

\* The texts the trigrams are taken from are in every path that matches.
LEMMA Texts ==
  ASSUME NEW q, Query(q), ~q.pattern.group,
         NEW t \in {Literal(q), RegexPrefix(q), RegexSuffix(q)}
  PROVE  t = << >> \/ t = q.pattern.head \/ (q.pattern.gap /\ t = q.pattern.tail)
<1>1. q.pattern.head \o << >> = q.pattern.head
  BY QueryFacts, ConcatEmptySeq DEF IsText
<1>2. ~q.pattern.gap => q.pattern.tail = << >>
  BY QueryFacts
<1>. QED  BY <1>1, <1>2 DEF Literal, RegexPrefix, RegexSuffix, Long

LEMMA TextsOccur ==
  ASSUME NEW q, Query(q), ~q.pattern.group, NEW p, IsText(p), Matches(q, p),
         NEW t \in {Literal(q), RegexPrefix(q), RegexSuffix(q)}
  PROVE  IsText(t) /\ Occurs(t, p)
<1>1. t = << >> \/ t = q.pattern.head \/ (q.pattern.gap /\ t = q.pattern.tail)
  BY Texts
<1>2. CASE t = << >>
  <2>1. Len(t) = 0 /\ IsText(t)
    BY <1>2, EmptySeq DEF IsText
  <2>2. Len(p) \in Nat /\ 1 \in 1 .. Len(p) + 1 - Len(t)
    BY <2>1, Shape
  <2>3. OccursAt(t, p, 1)
    BY <2>1, <2>2, At
  <2>. QED  BY <2>1, <2>2, <2>3 DEF Occurs
<1>. QED  BY <1>1, <1>2, QueryFacts, MatchContains

LEMMA MatchRooted ==
  ASSUME NEW q, Query(q), AsksRoot(q),
         NEW p, IsText(p), Len(p) >= 1, p[1] = "/", Matches(q, p)
  PROVE  /\ Absolute(q) /\ Rooted(q) = q.pattern.head /\ IsPrefix(q.pattern.head, p)
         /\ q.whole => p = q.pattern.head
<1>. DEFINE h == q.pattern.head
<1>1. IsText(h) /\ Len(h) \in Nat /\ Len(p) \in Nat /\ ~q.pattern.gap /\ h # << >>
      /\ p = [k \in 1 .. Len(p) |-> p[k]] /\ h = [k \in 1 .. Len(h) |-> h[k]]
  BY QueryFacts, Shape DEF AsksRoot
<1>2. Len(h) >= 1
  <2>1. Len(h) \in Nat \ {0}
    BY <1>1, EmptySeq DEF IsText
  <2>. QED  BY <2>1
<1>3. PICK i \in 1 .. Len(p) + 1 - Len(h) :
        OccursAt(h, p, i) /\ i = 1 /\ (q.whole => i + Len(h) = Len(p) + 1)
  BY <1>1, MatchPlain DEF AsksRoot
<1>4. /\ Len(h) <= Len(p) /\ \A k \in 1 .. Len(h) : h[k] = p[k]
      /\ q.whole => Len(h) = Len(p)
  <2>1. \A k \in 1 .. Len(h) : h[k] = p[i + k - 1]
    BY <1>1, <1>3, At
  <2>. QED  BY <1>1, <1>3, <2>1
<1>5. Absolute(q) /\ Rooted(q) = h
  BY <1>1, <1>2, <1>4 DEF Absolute, Rooted
<1>6. IsPrefix(h, p)
  <2>1. /\ SubSeq(h, 1, Len(h)) = [k \in 1 .. Len(h) - 1 + 1 |-> h[1 + k - 1]]
        /\ SubSeq(p, 1, Len(h)) = [k \in 1 .. Len(h) - 1 + 1 |-> p[1 + k - 1]]
    BY <1>1, <1>4, Cut
  <2>2. \A k \in 1 .. Len(h) - 1 + 1 : h[1 + k - 1] = p[1 + k - 1]
    BY <1>1, <1>4
  <2>. QED  BY <1>4, <2>1, <2>2 DEF IsPrefix
<1>7. ASSUME q.whole PROVE p = h
  BY <1>1, <1>4, <1>7
<1>. QED  BY <1>5, <1>6, <1>7

\* Exact path, prefix and basename hold of every path that matches.
LEMMA MatchPath ==
  ASSUME NEW q, Query(q), NEW p, IsText(p), Len(p) >= 1, p[1] = "/", Matches(q, p)
  PROVE  /\ ExactPath(q) # << >> => p = ExactPath(q)
         /\ PathPrefix(q) # << >> => IsPrefix(PathPrefix(q), p)
         /\ ExactBasename(q) # << >> => BasenameOf(p) = ExactBasename(q)
<1>1. ASSUME ExactPath(q) # << >> PROVE p = ExactPath(q)
  <2>1. AsksRoot(q) /\ q.whole /\ ExactPath(q) = Rooted(q)
    BY <1>1 DEF ExactPath
  <2>. QED  BY <2>1, MatchRooted
<1>2. ASSUME PathPrefix(q) # << >> PROVE IsPrefix(PathPrefix(q), p)
  <2>1. AsksRoot(q) /\ PathPrefix(q) = Rooted(q)
    BY <1>2 DEF PathPrefix
  <2>. QED  BY <2>1, MatchRooted
<1>3. ASSUME ExactBasename(q) # << >> PROVE BasenameOf(p) = ExactBasename(q)
  <2>1. /\ ~q.regex /\ q.whole /\ Contains(q.pattern.head, "/")
        /\ ExactBasename(q) = BasenameOf(q.pattern.head)
    BY <1>3 DEF ExactBasename
  <2>2. ~q.pattern.gap /\ IsText(q.pattern.head)
    BY <2>1, QueryFacts
  <2>3. PICK i \in 1 .. Len(p) + 1 - Len(q.pattern.head) :
          OccursAt(q.pattern.head, p, i) /\ i + Len(q.pattern.head) = Len(p) + 1
    BY <2>1, <2>2, MatchPlain
  <2>. QED  BY <2>1, <2>2, <2>3, SameBasename
<1>. QED  BY <1>1, <1>2, <1>3

(***************************************************************************)
(* The candidates hold every package with a match.                         *)
(***************************************************************************)
LEMMA CandidatesKeep ==
  ASSUME index \in Indexes, NEW q, Query(q), ~q.pattern.group,
         NEW n \in Packages(index), NEW p \in Paths(index, n), Matches(q, p),
         Both(BaseOrdinals(q), NgramOrdinals(q)) # None
  PROVE  n \in Both(BaseOrdinals(q), NgramOrdinals(q))
<1>1. IsText(p) /\ Len(p) >= 1 /\ p[1] = "/"
  BY IndexFacts
<1>2. /\ ExactPath(q) # << >> => p = ExactPath(q)
      /\ PathPrefix(q) # << >> => IsPrefix(PathPrefix(q), p)
      /\ ExactBasename(q) # << >> => BasenameOf(p) = ExactBasename(q)
  BY <1>1, MatchPath
<1>3. ASSUME NgramOrdinals(q) # None PROVE n \in NgramOrdinals(q)
  <2>1. NgramOrdinals(q) = {m \in Packages(index) : \A t \in Usable(q) : m \in GramOrdinals(t)}
    BY <1>3 DEF NgramOrdinals
  <2>2. ASSUME NEW t \in Usable(q) PROVE n \in GramOrdinals(t)
    <3>1. IsText(t) /\ Occurs(t, p)
      BY <1>1, TextsOccur DEF Usable
    <3>2. Grams(t) \subseteq Grams(p)
      BY <1>1, <3>1, GramsInside
    <3>. QED  BY <3>2 DEF GramOrdinals
  <2>. QED  BY <2>1, <2>2
<1>4. ASSUME BaseOrdinals(q) # None PROVE n \in BaseOrdinals(q)
  <2>. DEFINE base == IF ExactBasename(q) # <<>> /\ "basename" \in dir
                      THEN {BasenameOrdinals(ExactBasename(q))} ELSE {}
              path == IF "path" \notin dir THEN {}
                      ELSE IF ExactPath(q) # <<>> THEN {PathOrdinals(ExactPath(q))}
                      ELSE IF PathPrefix(q) # <<>> THEN {PrefixOrdinals(PathPrefix(q))} ELSE {}
  <2>1. BaseOrdinals(q) = IF base \cup path = {} THEN None ELSE UNION (base \cup path)
    BY DEF BaseOrdinals
  <2>2. \A S \in base : n \in S
    BY <1>2 DEF BasenameOrdinals
  <2>3. \A S \in path : n \in S
    BY <1>2 DEF PathOrdinals, PrefixOrdinals
  <2>4. base \cup path # {} /\ BaseOrdinals(q) = UNION (base \cup path)
    BY <1>4, <2>1
  <2>. HIDE DEF base, path
  <2>. QED  BY <2>2, <2>3, <2>4
<1>. QED  BY <1>3, <1>4 DEF Both

LEMMA CandidatesType ==
  ASSUME NEW q
  PROVE  LET S == Both(BaseOrdinals(q), NgramOrdinals(q))
         IN S = None \/ S \subseteq Packages(index)
<1>1. NgramOrdinals(q) = None \/ NgramOrdinals(q) \subseteq Packages(index)
  BY DEF NgramOrdinals
<1>2. BaseOrdinals(q) = None \/ BaseOrdinals(q) \subseteq Packages(index)
  BY DEF BaseOrdinals, BasenameOrdinals, PathOrdinals, PrefixOrdinals
<1>. QED  BY <1>1, <1>2 DEF Both

(***************************************************************************)
(* The sets the shortcuts answer from.                                     *)
(***************************************************************************)
FileFacts(e) ==
  /\ e = <<e[1], e[2]>> /\ e[1] \in Packages(index) /\ e[2] \in Paths(index, e[1])
  /\ IsText(e[2]) /\ Len(e[2]) >= 1 /\ e[2][1] = "/"

LEMMA AFile ==
  ASSUME index \in Indexes, NEW e \in Files
  PROVE  FileFacts(e)
<1>1. e \in Entries /\ e[2] \in Paths(index, e[1])
  BY DEF Files
<1>2. e = <<e[1], e[2]>> /\ e[1] \in Packages(index)
  BY <1>1 DEF Entries
<1>. QED  BY <1>1, <1>2, IndexFacts DEF FileFacts

LEMMA IsFile ==
  ASSUME NEW n \in Packages(index), NEW p \in Paths(index, n)
  PROVE  <<n, p>> \in Files
BY DEF Files, Entries

\* For a literal that may stand anywhere, to occur is to match.
LEMMA LiteralMatches ==
  ASSUME NEW q, Query(q), Literal(q) # << >>, NEW p
  PROVE  ~q.pattern.gap /\ (Matches(q, p) <=> Occurs(Literal(q), p))
<1>1. ~q.regex /\ ~q.root /\ ~q.whole /\ Literal(q) = q.pattern.head
  BY DEF Literal
<1>2. ~q.pattern.gap
  BY <1>1, QueryFacts
<1>. QED  BY <1>1, <1>2, MatchPlain DEF Occurs

LEMMA ByPath ==
  ASSUME index \in Indexes, NEW q, Query(q), ExactPath(q) # << >>,
         NEW e \in Files
  PROVE  /\ Matches(q, e[2]) => e[2] = ExactPath(q)
         /\ WholeQuery(q) /\ e[2] = ExactPath(q) => Matches(q, e[2])
<1>1. IsText(e[2]) /\ Len(e[2]) >= 1 /\ e[2][1] = "/"
  BY AFile DEF FileFacts
<1>2. Matches(q, e[2]) => e[2] = ExactPath(q)
  BY <1>1, MatchPath
<1>3. ASSUME WholeQuery(q), e[2] = ExactPath(q) PROVE Matches(q, e[2])
  <2>1. ~q.regex /\ q.root /\ q.whole /\ ExactPath(q) = Rooted(q)
    BY DEF ExactPath, AsksRoot
  <2>2. Absolute(q)
    BY <1>3, <2>1 DEF WholeQuery, Literal
  <2>3. e[2] = q.pattern.head /\ ~q.pattern.gap
    BY <1>3, <2>1, <2>2, QueryFacts DEF Rooted
  <2>4. Len(e[2]) \in Nat /\ 1 \in 1 .. Len(e[2]) + 1 - Len(e[2])
    BY <1>1, Shape
  <2>5. OccursAt(e[2], e[2], 1)
    <3>1. \A k \in 1 .. Len(e[2]) : e[2][k] = e[2][1 + k - 1]
      BY <2>4
    <3>. QED  BY <1>1, <2>4, <3>1, At
  <2>. QED  BY <2>3, <2>4, <2>5, MatchPlain
<1>. QED  BY <1>2, <1>3

LEMMA ByName ==
  ASSUME index \in Indexes, NEW q, Query(q), ExactBasename(q) # << >>, ExactPath(q) = << >>,
         PathPrefix(q) = << >>, NEW e \in Files
  PROVE  /\ Matches(q, e[2]) => BasenameOf(e[2]) = ExactBasename(q)
         /\ WholeQuery(q) /\ BasenameOf(e[2]) = ExactBasename(q) => Matches(q, e[2])
<1>. DEFINE p == e[2]  base == ExactBasename(q)  head == q.pattern.head
<1>1. IsText(p) /\ Len(p) >= 1 /\ p[1] = "/" /\ Len(p) \in Nat
  BY AFile, Shape DEF FileFacts
<1>2. Matches(q, p) => BasenameOf(p) = base
  BY <1>1, MatchPath
<1>3. ASSUME WholeQuery(q), BasenameOf(p) = base PROVE Matches(q, p)
  <2>1. ~q.regex /\ q.whole /\ ~q.pattern.gap /\ IsText(head) /\ Len(head) \in Nat
    BY QueryFacts DEF ExactBasename
  <2>2. head = <<"/">> \o base
    BY <1>3, <2>1 DEF WholeQuery, Literal
  <2>3. PICK m : LastSlash(p, m)
    <3>1. Contains(p, "/")
      BY <1>1 DEF Contains
    <3>. QED  BY <1>1, <3>1, LastSlashExists
  <2>4. m \in 1 .. Len(p) /\ p[m] = "/"
    BY <2>3 DEF LastSlash
  <2>5. /\ base = [k \in 1 .. Len(p) - (m + 1) + 1 |-> p[m + 1 + k - 1]]
        /\ Len(base) = Len(p) - (m + 1) + 1 /\ IsText(base)
    <3>1. base = SubSeq(p, m + 1, Len(p))
      BY <1>1, <1>3, <2>3, BasenameIs
    <3>2. m + 1 \in Nat \ {0} /\ Len(p) \in Int /\ m + 1 - 1 <= Len(p)
      BY <1>1, <2>4
    <3>3. IsText(p)
      BY <1>1
    <3>. HIDE DEF base, p
    <3>4. /\ SubSeq(p, m + 1, Len(p)) = [k \in 1 .. Len(p) - (m + 1) + 1 |-> p[m + 1 + k - 1]]
          /\ IsText(SubSeq(p, m + 1, Len(p)))
          /\ Len(SubSeq(p, m + 1, Len(p))) = Len(p) - (m + 1) + 1
      BY <1>1, <2>4, <3>2, <3>3, Cut
    <3>. QED  BY <3>1, <3>4
  <2>6. /\ Len(head) = 1 + Len(base)
        /\ head[1] = "/"
        /\ \A k \in 2 .. Len(head) : head[k] = base[k - 1]
    <3>. DEFINE C == Range(base) \cup {"/"}
    <3>1. base \in Seq(C) /\ <<"/">> \in Seq(C) /\ Len(<<"/">>) = 1
      BY <2>5, SeqMonotonic DEF IsText
    <3>. HIDE DEF C, base, head
    <3>2. /\ Len(head) = 1 + Len(base) /\ Len(base) \in Nat
          /\ \A i \in 1 .. 1 + Len(base) : head[i] = IF i <= 1 THEN <<"/">>[i] ELSE base[i - 1]
      BY <2>2, <3>1, ConcatProperties, LenProperties
    <3>3. head[1] = "/"
      BY <3>2
    <3>. QED  BY <3>2, <3>3
  <2>7. ~q.root
    <3>1. ASSUME q.root PROVE FALSE
      <4>1. head # << >>
        <5>1. Len(<<>>) = 0
          BY EmptySeq
        <5>. QED  BY <1>1, <2>4, <2>5, <2>6, <5>1
      <4>2. AsksRoot(q) /\ Absolute(q) /\ ExactPath(q) = head
        BY <2>1, <2>6, <3>1, <4>1 DEF AsksRoot, Absolute, ExactPath, Rooted
      <4>. QED  BY <4>1, <4>2
    <3>. QED  BY <3>1
  <2>8. Len(base) = Len(p) - m /\ Len(base) \in Nat
    BY <1>1, <2>4, <2>5
  <2>. HIDE DEF p, base, head
  <2>9. m \in 1 .. Len(p) + 1 - Len(head) /\ m + Len(head) = Len(p) + 1
    BY <1>1, <2>4, <2>6, <2>8
  <2>10. OccursAt(head, p, m)
    <3>1. ASSUME NEW k \in 1 .. Len(head) PROVE head[k] = p[m + k - 1]
      <4>1. CASE k = 1
        BY <2>4, <2>6, <4>1
      <4>2. CASE k # 1
        <5>1. k \in 2 .. Len(head) /\ k - 1 \in 1 .. Len(p) - (m + 1) + 1 /\ m + 1 + (k - 1) - 1 = m + k - 1
          BY <1>1, <2>4, <2>6, <2>8, <4>2
        <5>. QED  BY <2>5, <2>6, <5>1
      <4>. QED  BY <4>1, <4>2
    <3>. QED  BY <1>1, <2>1, <2>9, <3>1, At
  <2>. QED  BY <2>1, <2>7, <2>9, <2>10, MatchPlain DEF head
<1>. QED  BY <1>2, <1>3

LEMMA ByTrigrams ==
  ASSUME index \in Indexes, NEW q, Query(q),
         Needle(q) # << >>, ExactBasename(q) = << >>, ExactPath(q) = << >>, PathPrefix(q) = << >>,
         NEW e \in Files
  PROVE  /\ Matches(q, e[2]) /\ ~q.pattern.group => e[2] \in TrigramIds(q) /\ Verified(q, e[2])
         /\ WholeQuery(q) /\ Verified(q, e[2]) => Matches(q, e[2])
<1>1. IsText(e[2])
  BY AFile DEF FileFacts
<1>2. ASSUME Matches(q, e[2]), ~q.pattern.group
      PROVE  e[2] \in TrigramIds(q) /\ Verified(q, e[2])
  <2>1. ASSUME NEW t \in {Literal(q), RegexPrefix(q), RegexSuffix(q)}
        PROVE  Occurs(t, e[2]) /\ e[2] \in PathIds(t)
    <3>1. IsText(t) /\ Occurs(t, e[2])
      BY <1>1, <1>2, TextsOccur
    <3>2. Grams(t) \subseteq Grams(e[2])
      BY <1>1, <3>1, GramsInside
    <3>. QED  BY <3>1, <3>2 DEF PathIds
  <2>2. Needle(q) \in {Literal(q), RegexPrefix(q), RegexSuffix(q)}
    BY DEF Needle
  <2>3. Second(q) # << >> => Second(q) = RegexSuffix(q)
    BY DEF Second
  <2>. QED  BY <1>2, <2>1, <2>2, <2>3 DEF TrigramIds, Verified
<1>3. ASSUME WholeQuery(q), Verified(q, e[2]) PROVE Matches(q, e[2])
  <2>1. CASE Literal(q) # << >>
    <3>1. Occurs(Literal(q), e[2])
      BY <1>3, <2>1 DEF Verified, Needle
    <3>. QED  BY <2>1, <3>1, LiteralMatches
  <2>2. CASE Literal(q) = << >>
    <3>1. Second(q) # << >>
      BY <1>3, <2>2 DEF WholeQuery
    <3>. QED  BY <1>3, <3>1 DEF Verified
  <2>. QED  BY <2>1, <2>2
<1>. QED  BY <1>2, <1>3

\* A text that is too short for trigrams is a literal that may stand anywhere.
LEMMA ByLiteral ==
  ASSUME NEW q, Query(q), Needle(q) # << >>, Len(Needle(q)) < Gram, NEW p
  PROVE  Matches(q, p) <=> Occurs(Needle(q), p)
<1>1. ASSUME NEW t, Long(t) # << >> PROVE ~(Len(Long(t)) < Gram)
  BY <1>1 DEF Long
<1>2. Literal(q) # << >>
  BY <1>1 DEF Needle, RegexPrefix, RegexSuffix
<1>. QED  BY <1>2, LiteralMatches DEF Needle

(***************************************************************************)
(* To stop at the limit and to cut once more is to cut once.               *)
(***************************************************************************)
LEMMA CutTwice ==
  ASSUME NEW sort, NEW limit \in Nat \cup {None}, NEW S,
         NEW T \in FirstOf("none", IF sort = "none" THEN limit ELSE None, S),
         NEW F \in FirstOf(sort, limit, T)
  PROVE  F \in FirstOf(sort, limit, S)
<1>1. CASE sort # "none"
  <2>1. T = S
    BY <1>1 DEF FirstOf
  <2>. QED  BY <2>1
<1>2. CASE sort = "none" /\ (limit = None \/ Cardinality(S) <= limit)
  <2>1. T = S
    BY <1>2 DEF FirstOf
  <2>. QED  BY <2>1
<1>3. CASE sort = "none" /\ ~(limit = None \/ Cardinality(S) <= limit)
  <2>1. T \in FirstOf(sort, limit, S) /\ T \in kSubset(limit, S)
    BY <1>3 DEF FirstOf
  <2>2. Cardinality(T) <= limit
    BY <1>3, <2>1 DEF kSubset
  <2>3. F = T
    BY <2>2 DEF FirstOf
  <2>. QED  BY <2>1, <2>3
<1>. QED  BY <1>1, <1>2, <1>3

LEMMA CutInside ==
  ASSUME NEW sort, NEW limit, NEW S, NEW T \in FirstOf(sort, limit, S)
  PROVE  T \subseteq S /\ (limit = None => T = S)
BY DEF FirstOf, kSubset

(***************************************************************************)
(* A frame holds packages that follow one another.                         *)
(***************************************************************************)
LEMMA FramesRise ==
  ASSUME index \in Indexes, NEW i \in Packages(index), NEW j \in Packages(index), i <= j
  PROVE  index.frame[i] <= index.frame[j]
<1>. DEFINE F == index.frame
            T == {k \in Packages(index) : i <= k /\ ~(F[i] <= F[k])}
<1>1. PICK n \in Nat : Packages(index) = 1 .. n
  BY IndexFacts
<1>2. F \in [1 .. n -> Nat]
  BY <1>1, IndexFacts
<1>. SUFFICES ASSUME T # {} PROVE FALSE
  BY DEF T
<1>3. PICK k \in T : \A l \in T : k <= l
  <2>1. T \subseteq Nat
    BY <1>1
  <2>. HIDE DEF T
  <2>. QED  BY <2>1, Smallest
<1>4. k \in 1 .. n /\ i \in 1 .. n /\ k # i /\ i <= k /\ ~(F[i] <= F[k])
  BY <1>1, <1>2, <1>3
<1>5. k > 1 /\ k - 1 \in 1 .. n /\ i <= k - 1 /\ ~(k <= k - 1)
  BY <1>4
<1>6. F[k] \in {F[k - 1], F[k - 1] + 1}
  BY <1>1, <1>4, <1>5, IndexFacts
<1>7. F[i] <= F[k - 1]
  BY <1>1, <1>3, <1>5
<1>8. F[i] \in Nat /\ F[k] \in Nat /\ F[k - 1] \in Nat
  BY <1>2, <1>4, <1>5
<1>. QED  BY <1>4, <1>6, <1>7, <1>8

LEMMA FrameIsInterval ==
  ASSUME index \in Indexes, NEW f, Frame(f) # {}
  PROVE  \E a \in Nat \ {0}, k \in Nat \ {0} :
           Frame(f) = a .. a + k - 1 /\ Cardinality(Frame(f)) = k /\ Min(Frame(f)) = a
<1>1. PICK n \in Nat : Packages(index) = 1 .. n
  BY IndexFacts
<1>2. Frame(f) \subseteq 1 .. n /\ Frame(f) \subseteq Nat
  BY <1>1 DEF Frame
<1>3. Min(Frame(f)) \in Frame(f) /\ \A j \in Frame(f) : Min(Frame(f)) <= j
  BY <1>2, MinIs
<1>. DEFINE a == Min(Frame(f))
            T == {n - i : i \in Frame(f)}
<1>4. PICK b \in Frame(f) : \A j \in Frame(f) : j <= b
  <2>1. T \subseteq Nat /\ T # {}
    BY <1>1, <1>2
  <2>2. PICK m \in T : \A l \in T : m <= l
    <3>. HIDE DEF T
    <3>. QED  BY <2>1, Smallest
  <2>3. PICK b \in Frame(f) : m = n - b
    BY <2>2
  <2>4. ASSUME NEW j \in Frame(f) PROVE j <= b
    <3>1. n - b <= n - j
      BY <2>2, <2>3
    <3>2. j \in 1 .. n /\ b \in 1 .. n
      BY <1>2, <2>3
    <3>. QED  BY <1>1, <3>1, <3>2
  <2>. QED  BY <2>3, <2>4
<1>. HIDE DEF T
<1>5. a \in 1 .. n /\ b \in 1 .. n /\ a <= b /\ index.frame[a] = f /\ index.frame[b] = f
  BY <1>2, <1>3, <1>4 DEF Frame
<1>. HIDE DEF a
<1>6. ASSUME NEW c \in a .. b PROVE c \in Frame(f)
  <2>1. c \in 1 .. n
    BY <1>1, <1>5
  <2>2. index.frame[a] <= index.frame[c] /\ index.frame[c] <= index.frame[b]
    BY <1>1, <1>5, <2>1, FramesRise
  <2>3. index.frame[a] \in Nat /\ index.frame[b] \in Nat /\ index.frame[c] \in Nat
    BY <1>1, <1>5, <2>1, IndexFacts
  <2>4. index.frame[c] = f
    BY <1>5, <2>2, <2>3
  <2>. QED  BY <1>1, <2>1, <2>4 DEF Frame
<1>7. ASSUME NEW c \in Frame(f) PROVE c \in a .. b
  <2>1. c \in 1 .. n /\ a <= c /\ c <= b
    BY <1>2, <1>3, <1>4 DEF a
  <2>. QED  BY <1>1, <1>5, <2>1
<1>. DEFINE k == b - a + 1
<1>8. k \in Nat \ {0} /\ a \in Nat \ {0} /\ a + k - 1 = b
  BY <1>5
<1>9. Frame(f) = a .. b
  BY <1>6, <1>7
<1>10. Cardinality(a .. b) = k
  <2>1. Cardinality(a .. b) = IF a > b THEN 0 ELSE b - a + 1
    BY <1>5, FS_Interval
  <2>. QED  BY <1>5, <2>1
<1>. QED  BY <1>8, <1>9, <1>10 DEF a

(***************************************************************************)
(* The lines of a frame: the files of its packages, each package followed  *)
(* by its footer.  Feet are the footers among the first m lines, and Foot  *)
(* says that line j is the footer of line i.                               *)
(***************************************************************************)
Line == [path : {<< >>} \cup UNION {Paths(index, n) : n \in Packages(index)}, of : Nat]

Feet(L, m) == {i \in 1 .. m : L[i].of # 0}
Counted(L, m) == Cardinality(Feet(L, m))
Foot(L, i, j) ==
  /\ i \in 1 .. Len(L) /\ j \in 1 .. Len(L) /\ i < j
  /\ L[j].of # 0 /\ \A k \in i .. j - 1 : L[k].of = 0

Written(L, a, k) ==
  /\ L \in Seq(Line)
  /\ Len(L) > 0 => L[Len(L)].of # 0
  /\ Counted(L, Len(L)) = k
  /\ \A j \in 1 .. Len(L) : L[j].of # 0 => L[j].of = a + Counted(L, j - 1)
  /\ \A i, j : Foot(L, i, j) => L[i].path \in Paths(index, L[j].of)
  /\ \A n \in a .. a + k - 1 : \A p \in Paths(index, n) :
       \E i, j : Foot(L, i, j) /\ L[i].path = p /\ L[j].of = n

LEMMA FeetCount ==
  ASSUME NEW L, NEW m \in Nat
  PROVE  /\ IsFiniteSet(Feet(L, m)) /\ Counted(L, m) \in Nat
         /\ Counted(L, 0) = 0
         /\ Counted(L, m + 1) = Counted(L, m) + (IF L[m + 1].of # 0 THEN 1 ELSE 0)
<1>1. IsFiniteSet(Feet(L, m))
  <2>1. Feet(L, m) \in SUBSET (1 .. m)
    BY DEF Feet
  <2>2. IsFiniteSet(1 .. m)
    BY FS_Interval
  <2>. QED  BY <2>1, <2>2, FS_Subset
<1>2. Counted(L, m) \in Nat
  BY <1>1, FS_CardinalityType DEF Counted
<1>3. Counted(L, 0) = 0
  <2>1. Feet(L, 0) = {}
    BY DEF Feet
  <2>. QED  BY <2>1, FS_EmptySet DEF Counted
<1>4. CASE L[m + 1].of # 0
  <2>1. Feet(L, m + 1) = Feet(L, m) \cup {m + 1} /\ m + 1 \notin Feet(L, m)
    BY <1>4 DEF Feet
  <2>2. Cardinality(Feet(L, m) \cup {m + 1}) = Cardinality(Feet(L, m)) + 1
    BY <1>1, <2>1, FS_AddElement
  <2>. QED  BY <1>1, <1>2, <1>3, <1>4, <2>1, <2>2 DEF Counted
<1>5. CASE ~(L[m + 1].of # 0)
  <2>1. Feet(L, m + 1) = Feet(L, m)
    BY <1>5 DEF Feet
  <2>. QED  BY <1>1, <1>2, <1>3, <1>5, <2>1 DEF Counted
<1>. QED  BY <1>4, <1>5

LEMMA PackageLines ==
  ASSUME index \in Indexes, NEW n \in Packages(index)
  PROVE  LET l == LinesOf(n)
         IN  /\ l \in Seq(Line) /\ Len(l) \in Nat /\ Len(l) >= 1 /\ l[Len(l)].of = n /\ n # 0
             /\ \A k \in 1 .. Len(l) - 1 : l[k].of = 0 /\ l[k].path \in Paths(index, n)
             /\ \A p \in Paths(index, n) : \E k \in 1 .. Len(l) - 1 : l[k].path = p
<1>. DEFINE P == Paths(index, n)
            c == Cardinality(P)
            g == SetToSeq(P)
            files == [j \in 1 .. c |-> [path |-> g[j], of |-> 0]]
            foot == [path |-> << >>, of |-> n]
<1>1. IsFiniteSet(P)
  BY IndexFacts
<1>2. n \in Nat /\ n # 0
  BY IndexFacts
<1>3. c \in Nat /\ ExistsBijection(1 .. c, P)
  BY <1>1, FS_CardinalityType
<1>4. g \in Injection(1 .. c, P)
  <2>1. \E f \in [1 .. c -> P] : IsInjective(f)
    BY <1>3 DEF ExistsBijection, Bijection, Injection
  <2>2. g \in [1 .. c -> P] /\ IsInjective(g)
    BY <2>1 DEF SetToSeq
  <2>. QED  BY <2>2 DEF Injection
<1>. HIDE DEF g
<1>5. g \in Surjection(1 .. c, P)
  <2>1. Cardinality(1 .. c) = c
    <3>1. Cardinality(1 .. c) = IF 1 > c THEN 0 ELSE c - 1 + 1
      BY <1>3, FS_Interval
    <3>. HIDE DEF c
    <3>. QED  BY <1>3, <3>1
  <2>. QED  BY <1>1, <1>4, <2>1, FS_Injection
<1>6. g \in [1 .. c -> P] /\ \A p \in P : \E k \in 1 .. c : g[k] = p
  BY <1>5 DEF Surjection
<1>. HIDE DEF c
<1>7. files \in Seq(Line) /\ Len(files) = c /\ foot \in Line
  <2>1. \A k \in 1 .. c : [path |-> g[k], of |-> 0] \in Line
    BY <1>6 DEF Line
  <2>2. foot \in Line
    <3>1. << >> \in {<< >>} \cup UNION {Paths(index, m) : m \in Packages(index)}
      OBVIOUS
    <3>. QED  BY <1>2, <3>1 DEF Line
  <2>. QED  BY <1>3, <2>1, <2>2
<1>8. LinesOf(n) = Append(files, foot)
  BY DEF LinesOf, c, g
<1>9. \A k \in 1 .. c : files[k] = [path |-> g[k], of |-> 0]
  OBVIOUS
<1>. HIDE DEF files, foot, P
<1>10. /\ Append(files, foot) \in Seq(Line) /\ Len(Append(files, foot)) = c + 1
       /\ \A i \in 1 .. c : Append(files, foot)[i] = files[i]
       /\ Append(files, foot)[c + 1] = foot
  BY <1>7, AppendProperties
<1>. DEFINE l == LinesOf(n)
<1>11. /\ l \in Seq(Line) /\ Len(l) = c + 1 /\ l[c + 1] = foot
       /\ \A i \in 1 .. c : l[i] = files[i]
  BY <1>8, <1>10
<1>. HIDE DEF l
<1>12. Len(l) - 1 = c /\ Len(l) \in Nat /\ Len(l) >= 1
  BY <1>3, <1>11
<1>13. l[Len(l)].of = n
  BY <1>11 DEF foot
<1>14. \A k \in 1 .. Len(l) - 1 : l[k].of = 0 /\ l[k].path = g[k] /\ g[k] \in P
  <2>. SUFFICES ASSUME NEW k \in 1 .. c PROVE l[k].of = 0 /\ l[k].path = g[k] /\ g[k] \in P
    BY <1>12
  <2>1. l[k] = [path |-> g[k], of |-> 0]
    BY <1>9, <1>11
  <2>2. g[k] \in P
    BY <1>6
  <2>. QED  BY <2>1, <2>2
<1>15. \A p \in P : \E k \in 1 .. Len(l) - 1 : l[k].path = p
  BY <1>6, <1>12, <1>14
<1>. QED  BY <1>2, <1>11, <1>12, <1>13, <1>14, <1>15 DEF l, P

LEMMA WrittenNothing ==
  ASSUME NEW a \in Nat
  PROVE  Written(<< >>, a, 0)
<1>1. << >> \in Seq(Line) /\ Len(<< >>) = 0
  BY EmptySeq
<1>2. Counted(<< >>, Len(<< >>)) = 0
  BY <1>1, FeetCount
<1>3. \A n \in a .. a + 0 - 1 : FALSE
  OBVIOUS
<1>. QED  BY <1>1, <1>2, <1>3 DEF Written, Foot

\* Counts look at the lines before them only.
LEMMA SameFeet ==
  ASSUME NEW L, NEW M, NEW m \in Nat, \A i \in 1 .. m : L[i] = M[i]
  PROVE  Feet(L, m) = Feet(M, m) /\ Counted(L, m) = Counted(M, m)
<1>1. Feet(L, m) = Feet(M, m)
  BY DEF Feet
<1>. QED  BY <1>1 DEF Counted

LEMMA NoMoreFeet ==
  ASSUME NEW L, NEW m \in Nat, NEW n \in Nat, m <= n, \A i \in m + 1 .. n : L[i].of = 0
  PROVE  Counted(L, n) = Counted(L, m)
<1>1. Feet(L, n) = Feet(L, m)
  <2>1. ASSUME NEW i \in Feet(L, n) PROVE i \in Feet(L, m)
    <3>1. i \in 1 .. n /\ L[i].of # 0
      BY DEF Feet
    <3>2. ~(i \in m + 1 .. n)
      BY <3>1
    <3>3. i \in 1 .. m
      BY <3>1, <3>2
    <3>. QED  BY <3>1, <3>3 DEF Feet
  <2>2. Feet(L, m) \subseteq Feet(L, n)
    BY DEF Feet
  <2>. QED  BY <2>1, <2>2
<1>. QED  BY <1>1 DEF Counted

LEMMA WrittenOneMore ==
  ASSUME index \in Indexes, NEW L, NEW a \in Nat, NEW k \in Nat, Written(L, a, k),
         a + k \in Packages(index)
  PROVE  Written(L \o LinesOf(a + k), a, k + 1)
<1>. DEFINE n == a + k
            l == LinesOf(n)
            M == L \o l
            x == Len(L)
            y == Len(l)
<1>1. L \in Seq(Line) /\ x \in Nat
  BY LenProperties DEF Written
<1>2. /\ l \in Seq(Line) /\ y \in Nat /\ y >= 1 /\ l[y].of = n /\ n # 0
      /\ \A i \in 1 .. y - 1 : l[i].of = 0 /\ l[i].path \in Paths(index, n)
      /\ \A p \in Paths(index, n) : \E i \in 1 .. y - 1 : l[i].path = p
  BY PackageLines
<1>. HIDE DEF l
<1>3. /\ M \in Seq(Line) /\ Len(M) = x + y
      /\ \A i \in 1 .. x + y : M[i] = IF i <= x THEN L[i] ELSE l[i - x]
  BY <1>1, <1>2, ConcatProperties
<1>. HIDE DEF M
<1>n. x \in Nat /\ y \in Nat /\ y >= 1 /\ Len(M) = x + y
  BY <1>1, <1>2, <1>3
<1>4. \A i \in 1 .. x : M[i] = L[i]
  BY <1>1, <1>2, <1>3
<1>5. /\ M[x + y].of = n
      /\ \A i \in x + 1 .. x + y - 1 : M[i].of = 0 /\ M[i].path \in Paths(index, n)
      /\ \A p \in Paths(index, n) : \E i \in x + 1 .. x + y - 1 : M[i].path = p
  <2>1. M[x + y].of = n
    <3>1. x + y \in 1 .. x + y /\ ~(x + y <= x) /\ (x + y) - x = y
      BY <1>1, <1>2
    <3>. QED  BY <1>2, <1>3, <3>1
  <2>2. ASSUME NEW i \in x + 1 .. x + y - 1 PROVE M[i].of = 0 /\ M[i].path \in Paths(index, n)
    <3>1. i \in 1 .. x + y /\ ~(i <= x) /\ i - x \in 1 .. y - 1
      BY <1>n, Behind
    <3>. QED  BY <1>2, <1>3, <3>1
  <2>3. ASSUME NEW p \in Paths(index, n) PROVE \E i \in x + 1 .. x + y - 1 : M[i].path = p
    <3>1. PICK i \in 1 .. y - 1 : l[i].path = p
      BY <1>2
    <3>2. x + i \in x + 1 .. x + y - 1 /\ x + i \in 1 .. x + y /\ ~(x + i <= x) /\ (x + i) - x = i
      BY <1>n, Ahead
    <3>3. M[x + i] = l[i]
      BY <1>3, <3>2
    <3>. QED  BY <3>1, <3>2, <3>3
  <2>. QED  BY <2>1, <2>2, <2>3
<1>6. \A m \in 0 .. x : Counted(M, m) = Counted(L, m)
  <2>. SUFFICES ASSUME NEW m \in 0 .. x PROVE Counted(M, m) = Counted(L, m)
    OBVIOUS
  <2>1. m \in Nat /\ \A i \in 1 .. m : M[i] = L[i]
    BY <1>1, <1>4
  <2>. QED  BY <2>1, SameFeet
<1>7. Counted(M, x + y - 1) = k
  <2>1. x \in Nat /\ x + y - 1 \in Nat /\ x <= x + y - 1
    BY <1>1, <1>2
  <2>2. Counted(M, x + y - 1) = Counted(M, x)
    BY <1>5, <2>1, NoMoreFeet
  <2>3. x \in 0 .. x
    BY <1>1
  <2>. QED  BY <1>6, <2>2, <2>3 DEF Written
<1>8. Counted(M, Len(M)) = k + 1
  <2>1. x + y - 1 \in Nat /\ (x + y - 1) + 1 = x + y
    BY <1>1, <1>2
  <2>2. Counted(M, (x + y - 1) + 1) = Counted(M, x + y - 1) + (IF M[(x + y - 1) + 1].of # 0 THEN 1 ELSE 0)
    BY <2>1, FeetCount
  <2>. QED  BY <1>2, <1>3, <1>5, <1>7, <2>1, <2>2
<1>9. ASSUME NEW j \in 1 .. Len(M), M[j].of # 0
      PROVE  M[j].of = a + Counted(M, j - 1)
  <2>1. CASE j <= x
    <3>1. j \in 1 .. x /\ j - 1 \in 0 .. x
      BY <1>1, <1>3, <2>1
    <3>. QED  BY <1>4, <1>6, <1>9, <3>1 DEF Written
  <2>2. CASE ~(j <= x)
    <3>1. j = x + y
      <4>1. ~(j \in x + 1 .. x + y - 1)
        BY <1>5, <1>9
      <4>. QED  BY <1>n, <2>2, <4>1
    <3>. QED  BY <1>5, <1>7, <3>1
  <2>. QED  BY <2>1, <2>2
<1>10. ASSUME NEW i, NEW j, Foot(M, i, j) PROVE M[i].path \in Paths(index, M[j].of)
  <2>1. /\ i \in 1 .. x + y /\ j \in 1 .. x + y /\ i < j
        /\ M[j].of # 0 /\ \A m \in i .. j - 1 : M[m].of = 0
    BY <1>3, <1>10 DEF Foot
  <2>2. CASE j <= x
    <3>1. i \in 1 .. x /\ j \in 1 .. x /\ \A m \in i .. j - 1 : m \in 1 .. x
      BY <1>1, <2>1, <2>2
    <3>2. L[j].of # 0 /\ \A m \in i .. j - 1 : L[m].of = 0
      BY <1>4, <2>1, <3>1
    <3>3. Foot(L, i, j)
      BY <2>1, <3>1, <3>2 DEF Foot
    <3>. QED  BY <1>4, <3>1, <3>3 DEF Written
  <2>3. CASE ~(j <= x)
    <3>1. j = x + y
      <4>1. ~(j \in x + 1 .. x + y - 1)
        BY <1>5, <2>1
      <4>2. j \in 1 .. x + y
          BY <2>1
        <4>. QED  BY <1>n, <2>3, <4>1, <4>2
    <3>2. ~(i <= x)
      <4>1. ASSUME i <= x PROVE FALSE
        <5>1. x \in i .. j - 1 /\ x \in 1 .. x /\ x > 0
          BY <1>1, <1>2, <2>1, <3>1, <4>1
        <5>. QED  BY <1>4, <2>1, <5>1 DEF Written
      <4>. QED  BY <4>1
    <3>3. i \in x + 1 .. x + y - 1
      BY <1>1, <1>2, <2>1, <3>1, <3>2
    <3>. QED  BY <1>5, <3>1, <3>3
  <2>. QED  BY <2>2, <2>3
<1>11. ASSUME NEW m \in a .. a + (k + 1) - 1, NEW p \in Paths(index, m)
       PROVE  \E i, j : Foot(M, i, j) /\ M[i].path = p /\ M[j].of = m
  <2>1. CASE m = n
    <3>1. PICK i \in x + 1 .. x + y - 1 : M[i].path = p
      BY <1>5, <2>1
    <3>2. i \in 1 .. x + y /\ x + y \in 1 .. x + y /\ i < x + y /\ \A o \in i .. x + y - 1 : o \in x + 1 .. x + y - 1
      BY <1>1, <1>2, <3>1
    <3>3. Foot(M, i, x + y)
      <4>1. M[x + y].of # 0 /\ \A o \in i .. x + y - 1 : M[o].of = 0
        BY <1>2, <1>5, <3>2
      <4>. QED  BY <1>n, <3>2, <4>1 DEF Foot
    <3>. QED  BY <1>5, <2>1, <3>1, <3>3
  <2>2. CASE m # n
    <3>1. m \in a .. a + k - 1
      BY <2>2
    <3>2. PICK i, j : Foot(L, i, j) /\ L[i].path = p /\ L[j].of = m
      BY <3>1 DEF Written
    <3>3. /\ i \in 1 .. x /\ j \in 1 .. x /\ i < j
          /\ L[j].of # 0 /\ \A o \in i .. j - 1 : L[o].of = 0
      BY <3>2 DEF Foot
    <3>4. i \in 1 .. x + y /\ j \in 1 .. x + y /\ \A o \in i .. j - 1 : o \in 1 .. x
      BY <1>1, <1>2, <3>3
    <3>5. Foot(M, i, j)
      BY <1>3, <1>4, <3>3, <3>4 DEF Foot
    <3>. QED  BY <1>4, <3>2, <3>3, <3>5
  <2>. QED  BY <2>1, <2>2
<1>12. M[Len(M)].of # 0
  BY <1>2, <1>3, <1>5
<1>13. Written(M, a, k + 1)
  BY <1>3, <1>8, <1>9, <1>10, <1>11, <1>12 DEF Written
<1>. QED  BY <1>13 DEF M, l

(***************************************************************************)
(* FlattenSeq: f is the function it is computed with.                      *)
(***************************************************************************)
Flattens(f, g, n) == f = [i \in 1 .. n |-> IF i = 1 THEN g[i] ELSE f[i - 1] \o g[i]]

LEMMA FlatteningExists ==
  ASSUME NEW g, NEW n \in Nat
  PROVE  \E f : Flattens(f, g, n)
<1>. DEFINE T == {m \in Nat : ~ \E f : Flattens(f, g, m)}
<1>. SUFFICES ASSUME T # {} PROVE FALSE
  OBVIOUS
<1>1. PICK m \in T : \A k \in T : m <= k
  <2>. HIDE DEF T
  <2>1. T \subseteq Nat
    BY DEF T
  <2>. QED  BY <2>1, Smallest
<1>2. m # 0
  <2>1. Flattens([i \in 1 .. 0 |-> g[i]], g, 0)
    BY DEF Flattens
  <2>. QED  BY <2>1
<1>3. m \in Nat /\ m - 1 \in Nat /\ m - 1 \notin T
  BY <1>1, <1>2
<1>4. PICK f : Flattens(f, g, m - 1)
  BY <1>3
<1>. DEFINE h == [i \in 1 .. m |-> IF i = 1 THEN g[i] ELSE f[i - 1] \o g[i]]
<1>5. \A i \in 1 .. m - 1 : h[i] = f[i]
  <2>. SUFFICES ASSUME NEW i \in 1 .. m - 1 PROVE h[i] = f[i]
    OBVIOUS
  <2>1. i \in 1 .. m
    BY <1>3
  <2>2. h[i] = IF i = 1 THEN g[i] ELSE f[i - 1] \o g[i]
    BY <2>1
  <2>3. f[i] = IF i = 1 THEN g[i] ELSE f[i - 1] \o g[i]
    BY <1>4 DEF Flattens
  <2>. QED  BY <2>2, <2>3
<1>6. Flattens(h, g, m)
  <2>1. h = [i \in 1 .. m |-> h[i]]
    OBVIOUS
  <2>2. ASSUME NEW i \in 1 .. m
        PROVE  h[i] = IF i = 1 THEN g[i] ELSE h[i - 1] \o g[i]
    <3>1. CASE i = 1
      BY <3>1
    <3>2. CASE i # 1
      <4>1. i - 1 \in 1 .. m - 1
        BY <1>3, <3>2
      <4>2. h[i] = f[i - 1] \o g[i]
        BY <3>2
      <4>. QED  BY <1>5, <3>2, <4>1, <4>2
    <3>. QED  BY <3>1, <3>2
  <2>. HIDE DEF h
  <2>. QED  BY <2>1, <2>2 DEF Flattens
<1>. QED  BY <1>1, <1>6

LEMMA FlattenedSeq ==
  ASSUME NEW n \in Nat \ {0}, NEW g, Len(g) = n
  PROVE  \E f : Flattens(f, g, n) /\ FlattenSeq(g) = f[n]
<1>1. \E f : f = [i \in 1 .. Len(g) |-> IF i = 1 THEN g[i] ELSE f[i - 1] \o g[i]]
  BY FlatteningExists DEF Flattens
<1>2. \E f : /\ f = [i \in 1 .. Len(g) |-> IF i = 1 THEN g[i] ELSE f[i - 1] \o g[i]]
             /\ FlattenSeq(g) = f[Len(g)]
  <2>1. Len(g) # 0
    OBVIOUS
  <2>. QED  BY <1>1, <2>1, Zenon DEF FlattenSeq
<1>. QED  BY <1>2 DEF Flattens

LEMMA FrameLines ==
  ASSUME index \in Indexes, NEW a \in Nat \ {0}, NEW k \in Nat \ {0}, NEW S,
         S \subseteq Packages(index), S = a .. a + k - 1, Cardinality(S) = k, Min(S) = a
  PROVE  Written(Lines(S), a, k)
<1>. DEFINE g == [i \in 1 .. k |-> LinesOf(a + i - 1)]
<1>1. Lines(S) = FlattenSeq(g)
  BY DEF Lines
<1>2. \A i \in 1 .. k : a + i - 1 \in Packages(index) /\ g[i] = LinesOf(a + i - 1)
  OBVIOUS
<1>3. Len(g) = k
  OBVIOUS
<1>. HIDE DEF g
<1>4. PICK f : Flattens(f, g, k) /\ FlattenSeq(g) = f[k]
  BY <1>3, FlattenedSeq
<1>. DEFINE T == {i \in 1 .. k : ~Written(f[i], a, i)}
<1>5. T = {}
  <2>. SUFFICES ASSUME T # {} PROVE FALSE
    OBVIOUS
  <2>1. PICK i \in T : \A j \in T : i <= j
    <3>1. T \subseteq Nat
      OBVIOUS
    <3>. HIDE DEF T
    <3>. QED  BY <3>1, Smallest
  <2>2. i \in 1 .. k /\ f[i] = IF i = 1 THEN g[i] ELSE f[i - 1] \o g[i]
    BY <1>4, <2>1 DEF Flattens
  <2>3. CASE i = 1
    <3>1. f[1] = LinesOf(a) /\ a + 0 = a /\ a \in Packages(index)
      BY <1>2, <2>2, <2>3
    <3>2. Written(<< >> \o LinesOf(a + 0), a, 0 + 1)
      BY <3>1, WrittenNothing, WrittenOneMore
    <3>3. << >> \o LinesOf(a) = LinesOf(a)
      BY <3>1, PackageLines, ConcatEmptySeq
    <3>. QED  BY <2>1, <2>3, <3>1, <3>2, <3>3
  <2>4. CASE i # 1
    <3>1. i - 1 \in 1 .. k /\ i - 1 \notin T /\ i - 1 \in Nat
      BY <2>1, <2>2, <2>4
    <3>2. Written(f[i - 1], a, i - 1)
      BY <3>1
    <3>3. a + (i - 1) \in Packages(index) /\ g[i] = LinesOf(a + (i - 1)) /\ (i - 1) + 1 = i
      <4>1. a + (i - 1) = a + i - 1
        BY <2>2
      <4>. QED  BY <1>2, <2>2, <4>1
    <3>4. Written(f[i - 1] \o LinesOf(a + (i - 1)), a, (i - 1) + 1)
      BY <3>1, <3>2, <3>3, WrittenOneMore
    <3>. QED  BY <2>1, <2>2, <2>4, <3>3, <3>4
  <2>. QED  BY <2>3, <2>4
<1>6. k \in 1 .. k
  OBVIOUS
<1>. QED  BY <1>1, <1>4, <1>5, <1>6

(***************************************************************************)
(* Where the scan of the lines L is after the first m of them: packages    *)
(* are counted from start, matches without a footer yet are held, and the  *)
(* others have been reported with it.                                      *)
(***************************************************************************)
Kept(q, filter, start, L, j) ==
  Admits(q, L[j].of) /\ (filter # None => start + Counted(L, j - 1) \in filter)

LinesIn(L) == L \in Seq(Line)

Waits(q, L, m, i) ==
  i \in 1 .. m /\ L[i].of = 0 /\ Matches(q, L[i].path) /\ \A k \in i .. m : L[k].of = 0

Reported(q, filter, start, L, m, i, j) ==
  Foot(L, i, j) /\ j <= m /\ Matches(q, L[i].path) /\ Kept(q, filter, start, L, j)

Scanned(q, filter, start, L, m, s) ==
  /\ s.next = start + Counted(L, m)
  /\ \A p : p \in s.pending <=> \E i : Waits(q, L, m, i) /\ p = L[i].path
  /\ \A e : e \in s.matches <=>
       \E i, j : Reported(q, filter, start, L, m, i, j) /\ e = <<L[j].of, L[i].path>>

Copies(B, L, lo, w) == \A i \in 1 .. w : B[i] = L[lo + i]

\* The footers of a block are those of the lines it holds.
LEMMA BlockFeet ==
  ASSUME NEW L, NEW B, NEW lo \in Nat, NEW w \in Nat, Copies(B, L, lo, w),
         NEW v \in 0 .. w
  PROVE  Counted(L, lo + v) = Counted(L, lo) + Counted(B, v)
<1>. DEFINE T == {u \in 0 .. w : Counted(L, lo + u) # Counted(L, lo) + Counted(B, u)}
<1>. SUFFICES ASSUME T # {} PROVE FALSE
  OBVIOUS
<1>1. PICK u \in T : \A x \in T : u <= x
  <2>1. T \subseteq Nat
    OBVIOUS
  <2>. HIDE DEF T
  <2>. QED  BY <2>1, Smallest
<1>2. u \in 0 .. w /\ Counted(L, lo + u) # Counted(L, lo) + Counted(B, u)
  OBVIOUS
<1>3. CASE u = 0
  <2>1. Counted(B, 0) = 0 /\ Counted(L, lo) \in Nat
    BY FeetCount
  <2>. QED  BY <1>2, <1>3, <2>1
<1>4. CASE u # 0
  <2>. DEFINE x == u - 1
  <2>1. x \in Nat /\ x \in 0 .. w /\ x + 1 = u /\ lo + x \in Nat /\ lo + x + 1 = lo + u /\ ~(u <= x)
    BY <1>2, <1>4
  <2>2. Counted(L, lo + x) = Counted(L, lo) + Counted(B, x)
    BY <1>1, <2>1
  <2>. HIDE DEF x
  <2>3. /\ Counted(L, lo + x + 1) = Counted(L, lo + x) + (IF L[lo + x + 1].of # 0 THEN 1 ELSE 0)
        /\ Counted(L, lo + x) \in Nat /\ Counted(L, lo) \in Nat
    BY <2>1, FeetCount
  <2>4. /\ Counted(B, x + 1) = Counted(B, x) + (IF B[x + 1].of # 0 THEN 1 ELSE 0)
        /\ Counted(B, x) \in Nat
    BY <2>1, FeetCount
  <2>5. B[x + 1] = L[lo + x + 1]
    <3>1. u \in 1 .. w
      BY <1>2, <1>4
    <3>. QED  BY <2>1, <3>1 DEF Copies
  <2>. QED  BY <1>2, <2>1, <2>2, <2>3, <2>4, <2>5
<1>. QED  BY <1>3, <1>4

LEMMA ScanOneBlock ==
  ASSUME NEW q, NEW filter, NEW start \in Nat, NEW L,
         LinesIn(L),
         NEW lo \in Nat, NEW hi \in Nat, lo <= hi, hi <= Len(L),
         NEW s, Scanned(q, filter, start, L, lo, s)
  PROVE  Scanned(q, filter, start, L, hi, ScanBlock(q, filter, s, SubSeq(L, lo + 1, hi)))
<1>. DEFINE w == hi - lo
            B == SubSeq(L, lo + 1, hi)
<1>1. w \in Nat /\ Len(L) \in Nat /\ lo + w = hi
  BY LenProperties DEF LinesIn
<1>2. DOMAIN B = 1 .. w /\ \A i \in 1 .. w : B[i] = L[lo + i]
  <2>1. \A i \in lo + 1 .. hi : L[i] \in Line
    <3>. SUFFICES ASSUME NEW i \in lo + 1 .. hi PROVE L[i] \in Line
      OBVIOUS
    <3>1. i \in 1 .. Len(L)
      BY <1>1
    <3>. QED  BY <3>1, ElementOfSeq DEF LinesIn
  <2>2. /\ B \in Seq(Line) /\ Len(B) = IF lo + 1 <= hi THEN hi - (lo + 1) + 1 ELSE 0
        /\ \A i \in 1 .. hi - (lo + 1) + 1 : B[i] = L[lo + 1 + i - 1]
    <3>1. lo + 1 \in Int /\ hi \in Int
      OBVIOUS
    <3>. QED  BY <2>1, <3>1, SubSeqProperties
  <2>. HIDE DEF B
  <2>3. Len(B) = w /\ DOMAIN B = 1 .. Len(B)
    BY <2>2, LenProperties
  <2>4. ASSUME NEW i \in 1 .. w PROVE B[i] = L[lo + i]
    <3>1. i \in 1 .. hi - (lo + 1) + 1 /\ lo + 1 + i - 1 = lo + i
      BY <1>1
    <3>. QED  BY <2>2, <3>1
  <2>. QED  BY <2>3, <2>4
<1>. HIDE DEF B, w
<1>block. \A v \in 0 .. w : Counted(L, lo + v) = Counted(L, lo) + Counted(B, v)
  <2>1. w \in Nat /\ lo \in Nat /\ Copies(B, L, lo, w)
    BY <1>1, <1>2 DEF Copies
  <2>. QED  BY <2>1, BlockFeet
<1>start. s.next = start + Counted(L, lo)
  BY DEF Scanned
<1>. DEFINE feet == {i \in DOMAIN B : B[i].of # 0}
            hits == {i \in DOMAIN B \ feet : Matches(q, B[i].path)}
            foot(i) == Min({k \in feet : k >= i})
            kept(f) == /\ Admits(q, B[f].of)
                       /\ filter # None =>
                            s.next + Cardinality({k \in feet : k < f}) \in filter
            held == {i \in hits : {k \in feet : k > i} = {}}
            pending == {B[i].path : i \in held} \cup Carried(s, feet)
            matches == s.matches
                       \cup {<<B[foot(i)].of, B[i].path>> : i \in {h \in hits \ held : kept(foot(h))}}
                       \cup (IF feet = {} \/ ~kept(foot(1)) THEN {}
                             ELSE {<<B[foot(1)].of, p>> : p \in s.pending})
<1>3. ScanBlock(q, filter, s, B) =
        [next |-> s.next + Cardinality(feet), pending |-> pending, matches |-> matches]
  BY DEF ScanBlock
<1>4. \A i : i \in feet <=> i \in 1 .. w /\ L[lo + i].of # 0
  BY <1>2
<1>5. \A i : i \in hits <=> i \in 1 .. w /\ L[lo + i].of = 0 /\ Matches(q, L[lo + i].path)
  BY <1>2
<1>6. s.next + Cardinality(feet) = start + Counted(L, hi)
  <2>1. feet = Feet(B, w)
    BY <1>2 DEF Feet
  <2>2. w \in 0 .. w
    BY <1>1
  <2>3. Counted(L, lo + w) = Counted(L, lo) + Counted(B, w)
    BY <1>block, <2>2
  <2>4. Counted(L, lo) \in Nat /\ Counted(B, w) \in Nat
    BY <1>1, FeetCount
  <2>5. Cardinality(feet) = Counted(B, w)
    BY <2>1 DEF Counted
  <2>6. Counted(L, hi) = Counted(L, lo) + Counted(B, w)
    BY <1>1, <2>3
  <2>. HIDE DEF feet
  <2>. QED  BY <1>start, <2>4, <2>5, <2>6, Regrouped
<1>7. \A f \in feet : kept(f) <=> Kept(q, filter, start, L, lo + f)
  <2>. SUFFICES ASSUME NEW f \in feet PROVE kept(f) <=> Kept(q, filter, start, L, lo + f)
    OBVIOUS
  <2>1. f \in 1 .. w
    BY <1>4
  <2>2. {k \in feet : k < f} = Feet(B, f - 1)
    <3>1. \A k : k \in feet /\ k < f <=> k \in 1 .. f - 1 /\ B[k].of # 0
      BY <1>1, <1>2, <2>1
    <3>. HIDE DEF feet
    <3>. QED  BY <3>1 DEF Feet
  <2>3. f - 1 \in 0 .. w /\ (lo + f) - 1 = lo + (f - 1) /\ f - 1 \in Nat
    BY <1>1, <2>1
  <2>4. Counted(L, lo + (f - 1)) = Counted(L, lo) + Counted(B, f - 1)
    BY <1>block, <2>3
  <2>5. Counted(L, lo) \in Nat /\ Counted(B, f - 1) \in Nat
    BY <2>3, FeetCount
  <2>6. s.next + Cardinality({k \in feet : k < f}) = start + Counted(L, (lo + f) - 1)
    <3>1. Cardinality({k \in feet : k < f}) = Counted(B, f - 1)
      BY <2>2 DEF Counted
    <3>. HIDE DEF feet
    <3>. QED  BY <1>start, <2>3, <2>4, <2>5, <3>1
  <2>7. B[f] = L[lo + f]
    BY <1>2, <2>1
  <2>. HIDE DEF feet
  <2>. QED  BY <2>6, <2>7 DEF Kept
<1>8. ASSUME NEW i, NEW k \in feet, k >= i
      PROVE  foot(i) \in feet /\ foot(i) >= i /\ \A f \in feet : f >= i => foot(i) <= f
  <2>1. {f \in feet : f >= i} \subseteq Nat /\ {f \in feet : f >= i} # {}
    BY <1>4, <1>8
  <2>2. /\ foot(i) \in {f \in feet : f >= i}
        /\ \A f \in {g \in feet : g >= i} : foot(i) <= f
    BY <2>1, MinIs
  <2>. HIDE DEF foot
  <2>. QED  BY <2>2
<1>9. \A i : i \in held <=> i \in hits /\ \A k \in feet : ~(k > i)
  OBVIOUS
<1>. HIDE DEF feet, hits, foot, kept, held
<1>10. ASSUME NEW p PROVE p \in pending <=> \E i : Waits(q, L, hi, i) /\ p = L[i].path
  <2>1. ASSUME p \in pending PROVE \E i : Waits(q, L, hi, i) /\ p = L[i].path
    <3>1. CASE \E h \in held : p = B[h].path
      <4>1. PICK h \in held : p = B[h].path
        BY <3>1
      <4>2. h \in 1 .. w /\ L[lo + h].of = 0 /\ Matches(q, L[lo + h].path) /\ B[h] = L[lo + h]
        BY <1>2, <1>5, <1>9, <4>1
      <4>3. lo + h \in 1 .. hi
        BY <1>1, <4>2
      <4>4. ASSUME NEW k \in lo + h .. hi PROVE L[k].of = 0
        <5>1. k - lo \in 1 .. w /\ lo + (k - lo) = k /\ k - lo >= h
          BY <1>1, <4>2
        <5>2. CASE k - lo = h
          BY <4>2, <5>1, <5>2
        <5>3. CASE k - lo # h
          <6>1. k - lo > h
            BY <4>2, <5>1, <5>3
          <6>. QED  BY <1>4, <1>9, <5>1, <6>1
        <5>. QED  BY <5>2, <5>3
      <4>. QED  BY <4>1, <4>2, <4>3, <4>4 DEF Waits
    <3>2. CASE feet = {} /\ p \in s.pending
      <4>1. PICK i : Waits(q, L, lo, i) /\ p = L[i].path
        BY <3>2 DEF Scanned
      <4>2. /\ i \in 1 .. lo /\ L[i].of = 0 /\ Matches(q, L[i].path)
            /\ \A k \in i .. lo : L[k].of = 0
        BY <4>1 DEF Waits
      <4>3. i \in 1 .. hi
        BY <4>2
      <4>4. ASSUME NEW k \in i .. hi PROVE L[k].of = 0
        <5>1. CASE k <= lo
          <6>1. k \in i .. lo
            BY <5>1
          <6>. QED  BY <4>2, <6>1
        <5>2. CASE ~(k <= lo)
          <6>1. k - lo \in 1 .. w /\ lo + (k - lo) = k
            BY <1>1, <4>2, <5>2
          <6>. QED  BY <1>4, <3>2, <6>1
        <5>. QED  BY <5>1, <5>2
      <4>. QED  BY <4>1, <4>2, <4>3, <4>4 DEF Waits
    <3>. QED  BY <2>1, <3>1, <3>2 DEF Carried
  <2>2. ASSUME NEW i, Waits(q, L, hi, i), p = L[i].path PROVE p \in pending
    <3>1. /\ i \in 1 .. hi /\ L[i].of = 0 /\ Matches(q, L[i].path)
          /\ \A k \in i .. hi : L[k].of = 0
      BY <2>2 DEF Waits
    <3>2. CASE i <= lo
      <4>1. feet = {}
        <5>1. ASSUME NEW k \in feet PROVE FALSE
          <6>1. k \in 1 .. w /\ L[lo + k].of # 0
            BY <1>4, <5>1
          <6>2. lo + k \in i .. hi
            BY <1>1, <3>1, <3>2, <6>1
          <6>. QED  BY <3>1, <6>1, <6>2
        <5>. QED  BY <5>1
      <4>2. i \in 1 .. lo /\ \A k \in i .. lo : k \in i .. hi
        BY <3>1, <3>2
      <4>3. Waits(q, L, lo, i)
        BY <3>1, <4>2 DEF Waits
      <4>4. p \in s.pending
        BY <2>2, <4>3 DEF Scanned
      <4>. QED  BY <4>1, <4>4 DEF Carried
    <3>3. CASE ~(i <= lo)
      <4>1. i - lo \in 1 .. w /\ lo + (i - lo) = i
        BY <1>1, <3>1, <3>3
      <4>2. i - lo \in hits /\ B[i - lo] = L[i]
        BY <1>2, <1>5, <3>1, <4>1
      <4>3. ASSUME NEW k \in feet, k > i - lo PROVE FALSE
        <5>1. k \in 1 .. w /\ L[lo + k].of # 0
          BY <1>4, <4>3
        <5>2. lo + k \in i .. hi
          BY <1>1, <3>1, <4>1, <4>3, <5>1
        <5>. QED  BY <3>1, <5>1, <5>2
      <4>4. i - lo \in held
        BY <1>9, <4>2, <4>3
      <4>. QED  BY <2>2, <4>2, <4>4
    <3>. QED  BY <3>2, <3>3
  <2>. QED  BY <2>1, <2>2
<1>11. ASSUME NEW e
       PROVE  e \in matches <=> \E i, j : Reported(q, filter, start, L, hi, i, j) /\ e = <<L[j].of, L[i].path>>
  <2>1. ASSUME e \in matches
        PROVE  \E i, j : Reported(q, filter, start, L, hi, i, j) /\ e = <<L[j].of, L[i].path>>
    <3>1. CASE e \in s.matches
      <4>1. PICK i, j : Reported(q, filter, start, L, lo, i, j) /\ e = <<L[j].of, L[i].path>>
        BY <3>1 DEF Scanned
      <4>2. j \in 1 .. Len(L) /\ j <= lo
        BY <4>1 DEF Reported, Foot
      <4>3. j <= hi
        BY <1>1, <4>2
      <4>. QED  BY <4>1, <4>3 DEF Reported
    <3>2. CASE \E h \in hits \ held : kept(foot(h)) /\ e = <<B[foot(h)].of, B[h].path>>
      <4>1. PICK h \in hits \ held : kept(foot(h)) /\ e = <<B[foot(h)].of, B[h].path>>
        BY <3>2
      <4>2. h \in 1 .. w /\ L[lo + h].of = 0 /\ Matches(q, L[lo + h].path) /\ B[h] = L[lo + h]
        BY <1>2, <1>5, <4>1
      <4>3. PICK k \in feet : k > h
        BY <1>9, <4>1
      <4>4. k \in 1 .. w /\ k >= h
        BY <1>4, <4>2, <4>3
      <4>. DEFINE f == foot(h)
      <4>5. f \in feet /\ f >= h /\ \A g \in feet : g >= h => f <= g
        BY <1>8, <4>4, <4>3
      <4>. HIDE DEF f
      <4>6. f \in 1 .. w /\ L[lo + f].of # 0 /\ B[f] = L[lo + f]
        BY <1>2, <1>4, <4>5
      <4>7. f # h
        BY <4>2, <4>6
      <4>8. lo + h \in 1 .. Len(L) /\ lo + f \in 1 .. Len(L) /\ lo + h < lo + f /\ lo + f <= hi
        BY <1>1, <4>2, <4>5, <4>6, <4>7
      <4>9. ASSUME NEW m \in lo + h .. lo + f - 1 PROVE L[m].of = 0
        <5>1. m - lo \in 1 .. w /\ lo + (m - lo) = m /\ m - lo >= h /\ ~(f <= m - lo)
          BY <1>1, <4>2, <4>6, InBlock
        <5>. QED  BY <1>4, <4>5, <5>1
      <4>10. Foot(L, lo + h, lo + f)
        BY <4>6, <4>8, <4>9 DEF Foot
      <4>11. Kept(q, filter, start, L, lo + f)
        BY <1>7, <4>1, <4>5 DEF f
      <4>12. Reported(q, filter, start, L, hi, lo + h, lo + f)
        BY <4>2, <4>8, <4>10, <4>11 DEF Reported
      <4>13. e = <<L[lo + f].of, L[lo + h].path>>
        BY <4>1, <4>2, <4>6 DEF f
      <4>. QED  BY <4>12, <4>13
    <3>3. CASE feet # {} /\ kept(foot(1)) /\ \E p \in s.pending : e = <<B[foot(1)].of, p>>
      <4>1. PICK i : Waits(q, L, lo, i) /\ e = <<B[foot(1)].of, L[i].path>>
        BY <3>3 DEF Scanned
      <4>2. /\ i \in 1 .. lo /\ L[i].of = 0 /\ Matches(q, L[i].path)
            /\ \A k \in i .. lo : L[k].of = 0
        BY <4>1 DEF Waits
      <4>3. PICK k \in feet : k >= 1
        BY <1>4, <3>3
      <4>. DEFINE f == foot(1)
      <4>5. f \in feet /\ f >= 1 /\ \A g \in feet : g >= 1 => f <= g
        BY <1>8, <4>3
      <4>. HIDE DEF f
      <4>6. f \in 1 .. w /\ L[lo + f].of # 0 /\ B[f] = L[lo + f]
        BY <1>2, <1>4, <4>5
      <4>8. i \in 1 .. Len(L) /\ lo + f \in 1 .. Len(L) /\ i < lo + f /\ lo + f <= hi
        BY <1>1, <4>2, <4>6
      <4>9. ASSUME NEW m \in i .. lo + f - 1 PROVE L[m].of = 0
        <5>1. CASE m <= lo
          <6>1. m \in i .. lo
            BY <5>1
          <6>. QED  BY <4>2, <6>1
        <5>2. CASE ~(m <= lo)
          <6>1. m \in lo + 1 .. lo + f - 1
            BY <1>1, <4>2, <4>6, <5>2
          <6>2. m - lo \in 1 .. w /\ lo + (m - lo) = m /\ m - lo >= 1 /\ ~(f <= m - lo)
            BY <1>1, <4>6, <6>1, InBlock
          <6>. QED  BY <1>4, <4>5, <6>2
        <5>. QED  BY <5>1, <5>2
      <4>10. Foot(L, i, lo + f)
        BY <4>6, <4>8, <4>9 DEF Foot
      <4>11. Kept(q, filter, start, L, lo + f)
        BY <1>7, <3>3, <4>5 DEF f
      <4>12. Reported(q, filter, start, L, hi, i, lo + f)
        BY <4>2, <4>8, <4>10, <4>11 DEF Reported
      <4>13. e = <<L[lo + f].of, L[i].path>>
        BY <4>1, <4>6 DEF f
      <4>. QED  BY <4>12, <4>13
    <3>. QED  BY <2>1, <3>1, <3>2, <3>3
  <2>2. ASSUME NEW i, NEW j, Reported(q, filter, start, L, hi, i, j), e = <<L[j].of, L[i].path>>
        PROVE  e \in matches
    <3>1. /\ i \in 1 .. Len(L) /\ j \in 1 .. Len(L) /\ i < j /\ j <= hi
          /\ L[j].of # 0 /\ (\A k \in i .. j - 1 : L[k].of = 0)
          /\ Matches(q, L[i].path) /\ Kept(q, filter, start, L, j)
      BY <2>2 DEF Reported, Foot
    <3>2. CASE j <= lo
      <4>1. Reported(q, filter, start, L, lo, i, j)
        BY <2>2, <3>2 DEF Reported
      <4>. QED  BY <2>2, <4>1 DEF Scanned
    <3>3. CASE ~(j <= lo)
      <4>. DEFINE g == j - lo
      <4>1. g \in 1 .. w /\ lo + g = j
        BY <1>1, <3>1, <3>3
      <4>. HIDE DEF g
      <4>2. g \in feet /\ B[g] = L[j] /\ kept(g)
        BY <1>2, <1>4, <1>7, <3>1, <4>1
      <4>3. CASE i <= lo
        <5>1. g >= 1
          BY <4>1
        <5>2. foot(1) \in feet /\ foot(1) >= 1 /\ foot(1) <= g
          BY <1>8, <4>2, <5>1
        <5>3. foot(1) = g
          <6>. DEFINE f == foot(1)
          <6>. HIDE DEF f
          <6>1. f \in 1 .. w /\ L[lo + f].of # 0 /\ f <= g
            BY <1>4, <5>2 DEF f
          <6>2. ~(lo + f \in i .. j - 1)
            BY <3>1, <6>1
          <6>3. f = g
            BY <1>1, <3>1, <4>1, <4>3, <6>1, <6>2
          <6>. QED  BY <6>3 DEF f
        <5>4. i \in 1 .. lo /\ \A k \in i .. lo : k \in i .. j - 1
          BY <3>1, <3>3, <4>3
        <5>5. Waits(q, L, lo, i)
          <6>1. i \in i .. j - 1
            BY <3>1
          <6>. QED  BY <3>1, <5>4, <6>1 DEF Waits
        <5>6. L[i].path \in s.pending
          BY <5>5 DEF Scanned
        <5>7. feet # {} /\ kept(foot(1)) /\ e = <<B[foot(1)].of, L[i].path>>
          BY <2>2, <4>2, <5>3
        <5>. QED  BY <5>6, <5>7
      <4>4. CASE ~(i <= lo)
        <5>. DEFINE h == i - lo
        <5>1. h \in 1 .. w /\ lo + h = i /\ h < g /\ g >= h
          BY <1>1, <3>1, <4>1, <4>4
        <5>. HIDE DEF h
        <5>2. foot(h) \in feet /\ foot(h) >= h /\ foot(h) <= g
          BY <1>8, <4>2, <5>1
        <5>3. foot(h) = g
          <6>. DEFINE f == foot(h)
          <6>. HIDE DEF f
          <6>1. f \in 1 .. w /\ L[lo + f].of # 0 /\ f <= g /\ f >= h
            BY <1>4, <5>2 DEF f
          <6>2. ~(lo + f \in i .. j - 1)
            BY <3>1, <6>1
          <6>3. f = g
            BY <1>1, <3>1, <4>1, <5>1, <6>1, <6>2
          <6>. QED  BY <6>3 DEF f
        <5>4. L[i].of = 0
          <6>1. i \in i .. j - 1
            BY <3>1
          <6>. QED  BY <3>1, <6>1
        <5>5. h \in hits /\ B[h] = L[i]
          BY <1>2, <1>5, <3>1, <5>1, <5>4
        <5>6. h \notin held
          <6>1. g > h
            BY <4>1, <5>1
          <6>. QED  BY <1>9, <4>2, <6>1
        <5>7. kept(foot(h)) /\ e = <<B[foot(h)].of, B[h].path>>
          BY <2>2, <4>2, <5>3, <5>5
        <5>. QED  BY <5>5, <5>6, <5>7
      <4>. QED  BY <4>3, <4>4
    <3>. QED  BY <3>2, <3>3
  <2>. QED  BY <2>1, <2>2
<1>. DEFINE S == ScanBlock(q, filter, s, B)
<1>12. S.next = s.next + Cardinality(feet) /\ S.pending = pending /\ S.matches = matches
  BY <1>3
<1>. HIDE DEF pending, matches, S
<1>13. Scanned(q, filter, start, L, hi, S)
  BY <1>6, <1>10, <1>11, <1>12 DEF Scanned
<1>. QED  BY <1>13 DEF S, B

(***************************************************************************)
(* All blocks of a frame: f is the function ScanFrame is computed with.    *)
(***************************************************************************)
Scans(f, q, filter, first, blocks, n) ==
  f = [k \in 0 .. n |-> IF k = 0 THEN [next |-> first, pending |-> {}, matches |-> {}]
                        ELSE ScanBlock(q, filter, f[k - 1], blocks[k])]

LEMMA ScanExists ==
  ASSUME NEW q, NEW filter, NEW first, NEW blocks, NEW n \in Nat
  PROVE  \E f : Scans(f, q, filter, first, blocks, n)
<1>. DEFINE T == {m \in Nat : ~ \E f : Scans(f, q, filter, first, blocks, m)}
            zero == [next |-> first, pending |-> {}, matches |-> {}]
<1>. SUFFICES ASSUME T # {} PROVE FALSE
  OBVIOUS
<1>1. PICK m \in T : \A k \in T : m <= k
  <2>. HIDE DEF T
  <2>1. T \subseteq Nat
    BY DEF T
  <2>. QED  BY <2>1, Smallest
<1>2. m # 0
  <2>. DEFINE h == [k \in 0 .. 0 |-> zero]
  <2>1. Scans(h, q, filter, first, blocks, 0)
    <3>1. h = [k \in 0 .. 0 |-> IF k = 0 THEN zero ELSE ScanBlock(q, filter, h[k - 1], blocks[k])]
      <4>1. \A k \in 0 .. 0 : k = 0
        OBVIOUS
      <4>. QED  BY <4>1
    <3>. QED  BY <3>1 DEF Scans
  <2>. QED  BY <2>1
<1>3. m \in Nat /\ m - 1 \in Nat /\ m - 1 \notin T
  BY <1>1, <1>2
<1>4. PICK f : Scans(f, q, filter, first, blocks, m - 1)
  BY <1>3
<1>. DEFINE h == [k \in 0 .. m |-> IF k = 0 THEN zero ELSE ScanBlock(q, filter, f[k - 1], blocks[k])]
<1>5. \A k \in 0 .. m - 1 : h[k] = f[k]
  <2>. SUFFICES ASSUME NEW k \in 0 .. m - 1 PROVE h[k] = f[k]
    OBVIOUS
  <2>1. k \in 0 .. m
    BY <1>3
  <2>2. h[k] = IF k = 0 THEN zero ELSE ScanBlock(q, filter, f[k - 1], blocks[k])
    BY <2>1
  <2>3. f[k] = IF k = 0 THEN zero ELSE ScanBlock(q, filter, f[k - 1], blocks[k])
    BY <1>4 DEF Scans
  <2>. QED  BY <2>2, <2>3
<1>6. Scans(h, q, filter, first, blocks, m)
  <2>1. h = [k \in 0 .. m |-> h[k]]
    OBVIOUS
  <2>2. ASSUME NEW k \in 0 .. m
        PROVE  h[k] = IF k = 0 THEN zero ELSE ScanBlock(q, filter, h[k - 1], blocks[k])
    <3>1. CASE k = 0
      BY <3>1
    <3>2. CASE k # 0
      <4>1. k - 1 \in 0 .. m - 1
        BY <1>3, <3>2
      <4>2. h[k] = ScanBlock(q, filter, f[k - 1], blocks[k])
        BY <3>2
      <4>. QED  BY <1>5, <3>2, <4>1, <4>2
    <3>. QED  BY <3>1, <3>2
  <2>. HIDE DEF h
  <2>. QED  BY <2>1, <2>2 DEF Scans
<1>. QED  BY <1>1, <1>6

LEMMA MinOfTwo ==
  ASSUME NEW a \in Nat, NEW b \in Nat
  PROVE  Min({a, b}) = IF a <= b THEN a ELSE b
<1>1. Min({a, b}) \in {a, b} /\ \A j \in {a, b} : Min({a, b}) <= j
  BY MinIs
<1>. QED  BY <1>1

\* Where a block begins and ends.
LEMMA BlockEnds ==
  ASSUME NEW x \in Nat, NEW w \in Nat \ {0}, NEW n, n = (x + w - 1) \div w
  PROVE  /\ n \in Nat /\ x <= n * w
         /\ \A k \in 1 .. n : (k - 1) * w \in Nat /\ (k - 1) * w <= x /\ k * w \in Nat /\ (k - 1) * w <= k * w
<1>1. n \in Nat /\ x <= n * w /\ n * w <= x + w - 1
  OBVIOUS
<1>2. ASSUME NEW k \in 1 .. n
      PROVE  (k - 1) * w \in Nat /\ (k - 1) * w <= x /\ k * w \in Nat /\ (k - 1) * w <= k * w
  <2>1. k * w \in Nat /\ (k - 1) * w = k * w - w /\ (k - 1) * w \in Nat
    BY <1>1
  <2>2. k * w <= n * w /\ n * w \in Nat
    BY <1>1
  <2>. QED  BY <1>1, <2>1, <2>2
<1>. QED  BY <1>1, <1>2

LEMMA AllBlocks ==
  ASSUME NEW q, NEW filter, NEW S, NEW width \in Nat \ {0}, NEW start \in Nat,
         start = FirstOrdinal(filter, S), LinesIn(Lines(S))
  PROVE  \E s : /\ Scanned(q, filter, start, Lines(S), Len(Lines(S)), s)
                /\ ScanFrame(q, filter, S, width) = s.matches
<1>. DEFINE L == Lines(S)
            b == Blocks(L, width)
            x == Len(L)
            n == (x + width - 1) \div width
<1>1. x \in Nat
  BY LenProperties DEF LinesIn
<1>2. n \in Nat
  BY <1>1, BlockEnds
<1>3. Len(b) = n /\ \A k \in 1 .. n : b[k] = SubSeq(L, (k - 1) * width + 1, Min({k * width, x}))
  <2>. DEFINE g == [k \in 1 .. n |-> SubSeq(L, (k - 1) * width + 1, Min({k * width, x}))]
  <2>1. b = g
    BY DEF Blocks
  <2>. HIDE DEF L, n, b
  <2>2. Len(g) = n
    BY <1>2
  <2>3. \A k \in 1 .. n : g[k] = SubSeq(L, (k - 1) * width + 1, Min({k * width, x}))
    OBVIOUS
  <2>. HIDE DEF g
  <2>. QED  BY <2>1, <2>2, <2>3
<1>. HIDE DEF b
<1>4. PICK f : /\ Scans(f, q, filter, start, b, n)
               /\ ScanFrame(q, filter, S, width) = f[n].matches
  <2>1. \E f : f = [k \in 0 .. Len(b) |->
                      IF k = 0 THEN [next |-> FirstOrdinal(filter, S), pending |-> {}, matches |-> {}]
                      ELSE ScanBlock(q, filter, f[k - 1], b[k])]
    <3>1. \E f : Scans(f, q, filter, start, b, n)
      BY <1>2, ScanExists
    <3>. QED  BY <1>3, <3>1 DEF Scans
  <2>2. \E f : /\ f = [k \in 0 .. Len(b) |->
                         IF k = 0 THEN [next |-> FirstOrdinal(filter, S), pending |-> {}, matches |-> {}]
                         ELSE ScanBlock(q, filter, f[k - 1], b[k])]
               /\ ScanFrame(q, filter, S, width) = f[Len(b)].matches
    BY <2>1, Zenon DEF ScanFrame, b
  <2>. QED  BY <1>3, <2>2 DEF Scans
<1>. HIDE DEF L
<1>. DEFINE end(k) == IF k * width <= x THEN k * width ELSE x
            T == {k \in 0 .. n : ~Scanned(q, filter, start, L, end(k), f[k])}
<1>. HIDE DEF n
<1>5. /\ x <= n * width
      /\ \A k \in 1 .. n : /\ (k - 1) * width \in Nat /\ (k - 1) * width <= x
                           /\ k * width \in Nat /\ (k - 1) * width <= k * width
  BY <1>1, BlockEnds DEF n
<1>6. T = {}
  <2>. SUFFICES ASSUME T # {} PROVE FALSE
    OBVIOUS
  <2>1. PICK k \in T : \A j \in T : k <= j
    <3>1. T \subseteq Nat
      OBVIOUS
    <3>. HIDE DEF T
    <3>. QED  BY <3>1, Smallest
  <2>2. k \in 0 .. n /\ ~Scanned(q, filter, start, L, end(k), f[k])
    OBVIOUS
  <2>3. f[k] = IF k = 0 THEN [next |-> start, pending |-> {}, matches |-> {}]
               ELSE ScanBlock(q, filter, f[k - 1], b[k])
    BY <1>4, <2>2 DEF Scans
  <2>4. CASE k = 0
    <3>1. end(k) = 0
      BY <1>1, <2>4
    <3>2. f[k] = [next |-> start, pending |-> {}, matches |-> {}]
      BY <2>3, <2>4
    <3>3. start + Counted(L, 0) = start
      BY FeetCount
    <3>4. \A i : ~Waits(q, L, 0, i)
      BY DEF Waits
    <3>5. \A i, j : ~Reported(q, filter, start, L, 0, i, j)
      BY <1>1 DEF Reported, Foot
    <3>6. Scanned(q, filter, start, L, 0, f[k])
      BY <3>2, <3>3, <3>4, <3>5 DEF Scanned
    <3>. QED  BY <2>2, <3>1, <3>6
  <2>5. CASE k # 0
    <3>1. k \in 1 .. n /\ k - 1 \in 0 .. n /\ ~(k <= k - 1) /\ f[k] = ScanBlock(q, filter, f[k - 1], b[k])
      BY <1>2, <2>2, <2>3, <2>5
    <3>2. Scanned(q, filter, start, L, end(k - 1), f[k - 1])
      BY <2>1, <3>1
    <3>. DEFINE lo == (k - 1) * width
                hi == k * width
    <3>3. lo \in Nat /\ hi \in Nat /\ lo <= x /\ lo <= hi
      BY <1>5, <3>1
    <3>4. end(k - 1) = lo /\ end(k) = IF hi <= x THEN hi ELSE x
      BY <3>3
    <3>5. b[k] = SubSeq(L, lo + 1, Min({hi, x}))
      BY <1>3, <3>1
    <3>. HIDE DEF lo, hi, end
    <3>6. Min({hi, x}) = end(k)
      BY <1>1, <3>3, <3>4, MinOfTwo
    <3>7. end(k) \in Nat /\ lo <= end(k) /\ end(k) <= x
      BY <1>1, <3>3, <3>4
    <3>8. LinesIn(L)
      BY DEF L
    <3>9. Scanned(q, filter, start, L, end(k), ScanBlock(q, filter, f[k - 1], SubSeq(L, lo + 1, end(k))))
      BY <3>2, <3>3, <3>4, <3>7, <3>8, ScanOneBlock
    <3>. QED  BY <2>2, <3>1, <3>5, <3>6, <3>9
  <2>. QED  BY <2>4, <2>5
<1>7. end(n) = x /\ n \in 0 .. n
  <2>1. n * width \in Nat
    BY <1>2
  <2>. QED  BY <1>1, <1>2, <1>5, <2>1
<1>8. Scanned(q, filter, start, L, x, f[n])
  BY <1>6, <1>7
<1>. QED  BY <1>4, <1>8 DEF L

(***************************************************************************)
(* What a scan finds: every file of the frame that matches and is asked    *)
(* for, wherever the blocks end.                                           *)
(***************************************************************************)
LEMMA ScanFrameIs ==
  ASSUME index \in Indexes, NEW q, NEW filter, NEW f, Frame(f) # {}, NEW width \in Widths
  PROVE  \A e : e \in ScanFrame(q, filter, Frame(f), width) <=>
           \E n \in Frame(f) : \E p \in Paths(index, n) :
             e = <<n, p>> /\ Matches(q, p) /\ Admits(q, n) /\ (filter # None => n \in filter)
<1>. DEFINE S == Frame(f)
            L == Lines(S)
            start == FirstOrdinal(filter, S)
<1>1. PICK a \in Nat \ {0}, k \in Nat \ {0} :
        S = a .. a + k - 1 /\ Cardinality(S) = k /\ Min(S) = a
  BY FrameIsInterval
<1>2. Written(L, a, k)
  BY <1>1, FrameLines DEF Frame
<1>3. start = (IF filter = None THEN 0 ELSE a) /\ start \in Nat
  BY <1>1 DEF FirstOrdinal
<1>4. width \in Nat \ {0}
  BY SearchAssumption
<1>. HIDE DEF start, L
<1>5. PICK s : Scanned(q, filter, start, L, Len(L), s) /\ ScanFrame(q, filter, S, width) = s.matches
  <2>1. LinesIn(Lines(S))
    BY <1>2 DEF Written, LinesIn, L
  <2>2. start = FirstOrdinal(filter, S) /\ start \in Nat
    BY <1>3 DEF start
  <2>3. \E s : /\ Scanned(q, filter, start, Lines(S), Len(Lines(S)), s)
               /\ ScanFrame(q, filter, S, width) = s.matches
    BY <1>4, <2>1, <2>2, AllBlocks
  <2>. QED  BY <2>3 DEF L
<1>6. Len(L) \in Nat
  BY <1>2, LenProperties DEF Written
<1>7. ASSUME NEW j \in 1 .. Len(L), L[j].of # 0
      PROVE  L[j].of = a + Counted(L, j - 1) /\ L[j].of \in S
  <2>1. L[j].of = a + Counted(L, j - 1)
    BY <1>2, <1>7 DEF Written
  <2>2. j - 1 \in Nat /\ (j - 1) + 1 = j /\ j \in Nat
    OBVIOUS
  <2>3. Counted(L, j - 1) \in Nat /\ Counted(L, j) = Counted(L, j - 1) + 1
    BY <1>7, <2>2, FeetCount
  <2>4. Counted(L, j) <= k
    <3>1. Feet(L, j) \in SUBSET Feet(L, Len(L)) /\ IsFiniteSet(Feet(L, Len(L)))
      <4>1. Feet(L, j) \subseteq Feet(L, Len(L))
        BY <1>6 DEF Feet
      <4>. QED  BY <1>6, <4>1, FeetCount
    <3>2. Cardinality(Feet(L, j)) <= Cardinality(Feet(L, Len(L)))
      BY <3>1, FS_Subset
    <3>. QED  BY <1>2, <3>2 DEF Written, Counted
  <2>. QED  BY <1>1, <2>1, <2>3, <2>4
<1>8. ASSUME NEW e, e \in ScanFrame(q, filter, S, width)
      PROVE  \E n \in S : \E p \in Paths(index, n) :
               e = <<n, p>> /\ Matches(q, p) /\ Admits(q, n) /\ (filter # None => n \in filter)
  <2>1. PICK i, j : Reported(q, filter, start, L, Len(L), i, j) /\ e = <<L[j].of, L[i].path>>
    BY <1>5, <1>8 DEF Scanned
  <2>2. Foot(L, i, j) /\ Matches(q, L[i].path) /\ Kept(q, filter, start, L, j)
    BY <2>1 DEF Reported
  <2>3. j \in 1 .. Len(L) /\ L[j].of # 0
    BY <2>2 DEF Foot
  <2>4. L[j].of = a + Counted(L, j - 1) /\ L[j].of \in S
    BY <1>7, <2>3
  <2>5. L[i].path \in Paths(index, L[j].of)
    BY <1>2, <2>2 DEF Written
  <2>6. Admits(q, L[j].of) /\ (filter # None => L[j].of \in filter)
    BY <1>3, <2>2, <2>4 DEF Kept
  <2>. QED  BY <2>1, <2>2, <2>4, <2>5, <2>6
<1>9. ASSUME NEW n \in S, NEW p \in Paths(index, n),
             Matches(q, p), Admits(q, n), filter # None => n \in filter
      PROVE  <<n, p>> \in ScanFrame(q, filter, S, width)
  <2>1. PICK i, j : Foot(L, i, j) /\ L[i].path = p /\ L[j].of = n
    BY <1>1, <1>2, <1>9 DEF Written
  <2>2. j \in 1 .. Len(L) /\ L[j].of # 0
    BY <2>1 DEF Foot
  <2>3. L[j].of = a + Counted(L, j - 1)
    BY <1>7, <2>2
  <2>4. Kept(q, filter, start, L, j)
    BY <1>3, <1>9, <2>1, <2>3 DEF Kept
  <2>5. j <= Len(L)
    BY <1>6, <2>2
  <2>6. Reported(q, filter, start, L, Len(L), i, j) /\ <<n, p>> = <<L[j].of, L[i].path>>
    BY <1>9, <2>1, <2>4, <2>5 DEF Reported
  <2>. QED  BY <1>5, <2>6 DEF Scanned
<1>. QED  BY <1>8, <1>9

LEMMA ScanIs ==
  ASSUME index \in Indexes, NEW q, NEW filter, NEW width \in Widths,
         NEW F, F = {f \in {index.frame[n] : n \in Packages(index)} :
                       filter # None => Frame(f) \cap filter # {}}
  PROVE  \A e : e \in UNION {ScanFrame(q, filter, Frame(f), width) : f \in F} <=>
           e \in Reference(q) /\ (filter # None => e[1] \in filter)
<1>1. ASSUME NEW f \in F PROVE Frame(f) # {}
  <2>1. PICK n \in Packages(index) : f = index.frame[n]
    OBVIOUS
  <2>. QED  BY <2>1 DEF Frame
<1>2. ASSUME NEW e, NEW f \in F, e \in ScanFrame(q, filter, Frame(f), width)
      PROVE  e \in Reference(q) /\ (filter # None => e[1] \in filter)
  <2>1. PICK n \in Frame(f) : \E p \in Paths(index, n) :
          e = <<n, p>> /\ Matches(q, p) /\ Admits(q, n) /\ (filter # None => n \in filter)
    BY <1>1, <1>2, ScanFrameIs
  <2>2. PICK p \in Paths(index, n) : e = <<n, p>> /\ Matches(q, p)
    BY <2>1
  <2>3. n \in Packages(index)
    BY DEF Frame
  <2>4. e \in Files
    BY <2>2, <2>3, IsFile
  <2>5. e[1] = n /\ e[2] = p
    BY <2>2
  <2>. QED  BY <2>1, <2>2, <2>4, <2>5 DEF Reference
<1>3. ASSUME NEW e \in Reference(q), filter # None => e[1] \in filter
      PROVE  \E f \in F : e \in ScanFrame(q, filter, Frame(f), width)
  <2>1. e \in Files /\ Admits(q, e[1]) /\ Matches(q, e[2])
    BY DEF Reference
  <2>2. e = <<e[1], e[2]>> /\ e[1] \in Packages(index) /\ e[2] \in Paths(index, e[1])
    BY <2>1, AFile DEF FileFacts
  <2>. DEFINE f == index.frame[e[1]]
  <2>3. e[1] \in Frame(f)
    BY <2>2 DEF Frame
  <2>4. f \in F
    BY <1>3, <2>2, <2>3
  <2>. HIDE DEF f
  <2>5. e \in ScanFrame(q, filter, Frame(f), width)
    BY <1>1, <1>3, <2>1, <2>2, <2>3, <2>4, ScanFrameIs
  <2>. QED  BY <2>4, <2>5
<1>. QED  BY <1>2, <1>3

(***************************************************************************)
(* The answer of a step: S is the set it is taken from.  It hides nothing  *)
(* but from a group, and is the reference for the queries that are         *)
(* answered whole.                                                         *)
(***************************************************************************)
Good(q, S) ==
  /\ S \subseteq Files
  /\ ~q.pattern.group => Reference(q) \subseteq Hits(q, S)
  /\ WholeQuery(q) => Hits(q, S) = Reference(q)

LEMMA GoodSet ==
  ASSUME NEW q, NEW S, S \subseteq Files,
         \A e \in Files : Matches(q, e[2]) /\ ~q.pattern.group => e \in S,
         \A e \in S : WholeQuery(q) => Matches(q, e[2]),
         WholeQuery(q) => ~q.pattern.group
  PROVE  Good(q, S)
BY DEF Good, Reference, Hits

LEMMA WholeIsPlain ==
  ASSUME NEW q, Query(q), WholeQuery(q)
  PROVE  ~q.pattern.group
<1>1. q.pattern.group => q.regex
  BY QueryFacts
<1>. QED  BY <1>1 DEF WholeQuery, Literal, ExactPath, PathPrefix, ExactBasename, AsksRoot

LEMMA GoodAnswer ==
  ASSUME NEW q, NEW S, Good(q, S), NEW F \in FirstOf(q.sort, q.limit, Hits(q, S))
  PROVE  /\ F \subseteq Files
         /\ q.limit = None /\ ~q.pattern.group => Reference(q) \subseteq F
         /\ WholeQuery(q) => F \in FirstOf(q.sort, q.limit, Reference(q))
<1>1. F \subseteq Hits(q, S) /\ (q.limit = None => F = Hits(q, S))
  BY CutInside
<1>2. Hits(q, S) \subseteq S
  BY DEF Hits
<1>. QED  BY <1>1, <1>2 DEF Good

Planned ==
  /\ index \in Indexes /\ query \in Queries /\ Query(query)
  /\ ordinals = Both(BaseOrdinals(query), NgramOrdinals(query))

LEMMA NothingGood ==
  ASSUME Planned, Nothing
  PROVE  Good(query, {})
<1>1. index \in Indexes /\ Query(query) /\ ordinals = {}
  BY DEF Planned, Nothing, NoCandidates
<1>2. {} # None
  BY <1>1, IndexFacts
<1>3. ASSUME NEW e \in Files, Matches(query, e[2]), ~query.pattern.group PROVE FALSE
  <2>1. e[1] \in Packages(index) /\ e[2] \in Paths(index, e[1])
    BY <1>1, <1>3, AFile DEF FileFacts
  <2>. QED  BY <1>1, <1>2, <1>3, <2>1, CandidatesKeep DEF Planned
<1>. QED  BY <1>1, <1>3, GoodSet, WholeIsPlain

LEMMA PathEntriesGood ==
  ASSUME Planned, TakesPath
  PROVE  Good(query, {e \in Files : e[2] = ExactPath(query)})
<1>1. index \in Indexes /\ Query(query) /\ ExactPath(query) # << >>
  BY DEF Planned, TakesPath
<1>2. \A e \in Files : /\ Matches(query, e[2]) => e[2] = ExactPath(query)
                       /\ WholeQuery(query) /\ e[2] = ExactPath(query) => Matches(query, e[2])
  BY <1>1, ByPath
<1>. QED  BY <1>1, <1>2, GoodSet, WholeIsPlain

LEMMA EntriesGood ==
  ASSUME Planned, TakesBasename
  PROVE  Good(query, {e \in Files : BasenameOf(e[2]) = ExactBasename(query)})
<1>1. /\ index \in Indexes /\ Query(query) /\ ExactBasename(query) # << >>
      /\ ExactPath(query) = << >> /\ PathPrefix(query) = << >>
  BY DEF Planned, TakesBasename
<1>2. \A e \in Files :
        /\ Matches(query, e[2]) => BasenameOf(e[2]) = ExactBasename(query)
        /\ WholeQuery(query) /\ BasenameOf(e[2]) = ExactBasename(query) => Matches(query, e[2])
  BY <1>1, ByName
<1>. QED  BY <1>1, <1>2, GoodSet, WholeIsPlain

LEMMA TrigramsGood ==
  ASSUME Planned, TakesTrigram
  PROVE  Good(query, {e \in Files : e[2] \in TrigramIds(query) /\ Verified(query, e[2])})
<1>1. /\ index \in Indexes /\ Query(query) /\ Needle(query) # << >>
      /\ ExactBasename(query) = << >> /\ ExactPath(query) = << >> /\ PathPrefix(query) = << >>
  BY DEF Planned, TakesTrigram
<1>2. \A e \in Files :
        /\ Matches(query, e[2]) /\ ~query.pattern.group
             => e[2] \in TrigramIds(query) /\ Verified(query, e[2])
        /\ WholeQuery(query) /\ Verified(query, e[2]) => Matches(query, e[2])
  BY <1>1, ByTrigrams
<1>. QED  BY <1>1, <1>2, GoodSet, WholeIsPlain

LEMMA PathsGood ==
  ASSUME Planned, TakesTrigram, Len(Needle(query)) < Gram
  PROVE  Good(query, {e \in Files : Occurs(Needle(query), e[2])})
<1>1. Query(query) /\ Needle(query) # << >>
  BY DEF Planned, TakesTrigram
<1>2. \A e \in Files : Matches(query, e[2]) <=> Occurs(Needle(query), e[2])
  BY <1>1, ByLiteral
<1>. QED  BY <1>1, <1>2, GoodSet, WholeIsPlain

LEMMA ScanGood ==
  ASSUME Planned, NEW width \in Widths
  PROVE  Good(query, UNION {ScanFrame(query, Filter, Frame(f), width) : f \in Needed})
<1>. DEFINE S == UNION {ScanFrame(query, Filter, Frame(f), width) : f \in Needed}
<1>1. index \in Indexes /\ Query(query)
  BY DEF Planned
<1>2. Needed = {f \in {index.frame[n] : n \in Packages(index)} :
                  Filter # None => Frame(f) \cap Filter # {}}
  BY DEF Needed
<1>3. \A e : e \in S <=> e \in Reference(query) /\ (Filter # None => e[1] \in Filter)
  BY <1>1, <1>2, ScanIs
<1>. HIDE DEF S
<1>4. S \subseteq Files /\ \A e \in S : Matches(query, e[2])
  BY <1>3 DEF Reference
<1>5. ASSUME ~query.pattern.group PROVE S = Reference(query) /\ Hits(query, S) = Reference(query)
  <2>1. ASSUME NEW e \in Reference(query), Filter # None PROVE e[1] \in Filter
    <3>1. e \in Files /\ Matches(query, e[2])
      BY DEF Reference
    <3>2. e[1] \in Packages(index) /\ e[2] \in Paths(index, e[1])
      BY <1>1, <3>1, AFile DEF FileFacts
    <3>3. Filter = ordinals
      BY <2>1 DEF Filter
    <3>. QED  BY <1>1, <1>5, <2>1, <3>1, <3>2, <3>3, CandidatesKeep DEF Planned
  <2>2. S = Reference(query)
    BY <1>3, <2>1
  <2>3. Hits(query, Reference(query)) = Reference(query)
    BY DEF Hits, Reference
  <2>. QED  BY <2>2, <2>3
<1>6. Good(query, S)
  BY <1>1, <1>4, <1>5, WholeIsPlain DEF Good
<1>. QED  BY <1>6 DEF S

(***************************************************************************)
(* Every step that answers takes its answer from a good set.               *)
(***************************************************************************)
Answers == Nothing \/ FromPathEntries \/ FromEntries \/ FromTrigrams \/ FromPaths \/ Scan

LEMMA AnswersGood ==
  ASSUME Planned, Answers
  PROVE  /\ pc' = "done" /\ UNCHANGED <<reader, cache, query, ordinals>>
         /\ \E S : Good(query, S) /\ found' \in FirstOf(query.sort, query.limit, Hits(query, S))
<1>1. ASSUME NEW S, Good(query, S), Answer(S)
      PROVE  /\ pc' = "done" /\ UNCHANGED <<reader, cache, query, ordinals>>
             /\ \E T : Good(query, T) /\ found' \in FirstOf(query.sort, query.limit, Hits(query, T))
  BY <1>1 DEF Answer
<1>2. CASE Nothing
  BY <1>1, <1>2, NothingGood DEF Nothing
<1>3. CASE FromPathEntries
  BY <1>1, <1>3, PathEntriesGood DEF FromPathEntries
<1>4. CASE FromEntries
  BY <1>1, <1>4, EntriesGood DEF FromEntries
<1>5. CASE FromTrigrams
  BY <1>1, <1>5, TrigramsGood DEF FromTrigrams
<1>6. CASE Scan
  <2>1. PICK width \in Widths : Answer(UNION {ScanFrame(query, Filter, Frame(f), width) : f \in Needed})
    BY <1>6 DEF Scan
  <2>. QED  BY <1>1, <2>1, ScanGood
<1>7. CASE FromPaths
  <2>. DEFINE S == {e \in Files : Occurs(Needle(query), e[2])}
  <2>1. Good(query, S)
    BY <1>7, PathsGood DEF FromPaths
  <2>2. PICK seen \in FirstOf("none", IF StopsEarly(query) THEN query.limit ELSE None, Hits(query, S)) :
          Answer(seen)
    BY <1>7 DEF FromPaths
  <2>. HIDE DEF S
  <2>3. seen \in FirstOf("none", IF query.sort = "none" THEN query.limit ELSE None, Hits(query, S))
    BY <2>2 DEF StopsEarly
  <2>4. Hits(query, seen) = seen
    <3>1. seen \subseteq Hits(query, S)
      BY <2>3, CutInside
    <3>. QED  BY <3>1 DEF Hits
  <2>5. /\ pc' = "done" /\ UNCHANGED <<reader, cache, query, ordinals>>
        /\ found' \in FirstOf(query.sort, query.limit, seen)
    BY <2>2, <2>4 DEF Answer
  <2>6. query.limit \in Nat \cup {None}
    BY DEF Planned, Query
  <2>7. found' \in FirstOf(query.sort, query.limit, Hits(query, S))
    BY <2>3, <2>5, <2>6, CutTwice
  <2>. QED  BY <2>1, <2>5, <2>7
<1>. QED  BY <1>2, <1>3, <1>4, <1>5, <1>6, <1>7 DEF Answers

(***************************************************************************)
(* The invariant: what is decided of a query before it is answered, and    *)
(* the two properties of the answer.                                       *)
(***************************************************************************)
FInv ==
  /\ IInv /\ TypeOK
  /\ pc # "idle" => query \in Queries
  /\ pc = "done" =>
       /\ query.limit = None /\ ~query.pattern.group => Reference(query) \subseteq found
       /\ WholeQuery(query) => found \in FirstOf(query.sort, query.limit, Reference(query))

LEMMA SameAnswers ==
  ASSUME UNCHANGED reader
  PROVE  /\ Packages(index') = Packages(index) /\ Files' = Files
         /\ \A q : Reference(q)' = Reference(q)
         /\ \A s, l, S : FirstOf(s, l, S)' = FirstOf(s, l, S)
BY DEF reader, Packages, Files, Entries, Paths, Reference, Admits, FirstOf, Size

LEMMA AnswersStart == Init => FInv
<1>. SUFFICES ASSUME Init PROVE FInv
  OBVIOUS
<1>1. IInv
  BY Start
<1>. QED  BY <1>1 DEF Init, FInv, TypeOK

LEMMA AnswersStep == FInv /\ [Next]_vars => FInv'
<1>. SUFFICES ASSUME FInv, [Next]_vars PROVE FInv'
  OBVIOUS
<1>1. IInv'
  BY Step DEF FInv
<1>2. UNCHANGED reader
  BY DEF Next, Ask, ResolveCached, Resolve, Nothing, FromPathEntries, FromEntries, FromTrigrams,
     FromPaths, Scan, Answer, vars
<1>3. /\ Packages(index') = Packages(index) /\ Files' = Files /\ index' = index /\ dir' = dir
      /\ \A q : Reference(q)' = Reference(q)
      /\ \A s, l, S : FirstOf(s, l, S)' = FirstOf(s, l, S)
  BY <1>2, SameAnswers DEF reader
<1>4. CASE Ask
  BY <1>1, <1>3, <1>4 DEF Ask, FInv, TypeOK
<1>5. CASE ResolveCached \/ Resolve
  <2>1. pc' = "plan" /\ pc = "resolve" /\ query' = query /\ found' = found
    BY <1>5 DEF ResolveCached, Resolve
  <2>2. /\ query \in Queries
        /\ ordinals' = Both(BaseOrdinals(query), NgramOrdinals(query))'
    BY <1>1, <2>1 DEF IInv, FInv
  <2>3. /\ BaseOrdinals(query)' = BaseOrdinals(query)
        /\ NgramOrdinals(query)' = NgramOrdinals(query)
    BY <1>3, <2>1 DEF NgramOrdinals, GramOrdinals, BaseOrdinals, BasenameOrdinals,
       PathOrdinals, PrefixOrdinals, Packages, Paths
  <2>4. ordinals' = None \/ ordinals' \subseteq Packages(index')
    BY <1>3, <2>2, <2>3, CandidatesType DEF Both
  <2>. QED  BY <1>1, <1>3, <2>1, <2>2, <2>4 DEF FInv, TypeOK
<1>6. CASE Answers
  <2>1. pc = "plan"
    BY <1>6 DEF Answers, Nothing, FromPathEntries, FromEntries, FromTrigrams, FromPaths, Scan
  <2>2. Planned
    BY <2>1, SearchAssumption DEF Planned, FInv, IInv, TypeOK
  <2>3. /\ pc' = "done" /\ UNCHANGED <<reader, cache, query, ordinals>>
        /\ \E S : Good(query, S) /\ found' \in FirstOf(query.sort, query.limit, Hits(query, S))
    BY <1>6, <2>2, AnswersGood
  <2>4. /\ found' \subseteq Files
        /\ query.limit = None /\ ~query.pattern.group => Reference(query) \subseteq found'
        /\ WholeQuery(query) => found' \in FirstOf(query.sort, query.limit, Reference(query))
    BY <2>3, GoodAnswer
  <2>5. /\ Reference(query)' = Reference(query) /\ query' = query
        /\ FirstOf(query.sort, query.limit, Reference(query))' = FirstOf(query.sort, query.limit, Reference(query))
    BY <1>3, <2>3 DEF reader, Packages, Files, Entries, Paths, Reference, Admits, FirstOf, Size
  <2>6. TypeOK'
    BY <1>3, <2>1, <2>3, <2>4 DEF FInv, TypeOK
  <2>7. query' \in Queries
    BY <2>1, <2>3 DEF FInv
  <2>. QED  BY <1>1, <2>3, <2>4, <2>5, <2>6, <2>7 DEF FInv
<1>7. CASE UNCHANGED vars
  <2>1. UNCHANGED <<cache, pc, query, ordinals, found, index, dir>>
    BY <1>7 DEF vars, reader
  <2>2. /\ Reference(query)' = Reference(query)
        /\ FirstOf(query.sort, query.limit, Reference(query))' = FirstOf(query.sort, query.limit, Reference(query))
    BY <2>1 DEF Packages, Files, Entries, Paths, Reference, Admits, FirstOf, Size
  <2>. QED  BY <1>1, <1>3, <2>1, <2>2 DEF FInv, TypeOK
<1>. QED  BY <1>4, <1>5, <1>6, <1>7 DEF Next, Answers

(***************************************************************************)
(* For any index, sidecars, queries in any order, and blocks of any width: *)
(* every file that matches is found, except through a group.               *)
(***************************************************************************)
THEOREM NoMatchIsHidden == Spec => []NothingHidden
<1>1. FInv => NothingHidden
  BY DEF FInv, NothingHidden
<1>. QED  BY <1>1, AnswersStart, AnswersStep, PTL DEF Spec

(***************************************************************************)
(* Queries that a sidecar is asked for whole, or whose regular expression  *)
(* has the last word, are answered as the scan of all files would be.      *)
(***************************************************************************)
THEOREM SidecarsAnswerLikeScan == Spec => []AnswersLikeScan
<1>1. FInv => AnswersLikeScan
  BY DEF FInv, AnswersLikeScan
<1>. QED  BY <1>1, AnswersStart, AnswersStep, PTL DEF Spec
=============================================================================
