--------------------------- MODULE LookupProofs ----------------------------
(***************************************************************************)
(* What a lookup in a sidecar answers, for every input.  Packages and      *)
(* their entries are apart; a list in the postings is found where its key  *)
(* says, and is what the builder had; and each reader makes of the files   *)
(* of its builder what the listings say.  That those files are of the      *)
(* packages of the build is known from RegenerationProofs.                 *)
(***************************************************************************)
EXTENDS RegenerationProofs

----------------------------------------------------------------------------
(***************************************************************************)
(* Lists that stand behind each other: where each of them starts, and      *)
(* that nothing else is there.                                             *)
(***************************************************************************)
Heads(g, j) == FlattenSeq([i \in 1 .. j |-> g[i]])
Start(g, j) == Len(Heads(g, j))

\* The first j of them are the first j - 1 and one more.
LEMMA HeadsGrow ==
  ASSUME NEW S, NEW n \in Nat, NEW g \in [1 .. n -> Seq(S)], NEW j \in 0 .. n
  PROVE  /\ Heads(g, j) \in Seq(S) /\ Start(g, j) \in Nat
         /\ j = 0 => Heads(g, j) = << >> /\ Start(g, j) = 0
         /\ j > 0 => /\ j - 1 \in 0 .. n /\ g[j] \in Seq(S)
                     /\ Heads(g, j) = Heads(g, j - 1) \o g[j]
<1>. DEFINE h(k) == [i \in 1 .. k |-> g[i]]
<1>1. h(j) \in [1 .. j -> Seq(S)]
  OBVIOUS
<1>2. Heads(g, j) \in Seq(S)
  BY <1>1, FlattenType DEF Heads
<1>3. Start(g, j) \in Nat
  BY <1>2 DEF Start
<1>4. ASSUME j = 0 PROVE Heads(g, j) = << >> /\ Start(g, j) = 0
  <2>1. h(0) = << >> /\ Len(h(0)) = 0
    OBVIOUS
  <2>2. Heads(g, j) = << >>
    BY <1>4, <2>1, FlattenNothing DEF Heads
  <2>. QED  BY <2>2 DEF Start
<1>5. ASSUME j > 0 PROVE j - 1 \in 0 .. n /\ g[j] \in Seq(S) /\ Heads(g, j) = Heads(g, j - 1) \o g[j]
  <2>. DEFINE m == j - 1
  <2>1. m \in Nat /\ m + 1 = j /\ m \in 0 .. n /\ j \in 1 .. n
    BY <1>5
  <2>2. h(m + 1) \in [1 .. m + 1 -> Seq(S)] /\ h(m + 1)[m + 1] = g[m + 1]
    BY <2>1, <1>1
  <2>3. [i \in 1 .. m |-> h(m + 1)[i]] = h(m)
    <3>1. \A i \in 1 .. m : h(m + 1)[i] = g[i]
      BY <2>1
    <3>. QED  BY <3>1
  <2>. HIDE DEF m, h
  <2>4. FlattenSeq(h(m + 1)) = FlattenSeq(h(m)) \o g[m + 1]
    BY <2>1, <2>2, <2>3, FlattenStep
  <2>5. Heads(g, j) = Heads(g, m) \o g[j]
    BY <2>1, <2>4 DEF Heads, h
  <2>. QED  BY <2>1, <2>5 DEF m
<1>. QED  BY <1>2, <1>3, <1>4, <1>5

\* All of them are the whole.
LEMMA HeadsAll ==
  ASSUME NEW S, NEW n \in Nat, NEW g \in [1 .. n -> Seq(S)]
  PROVE  Heads(g, n) = FlattenSeq(g) /\ Len(g) = n
<1>1. g = [i \in 1 .. n |-> g[i]]
  OBVIOUS
<1>. QED  BY <1>1 DEF Heads

\* Element k of list i, in the first j of them.
Stands(g, j) ==
  /\ \A i \in 1 .. j, k \in Nat : k >= 1 /\ k <= Len(g[i]) =>
       /\ Start(g, i - 1) + k <= Start(g, j)
       /\ Heads(g, j)[Start(g, i - 1) + k] = g[i][k]
  /\ \A x \in 1 .. Start(g, j) : \E i \in 1 .. j, k \in Nat :
       k >= 1 /\ k <= Len(g[i]) /\ x = Start(g, i - 1) + k

\* So it is for any number of them.
LEMMA ListsStand ==
  ASSUME NEW S, NEW n \in Nat, NEW g \in [1 .. n -> Seq(S)]
  PROVE  \A j \in 0 .. n : Stands(g, j)
<1>. DEFINE T == {j \in 0 .. n : ~Stands(g, j)}
<1>. SUFFICES ASSUME T # {} PROVE FALSE
  OBVIOUS
<1>h. \A l \in 0 .. n :
        /\ Heads(g, l) \in Seq(S) /\ Start(g, l) \in Nat
        /\ l = 0 => Heads(g, l) = << >> /\ Start(g, l) = 0
        /\ l > 0 => l - 1 \in 0 .. n /\ g[l] \in Seq(S) /\ Heads(g, l) = Heads(g, l - 1) \o g[l]
  <2>. HIDE DEF T
  <2>. QED  BY HeadsGrow, ZenonT(60)
<1>1. PICK j \in T : \A l \in T : j <= l
  <2>1. T \subseteq Nat
    OBVIOUS
  <2>. HIDE DEF T
  <2>. QED  BY <2>1, Smallest
<1>2. j \in 0 .. n /\ ~Stands(g, j)
  OBVIOUS
<1>3. ASSUME j = 0 PROVE FALSE
  <2>1. Start(g, j) = 0
    BY <1>2, <1>3, <1>h
  <2>2. Stands(g, j)
    BY <1>3, <2>1 DEF Stands
  <2>. QED  BY <1>2, <2>2
<1>4. ASSUME j # 0 PROVE FALSE
  <2>. DEFINE m == j - 1
              b == Start(g, m)
              a == Heads(g, m)
              c == g[j]
  <2>1. j > 0 /\ m \in 0 .. n /\ m \in Nat /\ m + 1 = j /\ j \in 1 .. j /\ m \notin T
    BY <1>1, <1>2, <1>4
  <2>2. Stands(g, m)
    BY <2>1
  <2>3. c \in Seq(S) /\ Heads(g, j) = a \o c
    BY <1>2, <2>1, <1>h
  <2>4. a \in Seq(S) /\ b \in Nat /\ b = Len(a)
    BY <2>1, <1>h DEF Start
  <2>. HIDE DEF a, c, m, T
  <2>5. /\ Len(a \o c) = b + Len(c) /\ Len(c) \in Nat
        /\ \A x \in 1 .. b : (a \o c)[x] = a[x]
        /\ \A k \in 1 .. Len(c) : (a \o c)[b + k] = c[k]
    <3>1. \A k \in 1 .. Len(a) + Len(c) : (a \o c)[k] = IF k <= Len(a) THEN a[k] ELSE c[k - Len(a)]
      BY <2>3, <2>4
    <3>2. Len(a \o c) = Len(a) + Len(c) /\ Len(c) \in Nat
      BY <2>3, <2>4
    <3>. DEFINE w == a \o c
    <3>. HIDE DEF w, b
    <3>3. \A x \in 1 .. b : w[x] = a[x]
      BY <3>1, <3>2, <2>4 DEF w
    <3>4. ASSUME NEW k \in 1 .. Len(c) PROVE w[b + k] = c[k]
      <4>. DEFINE x == b + k
      <4>1. x \in 1 .. Len(a) + Len(c) /\ ~(x <= Len(a)) /\ x - Len(a) = k
        BY <2>4, <3>2
      <4>. HIDE DEF x
      <4>2. (a \o c)[x] = c[k]
        BY <4>1, <3>1
      <4>. QED  BY <4>2 DEF w, x
    <3>. QED  BY <3>2, <3>3, <3>4, <2>4 DEF w
  <2>6. Start(g, j) = b + Len(c)
    BY <2>3, <2>5 DEF Start
  <2>. DEFINE w == a \o c
  <2>7. Heads(g, j) = w /\ Start(g, j - 1) = b
    BY <2>3 DEF m
  <2>. HIDE DEF w, b
  <2>8. ASSUME NEW i \in 1 .. j, NEW k \in Nat, k >= 1, k <= Len(g[i])
        PROVE  Start(g, i - 1) + k <= Start(g, j) /\ Heads(g, j)[Start(g, i - 1) + k] = g[i][k]
    <3>1. CASE i = j
      <4>1. Start(g, i - 1) = b /\ g[i] = c /\ k \in 1 .. Len(c)
        BY <2>5, <2>7, <2>8, <3>1 DEF c
      <4>. QED  BY <4>1, <2>4, <2>5, <2>6, <2>7, SMTT(60) DEF w
    <3>2. CASE i # j
      <4>1. i \in 1 .. m
        BY <3>2, <2>1, <1>2
      <4>2. Start(g, i - 1) + k <= b /\ a[Start(g, i - 1) + k] = g[i][k]
        BY <4>1, <2>2, <2>8 DEF Stands, a, b
      <4>3. Start(g, i - 1) \in Nat
        <5>1. i - 1 \in 0 .. n
          BY <4>1, <2>1, <1>2
        <5>. QED  BY <5>1, <1>h
      <4>. QED  BY <4>2, <4>3, <2>4, <2>5, <2>6, <2>7, <2>8, SMTT(60) DEF w
    <3>. QED  BY <3>1, <3>2
  <2>9. ASSUME NEW x \in 1 .. Start(g, j)
        PROVE  \E i \in 1 .. j, k \in Nat : k >= 1 /\ k <= Len(g[i]) /\ x = Start(g, i - 1) + k
    <3>1. CASE x <= b
      <4>1. x \in 1 .. Start(g, m)
        BY <3>1, <2>4, <2>5, <2>6 DEF b
      <4>2. PICK i \in 1 .. m, k \in Nat : k >= 1 /\ k <= Len(g[i]) /\ x = Start(g, i - 1) + k
        BY <4>1, <2>2 DEF Stands
      <4>3. i \in 1 .. j
        BY <2>1
      <4>. QED  BY <4>2, <4>3
    <3>2. CASE ~(x <= b)
      <4>. DEFINE y == Start(g, j)
                  k == x - b
      <4>1. y = b + Len(c) /\ x \in 1 .. y /\ y \in Nat
        BY <2>4, <2>5, <2>6
      <4>. HIDE DEF y
      <4>2. k \in Nat /\ k >= 1 /\ k <= Len(c) /\ x = b + k
        BY <3>2, <2>4, <2>5, <4>1
      <4>. HIDE DEF k
      <4>3. k <= Len(g[j]) /\ x = Start(g, j - 1) + k
        BY <4>2, <2>7 DEF c
      <4>. QED  BY <4>2, <4>3, <2>1
    <3>. QED  BY <3>1, <3>2
  <2>10. Stands(g, j)
    BY <2>8, <2>9 DEF Stands
  <2>. QED  BY <1>2, <2>10
<1>. QED  BY <1>3, <1>4

\* What stands in a row behind the first c is found there.
LEMMA SliceIs ==
  ASSUME NEW S, NEW f \in Seq(S), NEW h \in Seq(S), NEW c \in Nat, c + Len(h) <= Len(f),
         \A k \in Nat : k >= 1 /\ k <= Len(h) => f[c + k] = h[k]
  PROVE  SubSeq(f, c + 1, c + Len(h)) = h
<1>. DEFINE m == Len(h)
            d == c + m
            s == SubSeq(f, c + 1, d)
<1>1. m \in Nat /\ Len(f) \in Nat /\ d \in Nat /\ d <= Len(f)
  OBVIOUS
<1>. HIDE DEF m
<1>2. \A i \in c + 1 .. d : f[i] \in S
  <2>. TAKE i \in c + 1 .. d
  <2>1. i \in 1 .. Len(f)
    BY <1>1
  <2>. QED  BY <2>1
<1>. HIDE DEF d
<1>3. /\ s \in Seq(S) /\ Len(s) = (IF c + 1 <= d THEN d - (c + 1) + 1 ELSE 0)
      /\ \A i \in 1 .. d - (c + 1) + 1 : s[i] = f[c + 1 + i - 1]
  <2>1. c + 1 \in 1 .. Len(f) + 1 /\ c + 1 \in Nat /\ d \in Nat
    BY <1>1 DEF d
  <2>. QED  BY <1>2, <2>1, <1>1, SubSeqProperties
<1>. HIDE DEF s
<1>4. Len(s) = m
  BY <1>1, <1>3 DEF d
<1>5. ASSUME NEW i \in 1 .. m PROVE s[i] = h[i]
  <2>1. i \in 1 .. d - (c + 1) + 1 /\ c + 1 + i - 1 = c + i /\ i \in Nat /\ i >= 1 /\ i <= Len(h)
    BY <1>1 DEF d, m
  <2>2. s[i] = f[c + i]
    BY <2>1, <1>3
  <2>3. f[c + i] = h[i]
    BY <2>1
  <2>. QED  BY <2>2, <2>3
<1>6. s = h
  BY <1>3, <1>4, <1>5, SameSeq DEF m
<1>. QED  BY <1>6 DEF s, d, m

\* A list is what stands between where it starts and where the next one does.
LEMMA ListSlice ==
  ASSUME NEW S, NEW n \in Nat, NEW g \in [1 .. n -> Seq(S)], NEW i \in 1 .. n
  PROVE  /\ Start(g, i - 1) \in Nat /\ Start(g, i) = Start(g, i - 1) + Len(g[i])
         /\ Start(g, i) <= Len(FlattenSeq(g))
         /\ SubSeq(FlattenSeq(g), Start(g, i - 1) + 1, Start(g, i)) = g[i]
<1>h. \A l \in 0 .. n :
        /\ Heads(g, l) \in Seq(S) /\ Start(g, l) \in Nat
        /\ l = 0 => Heads(g, l) = << >> /\ Start(g, l) = 0
        /\ l > 0 => l - 1 \in 0 .. n /\ g[l] \in Seq(S) /\ Heads(g, l) = Heads(g, l - 1) \o g[l]
  BY HeadsGrow, ZenonT(60)
<1>. DEFINE f == FlattenSeq(g)
            c == Start(g, i - 1)
            h == g[i]
<1>1. f = Heads(g, n) /\ f \in Seq(S) /\ Start(g, n) = Len(f) /\ Len(f) \in Nat
  <2>1. Heads(g, n) = f
    BY HeadsAll
  <2>2. f \in Seq(S)
    BY FlattenType
  <2>. HIDE DEF f
  <2>. QED  BY <2>1, <2>2 DEF Start
<1>2. c \in Nat /\ h \in Seq(S) /\ Len(h) \in Nat
  <2>1. i - 1 \in 0 .. n /\ i \in 0 .. n /\ i > 0
    OBVIOUS
  <2>2. c \in Nat /\ h \in Seq(S)
    BY <2>1, <1>h
  <2>. HIDE DEF c, h
  <2>. QED  BY <2>2
<1>3. Start(g, i) = c + Len(h)
  <2>1. i \in 0 .. n /\ i > 0
    OBVIOUS
  <2>2. Heads(g, i) = Heads(g, i - 1) \o h
    BY <2>1, <1>h
  <2>3. Heads(g, i - 1) \in Seq(S)
    <3>1. i - 1 \in 0 .. n
      OBVIOUS
    <3>. QED  BY <3>1, <1>h
  <2>. DEFINE a == Heads(g, i - 1)
  <2>. HIDE DEF h, a
  <2>4. Len(a \o h) = Len(a) + Len(h)
    BY <1>2, <2>3 DEF a
  <2>. QED  BY <2>2, <2>4 DEF Start, a
<1>4. Stands(g, n)
  <2>1. n \in 0 .. n
    OBVIOUS
  <2>. QED  BY <2>1, ListsStand
<1>5. \A k \in Nat : k >= 1 /\ k <= Len(h) => c + k <= Len(f) /\ f[c + k] = h[k]
  BY <1>1, <1>4 DEF Stands
<1>6. c + Len(h) <= Len(f)
  <2>. HIDE DEF f, c, h
  <2>1. CASE Len(h) = 0
    <3>1. i \in 0 .. n /\ i - 1 \in 0 .. n /\ i > 0
      OBVIOUS
    <3>2. ASSUME NEW j \in 0 .. n PROVE j >= i => Start(g, i) <= Start(g, j)
      <4>. DEFINE T == {l \in 0 .. n : l >= i /\ ~(Start(g, i) <= Start(g, l))}
      <4>. SUFFICES ASSUME T # {} PROVE FALSE
        OBVIOUS
      <4>1. PICK l \in T : \A k \in T : l <= k
        <5>1. T \subseteq Nat
          OBVIOUS
        <5>. HIDE DEF T
        <5>. QED  BY <5>1, Smallest
      <4>2. l \in 0 .. n /\ l > i
        <5>1. l \in 0 .. n /\ l >= i /\ ~(Start(g, i) <= Start(g, l))
          BY <4>1
        <5>2. Start(g, i) \in Nat
          BY <3>1, <1>h
        <5>3. l # i
          BY <5>1, <5>2
        <5>. QED  BY <5>1, <5>3
      <4>3. l - 1 \in 0 .. n /\ l - 1 \notin T /\ l - 1 >= i
        BY <4>1, <4>2
      <4>4. Start(g, i) <= Start(g, l - 1)
        BY <4>3
      <4>. DEFINE a == Heads(g, l - 1)
                  e == g[l]
      <4>5. a \in Seq(S) /\ e \in Seq(S) /\ Heads(g, l) = a \o e
        <5>1. l > 0 /\ l \in 0 .. n
          BY <4>2
        <5>. HIDE DEF T
        <5>2. g[l] \in Seq(S) /\ Heads(g, l) = Heads(g, l - 1) \o g[l] /\ l - 1 \in 0 .. n
          BY <5>1, <1>h
        <5>3. Heads(g, l - 1) \in Seq(S)
          BY <5>2, <1>h
        <5>. QED  BY <5>2, <5>3
      <4>6. Start(g, l) = Start(g, l - 1) + Len(e) /\ Len(e) \in Nat
        <5>. HIDE DEF a, e, T
        <5>1. Len(a \o e) = Len(a) + Len(e) /\ Len(e) \in Nat
          BY <4>5
        <5>. QED  BY <5>1, <4>5 DEF Start, a
      <4>7. Start(g, i) \in Nat /\ Start(g, l - 1) \in Nat /\ Start(g, l) \in Nat
        <5>1. l \in 0 .. n /\ l - 1 \in 0 .. n
          BY <4>2, <4>3
        <5>. HIDE DEF T
        <5>. QED  BY <3>1, <5>1, <1>h
      <4>8. Start(g, i) <= Start(g, l)
        <5>. HIDE DEF e, T
        <5>. QED  BY <4>4, <4>6, <4>7
      <4>. QED  BY <4>8
    <3>3. Start(g, i) <= Start(g, n)
      <4>1. n \in 0 .. n /\ n >= i
        OBVIOUS
      <4>. QED  BY <4>1, <3>2
    <3>. QED  BY <3>3, <1>1, <1>3
  <2>2. CASE Len(h) # 0
    <3>1. Len(h) >= 1
      BY <2>2, <1>2
    <3>. QED  BY <3>1, <1>2, <1>5
  <2>. QED  BY <2>1, <2>2
<1>7. SubSeq(f, c + 1, c + Len(h)) = h
  <2>. HIDE DEF f, c, h
  <2>. QED  BY <1>1, <1>2, <1>5, <1>6, SliceIs
<1>8. Start(g, i) <= Len(f)
  BY <1>3, <1>6
<1>. HIDE DEF f, c, h
<1>9. SubSeq(f, c + 1, Start(g, i)) = h
  BY <1>3, <1>7
<1>. QED  BY <1>2, <1>3, <1>8, <1>9 DEF f, c, h

\* Offsets has where they start.
LEMMA OffsetsAre ==
  ASSUME NEW S, NEW n \in Nat, NEW g \in [1 .. n -> Seq(S)]
  PROVE  /\ DOMAIN Offsets(g) = 1 .. n + 1
         /\ \A i \in 1 .. n + 1 : Offsets(g)[i] = Start(g, i - 1)
<1>1. Len(g) = n /\ g \in Seq(Seq(S))
  OBVIOUS
<1>2. ASSUME NEW i \in 1 .. n + 1 PROVE Len(FlattenSeq(SubSeq(g, 1, i - 1))) = Start(g, i - 1)
  <2>. DEFINE m == i - 1
              s == SubSeq(g, 1, m)
              h == [k \in 1 .. m |-> g[k]]
  <2>1. m \in 0 .. Len(g) /\ m \in Nat
    BY <1>1
  <2>. HIDE DEF m
  <2>2. s \in Seq(Seq(S)) /\ Len(s) = m /\ \A k \in 1 .. m : s[k] = g[k]
    <3>. DEFINE U == Seq(S)
    <3>1. g \in Seq(U)
      BY <1>1
    <3>. HIDE DEF U
    <3>. QED  BY <3>1, <2>1, FirstOf DEF U
  <2>3. h \in Seq(Seq(S)) /\ Len(h) = m
    <3>1. \A k \in 1 .. m : g[k] \in Seq(S)
      BY <2>1, <1>1
    <3>. DEFINE U == Seq(S)
    <3>2. h \in [1 .. m -> U]
      BY <3>1
    <3>. HIDE DEF U, h
    <3>3. h \in Seq(U) /\ Len(h) = m
      BY <3>2, <2>1
    <3>. QED  BY <3>3 DEF U
  <2>4. s = h
    <3>. DEFINE U == Seq(S)
    <3>1. \A k \in 1 .. m : s[k] = h[k]
      BY <2>2
    <3>2. s \in Seq(U) /\ h \in Seq(U)
      BY <2>2, <2>3
    <3>. HIDE DEF U, s, h
    <3>. QED  BY <3>1, <3>2, <2>2, <2>3, SameSeq
  <2>. QED  BY <2>4 DEF Start, Heads, m
<1>3. Offsets(g) = [i \in 1 .. n + 1 |-> Len(FlattenSeq(SubSeq(g, 1, i - 1)))]
  BY <1>1 DEF Offsets
<1>. QED  BY <1>2, <1>3

\* What lists that stand behind each other have, and that nothing is there twice.
LEMMA FlatMembers ==
  ASSUME NEW S, NEW n \in Nat, NEW g \in [1 .. n -> Seq(S)], NEW e
  PROVE  e \in Range(FlattenSeq(g)) <=> \E i \in 1 .. n : e \in Range(g[i])
<1>. DEFINE f == FlattenSeq(g)
<1>1. f \in Seq(S) /\ f = Heads(g, n)
  BY FlattenType, HeadsAll
<1>2. n \in 0 .. n
  OBVIOUS
<1>3. Stands(g, n)
  BY <1>2, ListsStand
<1>h. \A l \in 0 .. n :
        /\ Heads(g, l) \in Seq(S) /\ Start(g, l) \in Nat
        /\ l = 0 => Heads(g, l) = << >> /\ Start(g, l) = 0
        /\ l > 0 => l - 1 \in 0 .. n /\ g[l] \in Seq(S) /\ Heads(g, l) = Heads(g, l - 1) \o g[l]
  BY HeadsGrow, ZenonT(60)
<1>. HIDE DEF f
<1>4. DOMAIN f = 1 .. Len(f) /\ Len(f) = Start(g, n) /\ Len(f) \in Nat
  BY <1>1 DEF Start
<1>5. ASSUME NEW x \in DOMAIN f, e = f[x] PROVE \E i \in 1 .. n : e \in Range(g[i])
  <2>1. x \in 1 .. Start(g, n)
    BY <1>4
  <2>2. PICK i \in 1 .. n, k \in Nat : k >= 1 /\ k <= Len(g[i]) /\ x = Start(g, i - 1) + k
    BY <1>3, <2>1 DEF Stands
  <2>3. e = g[i][k]
    BY <1>1, <1>3, <1>5, <2>2 DEF Stands
  <2>4. k \in DOMAIN g[i]
    <3>1. g[i] \in Seq(S)
      OBVIOUS
    <3>. DEFINE h == g[i]
    <3>. HIDE DEF h
    <3>2. DOMAIN h = 1 .. Len(h) /\ Len(h) \in Nat
      BY <3>1 DEF h
    <3>3. k \in 1 .. Len(h)
      BY <2>2, <3>2 DEF h
    <3>. QED  BY <3>2, <3>3 DEF h
  <2>. QED  BY <2>3, <2>4, Zenon DEF Range
<1>6. ASSUME NEW i \in 1 .. n, NEW k \in DOMAIN g[i], e = g[i][k] PROVE \E x \in DOMAIN f : e = f[x]
  <2>. DEFINE h == g[i]
              x == Start(g, i - 1) + k
  <2>1. h \in Seq(S)
    OBVIOUS
  <2>2. k \in Nat /\ k >= 1 /\ k <= Len(h)
    <3>. HIDE DEF h
    <3>1. k \in DOMAIN h
      BY DEF h
    <3>. QED  BY <2>1, <3>1
  <2>3. x <= Start(g, n) /\ f[x] = e
    BY <1>1, <1>3, <1>6, <2>2 DEF Stands
  <2>4. Start(g, i - 1) \in Nat
    <3>1. i - 1 \in 0 .. n
      OBVIOUS
    <3>. QED  BY <3>1, <1>h
  <2>5. x \in 1 .. Len(f)
    <3>. HIDE DEF h
    <3>. QED  BY <1>4, <2>2, <2>3, <2>4
  <2>. QED  BY <1>4, <2>3, <2>5
<1>. QED  BY <1>5, <1>6, Zenon DEF Range, f

\* Lists that are apart, behind each other, have nothing twice.
LEMMA FlatApart ==
  ASSUME NEW S, NEW n \in Nat, NEW g \in [1 .. n -> Seq(S)],
         \A i, j \in 1 .. n : \A k \in DOMAIN g[i], l \in DOMAIN g[j] :
            g[i][k] = g[j][l] => i = j /\ k = l
  PROVE  IsInjective(FlattenSeq(g))
<1>. DEFINE f == FlattenSeq(g)
<1>1. f \in Seq(S) /\ f = Heads(g, n)
  BY FlattenType, HeadsAll
<1>2. n \in 0 .. n
  OBVIOUS
<1>3. Stands(g, n)
  BY <1>2, ListsStand
<1>. HIDE DEF f
<1>4. DOMAIN f = 1 .. Len(f) /\ Len(f) = Start(g, n) /\ Len(f) \in Nat
  BY <1>1 DEF Start
<1>5. ASSUME NEW x \in DOMAIN f
      PROVE  \E i \in 1 .. n : \E k \in DOMAIN g[i] : x = Start(g, i - 1) + k /\ f[x] = g[i][k]
  <2>1. x \in 1 .. Start(g, n)
    BY <1>4
  <2>2. PICK i \in 1 .. n, k \in Nat : k >= 1 /\ k <= Len(g[i]) /\ x = Start(g, i - 1) + k
    BY <1>3, <2>1 DEF Stands
  <2>3. f[x] = g[i][k]
    BY <1>1, <1>3, <2>2 DEF Stands
  <2>4. k \in DOMAIN g[i]
    <3>1. g[i] \in Seq(S)
      OBVIOUS
    <3>. DEFINE h == g[i]
    <3>. HIDE DEF h
    <3>2. DOMAIN h = 1 .. Len(h) /\ Len(h) \in Nat
      BY <3>1 DEF h
    <3>3. k \in 1 .. Len(h)
      BY <2>2, <3>2 DEF h
    <3>. QED  BY <3>2, <3>3 DEF h
  <2>. QED  BY <2>2, <2>3, <2>4
<1>6. ASSUME NEW x \in DOMAIN f, NEW y \in DOMAIN f, f[x] = f[y] PROVE x = y
  <2>1. PICK i \in 1 .. n : \E k \in DOMAIN g[i] : x = Start(g, i - 1) + k /\ f[x] = g[i][k]
    BY <1>5
  <2>2. PICK j \in 1 .. n : \E l \in DOMAIN g[j] : y = Start(g, j - 1) + l /\ f[y] = g[j][l]
    BY <1>5
  <2>4. PICK k \in DOMAIN g[i] : x = Start(g, i - 1) + k /\ f[x] = g[i][k]
    BY <2>1
  <2>5. PICK l \in DOMAIN g[j] : y = Start(g, j - 1) + l /\ f[y] = g[j][l]
    BY <2>2
  <2>3. i = j /\ k = l
    <3>1. g[i][k] = g[j][l]
      BY <1>6, <2>4, <2>5
    <3>. QED  BY <3>1
  <2>. QED  BY <2>4, <2>5, <2>3
<1>. QED  BY <1>6, Zenon DEF IsInjective, f

(***************************************************************************)
(* What passes a test: it is in T.                                         *)
(***************************************************************************)
Passing(s, T) == FlattenSeq([i \in DOMAIN s |-> IF s[i] \in T THEN <<s[i]>> ELSE <<>>])

\* What passes is in the sequence and in T, in order.
LEMMA PassingIs ==
  ASSUME NEW S, NEW s \in Seq(S), NEW T
  PROVE  /\ Passing(s, T) \in Seq(S) /\ Range(Passing(s, T)) = Range(s) \cap T
         /\ IsInjective(s) => IsInjective(Passing(s, T))
<1>. DEFINE n == Len(s)
            g == [i \in DOMAIN s |-> IF s[i] \in T THEN <<s[i]>> ELSE <<>>]
<1>1. n \in Nat /\ DOMAIN s = 1 .. n /\ \A i \in 1 .. n : s[i] \in S
  OBVIOUS
<1>2. ASSUME NEW i \in 1 .. n
      PROVE  /\ g[i] \in Seq(S)
             /\ \A k \in DOMAIN g[i] : k = 1 /\ g[i][k] = s[i] /\ s[i] \in T
             /\ s[i] \in T => 1 \in DOMAIN g[i] /\ g[i][1] = s[i]
  <2>1. CASE s[i] \in T
    <3>. DEFINE e == s[i]
    <3>1. g[i] = <<e>> /\ e \in S
      BY <1>1, <2>1
    <3>. HIDE DEF e, g
    <3>2. g[i] \in Seq(S) /\ DOMAIN g[i] = {1} /\ g[i][1] = e
      BY <3>1
    <3>. QED  BY <2>1, <3>2 DEF e
  <2>2. CASE s[i] \notin T
    <3>1. g[i] = << >>
      BY <1>1, <2>2
    <3>. QED  BY <2>2, <3>1
  <2>. QED  BY <2>1, <2>2
<1>. HIDE DEF n
<1>3. g \in [1 .. n -> Seq(S)]
  BY <1>1, <1>2
<1>. HIDE DEF g
<1>4. Passing(s, T) = FlattenSeq(g)
  BY DEF Passing, g
<1>5. FlattenSeq(g) \in Seq(S)
  BY <1>1, <1>3, FlattenType
<1>6. ASSUME NEW e PROVE e \in Range(FlattenSeq(g)) <=> e \in Range(s) \cap T
  <2>1. e \in Range(FlattenSeq(g)) <=> \E i \in 1 .. n : e \in Range(g[i])
    BY <1>1, <1>3, FlatMembers
  <2>2. ASSUME NEW i \in 1 .. n PROVE e \in Range(g[i]) <=> e = s[i] /\ s[i] \in T
    BY <1>2, Zenon DEF Range
  <2>. QED  BY <2>1, <2>2, <1>1, Zenon DEF Range
<1>7. ASSUME IsInjective(s) PROVE IsInjective(FlattenSeq(g))
  <2>1. ASSUME NEW i \in 1 .. n, NEW j \in 1 .. n, NEW k \in DOMAIN g[i], NEW l \in DOMAIN g[j], g[i][k] = g[j][l]
        PROVE  i = j /\ k = l
    <3>1. k = 1 /\ l = 1 /\ s[i] = s[j]
      BY <1>2, <2>1, Zenon
    <3>2. i = j
      BY <1>1, <1>7, <3>1, Zenon DEF IsInjective
    <3>. QED  BY <3>1, <3>2
  <2>2. \A i, j \in 1 .. n : \A k \in DOMAIN g[i], l \in DOMAIN g[j] : g[i][k] = g[j][l] => i = j /\ k = l
    BY <2>1, Zenon
  <2>. QED  BY <2>2, <1>1, <1>3, FlatApart
<1>. QED  BY <1>4, <1>5, <1>6, <1>7

\* Where a member of a set stands in an order, from 0: each place is taken.
Rank(S, R, x) == Cardinality({y \in S : <<y, x>> \in R})

\* There is a member at each of the first places.
LEMMA EachRankTaken ==
  ASSUME NEW S, IsFiniteSet(S), NEW R, StrictOrder(S, R)
  PROVE  \A i \in 1 .. Cardinality(S) : \E x \in S : Rank(S, R, x) = i - 1
BY RankTaken DEF Rank

(***************************************************************************)
(* A set in an order: each member has its place, and the order of places   *)
(* is that of the members.                                                 *)
(***************************************************************************)
Ranked(S, R, s) ==
  /\ s \in Seq(S) /\ Len(s) = Cardinality(S) /\ Cardinality(S) \in Nat /\ Range(s) = S /\ IsInjective(s)
  /\ \A i, j \in 1 .. Len(s) : <<s[i], s[j]>> \in R => i < j

\* A sequence that has at each place the member of that rank is the set in its order.
LEMMA SortedIsRanked ==
  ASSUME NEW S, IsFiniteSet(S), NEW R, StrictOrder(S, R), NEW s,
         DOMAIN s = 1 .. Cardinality(S), s = [i \in DOMAIN s |-> s[i]],
         \A i \in 1 .. Cardinality(S) : s[i] \in S /\ Rank(S, R, s[i]) = i - 1
  PROVE  Ranked(S, R, s)
<1>. DEFINE n == Cardinality(S)
            below(x) == {y \in S : <<y, x>> \in R}
            r(x) == Cardinality(below(x))
<1>1. n \in Nat
  BY FS_CardinalityType
<1>2. ASSUME NEW x \in S PROVE IsFiniteSet(below(x)) /\ r(x) \in 0 .. n - 1
  <2>1. IsFiniteSet(S \ {x}) /\ Cardinality(S \ {x}) = n - 1
    BY FS_RemoveElement
  <2>2. below(x) \subseteq S \ {x}
    BY DEF StrictOrder
  <2>. HIDE DEF below
  <2>3. IsFiniteSet(below(x)) /\ Cardinality(below(x)) <= n - 1
    BY <2>1, <2>2, FS_Subset
  <2>4. Cardinality(below(x)) \in Nat
    BY <2>3, FS_CardinalityType
  <2>. QED  BY <2>3, <2>4, <1>1
<1>3. ASSUME NEW x \in S, NEW z \in S, <<x, z>> \in R PROVE r(x) < r(z)
  <2>1. below(x) \subseteq below(z)
    BY <1>3 DEF StrictOrder
  <2>2. x \in below(z) /\ x \notin below(x)
    BY <1>3 DEF StrictOrder
  <2>3. IsFiniteSet(below(z)) /\ IsFiniteSet(below(x)) /\ r(x) \in 0 .. n - 1 /\ r(z) \in 0 .. n - 1
    BY <1>2
  <2>. HIDE DEF below
  <2>4. Cardinality(below(x)) <= Cardinality(below(z)) /\ Cardinality(below(x)) # Cardinality(below(z))
    BY <2>1, <2>2, <2>3, FS_Subset
  <2>. DEFINE a == Cardinality(below(x))
              b == Cardinality(below(z))
  <2>. HIDE DEF a, b, n
  <2>5. a <= b /\ a # b /\ a \in 0 .. n - 1 /\ b \in 0 .. n - 1
    BY <2>3, <2>4 DEF a, b
  <2>6. a < b
    BY <2>5, <1>1
  <2>. QED  BY <2>6 DEF a, b
<1>4. \A i \in 1 .. n : s[i] \in S /\ r(s[i]) = i - 1
  BY DEF Rank
<1>5. DOMAIN s = 1 .. n /\ s = [i \in DOMAIN s |-> s[i]]
  OBVIOUS
<1>. HIDE DEF n, r
<1>6. s \in Seq(S) /\ Len(s) = n
  <2>1. s = [i \in 1 .. n |-> s[i]]
    <3>. DEFINE U == DOMAIN s
    <3>1. s = [i \in U |-> s[i]] /\ U = 1 .. n
      BY <1>5
    <3>. HIDE DEF U
    <3>. QED  BY <3>1
  <2>2. s \in [1 .. n -> S]
    <3>. DEFINE f == [i \in 1 .. n |-> s[i]]
    <3>1. f \in [1 .. n -> S]
      BY <1>4
    <3>. HIDE DEF f
    <3>2. s = f
      BY <2>1 DEF f
    <3>. QED  BY <3>1, <3>2
  <2>3. \A z \in [1 .. n -> S] : z \in Seq(S) /\ Len(z) = n
    BY <1>1
  <2>. QED  BY <2>2, <2>3, Zenon
<1>7. ASSUME NEW x \in S PROVE \E i \in 1 .. n : s[i] = x
  <2>. DEFINE i == r(x) + 1
  <2>1. r(x) \in 0 .. n - 1
    BY <1>2
  <2>2. i \in 1 .. n /\ i - 1 = r(x)
    BY <2>1, <1>1
  <2>3. s[i] \in S /\ r(s[i]) = r(x)
    BY <2>2, <1>4
  <2>4. ~(<<s[i], x>> \in R) /\ ~(<<x, s[i]>> \in R)
    <3>. HIDE DEF i
    <3>1. r(x) \in Nat /\ s[i] \in S
      BY <2>1, <2>3, <1>1
    <3>2. ~(r(s[i]) < r(x)) /\ ~(r(x) < r(s[i]))
      BY <2>3, <3>1
    <3>. QED  BY <3>1, <3>2, <1>3, Zenon
  <2>5. s[i] = x
    <3>. HIDE DEF i
    <3>. QED  BY <2>3, <2>4, Zenon DEF StrictOrder
  <2>. QED  BY <2>2, <2>5
<1>8. ASSUME NEW i \in 1 .. n, NEW j \in 1 .. n, s[i] = s[j] PROVE i = j
  <2>1. i - 1 = j - 1
    BY <1>4, <1>8
  <2>. QED  BY <2>1
<1>9. ASSUME NEW i \in 1 .. n, NEW j \in 1 .. n, <<s[i], s[j]>> \in R PROVE i < j
  <2>1. r(s[i]) < r(s[j])
    BY <1>3, <1>4, <1>9
  <2>2. i - 1 < j - 1
    BY <2>1, <1>4
  <2>. QED  BY <2>2
<1>10. Range(s) = S
  BY <1>4, <1>5, <1>7, Zenon DEF Range
<1>11. IsInjective(s)
  BY <1>5, <1>8, Zenon DEF IsInjective
<1>12. Len(s) = Cardinality(S) /\ Cardinality(S) \in Nat
  BY <1>1, <1>6 DEF n
<1>13. \A i, j \in 1 .. Len(s) : <<s[i], s[j]>> \in R => i < j
  BY <1>6, <1>9
<1>. QED  BY <1>6, <1>10, <1>11, <1>12, <1>13, Zenon DEF Ranked

(***************************************************************************)
(* The orders of texts, of numbers and of nodes.                           *)
(***************************************************************************)
TextOrder == LexOrder(Seq(Int), Numbers)
NodeOrder == LexOrder(Seq(Seq(Int)), Names)

\* Before is a strict order of texts,
LEMMA TextsOrdered ==
  /\ StrictOrder(Seq(Int), TextOrder)
  /\ \A a, b \in Seq(Int) : <<a, b>> \in TextOrder <=> Before(a, b)
<1>1. StrictOrder(Int, Numbers)
  BY DEF StrictOrder, Numbers
<1>2. \A a, b \in Seq(Int) : <<a, b>> \in TextOrder <=> Lex(a, b, Numbers)
  BY DEF TextOrder, LexOrder
<1>. QED  BY <1>1, <1>2, LexStrict, BeforeIsLex DEF TextOrder

\* and BeforeInTree one of nodes.
LEMMA NodesOrdered ==
  /\ StrictOrder(Seq(Seq(Int)), NodeOrder)
  /\ \A a, b \in Seq(Seq(Int)) : <<a, b>> \in NodeOrder <=> BeforeInTree(a, b)
<1>1. \A a, b \in Seq(Seq(Int)) : <<a, b>> \in NodeOrder <=> Lex(a, b, Names)
  BY DEF NodeOrder, LexOrder
<1>2. \A a, b \in Seq(Seq(Int)) : BeforeInTree(a, b) <=> Lex(a, b, Names)
  BY TreeIsLex
<1>3. StrictOrder(Seq(Seq(Int)), NodeOrder)
  BY NamesOrdered, LexStrict DEF NodeOrder
<1>. QED  BY <1>1, <1>2, <1>3

\* Sorted texts are in that order,
LEMMA TextsRanked ==
  ASSUME NEW S, IsFiniteSet(S), S \subseteq Seq(Int), NEW s, s = Sorted(S, Before)
  PROVE  Ranked(S, TextOrder, s)
<1>. DEFINE R == TextOrder
            n == Cardinality(S)
            Of(i) == CHOOSE x \in S : Cardinality({y \in S : Before(y, x)}) = i - 1
<1>1. StrictOrder(Seq(Int), R) /\ \A x, y \in Seq(Int) : <<x, y>> \in R <=> Before(x, y)
  BY TextsOrdered
<1>2. StrictOrder(S, R)
  <2>. DEFINE U == Seq(Int)
  <2>1. S \subseteq U /\ StrictOrder(U, R)
    BY <1>1
  <2>. HIDE DEF U, R
  <2>2. \A x \in S : x \in U
    BY <2>1
  <2>. QED  BY <2>1, <2>2, Zenon DEF StrictOrder
<1>3. \A x, y \in S : <<x, y>> \in R <=> Before(x, y)
  <2>. HIDE DEF R
  <2>. QED  BY <1>1
<1>. HIDE DEF R
<1>4. ASSUME NEW i \in 1 .. n PROVE Of(i) \in S /\ Rank(S, R, Of(i)) = i - 1
  <2>1. PICK x \in S : Rank(S, R, x) = i - 1
    <3>. HIDE DEF Of
    <3>. QED  BY <1>2, EachRankTaken, Zenon
  <2>2. {y \in S : <<y, x>> \in R} = {y \in S : Before(y, x)}
    BY <1>3
  <2>3. Cardinality({y \in S : Before(y, x)}) = i - 1
    BY <2>1, <2>2 DEF Rank
  <2>4. Of(i) \in S /\ Cardinality({y \in S : Before(y, Of(i))}) = i - 1
    BY <2>3, Zenon
  <2>. DEFINE z == Of(i)
  <2>. HIDE DEF Of
  <2>5. {y \in S : <<y, z>> \in R} = {y \in S : Before(y, z)}
    BY <1>3, <2>4
  <2>6. Rank(S, R, z) = i - 1
    BY <2>4, <2>5 DEF Rank
  <2>. QED  BY <2>4, <2>6
<1>5. s = [i \in 1 .. n |-> Of(i)]
  BY Zenon DEF Sorted
<1>. HIDE DEF Of
<1>6. DOMAIN s = 1 .. n /\ s = [i \in DOMAIN s |-> s[i]] /\ \A i \in 1 .. n : s[i] = Of(i)
  BY <1>5
<1>7. \A i \in 1 .. n : s[i] \in S /\ Rank(S, R, s[i]) = i - 1
  BY <1>4, <1>6
<1>8. Ranked(S, R, s)
  BY <1>2, <1>6, <1>7, SortedIsRanked
<1>. QED  BY <1>8 DEF R

\* sorted nodes
LEMMA NodesRanked ==
  ASSUME NEW S, IsFiniteSet(S), S \subseteq Seq(Seq(Int)), NEW s, s = Sorted(S, BeforeInTree)
  PROVE  Ranked(S, NodeOrder, s)
<1>. DEFINE R == NodeOrder
            n == Cardinality(S)
            Of(i) == CHOOSE x \in S : Cardinality({y \in S : BeforeInTree(y, x)}) = i - 1
<1>1. StrictOrder(Seq(Seq(Int)), R) /\ \A x, y \in Seq(Seq(Int)) : <<x, y>> \in R <=> BeforeInTree(x, y)
  BY NodesOrdered
<1>2. StrictOrder(S, R)
  <2>. DEFINE U == Seq(Seq(Int))
  <2>1. S \subseteq U /\ StrictOrder(U, R)
    BY <1>1
  <2>. HIDE DEF U, R
  <2>2. \A x \in S : x \in U
    BY <2>1
  <2>. QED  BY <2>1, <2>2, Zenon DEF StrictOrder
<1>3. \A x, y \in S : <<x, y>> \in R <=> BeforeInTree(x, y)
  <2>. HIDE DEF R
  <2>. QED  BY <1>1
<1>. HIDE DEF R
<1>4. ASSUME NEW i \in 1 .. n PROVE Of(i) \in S /\ Rank(S, R, Of(i)) = i - 1
  <2>1. PICK x \in S : Rank(S, R, x) = i - 1
    <3>. HIDE DEF Of
    <3>. QED  BY <1>2, EachRankTaken, Zenon
  <2>2. {y \in S : <<y, x>> \in R} = {y \in S : BeforeInTree(y, x)}
    BY <1>3
  <2>3. Cardinality({y \in S : BeforeInTree(y, x)}) = i - 1
    BY <2>1, <2>2 DEF Rank
  <2>4. Of(i) \in S /\ Cardinality({y \in S : BeforeInTree(y, Of(i))}) = i - 1
    BY <2>3, Zenon
  <2>. DEFINE z == Of(i)
  <2>. HIDE DEF Of
  <2>5. {y \in S : <<y, z>> \in R} = {y \in S : BeforeInTree(y, z)}
    BY <1>3, <2>4
  <2>6. Rank(S, R, z) = i - 1
    BY <2>4, <2>5 DEF Rank
  <2>. QED  BY <2>4, <2>6
<1>5. s = [i \in 1 .. n |-> Of(i)]
  BY Zenon DEF Sorted
<1>. HIDE DEF Of
<1>6. DOMAIN s = 1 .. n /\ s = [i \in DOMAIN s |-> s[i]] /\ \A i \in 1 .. n : s[i] = Of(i)
  BY <1>5
<1>7. \A i \in 1 .. n : s[i] \in S /\ Rank(S, R, s[i]) = i - 1
  BY <1>4, <1>6
<1>8. Ranked(S, R, s)
  BY <1>2, <1>6, <1>7, SortedIsRanked
<1>. QED  BY <1>8 DEF R

\* and sorted numbers.
LEMMA NumbersRanked ==
  ASSUME NEW S, IsFiniteSet(S), S \subseteq Int, NEW s, s = Ascending(S)
  PROVE  Ranked(S, Numbers, s)
<1>. DEFINE R == Numbers
            n == Cardinality(S)
            Of(i) == CHOOSE x \in S : Cardinality({y \in S : y < x}) = i - 1
<1>1. StrictOrder(Int, R) /\ \A x, y \in Int : <<x, y>> \in R <=> x < y
  BY DEF StrictOrder, Numbers
<1>2. StrictOrder(S, R)
  <2>. DEFINE U == Int
  <2>1. S \subseteq U /\ StrictOrder(U, R)
    BY <1>1
  <2>. HIDE DEF U, R
  <2>2. \A x \in S : x \in U
    BY <2>1
  <2>. QED  BY <2>1, <2>2, Zenon DEF StrictOrder
<1>3. \A x, y \in S : <<x, y>> \in R <=> x < y
  <2>. HIDE DEF R
  <2>. QED  BY <1>1
<1>. HIDE DEF R
<1>4. ASSUME NEW i \in 1 .. n PROVE Of(i) \in S /\ Rank(S, R, Of(i)) = i - 1
  <2>1. PICK x \in S : Rank(S, R, x) = i - 1
    <3>. HIDE DEF Of
    <3>. QED  BY <1>2, EachRankTaken, Zenon
  <2>2. {y \in S : <<y, x>> \in R} = {y \in S : y < x}
    BY <1>3
  <2>3. Cardinality({y \in S : y < x}) = i - 1
    BY <2>1, <2>2 DEF Rank
  <2>4. Of(i) \in S /\ Cardinality({y \in S : y < Of(i)}) = i - 1
    BY <2>3, Zenon
  <2>. DEFINE z == Of(i)
  <2>. HIDE DEF Of
  <2>5. {y \in S : <<y, z>> \in R} = {y \in S : y < z}
    BY <1>3, <2>4
  <2>6. Rank(S, R, z) = i - 1
    BY <2>4, <2>5 DEF Rank
  <2>. QED  BY <2>4, <2>6
<1>5. s = [i \in 1 .. n |-> Of(i)]
  BY Zenon DEF Sorted, Ascending
<1>. HIDE DEF Of
<1>6. DOMAIN s = 1 .. n /\ s = [i \in DOMAIN s |-> s[i]] /\ \A i \in 1 .. n : s[i] = Of(i)
  BY <1>5
<1>7. \A i \in 1 .. n : s[i] \in S /\ Rank(S, R, s[i]) = i - 1
  BY <1>4, <1>6
<1>8. Ranked(S, R, s)
  BY <1>2, <1>6, <1>7, SortedIsRanked
<1>. QED  BY <1>8 DEF R

\* The place of a member.
LEMMA PlaceIs ==
  ASSUME NEW S, NEW R, NEW s, Ranked(S, R, s), NEW e \in S
  PROVE  PlaceOf(e, s) \in 1 .. Len(s) /\ s[PlaceOf(e, s)] = e /\ DOMAIN s = 1 .. Len(s) /\ Len(s) \in Nat
<1>1. s \in Seq(S) /\ Range(s) = S
  BY Zenon DEF Ranked
<1>2. DOMAIN s = 1 .. Len(s) /\ Len(s) \in Nat
  BY <1>1
<1>3. \E i \in DOMAIN s : s[i] = e
  BY <1>1, Zenon DEF Range
<1>4. PlaceOf(e, s) \in DOMAIN s /\ s[PlaceOf(e, s)] = e
  BY <1>3, Zenon DEF PlaceOf
<1>. QED  BY <1>2, <1>4

\* One element in front of a sequence.
LEMMA OneThen ==
  ASSUME NEW S, NEW x \in S, NEW h \in Seq(S), NEW e, e = <<x>> \o h
  PROVE  e \in Seq(S) /\ Len(e) = 1 + Len(h) /\ e[1] = x /\ \A k \in 1 .. Len(h) : e[1 + k] = h[k]
<1>. DEFINE w == <<x>>
<1>1. w \in Seq(S) /\ Len(w) = 1 /\ w[1] = x
  OBVIOUS
<1>2. e = w \o h
  OBVIOUS
<1>3. Len(h) \in Nat
  OBVIOUS
<1>. HIDE DEF w
<1>4. /\ w \o h \in Seq(S) /\ Len(w \o h) = Len(w) + Len(h)
      /\ \A i \in 1 .. Len(w) + Len(h) : (w \o h)[i] = IF i <= Len(w) THEN w[i] ELSE h[i - Len(w)]
  BY <1>1, ConcatProperties
<1>5. e \in Seq(S) /\ Len(e) = 1 + Len(h) /\ \A i \in 1 .. 1 + Len(h) : e[i] = IF i <= 1 THEN w[i] ELSE h[i - 1]
  BY <1>1, <1>2, <1>4
<1>6. e[1] = x
  <2>1. 1 \in 1 .. 1 + Len(h)
    BY <1>3
  <2>. QED  BY <1>1, <1>5, <2>1
<1>7. ASSUME NEW k \in 1 .. Len(h) PROVE e[1 + k] = h[k]
  <2>1. 1 + k \in 1 .. 1 + Len(h) /\ ~(1 + k <= 1) /\ 1 + k - 1 = k
    BY <1>3
  <2>2. e[1 + k] = h[1 + k - 1]
    BY <1>5, <2>1
  <2>. QED  BY <2>1, <2>2
<1>. QED  BY <1>5, <1>6, <1>7

\* The list of a key in postings: its length in front of it.
LEMMA ListRead ==
  ASSUME NEW V, NEW n \in Nat, NEW g \in [1 .. n -> Seq(V)], NEW i \in 1 .. n,
         NEW W, NEW h \in Seq(W), g[i] = <<Len(h)>> \o h
  PROVE  ReadAt(FlattenSeq(g), Start(g, i - 1)) = h
<1>. DEFINE f == FlattenSeq(g)
            c == Start(g, i - 1)
            m == Len(h)
            e == g[i]
<1>1. /\ m \in Nat /\ e = <<m>> \o h
  OBVIOUS
<1>2. c \in Nat /\ Start(g, i) = c + Len(e) /\ Start(g, i) <= Len(f) /\ SubSeq(f, c + 1, Start(g, i)) = e
  BY ListSlice
<1>3. f \in Seq(V) /\ e \in Seq(V) /\ f = Heads(g, n) /\ Len(f) = Start(g, n)
  <2>1. f \in Seq(V) /\ f = Heads(g, n)
    BY FlattenType, HeadsAll
  <2>2. e \in Seq(V)
    OBVIOUS
  <2>. QED  BY <2>1, <2>2 DEF Start
<1>4. Stands(g, n)
  <2>1. n \in 0 .. n
    OBVIOUS
  <2>. QED  BY <2>1, ListsStand
<1>5. \A k \in Nat : k >= 1 /\ k <= Len(e) => c + k <= Len(f) /\ f[c + k] = e[k]
  <2>. HIDE DEF f, c
  <2>1. \A k \in Nat : k >= 1 /\ k <= Len(g[i]) => Start(g, i - 1) + k <= Start(g, n) /\ Heads(g, n)[Start(g, i - 1) + k] = g[i][k]
    BY <1>4 DEF Stands
  <2>. QED  BY <2>1, <1>3 DEF c
<1>. HIDE DEF f, c, e
<1>6. Len(e) = m + 1 /\ e[1] = m /\ \A k \in 1 .. m : e[1 + k] = h[k]
  <2>. DEFINE U == Nat \cup W
  <2>1. m \in U /\ h \in Seq(U)
    BY <1>1
  <2>2. e = <<m>> \o h /\ Len(h) = m /\ m \in Nat
    BY <1>1
  <2>. HIDE DEF U, m
  <2>3. Len(e) = 1 + Len(h) /\ e[1] = m /\ \A k \in 1 .. Len(h) : e[1 + k] = h[k]
    BY <2>1, <2>2, OneThen
  <2>. QED  BY <2>2, <2>3
<1>. HIDE DEF m
<1>7. f[c + 1] = m
  BY <1>1, <1>5, <1>6
<1>8. ASSUME NEW k \in Nat, k >= 1, k <= m PROVE f[c + 1 + k] = h[k] /\ f[c + 1 + k] \in V
  <2>1. 1 + k \in Nat /\ 1 + k >= 1 /\ 1 + k <= Len(e) /\ k \in 1 .. m
    BY <1>1, <1>6, <1>8
  <2>2. c + (1 + k) <= Len(f) /\ f[c + (1 + k)] = e[1 + k]
    BY <1>5, <2>1
  <2>3. c + (1 + k) = c + 1 + k
    BY <1>2
  <2>4. c + 1 + k \in 1 .. Len(f)
    BY <1>2, <1>3, <2>2, <2>3
  <2>. QED  BY <2>1, <2>2, <2>3, <2>4, <1>3, <1>6
<1>9. h \in Seq(V)
  <2>1. \A k \in 1 .. m : h[k] \in V
    <3>. SUFFICES ASSUME NEW k \in 1 .. m PROVE h[k] \in V
      OBVIOUS
    <3>1. k \in Nat /\ k >= 1 /\ k <= m
      BY <1>1 DEF m
    <3>. QED  BY <3>1, <1>8
  <2>2. h = [k \in 1 .. m |-> h[k]]
    BY DEF m
  <2>3. h \in [1 .. m -> V]
    BY <2>1, <2>2
  <2>. QED  BY <1>1, <2>3
<1>10. c + 1 + Len(h) <= Len(f) /\ c + 1 \in Nat
  BY <1>1, <1>2, <1>3, <1>6 DEF m
<1>11. \A k \in Nat : k >= 1 /\ k <= Len(h) => f[c + 1 + k] = h[k]
  BY <1>8 DEF m
<1>. DEFINE d == c + 1
<1>12. d \in Nat /\ d + Len(h) <= Len(f) /\ \A k \in Nat : k >= 1 /\ k <= Len(h) => f[d + k] = h[k]
  BY <1>10, <1>11
<1>. HIDE DEF d
<1>13. SubSeq(f, d + 1, d + Len(h)) = h
  BY <1>3, <1>9, <1>12, SliceIs
<1>14. d + 1 = c + 2 /\ d + Len(h) = c + 1 + m
  BY <1>1, <1>2 DEF d, m
<1>15. ReadAt(f, c) = SubSeq(f, c + 2, c + 1 + m)
  BY <1>7 DEF ReadAt
<1>. QED  BY <1>13, <1>14, <1>15 DEF f, c

\* So it is for each of the keys.
LEMMA EachListRead ==
  ASSUME NEW V, NEW n \in Nat, NEW g \in [1 .. n -> Seq(V)]
  PROVE  \A i \in 1 .. n, h \in Seq(V) : g[i] = <<Len(h)>> \o h => ReadAt(FlattenSeq(g), Start(g, i - 1)) = h
BY ListRead

(***************************************************************************)
(* Postings: what is found for a key is its list.                          *)
(***************************************************************************)
LEMMA PostingsFind ==
  ASSUME NEW V, NEW m, IsFiniteSet(DOMAIN m), DOMAIN m \subseteq Seq(Int),
         \A k \in DOMAIN m : m[k] \in Seq(V), NEW file, file = Postings(m)
  PROVE  /\ DOMAIN file.fst = DOMAIN m
         /\ \A k \in DOMAIN m : Found(file, k) = m[k]
         /\ \A k : k \notin DOMAIN m => Found(file, k) = << >>
<1>. DEFINE K     == DOMAIN m
            keys  == Sorted(K, Before)
            g     == [i \in DOMAIN keys |-> <<Len(m[keys[i]])>> \o m[keys[i]]]
            n     == Len(keys)
            U     == Nat \cup V
<1>1. file.raw = FlattenSeq(g) /\ file.fst = [k \in K |-> Offsets(g)[PlaceOf(k, keys)]]
  <2>1. file = [raw |-> FlattenSeq(g), fst |-> [k \in K |-> Offsets(g)[PlaceOf(k, keys)]]]
    BY Zenon DEF Postings
  <2>. HIDE DEF g, keys
  <2>. QED  BY <2>1
<1>2. Ranked(K, TextOrder, keys)
  BY TextsRanked
<1>. HIDE DEF keys
<1>3. keys \in Seq(K) /\ n \in Nat /\ DOMAIN keys = 1 .. n /\ \A i \in 1 .. n : keys[i] \in K
  <2>1. keys \in Seq(K)
    BY <1>2, Zenon DEF Ranked
  <2>. QED  BY <2>1
<1>. HIDE DEF n
<1>4. ASSUME NEW i \in 1 .. n PROVE <<Len(m[keys[i]])>> \o m[keys[i]] \in Seq(U)
  <2>. DEFINE h == m[keys[i]]
  <2>1. h \in Seq(V)
    BY <1>3
  <2>. HIDE DEF h
  <2>2. Len(h) \in Nat
    BY <2>1
  <2>3. <<Len(h)>> \in Seq(U)
    BY <2>2
  <2>4. h \in Seq(U)
    BY <2>1
  <2>. HIDE DEF U
  <2>5. <<Len(h)>> \o h \in Seq(U)
    BY <2>3, <2>4
  <2>. QED  BY <2>5 DEF h
<1>. HIDE DEF U
<1>5. g \in [1 .. n -> Seq(U)] /\ \A i \in 1 .. n : g[i] = <<Len(m[keys[i]])>> \o m[keys[i]]
  BY <1>3, <1>4
<1>. HIDE DEF g
<1>6. ASSUME NEW k \in K PROVE Found(file, k) = m[k]
  <2>. DEFINE i == PlaceOf(k, keys)
  <2>1. i \in 1 .. n /\ keys[i] = k
    BY <1>2, PlaceIs DEF n
  <2>2. Offsets(g)[i] = Start(g, i - 1)
    <3>1. i \in 1 .. n + 1
      BY <2>1, <1>3
    <3>. QED  BY <3>1, <1>3, <1>5, OffsetsAre, ZenonT(60)
  <2>3. file.fst[k] = Start(g, i - 1) /\ k \in DOMAIN file.fst
    BY <1>1, <2>2
  <2>. HIDE DEF i
  <2>. DEFINE h == m[k]
  <2>4. h \in Seq(V) /\ g[i] = <<Len(h)>> \o h
    BY <1>5, <2>1
  <2>5. n \in Nat /\ g \in [1 .. n -> Seq(U)] /\ i \in 1 .. n
    BY <1>3, <1>5, <2>1
  <2>. HIDE DEF h
  <2>6. ReadAt(FlattenSeq(g), Start(g, i - 1)) = h
    <3>1. \A j \in 1 .. n, l \in Seq(U) : g[j] = <<Len(l)>> \o l => ReadAt(FlattenSeq(g), Start(g, j - 1)) = l
      <4>1. n \in Nat /\ g \in [1 .. n -> Seq(U)]
        BY <2>5
      <4>. QED  BY <4>1, EachListRead
    <3>2. h \in Seq(U)
      BY <2>4 DEF U
    <3>. QED  BY <2>4, <2>5, <3>1, <3>2, Zenon
  <2>. QED  BY <1>1, <2>3, <2>6, Zenon DEF Found, h
<1>7. DOMAIN file.fst = K
  BY <1>1
<1>. QED  BY <1>6, <1>7, Zenon DEF Found

(***************************************************************************)
(* Texts: a prefix and what is behind it; the basename of a path.          *)
(***************************************************************************)

\* A text, cut in two.
IsCut(p, l, a, b) == a \in Seq(Int) /\ b \in Seq(Int) /\ Len(a) = l /\ Len(b) = Len(p) - l /\ p = a \o b

\* Every text can be cut at every place.
LEMMA CutAt ==
  ASSUME NEW p \in Seq(Int), NEW l \in 0 .. Len(p)
  PROVE  IsCut(p, l, SubSeq(p, 1, l), SubSeq(p, l + 1, Len(p)))
<1>. DEFINE a == SubSeq(p, 1, l)
            b == SubSeq(p, l + 1, Len(p))
<1>1. Len(p) \in Nat /\ l \in Nat /\ l <= Len(p)
  OBVIOUS
<1>2. a \in Seq(Int) /\ Len(a) = l /\ \A i \in 1 .. l : a[i] = p[i]
  BY <1>1, FirstOf
<1>3. b \in Seq(Int) /\ Len(b) = Len(p) - l /\ \A i \in 1 .. Len(p) - l : b[i] = p[l + i]
  <2>1. \A i \in l + 1 .. Len(p) : p[i] \in Int
    <3>. TAKE i \in l + 1 .. Len(p)
    <3>1. i \in 1 .. Len(p)
      BY <1>1
    <3>. QED  BY <3>1
  <2>. DEFINE n == Len(p)
  <2>2. n \in Nat /\ \A i \in l + 1 .. n : p[i] \in Int
    BY <1>1, <2>1
  <2>3. b = SubSeq(p, l + 1, n)
    OBVIOUS
  <2>. HIDE DEF n
  <2>4. /\ b \in Seq(Int) /\ Len(b) = (IF l + 1 <= n THEN n - (l + 1) + 1 ELSE 0)
        /\ \A i \in 1 .. n - (l + 1) + 1 : b[i] = p[l + 1 + i - 1]
    <3>1. l + 1 \in Nat /\ l + 1 \in 1 .. n + 1
      BY <1>1, <2>2 DEF n
    <3>. QED  BY <2>2, <2>3, <3>1, SubSeqProperties
  <2>5. n - (l + 1) + 1 = n - l /\ n >= l
    BY <1>1, <2>2 DEF n
  <2>6. Len(b) = n - l
    BY <1>1, <2>2, <2>4, <2>5
  <2>7. ASSUME NEW i \in 1 .. n - l PROVE b[i] = p[l + i]
    <3>1. l + 1 + i - 1 = l + i /\ i \in 1 .. n - (l + 1) + 1
      BY <1>1, <2>2, <2>5
    <3>. QED  BY <2>4, <3>1
  <2>. QED  BY <2>4, <2>6, <2>7 DEF n
<1>. DEFINE q == a \o b
<1>4. /\ q \in Seq(Int) /\ Len(q) = l + Len(b)
      /\ \A i \in 1 .. Len(a) : q[i] = a[i]
      /\ \A i \in 1 .. Len(b) : q[Len(a) + i] = b[i]
  BY <1>2, <1>3, ConcatAt
<1>. HIDE DEF q
<1>5. Len(q) = Len(p)
  BY <1>1, <1>3, <1>4
<1>6. ASSUME NEW i \in 1 .. Len(p) PROVE q[i] = p[i]
  <2>1. CASE i <= l
    <3>1. i \in 1 .. l
      BY <1>1, <2>1
    <3>. QED  BY <1>2, <1>4, <3>1
  <2>2. CASE ~(i <= l)
    <3>. DEFINE k == i - l
    <3>1. k \in 1 .. Len(p) - l /\ i = l + k
      BY <1>1, <2>2
    <3>. HIDE DEF k
    <3>2. q[l + k] = b[k]
      BY <1>2, <1>3, <1>4, <3>1
    <3>3. b[k] = p[l + k]
      BY <1>3, <3>1
    <3>. QED  BY <3>1, <3>2, <3>3
  <2>. QED  BY <2>1, <2>2
<1>7. q = p
  BY <1>4, <1>5, <1>6, SameSeq
<1>8. IsCut(p, l, a, b)
  <2>. HIDE DEF a, b
  <2>. QED  BY <1>2, <1>3, <1>7 DEF q, IsCut
<1>. QED  BY <1>8 DEF a, b

\* Starting with a text is standing before another.
LEMMA StartsIs ==
  ASSUME NEW p \in Seq(Int), NEW a \in Seq(Int)
  PROVE  Starts(p, a) <=> \E b \in Seq(Int) : p = a \o b
<1>1. Len(p) \in Nat /\ Len(a) \in Nat
  OBVIOUS
<1>2. SubSeq(a, 1, Len(a)) = a
  BY SubSeqFull
<1>3. Starts(p, a) <=> Len(a) <= Len(p) /\ a = SubSeq(p, 1, Len(a))
  BY <1>2, Zenon DEF Starts, IsPrefix
<1>4. ASSUME Starts(p, a) PROVE \E b \in Seq(Int) : p = a \o b
  <2>1. Len(a) \in 0 .. Len(p) /\ a = SubSeq(p, 1, Len(a))
    BY <1>1, <1>3, <1>4
  <2>. DEFINE b == SubSeq(p, Len(a) + 1, Len(p))
  <2>2. b \in Seq(Int) /\ p = a \o b
    BY <2>1, CutAt DEF IsCut
  <2>. QED  BY <2>2, Zenon
<1>5. ASSUME NEW b \in Seq(Int), p = a \o b PROVE Starts(p, a)
  <2>1. /\ Len(p) = Len(a) + Len(b) /\ Len(b) \in Nat /\ \A i \in 1 .. Len(a) : p[i] = a[i]
    BY <1>5, ConcatAt
  <2>2. Len(a) <= Len(p) /\ Len(a) \in 0 .. Len(p)
    BY <1>1, <2>1
  <2>. DEFINE c == SubSeq(p, 1, Len(a))
  <2>3. c \in Seq(Int) /\ Len(c) = Len(a) /\ \A i \in 1 .. Len(a) : c[i] = p[i]
    BY <2>2, FirstOf
  <2>. HIDE DEF c
  <2>4. c = a
    BY <2>1, <2>3, SameSeq
  <2>. QED  BY <1>3, <2>2, <2>4 DEF c
<1>. QED  BY <1>4, <1>5

\* The basename of a path stands behind its last slash.
EndsInSlash(b) == b # << >> /\ Last(b) = Slash

\* It is a name, and what is before it ends with a slash.
LEMMA BasenameIs ==
  ASSUME NEW p \in Seq(Int)
  PROVE  /\ BasenameOf(p) \in Seq(Int) /\ IsName(BasenameOf(p))
         /\ \/ IsName(p) /\ BasenameOf(p) = p
            \/ \E b \in Seq(Int) : EndsInSlash(b) /\ p = b \o BasenameOf(p)
<1>. DEFINE l == LastAt(p, Slash)
            t == BasenameOf(p)
            b == SubSeq(p, 1, l)
<1>1. t = SubSeq(p, l + 1, Len(p))
  BY Zenon DEF BasenameOf, SelectLastInSeq, LastAt, Places
<1>2. IsLast(p, Slash, l)
  BY LastFound
<1>. HIDE DEF l, t
<1>3. Len(p) \in Nat /\ l \in 0 .. Len(p) /\ l \in Nat
  BY <1>2 DEF IsLast
<1>b. b = SubSeq(p, 1, l)
  OBVIOUS
<1>. HIDE DEF b
<1>4. b \in Seq(Int) /\ t \in Seq(Int) /\ Len(b) = l /\ Len(t) = Len(p) - l /\ p = b \o t
  <2>1. IsCut(p, l, b, t)
    BY <1>1, <1>3, <1>b, CutAt, Zenon
  <2>. QED  BY <2>1 DEF IsCut
<1>5. /\ \A i \in 1 .. l : p[i] = b[i]
      /\ \A i \in 1 .. Len(t) : p[l + i] = t[i]
  BY <1>4, ConcatAt, SMTT(60)
<1>6. IsName(t)
  <2>1. ASSUME NEW i \in DOMAIN t PROVE t[i] # Slash
    <3>1. i \in 1 .. Len(t)
      BY <1>4
    <3>2. l + i \in l + 1 .. Len(p) /\ l + i \in 1 .. Len(p)
      BY <1>3, <1>4, <3>1
    <3>3. p[l + i] # Slash
      BY <1>2, <3>2 DEF IsLast
    <3>. QED  BY <1>5, <3>1, <3>3
  <2>. QED  BY <2>1 DEF IsName
<1>7. CASE l = 0
  <2>1. t = p
    BY <1>1, <1>7, SubSeqFull
  <2>. QED  BY <1>4, <1>6, <2>1 DEF t
<1>8. CASE l # 0
  <2>1. l \in 1 .. Len(p) /\ p[l] = Slash /\ l \in 1 .. l
    BY <1>2, <1>3, <1>8 DEF IsLast
  <2>2. b[l] = Slash
    BY <1>5, <2>1
  <2>3. EndsInSlash(b)
    BY <1>4, <1>8, <2>2 DEF EndsInSlash, Last
  <2>. QED  BY <1>4, <1>6, <2>3 DEF t
<1>. QED  BY <1>7, <1>8

\* What is behind the last slash is the basename.
LEMMA BasenameBehind ==
  ASSUME NEW b \in Seq(Int), EndsInSlash(b), NEW t \in Seq(Int), IsName(t)
  PROVE  BasenameOf(b \o t) = t
<1>. DEFINE p == b \o t
            l == LastAt(p, Slash)
            m == Len(b)
<1>1. /\ p \in Seq(Int) /\ Len(p) = m + Len(t) /\ m \in Nat /\ Len(t) \in Nat
      /\ \A i \in 1 .. m : p[i] = b[i]
      /\ \A i \in 1 .. Len(t) : p[m + i] = t[i]
  BY ConcatAt
<1>2. m >= 1 /\ b[m] = Slash
  BY <1>1 DEF EndsInSlash, Last
<1>. HIDE DEF p, m
<1>3. IsLast(p, Slash, l)
  BY <1>1, LastFound
<1>4. BasenameOf(p) = SubSeq(p, l + 1, Len(p))
  BY Zenon DEF BasenameOf, SelectLastInSeq, LastAt, Places
<1>. HIDE DEF l
<1>5. p[m] = Slash /\ m \in 1 .. Len(p)
  BY <1>1, <1>2
<1>6. l \in 1 .. Len(p) /\ p[l] = Slash /\ ~(m > l)
  BY <1>1, <1>3, <1>5 DEF IsLast
<1>7. l = m
  <2>1. SUFFICES ASSUME l > m PROVE FALSE
    BY <1>1, <1>6
  <2>. DEFINE i == l - m
  <2>2. i \in 1 .. Len(t) /\ m + i = l
    BY <1>1, <1>6, <2>1
  <2>. HIDE DEF i
  <2>3. p[l] = t[i] /\ i \in DOMAIN t
    BY <1>1, <2>2, SMTT(60)
  <2>. QED  BY <1>6, <2>3 DEF IsName
<1>8. SubSeq(p, m + 1, m + Len(t)) = t
  <2>1. \A k \in Nat : k >= 1 /\ k <= Len(t) => p[m + k] = t[k]
    BY <1>1
  <2>. QED  BY <1>1, <2>1, SliceIs
<1>. QED  BY <1>1, <1>4, <1>7, <1>8 DEF p

\* Paths: they start with a slash, and have no NUL.
Paths == {p \in Seq(Int) : (p = << >> \/ p[1] = Slash) /\ \A i \in DOMAIN p : p[i] # Nul}

\* A path has the name that its basename is.
LEMMA NameIsBasename ==
  ASSUME NEW p \in Paths, NEW t \in Seq(Int), t # << >>
  PROVE  HasName(p, t) <=> BasenameOf(p) = t
<1>1. p \in Seq(Int) /\ (p = << >> \/ p[1] = Slash) /\ Len(p) \in Nat /\ Len(t) \in Nat \ {0}
  BY DEF Paths
<1>2. ASSUME HasName(p, t) PROVE BasenameOf(p) = t
  <2>. DEFINE k == Len(p) - Len(t)
              d == SubSeq(p, 1, k - 1)
              s == <<Slash>> \o t
  <2>1. IsName(t) /\ k > 0 /\ SubSeq(p, k, Len(p)) = s /\ k \in 1 .. Len(p) /\ k - 1 + 1 = k /\ k - 1 \in 0 .. Len(p)
    BY <1>1, <1>2, SMTT(60) DEF HasName
  <2>2. s \in Seq(Int) /\ Len(s) = 1 + Len(t) /\ s[1] = Slash /\ \A i \in 1 .. Len(t) : s[1 + i] = t[i]
    BY OneThen DEF Slash
  <2>d. d = SubSeq(p, 1, k - 1) /\ s = SubSeq(p, k - 1 + 1, Len(p))
    BY <2>1
  <2>. HIDE DEF s, k, d
  <2>3. d \in Seq(Int) /\ Len(d) = k - 1 /\ p = d \o s
    <3>1. IsCut(p, k - 1, d, s)
      BY <1>1, <2>1, <2>d, CutAt, Zenon
    <3>. QED  BY <3>1 DEF IsCut
  <2>. DEFINE b2 == d \o <<Slash>>
  <2>4. /\ b2 \in Seq(Int) /\ Len(b2) = Len(d) + 1 /\ Len(d) \in Nat /\ b2[Len(d) + 1] = Slash
    BY <2>3, ConcatOne DEF Slash
  <2>5. p = b2 \o t
    <3>1. <<Slash>> \in Seq(Int)
      BY DEF Slash
    <3>. QED  BY <2>3, <3>1, ThreeParts DEF s
  <2>. HIDE DEF b2
  <2>6. EndsInSlash(b2)
    BY <2>4 DEF EndsInSlash, Last
  <2>. QED  BY <2>1, <2>4, <2>5, <2>6, BasenameBehind
<1>3. ASSUME BasenameOf(p) = t PROVE HasName(p, t)
  <2>1. IsName(t) /\ ((IsName(p) /\ p = t) \/ \E b \in Seq(Int) : EndsInSlash(b) /\ p = b \o t)
    BY <1>1, <1>3, BasenameIs
  <2>2. ASSUME IsName(p), p = t PROVE FALSE
    <3>1. p # << >> /\ 1 \in DOMAIN p
      BY <2>2, <1>1
    <3>. QED  BY <1>1, <2>2, <3>1 DEF IsName
  <2>3. PICK b \in Seq(Int) : EndsInSlash(b) /\ p = b \o t
    BY <2>1, <2>2
  <2>. DEFINE m == Len(b)
              s == <<Slash>> \o t
  <2>4. /\ Len(p) = m + Len(t) /\ m \in Nat /\ m >= 1 /\ b[m] = Slash
        /\ \A i \in 1 .. m : p[i] = b[i]
        /\ \A i \in 1 .. Len(t) : p[m + i] = t[i]
    <3>1. /\ Len(p) = m + Len(t) /\ m \in Nat
          /\ \A i \in 1 .. m : p[i] = b[i]
          /\ \A i \in 1 .. Len(t) : p[m + i] = t[i]
      BY <2>3, ConcatAt
    <3>. QED  BY <2>3, <3>1 DEF EndsInSlash, Last
  <2>5. s \in Seq(Int) /\ Len(s) = 1 + Len(t) /\ s[1] = Slash /\ \A i \in 1 .. Len(t) : s[1 + i] = t[i]
    BY OneThen DEF Slash
  <2>. HIDE DEF m, s
  <2>. DEFINE c == m - 1
  <2>6. c \in Nat /\ c + Len(s) = Len(p) /\ c + 1 = m /\ Len(s) \in Nat
    BY <1>1, <2>4, <2>5
  <2>7. ASSUME NEW k \in Nat, k >= 1, k <= Len(s) PROVE p[c + k] = s[k]
    <3>1. CASE k = 1
      <4>1. p[m] = Slash
        BY <2>4
      <4>. QED  BY <3>1, <4>1, <2>5, <2>6
    <3>2. CASE k # 1
      <4>. DEFINE i == k - 1
      <4>1. i \in 1 .. Len(t) /\ k = 1 + i /\ c + k = m + i
        BY <1>1, <2>4, <2>5, <2>7, <3>2
      <4>. HIDE DEF i, c
      <4>2. p[m + i] = t[i] /\ s[1 + i] = t[i]
        BY <4>1, <2>4, <2>5
      <4>. QED  BY <4>1, <4>2
    <3>. QED  BY <3>1, <3>2
  <2>. HIDE DEF c
  <2>8. SubSeq(p, c + 1, c + Len(s)) = s
    <3>1. p \in Seq(Int) /\ s \in Seq(Int) /\ c \in Nat /\ c + Len(s) <= Len(p)
      BY <1>1, <2>5, <2>6
    <3>2. \A k \in Nat : k >= 1 /\ k <= Len(s) => p[c + k] = s[k]
      BY <2>7, Zenon
    <3>. QED  BY <3>1, <3>2, SliceIs, ZenonT(60)
  <2>9. Len(p) - Len(t) = m /\ Len(p) > Len(t)
    BY <1>1, <2>4
  <2>10. SubSeq(p, Len(p) - Len(t), Len(p)) = s
    BY <2>6, <2>8, <2>9
  <2>. QED  BY <2>1, <2>9, <2>10 DEF HasName, s
<1>. QED  BY <1>2, <1>3

\* A command is what stands behind a bin directory.
LEMMA CommandIs ==
  ASSUME NEW p \in Seq(Int), NEW t \in Seq(Int), t # << >>
  PROVE  IsCommand(p) /\ BasenameOf(p) = t <=> \E bin \in Bins : IsName(t) /\ p = bin \o t
<1>1. \A bin \in Bins : bin \in Seq(Int) /\ EndsInSlash(bin)
  BY LookupsAssumption, Zenon DEF EndsInSlash
<1>2. ASSUME IsCommand(p), BasenameOf(p) = t PROVE \E bin \in Bins : IsName(t) /\ p = bin \o t
  <2>1. PICK bin \in Bins : /\ Starts(p, bin) /\ Len(p) > Len(bin)
                            /\ \A i \in Len(bin) + 1 .. Len(p) : p[i] # Slash
    BY <1>2 DEF IsCommand
  <2>2. PICK b \in Seq(Int) : p = bin \o b
    BY <1>1, <2>1, StartsIs
  <2>3. /\ Len(p) = Len(bin) + Len(b) /\ Len(bin) \in Nat /\ Len(b) \in Nat
        /\ \A i \in 1 .. Len(b) : p[Len(bin) + i] = b[i]
    BY <1>1, <2>2, ConcatAt
  <2>4. IsName(b)
    <3>1. ASSUME NEW i \in DOMAIN b PROVE b[i] # Slash
      <4>1. i \in 1 .. Len(b)
        OBVIOUS
      <4>2. Len(bin) + i \in Len(bin) + 1 .. Len(p)
        BY <2>3, <4>1, SMTT(60)
      <4>. QED  BY <2>1, <2>3, <4>1, <4>2
    <3>. QED  BY <3>1 DEF IsName
  <2>5. b = t
    BY <1>1, <1>2, <2>2, <2>4, BasenameBehind
  <2>. QED  BY <2>2, <2>4, <2>5
<1>3. ASSUME NEW bin \in Bins, IsName(t), p = bin \o t PROVE IsCommand(p) /\ BasenameOf(p) = t
  <2>1. bin \in Seq(Int) /\ EndsInSlash(bin)
    BY <1>1
  <2>2. BasenameOf(p) = t
    BY <1>3, <2>1, BasenameBehind
  <2>3. Starts(p, bin)
    BY <1>3, <2>1, StartsIs
  <2>4. /\ Len(p) = Len(bin) + Len(t) /\ Len(bin) \in Nat /\ Len(t) \in Nat
        /\ \A i \in 1 .. Len(t) : p[Len(bin) + i] = t[i]
    BY <1>3, <2>1, ConcatAt
  <2>5. Len(p) > Len(bin)
    <3>1. Len(t) # 0
      OBVIOUS
    <3>. QED  BY <2>4, <3>1
  <2>6. ASSUME NEW i \in Len(bin) + 1 .. Len(p) PROVE p[i] # Slash
    <3>. DEFINE k == i - Len(bin)
    <3>1. k \in 1 .. Len(t) /\ i = Len(bin) + k
      BY <2>4
    <3>. HIDE DEF k
    <3>2. p[i] = t[k] /\ k \in DOMAIN t
      BY <2>4, <3>1, SMTT(60)
    <3>. QED  BY <1>3, <3>2 DEF IsName
  <2>. QED  BY <2>2, <2>3, <2>5, <2>6, Zenon DEF IsCommand
<1>. QED  BY <1>2, <1>3

(***************************************************************************)
(* The packages of an index: what their paths are, and that no path is     *)
(* twice in one and no store path twice in all.                            *)
(***************************************************************************)

\* A path is its names, each behind a slash.
LEMMA PathGrows ==
  ASSUME NEW p \in Seq(Seq(Int)), Len(p) # 0
  PROVE  /\ Front(p) \in Seq(Seq(Int)) /\ Len(Front(p)) = Len(p) - 1 /\ Last(p) \in Seq(Int) /\ Last(p) = p[Len(p)]
         /\ \A i \in 1 .. Len(p) - 1 : Front(p)[i] = p[i]
         /\ PathOf(Front(p)) \in Seq(Int) /\ PathOf(p) = PathOf(Front(p)) \o (<<Slash>> \o Last(p))
<1>. DEFINE n == Len(p)
            f == Front(p)
            U == Seq(Int)
            m == n - 1
            g == [i \in 1 .. n |-> <<Slash>> \o p[i]]
            h == [i \in 1 .. m |-> g[i]]
<1>1. n \in Nat /\ m \in Nat /\ m + 1 = n /\ m \in 0 .. Len(p) /\ DOMAIN p = 1 .. n /\ n \in 1 .. n
  OBVIOUS
<1>2. f \in Seq(U) /\ Len(f) = m /\ \A i \in 1 .. m : f[i] = p[i]
  <2>1. p \in Seq(U) /\ f = SubSeq(p, 1, m)
    BY DEF Front
  <2>. HIDE DEF U, m, f
  <2>. QED  BY <1>1, <2>1, FirstOf
<1>3. \A i \in 1 .. n : p[i] \in Seq(Int)
  BY <1>1, ElementOfSeq
<1>4. <<Slash>> \in Seq(Int)
  BY DEF Slash
<1>5. \A i \in 1 .. n : <<Slash>> \o p[i] \in Seq(Int)
  BY <1>3, <1>4, ConcatAt
<1>6. g \in [1 .. n -> Seq(Int)] /\ g[n] = <<Slash>> \o p[n]
  BY <1>1, <1>5
<1>7. PathOf(p) = FlattenSeq(g)
  BY <1>1, Zenon DEF PathOf
<1>8. PathOf(f) = FlattenSeq(h)
  <2>1. DOMAIN f = 1 .. m
    <3>. HIDE DEF m, U
    <3>. QED  BY <1>1, <1>2
  <2>2. PathOf(f) = FlattenSeq([i \in 1 .. m |-> <<Slash>> \o f[i]])
    BY <2>1, Zenon DEF PathOf
  <2>3. \A i \in 1 .. m : g[i] = <<Slash>> \o f[i]
    <3>1. ASSUME NEW i \in 1 .. m PROVE g[i] = <<Slash>> \o f[i]
      <4>. HIDE DEF f, m, n
      <4>1. i \in 1 .. n /\ f[i] = p[i]
        BY <1>1, <1>2
      <4>. QED  BY <4>1
    <3>. QED  BY <3>1
  <2>. HIDE DEF g, m
  <2>4. [i \in 1 .. m |-> <<Slash>> \o f[i]] = h
    BY <2>3
  <2>. QED  BY <2>2, <2>4
<1>. HIDE DEF g
<1>9. FlattenSeq(g) = FlattenSeq(h) \o g[n]
  <2>. HIDE DEF m
  <2>1. g \in [1 .. m + 1 -> Seq(Int)]
    BY <1>1, <1>6
  <2>2. FlattenSeq(g) = FlattenSeq(h) \o g[m + 1]
    BY <1>1, <2>1, FlattenStep
  <2>. QED  BY <1>1, <2>2
<1>10. PathOf(f) \in Seq(Int)
  BY <1>2, PathTyped
<1>11. Last(p) = p[n] /\ p[n] \in Seq(Int)
  BY <1>1, <1>3 DEF Last
<1>. QED  BY <1>2, <1>6, <1>7, <1>8, <1>9, <1>10, <1>11

\* Names have no slash: a path says what they are.
Plainly(p) == p \in Seq(Seq(Int)) /\ \A i \in DOMAIN p : IsName(p[i])

\* No names, no path.
LEMMA NoNames ==
  ASSUME NEW p \in Seq(Seq(Int)), Len(p) = 0
  PROVE  PathOf(p) = << >>
<1>1. p = << >> /\ DOMAIN p = {}
  OBVIOUS
<1>. DEFINE g == [i \in DOMAIN p |-> <<Slash>> \o p[i]]
<1>2. g = << >> /\ Len(g) = 0
  BY <1>1
<1>. HIDE DEF g
<1>3. FlattenSeq(g) = << >>
  BY <1>2, FlattenNothing
<1>. QED  BY <1>3, Zenon DEF PathOf, g

\* The last name of a path.
HasLastName(p) ==
  /\ Plainly(Front(p)) /\ Len(Front(p)) = Len(p) - 1 /\ \A i \in 1 .. Len(p) - 1 : Front(p)[i] = p[i]
  /\ Last(p) = p[Len(p)] /\ Last(p) \in Seq(Int) /\ IsName(Last(p)) /\ PathOf(Front(p)) \in Seq(Int)
  /\ PathOf(Front(p)) \o <<Slash>> \in Seq(Int) /\ EndsInSlash(PathOf(Front(p)) \o <<Slash>>)
  /\ PathOf(p) = (PathOf(Front(p)) \o <<Slash>>) \o Last(p)

\* A node that is not the root has a last name.
LEMMA LastName ==
  ASSUME NEW p, Plainly(p), Len(p) # 0
  PROVE  HasLastName(p)
<1>. DEFINE n == Len(p)
            f == Front(p)
            t == Last(p)
            a == PathOf(f)
            b == a \o <<Slash>>
<1>1. p \in Seq(Seq(Int)) /\ n \in Nat /\ n # 0 /\ DOMAIN p = 1 .. n /\ \A i \in 1 .. n : IsName(p[i])
  BY SMTT(60) DEF Plainly
<1>2. /\ f \in Seq(Seq(Int)) /\ Len(f) = n - 1 /\ (\A i \in 1 .. n - 1 : f[i] = p[i]) /\ t \in Seq(Int) /\ t = p[n]
      /\ a \in Seq(Int) /\ PathOf(p) = a \o (<<Slash>> \o t)
  BY <1>1, PathGrows
<1>. HIDE DEF f, t, a, n
<1>3. Plainly(f)
  <2>. DEFINE U == Seq(Int)
  <2>1. f \in Seq(U)
    BY <1>2
  <2>. HIDE DEF U
  <2>2. DOMAIN f = 1 .. n - 1
    BY <1>2, <2>1
  <2>3. \A i \in 1 .. n - 1 : IsName(f[i])
    BY <1>1, <1>2
  <2>. QED  BY <1>2, <2>2, <2>3 DEF Plainly
<1>4. <<Slash>> \in Seq(Int) /\ Slash \in Int
  BY DEF Slash
<1>5. IsName(t)
  <2>1. n \in 1 .. n
    BY <1>1
  <2>. QED  BY <1>1, <1>2, <2>1
<1>6. PathOf(p) = b \o t
  BY <1>2, <1>4, ThreeParts
<1>7. b \in Seq(Int) /\ Len(b) = Len(a) + 1 /\ Len(a) \in Nat /\ b[Len(a) + 1] = Slash
  BY <1>2, <1>4, ConcatOne
<1>. HIDE DEF b
<1>8. EndsInSlash(b)
  BY <1>7 DEF EndsInSlash, Last
<1>. QED  BY <1>2, <1>3, <1>5, <1>6, <1>7, <1>8, Zenon DEF b, a, t, f, n, HasLastName

\* What stands before the same text.
LEMMA CancelRight ==
  ASSUME NEW a \in Seq(Int), NEW b \in Seq(Int), NEW z \in Seq(Int), a \o z = b \o z
  PROVE  a = b
<1>1. Len(a) + Len(z) = Len(b) + Len(z) /\ Len(a) \in Nat /\ Len(b) \in Nat /\ Len(z) \in Nat
  BY ConcatAt
<1>2. Len(a) = Len(b)
  BY <1>1
<1>3. \A i \in 1 .. Len(a) : a[i] = b[i]
  <2>1. \A i \in 1 .. Len(a) : (a \o z)[i] = a[i]
    BY ConcatAt
  <2>2. \A i \in 1 .. Len(b) : (b \o z)[i] = b[i]
    BY ConcatAt
  <2>. QED  BY <1>2, <2>1, <2>2
<1>. QED  BY <1>2, <1>3, SameSeq

\* So two nodes have no path in common.
LEMMA PathsApart ==
  ASSUME NEW p, Plainly(p), NEW q, Plainly(q), PathOf(p) = PathOf(q)
  PROVE  p = q
<1>. DEFINE T == {n \in Nat : \E x, y : Plainly(x) /\ Plainly(y) /\ Len(x) = n /\ PathOf(x) = PathOf(y) /\ x # y}
<1>1. ASSUME T # {} PROVE FALSE
  <2>1. PICK n \in T : \A m \in T : n <= m
    <3>1. T \subseteq Nat
      OBVIOUS
    <3>. HIDE DEF T
    <3>. QED  BY <1>1, <3>1, Smallest
  <2>2. PICK x, y : Plainly(x) /\ Plainly(y) /\ Len(x) = n /\ PathOf(x) = PathOf(y) /\ x # y
    BY <2>1, Zenon
  <2>3. n \in Nat /\ x \in Seq(Seq(Int)) /\ y \in Seq(Seq(Int)) /\ Len(y) \in Nat
    BY <2>1, <2>2 DEF Plainly
  <2>. DEFINE l == Len(y)
              f == Front(x)
              g == Front(y)
              v == Last(x)
              w == Last(y)
  <2>4. ASSUME n # 0 PROVE /\ Plainly(f) /\ Len(f) = n - 1 /\ (\A i \in 1 .. n - 1 : f[i] = x[i])
                           /\ v = x[n] /\ v \in Seq(Int) /\ IsName(v) /\ PathOf(f) \in Seq(Int)
                           /\ PathOf(f) \o <<Slash>> \in Seq(Int) /\ EndsInSlash(PathOf(f) \o <<Slash>>)
                           /\ PathOf(x) = (PathOf(f) \o <<Slash>>) \o v
    <3>1. HasLastName(x)
      BY <2>2, <2>4, LastName, Zenon
    <3>. QED  BY <3>1, <2>2, Zenon DEF HasLastName
  <2>5. ASSUME l # 0 PROVE /\ Plainly(g) /\ Len(g) = l - 1 /\ (\A i \in 1 .. l - 1 : g[i] = y[i])
                           /\ w = y[l] /\ w \in Seq(Int) /\ IsName(w) /\ PathOf(g) \in Seq(Int)
                           /\ PathOf(g) \o <<Slash>> \in Seq(Int) /\ EndsInSlash(PathOf(g) \o <<Slash>>)
                           /\ PathOf(y) = (PathOf(g) \o <<Slash>>) \o w
    <3>1. HasLastName(y)
      BY <2>2, <2>5, LastName, Zenon
    <3>. QED  BY <3>1, <2>2, Zenon DEF HasLastName
  <2>. HIDE DEF f, g, l, v, w, T
  <2>6. ASSUME NEW b \in Seq(Int), EndsInSlash(b), NEW t \in Seq(Int) PROVE b \o t # << >>
    <3>1. Len(b) >= 1 /\ Len(b \o t) = Len(b) + Len(t) /\ Len(t) \in Nat
      BY <2>6 DEF EndsInSlash
    <3>. QED  BY <3>1
  <2>7. CASE n = 0
    <3>1. PathOf(x) = << >>
      BY <2>2, <2>3, <2>7, NoNames
    <3>2. l = 0
      BY <2>2, <2>5, <2>6, <3>1, Zenon
    <3>3. x = y
      BY <2>2, <2>3, <2>7, <3>2 DEF l
    <3>. QED  BY <2>2, <3>3
  <2>8. CASE n # 0
    <3>1. l # 0
      <4>1. l = 0 => PathOf(y) = << >>
        BY <2>3, NoNames DEF l
      <4>2. PathOf(x) # << >>
        BY <2>4, <2>6, <2>8, Zenon
      <4>. QED  BY <2>2, <4>1, <4>2
    <3>. DEFINE b == PathOf(f) \o <<Slash>>
                c == PathOf(g) \o <<Slash>>
    <3>2. /\ b \in Seq(Int) /\ EndsInSlash(b) /\ v \in Seq(Int) /\ IsName(v) /\ PathOf(x) = b \o v
          /\ c \in Seq(Int) /\ EndsInSlash(c) /\ w \in Seq(Int) /\ IsName(w) /\ PathOf(y) = c \o w
      BY <2>4, <2>5, <2>8, <3>1, Zenon
    <3>3. v = w
      <4>. HIDE DEF b, c
      <4>1. BasenameOf(PathOf(x)) = v /\ BasenameOf(PathOf(y)) = w
        BY <3>2, BasenameBehind
      <4>. QED  BY <2>2, <4>1
    <3>4. b = c
      <4>. HIDE DEF b, c
      <4>1. b \o v = c \o v
        BY <2>2, <3>2, <3>3
      <4>. QED  BY <3>2, <4>1, CancelRight
    <3>5. PathOf(f) = PathOf(g)
      <4>1. PathOf(f) \in Seq(Int) /\ PathOf(g) \in Seq(Int) /\ <<Slash>> \in Seq(Int)
        BY <2>4, <2>5, <2>8, <3>1 DEF Slash
      <4>. QED  BY <3>4, <4>1, CancelRight
    <3>6. f = g
      <4>1. n - 1 \notin T /\ n - 1 \in Nat
        BY <2>1, <2>3, <2>8
      <4>2. Plainly(f) /\ Plainly(g) /\ Len(f) = n - 1
        BY <2>4, <2>5, <2>8, <3>1
      <4>. QED  BY <4>1, <4>2, <3>5, Zenon DEF T
    <3>7. x = y
      <4>1. n = l
        <5>1. n - 1 = l - 1
          BY <2>4, <2>5, <2>8, <3>1, <3>6
        <5>. QED  BY <2>3, <5>1 DEF l
      <4>2. ASSUME NEW i \in 1 .. n PROVE x[i] = y[i]
        <5>1. CASE i = n
          BY <3>3, <4>1, <5>1, <2>4, <2>5, <2>8, <3>1
        <5>2. CASE i # n
          <6>1. i \in 1 .. n - 1 /\ i \in 1 .. l - 1
            BY <2>3, <4>1, <5>2
          <6>2. f[i] = x[i] /\ g[i] = y[i]
            BY <2>4, <2>5, <2>8, <3>1, <6>1
          <6>. QED  BY <6>2, <3>6
        <5>. QED  BY <5>1, <5>2
      <4>. DEFINE U == Seq(Int)
      <4>3. x \in Seq(U) /\ y \in Seq(U) /\ Len(x) = Len(y) /\ \A i \in 1 .. Len(x) : x[i] = y[i]
        BY <2>2, <2>3, <4>1, <4>2 DEF l
      <4>. HIDE DEF U
      <4>. QED  BY <4>3, SameSeq
    <3>. QED  BY <2>2, <3>7
  <2>. QED  BY <2>7, <2>8
<1>2. Len(p) \in Nat
  BY DEF Plainly
<1>3. p # q => Len(p) \in T
  BY <1>2, Zenon
<1>. QED  BY <1>1, <1>3

\* A path that is not empty starts with a slash.
LEMMA StartsWithSlash ==
  ASSUME NEW p \in Seq(Seq(Int))
  PROVE  PathOf(p) = << >> \/ PathOf(p)[1] = Slash
<1>. DEFINE n == Len(p)
            g == [i \in 1 .. n |-> <<Slash>> \o p[i]]
<1>1. n \in Nat /\ DOMAIN p = 1 .. n
  OBVIOUS
<1>2. \A i \in 1 .. n : p[i] \in Seq(Int)
  BY <1>1, ElementOfSeq
<1>. HIDE DEF n
<1>3. ASSUME NEW i \in 1 .. n PROVE /\ <<Slash>> \o p[i] \in Seq(Int) /\ (<<Slash>> \o p[i])[1] = Slash
                                    /\ Len(<<Slash>> \o p[i]) >= 1
  <2>. DEFINE h == p[i]
              e == <<Slash>> \o h
  <2>1. h \in Seq(Int) /\ Slash \in Int
    BY <1>2 DEF Slash
  <2>. HIDE DEF h
  <2>2. e \in Seq(Int) /\ Len(e) = 1 + Len(h) /\ e[1] = Slash
    BY <2>1, OneThen
  <2>. HIDE DEF e
  <2>3. Len(h) \in Nat
    BY <2>1
  <2>4. Len(e) >= 1
    BY <2>2, <2>3
  <2>. QED  BY <2>2, <2>4 DEF e, h
<1>4. g \in [1 .. n -> Seq(Int)]
  BY <1>3
<1>5. PathOf(p) = FlattenSeq(g)
  BY <1>1, Zenon DEF PathOf
<1>6. CASE n = 0
  BY <1>6, NoNames DEF n
<1>7. CASE n # 0
  <2>1. 1 \in 1 .. n /\ n \in 0 .. n /\ 0 \in 0 .. n
    BY <1>1, <1>7
  <2>2. g[1] = <<Slash>> \o p[1]
    BY <2>1
  <2>3. Len(g[1]) >= 1 /\ g[1][1] = Slash
    BY <1>3, <2>1, <2>2
  <2>. HIDE DEF g
  <2>4. Stands(g, n)
    BY <1>1, <1>4, <2>1, ListsStand
  <2>5. FlattenSeq(g) = Heads(g, n) /\ Start(g, 0) = 0
    <3>1. \A j \in 0 .. n : j = 0 => Heads(g, j) = << >> /\ Start(g, j) = 0
      BY <1>1, <1>4, HeadsGrow, ZenonT(60)
    <3>. QED  BY <1>1, <1>4, <2>1, <3>1, HeadsAll
  <2>6. Heads(g, n)[Start(g, 1 - 1) + 1] = g[1][1]
    <3>1. \A i \in 1 .. n, k \in Nat : k >= 1 /\ k <= Len(g[i]) => Heads(g, n)[Start(g, i - 1) + k] = g[i][k]
      BY <2>4 DEF Stands
    <3>. QED  BY <2>1, <2>3, <3>1
  <2>. QED  BY <1>5, <2>3, <2>5, <2>6
<1>. QED  BY <1>6, <1>7

\* The nodes of a listing that is accepted have plain names.
LEMMA ListedPlainly ==
  ASSUME NEW ls, IsListing(ls), Listed(ls), NEW p \in DOMAIN ls
  PROVE  Plainly(p) /\ p \in Seq(Seq(Int))
<1>1. p \in Seq(Seq(Int)) /\ \A n \in 0 .. Len(p) : SubSeq(p, 1, n) \in DOMAIN ls
  BY DEF IsListing
<1>2. DOMAIN p = 1 .. Len(p) /\ Len(p) \in Nat
  BY <1>1
<1>3. ASSUME NEW i \in 1 .. Len(p) PROVE IsName(p[i])
  <2>. DEFINE U == Seq(Int)
              q == SubSeq(p, 1, i)
  <2>1. i \in 0 .. Len(p) /\ i \in Nat /\ i \in 1 .. i /\ p \in Seq(U)
    BY <1>1, <1>2
  <2>. HIDE DEF U
  <2>2. Len(q) = i /\ q[i] = p[i]
    BY <2>1, FirstOf
  <2>3. q \in DOMAIN ls
    BY <1>1, <2>1
  <2>. HIDE DEF q
  <2>4. q # << >>
    BY <2>1, <2>2
  <2>5. ~BadName(Last(q))
    BY <2>3, <2>4, Zenon DEF Listed
  <2>6. Last(q) = p[i]
    BY <2>2 DEF Last
  <2>. QED  BY <2>5, <2>6, Zenon DEF BadName, IsName
<1>. QED  BY <1>1, <1>2, <1>3, Zenon DEF Plainly

\* The entries of a package: paths, none of them twice.
ApartEntries(es) ==
  /\ es \in Seq(Range(es)) /\ DOMAIN es = 1 .. Len(es) /\ Len(es) \in Nat
  /\ \A k \in DOMAIN es : es[k].path \in Paths
  /\ \A k, l \in DOMAIN es : es[k].path = es[l].path => k = l

\* The list of a tree has every path once.
LEMMA ListApart ==
  ASSUME NEW ls, IsListing(ls), Listed(ls), NEW prefix, NEW list, list = ToList(Tree(ls), prefix)
  PROVE  /\ list \in Seq(Range(list)) /\ DOMAIN list = 1 .. Len(list)
         /\ \A i, j \in DOMAIN list : list[i].path = list[j].path => i = j
         /\ \A i \in DOMAIN list : \E p \in DOMAIN ls : list[i] = NodeAt(ls, p)
<1>. DEFINE T == {p \in DOMAIN Tree(ls) : Starts(PathOf(p), prefix)}
            order == Sorted(T, BeforeInTree)
<1>1. IsFiniteSet(DOMAIN ls) /\ DOMAIN ls \subseteq Seq(Seq(Int)) /\ DOMAIN Tree(ls) = DOMAIN ls
  BY DEF IsListing, Tree
<1>2. T \subseteq DOMAIN ls /\ T \subseteq Seq(Seq(Int))
  BY <1>1
<1>3. IsFiniteSet(T)
  <2>. HIDE DEF T
  <2>. QED  BY <1>1, <1>2, FS_Subset
<1>4. list = [i \in DOMAIN order |-> NodeAt(ls, order[i])]
  BY Zenon DEF ToList, NodeAt
<1>5. order = Sorted(T, BeforeInTree)
  OBVIOUS
<1>. HIDE DEF T, order
<1>6. Ranked(T, NodeOrder, order)
  BY <1>2, <1>3, <1>5, NodesRanked
<1>7. order \in Seq(T) /\ IsInjective(order)
  BY <1>6, Zenon DEF Ranked
<1>. DEFINE n == Len(order)
<1>8. n \in Nat /\ DOMAIN order = 1 .. n /\ \A i \in 1 .. n : order[i] \in DOMAIN ls
  BY <1>2, <1>7
<1>. HIDE DEF n
<1>9. DOMAIN list = 1 .. n /\ \A i \in 1 .. n : list[i] = NodeAt(ls, order[i]) /\ list[i].path = PathOf(order[i])
  BY <1>4, <1>8 DEF NodeAt
<1>10. list = [i \in 1 .. n |-> NodeAt(ls, order[i])]
  BY <1>4, <1>8
<1>11. list \in Seq({NodeAt(ls, order[i]) : i \in 1 .. n})
  BY <1>8, <1>10
<1>12. list \in Seq(Range(list)) /\ DOMAIN list = 1 .. Len(list)
  BY <1>11, InItsRange
<1>13. ASSUME NEW i \in DOMAIN list, NEW j \in DOMAIN list, list[i].path = list[j].path PROVE i = j
  <2>1. order[i] \in DOMAIN ls /\ order[j] \in DOMAIN ls /\ i \in DOMAIN order /\ j \in DOMAIN order
    BY <1>8, <1>9
  <2>2. PathOf(order[i]) = PathOf(order[j])
    BY <1>9, <1>13
  <2>3. Plainly(order[i]) /\ Plainly(order[j])
    BY <2>1, ListedPlainly
  <2>4. order[i] = order[j]
    BY <2>2, <2>3, PathsApart
  <2>. QED  BY <1>7, <2>1, <2>4, Zenon DEF IsInjective
<1>14. \A i \in DOMAIN list : \E p \in DOMAIN ls : list[i] = NodeAt(ls, p)
  BY <1>8, <1>9
<1>. QED  BY <1>12, <1>13, <1>14

\* What Only takes passes.
LEMMA PassingOnly ==
  ASSUME NEW s, NEW g, NEW T, DOMAIN g = DOMAIN s, g = [i \in DOMAIN s |-> g[i]],
         \A i \in DOMAIN s : g[i] = IF s[i] \in T THEN <<s[i]>> ELSE << >>
  PROVE  FlattenSeq(g) = Passing(s, T)
<1>. DEFINE h == [i \in DOMAIN s |-> IF s[i] \in T THEN <<s[i]>> ELSE << >>]
<1>1. g = h
  OBVIOUS
<1>. QED  BY <1>1 DEF Passing

\* So the entries of a package are apart, whatever is left out.
LEMMA EntriesApart ==
  ASSUME NEW package, IsListing(package.listing), Listed(package.listing), NEW prefix
  PROVE  ApartEntries(Entries(package, prefix))
<1>. DEFINE ls == package.listing
            list == ToList(Tree(ls), prefix)
            Good(e) == (\A x \in Excluded : ~Starts(e.path, x)) /\ Encodable(e, Separators)
            T == {e \in Range(list) : Good(e)}
            g == [i \in DOMAIN list |-> IF Good(list[i]) THEN <<list[i]>> ELSE << >>]
            es == Entries(package, prefix)
<1>1. es = FlattenSeq(g)
  BY Zenon DEF Entries, Only
<1>2. /\ list \in Seq(Range(list)) /\ DOMAIN list = 1 .. Len(list)
      /\ \A i, j \in DOMAIN list : list[i].path = list[j].path => i = j
  BY ListApart
<1>3. es \in Seq(Range(es)) /\ Len(es) \in Nat /\ \A e \in 1 .. Len(es) : Readable(es[e])
  BY EntriesReadable
<1>l. \A i \in DOMAIN list : \E p \in DOMAIN ls : list[i] = NodeAt(ls, p)
  BY ListApart
<1>. HIDE DEF list, es
<1>4. DOMAIN g = DOMAIN list /\ g = [i \in DOMAIN list |-> g[i]]
  OBVIOUS
<1>5. ASSUME NEW i \in DOMAIN list PROVE g[i] = IF list[i] \in T THEN <<list[i]>> ELSE << >>
  <2>1. g[i] = IF Good(list[i]) THEN <<list[i]>> ELSE << >>
    OBVIOUS
  <2>2. list[i] \in Range(list)
    BY Zenon DEF Range
  <2>. HIDE DEF g, Good
  <2>3. list[i] \in T <=> Good(list[i])
    BY <2>2
  <2>. HIDE DEF T
  <2>. QED  BY <2>1, <2>3
<1>. HIDE DEF g
<1>6. es = Passing(list, T)
  <2>. HIDE DEF T
  <2>. QED  BY <1>1, <1>4, <1>5, PassingOnly
<1>7. IsInjective(list)
  BY <1>2, Zenon DEF IsInjective
<1>8. Range(es) = Range(list) \cap T /\ IsInjective(es)
  <2>. HIDE DEF T
  <2>. QED  BY <1>2, <1>6, <1>7, PassingIs
<1>9. DOMAIN es = 1 .. Len(es)
  BY <1>3
<1>10. ASSUME NEW k \in DOMAIN es PROVE \E i \in DOMAIN list : es[k] = list[i]
  <2>1. es[k] \in Range(list)
    BY <1>8, Zenon DEF Range
  <2>. QED  BY <2>1, Zenon DEF Range
<1>11. ASSUME NEW k \in DOMAIN es, NEW l \in DOMAIN es, es[k].path = es[l].path PROVE k = l
  <2>1. PICK i \in DOMAIN list : es[k] = list[i]
    BY <1>10
  <2>2. PICK j \in DOMAIN list : es[l] = list[j]
    BY <1>10
  <2>3. i = j
    BY <1>2, <1>11, <2>1, <2>2, Zenon
  <2>4. es[k] = es[l]
    BY <2>1, <2>2, <2>3
  <2>. QED  BY <1>8, <2>4, Zenon DEF IsInjective
<1>12. ASSUME NEW k \in DOMAIN es PROVE es[k].path \in Paths
  <2>1. PICK i \in DOMAIN list : es[k] = list[i]
    BY <1>10
  <2>2. PICK p \in DOMAIN ls : list[i] = NodeAt(ls, p)
    BY <1>l
  <2>3. es[k].path = PathOf(p) /\ p \in Seq(Seq(Int))
    BY <2>1, <2>2, ListedPlainly DEF NodeAt
  <2>4. es[k].path \in Seq(Plain)
    BY <1>3, <1>9, Zenon DEF Readable
  <2>. DEFINE q == es[k].path
  <2>5. q = << >> \/ q[1] = Slash
    BY <2>3, StartsWithSlash
  <2>. HIDE DEF q
  <2>6. q \in Seq(Int) /\ \A m \in DOMAIN q : q[m] # Nul
    <3>1. q \in Seq(Plain)
      BY <2>4 DEF q
    <3>2. DOMAIN q = 1 .. Len(q) /\ Len(q) \in Nat /\ \A m \in 1 .. Len(q) : q[m] \in Plain
      BY <3>1
    <3>3. q \in Seq(Int)
      BY <3>1, PlainIsInt
    <3>. QED  BY <3>2, <3>3 DEF Plain
  <2>7. q \in Paths
    BY <2>5, <2>6, Zenon DEF Paths
  <2>. QED  BY <2>7 DEF q
<1>13. ApartEntries(es)
  BY <1>3, <1>9, <1>11, <1>12, Zenon DEF ApartEntries
<1>. QED  BY <1>13 DEF es

(***************************************************************************)
(* The packages that are recorded are apart too.                           *)
(***************************************************************************)
ApartPackages(pkgs) ==
  /\ pkgs \in Seq(Range(pkgs)) /\ DOMAIN pkgs = 1 .. Len(pkgs) /\ Len(pkgs) \in Nat
  /\ \A i \in DOMAIN pkgs : ApartEntries(pkgs[i].entries)
  /\ \A i, j \in DOMAIN pkgs : pkgs[i].store_path = pkgs[j].store_path => i = j

\* So it is for what an input keeps.
LEMMA KeptApart ==
  ASSUME input \in Inputs
  PROVE  ApartPackages(Kept(input))
<1>. DEFINE prefix == input.prefix
            given == input.packages
            Good(p) == Listed(p.listing) /\ Entries(p, input.prefix) # << >>
            T == {p \in Range(given) : Good(p)}
            g == [i \in DOMAIN given |-> IF Good(given[i]) THEN <<given[i]>> ELSE << >>]
            kept == FlattenSeq(g)
            R(i) == Recorded(kept[i].store_path, Entries(kept[i], prefix))
            pkgs == Kept(input)
<1>1. /\ given \in Seq(Range(given))
      /\ \A p \in Range(given) : IsListing(p.listing)
      /\ \A i, j \in DOMAIN given : given[i].store_path.json = given[j].store_path.json => i = j
  BY InputsAssumption, Zenon
<1>2. pkgs = [i \in DOMAIN kept |-> R(i)]
  BY Zenon DEF Kept, Only
<1>. HIDE DEF given, pkgs, kept
<1>4. DOMAIN g = DOMAIN given /\ g = [i \in DOMAIN given |-> g[i]]
  OBVIOUS
<1>5. ASSUME NEW i \in DOMAIN given PROVE g[i] = IF given[i] \in T THEN <<given[i]>> ELSE << >>
  <2>1. g[i] = IF Good(given[i]) THEN <<given[i]>> ELSE << >>
    OBVIOUS
  <2>2. given[i] \in Range(given)
    BY Zenon DEF Range
  <2>. HIDE DEF g, Good
  <2>3. given[i] \in T <=> Good(given[i])
    BY <2>2
  <2>. HIDE DEF T
  <2>. QED  BY <2>1, <2>3
<1>. HIDE DEF g
<1>6. kept = Passing(given, T)
  <2>. HIDE DEF T
  <2>. QED  BY <1>4, <1>5, PassingOnly DEF kept
<1>7. IsInjective(given)
  BY <1>1, Zenon DEF IsInjective
<1>8. kept \in Seq(Range(given)) /\ Range(kept) = Range(given) \cap T /\ IsInjective(kept)
  <2>. HIDE DEF T
  <2>. QED  BY <1>1, <1>6, <1>7, PassingIs
<1>. DEFINE n == Len(kept)
<1>9. n \in Nat /\ DOMAIN kept = 1 .. n
  BY <1>8
<1>10. ASSUME NEW i \in 1 .. n
       PROVE  /\ \E j \in DOMAIN given : kept[i] = given[j]
              /\ IsListing(kept[i].listing) /\ Listed(kept[i].listing)
  <2>1. kept[i] \in Range(given) /\ kept[i] \in T
    BY <1>8, <1>9, Zenon DEF Range
  <2>2. Listed(kept[i].listing)
    BY <2>1
  <2>3. \E j \in DOMAIN given : kept[i] = given[j]
    BY <2>1, Zenon DEF Range
  <2>. QED  BY <1>1, <2>1, <2>2, <2>3
<1>. HIDE DEF n, T
<1>11. ASSUME NEW i \in 1 .. n PROVE ApartEntries(Entries(kept[i], prefix))
  BY <1>10, EntriesApart
<1>12. DOMAIN pkgs = 1 .. n /\ \A i \in 1 .. n : pkgs[i].entries = Entries(kept[i], prefix) /\ pkgs[i].store_path = kept[i].store_path
  BY <1>2, <1>9 DEF Recorded
<1>13. pkgs \in Seq(Range(pkgs)) /\ Len(pkgs) = n
  <2>1. pkgs = [i \in 1 .. n |-> R(i)]
    BY <1>2, <1>9
  <2>2. pkgs \in Seq({R(i) : i \in 1 .. n})
    BY <1>9, <2>1
  <2>3. pkgs \in Seq(Range(pkgs)) /\ DOMAIN pkgs = 1 .. Len(pkgs) /\ Len(pkgs) \in Nat
    BY <2>2, InItsRange
  <2>. QED  BY <1>9, <1>12, <2>3
<1>14. \A i \in DOMAIN pkgs : ApartEntries(pkgs[i].entries)
  BY <1>11, <1>12
<1>15. ASSUME NEW i \in DOMAIN pkgs, NEW j \in DOMAIN pkgs, pkgs[i].store_path = pkgs[j].store_path PROVE i = j
  <2>1. i \in 1 .. n /\ j \in 1 .. n /\ kept[i].store_path = kept[j].store_path
    BY <1>12, <1>15
  <2>2. PICK a \in DOMAIN given : kept[i] = given[a]
    BY <1>10, <2>1
  <2>3. PICK b \in DOMAIN given : kept[j] = given[b]
    BY <1>10, <2>1
  <2>4. given[a].store_path.json = given[b].store_path.json
    BY <2>1, <2>2, <2>3
  <2>5. a = b
    BY <1>1, <2>4, Zenon
  <2>6. kept[i] = kept[j]
    BY <2>2, <2>3, <2>5
  <2>. QED  BY <1>8, <1>9, <2>1, <2>6, Zenon DEF IsInjective
<1>16. ApartPackages(pkgs)
  BY <1>9, <1>12, <1>13, <1>14, <1>15, Zenon DEF ApartPackages
<1>. QED  BY <1>16 DEF pkgs

(***************************************************************************)
(* The packages, their ordinals and their paths.                           *)
(***************************************************************************)
LEMMA FiniteImage ==
  ASSUME NEW f, IsFiniteSet(DOMAIN f), f = [x \in DOMAIN f |-> f[x]]
  PROVE  IsFiniteSet(Range(f))
<1>. DEFINE T == Range(f)
<1>1. \A x \in DOMAIN f : f[x] \in T
  BY Zenon DEF Range
<1>2. \A e \in T : \E x \in DOMAIN f : f[x] = e
  BY Zenon DEF Range
<1>. HIDE DEF T
<1>3. f \in [DOMAIN f -> T]
  BY <1>1
<1>4. f \in Surjection(DOMAIN f, T)
  BY <1>2, <1>3, Zenon DEF Surjection
<1>5. IsFiniteSet(T)
  BY <1>4, FS_Surjection
<1>. QED  BY <1>5 DEF T

\* Ordinals are those of packages.
LEMMA PackageNumbered ==
  ASSUME NEW pkgs, ApartPackages(pkgs)
  PROVE  /\ Ordinals(pkgs) \subseteq Nat /\ IsFiniteSet(Ordinals(pkgs))
         /\ \A n \in Ordinals(pkgs) : n + 1 \in DOMAIN pkgs /\ (n + 1) - 1 = n /\ Package(pkgs, n) = pkgs[n + 1]
         /\ \A i \in DOMAIN pkgs : i - 1 \in Ordinals(pkgs) /\ (i - 1) + 1 = i /\ Package(pkgs, i - 1) = pkgs[i]
<1>. DEFINE n == Len(pkgs)
<1>1. DOMAIN pkgs = 1 .. n /\ n \in Nat
  BY DEF ApartPackages
<1>. HIDE DEF n
<1>2. Ordinals(pkgs) = {i - 1 : i \in 1 .. n}
  BY <1>1 DEF Ordinals
<1>3. Ordinals(pkgs) = 0 .. n - 1
  BY <1>1, <1>2
<1>4. IsFiniteSet(0 .. n - 1)
  BY <1>1, FS_Interval
<1>5. \A m \in 0 .. n - 1 : m + 1 \in 1 .. n /\ (m + 1) - 1 = m /\ m \in Nat
  BY <1>1
<1>6. \A i \in 1 .. n : i - 1 \in 0 .. n - 1 /\ (i - 1) + 1 = i
  BY <1>1
<1>7. \A m : Package(pkgs, m) = pkgs[m + 1]
  BY DEF Package
<1>8. \A i \in 1 .. n : Package(pkgs, i - 1) = pkgs[i]
  BY <1>6, <1>7
<1>9. Ordinals(pkgs) \subseteq Nat
  BY <1>3, <1>5
<1>. QED  BY <1>1, <1>3, <1>4, <1>5, <1>6, <1>7, <1>8, <1>9, Zenon

\* There are finitely many paths.
LEMMA PathsFinite ==
  ASSUME NEW pkgs, ApartPackages(pkgs)
  PROVE  /\ IsFiniteSet(AllPaths(pkgs)) /\ AllPaths(pkgs) \subseteq Paths /\ AllPaths(pkgs) \subseteq Seq(Int)
         /\ \A i \in DOMAIN pkgs : PathsOf(pkgs[i]) \subseteq AllPaths(pkgs)
         /\ \A p \in AllPaths(pkgs) : \E i \in DOMAIN pkgs : p \in PathsOf(pkgs[i])
         /\ \A i \in DOMAIN pkgs : \A k \in DOMAIN pkgs[i].entries :
              pkgs[i].entries[k].path \in PathsOf(pkgs[i]) /\ pkgs[i].entries[k].path \in Seq(Int)
         /\ \A i \in DOMAIN pkgs : \A p : p \in PathsOf(pkgs[i]) => \E k \in DOMAIN pkgs[i].entries : p = pkgs[i].entries[k].path
<1>. DEFINE n == Len(pkgs)
            own(i) == [k \in DOMAIN pkgs[i].entries |-> pkgs[i].entries[k].path]
            g == [i \in 1 .. n |-> own(i)]
<1>1. DOMAIN pkgs = 1 .. n /\ n \in Nat
  BY DEF ApartPackages
<1>. HIDE DEF n
<1>2. ASSUME NEW i \in 1 .. n PROVE own(i) \in Seq(Paths) /\ Range(own(i)) = PathsOf(pkgs[i])
  <2>. DEFINE es == pkgs[i].entries
              e == own(i)
  <2>1. DOMAIN es = 1 .. Len(es) /\ Len(es) \in Nat /\ \A k \in DOMAIN es : es[k].path \in Paths
    BY <1>1, Zenon DEF ApartPackages, ApartEntries
  <2>2. PathsOf(pkgs[i]) = {es[k].path : k \in DOMAIN es}
    BY DEF PathsOf
  <2>. HIDE DEF es
  <2>3. e = [k \in DOMAIN es |-> es[k].path]
    BY DEF es
  <2>. HIDE DEF e
  <2>4. e \in Seq(Paths)
    BY <2>1, <2>3
  <2>5. Range(e) = PathsOf(pkgs[i])
    BY <2>2, <2>3 DEF Range
  <2>. QED  BY <2>4, <2>5 DEF e
<1>3. ASSUME NEW i \in 1 .. n PROVE g[i] = own(i)
  OBVIOUS
<1>. HIDE DEF own
<1>4. g \in [1 .. n -> Seq(Paths)]
  BY <1>2
<1>. HIDE DEF g
<1>. DEFINE f == FlattenSeq(g)
<1>5. f \in Seq(Paths)
  BY <1>1, <1>4, FlattenType
<1>6. ASSUME NEW e PROVE e \in Range(f) <=> \E i \in 1 .. n : e \in PathsOf(pkgs[i])
  <2>1. e \in Range(f) <=> \E i \in 1 .. n : e \in Range(g[i])
    BY <1>1, <1>4, FlatMembers
  <2>. QED  BY <2>1, <1>2, <1>3
<1>. HIDE DEF f
<1>7. DOMAIN f = 1 .. Len(f) /\ Len(f) \in Nat /\ f = [x \in DOMAIN f |-> f[x]] /\ \A x \in DOMAIN f : f[x] \in Paths
  BY <1>5
<1>8. IsFiniteSet(DOMAIN f)
  <2>. DEFINE l == Len(f)
  <2>1. l \in Nat /\ DOMAIN f = 1 .. l
    BY <1>7
  <2>. HIDE DEF l
  <2>2. 1 \in Int /\ l \in Int
    BY <2>1
  <2>3. IsFiniteSet(1 .. l)
    BY <2>2, FS_Interval
  <2>. QED  BY <2>1, <2>3
<1>9. IsFiniteSet(Range(f)) /\ Range(f) \subseteq Paths
  <2>1. IsFiniteSet(Range(f))
    BY <1>7, <1>8, FiniteImage
  <2>2. Range(f) \subseteq Paths
    BY <1>7, Zenon DEF Range
  <2>. QED  BY <2>1, <2>2
<1>10. ASSUME NEW e PROVE e \in AllPaths(pkgs) <=> e \in Range(f)
  BY <1>1, <1>6, Zenon DEF AllPaths
<1>11. AllPaths(pkgs) = Range(f)
  BY <1>10
<1>12. Paths \subseteq Seq(Int)
  BY DEF Paths
<1>13. \A i \in DOMAIN pkgs : \A k \in DOMAIN pkgs[i].entries : pkgs[i].entries[k].path \in PathsOf(pkgs[i])
  BY Zenon DEF PathsOf
<1>14. \A i \in DOMAIN pkgs : \A p : p \in PathsOf(pkgs[i]) => \E k \in DOMAIN pkgs[i].entries : p = pkgs[i].entries[k].path
  BY Zenon DEF PathsOf
<1>15. \A i \in DOMAIN pkgs : PathsOf(pkgs[i]) \subseteq AllPaths(pkgs)
  BY Zenon DEF AllPaths
<1>16. \A p \in AllPaths(pkgs) : \E i \in DOMAIN pkgs : p \in PathsOf(pkgs[i])
  BY Zenon DEF AllPaths
<1>. QED  BY <1>9, <1>11, <1>12, <1>13, <1>14, <1>15, <1>16, ZenonT(60)

\* The ordinals of the packages with some of the paths, ascending.
LEMMA HavingIs ==
  ASSUME NEW pkgs, ApartPackages(pkgs), NEW paths
  PROVE  /\ Having(pkgs, paths) \in Seq(Nat) /\ IsInjective(Having(pkgs, paths))
         /\ \A n : n \in Range(Having(pkgs, paths)) <=>
                     n \in Ordinals(pkgs) /\ \E p \in PathsOf(Package(pkgs, n)) : p \in paths
<1>. DEFINE S == {n \in Ordinals(pkgs) : PathsOf(Package(pkgs, n)) \cap paths # {}}
            s == Having(pkgs, paths)
<1>1. s = Ascending(S)
  BY Zenon DEF Having
<1>2. Ordinals(pkgs) \subseteq Nat /\ IsFiniteSet(Ordinals(pkgs))
  BY PackageNumbered, Zenon
<1>3. S \subseteq Ordinals(pkgs)
  OBVIOUS
<1>4. \A n : n \in S <=> n \in Ordinals(pkgs) /\ \E p \in PathsOf(Package(pkgs, n)) : p \in paths
  OBVIOUS
<1>. HIDE DEF S, s
<1>5. IsFiniteSet(S) /\ S \subseteq Int /\ S \subseteq Nat
  BY <1>2, <1>3, FS_Subset
<1>6. Ranked(S, Numbers, s)
  BY <1>1, <1>5, NumbersRanked
<1>7. s \in Seq(S) /\ IsInjective(s) /\ Range(s) = S
  BY <1>6, Zenon DEF Ranked
<1>8. s \in Seq(Nat)
  <2>1. s \in [1 .. Len(s) -> S] /\ Len(s) \in Nat
    BY <1>7
  <2>2. s \in [1 .. Len(s) -> Nat]
    BY <1>5, <2>1
  <2>. QED  BY <2>1, <2>2
<1>. QED  BY <1>4, <1>7, <1>8 DEF s

(***************************************************************************)
(* Lists of a sidecar are those of the map its postings were made of.      *)
(***************************************************************************)
IsMap(m, V) == IsFiniteSet(DOMAIN m) /\ DOMAIN m \subseteq Seq(Int) /\ \A k \in DOMAIN m : m[k] \in Seq(V)
HasPostings(files, m) == files.postings = Postings(m).raw /\ files.fst = Postings(m).fst
Lists(files, m) ==
  /\ DOMAIN files.fst = DOMAIN m
  /\ \A k \in DOMAIN m : List(files, k) = m[k]
  /\ \A k : k \notin DOMAIN m => List(files, k) = << >>

\* So it is for every such map.
LEMMA ListIs ==
  ASSUME NEW V, NEW m, IsMap(m, V), NEW files, HasPostings(files, m)
  PROVE  Lists(files, m)
<1>. DEFINE file == Postings(m)
<1>0. files.postings = file.raw /\ files.fst = file.fst
  BY DEF HasPostings
<1>1. /\ DOMAIN file.fst = DOMAIN m
      /\ \A k \in DOMAIN m : Found(file, k) = m[k]
      /\ \A k : k \notin DOMAIN m => Found(file, k) = << >>
  BY PostingsFind DEF IsMap
<1>. HIDE DEF file
<1>2. ASSUME NEW k PROVE List(files, k) = Found(file, k)
  <2>. DEFINE other == [raw |-> files.postings, fst |-> files.fst]
  <2>1. other.raw = file.raw /\ other.fst = file.fst
    BY <1>0
  <2>2. List(files, k) = Found(other, k)
    BY Zenon DEF List
  <2>. HIDE DEF other
  <2>. QED  BY <2>1, <2>2, Zenon DEF Found
<1>3. /\ DOMAIN files.fst = DOMAIN m
      /\ \A k \in DOMAIN m : List(files, k) = m[k]
      /\ \A k : k \notin DOMAIN m => List(files, k) = << >>
  BY <1>0, <1>1, <1>2
<1>. QED  BY <1>3, Zenon DEF Lists

(***************************************************************************)
(* The keys with a prefix are neighbours: when the prefix comes before a   *)
(* key that does not start with it, no key that does is left.              *)
(***************************************************************************)
LEMMA LeastIs ==
  ASSUME NEW I, I \subseteq Nat, I # {}
  PROVE  Min(I) \in I /\ \A y \in I : Min(I) <= y
<1>1. PICK m \in I : \A i \in I : m <= i
  BY Smallest
<1>2. \E x : x \in I /\ \A y \in I : x =< y
  BY <1>1, Zenon
<1>. QED  BY <1>2, Zenon DEF Min

\* Starting with a text is having its characters.
LEMMA StartsAt ==
  ASSUME NEW p \in Seq(Int), NEW a \in Seq(Int)
  PROVE  Starts(p, a) <=> Len(a) <= Len(p) /\ \A i \in 1 .. Len(a) : p[i] = a[i]
<1>1. Len(p) \in Nat /\ Len(a) \in Nat
  OBVIOUS
<1>2. SubSeq(a, 1, Len(a)) = a
  BY SubSeqFull
<1>3. Starts(p, a) <=> Len(a) <= Len(p) /\ a = SubSeq(p, 1, Len(a))
  BY <1>2, Zenon DEF Starts, IsPrefix
<1>4. ASSUME Len(a) <= Len(p) PROVE a = SubSeq(p, 1, Len(a)) <=> \A i \in 1 .. Len(a) : p[i] = a[i]
  <2>. DEFINE c == SubSeq(p, 1, Len(a))
  <2>1. Len(a) \in 0 .. Len(p)
    BY <1>1, <1>4
  <2>2. c \in Seq(Int) /\ Len(c) = Len(a) /\ \A i \in 1 .. Len(a) : c[i] = p[i]
    BY <2>1, FirstOf
  <2>. HIDE DEF c
  <2>3. ASSUME a = c PROVE \A i \in 1 .. Len(a) : p[i] = a[i]
    BY <2>2, <2>3
  <2>4. ASSUME \A i \in 1 .. Len(a) : p[i] = a[i] PROVE a = c
    <3>1. \A i \in 1 .. Len(a) : a[i] = c[i]
      BY <2>2, <2>4
    <3>. QED  BY <2>2, <3>1, SameSeq
  <2>5. a = c <=> \A i \in 1 .. Len(a) : p[i] = a[i]
    BY <2>3, <2>4
  <2>. QED  BY <2>5 DEF c
<1>. QED  BY <1>3, <1>4

\* What starts with a text comes before what comes after it and does not.
LEMMA BeyondPrefix ==
  ASSUME NEW a \in Seq(Int), NEW e \in Seq(Int), NEW k \in Seq(Int),
         Starts(k, a), ~Starts(e, a), Before(a, e)
  PROVE  Before(k, e)
<1>1. PICK n \in Nat : LexAt(a, e, Numbers, n)
  BY BeforeIsLex DEF Lex
<1>2. /\ n <= Len(a) /\ n <= Len(e) /\ n < Len(e) /\ \A i \in 1 .. n : a[i] = e[i]
      /\ n = Len(a) \/ (n < Len(a) /\ <<a[n + 1], e[n + 1]>> \in Numbers)
  BY <1>1, Zenon DEF LexAt, Agree
<1>3. Len(a) \in Nat /\ Len(e) \in Nat /\ Len(k) \in Nat
  OBVIOUS
<1>4. Len(a) <= Len(k) /\ \A i \in 1 .. Len(a) : k[i] = a[i]
  BY StartsAt
<1>5. n # Len(a)
  <2>1. SUFFICES ASSUME n = Len(a) PROVE FALSE
    OBVIOUS
  <2>2. Len(a) <= Len(e) /\ \A i \in 1 .. Len(a) : e[i] = a[i]
    BY <1>2, <2>1
  <2>. QED  BY <2>2, StartsAt
<1>6. n < Len(a) /\ <<a[n + 1], e[n + 1]>> \in Numbers
  BY <1>2, <1>5
<1>7. n + 1 \in 1 .. Len(a) /\ n <= Len(k) /\ n < Len(k)
  BY <1>3, <1>4, <1>6, SMTT(60)
<1>8. k[n + 1] = a[n + 1]
  BY <1>4, <1>7
<1>9. \A i \in 1 .. n : k[i] = e[i]
  <2>. TAKE i \in 1 .. n
  <2>1. i \in 1 .. Len(a)
    BY <1>3, <1>6
  <2>. QED  BY <2>1, <1>2, <1>4
<1>10. LexAt(k, e, Numbers, n)
  BY <1>2, <1>6, <1>7, <1>8, <1>9, Zenon DEF LexAt, Agree
<1>. QED  BY <1>10, BeforeIsLex DEF Lex

StopAt(keys, a) == SelectInSeq(keys, LAMBDA k : ~Starts(k, a) /\ Before(a, k))
SeenOf(keys, a) == IF StopAt(keys, a) = 0 THEN keys ELSE SubSeq(keys, 1, StopAt(keys, a) - 1)

\* Up to the first key beyond the prefix, none that starts with it is missed.
LEMMA PrefixSeen ==
  ASSUME NEW K, IsFiniteSet(K), K \subseteq Seq(Int), NEW keys, keys = Sorted(K, Before), NEW a \in Seq(Int)
  PROVE  \A k : k \in Range(SeenOf(keys, a)) /\ Starts(k, a) <=> k \in K /\ Starts(k, a)
<1>. DEFINE end == StopAt(keys, a)
            seen == SeenOf(keys, a)
<1>0. seen = IF end = 0 THEN keys ELSE SubSeq(keys, 1, end - 1)
  BY DEF SeenOf
<1>. DEFINE I == {i \in 1 .. Len(keys) : ~Starts(keys[i], a) /\ Before(a, keys[i])}
            n == Len(keys)
<1>1. Ranked(K, TextOrder, keys)
  BY TextsRanked
<1>2. keys \in Seq(K) /\ Range(keys) = K /\ \A i, j \in 1 .. Len(keys) : <<keys[i], keys[j]>> \in TextOrder => i < j
  BY <1>1, Zenon DEF Ranked
<1>3. n \in Nat /\ DOMAIN keys = 1 .. n /\ \A i \in 1 .. n : keys[i] \in K /\ keys[i] \in Seq(Int)
  BY <1>2
<1>4. end = IF I # {} THEN Min(I) ELSE 0
  BY Zenon DEF StopAt, SelectInSeq
<1>. HIDE DEF end, seen
<1>5. I \subseteq Nat
  <2>1. I \subseteq 1 .. n
    BY Zenon
  <2>. HIDE DEF I, n
  <2>. QED  BY <2>1, <1>3
<1>6. ASSUME end # 0
      PROVE  /\ end \in 1 .. n /\ ~Starts(keys[end], a) /\ Before(a, keys[end])
             /\ seen = SubSeq(keys, 1, end - 1)
  <2>1. I # {} /\ end = Min(I)
    BY <1>4, <1>6
  <2>2. end \in I
    <3>. HIDE DEF I
    <3>. QED  BY <1>5, <2>1, LeastIs
  <2>3. seen = SubSeq(keys, 1, end - 1)
    BY <1>0, <1>6
  <2>. QED  BY <2>2, <2>3
<1>. HIDE DEF I, n
<1>7. ASSUME end # 0
      PROVE  Len(seen) = end - 1 /\ seen \in Seq(K) /\ \A i \in 1 .. end - 1 : seen[i] = keys[i]
  <2>1. end - 1 \in 0 .. Len(keys)
    BY <1>3, <1>6, <1>7 DEF n
  <2>2. SubSeq(keys, 1, end - 1) \in Seq(K) /\ Len(SubSeq(keys, 1, end - 1)) = end - 1 /\ \A i \in 1 .. end - 1 : SubSeq(keys, 1, end - 1)[i] = keys[i]
    <3>1. keys \in Seq(K)
      BY <1>2
    <3>2. \A l \in 0 .. Len(keys) :
            SubSeq(keys, 1, l) \in Seq(K) /\ Len(SubSeq(keys, 1, l)) = l /\ \A i \in 1 .. l : SubSeq(keys, 1, l)[i] = keys[i]
      BY <3>1, FirstOf, Zenon
    <3>. QED  BY <2>1, <3>2, Zenon
  <2>. QED  BY <1>6, <1>7, <2>2
<1>8. ASSUME NEW k \in K, Starts(k, a) PROVE k \in Range(seen)
  <2>1. CASE end = 0
    BY <1>0, <1>2, <2>1
  <2>2. CASE end # 0
    <3>1. PICK j \in 1 .. n : keys[j] = k
      BY <1>2, <1>3, Zenon DEF Range
    <3>2. end \in 1 .. n /\ ~Starts(keys[end], a) /\ Before(a, keys[end])
      BY <1>6, <2>2
    <3>3. Before(keys[j], keys[end])
      BY <1>3, <1>8, <3>1, <3>2, BeyondPrefix
    <3>4. <<keys[j], keys[end]>> \in TextOrder
      BY <1>3, <3>2, <3>3, TextsOrdered
    <3>5. j < end
      BY <1>2, <3>2, <3>4 DEF n
    <3>6. j \in 1 .. end - 1
      BY <1>3, <3>2, <3>5
    <3>7. DOMAIN seen = 1 .. end - 1 /\ seen[j] = keys[j]
      BY <1>7, <2>2, <3>6
    <3>. QED  BY <3>1, <3>6, <3>7, Zenon DEF Range
  <2>. QED  BY <2>1, <2>2
<1>9. ASSUME NEW k \in Range(seen) PROVE k \in K
  <2>1. seen \in Seq(K)
    <3>1. CASE end = 0
      BY <1>0, <1>2, <3>1
    <3>2. CASE end # 0
      BY <1>7, <3>2
    <3>. QED  BY <3>1, <3>2
  <2>2. \A i \in DOMAIN seen : seen[i] \in K
    BY <2>1, InItsRange, Zenon
  <2>. QED  BY <2>2, Zenon DEF Range
<1>. QED  BY <1>8, <1>9, Zenon DEF seen

----------------------------------------------------------------------------
(***************************************************************************)
(* The basename sidecar.                                                   *)
(***************************************************************************)
LEMMA BasesAre ==
  ASSUME NEW pkgs, ApartPackages(pkgs), NEW B, B = {BasenameOf(p) : p \in AllPaths(pkgs)} \ {<<>>}
  PROVE  /\ IsFiniteSet(B) /\ B \subseteq Seq(Int)
         /\ \A b : b \in B <=> b # <<>> /\ \E p \in AllPaths(pkgs) : BasenameOf(p) = b
<1>. DEFINE A == AllPaths(pkgs)
            f == [p \in A |-> BasenameOf(p)]
<1>1. IsFiniteSet(A) /\ A \subseteq Seq(Int)
  BY PathsFinite, Zenon
<1>2. \A b : b \in B <=> b # <<>> /\ \E p \in A : BasenameOf(p) = b
  OBVIOUS
<1>3. DOMAIN f = A /\ f = [p \in DOMAIN f |-> f[p]] /\ \A p \in A : f[p] = BasenameOf(p)
  OBVIOUS
<1>. HIDE DEF f, A
<1>4. IsFiniteSet(Range(f))
  BY <1>1, <1>3, FiniteImage
<1>5. ASSUME NEW b \in B PROVE b \in Range(f)
  <2>1. PICK p \in A : BasenameOf(p) = b
    BY <1>2
  <2>2. p \in DOMAIN f /\ f[p] = b
    BY <1>3, <2>1
  <2>. QED  BY <2>2, Zenon DEF Range
<1>6. IsFiniteSet(B)
  <2>1. B \subseteq Range(f)
    BY <1>5
  <2>. QED  BY <1>4, <2>1, FS_Subset
<1>7. \A b \in B : b \in Seq(Int)
  BY <1>1, <1>2, BasenameIs
<1>. QED  BY <1>2, <1>6, <1>7 DEF A

\* The list of a basename: the ordinals of the packages that have it.
LEMMA BasenameListed ==
  ASSUME NEW pkgs, ApartPackages(pkgs), NEW files,
         files.postings = BasenameFiles(pkgs).postings, files.fst = BasenameFiles(pkgs).fst
  PROVE  /\ \A b : b \in DOMAIN files.fst <=> b # <<>> /\ \E p \in AllPaths(pkgs) : BasenameOf(p) = b
         /\ DOMAIN files.fst \subseteq Seq(Int)
         /\ \A b : /\ List(files, b) \in Seq(Nat)
                   /\ b # <<>> => \A n : n \in Range(List(files, b)) <=>
                        n \in Ordinals(pkgs) /\ \E p \in PathsOf(Package(pkgs, n)) : BasenameOf(p) = b
<1>. DEFINE B == {BasenameOf(p) : p \in AllPaths(pkgs)} \ {<<>>}
            m == [b \in B |-> Having(pkgs, PathsNamed(pkgs, b))]
            file == Postings(m)
<1>1. files.postings = file.raw /\ files.fst = file.fst
  <2>1. BasenameFiles(pkgs) = [names |-> [i \in DOMAIN pkgs |-> pkgs[i].label], postings |-> file.raw, fst |-> file.fst]
    BY Zenon DEF BasenameFiles
  <2>. HIDE DEF file
  <2>. QED  BY <2>1
<1>2. IsFiniteSet(B) /\ B \subseteq Seq(Int) /\ \A b : b \in B <=> b # <<>> /\ \E p \in AllPaths(pkgs) : BasenameOf(p) = b
  BY BasesAre
<1>. HIDE DEF B
<1>3. DOMAIN m = B /\ \A b \in B : m[b] = Having(pkgs, PathsNamed(pkgs, b))
  OBVIOUS
<1>. HIDE DEF m
<1>4. ASSUME NEW b \in B
      PROVE  /\ m[b] \in Seq(Nat)
             /\ \A n : n \in Range(m[b]) <=> n \in Ordinals(pkgs) /\ \E p \in PathsOf(Package(pkgs, n)) : p \in PathsNamed(pkgs, b)
  BY <1>3, HavingIs
<1>5. HasPostings(files, m)
  BY <1>1, Zenon DEF HasPostings
<1>. HIDE DEF file
<1>6. \A b \in DOMAIN m : m[b] \in Seq(Nat)
  BY <1>3, <1>4
<1>7. IsFiniteSet(DOMAIN m) /\ DOMAIN m \subseteq Seq(Int)
  BY <1>2, <1>3
<1>8. /\ DOMAIN files.fst = DOMAIN m
      /\ \A b \in DOMAIN m : List(files, b) = m[b]
      /\ \A b : b \notin DOMAIN m => List(files, b) = << >>
  <2>1. IsMap(m, Nat)
    BY <1>6, <1>7, Zenon DEF IsMap
  <2>2. Lists(files, m)
    BY <1>5, <2>1, ListIs, Zenon
  <2>. QED  BY <2>2, Zenon DEF Lists
<1>9. ASSUME NEW n \in Ordinals(pkgs), NEW p \in PathsOf(Package(pkgs, n)), NEW b
      PROVE  p \in AllPaths(pkgs) /\ (p \in PathsNamed(pkgs, b) <=> BasenameOf(p) = b)
  <2>1. Package(pkgs, n) = pkgs[n + 1] /\ n + 1 \in DOMAIN pkgs
    BY PackageNumbered, Zenon
  <2>2. p \in AllPaths(pkgs)
    BY <2>1, PathsFinite, Zenon
  <2>. QED  BY <2>2 DEF PathsNamed
<1>10. ASSUME NEW b PROVE List(files, b) \in Seq(Nat)
  <2>1. CASE b \in DOMAIN m
    BY <1>6, <1>8, <2>1
  <2>2. CASE b \notin DOMAIN m
    <3>1. << >> \in Seq(Nat)
      OBVIOUS
    <3>. QED  BY <1>8, <2>2, <3>1, Zenon
  <2>. QED  BY <2>1, <2>2
<1>11. ASSUME NEW b, b # <<>>, NEW n
       PROVE  n \in Range(List(files, b)) <=> n \in Ordinals(pkgs) /\ \E p \in PathsOf(Package(pkgs, n)) : BasenameOf(p) = b
  <2>1. CASE b \in B
    BY <2>1, <1>3, <1>4, <1>8, <1>9, Zenon
  <2>2. CASE b \notin B
    <3>1. List(files, b) = << >>
      BY <1>3, <1>8, <2>2
    <3>2. n \notin Range(List(files, b))
      BY <3>1 DEF Range
    <3>3. ~\E p \in AllPaths(pkgs) : BasenameOf(p) = b
      BY <1>2, <1>11, <2>2, Zenon
    <3>. QED  BY <3>2, <3>3, <1>9, Zenon
  <2>. QED  BY <2>1, <2>2
<1>. QED  BY <1>2, <1>3, <1>7, <1>8, <1>10, <1>11, Zenon

\* What an ordinal of a text's packages is.
LEMMA BasenameAnswers ==
  ASSUME NEW pkgs, ApartPackages(pkgs), NEW files,
         files.names = BasenameFiles(pkgs).names,
         files.postings = BasenameFiles(pkgs).postings, files.fst = BasenameFiles(pkgs).fst,
         NEW t \in Seq(Int), t # <<>>
  PROVE  /\ LookupLabels(files, t) = [i \in DOMAIN List(files, t) |-> Package(pkgs, List(files, t)[i]).label]
         /\ Range(List(files, t)) = {n \in Ordinals(pkgs) : \E p \in PathsOf(Package(pkgs, n)) : HasName(p, t)}
         /\ BasenamePrefix(files, t) =
              {n \in Ordinals(pkgs) : \E p \in PathsOf(Package(pkgs, n)) : Starts(BasenameOf(p), t)}
<1>1. /\ \A b : b \in DOMAIN files.fst <=> b # <<>> /\ \E p \in AllPaths(pkgs) : BasenameOf(p) = b
      /\ \A b : /\ List(files, b) \in Seq(Nat)
                /\ b # <<>> => \A n : n \in Range(List(files, b)) <=>
                     n \in Ordinals(pkgs) /\ \E p \in PathsOf(Package(pkgs, n)) : BasenameOf(p) = b
  BY BasenameListed, ZenonT(60)
<1>2. \A n \in Ordinals(pkgs) : n + 1 \in DOMAIN pkgs /\ Package(pkgs, n) = pkgs[n + 1]
  BY PackageNumbered, Zenon
<1>3. ASSUME NEW n \in Ordinals(pkgs), NEW p \in PathsOf(Package(pkgs, n))
      PROVE  p \in AllPaths(pkgs) /\ p \in Paths /\ p \in Seq(Int)
  <2>1. p \in AllPaths(pkgs)
    BY <1>2, PathsFinite, Zenon
  <2>. QED  BY <2>1, PathsFinite
<1>4. LookupLabels(files, t) = [i \in DOMAIN List(files, t) |-> Package(pkgs, List(files, t)[i]).label]
  <2>. DEFINE L == List(files, t)
  <2>1. LookupLabels(files, t) = [i \in DOMAIN L |-> files.names[L[i] + 1]]
    BY Zenon DEF LookupLabels
  <2>2. ASSUME NEW i \in DOMAIN L PROVE L[i] \in Ordinals(pkgs)
    <3>1. L[i] \in Range(L)
      BY Zenon DEF Range
    <3>. QED  BY <1>1, <3>1, Zenon
  <2>. HIDE DEF L
  <2>3. files.names = [i \in DOMAIN pkgs |-> pkgs[i].label]
    BY DEF BasenameFiles
  <2>4. ASSUME NEW i \in DOMAIN L PROVE files.names[L[i] + 1] = Package(pkgs, L[i]).label
    <3>1. L[i] + 1 \in DOMAIN pkgs /\ Package(pkgs, L[i]) = pkgs[L[i] + 1]
      BY <1>2, <2>2
    <3>. QED  BY <2>3, <3>1
  <2>. QED  BY <2>1, <2>4 DEF L
<1>5. ASSUME NEW n
      PROVE  n \in Range(List(files, t)) <=> n \in Ordinals(pkgs) /\ \E p \in PathsOf(Package(pkgs, n)) : HasName(p, t)
  <2>1. n \in Range(List(files, t)) <=> n \in Ordinals(pkgs) /\ \E p \in PathsOf(Package(pkgs, n)) : BasenameOf(p) = t
    BY <1>1, Zenon
  <2>2. \A p \in Paths : HasName(p, t) <=> BasenameOf(p) = t
    BY NameIsBasename
  <2>. QED  BY <2>1, <2>2, <1>3, Zenon
<1>6. ASSUME NEW n
      PROVE  n \in BasenamePrefix(files, t) <=>
               n \in Ordinals(pkgs) /\ \E p \in PathsOf(Package(pkgs, n)) : Starts(BasenameOf(p), t)
  <2>1. n \in BasenamePrefix(files, t) <=> \E k \in DOMAIN files.fst : Starts(k, t) /\ n \in Range(List(files, k))
    BY DEF BasenamePrefix, OrdinalsOf
  <2>2. ASSUME NEW b \in Seq(Int), Starts(b, t) PROVE b # <<>>
    <3>1. Len(t) <= Len(b) /\ Len(t) # 0 /\ Len(t) \in Nat
      BY <2>2, StartsAt
    <3>. QED  BY <3>1
  <2>3. ASSUME NEW m \in Ordinals(pkgs), NEW p \in PathsOf(Package(pkgs, m)), Starts(BasenameOf(p), t)
        PROVE  BasenameOf(p) # <<>> /\ p \in AllPaths(pkgs)
    BY <2>2, <2>3, <1>3, BasenameIs
  <2>4. ASSUME NEW k \in DOMAIN files.fst, Starts(k, t), n \in Range(List(files, k))
        PROVE  n \in Ordinals(pkgs) /\ \E p \in PathsOf(Package(pkgs, n)) : Starts(BasenameOf(p), t)
    <3>1. k # <<>>
      BY <1>1, Zenon
    <3>2. n \in Ordinals(pkgs) /\ \E p \in PathsOf(Package(pkgs, n)) : BasenameOf(p) = k
      BY <1>1, <2>4, <3>1, Zenon
    <3>. QED  BY <2>4, <3>2, Zenon
  <2>5. ASSUME n \in Ordinals(pkgs), NEW p \in PathsOf(Package(pkgs, n)), Starts(BasenameOf(p), t)
        PROVE  \E k \in DOMAIN files.fst : Starts(k, t) /\ n \in Range(List(files, k))
    <3>1. BasenameOf(p) # <<>> /\ p \in AllPaths(pkgs)
      BY <2>3, <2>5
    <3>2. BasenameOf(p) \in DOMAIN files.fst
      BY <1>1, <3>1, Zenon
    <3>3. n \in Range(List(files, BasenameOf(p)))
      BY <1>1, <2>5, <3>1, Zenon
    <3>. QED  BY <2>5, <3>2, <3>3, Zenon
  <2>. QED  BY <2>1, <2>4, <2>5
<1>7. Range(List(files, t)) = {n \in Ordinals(pkgs) : \E p \in PathsOf(Package(pkgs, n)) : HasName(p, t)}
  BY <1>5
<1>8. BasenamePrefix(files, t) = {n \in Ordinals(pkgs) : \E p \in PathsOf(Package(pkgs, n)) : Starts(BasenameOf(p), t)}
  BY <1>6
<1>. QED  BY <1>4, <1>7, <1>8, Zenon

(***************************************************************************)
(* The path sidecar.                                                       *)
(***************************************************************************)
LEMMA PathListed ==
  ASSUME NEW pkgs, ApartPackages(pkgs), NEW files,
         files.postings = PathFiles(pkgs).postings, files.fst = PathFiles(pkgs).fst
  PROVE  /\ DOMAIN files.fst = AllPaths(pkgs) \ {<<>>}
         /\ \A q : q # <<>> => \A n : n \in Range(List(files, q)) <=>
                     n \in Ordinals(pkgs) /\ \E p \in PathsOf(Package(pkgs, n)) : p = q
<1>. DEFINE B == AllPaths(pkgs) \ {<<>>}
            m == [q \in B |-> Having(pkgs, {q})]
            file == Postings(m)
<1>1. files.postings = file.raw /\ files.fst = file.fst
  <2>1. PathFiles(pkgs) = [postings |-> file.raw, fst |-> file.fst]
    BY Zenon DEF PathFiles
  <2>. HIDE DEF file
  <2>. QED  BY <2>1
<1>2. IsFiniteSet(B) /\ B \subseteq Seq(Int) /\ \A b : b \in B <=> b # <<>> /\ b \in AllPaths(pkgs)
  <2>1. IsFiniteSet(AllPaths(pkgs)) /\ AllPaths(pkgs) \subseteq Seq(Int)
    BY PathsFinite, Zenon
  <2>2. B \subseteq AllPaths(pkgs) /\ \A b : b \in B <=> b # <<>> /\ b \in AllPaths(pkgs)
    OBVIOUS
  <2>. HIDE DEF B
  <2>3. IsFiniteSet(B)
    BY <2>1, <2>2, FS_Subset
  <2>. QED  BY <2>1, <2>2, <2>3
<1>i. B = AllPaths(pkgs) \ {<<>>}
  OBVIOUS
<1>. HIDE DEF B
<1>3. DOMAIN m = B /\ \A b \in B : m[b] = Having(pkgs, {b})
  OBVIOUS
<1>. HIDE DEF m
<1>4. ASSUME NEW b \in B
      PROVE  /\ m[b] \in Seq(Nat)
             /\ \A n : n \in Range(m[b]) <=> n \in Ordinals(pkgs) /\ \E p \in PathsOf(Package(pkgs, n)) : p = b
  <2>1. /\ m[b] \in Seq(Nat)
        /\ \A n : n \in Range(m[b]) <=> n \in Ordinals(pkgs) /\ \E p \in PathsOf(Package(pkgs, n)) : p \in {b}
    <3>1. /\ Having(pkgs, {b}) \in Seq(Nat)
          /\ \A n : n \in Range(Having(pkgs, {b})) <=> n \in Ordinals(pkgs) /\ \E p \in PathsOf(Package(pkgs, n)) : p \in {b}
      BY HavingIs, Zenon
    <3>. QED  BY <1>3, <3>1, Zenon
  <2>2. \A p : p \in {b} <=> p = b
    OBVIOUS
  <2>. QED  BY <2>1, <2>2, Zenon
<1>5. HasPostings(files, m)
  BY <1>1, Zenon DEF HasPostings
<1>. HIDE DEF file
<1>6. \A b \in DOMAIN m : m[b] \in Seq(Nat)
  BY <1>3, <1>4
<1>7. IsFiniteSet(DOMAIN m) /\ DOMAIN m \subseteq Seq(Int)
  BY <1>2, <1>3
<1>8. /\ DOMAIN files.fst = DOMAIN m
      /\ \A b \in DOMAIN m : List(files, b) = m[b]
      /\ \A b : b \notin DOMAIN m => List(files, b) = << >>
  <2>1. IsMap(m, Nat)
    BY <1>6, <1>7, Zenon DEF IsMap
  <2>2. Lists(files, m)
    BY <1>5, <2>1, ListIs, Zenon
  <2>. QED  BY <2>2, Zenon DEF Lists
<1>9. ASSUME NEW n \in Ordinals(pkgs), NEW p \in PathsOf(Package(pkgs, n))
      PROVE  p \in AllPaths(pkgs)
  <2>1. Package(pkgs, n) = pkgs[n + 1] /\ n + 1 \in DOMAIN pkgs
    BY PackageNumbered, Zenon
  <2>. QED  BY <2>1, PathsFinite, Zenon
<1>11. ASSUME NEW b, b # <<>>, NEW n
       PROVE  n \in Range(List(files, b)) <=> n \in Ordinals(pkgs) /\ \E p \in PathsOf(Package(pkgs, n)) : p = b
  <2>1. CASE b \in B
    BY <2>1, <1>3, <1>4, <1>8, Zenon
  <2>2. CASE b \notin B
    <3>1. List(files, b) = << >>
      BY <1>3, <1>8, <2>2
    <3>2. n \notin Range(List(files, b))
      BY <3>1 DEF Range
    <3>3. b \notin AllPaths(pkgs)
      BY <1>2, <1>11, <2>2, Zenon
    <3>. QED  BY <3>2, <3>3, <1>9, Zenon
  <2>. QED  BY <2>1, <2>2
<1>. QED  BY <1>i, <1>3, <1>8, <1>11, Zenon

\* What its lookups answer for a text that is not empty.
LEMMA PathAnswers ==
  ASSUME NEW pkgs, ApartPackages(pkgs), NEW files,
         files.postings = PathFiles(pkgs).postings, files.fst = PathFiles(pkgs).fst,
         NEW t \in Seq(Int), t # <<>>
  PROVE  /\ Range(List(files, t)) = {n \in Ordinals(pkgs) : \E p \in PathsOf(Package(pkgs, n)) : p = t}
         /\ PathPrefix(files, t) = {n \in Ordinals(pkgs) : \E p \in PathsOf(Package(pkgs, n)) : Starts(p, t)}
<1>. DEFINE K == DOMAIN files.fst
            keys == Sorted(K, Before)
            seen == SeenOf(keys, t)
<1>1. /\ K = AllPaths(pkgs) \ {<<>>}
      /\ \A q : q # <<>> => \A n : n \in Range(List(files, q)) <=>
                  n \in Ordinals(pkgs) /\ \E p \in PathsOf(Package(pkgs, n)) : p = q
  BY PathListed, Zenon
<1>2. IsFiniteSet(AllPaths(pkgs)) /\ AllPaths(pkgs) \subseteq Seq(Int)
  BY PathsFinite, Zenon
<1>3. PathPrefix(files, t) = OrdinalsOf(files, {k \in Range(seen) : Starts(k, t)})
  BY Zenon DEF PathPrefix, SeenOf, StopAt
<1>. HIDE DEF K
<1>4. IsFiniteSet(K) /\ K \subseteq Seq(Int)
  <2>1. K \subseteq AllPaths(pkgs)
    BY <1>1
  <2>. QED  BY <1>2, <2>1, FS_Subset
<1>5. \A k : k \in Range(seen) /\ Starts(k, t) <=> k \in K /\ Starts(k, t)
  BY <1>4, PrefixSeen
<1>. HIDE DEF seen
<1>6. ASSUME NEW n
      PROVE  n \in PathPrefix(files, t) <=> n \in Ordinals(pkgs) /\ \E p \in PathsOf(Package(pkgs, n)) : Starts(p, t)
  <2>1. n \in PathPrefix(files, t) <=> \E k \in Range(seen) : Starts(k, t) /\ n \in Range(List(files, k))
    BY <1>3 DEF OrdinalsOf
  <2>2. ASSUME NEW k \in K, Starts(k, t) PROVE k # <<>>
    BY <1>1
  <2>3. ASSUME NEW k \in Range(seen), Starts(k, t), n \in Range(List(files, k))
        PROVE  n \in Ordinals(pkgs) /\ \E p \in PathsOf(Package(pkgs, n)) : Starts(p, t)
    <3>1. k # <<>>
      BY <1>5, <2>2, <2>3
    <3>2. n \in Ordinals(pkgs) /\ \E p \in PathsOf(Package(pkgs, n)) : p = k
      BY <1>1, <2>3, <3>1, Zenon
    <3>. QED  BY <2>3, <3>2, Zenon
  <2>4. ASSUME n \in Ordinals(pkgs), NEW p \in PathsOf(Package(pkgs, n)), Starts(p, t)
        PROVE  \E k \in Range(seen) : Starts(k, t) /\ n \in Range(List(files, k))
    <3>1. Package(pkgs, n) = pkgs[n + 1] /\ n + 1 \in DOMAIN pkgs
      BY <2>4, PackageNumbered, Zenon
    <3>2. p \in AllPaths(pkgs) /\ p \in Seq(Int)
      BY <1>2, <3>1, PathsFinite
    <3>3. p # <<>>
      <4>1. Len(t) <= Len(p) /\ Len(t) # 0 /\ Len(t) \in Nat
        BY <2>4, <3>2, StartsAt
      <4>. QED  BY <4>1
    <3>4. p \in K
      BY <1>1, <3>2, <3>3
    <3>5. p \in Range(seen)
      BY <1>5, <2>4, <3>4
    <3>6. n \in Range(List(files, p))
      BY <1>1, <2>4, <3>3, Zenon
    <3>. QED  BY <2>4, <3>5, <3>6, Zenon
  <2>. QED  BY <2>1, <2>3, <2>4
<1>7. Range(List(files, t)) = {n \in Ordinals(pkgs) : \E p \in PathsOf(Package(pkgs, n)) : p = t}
  <2>1. ASSUME NEW n
        PROVE  n \in Range(List(files, t)) <=> n \in Ordinals(pkgs) /\ \E p \in PathsOf(Package(pkgs, n)) : p = t
    BY <1>1, Zenon
  <2>. QED  BY <2>1
<1>8. PathPrefix(files, t) = {n \in Ordinals(pkgs) : \E p \in PathsOf(Package(pkgs, n)) : Starts(p, t)}
  BY <1>6
<1>. QED  BY <1>7, <1>8, Zenon

----------------------------------------------------------------------------
(***************************************************************************)
(* The entries of some paths: each once, with the package it is of.        *)
(***************************************************************************)
RecordOf(pkgs, i, e) == [of |-> i - 1, path |-> e.path, node |-> e.node]
RecordSet(pkgs) == UNION {{RecordOf(pkgs, i, e) : e \in Range(pkgs[i].entries)} : i \in DOMAIN pkgs}

\* Records with the same fields are of the same package and entry.
LEMMA RecordsDiffer ==
  ASSUME NEW pkgs, NEW i \in Nat, NEW j \in Nat, NEW a, NEW b, RecordOf(pkgs, i, a) = RecordOf(pkgs, j, b)
  PROVE  i = j /\ a.path = b.path /\ a.node = b.node
<1>1. i - 1 = j - 1 /\ a.path = b.path /\ a.node = b.node
  BY DEF RecordOf
<1>. QED  BY <1>1

\* Those of one package.
IsMine(pkgs, i, paths, mine) ==
  /\ mine \in Seq(Range(pkgs[i].entries)) /\ DOMAIN mine = 1 .. Len(mine) /\ Len(mine) \in Nat
  /\ \A e : e \in Range(mine) <=> e \in Range(pkgs[i].entries) /\ e.path \in paths
  /\ \A k, l \in DOMAIN mine : mine[k].path = mine[l].path => k = l

MineOf(pkgs, i, paths) == Only(pkgs[i].entries, LAMBDA e : e.path \in paths)

\* Only finds the entries of one package.
LEMMA MineIs ==
  ASSUME NEW pkgs, ApartPackages(pkgs), NEW i \in DOMAIN pkgs, NEW paths
  PROVE  IsMine(pkgs, i, paths, MineOf(pkgs, i, paths))
<1>. DEFINE es == pkgs[i].entries
            mine == MineOf(pkgs, i, paths)
            T == {e \in Range(es) : e.path \in paths}
            g == [k \in DOMAIN es |-> IF es[k].path \in paths THEN <<es[k]>> ELSE << >>]
<1>1. mine = FlattenSeq(g)
  BY Zenon DEF MineOf, Only
<1>2. /\ es \in Seq(Range(es)) /\ DOMAIN es = 1 .. Len(es) /\ Len(es) \in Nat
      /\ \A k, l \in DOMAIN es : es[k].path = es[l].path => k = l
  BY Zenon DEF ApartPackages, ApartEntries
<1>. HIDE DEF es, mine
<1>3. DOMAIN g = DOMAIN es /\ g = [k \in DOMAIN es |-> g[k]]
  OBVIOUS
<1>4. ASSUME NEW k \in DOMAIN es PROVE g[k] = IF es[k] \in T THEN <<es[k]>> ELSE << >>
  <2>1. g[k] = IF es[k].path \in paths THEN <<es[k]>> ELSE << >>
    OBVIOUS
  <2>2. es[k] \in Range(es)
    BY Zenon DEF Range
  <2>. HIDE DEF g
  <2>3. es[k] \in T <=> es[k].path \in paths
    BY <2>2
  <2>. HIDE DEF T
  <2>. QED  BY <2>1, <2>3
<1>5. \A e : e \in T <=> e \in Range(es) /\ e.path \in paths
  OBVIOUS
<1>. HIDE DEF g, T
<1>6. mine = Passing(es, T)
  BY <1>1, <1>3, <1>4, PassingOnly
<1>7. IsInjective(es)
  BY <1>2, Zenon DEF IsInjective
<1>8. mine \in Seq(Range(es)) /\ Range(mine) = Range(es) \cap T /\ IsInjective(mine)
  BY <1>2, <1>6, <1>7, PassingIs
<1>9. DOMAIN mine = 1 .. Len(mine) /\ Len(mine) \in Nat
  BY <1>8
<1>10. \A e : e \in Range(mine) <=> e \in Range(es) /\ e.path \in paths
  BY <1>5, <1>8
<1>11. ASSUME NEW k \in DOMAIN mine, NEW l \in DOMAIN mine, mine[k].path = mine[l].path PROVE k = l
  <2>1. mine[k] \in Range(es) /\ mine[l] \in Range(es)
    BY <1>10, Zenon DEF Range
  <2>2. PICK a \in DOMAIN es : es[a] = mine[k]
    BY <2>1, Zenon DEF Range
  <2>3. PICK b \in DOMAIN es : es[b] = mine[l]
    BY <2>1, Zenon DEF Range
  <2>4. a = b
    BY <1>2, <1>11, <2>2, <2>3, Zenon
  <2>5. mine[k] = mine[l]
    BY <2>2, <2>3, <2>4
  <2>. QED  BY <1>8, <2>5, Zenon DEF IsInjective
<1>12. IsMine(pkgs, i, paths, mine)
  BY <1>8, <1>9, <1>10, <1>11, Zenon DEF IsMine, es
<1>. QED  BY <1>12 DEF mine, es

AreRecords(pkgs, paths, rs) ==
  /\ rs \in Seq(RecordSet(pkgs)) /\ IsInjective(rs)
  /\ \A r : r \in Range(rs) <=>
       \E i \in DOMAIN pkgs : \E e \in Range(pkgs[i].entries) : r = RecordOf(pkgs, i, e) /\ e.path \in paths

\* Records has them all, package by package.
LEMMA RecordsAre ==
  ASSUME NEW pkgs, ApartPackages(pkgs), NEW paths
  PROVE  AreRecords(pkgs, paths, Records(pkgs, paths))
<1>. DEFINE n == Len(pkgs)
            mine(i) == MineOf(pkgs, i, paths)
            list(i) == [k \in DOMAIN mine(i) |-> [of |-> i - 1, path |-> mine(i)[k].path, node |-> mine(i)[k].node]]
            g == [i \in DOMAIN pkgs |-> list(i)]
            V == RecordSet(pkgs)
            rs == Records(pkgs, paths)
<1>1. rs = FlattenSeq(g)
  BY Zenon DEF Records, MineOf
<1>2. DOMAIN pkgs = 1 .. n /\ n \in Nat
  BY DEF ApartPackages
<1>3. ASSUME NEW i \in DOMAIN pkgs PROVE IsMine(pkgs, i, paths, mine(i))
  BY MineIs, Zenon
<1>. HIDE DEF mine, n, V, rs
<1>4. ASSUME NEW i \in DOMAIN pkgs
      PROVE  /\ DOMAIN list(i) = DOMAIN mine(i)
             /\ \A k \in DOMAIN mine(i) : list(i)[k] = RecordOf(pkgs, i, mine(i)[k])
             /\ list(i) \in Seq(V)
  <2>. DEFINE m == mine(i)
              l == list(i)
  <2>1. m \in Seq(Range(pkgs[i].entries)) /\ DOMAIN m = 1 .. Len(m) /\ Len(m) \in Nat
    BY <1>3, Zenon DEF IsMine
  <2>. HIDE DEF m
  <2>2. l = [k \in DOMAIN m |-> RecordOf(pkgs, i, m[k])]
    BY DEF m, RecordOf
  <2>. HIDE DEF l
  <2>3. ASSUME NEW k \in 1 .. Len(m) PROVE RecordOf(pkgs, i, m[k]) \in V
    <3>1. m[k] \in Range(pkgs[i].entries)
      BY <2>1
    <3>2. RecordOf(pkgs, i, m[k]) \in RecordSet(pkgs)
      BY <3>1 DEF RecordSet
    <3>. QED  BY <3>2, Zenon DEF V
  <2>4. l \in Seq(V)
    BY <2>1, <2>2, <2>3
  <2>5. DOMAIN l = DOMAIN m /\ \A k \in DOMAIN m : l[k] = RecordOf(pkgs, i, m[k])
    BY <2>2
  <2>. QED  BY <2>4, <2>5 DEF l, m
<1>. HIDE DEF list
<1>5. g \in [1 .. n -> Seq(V)] /\ \A i \in 1 .. n : g[i] = list(i)
  BY <1>2, <1>4
<1>. HIDE DEF g
<1>6. rs \in Seq(V)
  BY <1>1, <1>2, <1>5, FlattenType
<1>7. ASSUME NEW r
      PROVE  r \in Range(rs) <=>
               \E i \in DOMAIN pkgs : \E e \in Range(pkgs[i].entries) : r = RecordOf(pkgs, i, e) /\ e.path \in paths
  <2>1. r \in Range(rs) <=> \E i \in 1 .. n : r \in Range(g[i])
    BY <1>1, <1>2, <1>5, FlatMembers
  <2>2. ASSUME NEW i \in 1 .. n
        PROVE  r \in Range(g[i]) <=> \E e \in Range(pkgs[i].entries) : r = RecordOf(pkgs, i, e) /\ e.path \in paths
    <3>1. DOMAIN g[i] = DOMAIN mine(i) /\ \A k \in DOMAIN mine(i) : g[i][k] = RecordOf(pkgs, i, mine(i)[k])
      BY <1>2, <1>4, <1>5
    <3>2. \A e : e \in Range(mine(i)) <=> e \in Range(pkgs[i].entries) /\ e.path \in paths
      BY <1>2, <1>3, Zenon DEF IsMine
    <3>3. r \in Range(g[i]) <=> \E k \in DOMAIN mine(i) : r = RecordOf(pkgs, i, mine(i)[k])
      <4>1. r \in Range(g[i]) <=> \E k \in DOMAIN g[i] : r = g[i][k]
        BY Zenon DEF Range
      <4>. QED  BY <3>1, <4>1
    <3>4. r \in Range(g[i]) <=> \E e \in Range(mine(i)) : r = RecordOf(pkgs, i, e)
      <4>1. \A e : e \in Range(mine(i)) <=> \E k \in DOMAIN mine(i) : e = mine(i)[k]
        BY Zenon DEF Range
      <4>. QED  BY <3>3, <4>1, Zenon
    <3>. QED  BY <3>2, <3>4, Zenon
  <2>. QED  BY <1>2, <2>1, <2>2
<1>8. IsInjective(rs)
  <2>1. ASSUME NEW i \in 1 .. n, NEW j \in 1 .. n, NEW k \in DOMAIN g[i], NEW l \in DOMAIN g[j], g[i][k] = g[j][l]
        PROVE  i = j /\ k = l
    <3>1. /\ k \in DOMAIN mine(i) /\ g[i][k] = RecordOf(pkgs, i, mine(i)[k])
          /\ l \in DOMAIN mine(j) /\ g[j][l] = RecordOf(pkgs, j, mine(j)[l])
      BY <1>2, <1>4, <1>5
    <3>2. RecordOf(pkgs, i, mine(i)[k]) = RecordOf(pkgs, j, mine(j)[l]) /\ i \in Nat /\ j \in Nat
      <4>1. i \in Nat /\ j \in Nat
        BY <1>2
      <4>. QED  BY <2>1, <3>1, <4>1, Zenon
    <3>3. i = j /\ mine(i)[k].path = mine(j)[l].path
      <4>. DEFINE a == mine(i)[k]
                  b == mine(j)[l]
      <4>1. RecordOf(pkgs, i, a) = RecordOf(pkgs, j, b) /\ i \in Nat /\ j \in Nat
        BY <3>2
      <4>. HIDE DEF a, b
      <4>2. i = j /\ a.path = b.path
        BY <4>1, RecordsDiffer
      <4>. QED  BY <4>2 DEF a, b
    <3>4. \A a, b \in DOMAIN mine(i) : mine(i)[a].path = mine(i)[b].path => a = b
      BY <1>2, <1>3, Zenon DEF IsMine
    <3>. QED  BY <3>1, <3>3, <3>4, Zenon
  <2>2. \A i, j \in 1 .. n : \A k \in DOMAIN g[i], l \in DOMAIN g[j] : g[i][k] = g[j][l] => i = j /\ k = l
    BY <2>1, Zenon
  <2>. QED  BY <2>2, <1>1, <1>2, <1>5, FlatApart
<1>9. AreRecords(pkgs, paths, rs)
  BY <1>6, <1>7, <1>8, Zenon DEF AreRecords, V
<1>. QED  BY <1>9 DEF rs

(***************************************************************************)
(* An answer of entries: the records, with the store paths.                *)
(***************************************************************************)
EntryIn(pkgs, i, e) == [store_path |-> pkgs[i].store_path, path |-> e.path, node |-> e.node]
Opened(pkgs, r) == [store_path |-> pkgs[r.of + 1].store_path, path |-> r.path, node |-> r.node]

\* The record of an entry opens to it.
LEMMA RecordOpens ==
  ASSUME NEW pkgs, NEW i \in Nat, NEW e
  PROVE  Opened(pkgs, RecordOf(pkgs, i, e)) = EntryIn(pkgs, i, e)
<1>. DEFINE r == RecordOf(pkgs, i, e)
<1>1. r.of = i - 1 /\ r.path = e.path /\ r.node = e.node
  BY DEF RecordOf
<1>2. r.of + 1 = i
  BY <1>1
<1>. HIDE DEF r
<1>3. Opened(pkgs, r) = EntryIn(pkgs, i, e)
  BY <1>1, <1>2, Zenon DEF Opened, EntryIn
<1>. QED  BY <1>3 DEF r

\* Entries with the same fields have the same record.
LEMMA EntriesDiffer ==
  ASSUME NEW pkgs, ApartPackages(pkgs), NEW i \in DOMAIN pkgs, NEW j \in DOMAIN pkgs, NEW a, NEW b,
         EntryIn(pkgs, i, a) = EntryIn(pkgs, j, b)
  PROVE  RecordOf(pkgs, i, a) = RecordOf(pkgs, j, b)
<1>1. pkgs[i].store_path = pkgs[j].store_path /\ a.path = b.path /\ a.node = b.node
  BY DEF EntryIn
<1>2. i = j
  BY <1>1, Zenon DEF ApartPackages
<1>. QED  BY <1>1, <1>2, Zenon DEF RecordOf

\* So records that are opened are entries, each of them once.
LEMMA EntriesOpened ==
  ASSUME NEW pkgs, ApartPackages(pkgs), NEW paths, NEW L, AreRecords(pkgs, paths, L),
         NEW F, DOMAIN F = DOMAIN L, \A k \in DOMAIN L : F[k] = Opened(pkgs, L[k])
  PROVE  /\ IsInjective(F)
         /\ \A x : x \in Range(F) <=>
              \E i \in DOMAIN pkgs : \E e \in Range(pkgs[i].entries) : x = EntryIn(pkgs, i, e) /\ e.path \in paths
<1>1. /\ IsInjective(L)
      /\ \A r : r \in Range(L) <=>
           \E i \in DOMAIN pkgs : \E e \in Range(pkgs[i].entries) : r = RecordOf(pkgs, i, e) /\ e.path \in paths
  BY Zenon DEF AreRecords
<1>2. ASSUME NEW i \in DOMAIN pkgs, NEW e PROVE Opened(pkgs, RecordOf(pkgs, i, e)) = EntryIn(pkgs, i, e)
  <2>1. i \in Nat
    <3>1. DOMAIN pkgs = 1 .. Len(pkgs) /\ Len(pkgs) \in Nat
      BY Zenon DEF ApartPackages
    <3>. DEFINE l == Len(pkgs)
    <3>2. i \in 1 .. l /\ l \in Nat
      BY <3>1
    <3>. HIDE DEF l
    <3>. QED  BY <3>2
  <2>. QED  BY <2>1, RecordOpens, Zenon
<1>3. ASSUME NEW k \in DOMAIN L
      PROVE  \E i \in DOMAIN pkgs : \E e \in Range(pkgs[i].entries) : L[k] = RecordOf(pkgs, i, e) /\ e.path \in paths
  <2>1. L[k] \in Range(L)
    BY Zenon DEF Range
  <2>. QED  BY <1>1, <2>1, Zenon
<1>4. ASSUME NEW x
      PROVE  x \in Range(F) <=>
               \E i \in DOMAIN pkgs : \E e \in Range(pkgs[i].entries) : x = EntryIn(pkgs, i, e) /\ e.path \in paths
  <2>1. x \in Range(F) <=> \E r \in Range(L) : x = Opened(pkgs, r)
    <3>1. x \in Range(F) <=> \E k \in DOMAIN L : x = F[k]
      BY Zenon DEF Range
    <3>2. x \in Range(F) <=> \E k \in DOMAIN L : x = Opened(pkgs, L[k])
      BY <3>1
    <3>3. \A r : r \in Range(L) <=> \E k \in DOMAIN L : r = L[k]
      BY Zenon DEF Range
    <3>. QED  BY <3>2, <3>3, Zenon
  <2>2. ASSUME x \in Range(F)
        PROVE  \E i \in DOMAIN pkgs : \E e \in Range(pkgs[i].entries) : x = EntryIn(pkgs, i, e) /\ e.path \in paths
    <3>1. PICK r \in Range(L) : x = Opened(pkgs, r)
      BY <2>1, <2>2
    <3>2. PICK i \in DOMAIN pkgs : \E e \in Range(pkgs[i].entries) : r = RecordOf(pkgs, i, e) /\ e.path \in paths
      BY <1>1, <3>1, Zenon
    <3>3. PICK e \in Range(pkgs[i].entries) : r = RecordOf(pkgs, i, e) /\ e.path \in paths
      BY <3>2
    <3>4. x = EntryIn(pkgs, i, e)
      BY <1>2, <3>1, <3>3, Zenon
    <3>. QED  BY <3>3, <3>4, Zenon
  <2>3. ASSUME NEW i \in DOMAIN pkgs, NEW e \in Range(pkgs[i].entries), x = EntryIn(pkgs, i, e), e.path \in paths
        PROVE  x \in Range(F)
    <3>1. RecordOf(pkgs, i, e) \in Range(L)
      BY <1>1, <2>3, Zenon
    <3>2. x = Opened(pkgs, RecordOf(pkgs, i, e))
      BY <1>2, <2>3, Zenon
    <3>. QED  BY <2>1, <3>1, <3>2, Zenon
  <2>. QED  BY <2>2, <2>3
<1>5. ASSUME NEW k \in DOMAIN F, NEW l \in DOMAIN F, F[k] = F[l] PROVE k = l
  <2>1. PICK i \in DOMAIN pkgs : \E e \in Range(pkgs[i].entries) : L[k] = RecordOf(pkgs, i, e) /\ e.path \in paths
    BY <1>3
  <2>2. PICK j \in DOMAIN pkgs : \E e \in Range(pkgs[j].entries) : L[l] = RecordOf(pkgs, j, e) /\ e.path \in paths
    BY <1>3
  <2>3. PICK a \in Range(pkgs[i].entries) : L[k] = RecordOf(pkgs, i, a)
    BY <2>1
  <2>4. PICK b \in Range(pkgs[j].entries) : L[l] = RecordOf(pkgs, j, b)
    BY <2>2
  <2>5. F[k] = EntryIn(pkgs, i, a) /\ F[l] = EntryIn(pkgs, j, b)
    BY <1>2, <2>3, <2>4, Zenon
  <2>6. EntryIn(pkgs, i, a) = EntryIn(pkgs, j, b)
    BY <1>5, <2>5, Zenon
  <2>7. RecordOf(pkgs, i, a) = RecordOf(pkgs, j, b)
    BY <2>6, EntriesDiffer
  <2>8. L[k] = L[l]
    BY <2>3, <2>4, <2>7, Zenon
  <2>. QED  BY <1>1, <2>8, Zenon DEF IsInjective
<1>. QED  BY <1>4, <1>5, Zenon DEF IsInjective

\* The entry sidecar.
LEMMA EntryListed ==
  ASSUME NEW pkgs, ApartPackages(pkgs), NEW files,
         files.postings = EntryFiles(pkgs).postings, files.fst = EntryFiles(pkgs).fst, NEW t, t # <<>>
  PROVE  AreRecords(pkgs, PathsNamed(pkgs, t), List(files, t))
<1>. DEFINE B == {BasenameOf(p) : p \in AllPaths(pkgs)} \ {<<>>}
            m == [b \in B |-> Records(pkgs, PathsNamed(pkgs, b))]
            file == Postings(m)
            V == RecordSet(pkgs)
<1>1. files.postings = file.raw /\ files.fst = file.fst
  <2>1. EntryFiles(pkgs) = [store_paths |-> [i \in DOMAIN pkgs |-> pkgs[i].store_path], postings |-> file.raw, fst |-> file.fst]
    BY Zenon DEF EntryFiles
  <2>. HIDE DEF file
  <2>. QED  BY <2>1
<1>2. IsFiniteSet(B) /\ B \subseteq Seq(Int) /\ \A b : b \in B <=> b # <<>> /\ \E p \in AllPaths(pkgs) : BasenameOf(p) = b
  BY BasesAre
<1>. HIDE DEF B
<1>3. DOMAIN m = B /\ \A b \in B : m[b] = Records(pkgs, PathsNamed(pkgs, b))
  OBVIOUS
<1>. HIDE DEF m, V
<1>4. ASSUME NEW b \in B PROVE AreRecords(pkgs, PathsNamed(pkgs, b), m[b]) /\ m[b] \in Seq(V)
  <2>1. AreRecords(pkgs, PathsNamed(pkgs, b), Records(pkgs, PathsNamed(pkgs, b)))
    BY RecordsAre, Zenon
  <2>. QED  BY <1>3, <2>1, Zenon DEF AreRecords, V
<1>5. HasPostings(files, m)
  BY <1>1, Zenon DEF HasPostings
<1>. HIDE DEF file
<1>6. \A b \in DOMAIN m : m[b] \in Seq(V)
  BY <1>3, <1>4
<1>7. IsFiniteSet(DOMAIN m) /\ DOMAIN m \subseteq Seq(Int)
  BY <1>2, <1>3
<1>8. /\ DOMAIN files.fst = DOMAIN m
      /\ \A b \in DOMAIN m : List(files, b) = m[b]
      /\ \A b : b \notin DOMAIN m => List(files, b) = << >>
  <2>1. IsMap(m, V)
    BY <1>6, <1>7, Zenon DEF IsMap
  <2>2. Lists(files, m)
    BY <1>5, <2>1, ListIs, Zenon
  <2>. QED  BY <2>2, Zenon DEF Lists
<1>9. CASE t \in B
  BY <1>3, <1>4, <1>8, <1>9, Zenon
<1>10. CASE t \notin B
  <2>. DEFINE L == List(files, t)
  <2>1. L = << >>
    BY <1>3, <1>8, <1>10
  <2>. HIDE DEF L
  <2>2. L \in Seq(RecordSet(pkgs)) /\ DOMAIN L = {}
    BY <2>1
  <2>3. IsInjective(L) /\ \A r : r \notin Range(L)
    BY <2>2, Zenon DEF IsInjective, Range
  <2>4. PathsNamed(pkgs, t) = {}
    BY <1>2, <1>10 DEF PathsNamed
  <2>5. \A x : x \notin PathsNamed(pkgs, t)
    BY <2>4
  <2>6. AreRecords(pkgs, PathsNamed(pkgs, t), L)
    BY <2>2, <2>3, <2>5, Zenon DEF AreRecords
  <2>. QED  BY <2>6 DEF L
<1>. QED  BY <1>9, <1>10

\* What its lookup answers.
LEMMA EntryAnswers ==
  ASSUME NEW pkgs, ApartPackages(pkgs), NEW files,
         files.store_paths = EntryFiles(pkgs).store_paths,
         files.postings = EntryFiles(pkgs).postings, files.fst = EntryFiles(pkgs).fst,
         NEW t \in Seq(Int), t # <<>>
  PROVE  /\ Range(LookupEntries(files, t)) =
              UNION {{[store_path |-> pkgs[i].store_path, path |-> e.path, node |-> e.node] :
                        e \in {x \in Range(pkgs[i].entries) : HasName(x.path, t)}} : i \in DOMAIN pkgs}
         /\ IsInjective(LookupEntries(files, t))
<1>. DEFINE L == List(files, t)
            F == LookupEntries(files, t)
            paths == PathsNamed(pkgs, t)
<1>1. AreRecords(pkgs, paths, L)
  BY EntryListed, Zenon
<1>2. F = [i \in DOMAIN L |-> [store_path |-> files.store_paths[L[i].of + 1], path |-> L[i].path, node |-> L[i].node]]
  BY Zenon DEF LookupEntries
<1>3. files.store_paths = [i \in DOMAIN pkgs |-> pkgs[i].store_path]
  BY DEF EntryFiles
<1>. HIDE DEF L, F, paths
<1>4. ASSUME NEW k \in DOMAIN L PROVE L[k].of + 1 \in DOMAIN pkgs
  <2>1. L[k] \in Range(L)
    BY Zenon DEF Range
  <2>2. PICK i \in DOMAIN pkgs : \E e \in Range(pkgs[i].entries) : L[k] = RecordOf(pkgs, i, e)
    BY <1>1, <2>1, Zenon DEF AreRecords
  <2>3. L[k].of = i - 1
    BY <2>2 DEF RecordOf
  <2>4. (i - 1) + 1 = i
    BY PackageNumbered, Zenon
  <2>. QED  BY <2>3, <2>4
<1>5. DOMAIN F = DOMAIN L /\ \A k \in DOMAIN L : F[k] = Opened(pkgs, L[k])
  <2>1. DOMAIN F = DOMAIN L
    BY <1>2
  <2>2. ASSUME NEW k \in DOMAIN L PROVE F[k] = Opened(pkgs, L[k])
    <3>1. F[k] = [store_path |-> files.store_paths[L[k].of + 1], path |-> L[k].path, node |-> L[k].node]
      BY <1>2
    <3>2. files.store_paths[L[k].of + 1] = pkgs[L[k].of + 1].store_path
      BY <1>3, <1>4
    <3>. QED  BY <3>1, <3>2, Zenon DEF Opened
  <2>. QED  BY <2>1, <2>2
<1>6. /\ IsInjective(F)
      /\ \A x : x \in Range(F) <=>
           \E i \in DOMAIN pkgs : \E e \in Range(pkgs[i].entries) : x = EntryIn(pkgs, i, e) /\ e.path \in paths
  BY <1>1, <1>5, EntriesOpened
<1>7. ASSUME NEW i \in DOMAIN pkgs, NEW e \in Range(pkgs[i].entries) PROVE e.path \in paths <=> HasName(e.path, t)
  <2>1. PICK k \in DOMAIN pkgs[i].entries : pkgs[i].entries[k] = e
    BY Zenon DEF Range
  <2>2. e.path \in PathsOf(pkgs[i])
    BY <2>1, PathsFinite, Zenon
  <2>3. e.path \in AllPaths(pkgs) /\ e.path \in Paths
    BY <2>2, PathsFinite
  <2>4. e.path \in paths <=> BasenameOf(e.path) = t
    BY <2>3 DEF paths, PathsNamed
  <2>. QED  BY <2>3, <2>4, NameIsBasename
<1>8. ASSUME NEW x
      PROVE  x \in Range(F) <=>
               x \in UNION {{EntryIn(pkgs, i, e) :
                         e \in {y \in Range(pkgs[i].entries) : HasName(y.path, t)}} : i \in DOMAIN pkgs}
  BY <1>6, <1>7
<1>9. Range(F) = UNION {{EntryIn(pkgs, i, e) :
                   e \in {y \in Range(pkgs[i].entries) : HasName(y.path, t)}} : i \in DOMAIN pkgs}
  BY <1>8
<1>. QED  BY <1>6, <1>9, Zenon DEF EntryIn, F

----------------------------------------------------------------------------
(***************************************************************************)
(* The path_entry sidecar: a text in the strings ends with a NUL.          *)
(***************************************************************************)
UpToNul(tail) == SubSeq(tail, 1, SelectInSeq(tail, LAMBDA c : c = 0) - 1)

\* A text in front of a NUL is found.
LEMMA UpToNulIs ==
  ASSUME NEW tail \in Seq(Int), NEW p \in Seq(Int), \A k \in 1 .. Len(p) : p[k] # Nul,
         Len(p) < Len(tail), \A k \in 1 .. Len(p) : tail[k] = p[k], tail[Len(p) + 1] = Nul
  PROVE  UpToNul(tail) = p
<1>. DEFINE f == FirstAt(tail, Nul)
<1>1. UpToNul(tail) = SubSeq(tail, 1, f - 1)
  BY Zenon DEF UpToNul, SelectInSeq, FirstAt, Places, Nul
<1>2. IsFirst(tail, Nul, f)
  BY FirstFound, Zenon
<1>3. Len(p) \in Nat /\ Len(tail) \in Nat /\ Len(p) + 1 \in 1 .. Len(tail)
  OBVIOUS
<1>. HIDE DEF f
<1>4. f \in 1 .. Len(tail) /\ tail[f] = Nul /\ \A i \in 1 .. f - 1 : tail[i] # Nul
  <2>1. ~\A i \in 1 .. Len(tail) : tail[i] # Nul
    BY <1>3, Zenon
  <2>. QED  BY <1>2, <2>1, Zenon DEF IsFirst
<1>5. ~(f < Len(p) + 1)
  <2>1. SUFFICES ASSUME f < Len(p) + 1 PROVE FALSE
    OBVIOUS
  <2>2. f \in 1 .. Len(p)
    BY <1>3, <1>4, <2>1
  <2>. QED  BY <1>4, <2>2
<1>6. ~(f > Len(p) + 1)
  <2>1. SUFFICES ASSUME f > Len(p) + 1 PROVE FALSE
    OBVIOUS
  <2>2. Len(p) + 1 \in 1 .. f - 1
    BY <1>3, <1>4, <2>1
  <2>. QED  BY <1>4, <2>2
<1>7. f = Len(p) + 1
  BY <1>3, <1>4, <1>5, <1>6
<1>8. f - 1 = Len(p) /\ Len(p) \in 0 .. Len(tail)
  BY <1>3, <1>7
<1>. DEFINE c == SubSeq(tail, 1, Len(p))
<1>9. c \in Seq(Int) /\ Len(c) = Len(p) /\ \A i \in 1 .. Len(p) : c[i] = tail[i]
  BY <1>8, FirstOf
<1>. HIDE DEF c
<1>10. \A i \in 1 .. Len(c) : c[i] = p[i]
  BY <1>9
<1>11. c = p
  BY <1>9, <1>10, SameSeq
<1>. QED  BY <1>1, <1>8, <1>11 DEF c

\* So the text of each path is.
LEMMA TextRead ==
  ASSUME NEW n \in Nat, NEW g \in [1 .. n -> Seq(Int)], NEW i \in 1 .. n,
         NEW p \in Seq(Int), \A k \in 1 .. Len(p) : p[k] # Nul, g[i] = Append(p, 0)
  PROVE  UpToNul(SubSeq(FlattenSeq(g), Start(g, i - 1) + 1, Len(FlattenSeq(g)))) = p
<1>. DEFINE f == FlattenSeq(g)
            c == Start(g, i - 1)
            h == g[i]
            tail == SubSeq(f, c + 1, Len(f))
<1>1. f = Heads(g, n) /\ f \in Seq(Int)
  <2>1. Heads(g, n) = f
    BY HeadsAll
  <2>2. f \in Seq(Int)
    BY FlattenType
  <2>. QED  BY <2>1, <2>2
<1>2. Stands(g, n)
  <2>1. n \in 0 .. n
    OBVIOUS
  <2>. QED  BY <2>1, ListsStand
<1>3. c \in Nat /\ Start(g, i) = c + Len(h) /\ Start(g, i) <= Len(f)
  BY ListSlice
<1>4. /\ h \in Seq(Int) /\ Len(h) = Len(p) + 1 /\ Len(p) \in Nat
      /\ \A k \in 1 .. Len(p) : h[k] = p[k]
      /\ h[Len(p) + 1] = Nul
  <2>1. h = Append(p, 0)
    OBVIOUS
  <2>. HIDE DEF h
  <2>. QED  BY <2>1 DEF Nul
<1>5. \A k \in Nat : k >= 1 /\ k <= Len(h) => f[c + k] = h[k]
  <2>1. \A k \in Nat : k >= 1 /\ k <= Len(g[i]) => Heads(g, n)[Start(g, i - 1) + k] = g[i][k]
    BY <1>2, Zenon DEF Stands
  <2>. QED  BY <1>1, <2>1, Zenon
<1>. HIDE DEF f, c, h
<1>6. Len(f) \in Nat /\ c + Len(p) + 1 <= Len(f) /\ c \in 0 .. Len(f)
  <2>1. Len(f) \in Nat
    BY <1>1
  <2>. QED  BY <2>1, <1>3, <1>4
<1>7. IsCut(f, c, SubSeq(f, 1, c), tail)
  BY <1>1, <1>6, CutAt
<1>. DEFINE a == SubSeq(f, 1, c)
<1>8. a \in Seq(Int) /\ tail \in Seq(Int) /\ Len(a) = c /\ Len(tail) = Len(f) - c /\ f = a \o tail
  BY <1>7, Zenon DEF IsCut
<1>. HIDE DEF a, tail
<1>9. \A k \in 1 .. Len(tail) : f[c + k] = tail[k]
  BY <1>8, ConcatAt
<1>10. Len(p) < Len(tail)
  BY <1>4, <1>6, <1>8
<1>11. \A k \in 1 .. Len(p) + 1 : k \in Nat /\ k >= 1 /\ k <= Len(h) /\ k \in 1 .. Len(tail)
  BY <1>4, <1>6, <1>8, <1>10
<1>12. \A k \in 1 .. Len(p) + 1 : tail[k] = h[k]
  BY <1>5, <1>9, <1>11
<1>13. \A k \in 1 .. Len(p) : tail[k] = p[k]
  <2>. TAKE k \in 1 .. Len(p)
  <2>1. k \in 1 .. Len(p) + 1
    BY <1>4
  <2>. QED  BY <1>4, <1>12, <2>1
<1>14. tail[Len(p) + 1] = Nul
  <2>1. Len(p) + 1 \in 1 .. Len(p) + 1
    BY <1>4
  <2>. QED  BY <1>4, <1>12, <2>1
<1>15. UpToNul(tail) = p
  BY <1>8, <1>10, <1>13, <1>14, UpToNulIs
<1>. QED  BY <1>15 DEF tail, f, c

\* The paths are numbered in their order.
AreNumbered(K, paths, ids) ==
  /\ paths \in Seq(K) /\ DOMAIN paths = 1 .. Len(paths) /\ Len(paths) \in Nat /\ DOMAIN ids = K
  /\ \A p \in K : /\ ids[p] \in Nat /\ ids[p] + 1 \in 1 .. Len(paths) /\ (ids[p] + 1) - 1 = ids[p]
                  /\ paths[ids[p] + 1] = p

\* IdOf gives each its number.
LEMMA IdsAre ==
  ASSUME NEW pkgs, ApartPackages(pkgs)
  PROVE  /\ AreNumbered(AllPaths(pkgs) \ {<<>>}, SortedPaths(pkgs), IdOf(pkgs))
         /\ IsFiniteSet(AllPaths(pkgs) \ {<<>>}) /\ AllPaths(pkgs) \ {<<>>} \subseteq Paths
<1>. DEFINE K == AllPaths(pkgs) \ {<<>>}
            paths == SortedPaths(pkgs)
            ids == IdOf(pkgs)
<1>1. IsFiniteSet(K) /\ K \subseteq Paths /\ K \subseteq Seq(Int)
  <2>1. IsFiniteSet(AllPaths(pkgs)) /\ AllPaths(pkgs) \subseteq Paths /\ AllPaths(pkgs) \subseteq Seq(Int)
    BY PathsFinite, Zenon
  <2>2. K \subseteq AllPaths(pkgs)
    OBVIOUS
  <2>. HIDE DEF K
  <2>3. IsFiniteSet(K)
    BY <2>1, <2>2, FS_Subset
  <2>. QED  BY <2>1, <2>2, <2>3
<1>2. paths = Sorted(K, Before)
  BY Zenon DEF SortedPaths
<1>3. ids = [p \in Range(paths) |-> PlaceOf(p, paths) - 1]
  BY Zenon DEF IdOf
<1>. HIDE DEF K, paths, ids
<1>4. Ranked(K, TextOrder, paths)
  BY <1>1, <1>2, TextsRanked
<1>5. paths \in Seq(K) /\ Range(paths) = K
  BY <1>4, Zenon DEF Ranked
<1>6. DOMAIN paths = 1 .. Len(paths) /\ Len(paths) \in Nat
  BY <1>5
<1>7. ASSUME NEW p \in K
      PROVE  /\ ids[p] \in Nat /\ ids[p] + 1 \in 1 .. Len(paths) /\ (ids[p] + 1) - 1 = ids[p]
             /\ paths[ids[p] + 1] = p
  <2>. DEFINE l == PlaceOf(p, paths)
  <2>1. l \in 1 .. Len(paths) /\ paths[l] = p
    BY <1>4, PlaceIs
  <2>2. ids[p] = l - 1
    BY <1>3, <1>5
  <2>. HIDE DEF l
  <2>3. l - 1 \in Nat /\ (l - 1) + 1 = l /\ ((l - 1) + 1) - 1 = l - 1
    BY <1>6, <2>1
  <2>. QED  BY <2>1, <2>2, <2>3
<1>8. DOMAIN ids = K
  BY <1>3, <1>5
<1>9. AreNumbered(K, paths, ids)
  BY <1>5, <1>6, <1>7, <1>8, Zenon DEF AreNumbered
<1>. QED  BY <1>1, <1>9 DEF K, paths, ids

\* The bytes of a path.
LEMMA PathBytesAre ==
  ASSUME NEW pkgs, ApartPackages(pkgs), NEW files,
         files.strings = PathEntryFiles(pkgs).strings, files.offsets = PathEntryFiles(pkgs).offsets,
         NEW p \in AllPaths(pkgs) \ {<<>>}
  PROVE  PathBytes(files, IdOf(pkgs)[p]) = p
<1>. DEFINE K == AllPaths(pkgs) \ {<<>>}
            paths == SortedPaths(pkgs)
            ids == IdOf(pkgs)
            n == Len(paths)
            g == [i \in DOMAIN paths |-> Append(paths[i], 0)]
            i == ids[p] + 1
<1>1. AreNumbered(K, paths, ids) /\ K \subseteq Paths
  BY IdsAre, Zenon
<1>2. files.strings = FlattenSeq(g) /\ files.offsets = [k \in DOMAIN paths |-> Offsets(g)[k]]
  BY DEF PathEntryFiles
<1>0. p \in K
  OBVIOUS
<1>. HIDE DEF K, paths, ids
<1>3. paths \in Seq(K) /\ DOMAIN paths = 1 .. n /\ n \in Nat /\ i \in 1 .. n /\ ids[p] \in Nat /\ i - 1 = ids[p] /\ paths[i] = p
  BY <1>0, <1>1, Zenon DEF AreNumbered
<1>. HIDE DEF n, i
<1>4. ASSUME NEW k \in 1 .. n PROVE paths[k] \in Seq(Int)
  <2>1. paths[k] \in K
    BY <1>3
  <2>. QED  BY <2>1, <1>1 DEF Paths
<1>5. g \in [1 .. n -> Seq(Int)] /\ g[i] = Append(p, 0)
  <2>1. \A k \in 1 .. n : g[k] = Append(paths[k], 0)
    BY <1>3
  <2>2. \A s \in Seq(Int) : Append(s, 0) \in Seq(Int)
    OBVIOUS
  <2>3. g = [k \in 1 .. n |-> Append(paths[k], 0)]
    BY <1>3
  <2>. QED  BY <1>3, <1>4, <2>1, <2>2, <2>3
<1>. HIDE DEF g
<1>6. p \in Seq(Int) /\ \A k \in 1 .. Len(p) : p[k] # Nul
  <2>1. p \in Paths
    BY <1>0, <1>1
  <2>2. p \in Seq(Int) /\ \A k \in DOMAIN p : p[k] # Nul
    BY <2>1 DEF Paths
  <2>. QED  BY <2>2
<1>7. UpToNul(SubSeq(FlattenSeq(g), Start(g, i - 1) + 1, Len(FlattenSeq(g)))) = p
  BY <1>3, <1>5, <1>6, TextRead, ZenonT(60)
<1>8. files.offsets[i] = Start(g, i - 1)
  <2>1. i \in 1 .. n + 1
    BY <1>3
  <2>2. n \in Nat /\ g \in [1 .. n -> Seq(Int)]
    BY <1>3, <1>5
  <2>3. \A j \in 1 .. n + 1 : Offsets(g)[j] = Start(g, j - 1)
    BY <2>2, OffsetsAre, Zenon
  <2>4. Offsets(g)[i] = Start(g, i - 1)
    BY <2>1, <2>3, Zenon
  <2>. QED  BY <1>2, <1>3, <2>4
<1>9. PathBytes(files, ids[p]) = UpToNul(SubSeq(files.strings, files.offsets[ids[p] + 1] + 1, Len(files.strings)))
  BY Zenon DEF PathBytes, UpToNul
<1>10. PathBytes(files, ids[p]) = p
  BY <1>2, <1>7, <1>8, <1>9, Zenon DEF i
<1>. QED  BY <1>10 DEF ids

\* The entries of a path.
Shorts(rs) == [k \in DOMAIN rs |-> [of |-> rs[k].of, node |-> rs[k].node]]

\* What lies between its two offsets are its records, without the path.
LEMMA BlobIs ==
  ASSUME NEW pkgs, ApartPackages(pkgs), NEW files,
         files.entries = PathEntryFiles(pkgs).entries,
         NEW p \in AllPaths(pkgs) \ {<<>>}, NEW id, id = IdOf(pkgs)[p]
  PROVE  SubSeq(files.entries.blobs, files.entries.offsets[id + 1] + 1, files.entries.offsets[id + 2])
           = Shorts(Records(pkgs, {p}))
<1>. DEFINE K == AllPaths(pkgs) \ {<<>>}
            paths == SortedPaths(pkgs)
            n == Len(paths)
            g == [j \in DOMAIN paths |-> Shorts(Records(pkgs, {paths[j]}))]
            i == id + 1
            V == {[of |-> r.of, node |-> r.node] : r \in RecordSet(pkgs)}
<1>1. AreNumbered(K, paths, IdOf(pkgs))
  BY IdsAre, Zenon
<1>2. files.entries.blobs = FlattenSeq(g) /\ files.entries.offsets = Offsets(g)
  <2>1. PathEntryFiles(pkgs).entries = [offsets |-> Offsets(g), blobs |-> FlattenSeq(g)]
    BY DEF PathEntryFiles, Shorts
  <2>. HIDE DEF g
  <2>. QED  BY <2>1
<1>. HIDE DEF K, paths
<1>3. DOMAIN paths = 1 .. n /\ n \in Nat /\ i \in 1 .. n /\ id \in Nat /\ i - 1 = id /\ paths[i] = p
  BY <1>1, Zenon DEF AreNumbered, K
<1>. HIDE DEF n, i
<1>4. ASSUME NEW q PROVE Shorts(Records(pkgs, q)) \in Seq(V)
  <2>. DEFINE rs == Records(pkgs, q)
  <2>1. rs \in Seq(RecordSet(pkgs))
    BY RecordsAre, Zenon DEF AreRecords
  <2>. HIDE DEF rs
  <2>2. \A k \in DOMAIN rs : [of |-> rs[k].of, node |-> rs[k].node] \in V
    BY <2>1
  <2>. HIDE DEF V
  <2>3. DOMAIN rs = 1 .. Len(rs) /\ Len(rs) \in Nat
    BY <2>1
  <2>. DEFINE l == Len(rs)
              e(k) == [of |-> rs[k].of, node |-> rs[k].node]
  <2>4. Shorts(rs) = [k \in 1 .. l |-> e(k)]
    BY <2>3 DEF Shorts
  <2>6. l \in Nat /\ \A k \in 1 .. l : e(k) \in V
    BY <2>2, <2>3
  <2>. HIDE DEF l, e
  <2>5. Shorts(rs) \in Seq(V)
    BY <2>4, <2>6
  <2>. QED  BY <2>5 DEF rs
<1>. HIDE DEF V
<1>5. g \in [1 .. n -> Seq(V)] /\ g[i] = Shorts(Records(pkgs, {p}))
  BY <1>3, <1>4
<1>. HIDE DEF g
<1>6. /\ Start(g, i - 1) \in Nat /\ Start(g, i) = Start(g, i - 1) + Len(g[i])
      /\ SubSeq(FlattenSeq(g), Start(g, i - 1) + 1, Start(g, i)) = g[i]
  BY <1>3, <1>5, ListSlice, ZenonT(60)
<1>7. Offsets(g)[i] = Start(g, i - 1) /\ Offsets(g)[i + 1] = Start(g, i)
  <2>1. i \in 1 .. n + 1 /\ i + 1 \in 1 .. n + 1 /\ (i + 1) - 1 = i
    BY <1>3
  <2>2. n \in Nat /\ g \in [1 .. n -> Seq(V)]
    BY <1>3, <1>5
  <2>3. \A j \in 1 .. n + 1 : Offsets(g)[j] = Start(g, j - 1)
    BY <2>2, OffsetsAre, Zenon
  <2>4. Offsets(g)[i] = Start(g, i - 1) /\ Offsets(g)[i + 1] = Start(g, (i + 1) - 1)
    BY <2>1, <2>3, Zenon
  <2>. QED  BY <2>1, <2>4
<1>8. id + 1 = i /\ id + 2 = i + 1
  BY <1>3 DEF i
<1>. QED  BY <1>2, <1>5, <1>6, <1>7, <1>8, Zenon

\* Nothing that is of no entry.
LEMMA NoneOpened ==
  ASSUME NEW pkgs, NEW paths, \A i \in DOMAIN pkgs : \A e \in Range(pkgs[i].entries) : e.path \notin paths,
         NEW F, F = << >>
  PROVE  /\ IsInjective(F)
         /\ \A x : x \in Range(F) <=>
              \E i \in DOMAIN pkgs : \E e \in Range(pkgs[i].entries) : x = EntryIn(pkgs, i, e) /\ e.path \in paths
<1>1. DOMAIN F = {}
  OBVIOUS
<1>2. \A x : x \notin Range(F)
  BY <1>1, Zenon DEF Range
<1>. QED  BY <1>1, <1>2, Zenon DEF IsInjective

\* With the path of the number they are the entries.
LEMMA PathEntriesOpened ==
  ASSUME NEW pkgs, ApartPackages(pkgs), NEW files,
         files.store_paths = PathEntryFiles(pkgs).store_paths, files.entries = PathEntryFiles(pkgs).entries,
         files.strings = PathEntryFiles(pkgs).strings, files.offsets = PathEntryFiles(pkgs).offsets,
         NEW p \in AllPaths(pkgs) \ {<<>>}
  PROVE  /\ DOMAIN EntriesById(files, IdOf(pkgs)[p]) = DOMAIN Records(pkgs, {p})
         /\ \A k \in DOMAIN Records(pkgs, {p}) : EntriesById(files, IdOf(pkgs)[p])[k] = Opened(pkgs, Records(pkgs, {p})[k])
<1>. DEFINE id == IdOf(pkgs)[p]
            rs == Records(pkgs, {p})
            blob == SubSeq(files.entries.blobs, files.entries.offsets[id + 1] + 1, files.entries.offsets[id + 2])
            F == EntriesById(files, id)
<1>1. blob = Shorts(rs)
  BY BlobIs, ZenonT(60)
<1>2. PathBytes(files, id) = p
  BY PathBytesAre, Zenon
<1>3. F = [k \in DOMAIN blob |-> [store_path |-> files.store_paths[blob[k].of + 1], path |-> PathBytes(files, id), node |-> blob[k].node]]
  BY Zenon DEF EntriesById
<1>4. files.store_paths = [i \in DOMAIN pkgs |-> pkgs[i].store_path]
  BY DEF PathEntryFiles
<1>5. AreRecords(pkgs, {p}, rs)
  BY RecordsAre, Zenon
<1>. HIDE DEF id, rs, blob, F
<1>6. DOMAIN blob = DOMAIN rs /\ \A k \in DOMAIN rs : blob[k].of = rs[k].of /\ blob[k].node = rs[k].node
  BY <1>1 DEF Shorts
<1>7. ASSUME NEW k \in DOMAIN rs PROVE rs[k].of + 1 \in DOMAIN pkgs /\ rs[k].path = p
  <2>1. rs[k] \in Range(rs)
    BY Zenon DEF Range
  <2>2. PICK i \in DOMAIN pkgs : \E e \in Range(pkgs[i].entries) : rs[k] = RecordOf(pkgs, i, e) /\ e.path \in {p}
    BY <1>5, <2>1, Zenon DEF AreRecords
  <2>3. rs[k].of = i - 1 /\ rs[k].path = p
    BY <2>2 DEF RecordOf
  <2>4. (i - 1) + 1 = i
    BY PackageNumbered, Zenon
  <2>. QED  BY <2>3, <2>4
<1>8. DOMAIN F = DOMAIN rs
  BY <1>3, <1>6
<1>9. ASSUME NEW k \in DOMAIN rs PROVE F[k] = Opened(pkgs, rs[k])
  <2>1. F[k] = [store_path |-> files.store_paths[rs[k].of + 1], path |-> p, node |-> rs[k].node]
    BY <1>2, <1>3, <1>6
  <2>2. files.store_paths[rs[k].of + 1] = pkgs[rs[k].of + 1].store_path
    BY <1>4, <1>7
  <2>3. rs[k].path = p
    BY <1>7
  <2>. QED  BY <2>1, <2>2, <2>3, Zenon DEF Opened
<1>. QED  BY <1>8, <1>9 DEF F, rs, id

\* What its lookup answers, for a path that is there or not.
LEMMA PathEntryAnswers ==
  ASSUME NEW pkgs, ApartPackages(pkgs), NEW files,
         files.store_paths = PathEntryFiles(pkgs).store_paths, files.entries = PathEntryFiles(pkgs).entries,
         files.fst = PathEntryFiles(pkgs).fst,
         files.strings = PathEntryFiles(pkgs).strings, files.offsets = PathEntryFiles(pkgs).offsets,
         NEW t \in Seq(Int), t # <<>>
  PROVE  /\ Range(PathEntries(files, t)) =
              UNION {{[store_path |-> pkgs[i].store_path, path |-> e.path, node |-> e.node] :
                        e \in {x \in Range(pkgs[i].entries) : x.path = t}} : i \in DOMAIN pkgs}
         /\ IsInjective(PathEntries(files, t))
<1>. DEFINE F == PathEntries(files, t)
            ids == IdOf(pkgs)
            rs == Records(pkgs, {t})
<1>1. files.fst = ids
  BY DEF PathEntryFiles
<1>2. DOMAIN ids = AllPaths(pkgs) \ {<<>>}
  BY IdsAre, Zenon DEF AreNumbered
<1>3. F = IF t \in DOMAIN ids THEN EntriesById(files, ids[t]) ELSE << >>
  BY <1>1, Zenon DEF PathEntries
<1>4. AreRecords(pkgs, {t}, rs)
  BY RecordsAre, Zenon
<1>5. ASSUME NEW i \in DOMAIN pkgs, NEW e \in Range(pkgs[i].entries) PROVE e.path \in AllPaths(pkgs)
  <2>1. PICK k \in DOMAIN pkgs[i].entries : pkgs[i].entries[k] = e
    BY Zenon DEF Range
  <2>2. e.path \in PathsOf(pkgs[i])
    BY <2>1, PathsFinite, Zenon
  <2>. QED  BY <2>2, PathsFinite
<1>. HIDE DEF F
<1>6. /\ IsInjective(F)
      /\ \A x : x \in Range(F) <=>
           \E i \in DOMAIN pkgs : \E e \in Range(pkgs[i].entries) : x = EntryIn(pkgs, i, e) /\ e.path \in {t}
  <2>1. CASE t \in DOMAIN ids
    <3>1. t \in AllPaths(pkgs) \ {<<>>} /\ F = EntriesById(files, ids[t])
      BY <1>2, <1>3, <2>1
    <3>2. DOMAIN F = DOMAIN rs /\ \A k \in DOMAIN rs : F[k] = Opened(pkgs, rs[k])
      <4>1. t \in AllPaths(pkgs) \ {<<>>}
        BY <3>1
      <4>2. /\ DOMAIN EntriesById(files, IdOf(pkgs)[t]) = DOMAIN Records(pkgs, {t})
            /\ \A k \in DOMAIN Records(pkgs, {t}) :
                 EntriesById(files, IdOf(pkgs)[t])[k] = Opened(pkgs, Records(pkgs, {t})[k])
        BY <4>1, PathEntriesOpened
      <4>. QED  BY <3>1, <4>2, Zenon
    <3>. HIDE DEF rs
    <3>. QED  BY <1>4, <3>2, EntriesOpened
  <2>2. CASE t \notin DOMAIN ids
    <3>1. t \notin AllPaths(pkgs) /\ F = << >>
      BY <1>2, <1>3, <2>2
    <3>2. \A i \in DOMAIN pkgs : \A e \in Range(pkgs[i].entries) : e.path \notin {t}
      BY <1>5, <3>1
    <3>. QED  BY <3>1, <3>2, NoneOpened, ZenonT(60)
  <2>. QED  BY <2>1, <2>2
<1>8. ASSUME NEW x
      PROVE  x \in Range(F) <=>
               x \in UNION {{EntryIn(pkgs, i, e) : e \in {y \in Range(pkgs[i].entries) : y.path = t}} : i \in DOMAIN pkgs}
  <2>. HIDE DEF ids, rs
  <2>. QED  BY <1>6
<1>9. Range(F) = UNION {{EntryIn(pkgs, i, e) : e \in {y \in Range(pkgs[i].entries) : y.path = t}} : i \in DOMAIN pkgs}
  BY <1>8
<1>. QED  BY <1>6, <1>9, Zenon DEF EntryIn, F

----------------------------------------------------------------------------
(***************************************************************************)
(* Trigrams.                                                               *)
(***************************************************************************)
IsGram(f, a, h) == h \in Seq(Int) /\ Len(h) = Gram /\ \A k \in 1 .. Gram : h[k] = f[a + k - 1]

\* A trigram of a text stands somewhere in it.
LEMMA GramAt ==
  ASSUME NEW f \in Seq(Int), NEW a \in 1 .. Len(f) + 1 - Gram
  PROVE  IsGram(f, a, SubSeq(f, a, a + Gram - 1))
<1>. DEFINE h == SubSeq(f, a, a + Gram - 1)
            b == a + Gram - 1
<1>1. Gram \in Nat \ {0} /\ Len(f) \in Nat
  BY LookupsAssumption
<1>2. a \in Nat /\ a >= 1 /\ b \in Nat /\ a <= b /\ b <= Len(f) /\ b - a + 1 = Gram
  BY <1>1
<1>3. \A i \in a .. b : f[i] \in Int
  <2>. TAKE i \in a .. b
  <2>1. i \in 1 .. Len(f)
    BY <1>1, <1>2
  <2>. QED  BY <2>1
<1>4. h = SubSeq(f, a, b)
  OBVIOUS
<1>. HIDE DEF b, h
<1>5. /\ h \in Seq(Int) /\ Len(h) = (IF a <= b THEN b - a + 1 ELSE 0)
      /\ \A i \in 1 .. b - a + 1 : h[i] = f[a + i - 1]
  <2>1. a \in 1 .. b + 1
    BY <1>2
  <2>. QED  BY <1>2, <1>3, <1>4, <2>1, SubSeqProperties
<1>6. Len(h) = Gram /\ \A k \in 1 .. Gram : h[k] = f[a + k - 1]
  BY <1>2, <1>5
<1>7. IsGram(f, a, h)
  BY <1>5, <1>6, Zenon DEF IsGram
<1>. QED  BY <1>7 DEF h, b

\* Trigrams with the same characters are the same.
LEMMA SameGram ==
  ASSUME NEW f, NEW a, NEW g, NEW b, NEW h, IsGram(f, a, h), NEW k, IsGram(g, b, k),
         \A i \in 1 .. Gram : f[a + i - 1] = g[b + i - 1]
  PROVE  h = k
<1>1. h \in Seq(Int) /\ k \in Seq(Int) /\ Len(h) = Len(k) /\ \A i \in 1 .. Len(h) : h[i] = k[i]
  BY DEF IsGram
<1>. QED  BY <1>1, SameSeq

\* A text that occurs in a path has no other trigrams than the path.
LEMMA OccursGrams ==
  ASSUME NEW t \in Seq(Int), NEW p \in Seq(Int), Occurs(t, p), Len(t) >= Gram
  PROVE  Grams(t) \subseteq Grams(p) /\ Len(p) >= Len(t)
<1>1. Gram \in Nat \ {0} /\ Len(t) \in Nat /\ Len(p) \in Nat
  BY LookupsAssumption
<1>2. PICK o \in 0 .. Len(p) - Len(t) : SubSeq(p, o + 1, o + Len(t)) = t
  BY DEF Occurs
<1>3. o \in Nat /\ o + Len(t) <= Len(p)
  BY <1>1, <1>2
<1>4. ASSUME NEW k \in 1 .. Len(t) PROVE t[k] = p[o + k]
  <2>. DEFINE a == o + 1
              b == o + Len(t)
  <2>1. a \in Nat /\ b \in Nat /\ a <= b /\ b - a + 1 = Len(t) /\ a \in 1 .. b + 1 /\ a + k - 1 = o + k
    BY <1>1, <1>3
  <2>2. \A i \in a .. b : p[i] \in Int
    <3>. TAKE i \in a .. b
    <3>1. i \in 1 .. Len(p)
      BY <1>1, <1>3
    <3>. QED  BY <3>1
  <2>3. SubSeq(p, a, b) = t
    BY <1>2
  <2>. HIDE DEF a, b
  <2>4. \A i \in 1 .. b - a + 1 : SubSeq(p, a, b)[i] = p[a + i - 1]
    BY <2>1, <2>2, SubSeqProperties
  <2>5. t[k] = p[a + k - 1]
    BY <2>1, <2>3, <2>4
  <2>. QED  BY <2>1, <2>5
<1>5. ASSUME NEW g \in Grams(t) PROVE g \in Grams(p)
  <2>1. PICK j \in 1 .. Len(t) + 1 - Gram : g = SubSeq(t, j, j + Gram - 1)
    BY DEF Grams
  <2>. DEFINE a == o + j
              h == SubSeq(p, a, a + Gram - 1)
  <2>2. a \in 1 .. Len(p) + 1 - Gram /\ j \in Nat /\ j + Gram <= Len(t) + 1
    BY <1>1, <1>3, <2>1
  <2>3. IsGram(t, j, g)
    BY <2>1, GramAt
  <2>4. IsGram(p, a, h)
    BY <2>2, GramAt
  <2>5. h \in Grams(p)
    BY <2>2 DEF Grams
  <2>. HIDE DEF h
  <2>6. ASSUME NEW i \in 1 .. Gram PROVE t[j + i - 1] = p[a + i - 1]
    <3>1. j + i - 1 \in 1 .. Len(t) /\ o + (j + i - 1) = a + i - 1
      BY <1>1, <1>3, <2>2
    <3>. QED  BY <1>4, <3>1
  <2>. HIDE DEF a
  <2>7. g = h
    BY <2>3, <2>4, <2>6, SameGram
  <2>. QED  BY <2>5, <2>7
<1>. QED  BY <1>1, <1>3, <1>5

\* There are finitely many trigrams.
GramList(p) == [i \in 1 .. (IF Len(p) + 1 - Gram > 0 THEN Len(p) + 1 - Gram ELSE 0) |-> SubSeq(p, i, i + Gram - 1)]

\* They are the trigrams in the order of their places.
LEMMA GramListIs ==
  ASSUME NEW p \in Seq(Int)
  PROVE  GramList(p) \in Seq(Seq(Int)) /\ \A h : h \in Range(GramList(p)) <=> h \in Grams(p)
<1>. DEFINE n == IF Len(p) + 1 - Gram > 0 THEN Len(p) + 1 - Gram ELSE 0
            U == Seq(Int)
            e(i) == SubSeq(p, i, i + Gram - 1)
<1>1. n \in Nat /\ 1 .. n = 1 .. Len(p) + 1 - Gram
  <2>1. Gram \in Nat \ {0} /\ Len(p) \in Nat
    BY LookupsAssumption
  <2>. DEFINE l == Len(p)
  <2>. HIDE DEF l
  <2>2. (IF l + 1 - Gram > 0 THEN l + 1 - Gram ELSE 0) \in Nat
    BY <2>1 DEF l
  <2>3. 1 .. (IF l + 1 - Gram > 0 THEN l + 1 - Gram ELSE 0) = 1 .. l + 1 - Gram
    BY <2>1 DEF l
  <2>. QED  BY <2>2, <2>3 DEF l
<1>2. GramList(p) = [i \in 1 .. n |-> e(i)]
  BY DEF GramList
<1>3. ASSUME NEW i \in 1 .. n PROVE e(i) \in U
  <2>1. i \in 1 .. Len(p) + 1 - Gram
    BY <1>1
  <2>2. IsGram(p, i, e(i))
    BY <2>1, GramAt
  <2>. QED  BY <2>2 DEF IsGram
<1>4. Grams(p) = {e(i) : i \in 1 .. n}
  BY <1>1 DEF Grams
<1>. HIDE DEF n, U, e
<1>5. GramList(p) \in Seq(U)
  BY <1>1, <1>2, <1>3
<1>6. \A h : h \in Range(GramList(p)) <=> h \in Grams(p)
  <2>. DEFINE G == GramList(p)
  <2>1. DOMAIN G = 1 .. n /\ \A i \in 1 .. n : G[i] = e(i)
    BY <1>2
  <2>. HIDE DEF G
  <2>2. \A h : h \in Range(G) <=> \E i \in 1 .. n : h = e(i)
    <3>1. \A h : h \in Range(G) <=> \E i \in DOMAIN G : h = G[i]
      BY Zenon DEF Range
    <3>. QED  BY <2>1, <3>1
  <2>. QED  BY <1>4, <2>2 DEF G
<1>. QED  BY <1>5, <1>6 DEF U

\* So it is for the trigrams of finitely many texts.
LEMMA GramsFinite ==
  ASSUME NEW A, IsFiniteSet(A), A \subseteq Seq(Int)
  PROVE  IsFiniteSet(UNION {Grams(p) : p \in A}) /\ UNION {Grams(p) : p \in A} \subseteq Seq(Int)
<1>. DEFINE s == Sorted(A, Before)
            n == Len(s)
            U == Seq(Int)
            g == [i \in 1 .. n |-> GramList(s[i])]
            f == FlattenSeq(g)
            G == UNION {Grams(p) : p \in A}
<1>1. Ranked(A, TextOrder, s)
  BY TextsRanked
<1>. HIDE DEF s
<1>2. s \in Seq(A) /\ Range(s) = A
  BY <1>1, Zenon DEF Ranked
<1>3. n \in Nat /\ DOMAIN s = 1 .. n /\ \A i \in 1 .. n : s[i] \in A
  BY <1>2
<1>. HIDE DEF n
<1>4. ASSUME NEW i \in 1 .. n PROVE GramList(s[i]) \in Seq(U) /\ \A h : h \in Range(GramList(s[i])) <=> h \in Grams(s[i])
  <2>1. s[i] \in Seq(Int)
    BY <1>3
  <2>. QED  BY <2>1, GramListIs
<1>. HIDE DEF U
<1>5. g \in [1 .. n -> Seq(U)] /\ \A i \in 1 .. n : g[i] = GramList(s[i])
  BY <1>4
<1>. HIDE DEF g
<1>6. f \in Seq(U)
  BY <1>3, <1>5, FlattenType
<1>7. ASSUME NEW h PROVE h \in Range(f) <=> h \in G
  <2>1. h \in Range(f) <=> \E i \in 1 .. n : h \in Range(g[i])
    BY <1>3, <1>5, FlatMembers
  <2>2. h \in Range(f) <=> \E i \in 1 .. n : h \in Grams(s[i])
    BY <2>1, <1>4, <1>5
  <2>3. h \in G <=> \E p \in A : h \in Grams(p)
    OBVIOUS
  <2>4. \A p : p \in A <=> \E i \in 1 .. n : p = s[i]
    BY <1>2, <1>3, Zenon DEF Range
  <2>. HIDE DEF G
  <2>. QED  BY <2>2, <2>3, <2>4, Zenon
<1>. HIDE DEF f, G
<1>8. Range(f) = G
  BY <1>7
<1>9. DOMAIN f = 1 .. Len(f) /\ Len(f) \in Nat /\ f = [x \in DOMAIN f |-> f[x]] /\ \A x \in DOMAIN f : f[x] \in U
  BY <1>6
<1>10. IsFiniteSet(DOMAIN f)
  <2>. DEFINE l == Len(f)
  <2>1. l \in Nat /\ DOMAIN f = 1 .. l
    BY <1>9
  <2>. HIDE DEF l
  <2>2. 1 \in Int /\ l \in Int
    BY <2>1
  <2>3. IsFiniteSet(1 .. l)
    BY <2>2, FS_Interval
  <2>. QED  BY <2>1, <2>3
<1>11. IsFiniteSet(Range(f))
  BY <1>9, <1>10, FiniteImage
<1>12. \A h \in Range(f) : h \in U
  BY <1>9, Zenon DEF Range
<1>. QED  BY <1>8, <1>11, <1>12 DEF G, U

\* What all trigrams of a text have is in their intersection.
LEMMA InIntersection ==
  ASSUME NEW t \in Seq(Int), Len(t) >= Gram, NEW members, NEW n, \A g \in Grams(t) : n \in members[g]
  PROVE  n \in Intersection(t, members)
<1>1. Gram \in Nat \ {0} /\ Len(t) \in Nat
  BY LookupsAssumption
<1>2. 1 \in 1 .. Len(t) + 1 - Gram
  BY <1>1
<1>3. SubSeq(t, 1, 1 + Gram - 1) \in Grams(t)
  BY <1>2 DEF Grams
<1>. DEFINE least == CHOOSE g \in Grams(t) : TRUE
<1>4. least \in Grams(t)
  BY <1>3, Zenon
<1>5. ~(Len(t) < Gram)
  BY <1>1
<1>6. Intersection(t, members) = {m \in members[least] : \A g \in Grams(t) : m \in members[g]}
  BY <1>5, Zenon DEF Intersection
<1>. HIDE DEF least
<1>. QED  BY <1>4, <1>6

\* The ngram sidecar.
LEMMA NgramAnswers ==
  ASSUME NEW pkgs, ApartPackages(pkgs), NEW files,
         files.postings = NgramFiles(pkgs).postings, files.fst = NgramFiles(pkgs).fst,
         NEW t \in Seq(Int), Len(t) >= Gram
  PROVE  {n \in Ordinals(pkgs) : \E p \in PathsOf(Package(pkgs, n)) : Occurs(t, p)} \subseteq CandidateOrdinals(files, t)
<1>. DEFINE G == UNION {Grams(p) : p \in AllPaths(pkgs)}
            with(g) == {n \in Ordinals(pkgs) : \E p \in PathsOf(Package(pkgs, n)) : g \in Grams(p)}
            m == [g \in G |-> <<with(g)>>]
            V == SUBSET Nat
            file == Postings(m)
            members == [g \in Grams(t) |-> UNION Range(List(files, g))]
<1>1. files.postings = file.raw /\ files.fst = file.fst
  <2>1. NgramFiles(pkgs) = [postings |-> file.raw, fst |-> file.fst]
    BY Zenon DEF NgramFiles
  <2>. HIDE DEF file
  <2>. QED  BY <2>1
<1>2. IsFiniteSet(G) /\ G \subseteq Seq(Int)
  <2>1. IsFiniteSet(AllPaths(pkgs)) /\ AllPaths(pkgs) \subseteq Seq(Int)
    BY PathsFinite, Zenon
  <2>. QED  BY <2>1, GramsFinite
<1>3. CandidateOrdinals(files, t) = Intersection(t, members)
  BY Zenon DEF CandidateOrdinals
<1>4. \A p \in AllPaths(pkgs) : \A g \in Grams(p) : g \in G
  OBVIOUS
<1>. HIDE DEF G
<1>5. DOMAIN m = G /\ \A g \in G : m[g] = <<with(g)>>
  OBVIOUS
<1>6. ASSUME NEW g PROVE with(g) \in V /\ \A n : n \in with(g) <=> n \in Ordinals(pkgs) /\ \E p \in PathsOf(Package(pkgs, n)) : g \in Grams(p)
  <2>1. Ordinals(pkgs) \subseteq Nat
    BY PackageNumbered, Zenon
  <2>. QED  BY <2>1
<1>. HIDE DEF m, with, V
<1>7. HasPostings(files, m)
  BY <1>1, Zenon DEF HasPostings
<1>. HIDE DEF file
<1>8. IsMap(m, V)
  <2>1. \A x \in V : <<x>> \in Seq(V)
    OBVIOUS
  <2>2. \A g \in DOMAIN m : m[g] \in Seq(V)
    BY <1>5, <1>6, <2>1
  <2>. QED  BY <1>2, <1>5, <2>2 DEF IsMap
<1>9. \A g \in G : List(files, g) = <<with(g)>>
  <2>1. Lists(files, m)
    BY <1>7, <1>8, ListIs, Zenon
  <2>. QED  BY <1>5, <2>1, Zenon DEF Lists
<1>10. ASSUME NEW n \in Ordinals(pkgs), NEW p \in PathsOf(Package(pkgs, n)), Occurs(t, p)
       PROVE  n \in CandidateOrdinals(files, t)
  <2>1. Package(pkgs, n) = pkgs[n + 1] /\ n + 1 \in DOMAIN pkgs
    BY PackageNumbered, Zenon
  <2>2. p \in AllPaths(pkgs) /\ p \in Seq(Int)
    BY <2>1, PathsFinite
  <2>3. Grams(t) \subseteq Grams(p)
    BY <1>10, <2>2, OccursGrams
  <2>4. ASSUME NEW g \in Grams(t) PROVE n \in members[g]
    <3>1. g \in Grams(p) /\ g \in G
      BY <1>4, <2>2, <2>3
    <3>2. n \in with(g)
      BY <1>6, <3>1
    <3>3. with(g) \in Range(List(files, g))
      <4>. DEFINE w == with(g)
                  L == List(files, g)
      <4>1. L = <<w>>
        BY <1>9, <3>1
      <4>. HIDE DEF w, L
      <4>2. 1 \in DOMAIN L /\ L[1] = w
        BY <4>1
      <4>3. w \in Range(L)
        BY <4>2, Zenon DEF Range
      <4>. QED  BY <4>3 DEF w, L
    <3>4. members[g] = UNION Range(List(files, g))
      OBVIOUS
    <3>. HIDE DEF members
    <3>. QED  BY <3>2, <3>3, <3>4
  <2>. HIDE DEF members
  <2>5. n \in Intersection(t, members)
    BY <2>4, InIntersection
  <2>. QED  BY <1>3, <2>5
<1>. QED  BY <1>10

\* The path_trigram sidecar, with the path_entry sidecar beside it.
LEMMA PathTrigramAnswers ==
  ASSUME NEW pkgs, ApartPackages(pkgs), NEW files,
         files.postings = PathTrigramFiles(pkgs).postings, files.fst = PathTrigramFiles(pkgs).fst,
         NEW beside,
         beside.strings = PathEntryFiles(pkgs).strings, beside.offsets = PathEntryFiles(pkgs).offsets,
         NEW t \in Seq(Int), Len(t) >= Gram
  PROVE  {p \in AllPaths(pkgs) : Occurs(t, p)} \subseteq {PathBytes(beside, id) : id \in CandidatePaths(files, t)}
<1>. DEFINE ids == IdOf(pkgs)
            K == DOMAIN ids
            G == UNION {Grams(p) : p \in K}
            with(g) == {ids[p] : p \in {q \in K : g \in Grams(q)}}
            m == [g \in G |-> Ascending(with(g))]
            file == Postings(m)
            members == [g \in Grams(t) |-> Range(List(files, g))]
<1>1. files.postings = file.raw /\ files.fst = file.fst
  <2>1. PathTrigramFiles(pkgs) = [postings |-> file.raw, fst |-> file.fst]
    BY Zenon DEF PathTrigramFiles
  <2>. HIDE DEF file
  <2>. QED  BY <2>1
<1>2. /\ AreNumbered(AllPaths(pkgs) \ {<<>>}, SortedPaths(pkgs), ids)
      /\ IsFiniteSet(AllPaths(pkgs) \ {<<>>}) /\ AllPaths(pkgs) \ {<<>>} \subseteq Paths
  BY IdsAre, Zenon
<1>3. CandidatePaths(files, t) = Intersection(t, members)
  BY Zenon DEF CandidatePaths
<1>. HIDE DEF ids
<1>4. K = AllPaths(pkgs) \ {<<>>}
  BY <1>2, Zenon DEF AreNumbered
<1>5. K \subseteq Seq(Int) /\ IsFiniteSet(K)
  BY <1>2, <1>4 DEF Paths
<1>. DEFINE n == Len(SortedPaths(pkgs))
<1>6. n \in Nat /\ \A p \in K : ids[p] \in Nat /\ ids[p] + 1 \in 1 .. n
  BY <1>2, <1>4, Zenon DEF AreNumbered
<1>. HIDE DEF K, n
<1>7. IsFiniteSet(G) /\ G \subseteq Seq(Int)
  BY <1>5, GramsFinite
<1>8. \A p \in K : \A g \in Grams(p) : g \in G
  OBVIOUS
<1>. HIDE DEF G
<1>9. DOMAIN m = G /\ \A g \in G : m[g] = Ascending(with(g))
  OBVIOUS
<1>10. ASSUME NEW g
       PROVE  /\ IsFiniteSet(with(g)) /\ with(g) \subseteq Int /\ with(g) \subseteq Nat
              /\ \A p \in K : g \in Grams(p) => ids[p] \in with(g)
  <2>. DEFINE W == with(g)
  <2>1. \A p \in K : g \in Grams(p) => ids[p] \in W
    OBVIOUS
  <2>2. \A x \in W : \E p \in K : x = ids[p]
    OBVIOUS
  <2>. HIDE DEF W
  <2>3. \A x \in W : x \in Nat /\ x <= n
    BY <1>6, <2>2
  <2>4. W \in SUBSET Nat /\ W \subseteq Int
    BY <2>3
  <2>5. IsFiniteSet(W)
    BY <1>6, <2>3, <2>4, FS_BoundedSetOfNaturals
  <2>. QED  BY <2>1, <2>4, <2>5 DEF W
<1>. HIDE DEF m, with
<1>11. ASSUME NEW g PROVE Ascending(with(g)) \in Seq(Nat) /\ Range(Ascending(with(g))) = with(g)
  <2>. DEFINE W == with(g)
              s == Ascending(W)
  <2>1. IsFiniteSet(W) /\ W \subseteq Int /\ W \subseteq Nat
    BY <1>10
  <2>. HIDE DEF W
  <2>2. Ranked(W, Numbers, s)
    BY <2>1, NumbersRanked
  <2>. HIDE DEF s
  <2>3. s \in Seq(W) /\ Range(s) = W
    BY <2>2, Zenon DEF Ranked
  <2>4. s \in Seq(Nat)
    <3>1. s \in [1 .. Len(s) -> W] /\ Len(s) \in Nat
      BY <2>3
    <3>2. s \in [1 .. Len(s) -> Nat]
      BY <2>1, <3>1
    <3>. QED  BY <3>1, <3>2
  <2>. QED  BY <2>3, <2>4 DEF W, s
<1>12. HasPostings(files, m)
  BY <1>1, Zenon DEF HasPostings
<1>. HIDE DEF file
<1>13. IsMap(m, Nat)
  <2>1. \A g \in DOMAIN m : m[g] \in Seq(Nat)
    BY <1>9, <1>11
  <2>. QED  BY <1>7, <1>9, <2>1 DEF IsMap
<1>14. \A g \in G : Range(List(files, g)) = with(g)
  <2>1. Lists(files, m)
    BY <1>12, <1>13, ListIs, Zenon
  <2>2. \A g \in G : List(files, g) = Ascending(with(g))
    BY <1>9, <2>1, Zenon DEF Lists
  <2>. QED  BY <1>11, <2>2
<1>15. ASSUME NEW p \in AllPaths(pkgs), Occurs(t, p)
       PROVE  p \in {PathBytes(beside, id) : id \in CandidatePaths(files, t)}
  <2>1. p \in Seq(Int)
    BY PathsFinite
  <2>2. Grams(t) \subseteq Grams(p) /\ Len(p) >= Len(t)
    BY <1>15, <2>1, OccursGrams
  <2>3. p # <<>>
    <3>1. Gram \in Nat \ {0} /\ Len(t) \in Nat /\ Len(p) \in Nat
      BY <2>1, LookupsAssumption
    <3>2. Len(p) # 0
      BY <2>2, <3>1
    <3>. QED  BY <3>2
  <2>4. p \in K /\ p \in AllPaths(pkgs) \ {<<>>}
    BY <1>4, <2>3
  <2>5. ASSUME NEW g \in Grams(t) PROVE ids[p] \in members[g]
    <3>1. g \in Grams(p) /\ g \in G
      BY <1>8, <2>2, <2>4
    <3>2. ids[p] \in with(g)
      BY <1>10, <2>4, <3>1
    <3>3. members[g] = Range(List(files, g))
      OBVIOUS
    <3>. HIDE DEF members
    <3>. QED  BY <1>14, <3>1, <3>2, <3>3
  <2>. HIDE DEF members
  <2>6. ids[p] \in Intersection(t, members)
    BY <2>5, InIntersection
  <2>7. PathBytes(beside, IdOf(pkgs)[p]) = p
    BY <2>4, PathBytesAre
  <2>. QED  BY <1>3, <2>6, <2>7 DEF ids
<1>. QED  BY <1>15

----------------------------------------------------------------------------
(***************************************************************************)
(* The command sidecar: every provider has one number.                     *)
(***************************************************************************)
LEMMA ProvidersAre ==
  ASSUME NEW pkgs, ApartPackages(pkgs)
  PROVE  /\ DOMAIN Providers(pkgs) = 1 .. Len(Providers(pkgs)) /\ Len(Providers(pkgs)) \in Nat
         /\ IsInjective(Providers(pkgs))
         /\ \A x : x \in Range(Providers(pkgs)) <=> \E i \in DOMAIN pkgs : x = Provider(pkgs[i])
<1>. DEFINE n == Len(pkgs)
            V == {Provider(pkgs[i]) : i \in DOMAIN pkgs}
            g == [i \in DOMAIN pkgs |-> IF Known(pkgs, i) THEN <<>> ELSE <<Provider(pkgs[i])>>]
            f == FlattenSeq(g)
<1>1. Providers(pkgs) = f
  BY Zenon DEF Providers
<1>2. DOMAIN pkgs = 1 .. n /\ n \in Nat
  BY DEF ApartPackages
<1>3. \A i \in DOMAIN pkgs : Provider(pkgs[i]) \in V
  OBVIOUS
<1>v. \A x : x \in V <=> \E i \in DOMAIN pkgs : x = Provider(pkgs[i])
  OBVIOUS
<1>. HIDE DEF n, V
<1>4. ASSUME NEW i \in 1 .. n
      PROVE  /\ g[i] \in Seq(V)
             /\ \A k \in DOMAIN g[i] : k = 1 /\ g[i][k] = Provider(pkgs[i]) /\ ~Known(pkgs, i)
             /\ ~Known(pkgs, i) => 1 \in DOMAIN g[i] /\ g[i][1] = Provider(pkgs[i])
  <2>1. CASE ~Known(pkgs, i)
    <3>. DEFINE e == Provider(pkgs[i])
    <3>1. g[i] = <<e>> /\ e \in V
      BY <1>2, <1>3, <2>1
    <3>. HIDE DEF e, g
    <3>2. g[i] \in Seq(V) /\ DOMAIN g[i] = {1} /\ g[i][1] = e
      BY <3>1
    <3>. QED  BY <2>1, <3>2 DEF e
  <2>2. CASE Known(pkgs, i)
    <3>1. g[i] = << >>
      BY <1>2, <2>2
    <3>. HIDE DEF g
    <3>2. g[i] \in Seq(V) /\ DOMAIN g[i] = {}
      BY <3>1
    <3>. QED  BY <2>2, <3>2, ZenonT(60)
  <2>. QED  BY <2>1, <2>2
<1>d. g \in [1 .. n -> Seq(V)]
  BY <1>2, <1>4
<1>. HIDE DEF g
<1>5. f \in Seq(V)
  BY <1>2, <1>d, FlattenType
<1>6. IsInjective(f)
  <2>1. ASSUME NEW i \in 1 .. n, NEW j \in 1 .. n, NEW k \in DOMAIN g[i], NEW l \in DOMAIN g[j], g[i][k] = g[j][l]
        PROVE  i = j /\ k = l
    <3>1. k = 1 /\ l = 1 /\ Provider(pkgs[i]) = Provider(pkgs[j]) /\ ~Known(pkgs, i) /\ ~Known(pkgs, j)
      BY <1>4, <2>1, Zenon
    <3>2. ~(i < j)
      <4>1. SUFFICES ASSUME i < j PROVE FALSE
        OBVIOUS
      <4>2. i \in 1 .. j - 1
        BY <1>2, <4>1
      <4>. QED  BY <3>1, <4>2, Zenon DEF Known
    <3>3. ~(j < i)
      <4>1. SUFFICES ASSUME j < i PROVE FALSE
        OBVIOUS
      <4>2. j \in 1 .. i - 1
        BY <1>2, <4>1
      <4>. QED  BY <3>1, <4>2, Zenon DEF Known
    <3>. QED  BY <1>2, <3>1, <3>2, <3>3
  <2>2. \A i, j \in 1 .. n : \A k \in DOMAIN g[i], l \in DOMAIN g[j] : g[i][k] = g[j][l] => i = j /\ k = l
    BY <2>1, Zenon
  <2>. QED  BY <2>2, <1>2, <1>d, FlatApart
<1>7. ASSUME NEW x PROVE x \in Range(f) <=> \E i \in DOMAIN pkgs : x = Provider(pkgs[i])
  <2>1. x \in Range(f) <=> \E i \in 1 .. n : x \in Range(g[i])
    BY <1>2, <1>d, FlatMembers
  <2>2. ASSUME NEW i \in 1 .. n, x \in Range(g[i]) PROVE x = Provider(pkgs[i])
    BY <1>4, <2>2, Zenon DEF Range
  <2>3. ASSUME NEW i \in 1 .. n, x = Provider(pkgs[i]) PROVE \E j \in 1 .. n : x \in Range(g[j])
    <3>. DEFINE I == {j \in 1 .. n : x = Provider(pkgs[j])}
    <3>1. PICK j \in I : \A k \in I : j <= k
      <4>1. I \subseteq Nat /\ I # {}
        BY <1>2, <2>3
      <4>. HIDE DEF I
      <4>. QED  BY <4>1, Smallest
    <3>2. j \in 1 .. n /\ x = Provider(pkgs[j]) /\ \A k \in 1 .. j - 1 : Provider(pkgs[k]) # x
      BY <1>2, <3>1
    <3>3. ~Known(pkgs, j)
      BY <3>2, Zenon DEF Known
    <3>4. x \in Range(g[j])
      BY <1>4, <3>2, <3>3, Zenon DEF Range
    <3>. QED  BY <3>2, <3>4
  <2>. QED  BY <1>2, <2>1, <2>2, <2>3
<1>. HIDE DEF f
<1>8. DOMAIN f = 1 .. Len(f) /\ Len(f) \in Nat
  BY <1>5
<1>. QED  BY <1>1, <1>6, <1>7, <1>8

Provides(pkg, c) == \E p \in PathsOf(pkg) : IsCommand(p) /\ BasenameOf(p) = c

\* The list of a command: the numbers of the providers with a package that has it.
LEMMA CommandListed ==
  ASSUME NEW pkgs, ApartPackages(pkgs), NEW files,
         files.postings = CommandFiles(pkgs).postings, files.fst = CommandFiles(pkgs).fst, NEW t
  PROVE  /\ IsInjective(List(files, t))
         /\ \A n : n \in Range(List(files, t)) <=>
              \E k \in DOMAIN Providers(pkgs) : n = k - 1 /\
                \E j \in DOMAIN pkgs : Provides(pkgs[j], t) /\ Provider(pkgs[j]) = Providers(pkgs)[k]
<1>. DEFINE known == Providers(pkgs)
            A == AllPaths(pkgs)
            C == {BasenameOf(p) : p \in {q \in A : IsCommand(q)}}
            with(c) == {i - 1 : i \in {k \in DOMAIN known :
                         \E j \in DOMAIN pkgs : Provides(pkgs[j], c) /\ Provider(pkgs[j]) = known[k]}}
            m == [c \in C |-> Ascending(with(c))]
            file == Postings(m)
            l == Len(known)
<1>1. files.postings = file.raw /\ files.fst = file.fst
  <2>1. CommandFiles(pkgs) = [providers |-> known, postings |-> file.raw, fst |-> file.fst]
    BY Zenon DEF CommandFiles, Provides
  <2>. HIDE DEF file
  <2>. QED  BY <2>1
<1>2. DOMAIN known = 1 .. l /\ l \in Nat
  BY ProvidersAre
<1>3. IsFiniteSet(A) /\ A \subseteq Seq(Int)
  BY PathsFinite, Zenon
<1>4. \A c : c \in C <=> \E p \in A : IsCommand(p) /\ BasenameOf(p) = c
  OBVIOUS
<1>. HIDE DEF C, known, l
<1>5. IsFiniteSet(C) /\ C \subseteq Seq(Int)
  <2>. DEFINE f == [p \in A |-> BasenameOf(p)]
  <2>1. DOMAIN f = A /\ f = [p \in DOMAIN f |-> f[p]] /\ \A p \in A : f[p] = BasenameOf(p)
    OBVIOUS
  <2>. HIDE DEF f, A
  <2>2. IsFiniteSet(Range(f))
    BY <1>3, <2>1, FiniteImage
  <2>3. ASSUME NEW c \in C PROVE c \in Range(f) /\ c \in Seq(Int)
    <3>1. PICK p \in A : BasenameOf(p) = c
      BY <1>4
    <3>2. p \in DOMAIN f /\ f[p] = c /\ p \in Seq(Int)
      BY <1>3, <2>1, <3>1
    <3>3. c \in Range(f)
      BY <3>2, Zenon DEF Range
    <3>. QED  BY <3>1, <3>2, <3>3, BasenameIs
  <2>4. C \subseteq Range(f)
    BY <2>3
  <2>. QED  BY <2>2, <2>3, <2>4, FS_Subset
<1>6. ASSUME NEW c
      PROVE  /\ IsFiniteSet(with(c)) /\ with(c) \subseteq Int /\ with(c) \subseteq Nat
             /\ \A n : n \in with(c) <=>
                  \E k \in DOMAIN known : n = k - 1 /\
                    \E j \in DOMAIN pkgs : Provides(pkgs[j], c) /\ Provider(pkgs[j]) = known[k]
  <2>. DEFINE W == with(c)
  <2>1. \A n : n \in W <=>
          \E k \in DOMAIN known : n = k - 1 /\
            \E j \in DOMAIN pkgs : Provides(pkgs[j], c) /\ Provider(pkgs[j]) = known[k]
    OBVIOUS
  <2>. HIDE DEF W
  <2>2. \A x \in W : \E k \in 1 .. l : x = k - 1
    BY <1>2, <2>1
  <2>3. \A x \in W : x \in Nat /\ x <= l
    BY <1>2, <2>2
  <2>4. W \in SUBSET Nat /\ W \subseteq Int
    BY <2>3
  <2>5. IsFiniteSet(W)
    BY <1>2, <2>3, <2>4, FS_BoundedSetOfNaturals
  <2>. QED  BY <2>1, <2>4, <2>5 DEF W
<1>7. DOMAIN m = C /\ \A c \in C : m[c] = Ascending(with(c))
  OBVIOUS
<1>. HIDE DEF m, with
<1>8. ASSUME NEW c
      PROVE  /\ Ascending(with(c)) \in Seq(Nat) /\ Range(Ascending(with(c))) = with(c)
             /\ IsInjective(Ascending(with(c)))
  <2>. DEFINE W == with(c)
              s == Ascending(W)
  <2>1. IsFiniteSet(W) /\ W \subseteq Int /\ W \subseteq Nat
    BY <1>6
  <2>. HIDE DEF W
  <2>2. Ranked(W, Numbers, s)
    BY <2>1, NumbersRanked
  <2>. HIDE DEF s
  <2>3. s \in Seq(W) /\ Range(s) = W /\ IsInjective(s)
    BY <2>2, Zenon DEF Ranked
  <2>4. s \in Seq(Nat)
    <3>1. s \in [1 .. Len(s) -> W] /\ Len(s) \in Nat
      BY <2>3
    <3>2. s \in [1 .. Len(s) -> Nat]
      BY <2>1, <3>1
    <3>. QED  BY <3>1, <3>2
  <2>. QED  BY <2>3, <2>4 DEF W, s
<1>9. HasPostings(files, m)
  BY <1>1, Zenon DEF HasPostings
<1>. HIDE DEF file
<1>10. IsMap(m, Nat)
  <2>1. \A c \in DOMAIN m : m[c] \in Seq(Nat)
    BY <1>7, <1>8
  <2>. QED  BY <1>5, <1>7, <2>1 DEF IsMap
<1>11. Lists(files, m)
  BY <1>9, <1>10, ListIs, Zenon
<1>12. CASE t \in C
  <2>1. List(files, t) = Ascending(with(t))
    BY <1>7, <1>11, <1>12, Zenon DEF Lists
  <2>2. Range(List(files, t)) = with(t) /\ IsInjective(List(files, t))
    BY <1>8, <2>1
  <2>. QED  BY <1>6, <2>2 DEF known
<1>13. CASE t \notin C
  <2>. DEFINE L == List(files, t)
  <2>1. L = << >>
    BY <1>7, <1>11, <1>13, Zenon DEF Lists
  <2>. HIDE DEF L
  <2>2. DOMAIN L = {}
    BY <2>1
  <2>3. IsInjective(L) /\ \A n : n \notin Range(L)
    BY <2>2, Zenon DEF IsInjective, Range
  <2>4. ASSUME NEW j \in DOMAIN pkgs PROVE ~Provides(pkgs[j], t)
    <3>1. \A p \in PathsOf(pkgs[j]) : p \in A
      BY PathsFinite, Zenon
    <3>. QED  BY <1>4, <1>13, <3>1, Zenon DEF Provides
  <2>. QED  BY <2>3, <2>4, Zenon DEF L, known
<1>. QED  BY <1>12, <1>13

\* What its lookup answers.
LEMMA CommandAnswers ==
  ASSUME NEW pkgs, ApartPackages(pkgs), NEW files,
         files.providers = CommandFiles(pkgs).providers,
         files.postings = CommandFiles(pkgs).postings, files.fst = CommandFiles(pkgs).fst,
         NEW t \in Seq(Int), t # <<>>
  PROVE  /\ Range(LookupCommand(files, t)) =
              {Provider(pkg) : pkg \in {q \in Range(pkgs) : \E bin \in Bins : IsName(t) /\ bin \o t \in PathsOf(q)}}
         /\ IsInjective(LookupCommand(files, t))
<1>. DEFINE known == Providers(pkgs)
            L == List(files, t)
            F == LookupCommand(files, t)
<1>1. files.providers = known
  BY DEF CommandFiles
<1>2. F = [i \in DOMAIN L |-> files.providers[L[i] + 1]]
  BY Zenon DEF LookupCommand
<1>3. /\ IsInjective(L)
      /\ \A n : n \in Range(L) <=>
           \E k \in DOMAIN known : n = k - 1 /\
             \E j \in DOMAIN pkgs : Provides(pkgs[j], t) /\ Provider(pkgs[j]) = known[k]
  BY CommandListed, Zenon
<1>4. /\ DOMAIN known = 1 .. Len(known) /\ Len(known) \in Nat /\ IsInjective(known)
      /\ \A x : x \in Range(known) <=> \E i \in DOMAIN pkgs : x = Provider(pkgs[i])
  BY ProvidersAre
<1>. HIDE DEF known, L, F
<1>5. ASSUME NEW i \in DOMAIN L
      PROVE  /\ L[i] + 1 \in DOMAIN known /\ (L[i] + 1) - 1 = L[i] /\ F[i] = known[L[i] + 1]
             /\ \E j \in DOMAIN pkgs : Provides(pkgs[j], t) /\ Provider(pkgs[j]) = F[i]
  <2>1. L[i] \in Range(L)
    BY Zenon DEF Range
  <2>2. PICK k \in DOMAIN known : L[i] = k - 1 /\
          \E j \in DOMAIN pkgs : Provides(pkgs[j], t) /\ Provider(pkgs[j]) = known[k]
    BY <1>3, <2>1, Zenon
  <2>3. k \in Nat
    BY <1>4
  <2>4. L[i] + 1 = k /\ (L[i] + 1) - 1 = L[i]
    BY <2>2, <2>3
  <2>5. F[i] = known[L[i] + 1]
    BY <1>1, <1>2
  <2>. QED  BY <2>2, <2>4, <2>5
<1>6. DOMAIN F = DOMAIN L
  BY <1>2
<1>7. IsInjective(F)
  <2>1. ASSUME NEW i \in DOMAIN F, NEW j \in DOMAIN F, F[i] = F[j] PROVE i = j
    <3>1. i \in DOMAIN L /\ j \in DOMAIN L
      BY <1>6
    <3>2. known[L[i] + 1] = known[L[j] + 1] /\ L[i] + 1 \in DOMAIN known /\ L[j] + 1 \in DOMAIN known
      BY <1>5, <2>1, <3>1
    <3>3. L[i] + 1 = L[j] + 1
      BY <1>4, <3>2, Zenon DEF IsInjective
    <3>4. L[i] = L[j]
      BY <1>5, <3>1, <3>3
    <3>. QED  BY <1>3, <3>1, <3>4, Zenon DEF IsInjective
  <2>. QED  BY <2>1, Zenon DEF IsInjective
<1>8. ASSUME NEW x PROVE x \in Range(F) <=> \E j \in DOMAIN pkgs : Provides(pkgs[j], t) /\ x = Provider(pkgs[j])
  <2>1. ASSUME x \in Range(F) PROVE \E j \in DOMAIN pkgs : Provides(pkgs[j], t) /\ x = Provider(pkgs[j])
    <3>1. PICK i \in DOMAIN F : x = F[i]
      BY <2>1, Zenon DEF Range
    <3>. QED  BY <1>5, <1>6, <3>1
  <2>2. ASSUME NEW j \in DOMAIN pkgs, Provides(pkgs[j], t), x = Provider(pkgs[j]) PROVE x \in Range(F)
    <3>1. x \in Range(known)
      BY <1>4, <2>2
    <3>2. PICK k \in DOMAIN known : known[k] = x
      BY <3>1, Zenon DEF Range
    <3>3. k - 1 \in Range(L)
      BY <1>3, <2>2, <3>2, Zenon
    <3>4. PICK i \in DOMAIN L : L[i] = k - 1
      BY <3>3, Zenon DEF Range
    <3>5. L[i] + 1 = k
      BY <1>4, <3>4
    <3>6. F[i] = x
      BY <1>5, <3>2, <3>5
    <3>. QED  BY <1>6, <3>6, Zenon DEF Range
  <2>. QED  BY <2>1, <2>2
<1>9. ASSUME NEW pkg \in Range(pkgs)
      PROVE  Provides(pkg, t) <=> \E bin \in Bins : IsName(t) /\ bin \o t \in PathsOf(pkg)
  <2>1. PICK j \in DOMAIN pkgs : pkgs[j] = pkg
    BY Zenon DEF Range
  <2>2. ASSUME NEW p \in PathsOf(pkg)
        PROVE  IsCommand(p) /\ BasenameOf(p) = t <=> \E bin \in Bins : IsName(t) /\ p = bin \o t
    <3>1. p \in Seq(Int)
      BY <2>1, PathsFinite
    <3>. QED  BY <3>1, CommandIs
  <2>3. Provides(pkg, t) <=> \E p \in PathsOf(pkg) : \E bin \in Bins : IsName(t) /\ p = bin \o t
    BY <2>2, Zenon DEF Provides
  <2>. QED  BY <2>3, Zenon
<1>10. Range(F) = {Provider(pkg) : pkg \in {q \in Range(pkgs) : \E bin \in Bins : IsName(t) /\ bin \o t \in PathsOf(q)}}
  <2>. DEFINE Q == {q \in Range(pkgs) : \E bin \in Bins : IsName(t) /\ bin \o t \in PathsOf(q)}
  <2>1. \A q : q \in Q <=> \E j \in DOMAIN pkgs : q = pkgs[j] /\ Provides(q, t)
    <3>1. \A q : q \in Q <=> q \in Range(pkgs) /\ Provides(q, t)
      BY <1>9
    <3>2. \A q : q \in Range(pkgs) <=> \E j \in DOMAIN pkgs : q = pkgs[j]
      BY Zenon DEF Range
    <3>. HIDE DEF Q
    <3>. QED  BY <3>1, <3>2, Zenon
  <2>. HIDE DEF Q
  <2>2. \A x : x \in Range(F) <=> \E q \in Q : x = Provider(q)
    BY <1>8, <2>1, Zenon
  <2>3. Range(F) = {Provider(q) : q \in Q}
    BY <2>2
  <2>. QED  BY <2>3 DEF Q
<1>. QED  BY <1>7, <1>10 DEF F

----------------------------------------------------------------------------
(***************************************************************************)
(* What a sidecar of the build answers when it is looked up.               *)
(***************************************************************************)

\* A path that is looked up has a slash in front.
LEMMA SlashBefore ==
  ASSUME NEW t \in Seq(Int)
  PROVE  <<Slash>> \o t \in Seq(Int) /\ <<Slash>> \o t # <<>>
<1>1. <<Slash>> \in Seq(Int) /\ Len(<<Slash>>) = 1
  BY DEF Slash
<1>2. Len(<<Slash>> \o t) = 1 + Len(t) /\ Len(t) \in Nat /\ <<Slash>> \o t \in Seq(Int)
  BY <1>1
<1>3. Len(<<Slash>> \o t) # 0
  BY <1>2
<1>. QED  BY <1>2, <1>3

\* The answers of the basename sidecar,
LEMMA AnswersBasename ==
  ASSUME ApartPackages(built.packages), NEW files,
         files.names = BasenameFiles(built.packages).names,
         files.postings = BasenameFiles(built.packages).postings,
         files.fst = BasenameFiles(built.packages).fst,
         NEW t \in Seq(Int), t # <<>>
  PROVE  Answers("basename", files, t)
<1>1. /\ LookupLabels(files, t) = [i \in DOMAIN List(files, t) |-> Package(built.packages, List(files, t)[i]).label]
      /\ Range(List(files, t)) = {n \in Ordinals(built.packages) : \E p \in PathsOf(Package(built.packages, n)) : HasName(p, t)}
      /\ BasenamePrefix(files, t) =
           {n \in Ordinals(built.packages) : \E p \in PathsOf(Package(built.packages, n)) : Starts(BasenameOf(p), t)}
  BY BasenameAnswers
<1>. QED  BY <1>1, Zenon DEF Answers

\* of the path sidecar,
LEMMA AnswersPath ==
  ASSUME ApartPackages(built.packages), NEW files,
         files.postings = PathFiles(built.packages).postings,
         files.fst = PathFiles(built.packages).fst,
         NEW t \in Seq(Int)
  PROVE  Answers("path", files, t)
<1>. DEFINE u == <<Slash>> \o t
<1>0. u \in Seq(Int) /\ u # <<>>
  BY SlashBefore
<1>. HIDE DEF u
<1>1. /\ Range(List(files, u)) = {n \in Ordinals(built.packages) : \E p \in PathsOf(Package(built.packages, n)) : p = u}
      /\ PathPrefix(files, u) = {n \in Ordinals(built.packages) : \E p \in PathsOf(Package(built.packages, n)) : Starts(p, u)}
  BY <1>0, PathAnswers
<1>. QED  BY <1>1, Zenon DEF Answers, u

\* of the entry sidecar,
LEMMA AnswersEntry ==
  ASSUME ApartPackages(built.packages), NEW files,
         files.store_paths = EntryFiles(built.packages).store_paths,
         files.postings = EntryFiles(built.packages).postings,
         files.fst = EntryFiles(built.packages).fst,
         NEW t \in Seq(Int), t # <<>>
  PROVE  Answers("entry", files, t)
<1>1. /\ Range(LookupEntries(files, t)) =
           UNION {{[store_path |-> built.packages[i].store_path, path |-> e.path, node |-> e.node] :
                        e \in {x \in Range(built.packages[i].entries) : HasName(x.path, t)}} : i \in DOMAIN built.packages}
      /\ IsInjective(LookupEntries(files, t))
  BY EntryAnswers
<1>. QED  BY <1>1, Zenon DEF Answers

\* of the path_entry sidecar,
LEMMA AnswersPathEntry ==
  ASSUME ApartPackages(built.packages), NEW files,
         files.store_paths = PathEntryFiles(built.packages).store_paths,
         files.entries = PathEntryFiles(built.packages).entries,
         files.fst = PathEntryFiles(built.packages).fst,
         files.strings = PathEntryFiles(built.packages).strings,
         files.offsets = PathEntryFiles(built.packages).offsets,
         NEW t \in Seq(Int)
  PROVE  Answers("path_entry", files, t)
<1>. DEFINE u == <<Slash>> \o t
<1>0. u \in Seq(Int) /\ u # <<>>
  BY SlashBefore
<1>. HIDE DEF u
<1>1. /\ Range(PathEntries(files, u)) =
           UNION {{[store_path |-> built.packages[i].store_path, path |-> e.path, node |-> e.node] :
                        e \in {x \in Range(built.packages[i].entries) : x.path = u}} : i \in DOMAIN built.packages}
      /\ IsInjective(PathEntries(files, u))
  BY <1>0, PathEntryAnswers
<1>. QED  BY <1>1, Zenon DEF Answers, u

\* of the ngram sidecar,
LEMMA AnswersNgram ==
  ASSUME ApartPackages(built.packages), NEW files,
         files.postings = NgramFiles(built.packages).postings,
         files.fst = NgramFiles(built.packages).fst,
         NEW t \in Seq(Int)
  PROVE  Answers("ngram", files, t)
<1>1. Len(t) >= Gram =>
        {n \in Ordinals(built.packages) : \E p \in PathsOf(Package(built.packages, n)) : Occurs(t, p)} \subseteq CandidateOrdinals(files, t)
  BY NgramAnswers
<1>. QED  BY <1>1, Zenon DEF Answers

\* of the command sidecar,
LEMMA AnswersCommand ==
  ASSUME ApartPackages(built.packages), NEW files,
         files.providers = CommandFiles(built.packages).providers,
         files.postings = CommandFiles(built.packages).postings,
         files.fst = CommandFiles(built.packages).fst,
         NEW t \in Seq(Int), t # <<>>
  PROVE  Answers("command", files, t)
<1>1. /\ Range(LookupCommand(files, t)) =
           {Provider(pkg) : pkg \in {q \in Range(built.packages) :
              \E bin \in Bins : IsName(t) /\ bin \o t \in PathsOf(q)}}
      /\ IsInjective(LookupCommand(files, t))
  BY CommandAnswers
<1>. QED  BY <1>1, Zenon DEF Answers

\* of the path_trigram sidecar, with a path_entry sidecar of the same regeneration,
LEMMA AnswersPathTrigram ==
  ASSUME ApartPackages(built.packages), NEW files,
         files.postings = PathTrigramFiles(built.packages).postings, files.fst = PathTrigramFiles(built.packages).fst,
         ({"path_entry"} \X Range(FilesOf["path_entry"])) \subseteq fresh =>
           /\ stored.path_entry.strings = PathEntryFiles(built.packages).strings
           /\ stored.path_entry.offsets = PathEntryFiles(built.packages).offsets,
         NEW t \in Seq(Int)
  PROVE  Answers("path_trigram", files, t)
<1>1. ASSUME Len(t) >= Gram, ({"path_entry"} \X Range(FilesOf["path_entry"])) \subseteq fresh
      PROVE  {p \in AllPaths(built.packages) : Occurs(t, p)}
                \subseteq {PathBytes(stored.path_entry, id) : id \in CandidatePaths(files, t)}
  <2>. DEFINE beside == stored.path_entry
  <2>1. beside.strings = PathEntryFiles(built.packages).strings /\ beside.offsets = PathEntryFiles(built.packages).offsets
    BY <1>1, Zenon
  <2>. HIDE DEF beside
  <2>2. {p \in AllPaths(built.packages) : Occurs(t, p)} \subseteq {PathBytes(beside, id) : id \in CandidatePaths(files, t)}
    BY <1>1, <2>1, PathTrigramAnswers
  <2>. QED  BY <2>2 DEF beside
<1>. QED  BY <1>1, Zenon DEF Answers

\* and of the frame map.
LEMMA AnswersFrameMap ==
  ASSUME ApartPackages(built.packages), NEW files, files.map = Numbering, NEW t
  PROVE  Answers("frame_map", files, t)
<1>1. ASSUME NEW n \in Ordinals(built.packages) PROVE files.map[n + 1] = FrameNumber(version, n + 1)
  <2>1. n + 1 \in DOMAIN built.packages
    BY PackageNumbered
  <2>. QED  BY <2>1, Zenon DEF Numbering
<1>. QED  BY <1>1, Zenon DEF Answers

\* A sidecar all of whose files are of this regeneration, or of the build, is that of the packages of the build.
LEMMA WholeIs ==
  ASSUME Indexed, WrittenSoFar, NEW s, Whole(s)
  PROVE  /\ s \in DOMAIN FilesOf =>
              \A j \in DOMAIN FilesOf[s] : stored[s][FilesOf[s][j]] = Contents(s)[FilesOf[s][j]]
         /\ s \notin DOMAIN FilesOf => stored[s] = Contents(s)
<1>1. CASE s \in DOMAIN FilesOf /\ {s} \X Range(FilesOf[s]) \subseteq fresh
  <2>1. ASSUME NEW j \in DOMAIN FilesOf[s] PROVE stored[s][FilesOf[s][j]] = Contents(s)[FilesOf[s][j]]
    <3>. DEFINE f == FilesOf[s][j]
                w == <<s, f>>
    <3>1. f \in Range(FilesOf[s])
      BY Zenon DEF Range
    <3>. HIDE DEF f
    <3>2. w \in {s} \X Range(FilesOf[s])
      BY <3>1
    <3>3. w \in fresh /\ w[1] = s /\ w[2] = f
      BY <1>1, <3>2
    <3>. HIDE DEF w
    <3>4. AsBuilt(w)
      BY <3>3, Zenon DEF WrittenSoFar
    <3>5. stored[s][f] = Contents(s)[f]
      BY <3>3, <3>4, Zenon DEF AsBuilt
    <3>. QED  BY <3>5 DEF f
  <2>. QED  BY <1>1, <2>1
<1>2. CASE s \in DOMAIN built.own /\ stored[s] = built.own[s]
  <2>1. stored[s] = Contents(s)
    BY <1>2, OwnContents
  <2>. QED  BY <2>1, Zenon
<1>. QED  BY <1>1, <1>2, Zenon DEF Whole

\* Its files, for the basename sidecar,
LEMMA BasenameStored ==
  ASSUME Indexed, WrittenSoFar, Whole("basename")
  PROVE  /\ stored["basename"].names = BasenameFiles(built.packages).names
         /\ stored["basename"].postings = BasenameFiles(built.packages).postings
         /\ stored["basename"].fst = BasenameFiles(built.packages).fst
<1>1. /\ "basename" \in DOMAIN FilesOf /\ DOMAIN FilesOf["basename"] = 1 .. 3
      /\ FilesOf["basename"][1] = "names"
      /\ FilesOf["basename"][2] = "postings"
      /\ FilesOf["basename"][3] = "fst"
  BY DEF FilesOf
<1>2. Contents("basename") = BasenameFiles(built.packages)
  BY Zenon DEF Contents, Content
<1>3. \A j \in DOMAIN FilesOf["basename"] : stored["basename"][FilesOf["basename"][j]] = Contents("basename")[FilesOf["basename"][j]]
  BY <1>1, WholeIs, Zenon
<1>. DEFINE have == stored["basename"]
            want == Contents("basename")
            names == FilesOf["basename"]
<1>4. \A j \in 1 .. 3 : have[names[j]] = want[names[j]]
  BY <1>1, <1>3, Zenon
<1>5. want = BasenameFiles(built.packages)
  BY <1>2
<1>6. names[1] = "names" /\ names[2] = "postings" /\ names[3] = "fst"
  BY <1>1
<1>. HIDE DEF have, want, names
<1>. QED  BY <1>4, <1>5, <1>6 DEF have

\* the path sidecar,
LEMMA PathStored ==
  ASSUME Indexed, WrittenSoFar, Whole("path")
  PROVE  /\ stored["path"].postings = PathFiles(built.packages).postings
         /\ stored["path"].fst = PathFiles(built.packages).fst
<1>1. /\ "path" \in DOMAIN FilesOf /\ DOMAIN FilesOf["path"] = 1 .. 2
      /\ FilesOf["path"][1] = "postings"
      /\ FilesOf["path"][2] = "fst"
  BY DEF FilesOf
<1>2. Contents("path") = PathFiles(built.packages)
  BY Zenon DEF Contents, Content
<1>3. \A j \in DOMAIN FilesOf["path"] : stored["path"][FilesOf["path"][j]] = Contents("path")[FilesOf["path"][j]]
  BY <1>1, WholeIs, Zenon
<1>. DEFINE have == stored["path"]
            want == Contents("path")
            names == FilesOf["path"]
<1>4. \A j \in 1 .. 2 : have[names[j]] = want[names[j]]
  BY <1>1, <1>3, Zenon
<1>5. want = PathFiles(built.packages)
  BY <1>2
<1>6. names[1] = "postings" /\ names[2] = "fst"
  BY <1>1
<1>. HIDE DEF have, want, names
<1>. QED  BY <1>4, <1>5, <1>6 DEF have

\* the entry sidecar,
LEMMA EntryStored ==
  ASSUME Indexed, WrittenSoFar, Whole("entry")
  PROVE  /\ stored["entry"].store_paths = EntryFiles(built.packages).store_paths
         /\ stored["entry"].postings = EntryFiles(built.packages).postings
         /\ stored["entry"].fst = EntryFiles(built.packages).fst
<1>1. /\ "entry" \in DOMAIN FilesOf /\ DOMAIN FilesOf["entry"] = 1 .. 3
      /\ FilesOf["entry"][1] = "store_paths"
      /\ FilesOf["entry"][2] = "postings"
      /\ FilesOf["entry"][3] = "fst"
  BY DEF FilesOf
<1>2. Contents("entry") = EntryFiles(built.packages)
  BY Zenon DEF Contents, Content
<1>3. \A j \in DOMAIN FilesOf["entry"] : stored["entry"][FilesOf["entry"][j]] = Contents("entry")[FilesOf["entry"][j]]
  BY <1>1, WholeIs, Zenon
<1>. DEFINE have == stored["entry"]
            want == Contents("entry")
            names == FilesOf["entry"]
<1>4. \A j \in 1 .. 3 : have[names[j]] = want[names[j]]
  BY <1>1, <1>3, Zenon
<1>5. want = EntryFiles(built.packages)
  BY <1>2
<1>6. names[1] = "store_paths" /\ names[2] = "postings" /\ names[3] = "fst"
  BY <1>1
<1>. HIDE DEF have, want, names
<1>. QED  BY <1>4, <1>5, <1>6 DEF have

\* the path_trigram sidecar,
LEMMA PathTrigramStored ==
  ASSUME Indexed, WrittenSoFar, Whole("path_trigram")
  PROVE  /\ stored["path_trigram"].postings = PathTrigramFiles(built.packages).postings
         /\ stored["path_trigram"].fst = PathTrigramFiles(built.packages).fst
<1>1. /\ "path_trigram" \in DOMAIN FilesOf /\ DOMAIN FilesOf["path_trigram"] = 1 .. 2
      /\ FilesOf["path_trigram"][1] = "postings"
      /\ FilesOf["path_trigram"][2] = "fst"
  BY DEF FilesOf
<1>2. Contents("path_trigram") = PathTrigramFiles(built.packages)
  BY Zenon DEF Contents, Content
<1>3. \A j \in DOMAIN FilesOf["path_trigram"] : stored["path_trigram"][FilesOf["path_trigram"][j]] = Contents("path_trigram")[FilesOf["path_trigram"][j]]
  BY <1>1, WholeIs, Zenon
<1>. DEFINE have == stored["path_trigram"]
            want == Contents("path_trigram")
            names == FilesOf["path_trigram"]
<1>4. \A j \in 1 .. 2 : have[names[j]] = want[names[j]]
  BY <1>1, <1>3, Zenon
<1>5. want = PathTrigramFiles(built.packages)
  BY <1>2
<1>6. names[1] = "postings" /\ names[2] = "fst"
  BY <1>1
<1>. HIDE DEF have, want, names
<1>. QED  BY <1>4, <1>5, <1>6 DEF have

\* the path_entry sidecar
LEMMA PathEntryStored ==
  ASSUME Indexed, WrittenSoFar, Whole("path_entry")
  PROVE  /\ stored["path_entry"].store_paths = PathEntryFiles(built.packages).store_paths
         /\ stored["path_entry"].entries = PathEntryFiles(built.packages).entries
         /\ stored["path_entry"].fst = PathEntryFiles(built.packages).fst
         /\ stored["path_entry"].strings = PathEntryFiles(built.packages).strings
         /\ stored["path_entry"].offsets = PathEntryFiles(built.packages).offsets
<1>1. /\ "path_entry" \in DOMAIN FilesOf /\ DOMAIN FilesOf["path_entry"] = 1 .. 5
      /\ FilesOf["path_entry"][1] = "store_paths"
      /\ FilesOf["path_entry"][2] = "entries"
      /\ FilesOf["path_entry"][3] = "fst"
      /\ FilesOf["path_entry"][4] = "strings"
      /\ FilesOf["path_entry"][5] = "offsets"
  BY DEF FilesOf
<1>2. Contents("path_entry") = PathEntryFiles(built.packages)
  BY Zenon DEF Contents, Content
<1>3. \A j \in DOMAIN FilesOf["path_entry"] : stored["path_entry"][FilesOf["path_entry"][j]] = Contents("path_entry")[FilesOf["path_entry"][j]]
  BY <1>1, WholeIs, Zenon
<1>. DEFINE have == stored["path_entry"]
            want == Contents("path_entry")
            names == FilesOf["path_entry"]
<1>4. \A j \in 1 .. 5 : have[names[j]] = want[names[j]]
  BY <1>1, <1>3, Zenon
<1>5. want = PathEntryFiles(built.packages)
  BY <1>2
<1>6. names[1] = "store_paths" /\ names[2] = "entries" /\ names[3] = "fst" /\ names[4] = "strings" /\ names[5] = "offsets"
  BY <1>1
<1>. HIDE DEF have, want, names
<1>. QED  BY <1>4, <1>5, <1>6 DEF have

\* and the ngram sidecar.
LEMMA NgramStored ==
  ASSUME Indexed, WrittenSoFar, Whole("ngram")
  PROVE  /\ stored["ngram"].postings = NgramFiles(built.packages).postings
         /\ stored["ngram"].fst = NgramFiles(built.packages).fst
<1>1. /\ "ngram" \in DOMAIN FilesOf /\ DOMAIN FilesOf["ngram"] = 1 .. 2
      /\ FilesOf["ngram"][1] = "postings"
      /\ FilesOf["ngram"][2] = "fst"
  BY DEF FilesOf
<1>2. Contents("ngram") = NgramFiles(built.packages)
  BY Zenon DEF Contents, Content
<1>3. \A j \in DOMAIN FilesOf["ngram"] : stored["ngram"][FilesOf["ngram"][j]] = Contents("ngram")[FilesOf["ngram"][j]]
  BY <1>1, WholeIs, Zenon
<1>. DEFINE have == stored["ngram"]
            want == Contents("ngram")
            names == FilesOf["ngram"]
<1>4. \A j \in 1 .. 2 : have[names[j]] = want[names[j]]
  BY <1>1, <1>3, Zenon
<1>5. want = NgramFiles(built.packages)
  BY <1>2
<1>6. names[1] = "postings" /\ names[2] = "fst"
  BY <1>1
<1>. HIDE DEF have, want, names
<1>. QED  BY <1>4, <1>5, <1>6 DEF have

\* So a lookup in it answers for those packages.
LEMMA WholeAnswers ==
  ASSUME Indexed, WrittenSoFar, NEW s \in Sidecars, NEW t \in Texts, Whole(s)
  PROVE  Answers(s, stored[s], t)
<1>1. ApartPackages(built.packages)
  <2>1. input \in Inputs /\ built.packages = Kept(input)
    BY Zenon DEF Indexed
  <2>. QED  BY <2>1, KeptApart
<1>2. t \in Seq(Int) /\ t # <<>>
  BY LookupsAssumption
<1>3. \/ s = "basename" \/ s = "path" \/ s = "entry" \/ s = "path_trigram" \/ s = "path_entry" \/ s = "ngram"
      \/ s = "frame_map" \/ s = "command"
  BY DEF Sidecars, FilesOf
<1>4. CASE s = "basename"
  BY <1>1, <1>2, <1>4, BasenameStored, AnswersBasename
<1>5. CASE s = "path"
  BY <1>1, <1>2, <1>5, PathStored, AnswersPath
<1>6. CASE s = "entry"
  BY <1>1, <1>2, <1>6, EntryStored, AnswersEntry
<1>7. CASE s = "path_entry"
  BY <1>1, <1>2, <1>7, PathEntryStored, AnswersPathEntry
<1>8. CASE s = "path_trigram"
  <2>1. ({"path_entry"} \X Range(FilesOf["path_entry"])) \subseteq fresh =>
           /\ stored.path_entry.strings = PathEntryFiles(built.packages).strings
           /\ stored.path_entry.offsets = PathEntryFiles(built.packages).offsets
    <3>1. "path_entry" \in DOMAIN FilesOf
      BY DEF FilesOf
    <3>2. ({"path_entry"} \X Range(FilesOf["path_entry"])) \subseteq fresh => Whole("path_entry")
      BY <3>1, Zenon DEF Whole
    <3>. QED  BY <3>2, PathEntryStored, Zenon
  <2>. QED  BY <1>1, <1>2, <1>8, <2>1, PathTrigramStored, AnswersPathTrigram
<1>9. CASE s = "ngram"
  BY <1>1, <1>2, <1>9, NgramStored, AnswersNgram
<1>10. CASE s = "frame_map"
  <2>1. "frame_map" \in DOMAIN FilesOf /\ 1 \in DOMAIN FilesOf["frame_map"] /\ FilesOf["frame_map"][1] = "map"
    BY DEF FilesOf
  <2>2. stored["frame_map"]["map"] = Contents("frame_map")["map"]
    BY <1>10, <2>1, WholeIs, Zenon
  <2>3. Contents("frame_map") = [map |-> Numbering]
    BY Zenon DEF Contents, Content
  <2>. DEFINE have == stored["frame_map"]
              want == Contents("frame_map")
  <2>4. want.map = Numbering
    BY <2>3
  <2>5. have.map = Numbering
    BY <2>2, <2>4
  <2>. HIDE DEF have
  <2>6. Answers("frame_map", have, t)
    BY <1>1, <2>5, AnswersFrameMap
  <2>. QED  BY <2>6, <1>10 DEF have
<1>11. CASE s = "command"
  <2>1. "command" \notin DOMAIN FilesOf
    BY DEF FilesOf
  <2>2. stored["command"] = Contents("command")
    BY <1>11, <2>1, WholeIs, Zenon
  <2>3. Contents("command") = CommandFiles(built.packages)
    BY Zenon DEF Contents, Content
  <2>. DEFINE have == stored["command"]
  <2>4. have = CommandFiles(built.packages)
    BY <2>2, <2>3
  <2>. HIDE DEF have
  <2>5. have.providers = CommandFiles(built.packages).providers /\ have.postings = CommandFiles(built.packages).postings /\ have.fst = CommandFiles(built.packages).fst
    BY <2>4
  <2>6. Answers("command", have, t)
    BY <1>1, <1>2, <2>5, AnswersCommand
  <2>. QED  BY <2>6, <1>11 DEF have
<1>. QED  BY <1>3, <1>4, <1>5, <1>6, <1>7, <1>8, <1>9, <1>10, <1>11

(***************************************************************************)
(* Whatever was listed, however it was cut into frames and wherever a      *)
(* regeneration over other sidecars died: a lookup in a sidecar all of     *)
(* whose files it has written, or that is still the one of the build,      *)
(* answers for the packages of the build what their listings say, no       *)
(* package and no entry twice or missing, and the trigrams leave out       *)
(* nothing in which the text occurs.                                       *)
(***************************************************************************)
THEOREM RegenerationAnswers == RegenerationSpec => []SidecarsAnswer
<1>1. RegenerationInit => RegenerationInv /\ WrittenSoFar
  BY InitInv, NothingWritten
<1>2. RegenerationInv /\ WrittenSoFar /\ [RegenerationNext]_regeneration => RegenerationInv' /\ WrittenSoFar'
  BY StepInv, WrittenStep
<1>3. RegenerationInv /\ WrittenSoFar => SidecarsAnswer
  <2>1. SUFFICES ASSUME RegenerationInv, WrittenSoFar, NEW s \in Sidecars, NEW t \in Texts, Whole(s)
                 PROVE  Answers(s, stored[s], t)
    BY Zenon DEF SidecarsAnswer
  <2>2. Indexed
    BY <2>1, Zenon DEF RegenerationInv
  <2>. QED  BY <2>1, <2>2, WholeAnswers
<1>. QED  BY <1>1, <1>2, <1>3, PTL DEF RegenerationSpec
============================================================================
