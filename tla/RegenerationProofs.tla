------------------------ MODULE RegenerationProofs -------------------------
(***************************************************************************)
(* What a regeneration reads and writes, for every input.  A frame that    *)
(* the writer encoded has a chart (FrameCharts): the text it decodes to,   *)
(* with the place of each line in both.  From the chart each step of the   *)
(* decoder and of the scan is followed, whatever pieces the input comes in *)
(* and wherever the buffer is full; and what the writer encodes has one,   *)
(* by induction over its lines and its packages.                           *)
(* Then the files that are written: they are those of the build.           *)
(***************************************************************************)
EXTENDS FrameCharts, FiniteSetTheorems, SequenceTheorems, WellFoundedInduction, TLAPS

(***************************************************************************)
(* Numbers, and differences.                                               *)
(***************************************************************************)

\* Division with remainder by b.
LEMMA Divides ==
  ASSUME NEW x \in Int, NEW b \in Nat \ {0}
  PROVE  x \div b \in Int /\ x % b \in 0 .. b - 1 /\ x = b * (x \div b) + (x % b)
BY SMT

\* A number that is written with a remainder is divided as that.
LEMMA Quotient ==
  ASSUME NEW b \in Nat \ {0}, NEW q \in Int, NEW r \in 0 .. b - 1
  PROVE  (q * b + r) \div b = q /\ (q * b + r) % b = r
<1>. DEFINE x == q * b + r
<1>1. x \in Int /\ x = b * (x \div b) + (x % b) /\ x % b \in 0 .. b - 1 /\ x \div b \in Int
  BY SMT
<1>. DEFINE y == x \div b
            z == x % b
<1>. HIDE DEF y, z
<1>2. b * (q - y) = z - r
  BY <1>1 DEF y, z
<1>3. CASE q - y >= 1
  <2>1. b * (q - y) >= b
    BY <1>1, <1>3 DEF y, z
  <2>. QED BY <2>1, <1>1, <1>2 DEF y, z
<1>4. CASE q - y <= -1
  <2>1. b * (q - y) <= -b
    BY <1>1, <1>4 DEF y, z
  <2>. QED BY <2>1, <1>1, <1>2 DEF y, z
<1>5. CASE q = y
  BY <1>1, <1>2, <1>5 DEF y, z
<1>. QED BY <1>1, <1>3, <1>4, <1>5 DEF y, z

\* The bytes of the separators and of the marker.
LEMMA Bytes ==
  /\ Base \in Nat /\ Base > 3 /\ Marker \in Nat /\ Base = 2 * Marker /\ Marker >= 2
  /\ Nul = 0 /\ Newline = Base - 1 /\ MaxI8 = Marker - 1
  /\ Base * Base \in Nat /\ MaxI16 \in Nat /\ 2 * MaxI16 = Base * Base - 2
  /\ Nul \in Int /\ Newline \in Int /\ Nul # Newline
<1>1. Base \in Nat /\ Base > 3 /\ Base % 2 = 0
  BY CodingAssumption
<1>2. Base = 2 * (Base \div 2) /\ Base \div 2 \in Nat
  BY <1>1, SMT
<1>3. Marker \in Nat /\ Base = 2 * Marker /\ Marker >= 2
  BY <1>1, <1>2 DEF Marker
<1>4. (Marker * Base) * 2 + 0 = Base * Base /\ Marker * Base \in Int /\ Marker * Base >= 2
  <2>1. Marker * Base \in Nat /\ Marker * Base >= Marker
    BY <1>1, <1>3
  <2>2. (Marker * Base) * 2 = (2 * Marker) * Base
    BY <1>1, <1>3
  <2>. QED  BY <1>1, <1>3, <2>1, <2>2
<1>5. (Base * Base) \div 2 = Marker * Base
  <2>1. 2 \in Nat \ {0} /\ 0 \in 0 .. 2 - 1
    OBVIOUS
  <2>2. ((Marker * Base) * 2 + 0) \div 2 = Marker * Base
    BY <1>4, <2>1, Quotient
  <2>. QED  BY <1>4, <2>2
<1>6. MaxI16 = Marker * Base - 1
  BY <1>5 DEF MaxI16
<1>. QED  BY <1>1, <1>3, <1>4, <1>6 DEF Nul, Newline, MaxI8, Marker

(***************************************************************************)
(* The differences, round trip: EncodeDiff writes every difference of two  *)
(* shared lengths, in one byte or in three, so that decode finds the bytes *)
(* wherever they stand and reads the same difference.                      *)
(***************************************************************************)
THEOREM DiffDecodes ==
  ASSUME NEW d \in Int, -MaxI16 <= d, d <= MaxI16
  PROVE  /\ EncodeDiff(d) \in Seq(Int) /\ Len(EncodeDiff(d)) >= 1
         /\ \A s \in Seq(Int), k \in Nat :
              /\ k + Len(EncodeDiff(d)) <= Len(s)
              /\ \A i \in 1 .. Len(EncodeDiff(d)) : s[k + i] = EncodeDiff(d)[i]
              => /\ HasDiff(s, k + 1) /\ DecodeDiff(s, k + 1) = d
                 /\ DiffLen(s, k + 1) = Len(EncodeDiff(d))
<1>. DEFINE W == Base * Base
            e == EncodeDiff(d)
<1>1. /\ Base \in Nat /\ Base > 3 /\ Marker \in Nat /\ Base = 2 * Marker /\ Marker >= 2
      /\ MaxI8 = Marker - 1 /\ W \in Nat /\ MaxI16 \in Nat /\ 2 * MaxI16 = W - 2
  BY Bytes
<1>2. CASE -MaxI8 < d /\ d < MaxI8
  <2>1. e = <<d % Base>>
    BY <1>2, Zenon DEF EncodeDiff
  <2>2. d % Base = IF d >= 0 THEN d ELSE d + Base
    <3>1. CASE d >= 0
      <4>1. Base \in Nat \ {0} /\ 0 \in Int /\ d \in 0 .. Base - 1 /\ 0 * Base + d = d
        BY <1>1, <1>2, <3>1
      <4>2. (0 * Base + d) % Base = d
        BY <4>1, Quotient
      <4>. QED  BY <3>1, <4>1, <4>2
    <3>2. CASE d < 0
      <4>1. Base \in Nat \ {0} /\ -1 \in Int /\ d + Base \in 0 .. Base - 1 /\ (-1) * Base + (d + Base) = d
        BY <1>1, <1>2, <3>2
      <4>2. ((-1) * Base + (d + Base)) % Base = d + Base
        BY <4>1, Quotient
      <4>. QED  BY <3>2, <4>1, <4>2
    <3>. QED  BY <3>1, <3>2
  <2>. DEFINE x == d % Base
  <2>. HIDE DEF x, e
  <2>3. x \in Int /\ x # Marker /\ Signed(x, Base) = d
    BY <1>1, <1>2, <2>2 DEF x, Signed
  <2>4. e = <<x>>
    BY <2>1 DEF x
  <2>5. e \in Seq(Int) /\ Len(e) = 1 /\ e[1] = x
    BY <2>3, <2>4
  <2>6. ASSUME NEW s \in Seq(Int), NEW k \in Nat, k + Len(e) <= Len(s),
               \A i \in 1 .. Len(e) : s[k + i] = e[i]
        PROVE  HasDiff(s, k + 1) /\ DecodeDiff(s, k + 1) = d /\ DiffLen(s, k + 1) = Len(e)
    <3>1. s[k + 1] = x /\ k + 1 <= Len(s)
      BY <2>5, <2>6
    <3>2. s[k + 1] # Marker
      BY <2>3, <3>1
    <3>3. DecodeDiff(s, k + 1) = Signed(s[k + 1], Base) /\ DiffLen(s, k + 1) = 1
      BY <3>2, Zenon DEF DecodeDiff, DiffLen
    <3>4. HasDiff(s, k + 1)
      BY <3>1, <3>2, Zenon DEF HasDiff
    <3>. QED  BY <2>3, <2>5, <3>1, <3>3, <3>4
  <2>7. Len(e) >= 1
    BY <2>5
  <2>. QED  BY <2>5, <2>6, <2>7, Zenon DEF e
<1>3. CASE ~(-MaxI8 < d /\ d < MaxI8)
  <2>1. e = <<Marker, (d % W) \div Base, d % Base>>
    BY <1>3, Zenon DEF EncodeDiff
  <2>. DEFINE x == IF d >= 0 THEN d ELSE d + W
  <2>2. x \in Nat /\ x < W /\ d % W = x
    <3>1. x \in Nat /\ x < W
      BY <1>1
    <3>2. CASE d >= 0
      <4>1. W \in Nat \ {0} /\ 0 \in Int /\ x \in 0 .. W - 1 /\ 0 * W + x = d
        BY <1>1, <3>1, <3>2
      <4>. HIDE DEF W
      <4>. QED  BY <3>1, <4>1, Quotient
    <3>3. CASE d < 0
      <4>1. W \in Nat \ {0} /\ -1 \in Int /\ x \in 0 .. W - 1 /\ (-1) * W + x = d
        BY <1>1, <3>1, <3>3
      <4>. HIDE DEF W, x
      <4>. QED  BY <3>1, <4>1, Quotient
    <3>. QED  BY <3>1, <3>2, <3>3
  <2>. DEFINE hi == x \div Base
              lo == x % Base
  <2>3. hi \in Int /\ lo \in 0 .. Base - 1 /\ x = Base * hi + lo
    <3>. HIDE DEF x, W
    <3>1. x \in Int /\ Base \in Nat \ {0}
      BY <1>1, <2>2
    <3>. QED  BY <3>1, Divides
  <2>4. d % Base = lo
    <3>1. d = (IF d >= 0 THEN hi ELSE hi - Base) * Base + lo
      <4>. HIDE DEF hi, lo
      <4>1. CASE d >= 0
        BY <1>1, <2>2, <2>3, <4>1
      <4>2. CASE d < 0
        <5>1. d = x - Base * Base
          BY <4>2, <1>1
        <5>. HIDE DEF x
        <5>. QED  BY <1>1, <2>2, <2>3, <4>2, <5>1
      <4>. QED  BY <4>1, <4>2
    <3>. DEFINE q == IF d >= 0 THEN hi ELSE hi - Base
    <3>2. q \in Int /\ lo \in 0 .. Base - 1 /\ Base \in Nat \ {0} /\ d = q * Base + lo
      BY <1>1, <2>3, <3>1
    <3>. HIDE DEF q, lo, hi, x
    <3>. QED  BY <3>2, Quotient
  <2>. HIDE DEF hi, lo
  <2>5. e = <<Marker, hi, lo>>
    BY <2>1, <2>2, <2>4 DEF hi
  <2>. HIDE DEF e
  <2>6. e \in Seq(Int) /\ Len(e) = 3 /\ e[1] = Marker /\ e[2] = hi /\ e[3] = lo
    BY <1>1, <2>3, <2>5
  <2>7. hi * Base + lo = x
    BY <1>1, <2>2, <2>3
  <2>8. Signed(x, W) = d
    BY <1>1, <2>2 DEF Signed
  <2>9. ASSUME NEW s \in Seq(Int), NEW k \in Nat, k + Len(e) <= Len(s),
               \A i \in 1 .. Len(e) : s[k + i] = e[i]
        PROVE  HasDiff(s, k + 1) /\ DecodeDiff(s, k + 1) = d /\ DiffLen(s, k + 1) = Len(e)
    <3>. HIDE DEF x, W
    <3>1. s[k + 1] = Marker /\ k + 1 + 2 <= Len(s) /\ k + 1 <= Len(s)
      BY <2>6, <2>9
    <3>2. s[k + 1 + 1] = hi /\ s[k + 1 + 2] = lo
      <4>1. s[k + 2] = e[2] /\ s[k + 3] = e[3]
        BY <2>6, <2>9
      <4>2. k + 1 + 1 = k + 2 /\ k + 1 + 2 = k + 3
        OBVIOUS
      <4>. QED  BY <2>6, <4>1, <4>2
    <3>3. DecodeDiff(s, k + 1) = Signed(s[k + 1 + 1] * Base + s[k + 1 + 2], Base * Base)
      BY <3>1, Zenon DEF DecodeDiff
    <3>4. DecodeDiff(s, k + 1) = d
      BY <2>7, <2>8, <3>2, <3>3 DEF W
    <3>. QED  BY <2>6, <3>1, <3>4 DEF HasDiff, DiffLen
  <2>10. Len(e) >= 1
    BY <2>6
  <2>. QED  BY <2>6, <2>9, <2>10, Zenon DEF e
<1>. QED  BY <1>2, <1>3

----------------------------------------------------------------------------
(***************************************************************************)
(* A chart with one more line: the bytes the encoder writes for a line,    *)
(* and the text behind the chart.                                          *)
(***************************************************************************)
Plain == Int \ {Nul, Newline}

\* The elements of a concatenation.
LEMMA ConcatAt ==
  ASSUME NEW s \in Seq(Int), NEW t \in Seq(Int)
  PROVE  /\ s \o t \in Seq(Int) /\ Len(s \o t) = Len(s) + Len(t) /\ Len(s) \in Nat /\ Len(t) \in Nat
         /\ \A i \in 1 .. Len(s) : (s \o t)[i] = s[i]
         /\ \A i \in 1 .. Len(t) : (s \o t)[Len(s) + i] = t[i]
OBVIOUS

\* The same, where the second part is one element.
LEMMA ConcatOne ==
  ASSUME NEW s \in Seq(Int), NEW y \in Int
  PROVE  /\ s \o <<y>> \in Seq(Int) /\ Len(s \o <<y>>) = Len(s) + 1 /\ Len(s) \in Nat
         /\ \A i \in 1 .. Len(s) : (s \o <<y>>)[i] = s[i]
         /\ (s \o <<y>>)[Len(s) + 1] = y
OBVIOUS

\* Three parts, from the left or from the right.
LEMMA ThreeParts ==
  ASSUME NEW s \in Seq(Int), NEW t \in Seq(Int), NEW u \in Seq(Int)
  PROVE  (s \o t) \o u = s \o (t \o u)
BY ConcatAssociative, SMTT(60)

\* A line as it is written, behind k bytes of t: its difference is e.
Parts(m, y, e, r, z) == m \o <<y>> \o e \o r \o <<z>>

HasParts(t, k, m, y, e, r, z) ==
  /\ t \in Seq(Int) /\ Len(m) \in Nat /\ Len(e) \in Nat /\ Len(r) \in Nat
  /\ Len(t) = k + Len(m) + 1 + Len(e) + Len(r) + 1
  /\ \A i \in 1 .. Len(m) : t[k + i] = m[i]
  /\ t[k + Len(m) + 1] = y
  /\ \A i \in 1 .. Len(e) : t[k + Len(m) + 1 + i] = e[i]
  /\ \A i \in 1 .. Len(r) : t[k + Len(m) + 1 + Len(e) + i] = r[i]
  /\ t[Len(t)] = z

\* Where its parts are.
LEMMA FiveParts ==
  ASSUME NEW m \in Seq(Int), NEW e \in Seq(Int), NEW r \in Seq(Int),
         NEW y \in Int, NEW z \in Int, NEW w, w = Parts(m, y, e, r, z)
  PROVE  HasParts(w, 0, m, y, e, r, z)
<1>. DEFINE a == m \o <<y>>
            b == a \o e
            d == b \o r
<1>2. /\ a \in Seq(Int) /\ Len(a) = Len(m) + 1 /\ Len(m) \in Nat
      /\ \A i \in 1 .. Len(m) : a[i] = m[i]
      /\ a[Len(m) + 1] = y
  BY ConcatOne
<1>. HIDE DEF a
<1>3. /\ b \in Seq(Int) /\ Len(b) = Len(a) + Len(e) /\ Len(e) \in Nat
      /\ \A i \in 1 .. Len(a) : b[i] = a[i]
      /\ \A i \in 1 .. Len(e) : b[Len(a) + i] = e[i]
  BY <1>2, ConcatAt
<1>. HIDE DEF b
<1>4. /\ d \in Seq(Int) /\ Len(d) = Len(b) + Len(r) /\ Len(r) \in Nat
      /\ \A i \in 1 .. Len(b) : d[i] = b[i]
      /\ \A i \in 1 .. Len(r) : d[Len(b) + i] = r[i]
  BY <1>3, ConcatAt
<1>. HIDE DEF d
<1>5. w = d \o <<z>>
  BY DEF a, b, d, Parts
<1>6. /\ w \in Seq(Int) /\ Len(w) = Len(d) + 1
      /\ \A i \in 1 .. Len(d) : w[i] = d[i]
      /\ w[Len(d) + 1] = z
  <2>1. /\ d \o <<z>> \in Seq(Int) /\ Len(d \o <<z>>) = Len(d) + 1
        /\ \A i \in 1 .. Len(d) : (d \o <<z>>)[i] = d[i]
        /\ (d \o <<z>>)[Len(d) + 1] = z
    BY <1>4, ConcatOne
  <2>. QED  BY <2>1, <1>5, Zenon
<1>7. Len(w) = Len(m) + 1 + Len(e) + Len(r) + 1
  BY <1>2, <1>3, <1>4, <1>6
<1>8. ASSUME NEW i \in 1 .. Len(m) PROVE w[i] = m[i]
  <2>1. i \in 1 .. Len(a) /\ i \in 1 .. Len(b) /\ i \in 1 .. Len(d)
    BY <1>2, <1>3, <1>4
  <2>. QED  BY <2>1, <1>2, <1>3, <1>4, <1>6
<1>9. w[Len(m) + 1] = y
  <2>3. Len(a) \in Nat /\ Len(a) >= 1
    BY <1>2
  <2>4. Len(b) \in Nat /\ Len(b) >= Len(a)
    BY <2>3, <1>3
  <2>5. Len(d) \in Nat /\ Len(d) >= Len(b)
    BY <2>4, <1>4
  <2>1. Len(a) \in 1 .. Len(a) /\ Len(a) \in 1 .. Len(b) /\ Len(a) \in 1 .. Len(d)
    BY <2>3, <2>4, <2>5
  <2>2. w[Len(a)] = d[Len(a)] /\ d[Len(a)] = b[Len(a)] /\ b[Len(a)] = a[Len(a)]
    BY <2>1, <1>3, <1>4, <1>6, Zenon
  <2>. QED  BY <2>2, <1>2
<1>10. ASSUME NEW i \in 1 .. Len(e) PROVE w[Len(m) + 1 + i] = e[i]
  <2>1. Len(m) + 1 + i = Len(a) + i /\ Len(a) + i \in 1 .. Len(b) /\ Len(a) + i \in 1 .. Len(d)
    BY <1>2, <1>3, <1>4
  <2>. QED  BY <2>1, <1>3, <1>4, <1>6
<1>11. ASSUME NEW i \in 1 .. Len(r) PROVE w[Len(m) + 1 + Len(e) + i] = r[i]
  <2>1. Len(m) + 1 + Len(e) + i = Len(b) + i /\ Len(b) + i \in 1 .. Len(d)
    BY <1>2, <1>3, <1>4
  <2>. QED  BY <2>1, <1>4, <1>6
<1>12. w[Len(w)] = z
  BY <1>6
<1>. QED  BY <1>2, <1>3, <1>4, <1>6, <1>7, <1>8, <1>9, <1>10, <1>11, <1>12 DEF HasParts

\* The same behind what was written before.
LEMMA Spliced ==
  ASSUME NEW s \in Seq(Int), NEW m \in Seq(Int), NEW e \in Seq(Int), NEW r \in Seq(Int),
         NEW y \in Int, NEW z \in Int
  PROVE  /\ HasParts(s \o Parts(m, y, e, r, z), Len(s), m, y, e, r, z) /\ Len(s) \in Nat
         /\ \A i \in 1 .. Len(s) : (s \o Parts(m, y, e, r, z))[i] = s[i]
<1>. DEFINE w == Parts(m, y, e, r, z)
            t == s \o Parts(m, y, e, r, z)
<1>t. t = s \o w
  OBVIOUS
<1>. HIDE DEF t
<1>0. HasParts(w, 0, m, y, e, r, z)
  <2>. HIDE DEF w
  <2>1. w = Parts(m, y, e, r, z)
    BY DEF w
  <2>. QED  BY <2>1, FiveParts
<1>. HIDE DEF w
<1>1. /\ w \in Seq(Int) /\ Len(w) = Len(m) + 1 + Len(e) + Len(r) + 1
      /\ \A i \in 1 .. Len(m) : w[i] = m[i]
      /\ w[Len(m) + 1] = y
      /\ \A i \in 1 .. Len(e) : w[Len(m) + 1 + i] = e[i]
      /\ \A i \in 1 .. Len(r) : w[Len(m) + 1 + Len(e) + i] = r[i]
      /\ w[Len(w)] = z
  BY <1>0 DEF HasParts
<1>01. Len(w) = Len(m) + 1 + Len(e) + Len(r) + 1
  BY <1>1
<1>2. /\ t \in Seq(Int) /\ Len(t) = Len(s) + Len(w)
      /\ \A i \in 1 .. Len(s) : t[i] = s[i]
      /\ \A i \in 1 .. Len(w) : t[Len(s) + i] = w[i]
  <2>1. /\ s \o w \in Seq(Int) /\ Len(s \o w) = Len(s) + Len(w)
        /\ \A i \in 1 .. Len(s) : (s \o w)[i] = s[i]
        /\ \A i \in 1 .. Len(w) : (s \o w)[Len(s) + i] = w[i]
    BY <1>1, ConcatAt
  <2>. QED  BY <2>1, <1>t, Zenon
<1>3. Len(s) \in Nat /\ Len(m) \in Nat /\ Len(e) \in Nat /\ Len(r) \in Nat
  OBVIOUS
<1>4. Len(t) = Len(s) + Len(m) + 1 + Len(e) + Len(r) + 1
  BY <1>1, <1>2, <1>3
<1>5. ASSUME NEW i \in 1 .. Len(m) PROVE t[Len(s) + i] = m[i]
  <2>1. i \in 1 .. Len(w)
    BY <1>01, <1>3
  <2>. QED  BY <2>1, <1>1, <1>2, Zenon
<1>6. t[Len(s) + Len(m) + 1] = y
  <2>1. Len(m) + 1 \in 1 .. Len(w) /\ Len(s) + (Len(m) + 1) = Len(s) + Len(m) + 1
    BY <1>01, <1>3
  <2>2. t[Len(s) + (Len(m) + 1)] = w[Len(m) + 1]
    BY <2>1, <1>2, Zenon
  <2>. QED  BY <2>1, <2>2, <1>1, Zenon
<1>7. ASSUME NEW i \in 1 .. Len(e) PROVE t[Len(s) + Len(m) + 1 + i] = e[i]
  <2>1. Len(m) + 1 + i \in 1 .. Len(w) /\ Len(s) + (Len(m) + 1 + i) = Len(s) + Len(m) + 1 + i
    BY <1>01, <1>3
  <2>2. t[Len(s) + (Len(m) + 1 + i)] = w[Len(m) + 1 + i]
    BY <2>1, <1>2, Zenon
  <2>. QED  BY <2>1, <2>2, <1>1, Zenon
<1>8. ASSUME NEW i \in 1 .. Len(r) PROVE t[Len(s) + Len(m) + 1 + Len(e) + i] = r[i]
  <2>1. /\ Len(m) + 1 + Len(e) + i \in 1 .. Len(w)
        /\ Len(s) + (Len(m) + 1 + Len(e) + i) = Len(s) + Len(m) + 1 + Len(e) + i
    BY <1>01, <1>3
  <2>2. t[Len(s) + (Len(m) + 1 + Len(e) + i)] = w[Len(m) + 1 + Len(e) + i]
    BY <2>1, <1>2, Zenon
  <2>. QED  BY <2>1, <2>2, <1>1, Zenon
<1>9. t[Len(t)] = z
  <2>1. Len(w) \in 1 .. Len(w)
    BY <1>01, <1>3
  <2>. QED  BY <2>1, <1>1, <1>2, Zenon
<1>10. HasParts(t, Len(s), m, y, e, r, z)
  BY <1>2, <1>3, <1>4, <1>5, <1>6, <1>7, <1>8, <1>9, Zenon DEF HasParts
<1>. QED  BY <1>2, <1>3, <1>10, Zenon DEF t

Follows(c, d, meta, path, x) ==
  /\ LineCount(d) = LineCount(c) + 1 /\ Shared(d, LineCount(d)) = x
  /\ \A j \in 0 .. LineCount(c) : EndAt(d, j) = EndAt(c, j) /\ PathAt(d, j) = PathAt(c, j) /\ Shared(d, j) = Shared(c, j)
  /\ Len(Text(d)) >= Len(Text(c)) /\ \A i \in 1 .. Len(Text(c)) : Text(d)[i] = Text(c)[i]
  /\ Says(d, LineCount(d), meta, path)

\* The chart of a frame with one more line.
Longer(c, s, meta, path, x, e) ==
  LET p == Len(Text(c)) + Len(meta) + 1
      Then(old, new) == [j \in 0 .. LineCount(c) + 1 |-> IF j <= LineCount(c) THEN old[j] ELSE new]
  IN [n      |-> LineCount(c) + 1,
      text   |-> Text(c) \o Parts(meta, Nul, <<>>, path, Newline),
      at     |-> Then(c.at, Len(s) + Len(meta) + 1 + Len(e)),
      pos    |-> Then(c.pos, p + x),
      gap    |-> [j \in 0 .. LineCount(c) + 1 |->
                    IF j < LineCount(c) THEN Gap(c, j)
                    ELSE IF j = LineCount(c) THEN Gap(c, j) + Len(meta) + 1 ELSE Len(path) - x + 1],
      shared |-> Then(c.shared, x),
      path   |-> Then(c.path, p),
      end    |-> Then(c.end, p + Len(path) + 1)]

IsLonger(d, c, s, meta, path, x, e) ==
  /\ LineCount(d) = LineCount(c) + 1 /\ Text(d) = Text(c) \o Parts(meta, Nul, <<>>, path, Newline)
  /\ \A j \in 0 .. LineCount(c) : /\ At(d, j) = At(c, j) /\ Pos(d, j) = Pos(c, j) /\ Shared(d, j) = Shared(c, j)
                                /\ PathAt(d, j) = PathAt(c, j) /\ EndAt(d, j) = EndAt(c, j)
  /\ \A j \in 0 .. LineCount(c) - 1 : Gap(d, j) = Gap(c, j)
  /\ Gap(d, LineCount(c)) = Gap(c, LineCount(c)) + Len(meta) + 1
  /\ Gap(d, LineCount(c) + 1) = Len(path) - x + 1
  /\ At(d, LineCount(c) + 1) = Len(s) + Len(meta) + 1 + Len(e)
  /\ PathAt(d, LineCount(c) + 1) = Len(Text(c)) + Len(meta) + 1
  /\ Pos(d, LineCount(c) + 1) = Len(Text(c)) + Len(meta) + 1 + x
  /\ Shared(d, LineCount(c) + 1) = x
  /\ EndAt(d, LineCount(c) + 1) = Len(Text(c)) + Len(meta) + 1 + Len(path) + 1

\* It has that line behind the lines of c, and nothing else changes.
LEMMA LongerIs ==
  ASSUME NEW c, LineCount(c) \in Nat, NEW s, NEW meta, NEW path, NEW x, NEW e
  PROVE  IsLonger(Longer(c, s, meta, path, x, e), c, s, meta, path, x, e)
<1>. DEFINE d == Longer(c, s, meta, path, x, e)
<1>1. LineCount(c) + 1 \in 0 .. LineCount(c) + 1 /\ LineCount(c) \in 0 .. LineCount(c) + 1 /\ \A j \in 0 .. LineCount(c) : j \in 0 .. LineCount(c) + 1
  OBVIOUS
<1>2. d = Longer(c, s, meta, path, x, e)
  OBVIOUS
<1>. HIDE DEF d
<1>n. LineCount(c) \in Nat
  OBVIOUS
<1>. DEFINE Then(old, new) == [j \in 0 .. LineCount(c) + 1 |-> IF j <= LineCount(c) THEN old[j] ELSE new]
            p == Len(Text(c)) + Len(meta) + 1
<1>4. \A old, new : (\A j \in 0 .. LineCount(c) : Then(old, new)[j] = old[j]) /\ Then(old, new)[LineCount(c) + 1] = new
  BY <1>1, <1>n
<1>5. /\ LineCount(d) = LineCount(c) + 1 /\ Text(d) = Text(c) \o Parts(meta, Nul, <<>>, path, Newline)
      /\ d.at = Then(c.at, Len(s) + Len(meta) + 1 + Len(e))
      /\ d.pos = Then(c.pos, p + x) /\ d.shared = Then(c.shared, x)
      /\ d.path = Then(c.path, p) /\ d.end = Then(c.end, p + Len(path) + 1)
      /\ d.gap = [j \in 0 .. LineCount(c) + 1 |->
                    IF j < LineCount(c) THEN Gap(c, j)
                    ELSE IF j = LineCount(c) THEN Gap(c, j) + Len(meta) + 1 ELSE Len(path) - x + 1]
  <2>1. LineCount(c) = c.n /\ Text(c) = c.text /\ LineCount(d) = d.n /\ Text(d) = d.text
    BY DEF LineCount, Text
  <2>2. /\ d.n = LineCount(c) + 1 /\ d.text = Text(c) \o Parts(meta, Nul, <<>>, path, Newline)
        /\ d.at = Then(c.at, Len(s) + Len(meta) + 1 + Len(e))
        /\ d.pos = Then(c.pos, p + x) /\ d.shared = Then(c.shared, x)
        /\ d.path = Then(c.path, p) /\ d.end = Then(c.end, p + Len(path) + 1)
        /\ d.gap = [j \in 0 .. LineCount(c) + 1 |->
                      IF j < LineCount(c) THEN Gap(c, j)
                      ELSE IF j = LineCount(c) THEN Gap(c, j) + Len(meta) + 1 ELSE Len(path) - x + 1]
    BY <1>2, Zenon DEF Longer
  <2>. QED  BY <2>1, <2>2, Zenon
<1>6. /\ \A j \in 0 .. LineCount(c) - 1 : Gap(d, j) = Gap(c, j)
      /\ Gap(d, LineCount(c)) = Gap(c, LineCount(c)) + Len(meta) + 1
      /\ Gap(d, LineCount(c) + 1) = Len(path) - x + 1
  <2>1. d.gap = [j \in 0 .. LineCount(c) + 1 |->
                    IF j < LineCount(c) THEN Gap(c, j)
                    ELSE IF j = LineCount(c) THEN Gap(c, j) + Len(meta) + 1 ELSE Len(path) - x + 1]
    BY <1>5, Zenon
  <2>2. /\ \A j \in 0 .. LineCount(c) - 1 : d.gap[j] = Gap(c, j)
        /\ d.gap[LineCount(c)] = Gap(c, LineCount(c)) + Len(meta) + 1
        /\ d.gap[LineCount(c) + 1] = Len(path) - x + 1
    BY <2>1, <1>1, <1>n
  <2>3. \A j : Gap(d, j) = d.gap[j]
    BY DEF Gap
  <2>. QED  BY <2>2, <2>3, Zenon
<1>. HIDE DEF Then
<1>8. ASSUME NEW f, NEW old, NEW new, f = Then(old, new)
      PROVE  (\A j \in 0 .. LineCount(c) : f[j] = old[j]) /\ f[LineCount(c) + 1] = new
  BY <1>4, <1>8, Zenon
<1>. HIDE DEF p
<1>9a. (\A j \in 0 .. LineCount(c) : At(d, j) = At(c, j)) /\ At(d, LineCount(c) + 1) = Len(s) + Len(meta) + 1 + Len(e)
  <2>1. d.at = Then(c.at, Len(s) + Len(meta) + 1 + Len(e))
    BY <1>5, Zenon
  <2>2. (\A j \in 0 .. LineCount(c) : d.at[j] = c.at[j]) /\ d.at[LineCount(c) + 1] = Len(s) + Len(meta) + 1 + Len(e)
    BY <2>1, <1>8
  <2>3. \A y, j : At(y, j) = y.at[j]
    BY DEF At
  <2>. QED  BY <2>2, <2>3, Zenon
<1>9b. (\A j \in 0 .. LineCount(c) : Pos(d, j) = Pos(c, j)) /\ Pos(d, LineCount(c) + 1) = p + x
  <2>1. d.pos = Then(c.pos, p + x)
    BY <1>5, Zenon
  <2>2. (\A j \in 0 .. LineCount(c) : d.pos[j] = c.pos[j]) /\ d.pos[LineCount(c) + 1] = p + x
    BY <2>1, <1>8
  <2>3. \A y, j : Pos(y, j) = y.pos[j]
    BY DEF Pos
  <2>. QED  BY <2>2, <2>3, Zenon
<1>9c. (\A j \in 0 .. LineCount(c) : Shared(d, j) = Shared(c, j)) /\ Shared(d, LineCount(c) + 1) = x
  <2>1. d.shared = Then(c.shared, x)
    BY <1>5, Zenon
  <2>2. (\A j \in 0 .. LineCount(c) : d.shared[j] = c.shared[j]) /\ d.shared[LineCount(c) + 1] = x
    BY <2>1, <1>8
  <2>3. \A y, j : Shared(y, j) = y.shared[j]
    BY DEF Shared
  <2>. QED  BY <2>2, <2>3, Zenon
<1>9d. (\A j \in 0 .. LineCount(c) : PathAt(d, j) = PathAt(c, j)) /\ PathAt(d, LineCount(c) + 1) = p
  <2>1. d.path = Then(c.path, p)
    BY <1>5, Zenon
  <2>2. (\A j \in 0 .. LineCount(c) : d.path[j] = c.path[j]) /\ d.path[LineCount(c) + 1] = p
    BY <2>1, <1>8
  <2>3. \A y, j : PathAt(y, j) = y.path[j]
    BY DEF PathAt
  <2>. QED  BY <2>2, <2>3, Zenon
<1>9e. (\A j \in 0 .. LineCount(c) : EndAt(d, j) = EndAt(c, j)) /\ EndAt(d, LineCount(c) + 1) = p + Len(path) + 1
  <2>1. d.end = Then(c.end, p + Len(path) + 1)
    BY <1>5, Zenon
  <2>2. (\A j \in 0 .. LineCount(c) : d.end[j] = c.end[j]) /\ d.end[LineCount(c) + 1] = p + Len(path) + 1
    BY <2>1, <1>8
  <2>3. \A y, j : EndAt(y, j) = y.end[j]
    BY DEF EndAt
  <2>. QED  BY <2>2, <2>3, Zenon
<1>7. /\ \A j \in 0 .. LineCount(c) : /\ At(d, j) = At(c, j) /\ Pos(d, j) = Pos(c, j) /\ Shared(d, j) = Shared(c, j)
                             /\ PathAt(d, j) = PathAt(c, j) /\ EndAt(d, j) = EndAt(c, j)
      /\ At(d, LineCount(c) + 1) = Len(s) + Len(meta) + 1 + Len(e)
      /\ PathAt(d, LineCount(c) + 1) = p /\ Pos(d, LineCount(c) + 1) = p + x /\ Shared(d, LineCount(c) + 1) = x
      /\ EndAt(d, LineCount(c) + 1) = p + Len(path) + 1
  BY <1>9a, <1>9b, <1>9c, <1>9d, <1>9e, Zenon
<1>3. IsLonger(d, c, s, meta, path, x, e)
  BY <1>5, <1>6, <1>7, Zenon DEF IsLonger, p
<1>. QED  BY <1>3 DEF d

\* A difference is read from the bytes that are there.
LEMMA SameDiff ==
  ASSUME NEW s \in Seq(Int), NEW z \in Seq(Int), Len(s) <= Len(z), \A i \in 1 .. Len(s) : z[i] = s[i],
         NEW p \in Nat \ {0}, HasDiff(s, p)
  PROVE  HasDiff(z, p) /\ DecodeDiff(z, p) = DecodeDiff(s, p) /\ DiffLen(z, p) = DiffLen(s, p)
<1>1. p <= Len(s) /\ (s[p] = Marker => p + 2 <= Len(s)) /\ Len(s) \in Nat /\ Len(z) \in Nat
  BY DEF HasDiff
<1>2. z[p] = s[p]
  BY <1>1
<1>3. CASE s[p] = Marker
  <2>1. z[p + 1] = s[p + 1] /\ z[p + 2] = s[p + 2] /\ p + 2 <= Len(z) /\ p <= Len(z)
    BY <1>1, <1>3, SMTT(60)
  <2>. QED  BY <1>2, <1>3, <2>1, Zenon DEF HasDiff, DecodeDiff, DiffLen
<1>4. CASE s[p] # Marker
  <2>1. p <= Len(z)
    BY <1>1
  <2>. QED  BY <1>2, <1>4, <2>1, Zenon DEF HasDiff, DecodeDiff, DiffLen
<1>. QED  BY <1>3, <1>4

CanFollow(c, meta, path, x) ==
  /\ meta \in Seq(Plain) /\ path \in Seq(Plain) /\ x \in 0 .. Len(path)
  /\ -MaxI16 <= x - Shared(c, LineCount(c)) /\ x - Shared(c, LineCount(c)) <= MaxI16
  /\ PathAt(c, LineCount(c)) + x <= EndAt(c, LineCount(c))
  /\ \A i \in 1 .. x : path[i] = Text(c)[PathAt(c, LineCount(c)) + i]

\* The bytes of one more line give the chart one more line.
LEMMA Extend ==
  ASSUME NEW c, NEW s, Chart(c, s), NEW meta, NEW path, NEW x, CanFollow(c, meta, path, x)
  PROVE  \E d : /\ Chart(d, s \o WriteLine(meta, x - Shared(c, LineCount(c)), SubSeq(path, x + 1, Len(path))))
                /\ Follows(c, d, meta, path, x)
<1>. DEFINE n == LineCount(c)
            e == EncodeDiff(x - Shared(c, LineCount(c)))
            r == SubSeq(path, x + 1, Len(path))
            z == s \o WriteLine(meta, x - Shared(c, LineCount(c)), r)
            d == Longer(c, s, meta, path, x, e)
            t == Text(d)
            lm == Len(meta)
            lp == Len(path)
            ls == Len(s)
            lt == Len(Text(c))
            le == Len(e)
<1>1. /\ ChartTyped(c, s) /\ ChartEnds(c, s) /\ ChartGaps(c, s) /\ ChartSteps(c, s)
      /\ ChartOrder(c) /\ ChartBytes(c)
  BY DEF Chart
<1>2. /\ Nul \in Int /\ Newline \in Int /\ Nul # Newline
      /\ MaxI16 \in Nat
  BY Bytes
<1>3. /\ meta \in Seq(Int) /\ path \in Seq(Int)
      /\ \A i \in 1 .. lm : meta[i] # Nul /\ meta[i] # Newline
      /\ \A i \in 1 .. lp : path[i] # Nul /\ path[i] # Newline
  <2>1. meta \in Seq(Plain) /\ path \in Seq(Plain)
    BY Zenon DEF CanFollow
  <2>. QED  BY <2>1 DEF Plain
<1>4. /\ n \in Nat /\ n \in 0 .. n /\ Text(c) \in Seq(Int) /\ s \in Seq(Int) /\ Shared(c, n) \in Nat /\ x \in Nat
      /\ lt \in Nat /\ ls \in Nat /\ lm \in Nat /\ lp \in Nat /\ x <= lp
      /\ x - Shared(c, n) \in Int
  <2>1. n \in Nat /\ Text(c) \in Seq(Int) /\ s \in Seq(Int)
    BY <1>1, Zenon DEF ChartTyped
  <2>2. n \in 0 .. n
    BY <2>1
  <2>3. Shared(c, n) \in Nat
    BY <1>1, <2>2, Zenon DEF ChartTyped
  <2>4. x \in 0 .. lp
    BY Zenon DEF CanFollow
  <2>5. lm \in Nat /\ lp \in Nat /\ lt \in Nat /\ ls \in Nat
    BY <2>1, <1>3, LenProperties, Zenon
  <2>. QED  BY <2>1, <2>2, <2>3, <2>4, <2>5
<1>5. /\ e \in Seq(Int) /\ le \in Nat /\ le >= 1
      /\ \A q \in Seq(Int), k \in Nat :
              /\ k + le <= Len(q)
              /\ \A i \in 1 .. le : q[k + i] = e[i]
              => HasDiff(q, k + 1) /\ DecodeDiff(q, k + 1) = x - Shared(c, n) /\ DiffLen(q, k + 1) = le
  <2>1. x - Shared(c, n) \in Int /\ -MaxI16 <= x - Shared(c, n) /\ x - Shared(c, n) <= MaxI16
    BY <1>4, Zenon DEF CanFollow
  <2>. DEFINE df == x - Shared(c, n)
  <2>. HIDE DEF df
  <2>2. /\ EncodeDiff(df) \in Seq(Int) /\ Len(EncodeDiff(df)) >= 1
        /\ \A q \in Seq(Int), k \in Nat :
              /\ k + Len(EncodeDiff(df)) <= Len(q)
              /\ \A i \in 1 .. Len(EncodeDiff(df)) : q[k + i] = EncodeDiff(df)[i]
              => HasDiff(q, k + 1) /\ DecodeDiff(q, k + 1) = df /\ DiffLen(q, k + 1) = Len(EncodeDiff(df))
    <3>1. df \in Int /\ -MaxI16 <= df /\ df <= MaxI16
      BY <2>1 DEF df
    <3>. QED  BY <3>1, DiffDecodes
  <2>3. Len(EncodeDiff(df)) \in Nat
    BY <2>2, LenProperties
  <2>. QED  BY <2>2, <2>3, Zenon DEF df
<1>6. /\ r \in Seq(Int) /\ Len(r) = lp - x /\ \A i \in 1 .. lp - x : r[i] = path[x + i]
  BY <1>3, <1>4, SMTT(60)
<1>. HIDE DEF r, e
<1>7. /\ HasParts(z, ls, meta, Nul, e, r, Newline)
      /\ \A i \in 1 .. ls : z[i] = s[i]
  <2>1. z = s \o Parts(meta, Nul, e, r, Newline)
    BY Zenon DEF WriteLine, Parts, e
  <2>2. s \in Seq(Int) /\ meta \in Seq(Int) /\ e \in Seq(Int) /\ r \in Seq(Int) /\ Nul \in Int /\ Newline \in Int
    BY <1>2, <1>3, <1>4, <1>5, <1>6, Zenon
  <2>3. /\ HasParts(s \o Parts(meta, Nul, e, r, Newline), ls, meta, Nul, e, r, Newline)
        /\ \A i \in 1 .. ls : (s \o Parts(meta, Nul, e, r, Newline))[i] = s[i]
    BY <2>2, Spliced
  <2>. HIDE DEF z
  <2>. QED  BY <2>1, <2>3, Zenon
<1>. HIDE DEF z, d
<1>81. IsLonger(d, c, s, meta, path, x, e)
  <2>1. d = Longer(c, s, meta, path, x, e)
    BY DEF d
  <2>2. LineCount(c) \in Nat
    BY <1>4, Zenon
  <2>3. IsLonger(Longer(c, s, meta, path, x, e), c, s, meta, path, x, e)
    BY <2>2, LongerIs
  <2>. QED  BY <2>1, <2>3, Zenon
<1>80. t = Text(c) \o Parts(meta, Nul, <<>>, path, Newline)
  BY <1>81, Zenon DEF IsLonger
<1>. DEFINE em == <<>>
<1>em. em \in Seq(Int) /\ Len(em) = 0 /\ em = <<>>
  OBVIOUS
<1>. HIDE DEF em
<1>9. /\ HasParts(t, lt, meta, Nul, em, path, Newline)
      /\ \A i \in 1 .. lt : t[i] = Text(c)[i]
  <2>2. Text(c) \in Seq(Int) /\ meta \in Seq(Int) /\ path \in Seq(Int) /\ Nul \in Int /\ Newline \in Int
        /\ t = Text(c) \o Parts(meta, Nul, em, path, Newline)
    BY <1>2, <1>3, <1>4, <1>80, <1>em, Zenon
  <2>. DEFINE ct == Text(c)
  <2>4. ct \in Seq(Int) /\ meta \in Seq(Int) /\ path \in Seq(Int) /\ Nul \in Int /\ Newline \in Int
    BY <2>2, Zenon
  <2>5. em \in Seq(Int)
    BY <1>em
  <2>. HIDE DEF ct, t
  <2>3. /\ HasParts(ct \o Parts(meta, Nul, em, path, Newline), Len(ct), meta, Nul, em, path, Newline)
        /\ \A i \in 1 .. Len(ct) : (ct \o Parts(meta, Nul, em, path, Newline))[i] = ct[i]
    BY <2>4, <2>5, Spliced
  <2>. QED  BY <2>2, <2>3, Zenon DEF ct
<1>10. /\ z \in Seq(Int) /\ Len(z) = ls + lm + 1 + le + (lp - x) + 1
       /\ \A i \in 1 .. lm : z[ls + i] = meta[i]
       /\ z[ls + lm + 1] = Nul
       /\ \A i \in 1 .. le : z[ls + lm + 1 + i] = e[i]
       /\ \A i \in 1 .. lp - x : z[ls + lm + 1 + le + i] = path[x + i]
       /\ z[ls + lm + 1 + le + (lp - x) + 1] = Newline
  BY <1>6, <1>7 DEF HasParts
<1>11. /\ t \in Seq(Int) /\ Len(t) = lt + lm + 1 + lp + 1
       /\ \A i \in 1 .. lm : t[lt + i] = meta[i]
       /\ t[lt + lm + 1] = Nul
       /\ \A i \in 1 .. lp : t[lt + lm + 1 + i] = path[i]
       /\ t[lt + lm + 1 + lp + 1] = Newline
  <2>3. /\ t \in Seq(Int) /\ Len(t) = lt + lm + 1 + 0 + lp + 1
        /\ \A i \in 1 .. lm : t[lt + i] = meta[i]
        /\ t[lt + lm + 1] = Nul
        /\ \A i \in 1 .. lp : t[lt + lm + 1 + 0 + i] = path[i]
        /\ t[Len(t)] = Newline
    BY <1>9, <1>em, Zenon DEF HasParts
  <2>20. t \in Seq(Int) /\ Len(t) = lt + lm + 1 + 0 + lp + 1
    BY <2>3
  <2>4. Len(t) = lt + lm + 1 + lp + 1
    BY <2>20, <1>4
  <2>6. ASSUME NEW i \in 1 .. lp PROVE t[lt + lm + 1 + i] = path[i]
    <3>1. t[lt + lm + 1 + 0 + i] = path[i]
      BY <2>3
    <3>2. lt + lm + 1 + 0 + i = lt + lm + 1 + i
      BY <1>4
    <3>. QED  BY <3>1, <3>2
  <2>7. t[lt + lm + 1 + lp + 1] = Newline
    <3>1. t[Len(t)] = Newline
      BY <2>3
    <3>. QED  BY <3>1, <2>4
  <2>. QED  BY <2>3, <2>4, <2>6, <2>7
<1>12. /\ At(c, n) + Gap(c, n) = ls /\ Pos(c, n) + Gap(c, n) = lt /\ EndAt(c, n) = lt
       /\ At(c, n) \in Nat /\ Pos(c, n) \in Nat /\ Gap(c, n) \in Nat /\ PathAt(c, n) \in Nat /\ PathAt(c, n) + x <= lt
  <2>1. At(c, n) + Gap(c, n) = ls /\ Pos(c, n) + Gap(c, n) = lt /\ EndAt(c, n) = lt
    BY <1>1, Zenon DEF ChartEnds
  <2>2. At(c, n) \in Nat /\ Pos(c, n) \in Nat /\ Gap(c, n) \in Nat /\ PathAt(c, n) \in Nat
    BY <1>1, <1>4, Zenon DEF ChartTyped
  <2>3. PathAt(c, n) + x <= lt
    BY <2>1, Zenon DEF CanFollow
  <2>. QED  BY <2>1, <2>2, <2>3, Zenon
<1>23. LineCount(c) = n /\ Len(Text(c)) = lt /\ Len(s) = ls /\ Len(meta) = lm /\ Len(path) = lp /\ Len(e) = le /\ Text(d) = t
  OBVIOUS
<1>. HIDE DEF n, t, lm, lp, ls, lt, le
\* Numbers.
<1>4n. n \in Nat /\ x \in Nat /\ lt \in Nat /\ ls \in Nat /\ lm \in Nat /\ lp \in Nat /\ le \in Nat /\ x <= lp /\ le >= 1
  BY <1>4, <1>5
<1>8. /\ LineCount(d) = n + 1
      /\ Gap(d, n) = Gap(c, n) + lm + 1
      /\ Gap(d, n + 1) = lp - x + 1
      /\ At(d, n + 1) = ls + lm + 1 + le
      /\ PathAt(d, n + 1) = lt + lm + 1
      /\ Pos(d, n + 1) = lt + lm + 1 + x
      /\ Shared(d, n + 1) = x
      /\ EndAt(d, n + 1) = lt + lm + 1 + lp + 1
  BY <1>81, <1>23, Zenon DEF IsLonger
<1>8q. \A j \in 0 .. n : /\ At(d, j) = At(c, j) /\ Pos(d, j) = Pos(c, j) /\ Shared(d, j) = Shared(c, j)
                         /\ PathAt(d, j) = PathAt(c, j) /\ EndAt(d, j) = EndAt(c, j)
  BY <1>81, <1>23, Zenon DEF IsLonger
<1>8g. \A j \in 0 .. n - 1 : Gap(d, j) = Gap(c, j)
  BY <1>81, <1>23, Zenon DEF IsLonger
<1>10n. Len(z) = ls + lm + 1 + le + (lp - x) + 1 /\ Len(t) = lt + lm + 1 + lp + 1
  BY <1>10, <1>11
<1>tc. \A i \in 1 .. lt : t[i] = Text(c)[i]
  BY <1>9
<1>zs. \A i \in 1 .. ls : z[i] = s[i]
  BY <1>7, <1>23
<1>tm. \A i \in 1 .. lm : t[lt + i] = meta[i]
  BY <1>11
<1>tp. \A i \in 1 .. lp : t[lt + lm + 1 + i] = path[i]
  BY <1>11
<1>tn. t[lt + lm + 1] = Nul /\ t[lt + lm + 1 + lp + 1] = Newline
  BY <1>11
<1>zm. \A i \in 1 .. lm : z[ls + i] = meta[i]
  BY <1>10
<1>ze. \A i \in 1 .. le : z[ls + lm + 1 + i] = e[i]
  BY <1>10
<1>zp. \A i \in 1 .. lp - x : z[ls + lm + 1 + le + i] = path[x + i]
  BY <1>10
<1>zn. z[ls + lm + 1] = Nul /\ z[ls + lm + 1 + le + (lp - x) + 1] = Newline
  BY <1>10
<1>ct. \A j \in 0 .. n : /\ At(c, j) \in Nat /\ Pos(c, j) \in Nat /\ Gap(c, j) \in Nat
                         /\ Shared(c, j) \in Nat /\ PathAt(c, j) \in Nat /\ EndAt(c, j) \in Nat
  BY <1>1, <1>23 DEF ChartTyped
<1>cg. \A j \in 0 .. n :
        /\ At(c, j) + Gap(c, j) <= ls /\ Pos(c, j) + Gap(c, j) <= lt
        /\ Pos(c, j) = PathAt(c, j) + Shared(c, j) /\ EndAt(c, j) <= Pos(c, j) + Gap(c, j)
        /\ j > 0 => Pos(c, j) < EndAt(c, j)
  BY <1>1, <1>23 DEF ChartGaps
<1>cb. \A j \in 0 .. n : \A i \in 1 .. Gap(c, j) : s[At(c, j) + i] = Text(c)[Pos(c, j) + i]
  BY <1>1, <1>23 DEF ChartGaps
<1>13. \A j \in 0 .. n + 1 : j \in 0 .. n \/ j = n + 1
  BY <1>4n
<1>13n. n \in 0 .. n
  BY <1>4n
<1>14. ChartTyped(d, z)
  <2>1. ASSUME NEW j \in 0 .. n + 1
        PROVE  /\ At(d, j) \in Nat /\ Pos(d, j) \in Nat /\ Gap(d, j) \in Nat
               /\ Shared(d, j) \in Nat /\ PathAt(d, j) \in Nat /\ EndAt(d, j) \in Nat
    <3>1. CASE j = n + 1
      BY <3>1, <1>4n, <1>8
    <3>2. CASE j \in 0 .. n
      <4>1. /\ At(d, j) \in Nat /\ Pos(d, j) \in Nat
            /\ Shared(d, j) \in Nat /\ PathAt(d, j) \in Nat /\ EndAt(d, j) \in Nat
        BY <3>2, <1>ct, <1>8q
      <4>2. CASE j = n
        BY <4>1, <4>2, <1>4n, <1>8, <1>12
      <4>3. CASE j # n
        <5>1. j \in 0 .. n - 1
          BY <1>4n, <3>2, <4>3
        <5>. QED  BY <4>1, <5>1, <3>2, <1>ct, <1>8g
      <4>. QED  BY <4>2, <4>3
    <3>. QED  BY <3>1, <3>2, <1>13
  <2>2. n + 1 \in Nat
    BY <1>4n
  <2>3. t \in Seq(Int) /\ z \in Seq(Int)
    BY <1>10, <1>11
  <2>. QED  BY <2>1, <2>2, <2>3, <1>8, <1>23, Zenon DEF ChartTyped
<1>15. ChartEnds(d, z)
  <2>1. 0 \in 0 .. n
    BY <1>4n
  <2>2. At(d, 0) = 0 /\ Pos(d, 0) = 0 /\ Shared(d, 0) = 0 /\ PathAt(d, 0) = 0 /\ EndAt(d, 0) = 0
    BY <1>1, <1>8q, <2>1, Zenon DEF ChartEnds
  <2>3. /\ At(d, n + 1) + Gap(d, n + 1) = Len(z) /\ Pos(d, n + 1) + Gap(d, n + 1) = Len(t)
        /\ EndAt(d, n + 1) = Len(t)
    BY <1>4n, <1>8, <1>10n
  <2>. QED  BY <2>2, <2>3, <1>8, <1>23, Zenon DEF ChartEnds
<1>16. ChartGaps(d, z)
  <2>1. ASSUME NEW j \in 0 .. n + 1
        PROVE  /\ At(d, j) + Gap(d, j) <= Len(z) /\ Pos(d, j) + Gap(d, j) <= Len(t)
               /\ Pos(d, j) = PathAt(d, j) + Shared(d, j) /\ EndAt(d, j) <= Pos(d, j) + Gap(d, j)
               /\ j > 0 => Pos(d, j) < EndAt(d, j)
               /\ \A i \in 1 .. Gap(d, j) : z[At(d, j) + i] = t[Pos(d, j) + i]
    <3>1. CASE j = n + 1
      <4>1. /\ At(d, j) = ls + lm + 1 + le /\ Gap(d, j) = lp - x + 1 /\ Pos(d, j) = lt + lm + 1 + x
            /\ PathAt(d, j) = lt + lm + 1 /\ Shared(d, j) = x /\ EndAt(d, j) = lt + lm + 1 + lp + 1
        BY <3>1, <1>8
      <4>2. ASSUME NEW i \in 1 .. Gap(d, j) PROVE z[At(d, j) + i] = t[Pos(d, j) + i]
        <5>1. CASE i = lp - x + 1
          <6>1. At(d, j) + i = ls + lm + 1 + le + (lp - x) + 1 /\ Pos(d, j) + i = lt + lm + 1 + lp + 1
            BY <4>1, <5>1, <1>4n
          <6>. QED  BY <6>1, <1>tn, <1>zn
        <5>2. CASE i # lp - x + 1
          <6>1. i \in 1 .. lp - x /\ x + i \in 1 .. lp
                /\ Pos(d, j) + i = lt + lm + 1 + (x + i) /\ At(d, j) + i = ls + lm + 1 + le + i
            BY <4>1, <5>2, <1>4n
          <6>2. z[ls + lm + 1 + le + i] = path[x + i] /\ t[lt + lm + 1 + (x + i)] = path[x + i]
            BY <6>1, <1>tp, <1>zp, Zenon
          <6>. QED  BY <6>1, <6>2
        <5>. QED  BY <5>1, <5>2
      <4>3. /\ At(d, j) + Gap(d, j) <= Len(z) /\ Pos(d, j) + Gap(d, j) <= Len(t)
            /\ Pos(d, j) = PathAt(d, j) + Shared(d, j) /\ EndAt(d, j) <= Pos(d, j) + Gap(d, j)
            /\ Pos(d, j) < EndAt(d, j)
        BY <1>10n, <4>1, <1>4n
      <4>. QED  BY <4>2, <4>3, Zenon
    <3>2. CASE j = n
      <4>1. /\ At(d, j) = At(c, n) /\ Gap(d, j) = Gap(c, n) + lm + 1 /\ Pos(d, j) = Pos(c, n)
            /\ PathAt(d, j) = PathAt(c, n) /\ Shared(d, j) = Shared(c, n) /\ EndAt(d, j) = EndAt(c, n)
        BY <3>2, <1>13n, <1>8, <1>8q, Zenon
      <4>2. Pos(c, n) = PathAt(c, n) + Shared(c, n) /\ (n > 0 => Pos(c, n) < EndAt(c, n))
        BY <1>cg, <1>13n, Zenon
      <4>21. \A i \in 1 .. Gap(c, n) : s[At(c, n) + i] = Text(c)[Pos(c, n) + i]
        BY <1>cb, <1>13n, Zenon
      <4>3. ASSUME NEW i \in 1 .. Gap(d, j) PROVE z[At(d, j) + i] = t[Pos(d, j) + i]
        <5>1. CASE i <= Gap(c, n)
          <6>1. i \in 1 .. Gap(c, n) /\ At(c, n) + i \in 1 .. ls /\ Pos(c, n) + i \in 1 .. lt
            BY <4>1, <5>1, <1>4n, <1>12
          <6>2. z[At(c, n) + i] = s[At(c, n) + i] /\ t[Pos(c, n) + i] = Text(c)[Pos(c, n) + i]
            BY <6>1, <1>tc, <1>zs, Zenon
          <6>. QED  BY <6>1, <6>2, <4>1, <4>21
        <5>2. CASE i > Gap(c, n)
          <6>. DEFINE l == i - Gap(c, n)
          <6>1. l \in 1 .. lm + 1 /\ At(d, j) + i = ls + l /\ Pos(d, j) + i = lt + l
            BY <4>1, <5>2, <1>4n, <1>12
          <6>. HIDE DEF l
          <6>2. CASE l = lm + 1
            <7>1. ls + l = ls + lm + 1 /\ lt + l = lt + lm + 1
              BY <6>2, <1>4n
            <7>. QED  BY <6>1, <7>1, <1>tn, <1>zn
          <6>3. CASE l # lm + 1
            <7>1. l \in 1 .. lm
              BY <6>1, <6>3, <1>4n
            <7>2. z[ls + l] = meta[l] /\ t[lt + l] = meta[l]
              BY <7>1, <1>tm, <1>zm, Zenon
            <7>. QED  BY <6>1, <7>2
          <6>. QED  BY <6>2, <6>3
        <5>. QED  BY <4>1, <5>1, <5>2, <1>4n, <1>12
      <4>4. /\ At(d, j) + Gap(d, j) <= Len(z) /\ Pos(d, j) + Gap(d, j) <= Len(t)
            /\ EndAt(d, j) <= Pos(d, j) + Gap(d, j)
        <5>1. At(c, n) + Gap(c, n) = ls /\ Pos(c, n) + Gap(c, n) = lt /\ EndAt(c, n) = lt
              /\ At(c, n) \in Nat /\ Pos(c, n) \in Nat /\ Gap(c, n) \in Nat
          BY <1>12
        <5>2. At(d, j) + Gap(d, j) = ls + lm + 1 /\ Pos(d, j) + Gap(d, j) = lt + lm + 1
          <6>1. At(c, n) + (Gap(c, n) + lm + 1) = ls + lm + 1 /\ Pos(c, n) + (Gap(c, n) + lm + 1) = lt + lm + 1
            BY <5>1, <1>4n
          <6>. QED  BY <6>1, <4>1, Zenon
        <5>3. EndAt(d, j) = lt
          BY <5>1, <4>1
        <5>. QED  BY <5>2, <5>3, <1>10n, <1>4n
      <4>5. Pos(d, j) = PathAt(d, j) + Shared(d, j) /\ (j > 0 => Pos(d, j) < EndAt(d, j))
        BY <3>2, <4>1, <4>2
      <4>. QED  BY <4>3, <4>4, <4>5, Zenon
    <3>3. CASE j \in 0 .. n - 1
      <4>1. j \in 0 .. n
        BY <3>3, <1>4n
      <4>2. /\ At(d, j) = At(c, j) /\ Gap(d, j) = Gap(c, j) /\ Pos(d, j) = Pos(c, j)
            /\ PathAt(d, j) = PathAt(c, j) /\ Shared(d, j) = Shared(c, j) /\ EndAt(d, j) = EndAt(c, j)
        BY <3>3, <4>1, <1>8q, <1>8g, Zenon
      <4>3. /\ At(c, j) + Gap(c, j) <= ls /\ Pos(c, j) + Gap(c, j) <= lt
            /\ Pos(c, j) = PathAt(c, j) + Shared(c, j) /\ EndAt(c, j) <= Pos(c, j) + Gap(c, j)
            /\ (j > 0 => Pos(c, j) < EndAt(c, j))
            /\ At(c, j) \in Nat /\ Pos(c, j) \in Nat /\ Gap(c, j) \in Nat
        BY <1>ct, <4>1, <1>cg, Zenon
      <4>31. \A i \in 1 .. Gap(c, j) : s[At(c, j) + i] = Text(c)[Pos(c, j) + i]
        BY <4>1, <1>cb, Zenon
      <4>4. ASSUME NEW i \in 1 .. Gap(c, j) PROVE z[At(c, j) + i] = t[Pos(c, j) + i]
        <5>1. At(c, j) + i \in 1 .. ls /\ Pos(c, j) + i \in 1 .. lt
          BY <4>3, <1>4n
        <5>2. z[At(c, j) + i] = s[At(c, j) + i] /\ t[Pos(c, j) + i] = Text(c)[Pos(c, j) + i]
          BY <5>1, <1>tc, <1>zs, Zenon
        <5>. QED  BY <5>2, <4>31
      <4>5. At(c, j) + Gap(c, j) <= Len(z) /\ Pos(c, j) + Gap(c, j) <= Len(t)
        <5>1. ls <= Len(z) /\ lt <= Len(t) /\ Len(z) \in Nat /\ Len(t) \in Nat
          BY <1>10n, <1>4n
        <5>. QED  BY <5>1, <4>3, <1>4n
      <4>6. \A i \in 1 .. Gap(d, j) : z[At(d, j) + i] = t[Pos(d, j) + i]
        BY <4>2, <4>4, Zenon
      <4>7. /\ At(d, j) + Gap(d, j) <= Len(z) /\ Pos(d, j) + Gap(d, j) <= Len(t)
            /\ Pos(d, j) = PathAt(d, j) + Shared(d, j) /\ EndAt(d, j) <= Pos(d, j) + Gap(d, j)
            /\ (j > 0 => Pos(d, j) < EndAt(d, j))
        BY <4>2, <4>3, <4>5
      <4>. QED  BY <4>6, <4>7, Zenon
    <3>4. j \in 0 .. n - 1 \/ j = n \/ j = n + 1
      BY <1>4n
    <3>. QED  BY <3>1, <3>2, <3>3, <3>4, Zenon
  <2>. QED  BY <2>1, <1>8, <1>23, Zenon DEF ChartGaps
<1>17. ChartSteps(d, z)
  <2>. DEFINE p(j) == At(d, j) + Gap(d, j) + 1
  <2>1. ASSUME NEW j \in 0 .. n
        PROVE  /\ Gap(d, j) >= 1 /\ HasDiff(z, p(j))
               /\ DecodeDiff(z, p(j)) = Shared(d, j + 1) - Shared(d, j)
               /\ At(d, j + 1) = p(j) + DiffLen(z, p(j)) - 1
               /\ PathAt(d, j + 1) = Pos(d, j) + Gap(d, j)
               /\ PathAt(d, j) + Shared(d, j + 1) <= Pos(d, j) + Gap(d, j)
               /\ \A i \in 1 .. Shared(d, j + 1) : t[PathAt(d, j + 1) + i] = t[PathAt(d, j) + i]
    <3>1. CASE j = n
      <4>1. /\ At(d, j) = At(c, n) /\ Gap(d, j) = Gap(c, n) + lm + 1 /\ Pos(d, j) = Pos(c, n)
            /\ PathAt(d, j) = PathAt(c, n) /\ Shared(d, j) = Shared(c, n)
            /\ At(d, j + 1) = ls + lm + 1 + le /\ PathAt(d, j + 1) = lt + lm + 1 /\ Shared(d, j + 1) = x
        BY <3>1, <1>13n, <1>8, <1>8q, Zenon
      <4>2. p(j) = (ls + lm + 1) + 1
        BY <4>1, <1>4n, <1>12
      <4>3. HasDiff(z, p(j)) /\ DecodeDiff(z, p(j)) = x - Shared(c, n) /\ DiffLen(z, p(j)) = le
        <5>. DEFINE k == ls + lm + 1
        <5>1. k \in Nat /\ k + le <= Len(z) /\ p(j) = k + 1
          BY <1>10n, <4>2, <1>4n
        <5>2. \A i \in 1 .. le : z[k + i] = e[i]
          BY <1>ze
        <5>. HIDE DEF k
        <5>3. HasDiff(z, k + 1) /\ DecodeDiff(z, k + 1) = x - Shared(c, n) /\ DiffLen(z, k + 1) = le
          BY <5>1, <5>2, <1>5, <1>10, <1>23, Zenon
        <5>. QED  BY <5>1, <5>3
      <4>4. ASSUME NEW i \in 1 .. x PROVE t[PathAt(d, j + 1) + i] = t[PathAt(d, j) + i]
        <5>1. i \in 1 .. lp /\ PathAt(c, n) + i \in 1 .. lt
          BY <1>4n, <1>12
        <5>2. t[lt + lm + 1 + i] = path[i] /\ t[PathAt(c, n) + i] = Text(c)[PathAt(c, n) + i]
          BY <5>1, <1>tc, <1>tp, Zenon
        <5>3. path[i] = Text(c)[PathAt(c, n) + i]
          BY <1>23, Zenon DEF CanFollow
        <5>. QED  BY <5>2, <5>3, <4>1
      <4>5. PathAt(d, j) + x <= Pos(d, j) + Gap(d, j) /\ Gap(d, j) >= 1 /\ PathAt(d, j + 1) = Pos(d, j) + Gap(d, j)
        BY <4>1, <1>4n, <1>12
      <4>6. At(d, j + 1) = p(j) + le - 1
        BY <4>1, <4>2, <1>4n
      <4>. HIDE DEF p
      <4>7. DecodeDiff(z, p(j)) = Shared(d, j + 1) - Shared(d, j) /\ At(d, j + 1) = p(j) + DiffLen(z, p(j)) - 1
            /\ PathAt(d, j) + Shared(d, j + 1) <= Pos(d, j) + Gap(d, j)
        BY <4>1, <4>3, <4>5, <4>6
      <4>8. \A i \in 1 .. Shared(d, j + 1) : t[PathAt(d, j + 1) + i] = t[PathAt(d, j) + i]
        BY <4>1, <4>4, Zenon
      <4>. QED  BY <4>3, <4>5, <4>7, <4>8, Zenon
    <3>2. CASE j # n
      <4>1. j \in 0 .. n - 1 /\ j \in 0 .. n /\ j + 1 \in 0 .. n
        BY <3>2, <1>4n
      <4>2. /\ At(d, j) = At(c, j) /\ Gap(d, j) = Gap(c, j) /\ Pos(d, j) = Pos(c, j)
            /\ PathAt(d, j) = PathAt(c, j) /\ Shared(d, j) = Shared(c, j)
            /\ At(d, j + 1) = At(c, j + 1) /\ PathAt(d, j + 1) = PathAt(c, j + 1) /\ Shared(d, j + 1) = Shared(c, j + 1)
        BY <4>1, <1>8q, <1>8g, Zenon
      <4>30. p(j) = At(c, j) + Gap(c, j) + 1
        BY <4>2
      <4>. HIDE DEF p
      <4>3. /\ Gap(c, j) >= 1 /\ HasDiff(s, p(j))
            /\ DecodeDiff(s, p(j)) = Shared(c, j + 1) - Shared(c, j)
            /\ At(c, j + 1) = p(j) + DiffLen(s, p(j)) - 1
            /\ PathAt(c, j + 1) = Pos(c, j) + Gap(c, j)
            /\ PathAt(c, j) + Shared(c, j + 1) <= Pos(c, j) + Gap(c, j)
            /\ \A i \in 1 .. Shared(c, j + 1) : Text(c)[PathAt(c, j + 1) + i] = Text(c)[PathAt(c, j) + i]
        BY <4>1, <4>30, <1>1, <1>23, Zenon DEF ChartSteps
      <4>4. /\ At(c, j) \in Nat /\ Gap(c, j) \in Nat /\ PathAt(c, j) \in Nat /\ Pos(c, j) \in Nat
            /\ Shared(c, j + 1) \in Nat /\ PathAt(c, j + 1) \in Nat
            /\ Pos(c, j + 1) = PathAt(c, j + 1) + Shared(c, j + 1) /\ Pos(c, j + 1) + Gap(c, j + 1) <= lt
            /\ Gap(c, j + 1) \in Nat /\ Pos(c, j) + Gap(c, j) <= lt
        BY <4>1, <1>ct, <1>cg, Zenon
      <4>5. HasDiff(z, p(j)) /\ DecodeDiff(z, p(j)) = DecodeDiff(s, p(j)) /\ DiffLen(z, p(j)) = DiffLen(s, p(j))
        <5>1. p(j) \in Nat \ {0}
          BY <4>30, <4>4
        <5>2. Len(s) <= Len(z)
          BY <1>10n, <1>4n, <1>23
        <5>3. s \in Seq(Int) /\ z \in Seq(Int) /\ \A i \in 1 .. Len(s) : z[i] = s[i]
          BY <1>4, <1>10, <1>zs, <1>23
        <5>. QED  BY <5>1, <5>2, <5>3, <4>3, SameDiff
      <4>6. ASSUME NEW i \in 1 .. Shared(c, j + 1)
            PROVE  t[PathAt(c, j + 1) + i] = t[PathAt(c, j) + i]
        <5>0. /\ PathAt(c, j + 1) = Pos(c, j) + Gap(c, j)
              /\ PathAt(c, j) + Shared(c, j + 1) <= Pos(c, j) + Gap(c, j)
          BY <4>3
        <5>1. PathAt(c, j + 1) + i \in 1 .. lt /\ PathAt(c, j) + i \in 1 .. lt
          BY <5>0, <4>4, <1>4n
        <5>2. t[PathAt(c, j + 1) + i] = Text(c)[PathAt(c, j + 1) + i] /\ t[PathAt(c, j) + i] = Text(c)[PathAt(c, j) + i]
          BY <5>1, <1>tc, Zenon
        <5>3. Text(c)[PathAt(c, j + 1) + i] = Text(c)[PathAt(c, j) + i]
          BY <4>3, Zenon
        <5>. QED  BY <5>2, <5>3, Zenon
      <4>7. \A i \in 1 .. Shared(d, j + 1) : t[PathAt(d, j + 1) + i] = t[PathAt(d, j) + i]
        BY <4>2, <4>6, Zenon
      <4>. QED  BY <4>2, <4>3, <4>5, <4>7, Zenon
    <3>. QED  BY <3>1, <3>2
  <2>2. LineCount(d) - 1 = n
    BY <1>4n, <1>8
  <2>. QED  BY <2>1, <2>2, <1>23, Zenon DEF ChartSteps
<1>18. ChartOrder(d)
  <2>1. ASSUME NEW j \in 0 .. n + 1, NEW k \in 0 .. n + 1, j < k PROVE EndAt(d, j) < PathAt(d, k)
    <3>1. j \in 0 .. n
      BY <2>1, <1>4n
    <3>10. EndAt(d, j) = EndAt(c, j)
      BY <3>1, <1>8q
    <3>2. EndAt(c, j) <= lt /\ EndAt(c, j) \in Nat
      <4>1. EndAt(c, j) <= Pos(c, j) + Gap(c, j) /\ Pos(c, j) + Gap(c, j) <= lt /\ EndAt(c, j) \in Nat
            /\ Pos(c, j) \in Nat /\ Gap(c, j) \in Nat
        BY <3>1, <1>cg, <1>ct, Zenon
      <4>. QED  BY <4>1, <1>4n
    <3>3. CASE k = n + 1
      <4>1. PathAt(d, k) = lt + lm + 1
        BY <3>3, <1>8
      <4>. QED  BY <4>1, <3>10, <3>2, <1>4n
    <3>4. CASE k \in 0 .. n
      <4>1. PathAt(d, k) = PathAt(c, k)
        BY <3>4, <1>8q
      <4>2. EndAt(c, j) < PathAt(c, k)
        BY <2>1, <3>1, <3>4, <1>1, <1>23, Zenon DEF ChartOrder
      <4>. QED  BY <4>1, <4>2, <3>10
    <3>. QED  BY <3>3, <3>4, <1>13
  <2>. QED  BY <2>1, <1>8, Zenon DEF ChartOrder
<1>19. ChartBytes(d)
  <2>1. \A j \in 1 .. n : PathAt(c, j) < lt + 1 /\ EndAt(c, j) < lt + 1 /\ PathAt(c, j) \in Nat /\ EndAt(c, j) \in Nat
    <3>. SUFFICES ASSUME NEW j \in 1 .. n
                  PROVE  PathAt(c, j) < lt + 1 /\ EndAt(c, j) < lt + 1 /\ PathAt(c, j) \in Nat /\ EndAt(c, j) \in Nat
      OBVIOUS
    <3>1. j \in 0 .. n
      BY <1>4n
    <3>2. /\ Pos(c, j) = PathAt(c, j) + Shared(c, j) /\ Pos(c, j) + Gap(c, j) <= lt /\ EndAt(c, j) <= Pos(c, j) + Gap(c, j)
          /\ PathAt(c, j) \in Nat /\ Shared(c, j) \in Nat /\ Gap(c, j) \in Nat /\ EndAt(c, j) \in Nat /\ Pos(c, j) \in Nat
      BY <3>1, <1>cg, <1>ct, Zenon
    <3>. QED  BY <3>2, <1>4n
  <2>2. \A j \in 1 .. n : PathAt(d, j) = PathAt(c, j) /\ EndAt(d, j) = EndAt(c, j)
    <3>1. \A j \in 1 .. n : j \in 0 .. n
      BY <1>4n
    <3>. QED  BY <3>1, <1>8q, Zenon
  <2>30. /\ n + 1 \in 1 .. n + 1
         /\ \A j \in 1 .. n + 1 : j \in 1 .. n \/ j = n + 1
         /\ \A j \in 1 .. n : j \in 1 .. n + 1
    BY <1>4n
  <2>3. ASSUME NEW y \in 1 .. Len(t)
        PROVE  /\ t[y] = Nul <=> \E j \in 1 .. n + 1 : y = PathAt(d, j)
               /\ t[y] = Newline <=> \E j \in 1 .. n + 1 : y = EndAt(d, j)
    <3>1. /\ PathAt(d, n + 1) = lt + lm + 1 /\ EndAt(d, n + 1) = lt + lm + 1 + lp + 1
          /\ y \in Nat /\ y >= 1 /\ y <= lt + lm + 1 + lp + 1
      BY <1>4n, <1>8, <1>10n
    <3>2. CASE y <= lt
      <4>1. y \in 1 .. lt
        BY <3>1, <3>2, <1>4n
      <4>2. t[y] = Text(c)[y]
        BY <4>1, <1>tc
      <4>3. /\ Text(c)[y] = Nul <=> \E j \in 1 .. n : y = PathAt(c, j)
            /\ Text(c)[y] = Newline <=> \E j \in 1 .. n : y = EndAt(c, j)
        BY <4>1, <1>1, <1>23, Zenon DEF ChartBytes
      <4>4. y # PathAt(d, n + 1) /\ y # EndAt(d, n + 1)
        BY <3>1, <3>2, <1>4n
      <4>. QED  BY <4>2, <4>3, <4>4, <2>30, <2>2, Zenon
    <3>3. CASE y > lt
      <4>1. \A j \in 1 .. n : y # PathAt(d, j) /\ y # EndAt(d, j)
        <5>. SUFFICES ASSUME NEW j \in 1 .. n PROVE y # PathAt(d, j) /\ y # EndAt(d, j)
          OBVIOUS
        <5>1. PathAt(c, j) < lt + 1 /\ EndAt(c, j) < lt + 1 /\ PathAt(c, j) \in Nat /\ EndAt(c, j) \in Nat
              /\ PathAt(d, j) = PathAt(c, j) /\ EndAt(d, j) = EndAt(c, j)
          BY <2>1, <2>2, Zenon
        <5>. QED  BY <5>1, <3>1, <3>3, <1>4n
      <4>2. (\E j \in 1 .. n + 1 : y = PathAt(d, j)) <=> y = PathAt(d, n + 1)
        BY <4>1, <2>30, Zenon
      <4>3. (\E j \in 1 .. n + 1 : y = EndAt(d, j)) <=> y = EndAt(d, n + 1)
        BY <4>1, <2>30, Zenon
      <4>5. CASE y = lt + lm + 1
        <5>1. y = PathAt(d, n + 1) /\ y # EndAt(d, n + 1)
          BY <4>5, <3>1, <1>4n
        <5>2. t[y] = Nul
          BY <4>5, <1>tn
        <5>. QED  BY <5>1, <5>2, <4>2, <4>3, <1>2, Zenon
      <4>6. CASE y = lt + lm + 1 + lp + 1
        <5>1. y # PathAt(d, n + 1) /\ y = EndAt(d, n + 1)
          BY <4>6, <3>1, <1>4n
        <5>2. t[y] = Newline
          BY <4>6, <1>tn
        <5>. QED  BY <5>1, <5>2, <4>2, <4>3, <1>2, Zenon
      <4>7. CASE y < lt + lm + 1
        <5>. DEFINE i == y - lt
        <5>1. i \in 1 .. lm /\ y = lt + i
          BY <4>7, <3>1, <3>3, <1>4n
        <5>. HIDE DEF i
        <5>2. t[y] = meta[i] /\ i \in 1 .. Len(meta)
          BY <5>1, <1>tm, <1>23
        <5>3. t[y] # Nul /\ t[y] # Newline
          BY <5>1, <5>2, <1>3, Zenon
        <5>4. y # PathAt(d, n + 1) /\ y # EndAt(d, n + 1)
          BY <4>7, <3>1, <1>4n
        <5>. QED  BY <5>3, <5>4, <4>2, <4>3, Zenon
      <4>8. CASE y > lt + lm + 1 /\ y # lt + lm + 1 + lp + 1
        <5>. DEFINE i == y - (lt + lm + 1)
        <5>1. i \in 1 .. lp /\ y = lt + lm + 1 + i
          BY <4>8, <3>1, <3>3, <1>4n
        <5>. HIDE DEF i
        <5>2. t[y] = path[i] /\ i \in 1 .. Len(path)
          BY <5>1, <1>tp, <1>23
        <5>3. t[y] # Nul /\ t[y] # Newline
          BY <5>1, <5>2, <1>3, Zenon
        <5>4. y # PathAt(d, n + 1) /\ y # EndAt(d, n + 1)
          BY <4>8, <3>1, <1>4n
        <5>. QED  BY <5>3, <5>4, <4>2, <4>3, Zenon
      <4>. QED  BY <4>5, <4>6, <4>7, <4>8, <3>1, <1>4n
    <3>. QED  BY <3>2, <3>3, <3>1, <1>4n
  <2>4. LineCount(d) = n + 1 /\ Text(d) = t
    BY <1>8, <1>23
  <2>. QED  BY <2>3, <2>4, Zenon DEF ChartBytes
<1>20. Follows(c, d, meta, path, x)
  <2>1. Says(d, n + 1, meta, path)
    <3>1. n + 1 - 1 = n /\ EndAt(d, n) = lt
      BY <1>4n, <1>13n, <1>8q, <1>12
    <3>2. /\ PathAt(d, n + 1) = EndAt(d, n) + lm + 1 /\ EndAt(d, n + 1) = PathAt(d, n + 1) + lp + 1
      BY <3>1, <1>8
    <3>3. \A i \in 1 .. lp : Text(d)[PathAt(d, n + 1) + i] = path[i]
      BY <1>8, <1>tp, <1>23
    <3>4. \A i \in 1 .. lm : Text(d)[EndAt(d, n) + i] = meta[i]
      BY <3>1, <1>tm, <1>23
    <3>5. lm = Len(meta) /\ lp = Len(path)
      BY <1>23, Zenon
    <3>6. PathAt(d, n + 1) = EndAt(d, n) + Len(meta) + 1 /\ EndAt(d, n + 1) = PathAt(d, n + 1) + Len(path) + 1
      BY <3>2, <3>5
    <3>. DEFINE q == n + 1
    <3>q. q - 1 = n
      BY <1>4n
    <3>7. \A i \in 1 .. Len(path) : Text(d)[PathAt(d, q) + i] = path[i]
      BY <3>3, <3>5, Zenon
    <3>8. \A i \in 1 .. Len(meta) : Text(d)[EndAt(d, q - 1) + i] = meta[i]
      BY <3>4, <3>5, <3>q, Zenon
    <3>9. PathAt(d, q) = EndAt(d, q - 1) + Len(meta) + 1 /\ EndAt(d, q) = PathAt(d, q) + Len(path) + 1
      BY <3>6, <3>q, Zenon
    <3>. HIDE DEF q
    <3>10. Says(d, q, meta, path)
      BY <3>7, <3>8, <3>9, Zenon DEF Says
    <3>. QED  BY <3>10 DEF q
  <2>2. Len(Text(d)) >= Len(Text(c))
    BY <1>4n, <1>10n, <1>23
  <2>3. LineCount(d) = LineCount(c) + 1 /\ Shared(d, LineCount(d)) = x
    BY <1>8, <1>23
  <2>4. \A j \in 0 .. LineCount(c) : EndAt(d, j) = EndAt(c, j) /\ PathAt(d, j) = PathAt(c, j) /\ Shared(d, j) = Shared(c, j)
    BY <1>8q, <1>23
  <2>. QED  BY <2>1, <2>2, <2>3, <2>4, <1>8, <1>tc, <1>23, Zenon DEF Follows
<1>21. Chart(d, z)
  BY <1>14, <1>15, <1>16, <1>17, <1>18, <1>19, Zenon DEF Chart
<1>22. z = s \o WriteLine(meta, x - Shared(c, LineCount(c)), SubSeq(path, x + 1, Len(path)))
  BY DEF z, r
<1>. QED  BY <1>20, <1>21, <1>22, Zenon

----------------------------------------------------------------------------
(***************************************************************************)
(* What a chart says of its lines, and windows on the text.                *)
(***************************************************************************)

\* A finite set of numbers has a least member ...
LEMMA Smallest ==
  ASSUME NEW T, T \subseteq Nat, T # {}
  PROVE  \E i \in T : \A j \in T : i <= j
<1>1. PICK i \in T : \A j \in T : ~ (<<j, i>> \in OpToRel(<, Nat))
  BY NatLessThanWellFounded, WFMin
<1>2. \A j \in Nat : <<j, i>> \in OpToRel(<, Nat) <=> j < i
  BY <1>1 DEF OpToRel
<1>. HIDE DEF OpToRel
<1>3. ASSUME NEW j \in T PROVE i <= j
  <2>1. ~(j < i) /\ i \in Nat /\ j \in Nat
    BY <1>1, <1>2
  <2>. QED  BY <2>1
<1>. QED  BY <1>3

\* ... and a greatest.
LEMMA Greatest ==
  ASSUME NEW n \in Nat, NEW T, T \subseteq 0 .. n, T # {}
  PROVE  \E i \in T : \A j \in T : j <= i
<1>. DEFINE U == {k \in Nat : k <= n /\ n - k \in T}
<1>1. U \subseteq Nat /\ U # {}
  <2>1. PICK i \in T : TRUE
    OBVIOUS
  <2>2. i \in 0 .. n
    BY <2>1
  <2>3. n - i \in Nat /\ n - i <= n /\ n - (n - i) = i
    BY <2>2
  <2>4. n - i \in U
    BY <2>1, <2>3
  <2>. QED  BY <2>4
<1>2. PICK k \in U : \A l \in U : k <= l
  <2>. HIDE DEF U
  <2>. QED  BY <1>1, Smallest
<1>3. n - k \in T
  BY <1>2
<1>4. ASSUME NEW j \in T PROVE j <= n - k
  <2>1. j \in 0 .. n
    OBVIOUS
  <2>2. n - j \in Nat /\ n - j <= n /\ n - (n - j) = j
    BY <2>1
  <2>3. n - j \in U
    BY <2>2
  <2>4. k <= n - j /\ k \in Nat
    BY <1>2, <2>3
  <2>. QED  BY <2>1, <2>4
<1>. QED  BY <1>3, <1>4

\* The numbers of a line, and how they are ordered.
LEMMA LineNumbers ==
  ASSUME NEW c, NEW s, Chart(c, s), NEW j \in 0 .. LineCount(c)
  PROVE  /\ LineCount(c) \in Nat /\ j \in Nat /\ j <= LineCount(c) /\ Len(s) \in Nat /\ Len(Text(c)) \in Nat
         /\ At(c, j) \in Nat /\ Pos(c, j) \in Nat /\ Gap(c, j) \in Nat
         /\ Shared(c, j) \in Nat /\ PathAt(c, j) \in Nat /\ EndAt(c, j) \in Nat
         /\ At(c, j) + Gap(c, j) <= Len(s) /\ Pos(c, j) + Gap(c, j) <= Len(Text(c))
         /\ Pos(c, j) = PathAt(c, j) + Shared(c, j) /\ EndAt(c, j) <= Pos(c, j) + Gap(c, j)
         /\ (j > 0 => Pos(c, j) < EndAt(c, j)) /\ (j = 0 => EndAt(c, j) = 0 /\ PathAt(c, j) = 0)
         /\ PathAt(c, j) <= EndAt(c, j)
<1>1. ChartTyped(c, s) /\ ChartGaps(c, s) /\ ChartEnds(c, s)
  BY DEF Chart
<1>2. LineCount(c) \in Nat /\ Len(s) \in Nat /\ Len(Text(c)) \in Nat
  BY <1>1, LenProperties DEF ChartTyped
<1>3. j \in Nat /\ j <= LineCount(c)
  BY <1>2
<1>4. /\ At(c, j) \in Nat /\ Pos(c, j) \in Nat /\ Gap(c, j) \in Nat
      /\ Shared(c, j) \in Nat /\ PathAt(c, j) \in Nat /\ EndAt(c, j) \in Nat
  BY <1>1, Zenon DEF ChartTyped
<1>5. /\ At(c, j) + Gap(c, j) <= Len(s) /\ Pos(c, j) + Gap(c, j) <= Len(Text(c))
      /\ Pos(c, j) = PathAt(c, j) + Shared(c, j) /\ EndAt(c, j) <= Pos(c, j) + Gap(c, j)
      /\ (j > 0 => Pos(c, j) < EndAt(c, j))
  BY <1>1, Zenon DEF ChartGaps
<1>6. j = 0 => EndAt(c, j) = 0 /\ PathAt(c, j) = 0
  BY <1>1, Zenon DEF ChartEnds
<1>7. PathAt(c, j) <= EndAt(c, j)
  BY <1>3, <1>4, <1>5, <1>6
<1>. QED  BY <1>2, <1>3, <1>4, <1>5, <1>6, <1>7, Zenon

\* How the line behind line j is reached.
LEMMA NextLine ==
  ASSUME NEW c, NEW s, Chart(c, s), NEW j \in 0 .. LineCount(c), j < LineCount(c)
  PROVE  /\ j + 1 \in 0 .. LineCount(c) /\ j + 1 \in 1 .. LineCount(c)
         /\ Gap(c, j) >= 1 /\ HasDiff(s, At(c, j) + Gap(c, j) + 1)
         /\ DecodeDiff(s, At(c, j) + Gap(c, j) + 1) = Shared(c, j + 1) - Shared(c, j)
         /\ At(c, j + 1) = At(c, j) + Gap(c, j) + 1 + DiffLen(s, At(c, j) + Gap(c, j) + 1) - 1
         /\ At(c, j + 1) > At(c, j) + Gap(c, j)
         /\ PathAt(c, j + 1) = Pos(c, j) + Gap(c, j)
         /\ PathAt(c, j) + Shared(c, j + 1) <= PathAt(c, j + 1)
         /\ s[At(c, j) + Gap(c, j)] = Nul
<1>0. LineCount(c) \in Nat /\ j \in Nat /\ At(c, j) \in Nat /\ Gap(c, j) \in Nat /\ Pos(c, j) \in Nat
      /\ Pos(c, j) + Gap(c, j) <= Len(Text(c))
  BY LineNumbers
<1>1. j + 1 \in 0 .. LineCount(c) /\ j + 1 \in 1 .. LineCount(c) /\ j \in 0 .. LineCount(c) - 1
  BY <1>0
<1>2. ChartSteps(c, s) /\ ChartBytes(c) /\ ChartGaps(c, s)
  BY DEF Chart
<1>3. /\ Gap(c, j) >= 1 /\ HasDiff(s, At(c, j) + Gap(c, j) + 1)
      /\ DecodeDiff(s, At(c, j) + Gap(c, j) + 1) = Shared(c, j + 1) - Shared(c, j)
      /\ At(c, j + 1) = At(c, j) + Gap(c, j) + 1 + DiffLen(s, At(c, j) + Gap(c, j) + 1) - 1
      /\ PathAt(c, j + 1) = Pos(c, j) + Gap(c, j)
      /\ PathAt(c, j) + Shared(c, j + 1) <= Pos(c, j) + Gap(c, j)
  BY <1>1, <1>2, Zenon DEF ChartSteps
<1>4. DiffLen(s, At(c, j) + Gap(c, j) + 1) \in {1, 3}
  BY DEF DiffLen
<1>5. At(c, j + 1) > At(c, j) + Gap(c, j)
  BY <1>0, <1>3, <1>4
<1>6. PathAt(c, j) + Shared(c, j + 1) <= PathAt(c, j + 1)
  BY <1>3, Zenon
<1>7. s[At(c, j) + Gap(c, j)] = Text(c)[Pos(c, j) + Gap(c, j)]
  <2>1. Gap(c, j) \in 1 .. Gap(c, j)
    BY <1>0, <1>3
  <2>. QED  BY <2>1, <1>2, Zenon DEF ChartGaps
<1>8. Text(c)[Pos(c, j) + Gap(c, j)] = Nul
  <2>1. Pos(c, j) + Gap(c, j) \in 1 .. Len(Text(c))
    BY <1>0, <1>3
  <2>. QED  BY <1>1, <2>1, <1>2, <1>3, Zenon DEF ChartBytes
<1>. QED  BY <1>1, <1>3, <1>5, <1>6, <1>7, <1>8, Zenon

\* Lines follow each other.
LEMMA LinesFollow ==
  ASSUME NEW c, NEW s, Chart(c, s), NEW j \in 0 .. LineCount(c), NEW k \in 0 .. LineCount(c)
  PROVE  /\ j < k => EndAt(c, j) < PathAt(c, k) /\ PathAt(c, k) < EndAt(c, k) /\ PathAt(c, j) < PathAt(c, k) /\ EndAt(c, j) < EndAt(c, k)
         /\ j <= k => EndAt(c, j) <= EndAt(c, k) /\ PathAt(c, j) <= PathAt(c, k)
<1>1. /\ j \in Nat /\ k \in Nat /\ PathAt(c, j) \in Nat /\ EndAt(c, j) \in Nat /\ PathAt(c, k) \in Nat /\ EndAt(c, k) \in Nat
      /\ PathAt(c, j) <= EndAt(c, j)
      /\ Pos(c, k) = PathAt(c, k) + Shared(c, k) /\ (k > 0 => Pos(c, k) < EndAt(c, k)) /\ Shared(c, k) \in Nat
  BY LineNumbers
<1>2. j < k => EndAt(c, j) < PathAt(c, k)
  BY DEF Chart, ChartOrder
<1>. QED  BY <1>1, <1>2

\* Behind the last line the bytes and the text end.
LEMMA LastOfChart ==
  ASSUME NEW c, NEW s, Chart(c, s)
  PROVE  /\ LineCount(c) \in 0 .. LineCount(c) /\ 0 \in 0 .. LineCount(c) /\ At(c, LineCount(c)) + Gap(c, LineCount(c)) = Len(s)
         /\ Pos(c, LineCount(c)) + Gap(c, LineCount(c)) = Len(Text(c)) /\ EndAt(c, LineCount(c)) = Len(Text(c))
<1>1. LineCount(c) \in Nat
  BY DEF Chart, ChartTyped
<1>. QED  BY <1>1 DEF Chart, ChartEnds

\* Where the NULs and the newlines of the text are.
LEMMA Separates ==
  ASSUME NEW c, NEW s, Chart(c, s), NEW x \in 1 .. Len(Text(c))
  PROVE  /\ Text(c)[x] = Nul <=> \E j \in 1 .. LineCount(c) : x = PathAt(c, j)
         /\ Text(c)[x] = Newline <=> \E j \in 1 .. LineCount(c) : x = EndAt(c, j)
BY DEF Chart, ChartBytes

----------------------------------------------------------------------------

\* How long a window is.
LEMMA WindowLen ==
  ASSUME NEW t, NEW b, NEW f, Window(t, b, f)
  PROVE  b \in Nat /\ Len(f) \in Nat /\ Len(t) \in Nat /\ b + Len(f) <= Len(t) /\ t \in Seq(Int) /\ f \in Seq(Int)
BY DEF Window

\* A window, and one behind it.
LEMMA WindowConcat ==
  ASSUME NEW t, NEW b, NEW f, Window(t, b, f), NEW g, Window(t, b + Len(f), g)
  PROVE  Window(t, b, f \o g) /\ Len(f \o g) = Len(f) + Len(g)
<1>1. /\ t \in Seq(Int) /\ f \in Seq(Int) /\ b \in Nat /\ b + Len(f) <= Len(t)
      /\ \A i \in 1 .. Len(f) : f[i] = t[b + i]
      /\ g \in Seq(Int) /\ b + Len(f) + Len(g) <= Len(t)
      /\ \A i \in 1 .. Len(g) : g[i] = t[b + Len(f) + i]
  BY Zenon DEF Window
<1>. DEFINE h == f \o g
<1>2. /\ h \in Seq(Int) /\ Len(h) = Len(f) + Len(g) /\ Len(f) \in Nat /\ Len(g) \in Nat
      /\ \A i \in 1 .. Len(f) : h[i] = f[i]
      /\ \A i \in 1 .. Len(g) : h[Len(f) + i] = g[i]
  BY <1>1, ConcatAt
<1>. HIDE DEF h
<1>3. ASSUME NEW i \in 1 .. Len(h) PROVE h[i] = t[b + i]
  <2>1. CASE i <= Len(f)
    <3>1. i \in 1 .. Len(f)
      BY <1>2, <2>1
    <3>. QED  BY <3>1, <1>1, <1>2, Zenon
  <2>2. CASE i > Len(f)
    <3>. DEFINE l == i - Len(f)
    <3>1. l \in 1 .. Len(g) /\ Len(f) + l = i /\ b + Len(f) + l = b + i
      BY <1>1, <1>2, <2>2
    <3>. HIDE DEF l
    <3>2. h[Len(f) + l] = g[l] /\ g[l] = t[b + Len(f) + l]
      BY <3>1, <1>1, <1>2, Zenon
    <3>. QED  BY <3>1, <3>2
  <2>. QED  BY <1>2, <2>1, <2>2
<1>4. b + Len(h) <= Len(t)
  <2>1. b + Len(f) + Len(g) <= Len(t) /\ b \in Nat
    BY <1>1
  <2>. QED  BY <1>2, <2>1
<1>5. Window(t, b, h)
  BY <1>1, <1>2, <1>3, <1>4, Zenon DEF Window
<1>. QED  BY <1>2, <1>5, Zenon DEF h

\* A part of a sequence.
LEMMA Sub ==
  ASSUME NEW f \in Seq(Int), NEW m \in Nat, NEW l \in Nat, m <= l, l <= Len(f)
  PROVE  /\ SubSeq(f, m + 1, l) \in Seq(Int) /\ Len(SubSeq(f, m + 1, l)) = l - m
         /\ \A i \in 1 .. l - m : SubSeq(f, m + 1, l)[i] = f[m + i]
BY SMTT(60)

\* A part of a window.
LEMMA WindowSub ==
  ASSUME NEW t, NEW b, NEW f, Window(t, b, f), NEW m \in Nat, NEW l \in Nat, m <= l, l <= Len(f)
  PROVE  Window(t, b + m, SubSeq(f, m + 1, l)) /\ Len(SubSeq(f, m + 1, l)) = l - m
<1>1. /\ t \in Seq(Int) /\ f \in Seq(Int) /\ b \in Nat /\ b + Len(f) <= Len(t)
      /\ \A i \in 1 .. Len(f) : f[i] = t[b + i]
  BY Zenon DEF Window
<1>. DEFINE h == SubSeq(f, m + 1, l)
<1>2. /\ h \in Seq(Int) /\ Len(h) = l - m /\ \A i \in 1 .. l - m : h[i] = f[m + i]
  BY <1>1, Sub
<1>. HIDE DEF h
<1>3. Len(f) \in Nat /\ Len(t) \in Nat
  BY <1>1
<1>4. ASSUME NEW i \in 1 .. Len(h) PROVE h[i] = t[b + m + i]
  <2>1. i \in 1 .. l - m /\ m + i \in 1 .. Len(f) /\ b + (m + i) = b + m + i
    BY <1>1, <1>2, <1>3
  <2>2. h[i] = f[m + i] /\ f[m + i] = t[b + (m + i)]
    BY <2>1, <1>1, <1>2, Zenon
  <2>. QED  BY <2>1, <2>2
<1>5. b + m \in Nat /\ b + m + Len(h) <= Len(t)
  <2>1. b \in Nat /\ b + Len(f) <= Len(t) /\ Len(h) = l - m
    BY <1>1, <1>2
  <2>. QED  BY <2>1, <1>3
<1>6. Window(t, b + m, h)
  BY <1>1, <1>2, <1>4, <1>5, Zenon DEF Window
<1>. QED  BY <1>2, <1>6, Zenon DEF h

\* The same bytes elsewhere.
LEMMA WindowMove ==
  ASSUME NEW s, NEW x, NEW f, Window(s, x, f), NEW t \in Seq(Int), NEW y \in Nat, y + Len(f) <= Len(t),
         \A i \in 1 .. Len(f) : t[y + i] = s[x + i]
  PROVE  Window(t, y, f)
BY Zenon DEF Window

\* A part of the text is a window on it.
LEMMA WindowWhole ==
  ASSUME NEW t \in Seq(Int), NEW b \in Nat, NEW l \in Nat, b + l <= Len(t)
  PROVE  Window(t, b, SubSeq(t, b + 1, b + l)) /\ Len(SubSeq(t, b + 1, b + l)) = l
<1>1. Len(t) \in Nat
  OBVIOUS
<1>2. Window(t, 0, t)
  BY <1>1 DEF Window
<1>3. b <= b + l /\ b + l \in Nat /\ 0 + b = b /\ b + l - b = l
  OBVIOUS
<1>4. Window(t, 0 + b, SubSeq(t, b + 1, b + l)) /\ Len(SubSeq(t, b + 1, b + l)) = b + l - b
  BY <1>2, <1>3, WindowSub
<1>. QED  BY <1>3, <1>4

\* Two windows on the same place.
LEMMA WindowSame ==
  ASSUME NEW t, NEW b, NEW f, Window(t, b, f), NEW g, Window(t, b, g), Len(f) = Len(g)
  PROVE  f = g
<1>1. f \in Seq(Int) /\ g \in Seq(Int) /\ \A i \in 1 .. Len(f) : f[i] = g[i]
  BY Zenon DEF Window
<1>. QED  BY <1>1

----------------------------------------------------------------------------
(***************************************************************************)
(* The first and the last separator of the buffer, and what a call         *)
(* returns.                                                                *)
(***************************************************************************)

\* Where the first and the last v of f is, if there is one.
IsFirst(f, v, k) ==
  \/ k = 0 /\ \A i \in 1 .. Len(f) : f[i] # v
  \/ k \in 1 .. Len(f) /\ f[k] = v /\ \A i \in 1 .. k - 1 : f[i] # v
IsLast(f, v, k) ==
  \/ k = 0 /\ \A i \in 1 .. Len(f) : f[i] # v
  \/ k \in 1 .. Len(f) /\ f[k] = v /\ \A i \in k + 1 .. Len(f) : f[i] # v

Places(f, v) == {i \in 1 .. Len(f) : f[i] = v}
FirstAt(f, v) == IF Places(f, v) # {} THEN Min(Places(f, v)) ELSE 0
LastAt(f, v) == IF Places(f, v) # {} THEN Max(Places(f, v)) ELSE 0

\* SelectInSeq finds the first.
LEMMA FirstFound ==
  ASSUME NEW f \in Seq(Int), NEW v
  PROVE  IsFirst(f, v, FirstAt(f, v))
<1>. DEFINE I == {i \in 1 .. Len(f) : f[i] = v}
            k == FirstAt(f, v)
<1>1. k = IF I # {} THEN Min(I) ELSE 0
  BY DEF FirstAt, Places
<1>n. Len(f) \in Nat
  OBVIOUS
<1>. HIDE DEF k
<1>2. ASSUME I = {} PROVE IsFirst(f, v, k)
  BY <1>1, <1>2 DEF IsFirst
<1>3. ASSUME I # {} PROVE IsFirst(f, v, k)
  <2>1. PICK m \in I : \A i \in I : m <= i
    <3>1. I \subseteq Nat
      BY <1>n
    <3>. HIDE DEF I
    <3>. QED  BY <1>3, <3>1, Smallest
  <2>2. \E x : x \in I /\ \A y \in I : x =< y
    BY <2>1, Zenon
  <2>3. k \in I /\ \A y \in I : k =< y
    BY <1>1, <1>3, <2>2, Zenon DEF Min
  <2>4. ASSUME NEW i \in 1 .. k - 1 PROVE f[i] # v
    <3>1. k \in 1 .. Len(f)
      BY <2>3
    <3>2. i \in 1 .. Len(f) /\ ~(k <= i)
      BY <3>1, <1>n
    <3>. QED  BY <2>3, <3>2
  <2>5. k \in 1 .. Len(f) /\ f[k] = v
    BY <2>3
  <2>. QED  BY <2>4, <2>5, Zenon DEF IsFirst
<1>4. IsFirst(f, v, k)
  BY <1>2, <1>3
<1>. QED  BY <1>4 DEF k

\* SelectLastInSeq finds the last.
LEMMA LastFound ==
  ASSUME NEW f \in Seq(Int), NEW v
  PROVE  IsLast(f, v, LastAt(f, v))
<1>. DEFINE I == {i \in 1 .. Len(f) : f[i] = v}
            k == LastAt(f, v)
<1>1. k = IF I # {} THEN Max(I) ELSE 0
  BY DEF LastAt, Places
<1>n. Len(f) \in Nat
  OBVIOUS
<1>. HIDE DEF k
<1>2. ASSUME I = {} PROVE IsLast(f, v, k)
  BY <1>1, <1>2 DEF IsLast
<1>3. ASSUME I # {} PROVE IsLast(f, v, k)
  <2>1. PICK m \in I : \A i \in I : i <= m
    <3>1. I \subseteq 0 .. Len(f)
      BY <1>n
    <3>. HIDE DEF I
    <3>. QED  BY <1>3, <1>n, <3>1, Greatest
  <2>2. \E x : x \in I /\ \A y \in I : x >= y
    <3>1. \A i \in I : m >= i
      <4>1. \A i \in I : i \in Nat
        BY <1>n
      <4>2. m \in Nat
        BY <1>n, <2>1
      <4>. HIDE DEF I
      <4>. QED  BY <2>1, <4>1, <4>2
    <3>. QED  BY <2>1, <3>1, Zenon
  <2>3. k \in I /\ \A y \in I : k >= y
    BY <1>1, <1>3, <2>2, Zenon DEF Max
  <2>4. ASSUME NEW i \in k + 1 .. Len(f) PROVE f[i] # v
    <3>1. k \in 1 .. Len(f)
      BY <2>3
    <3>2. i \in 1 .. Len(f) /\ ~(k >= i)
      BY <3>1, <1>n
    <3>. QED  BY <2>3, <3>2
  <2>5. k \in 1 .. Len(f) /\ f[k] = v
    BY <2>3
  <2>. QED  BY <2>4, <2>5, Zenon DEF IsLast
<1>4. IsLast(f, v, k)
  BY <1>2, <1>3
<1>. QED  BY <1>4 DEF k

----------------------------------------------------------------------------

\* The last line that ends within the first w of the text.
LEMMA LastEnded ==
  ASSUME NEW c, NEW s, Chart(c, s), NEW r \in 0 .. LineCount(c), NEW w \in Nat, EndAt(c, r) <= w
  PROVE  \E k \in r .. LineCount(c) : k \in 0 .. LineCount(c) /\ EndAt(c, k) <= w /\ (k < LineCount(c) => w < EndAt(c, k + 1))
<1>. DEFINE T == {k \in r .. LineCount(c) : EndAt(c, k) <= w}
<1>1. LineCount(c) \in Nat /\ r \in Nat /\ r <= LineCount(c)
  BY LineNumbers
<1>2. r \in T /\ T \subseteq 0 .. LineCount(c)
  BY <1>1
<1>3. PICK k \in T : \A i \in T : i <= k
  <2>. HIDE DEF T
  <2>. QED  BY <1>1, <1>2, Greatest
<1>4. k \in r .. LineCount(c) /\ EndAt(c, k) <= w /\ k \in 0 .. LineCount(c)
  BY <1>1
<1>5. ASSUME k < LineCount(c) PROVE w < EndAt(c, k + 1)
  <2>1. k + 1 \in r .. LineCount(c) /\ k + 1 \in 0 .. LineCount(c) /\ ~(k + 1 <= k)
    BY <1>1, <1>4, <1>5
  <2>2. k + 1 \notin T
    BY <1>3, <2>1
  <2>3. ~(EndAt(c, k + 1) <= w)
    BY <2>1, <2>2
  <2>4. EndAt(c, k + 1) \in Nat
    BY <2>1, LineNumbers
  <2>. QED  BY <2>3, <2>4
<1>. QED  BY <1>4, <1>5

\* The last newline of a window ends that line.
LEMMA LastLine ==
  ASSUME NEW c, NEW s, Chart(c, s), NEW b, NEW f, Window(Text(c), b, f), NEW l, IsLast(f, Newline, l),
         NEW r \in 0 .. LineCount(c), NEW i \in 0 .. Len(f), b + i = EndAt(c, r)
  PROVE  \E k \in r .. LineCount(c) :
           /\ k \in 0 .. LineCount(c) /\ EndAt(c, k) <= b + Len(f) /\ (k < LineCount(c) => b + Len(f) < EndAt(c, k + 1))
           /\ l \in 0 .. Len(f)
           /\ (k > r => l > i /\ b + l = EndAt(c, k))
           /\ (k = r => l <= i)
<1>1. /\ LineCount(c) \in Nat /\ r \in Nat /\ r <= LineCount(c) /\ b \in Nat /\ Len(f) \in Nat /\ i \in Nat /\ i <= Len(f)
      /\ b + Len(f) \in Nat /\ b + Len(f) <= Len(Text(c)) /\ Len(Text(c)) \in Nat /\ EndAt(c, r) \in Nat
  <2>1. LineCount(c) \in Nat /\ r \in Nat /\ r <= LineCount(c) /\ EndAt(c, r) \in Nat
    BY LineNumbers
  <2>2. b \in Nat /\ Len(f) \in Nat /\ b + Len(f) <= Len(Text(c)) /\ Len(Text(c)) \in Nat
    BY WindowLen
  <2>. QED  BY <2>1, <2>2
<1>2. EndAt(c, r) <= b + Len(f)
  BY <1>1
<1>3. PICK k \in r .. LineCount(c) : k \in 0 .. LineCount(c) /\ EndAt(c, k) <= b + Len(f) /\ (k < LineCount(c) => b + Len(f) < EndAt(c, k + 1))
  BY <1>1, <1>2, LastEnded
<1>4. l \in 0 .. Len(f)
  BY <1>1 DEF IsLast
<1>5. \A x \in 1 .. Len(f) : f[x] = Text(c)[b + x]
  BY DEF Window
<1>6. k \in Nat /\ k >= r /\ k <= LineCount(c) /\ EndAt(c, k) \in Nat
  BY <1>1, <1>3, LineNumbers
\* A newline in the window ends some line, and not one behind k.
<1>7. ASSUME l # 0 PROVE \E m \in 1 .. k : b + l = EndAt(c, m) /\ m \in 0 .. LineCount(c)
  <2>1. l \in 1 .. Len(f) /\ f[l] = Newline /\ b + l \in 1 .. Len(Text(c))
    BY <1>1, <1>7 DEF IsLast
  <2>2. Text(c)[b + l] = Newline
    BY <1>5, <2>1
  <2>3. PICK m \in 1 .. LineCount(c) : b + l = EndAt(c, m)
    BY <2>1, <2>2, Separates
  <2>4. m \in 0 .. LineCount(c) /\ m \in Nat
    BY <1>1
  <2>5. ASSUME m > k PROVE FALSE
    <3>1. k < LineCount(c) /\ k + 1 \in 0 .. LineCount(c) /\ k + 1 <= m
      BY <1>1, <1>6, <2>4, <2>5
    <3>2. EndAt(c, k + 1) <= EndAt(c, m)
      BY <3>1, <2>4, LinesFollow
    <3>3. EndAt(c, k + 1) \in Nat /\ EndAt(c, m) \in Nat
      BY <3>1, <2>4, LineNumbers
    <3>. QED  BY <1>1, <1>3, <2>1, <2>3, <3>1, <3>2, <3>3
  <2>6. m \in 1 .. k
    BY <1>6, <2>4, <2>5
  <2>. QED  BY <2>3, <2>4, <2>6
<1>8. ASSUME k > r PROVE l > i /\ b + l = EndAt(c, k)
  <2>. DEFINE x == EndAt(c, k) - b
  <2>1. EndAt(c, r) < EndAt(c, k)
    BY <1>3, <1>8, LinesFollow
  <2>2. x \in 1 .. Len(f) /\ b + x = EndAt(c, k) /\ b + x \in 1 .. Len(Text(c)) /\ x > i
    BY <1>1, <1>3, <1>6, <2>1
  <2>. HIDE DEF x
  <2>3. k \in 1 .. LineCount(c)
    BY <1>1, <1>6, <1>8
  <2>4. f[x] = Newline
    BY <2>2, <2>3, <1>5, Separates
  <2>5. l # 0 /\ l >= x
    <3>1. CASE l = 0
      BY <2>2, <2>4, <3>1 DEF IsLast
    <3>2. CASE l # 0
      <4>1. ~(x \in l + 1 .. Len(f))
        BY <2>4, <3>2 DEF IsLast
      <4>. QED  BY <4>1, <1>1, <1>4, <2>2, <3>2
    <3>. QED  BY <3>1, <3>2
  <2>6. PICK m \in 1 .. k : b + l = EndAt(c, m) /\ m \in 0 .. LineCount(c)
    BY <1>7, <2>5
  <2>7. EndAt(c, m) <= EndAt(c, k) /\ EndAt(c, m) \in Nat
    <3>1. m <= k
      BY <1>6
    <3>. QED  BY <1>3, <2>6, <3>1, LinesFollow, LineNumbers
  <2>. QED  BY <1>1, <1>4, <1>6, <2>2, <2>5, <2>6, <2>7
<1>9. ASSUME k = r PROVE l <= i
  <2>1. CASE l = 0
    BY <1>1, <2>1
  <2>2. CASE l # 0
    <3>1. PICK m \in 1 .. k : b + l = EndAt(c, m) /\ m \in 0 .. LineCount(c)
      BY <1>7, <2>2
    <3>2. EndAt(c, m) <= EndAt(c, r) /\ EndAt(c, m) \in Nat
      <4>1. m <= r
        BY <1>6, <1>9
      <4>. QED  BY <3>1, <4>1, LinesFollow, LineNumbers
    <3>. QED  BY <1>1, <1>4, <3>1, <3>2
  <2>. QED  BY <2>1, <2>2
<1>. QED  BY <1>3, <1>4, <1>8, <1>9

\* What a call returns.
LEMMA Returns ==
  ASSUME NEW c, NEW s, Chart(c, s), NEW b, NEW f, Window(Text(c), b, f), NEW r \in 0 .. LineCount(c),
         item \in 0 .. Len(f), b + item = EndAt(c, r), NEW any \in BOOLEAN, partial \in Nat, Return(f, any)
  PROVE  \E k \in r .. LineCount(c) :
           /\ k \in 0 .. LineCount(c) /\ EndAt(c, k) <= b + Len(f) /\ (k < LineCount(c) => b + Len(f) < EndAt(c, k + 1))
           /\ partial' \in Nat
           /\ (k > r => /\ partial' \in 0 .. Len(f) /\ b + partial' = EndAt(c, k)
                        /\ IF any \/ found \/ Len(f) = item
                           THEN pc' = "block" /\ block' = SubSeq(Text(c), EndAt(c, r) + 1, EndAt(c, k))
                           ELSE pc' = "error")
           /\ (k = r /\ ~any => pc' = "end")
<1>. DEFINE l == SelectLastInSeq(f, LAMBDA e : e = Newline)
<1>0. f \in Seq(Int) /\ b \in Nat /\ Len(f) \in Nat /\ Text(c) \in Seq(Int) /\ item \in Nat
  BY WindowLen
<1>1. IsLast(f, Newline, l)
  <2>1. l = LastAt(f, Newline)
    BY DEF SelectLastInSeq, LastAt, Places
  <2>. HIDE DEF l
  <2>. QED  BY <1>0, <2>1, LastFound
<1>2. /\ partial' = IF l = 0 THEN partial ELSE l
      /\ IF l = 0 \/ (~any /\ l <= item)
         THEN pc' = (IF any THEN "error" ELSE "end") /\ UNCHANGED block
         ELSE IF ~any /\ ~found /\ Len(f) > item
         THEN pc' = "error" /\ UNCHANGED block
         ELSE IF l < item
         THEN pc' = "error" /\ UNCHANGED block
         ELSE /\ block' = SubSeq(f, item + 1, l)
              /\ pc' = IF l = item THEN "end" ELSE "block"
  BY DEF Return
<1>. HIDE DEF l
<1>3. PICK k \in r .. LineCount(c) :
           /\ k \in 0 .. LineCount(c) /\ EndAt(c, k) <= b + Len(f) /\ (k < LineCount(c) => b + Len(f) < EndAt(c, k + 1))
           /\ l \in 0 .. Len(f)
           /\ (k > r => l > item /\ b + l = EndAt(c, k))
           /\ (k = r => l <= item)
  <2>1. item \in 0 .. Len(f) /\ b + item = EndAt(c, r)
    OBVIOUS
  <2>. HIDE DEF Return
  <2>. QED  BY <1>1, <2>1, LastLine
<1>4. l \in Nat /\ l <= Len(f) /\ partial' \in Nat
  BY <1>0, <1>2, <1>3
<1>5. ASSUME k > r
      PROVE  /\ partial' \in 0 .. Len(f) /\ b + partial' = EndAt(c, k)
             /\ IF any \/ found \/ Len(f) = item
                THEN pc' = "block" /\ block' = SubSeq(Text(c), EndAt(c, r) + 1, EndAt(c, k))
                ELSE pc' = "error"
  <2>1. l > item /\ b + l = EndAt(c, k) /\ l # 0 /\ ~(l <= item) /\ ~(l < item) /\ l # item
    BY <1>0, <1>3, <1>4, <1>5
  <2>2. partial' = l
    BY <1>2, <2>1
  <2>3. IF ~any /\ ~found /\ Len(f) > item
        THEN pc' = "error"
        ELSE block' = SubSeq(f, item + 1, l) /\ pc' = "block"
    BY <1>2, <2>1
  <2>4. SubSeq(f, item + 1, l) = SubSeq(Text(c), EndAt(c, r) + 1, EndAt(c, k))
    <3>. DEFINE n == l - item
    <3>0. item <= l /\ n \in Nat
      BY <1>0, <1>4, <2>1
    <3>1. Window(Text(c), b + item, SubSeq(f, item + 1, l)) /\ Len(SubSeq(f, item + 1, l)) = n
      BY <1>0, <1>4, <3>0, WindowSub
    <3>2. b + item = EndAt(c, r) /\ EndAt(c, r) + n = EndAt(c, k) /\ EndAt(c, r) \in Nat
      BY <1>0, <1>4, <2>1, LineNumbers
    <3>3. EndAt(c, r) + n <= Len(Text(c))
      <4>1. b + l <= Len(Text(c))
        <5>1. b + Len(f) <= Len(Text(c)) /\ Len(Text(c)) \in Nat
          BY WindowLen
        <5>. QED  BY <5>1, <1>0, <1>4
      <4>. QED  BY <4>1, <3>2, <2>1
    <3>. HIDE DEF n
    <3>4. /\ Window(Text(c), EndAt(c, r), SubSeq(Text(c), EndAt(c, r) + 1, EndAt(c, r) + n))
          /\ Len(SubSeq(Text(c), EndAt(c, r) + 1, EndAt(c, r) + n)) = n
      BY <1>0, <3>0, <3>2, <3>3, WindowWhole
    <3>. QED  BY <3>1, <3>2, <3>4, WindowSame, ZenonT(60)
  <2>5. ~(Len(f) > item) <=> Len(f) = item
    BY <1>0
  <2>6. partial' \in 0 .. Len(f) /\ b + partial' = EndAt(c, k)
    BY <2>1, <2>2, <1>3
  <2>. QED  BY <2>3, <2>4, <2>5, <2>6, Zenon
<1>6. ASSUME k = r, ~any PROVE pc' = "end"
  BY <1>2, <1>3, <1>6
<1>. QED  BY <1>3, <1>4, <1>5, <1>6, Zenon

----------------------------------------------------------------------------
(***************************************************************************)
(* What the reader has before it.                                          *)
(***************************************************************************)

\* Where the reader is.
LEMMA ReaderAt ==
  ASSUME NEW c, Chart(c, stream), NEW b, NEW j, Buffered(c, b), Settled(c, b, j), Typed
  PROVE  /\ j \in 0 .. LineCount(c) /\ j \in Nat /\ LineCount(c) \in Nat /\ b \in Nat /\ Len(buf) \in Nat /\ at \in Nat
         /\ At(c, j) \in Nat /\ Gap(c, j) \in Nat /\ Pos(c, j) \in Nat /\ PathAt(c, j) \in Nat /\ Shared(c, j) \in Nat
         /\ EndAt(c, j) \in Nat
         /\ Pos(c, j) = PathAt(c, j) + Shared(c, j) /\ PathAt(c, j) <= EndAt(c, j) /\ EndAt(c, j) <= Pos(c, j) + Gap(c, j)
         /\ At(c, j) <= at /\ at <= At(c, j) + Gap(c, j) /\ b + Len(buf) = Pos(c, j) + (at - At(c, j))
         /\ At(c, j) + Gap(c, j) <= Len(stream) /\ Pos(c, j) + Gap(c, j) <= Len(Text(c))
         /\ Len(stream) \in Nat /\ Len(Text(c)) \in Nat /\ avail \in Nat /\ at + avail <= Len(stream)
         /\ last_path \in Nat /\ last_path <= Len(buf) /\ b + last_path = PathAt(c, j)
         /\ (j < LineCount(c) => at < At(c, j) + Gap(c, j))
<1>1. /\ j \in 0 .. LineCount(c)
      /\ last_path \in 0 .. Len(buf) /\ b + last_path = PathAt(c, j)
      /\ At(c, j) <= at /\ at <= At(c, j) + Gap(c, j) /\ b + Len(buf) - Pos(c, j) = at - At(c, j)
      /\ (j < LineCount(c) => at < At(c, j) + Gap(c, j))
  BY DEF Settled
<1>2. /\ LineCount(c) \in Nat /\ j \in Nat /\ j <= LineCount(c) /\ Len(stream) \in Nat /\ Len(Text(c)) \in Nat
      /\ At(c, j) \in Nat /\ Pos(c, j) \in Nat /\ Gap(c, j) \in Nat
      /\ Shared(c, j) \in Nat /\ PathAt(c, j) \in Nat /\ EndAt(c, j) \in Nat
      /\ At(c, j) + Gap(c, j) <= Len(stream) /\ Pos(c, j) + Gap(c, j) <= Len(Text(c))
      /\ Pos(c, j) = PathAt(c, j) + Shared(c, j) /\ EndAt(c, j) <= Pos(c, j) + Gap(c, j)
      /\ PathAt(c, j) <= EndAt(c, j)
  BY <1>1, LineNumbers
<1>3. b \in Nat /\ Len(buf) \in Nat
  BY WindowLen DEF Buffered
<1>4. at \in 0 .. Len(stream) /\ avail \in 0 .. Len(stream) - at
  BY DEF Typed, Left
<1>5. at \in Nat /\ avail \in Nat /\ at + avail <= Len(stream) /\ last_path \in Nat /\ last_path <= Len(buf)
  BY <1>1, <1>2, <1>3, <1>4
<1>6. b + Len(buf) = Pos(c, j) + (at - At(c, j))
  <2>1. b + Len(buf) - Pos(c, j) = at - At(c, j) /\ at \in Nat /\ At(c, j) \in Nat /\ Pos(c, j) \in Nat
    BY <1>1, <1>2, <1>5, Zenon
  <2>. QED  BY <1>3, <2>1
<1>. QED  BY <1>1, <1>2, <1>3, <1>5, <1>6, Zenon

\* The next k bytes, up to the next line, are the next of the text.
LEMMA NextBytes ==
  ASSUME NEW c, Chart(c, stream), NEW b, NEW j, Buffered(c, b), Settled(c, b, j), Typed,
         NEW k \in Nat, at + k <= At(c, j) + Gap(c, j)
  PROVE  /\ Window(Text(c), b + Len(buf), SubSeq(stream, at + 1, at + k)) /\ Len(SubSeq(stream, at + 1, at + k)) = k
         /\ \A i \in 1 .. k : stream[at + i] = Text(c)[b + Len(buf) + i]
<1>1. /\ j \in 0 .. LineCount(c) /\ j \in Nat /\ LineCount(c) \in Nat /\ b \in Nat /\ Len(buf) \in Nat /\ at \in Nat
      /\ At(c, j) \in Nat /\ Gap(c, j) \in Nat /\ Pos(c, j) \in Nat
      /\ At(c, j) <= at /\ b + Len(buf) = Pos(c, j) + (at - At(c, j))
      /\ At(c, j) + Gap(c, j) <= Len(stream) /\ Pos(c, j) + Gap(c, j) <= Len(Text(c))
      /\ Len(stream) \in Nat /\ Len(Text(c)) \in Nat
  BY ReaderAt
<1>2. stream \in Seq(Int) /\ Text(c) \in Seq(Int)
  BY DEF Chart, ChartTyped
<1>3. ASSUME NEW i \in 1 .. k PROVE stream[at + i] = Text(c)[b + Len(buf) + i]
  <2>. DEFINE x == at - At(c, j) + i
  <2>1. x \in 1 .. Gap(c, j) /\ At(c, j) + x = at + i /\ Pos(c, j) + x = b + Len(buf) + i
    <3>1. /\ at \in Nat /\ At(c, j) \in Nat /\ Gap(c, j) \in Nat /\ At(c, j) <= at
          /\ at + k <= At(c, j) + Gap(c, j)
      BY <1>1, Zenon
    <3>2. /\ b + Len(buf) = Pos(c, j) + (at - At(c, j)) /\ Pos(c, j) \in Nat /\ b \in Nat /\ Len(buf) \in Nat
      BY <1>1, Zenon
    <3>3. x \in 1 .. Gap(c, j) /\ At(c, j) + x = at + i
      BY <3>1
    <3>4. Pos(c, j) + x = b + Len(buf) + i
      BY <3>1, <3>2, SMTT(60)
    <3>. QED  BY <3>3, <3>4
  <2>. HIDE DEF x
  <2>2. stream[At(c, j) + x] = Text(c)[Pos(c, j) + x]
    BY <1>1, <2>1, Zenon DEF Chart, ChartGaps
  <2>. QED  BY <2>1, <2>2
<1>. DEFINE f == SubSeq(stream, at + 1, at + k)
<1>4. Window(stream, at, f) /\ Len(f) = k
  <2>1. at + k <= Len(stream)
    BY <1>1
  <2>. QED  BY <1>1, <1>2, <2>1, WindowWhole, ZenonT(60)
<1>. HIDE DEF f
<1>5. b + Len(buf) \in Nat /\ b + Len(buf) + k <= Len(Text(c))
  BY <1>1
<1>. DEFINE w == b + Len(buf)
<1>6. \A i \in 1 .. Len(f) : Text(c)[w + i] = stream[at + i]
  BY <1>3, <1>4
<1>7. w \in Nat /\ w + Len(f) <= Len(Text(c))
  BY <1>4, <1>5
<1>. HIDE DEF w
<1>8. Window(Text(c), w, f)
  BY <1>2, <1>4, <1>6, <1>7, WindowMove
<1>. QED  BY <1>3, <1>4, <1>8 DEF w, f

\* The piece at hand, and its first NUL.
LEMMA PieceIs ==
  ASSUME stream \in Seq(Int), Typed
  PROVE  /\ Piece \in Seq(Int) /\ Len(Piece) = avail
         /\ \A i \in 1 .. avail : Piece[i] = stream[at + i]
         /\ IsFirst(Piece, Nul, NulAt)
<1>1. at \in Nat /\ avail \in Nat /\ at + avail <= Len(stream) /\ Len(stream) \in Nat
  <2>1. at \in 0 .. Len(stream) /\ avail \in 0 .. Len(stream) - at /\ Len(stream) \in Nat
    BY LenProperties DEF Typed, Left
  <2>. QED  BY <2>1
<1>2. Piece \in Seq(Int) /\ Len(Piece) = avail /\ \A i \in 1 .. avail : Piece[i] = stream[at + i]
  <2>1. at <= at + avail /\ at + avail \in Nat /\ at + avail - at = avail
    BY <1>1
  <2>2. /\ SubSeq(stream, at + 1, at + avail) \in Seq(Int) /\ Len(SubSeq(stream, at + 1, at + avail)) = at + avail - at
        /\ \A i \in 1 .. at + avail - at : SubSeq(stream, at + 1, at + avail)[i] = stream[at + i]
    BY <1>1, <2>1, Sub
  <2>. QED  BY <2>1, <2>2 DEF Piece
<1>3. NulAt = FirstAt(Piece, Nul)
  <2>. DEFINE f == Piece
  <2>1. NulAt = SelectInSeq(f, LAMBDA v : v = Nul)
    BY DEF NulAt
  <2>. HIDE DEF f
  <2>2. SelectInSeq(f, LAMBDA v : v = Nul) = FirstAt(f, Nul)
    BY DEF SelectInSeq, FirstAt, Places
  <2>3. NulAt = FirstAt(f, Nul)
    BY DEF NulAt, SelectInSeq, FirstAt, Places, f
  <2>. QED  BY <2>3 DEF f
<1>. QED  BY <1>2, <1>3, FirstFound

\* Where the next NUL is.
LEMMA NextNul ==
  ASSUME NEW c, Chart(c, stream), NEW b, NEW j, Buffered(c, b), Settled(c, b, j), Typed, avail > 0
  PROVE  /\ NulAt \in 0 .. avail
         /\ NulAt = 0 => at + avail <= At(c, j) + Gap(c, j) /\ (j < LineCount(c) => at + avail < At(c, j) + Gap(c, j))
         /\ NulAt > 0 => j < LineCount(c) /\ at + NulAt = At(c, j) + Gap(c, j)
<1>1. /\ j \in 0 .. LineCount(c) /\ j \in Nat /\ LineCount(c) \in Nat /\ b \in Nat /\ Len(buf) \in Nat /\ at \in Nat
      /\ At(c, j) \in Nat /\ Gap(c, j) \in Nat /\ Pos(c, j) \in Nat /\ PathAt(c, j) \in Nat /\ Shared(c, j) \in Nat
      /\ Pos(c, j) = PathAt(c, j) + Shared(c, j)
      /\ At(c, j) <= at /\ b + Len(buf) = Pos(c, j) + (at - At(c, j))
      /\ At(c, j) + Gap(c, j) <= Len(stream) /\ Pos(c, j) + Gap(c, j) <= Len(Text(c))
      /\ Len(stream) \in Nat /\ Len(Text(c)) \in Nat /\ avail \in Nat /\ at + avail <= Len(stream)
      /\ (j < LineCount(c) => at < At(c, j) + Gap(c, j))
  BY ReaderAt
<1>2. Len(Piece) = avail /\ (\A i \in 1 .. avail : Piece[i] = stream[at + i]) /\ IsFirst(Piece, Nul, NulAt)
  <2>1. stream \in Seq(Int)
    BY DEF Chart, ChartTyped
  <2>. QED  BY <2>1, PieceIs
\* The NUL behind the next line's metadata is in the piece if that reaches it.
<1>3. ASSUME j < LineCount(c), At(c, j) + Gap(c, j) <= at + avail
      PROVE  NulAt > 0 /\ NulAt <= At(c, j) + Gap(c, j) - at
  <2>. DEFINE x == At(c, j) + Gap(c, j) - at
  <2>0. /\ at \in Nat /\ avail \in Nat /\ At(c, j) \in Nat /\ Gap(c, j) \in Nat
        /\ at < At(c, j) + Gap(c, j) /\ At(c, j) + Gap(c, j) <= at + avail
    BY <1>1, <1>3, Zenon
  <2>1. x \in 1 .. avail /\ at + x = At(c, j) + Gap(c, j)
    BY <2>0
  <2>. HIDE DEF x
  <2>2. Piece[x] = Nul
    <3>1. stream[At(c, j) + Gap(c, j)] = Nul
      BY <1>1, <1>3, NextLine
    <3>. QED  BY <1>2, <2>1, <3>1
  <2>3. NulAt > 0 /\ NulAt <= x
    <3>1. CASE NulAt = 0 /\ \A i \in 1 .. Len(Piece) : Piece[i] # Nul
      BY <1>2, <2>1, <2>2, <3>1
    <3>2. CASE NulAt \in 1 .. Len(Piece) /\ \A i \in 1 .. NulAt - 1 : Piece[i] # Nul
      <4>1. ~(x \in 1 .. NulAt - 1)
        BY <2>2, <3>2
      <4>2. x \in Nat /\ x >= 1 /\ NulAt \in Nat /\ NulAt >= 1
        BY <2>1, <3>2
      <4>. QED  BY <4>1, <4>2
    <3>. QED  BY <1>2, <3>1, <3>2 DEF IsFirst
  <2>. QED  BY <2>3 DEF x
<1>4. ASSUME NulAt = 0 PROVE at + avail <= At(c, j) + Gap(c, j) /\ (j < LineCount(c) => at + avail < At(c, j) + Gap(c, j))
  <2>1. CASE j < LineCount(c)
    <3>1. ~(At(c, j) + Gap(c, j) <= at + avail)
      <4>1. ~(NulAt > 0)
        BY <1>4
      <4>. QED  BY <1>3, <4>1, <2>1, Zenon
    <3>2. at \in Nat /\ avail \in Nat /\ At(c, j) \in Nat /\ Gap(c, j) \in Nat
      BY <1>1, Zenon
    <3>. QED  BY <3>1, <3>2
  <2>2. CASE ~(j < LineCount(c))
    <3>1. j = LineCount(c)
      BY <1>1, <2>2
    <3>2. At(c, j) + Gap(c, j) = Len(stream)
      BY <3>1, LastOfChart
    <3>. QED  BY <1>1, <2>2, <3>2
  <2>. QED  BY <2>1, <2>2
<1>n. /\ at \in Nat /\ avail \in Nat /\ At(c, j) \in Nat /\ Gap(c, j) \in Nat /\ Pos(c, j) \in Nat
      /\ PathAt(c, j) \in Nat /\ b \in Nat /\ Len(buf) \in Nat
  BY <1>1, Zenon
<1>l. j \in Nat /\ LineCount(c) \in Nat /\ j <= LineCount(c)
  <2>1. j \in 0 .. LineCount(c) /\ j \in Nat /\ LineCount(c) \in Nat
    BY <1>1, Zenon
  <2>. QED  BY <2>1
<1>a. At(c, j) <= at /\ b + Len(buf) = Pos(c, j) + (at - At(c, j))
  BY <1>1, Zenon
<1>5. ASSUME NulAt > 0 PROVE j < LineCount(c) /\ at + NulAt = At(c, j) + Gap(c, j) /\ NulAt <= avail /\ NulAt \in Nat
  <2>1. NulAt \in 1 .. avail /\ stream[at + NulAt] = Nul
    <3>1. NulAt # 0
      BY <1>5
    <3>2. NulAt \in 1 .. Len(Piece) /\ Piece[NulAt] = Nul
      BY <3>1, <1>2, Zenon DEF IsFirst
    <3>. QED  BY <3>2, <1>2, Zenon
  <2>n. NulAt \in Nat /\ NulAt >= 1 /\ NulAt <= avail
    BY <2>1, <1>n
  <2>2. at + NulAt <= At(c, j) + Gap(c, j)
    <3>1. CASE j < LineCount(c)
      <4>1. CASE At(c, j) + Gap(c, j) <= at + avail
        <5>1. NulAt <= At(c, j) + Gap(c, j) - at
          BY <1>3, <3>1, <4>1, Zenon
        <5>. QED  BY <1>n, <2>n, <5>1
      <4>2. CASE ~(At(c, j) + Gap(c, j) <= at + avail)
        BY <1>n, <2>n, <4>2
      <4>. QED  BY <4>1, <4>2
    <3>2. CASE ~(j < LineCount(c))
      <4>1. j = LineCount(c)
        BY <1>l, <3>2
      <4>2. At(c, j) + Gap(c, j) = Len(stream)
        BY <4>1, LastOfChart
      <4>3. at + avail <= Len(stream) /\ Len(stream) \in Nat
        BY <1>1, Zenon
      <4>. QED  BY <1>n, <2>n, <4>2, <4>3
    <3>. QED  BY <3>1, <3>2
  <2>. DEFINE x == b + Len(buf) + NulAt
  <2>3. Text(c)[x] = Nul
    <3>1. NulAt \in 1 .. NulAt /\ NulAt \in Nat
      BY <2>n
    <3>2. \A i \in 1 .. NulAt : stream[at + i] = Text(c)[b + Len(buf) + i]
      BY <2>2, <3>1, NextBytes
    <3>. QED  BY <2>1, <3>1, <3>2
  <2>40. x = Pos(c, j) + (at + NulAt - At(c, j))
    BY <1>n, <1>a, <2>n, SMTT(60)
  <2>41. x \in Nat /\ x > Pos(c, j)
    BY <1>n, <1>a, <2>n, <2>40
  <2>42. x <= Pos(c, j) + Gap(c, j)
    BY <1>n, <2>n, <2>40, <2>2
  <2>. HIDE DEF x
  <2>4. x \in 1 .. Len(Text(c))
    <3>1. Pos(c, j) + Gap(c, j) <= Len(Text(c)) /\ Len(Text(c)) \in Nat
      BY <1>1, Zenon
    <3>. QED  BY <3>1, <1>n, <2>41, <2>42
  <2>5. PICK m \in 1 .. LineCount(c) : x = PathAt(c, m)
    BY <2>3, <2>4, Separates
  <2>6. m \in 0 .. LineCount(c) /\ m \in Nat /\ PathAt(c, m) \in Nat
    <3>1. m \in 0 .. LineCount(c) /\ m \in Nat
      BY <1>l
    <3>. QED  BY <3>1, LineNumbers
  <2>j. j \in 0 .. LineCount(c) /\ Pos(c, j) = PathAt(c, j) + Shared(c, j) /\ Shared(c, j) \in Nat
    BY <1>1, Zenon
  <2>7. m > j
    <3>1. CASE m <= j
      <4>1. PathAt(c, m) <= PathAt(c, j)
        BY <3>1, <2>j, <2>6, LinesFollow
      <4>. QED  BY <4>1, <1>n, <2>j, <2>41, <2>5, <2>6
    <3>. QED  BY <3>1, <1>l, <2>6
  <2>8. j < LineCount(c) /\ j + 1 <= m
    BY <1>l, <2>6, <2>7
  <2>9. j + 1 \in 0 .. LineCount(c) /\ PathAt(c, j + 1) = Pos(c, j) + Gap(c, j)
    BY <2>j, <2>8, NextLine
  <2>10. PathAt(c, j + 1) <= PathAt(c, m)
    BY <2>6, <2>8, <2>9, LinesFollow
  <2>11. x = Pos(c, j) + Gap(c, j)
    BY <1>n, <2>41, <2>42, <2>5, <2>9, <2>10
  <2>12. at + NulAt = At(c, j) + Gap(c, j)
    BY <1>n, <2>n, <2>11, <2>40, SMTT(60)
  <2>. QED  BY <2>n, <2>8, <2>12
<1>6. NulAt \in 0 .. avail
  <2>1. NulAt = 0 \/ NulAt \in 1 .. avail
    BY <1>2, Zenon DEF IsFirst
  <2>. QED  BY <2>1, <1>n
<1>. QED  BY <1>4, <1>5, <1>6, Zenon

----------------------------------------------------------------------------
(***************************************************************************)
(* The steps of the decoder: each moves the window over the text.          *)
(***************************************************************************)

\* A buffer that grows holds what it has to.
LEMMA Grows ==
  ASSUME NEW len \in Nat, NEW sz \in Nat
  PROVE  Grown(len, sz) \in Nat /\ len <= Grown(len, sz)
BY DEF Grown

\* A line and the one before it have the bytes of its shared prefix in common.
LEMMA SharedBytes ==
  ASSUME NEW c, NEW s, Chart(c, s), NEW j \in 1 .. LineCount(c)
  PROVE  /\ j - 1 \in 0 .. LineCount(c) /\ j \in 0 .. LineCount(c) /\ j - 1 < LineCount(c)
         /\ PathAt(c, j - 1) + Shared(c, j) <= PathAt(c, j)
         /\ PathAt(c, j) = Pos(c, j - 1) + Gap(c, j - 1)
         /\ \A i \in 1 .. Shared(c, j) : Text(c)[PathAt(c, j) + i] = Text(c)[PathAt(c, j - 1) + i]
<1>1. LineCount(c) \in Nat
  BY Zenon DEF Chart, ChartTyped
<1>2. /\ j - 1 \in 0 .. LineCount(c) /\ j \in 0 .. LineCount(c) /\ j - 1 < LineCount(c)
      /\ j - 1 \in 0 .. LineCount(c) - 1 /\ j - 1 + 1 = j
  BY <1>1
<1>3. PathAt(c, j - 1) + Shared(c, j - 1 + 1) <= PathAt(c, j - 1 + 1)
      /\ PathAt(c, j - 1 + 1) = Pos(c, j - 1) + Gap(c, j - 1)
  BY <1>2, NextLine
<1>4. \A i \in 1 .. Shared(c, j - 1 + 1) : Text(c)[PathAt(c, j - 1 + 1) + i] = Text(c)[PathAt(c, j - 1) + i]
  <2>1. ChartSteps(c, s)
    BY Zenon DEF Chart
  <2>. QED  BY <1>2, <2>1, Zenon DEF ChartSteps
<1>. QED  BY <1>2, <1>3, <1>4

\* Behind the NUL of line j, with which f ends, the prefix it shares has been copied; or it does not fit.
Copied(c, j, b, f, copy, sz, may) ==
  \/ /\ copy.is = "ok" /\ Window(Text(c), b, copy.buf) /\ Len(copy.buf) = Len(f) + Shared(c, j)
     /\ b + Len(copy.buf) = Pos(c, j) /\ copy.size \in Nat /\ Len(copy.buf) <= copy.size
  \/ copy = [is |-> "full"] /\ ~may /\ Len(f) + Shared(c, j) > sz

\* CopyShared copies the prefix that line j shares with the line before it.
LEMMA Copies ==
  ASSUME NEW c, NEW s, Chart(c, s), NEW j \in 1 .. LineCount(c), NEW b, NEW f, Window(Text(c), b, f),
         b + Len(f) = PathAt(c, j), NEW lp \in 0 .. Len(f), b + lp = PathAt(c, j - 1) \/ Shared(c, j) = 0,
         NEW sz \in Nat, NEW may \in BOOLEAN
  PROVE  Copied(c, j, b, f, CopyShared(f, lp, Shared(c, j), sz, may), sz, may)
<1>. DEFINE n == Shared(c, j)
            g == SubSeq(f, lp + 1, lp + n)
            h == f \o g
            copy == CopyShared(f, lp, n, sz, may)
<1>1. /\ j - 1 \in 0 .. LineCount(c) /\ j \in 0 .. LineCount(c) /\ j - 1 < LineCount(c)
      /\ PathAt(c, j - 1) + n <= PathAt(c, j)
      /\ \A i \in 1 .. n : Text(c)[PathAt(c, j) + i] = Text(c)[PathAt(c, j - 1) + i]
  BY SharedBytes
<1>2. /\ n \in Nat /\ PathAt(c, j) \in Nat /\ Pos(c, j) = PathAt(c, j) + n /\ Pos(c, j) \in Nat
      /\ Pos(c, j) + Gap(c, j) <= Len(Text(c)) /\ Gap(c, j) \in Nat
  BY <1>1, LineNumbers
<1>3. PathAt(c, j - 1) \in Nat
  BY <1>1, LineNumbers
<1>4. b \in Nat /\ Len(f) \in Nat /\ Len(Text(c)) \in Nat /\ Text(c) \in Seq(Int) /\ f \in Seq(Int)
  BY WindowLen, Zenon
<1>5. lp \in Nat /\ lp <= Len(f)
  BY <1>4
<1>. HIDE DEF n
<1>6. lp + n <= Len(f) /\ lp <= lp + n /\ lp + n \in Nat /\ (lp + n) - lp = n
  <2>1. CASE b + lp = PathAt(c, j - 1)
    <3>1. PathAt(c, j - 1) + n <= b + Len(f)
      BY <1>1, Zenon
    <3>. QED  BY <3>1, <2>1, <1>2, <1>4, <1>5
  <2>2. CASE n = 0
    BY <2>2, <1>5, <1>4
  <2>. QED  BY <2>1, <2>2 DEF n
<1>7. Window(Text(c), b + lp, g) /\ Len(g) = n
  <2>1. Window(Text(c), b + lp, SubSeq(f, lp + 1, lp + n)) /\ Len(SubSeq(f, lp + 1, lp + n)) = (lp + n) - lp
    <3>. DEFINE l == lp + n
    <3>1. lp \in Nat /\ l \in Nat /\ lp <= l /\ l <= Len(f)
      BY <1>5, <1>6, Zenon
    <3>. HIDE DEF l
    <3>2. Window(Text(c), b + lp, SubSeq(f, lp + 1, l)) /\ Len(SubSeq(f, lp + 1, l)) = l - lp
      BY <3>1, WindowSub
    <3>3. l = lp + n
      BY DEF l
    <3>. QED  BY <3>2, <3>3, Zenon
  <2>. QED  BY <2>1, <1>6, Zenon
<1>. HIDE DEF g
<1>8. Window(Text(c), b + Len(f), g)
  <2>1. b + Len(f) + Len(g) <= Len(Text(c)) /\ b + Len(f) \in Nat
    <3>1. PathAt(c, j) + n + Gap(c, j) <= Len(Text(c))
      BY <1>2, Zenon
    <3>. QED  BY <3>1, <1>2, <1>4, <1>7
  <2>2. ASSUME NEW i \in 1 .. Len(g) PROVE Text(c)[b + Len(f) + i] = Text(c)[b + lp + i]
    <3>1. i \in 1 .. n
      BY <1>7
    <3>2. Text(c)[PathAt(c, j) + i] = Text(c)[PathAt(c, j - 1) + i]
      BY <1>1, <3>1, Zenon
    <3>3. CASE b + lp = PathAt(c, j - 1)
      BY <3>2, <3>3, Zenon
    <3>4. CASE n = 0
      BY <3>1, <3>4
    <3>. QED  BY <3>3, <3>4 DEF n
  <2>. QED  BY <1>4, <1>7, <2>1, <2>2, WindowMove
<1>9. Window(Text(c), b, h) /\ Len(h) = Len(f) + n
  <2>1. Window(Text(c), b, f \o g) /\ Len(f \o g) = Len(f) + Len(g)
    BY <1>8, WindowConcat
  <2>. QED  BY <2>1, <1>7, Zenon
<1>10. b + Len(h) = Pos(c, j)
  BY <1>2, <1>4, <1>9
<1>11. ~(n < 0 \/ n > Len(f) - lp)
  BY <1>2, <1>4, <1>5, <1>6
<1>12. copy = IF ~Holds(Len(f) + n, sz, may) THEN [is |-> "full"]
              ELSE [is |-> "ok", buf |-> h, size |-> Grown(Len(f) + n, sz)]
  BY <1>11, Zenon DEF CopyShared, g
<1>. HIDE DEF h, copy
<1>13. CASE ~Holds(Len(f) + n, sz, may)
  <2>1. copy = [is |-> "full"] /\ ~may /\ ~(Len(f) + n <= sz)
    BY <1>12, <1>13, Zenon DEF Holds
  <2>2. Len(f) + n > sz
    BY <2>1, <1>2, <1>4
  <2>. QED  BY <2>1, <2>2, Zenon DEF copy, n, Copied
<1>14. CASE Holds(Len(f) + n, sz, may)
  <2>1. copy = [is |-> "ok", buf |-> h, size |-> Grown(Len(f) + n, sz)]
    BY <1>12, <1>14, Zenon
  <2>2. copy.is = "ok" /\ copy.buf = h /\ copy.size = Grown(Len(f) + n, sz)
    BY <2>1
  <2>3. Len(f) + n \in Nat
    BY <1>2, <1>4
  <2>4. copy.size \in Nat /\ Len(copy.buf) <= copy.size
    BY <2>2, <2>3, <1>9, Grows
  <2>. QED  BY <2>2, <2>4, <1>9, <1>10, Zenon DEF copy, n, Copied
<1>. QED  BY <1>13, <1>14

\* The next piece: nothing has been consumed.
LEMMA FillStep ==
  ASSUME NEW c, Chart(c, stream), NEW b, NEW j, NEW r, Typed, Buffered(c, b), ReadingAt(c, b, j, r), Fill
  PROVE  /\ Typed' /\ Buffered(c, b)' /\ ReadingAt(c, b, j, r)' /\ UNCHANGED <<stream, streaming, pc, block, partial>>
<1>1. /\ UNCHANGED <<stream, streaming, at, partial, pc, block>> /\ UNCHANGED <<buf, size, last_path, shared>>
      /\ UNCHANGED <<resize, found, got, item>>
  BY DEF Fill, buffer, call
<1>2. avail' \in {n \in Pieces : n < Left} \cup {Left} /\ (~streaming => avail' = Left)
  BY DEF Fill
<1>3. Left \in Nat
  <2>1. at \in 0 .. Len(stream) /\ Len(stream) \in Nat
    BY LenProperties DEF Typed, Chart, ChartTyped
  <2>. QED  BY <2>1 DEF Left
<1>4. Left' = Left
  BY <1>1 DEF Left
<1>5. avail' \in 0 .. Left
  <2>1. Pieces \subseteq Nat
    BY CodingAssumption
  <2>. QED  BY <1>2, <1>3, <2>1
<1>6. Typed'
  BY <1>1, <1>4, <1>5 DEF Typed
<1>7. Buffered(c, b)'
  BY <1>1 DEF Buffered
<1>8. Settled(c, b, j)'
  BY <1>1 DEF ReadingAt, Settled
<1>9. InMemory(c, j)'
  BY <1>1, <1>2, <1>4 DEF ReadingAt, InMemory
<1>10. ReadingAt(c, b, j, r)'
  BY <1>1, <1>8, <1>9 DEF ReadingAt
<1>. QED  BY <1>1, <1>6, <1>7, <1>10

\* A piece without a NUL.
LEMMA TakeStep ==
  ASSUME NEW c, Chart(c, stream), NEW b, NEW j, NEW r, Typed, Buffered(c, b), ReadingAt(c, b, j, r), Take
  PROVE  /\ Typed' /\ Buffered(c, b)' /\ ReadingAt(c, b, j, r)' /\ UNCHANGED <<stream, streaming, pc, block, partial>>
<1>1. /\ UNCHANGED <<stream, streaming, partial, pc, block>> /\ UNCHANGED <<last_path, shared>>
      /\ UNCHANGED <<resize, found, got, item>>
  BY DEF Take, call
<1>2. avail > 0 /\ NulAt = 0 /\ Taken = Piece
  BY DEF Take, Reading, Taken
<1>3. /\ buf' = buf \o Piece /\ size' = Grown(Len(buf) + Len(Piece), size)
      /\ at' = at + avail /\ avail' = 0
  BY <1>2, Zenon DEF Take
<1>4. Settled(c, b, j) /\ InMemory(c, j)
  BY Zenon DEF ReadingAt
<1>5. /\ j \in 0 .. LineCount(c) /\ j \in Nat /\ LineCount(c) \in Nat
      /\ b \in Nat /\ Len(buf) \in Nat /\ at \in Nat /\ avail \in Nat
      /\ At(c, j) \in Nat /\ Gap(c, j) \in Nat /\ Pos(c, j) \in Nat
      /\ At(c, j) <= at /\ b + Len(buf) = Pos(c, j) + (at - At(c, j))
      /\ at + avail <= Len(stream) /\ Len(stream) \in Nat
      /\ last_path \in Nat /\ last_path <= Len(buf) /\ b + last_path = PathAt(c, j)
  BY <1>4, ReaderAt
<1>6. at + avail <= At(c, j) + Gap(c, j) /\ (j < LineCount(c) => at + avail < At(c, j) + Gap(c, j))
  BY <1>2, <1>4, NextNul
<1>7. Window(Text(c), b + Len(buf), Piece) /\ Len(Piece) = avail
  <2>1. avail \in Nat
    BY <1>5, Zenon
  <2>. QED  BY <2>1, <1>4, <1>6, NextBytes DEF Piece
<1>8. Window(Text(c), b, buf') /\ Len(buf') = Len(buf) + avail
  <2>1. Window(Text(c), b, buf)
    BY Zenon DEF Buffered
  <2>2. Window(Text(c), b, buf \o Piece) /\ Len(buf \o Piece) = Len(buf) + Len(Piece)
    BY <2>1, <1>7, WindowConcat
  <2>. QED  BY <2>2, <1>3, <1>7, Zenon
<1>9. size' \in Nat /\ Len(buf') <= size'
  <2>1. size \in Nat
    BY Zenon DEF Buffered
  <2>2. Len(buf) + Len(Piece) \in Nat /\ Len(buf') = Len(buf) + Len(Piece)
    BY <1>5, <1>7, <1>8
  <2>. QED  BY <2>1, <2>2, <1>3, Grows
<1>10. Buffered(c, b)'
  BY <1>8, <1>9, Zenon DEF Buffered
<1>11. Len(buf') \in Nat /\ Len(buf) <= Len(buf')
  BY <1>5, <1>8
<1>12. Settled(c, b, j)'
  <2>1. shared = Shared(c, j)
    BY <1>4, Zenon DEF Settled
  <2>2. at' \in Nat /\ At(c, j) <= at' /\ b + Len(buf') - Pos(c, j) = at' - At(c, j)
    <3>1. /\ b \in Nat /\ Len(buf) \in Nat /\ at \in Nat /\ avail \in Nat /\ At(c, j) \in Nat /\ Pos(c, j) \in Nat
          /\ At(c, j) <= at /\ b + Len(buf) = Pos(c, j) + (at - At(c, j))
      BY <1>5, Zenon
    <3>. QED  BY <3>1, <1>3, <1>8
  <2>3. last_path' \in 0 .. Len(buf')
    <3>1. last_path \in Nat /\ last_path <= Len(buf) /\ Len(buf) \in Nat
      BY <1>5, Zenon
    <3>. QED  BY <3>1, <1>11, <1>1
  <2>4. at' <= At(c, j) + Gap(c, j) /\ (j < LineCount(c) => at' < At(c, j) + Gap(c, j))
    BY <1>3, <1>6, Zenon
  <2>5. b + last_path' = PathAt(c, j) /\ shared' = Shared(c, j) /\ j \in 0 .. LineCount(c)
    BY <1>1, <1>5, <2>1
  <2>. QED  BY <2>2, <2>3, <2>4, <2>5, Zenon DEF Settled
<1>13. Left' = Len(stream) - (at + avail) /\ Left' \in Nat /\ at' \in 0 .. Len(stream')
  <2>1. /\ at \in Nat /\ avail \in Nat /\ at + avail <= Len(stream) /\ Len(stream) \in Nat
    BY <1>5, Zenon
  <2>2. Left' = Len(stream) - (at + avail)
    BY <1>1, <1>3 DEF Left
  <2>. QED  BY <2>1, <2>2, <1>1, <1>3
<1>14. InMemory(c, j)'
  <2>1. ~streaming => at + avail = Len(stream)
    <3>1. ~streaming => avail = Len(stream) - at
      BY <1>2, <1>4 DEF InMemory, Left
    <3>2. at \in Nat /\ avail \in Nat /\ Len(stream) \in Nat
      BY <1>5, Zenon
    <3>. QED  BY <3>1, <3>2
  <2>2. at' = at + avail /\ avail' = 0 /\ streaming' = streaming /\ stream' = stream
    BY <1>1, <1>3
  <2>3. ~streaming' => at' = Len(stream)'
    BY <2>1, <2>2
  <2>4. avail' \in {0, Left'}
    BY <2>2
  <2>. QED  BY <2>3, <2>4, Zenon DEF InMemory
<1>15. Typed'
  <2>1. avail' \in 0 .. Left'
    BY <1>3, <1>13
  <2>2. last_path' \in 0 .. Len(buf')
    BY <1>12, Zenon DEF Settled
  <2>3. /\ partial \in Nat /\ item \in Nat /\ streaming \in BOOLEAN /\ resize \in BOOLEAN /\ found \in BOOLEAN
        /\ got \in BOOLEAN /\ shared \in Int
    BY Zenon DEF Typed
  <2>. QED  BY <1>1, <1>9, <1>13, <2>1, <2>2, <2>3 DEF Typed
<1>16. ~streaming /\ ~found => j < LineCount(c)
  <2>1. SUFFICES ASSUME ~streaming, ~found, ~(j < LineCount(c)) PROVE FALSE
    BY Zenon
  <2>2. r = LineCount(c) /\ item = Len(buf) /\ b + item = EndAt(c, r)
    BY <2>1, Zenon DEF ReadingAt
  <2>3. j = LineCount(c)
    BY <1>5, <2>1
  <2>4. /\ Pos(c, j) + Gap(c, j) = EndAt(c, j)
    BY <2>3, LastOfChart
  <2>5. b + Len(buf) = Pos(c, j) + Gap(c, j)
    BY <2>2, <2>3, <2>4, Zenon
  <2>6. /\ b \in Nat /\ Len(buf) \in Nat /\ at \in Nat /\ avail \in Nat /\ At(c, j) \in Nat /\ Pos(c, j) \in Nat
        /\ Gap(c, j) \in Nat /\ b + Len(buf) = Pos(c, j) + (at - At(c, j))
    BY <1>5, Zenon
  <2>7. at + avail <= At(c, j) + Gap(c, j) /\ avail > 0
    BY <1>2, <1>6, Zenon
  <2>8. at = At(c, j) + Gap(c, j)
    BY <2>5, <2>6
  <2>. QED  BY <2>6, <2>7, <2>8
<1>17. ReadingAt(c, b, j, r)'
  <2>1. /\ r \in 0 .. j /\ item \in 0 .. Len(buf) /\ b + item = EndAt(c, r)
        /\ (found => r < j) /\ (got => found) /\ (~resize => got /\ r + 2 <= j)
    BY Zenon DEF ReadingAt
  <2>2. item' \in 0 .. Len(buf')
    <3>1. item \in 0 .. Len(buf) /\ Len(buf) \in Nat
      BY <2>1, <1>5, Zenon
    <3>. QED  BY <3>1, <1>11, <1>1
  <2>3. /\ r \in 0 .. j /\ b + item' = EndAt(c, r)
        /\ (found' => r < j) /\ (got' => found') /\ (~resize' => got' /\ r + 2 <= j)
    BY <2>1, <1>1
  <2>4. ~streaming' /\ ~found' => j < LineCount(c)
    BY <1>16, <1>1
  <2>. QED  BY <1>12, <1>14, <2>2, <2>3, <2>4, Zenon DEF ReadingAt
<1>. QED  BY <1>1, <1>10, <1>15, <1>17

\* The call has returned the lines from r to k.
Emits(c, r, k) ==
  /\ k \in 0 .. LineCount(c) /\ r < k
  /\ pc' = "block" /\ block' = SubSeq(Text(c), EndAt(c, r) + 1, EndAt(c, k))

\* Two lines that end within the same bytes.
LEMMA SameLine ==
  ASSUME NEW c, NEW s, Chart(c, s), NEW k \in 0 .. LineCount(c), NEW l \in 0 .. LineCount(c), NEW w \in Nat,
         EndAt(c, l) <= w, k < LineCount(c) => w < EndAt(c, k + 1)
  PROVE  l <= k
<1>1. k \in Nat /\ l \in Nat /\ LineCount(c) \in Nat /\ l <= LineCount(c) /\ k <= LineCount(c)
  BY LineNumbers
<1>2. ASSUME k < l PROVE FALSE
  <2>1. k < LineCount(c) /\ k + 1 <= l /\ k + 1 \in 0 .. LineCount(c)
    BY <1>1, <1>2
  <2>2. EndAt(c, k + 1) <= EndAt(c, l) /\ w < EndAt(c, k + 1)
    BY <2>1, LinesFollow
  <2>3. EndAt(c, k + 1) \in Nat /\ EndAt(c, l) \in Nat
    BY <2>1, LineNumbers
  <2>. QED  BY <2>2, <2>3
<1>. QED  BY <1>1, <1>2

\* The end of the frame.
LEMMA AtEndStep ==
  ASSUME NEW c, Chart(c, stream), NEW b, NEW j, NEW r, Typed, Buffered(c, b), ReadingAt(c, b, j, r), AtEnd
  PROVE  /\ Typed' /\ Buffered(c, b)' /\ UNCHANGED <<stream, streaming>>
         /\ \/ Emits(c, r, LineCount(c)) /\ BetweenCalls(c, b, LineCount(c), LineCount(c))'
            \/ r = LineCount(c) /\ pc' = "end"
            \/ streaming /\ pc' = "error"
<1>1. /\ UNCHANGED <<stream, streaming, at, avail>> /\ UNCHANGED <<buf, size, last_path, shared>>
      /\ UNCHANGED <<resize, found, got, item>>
      /\ Left = 0 /\ Return(buf, got)
  BY DEF AtEnd, reader, buffer, call
<1>2. Settled(c, b, j) /\ InMemory(c, j)
  BY Zenon DEF ReadingAt
<1>3. /\ j \in 0 .. LineCount(c) /\ j \in Nat /\ LineCount(c) \in Nat
      /\ b \in Nat /\ Len(buf) \in Nat /\ at \in Nat
      /\ At(c, j) \in Nat /\ Gap(c, j) \in Nat /\ Pos(c, j) \in Nat
      /\ at <= At(c, j) + Gap(c, j) /\ b + Len(buf) = Pos(c, j) + (at - At(c, j))
      /\ At(c, j) + Gap(c, j) <= Len(stream) /\ Len(stream) \in Nat
      /\ (j < LineCount(c) => at < At(c, j) + Gap(c, j))
  BY <1>2, ReaderAt
<1>4. at = Len(stream)
  <2>1. Len(stream) - at = 0
    BY <1>1 DEF Left
  <2>2. at \in Nat /\ Len(stream) \in Nat
    BY <1>3, Zenon
  <2>. QED  BY <2>1, <2>2
<1>5. j = LineCount(c)
  <2>1. /\ at \in Nat /\ At(c, j) \in Nat /\ Gap(c, j) \in Nat /\ At(c, j) + Gap(c, j) <= at
    BY <1>3, <1>4, Zenon
  <2>2. ~(at < At(c, j) + Gap(c, j))
    BY <2>1
  <2>3. ~(j < LineCount(c)) /\ j \in 0 .. LineCount(c) /\ LineCount(c) \in Nat
    BY <1>3, <2>2, Zenon
  <2>. QED  BY <2>3
<1>6. b + Len(buf) = Len(Text(c)) /\ EndAt(c, LineCount(c)) = Len(Text(c))
  <2>1. At(c, j) + Gap(c, j) = Len(stream) /\ Pos(c, j) + Gap(c, j) = Len(Text(c)) /\ EndAt(c, j) = Len(Text(c))
    BY <1>5, LastOfChart
  <2>2. /\ b \in Nat /\ Len(buf) \in Nat /\ at \in Nat /\ At(c, j) \in Nat /\ Gap(c, j) \in Nat /\ Pos(c, j) \in Nat
        /\ b + Len(buf) = Pos(c, j) + (at - At(c, j))
    BY <1>3, Zenon
  <2>3. b + Len(buf) = Pos(c, j) + Gap(c, j)
    BY <2>1, <2>2, <1>4
  <2>. QED  BY <2>1, <2>3, <1>5, Zenon
<1>7. /\ r \in 0 .. j /\ item \in 0 .. Len(buf) /\ b + item = EndAt(c, r) /\ (found => r < j) /\ (got => found)
      /\ (~streaming /\ ~found => (r = LineCount(c) /\ item = Len(buf)) \/ j < LineCount(c))
  BY Zenon DEF ReadingAt
<1>r. r \in 0 .. LineCount(c) /\ r \in Nat
  BY <1>3, <1>5, <1>7
<1>8. PICK k \in r .. LineCount(c) :
           /\ k \in 0 .. LineCount(c) /\ EndAt(c, k) <= b + Len(buf) /\ (k < LineCount(c) => b + Len(buf) < EndAt(c, k + 1))
           /\ partial' \in Nat
           /\ (k > r => /\ partial' \in 0 .. Len(buf) /\ b + partial' = EndAt(c, k)
                        /\ IF got \/ found \/ Len(buf) = item
                           THEN pc' = "block" /\ block' = SubSeq(Text(c), EndAt(c, r) + 1, EndAt(c, k))
                           ELSE pc' = "error")
           /\ (k = r /\ ~got => pc' = "end")
  <2>1. Window(Text(c), b, buf)
    BY Zenon DEF Buffered
  <2>2. got \in BOOLEAN /\ partial \in Nat
    BY Zenon DEF Typed
  <2>3. item \in 0 .. Len(buf) /\ b + item = EndAt(c, r) /\ Return(buf, got)
    BY <1>1, <1>7, Zenon
  <2>. HIDE DEF Return
  <2>. QED  BY <2>1, <2>2, <2>3, <1>r, Returns
<1>9. k = LineCount(c)
  <2>1. LineCount(c) \in 0 .. LineCount(c) /\ b + Len(buf) \in Nat
    BY <1>3
  <2>2. EndAt(c, LineCount(c)) <= b + Len(buf)
    BY <1>6, <2>1
  <2>3. LineCount(c) <= k
    BY <1>8, <2>1, <2>2, SameLine
  <2>. QED  BY <2>3, <1>8, <1>3
<1>10. Typed'
  <2>1. Left' = Left
    BY <1>1 DEF Left
  <2>. QED  BY <1>1, <1>8, <2>1 DEF Typed
<1>11. Buffered(c, b)'
  BY <1>1 DEF Buffered
<1>12. CASE r = LineCount(c)
  <2>1. ~found
    <3>1. ~(r < j)
      BY <1>5, <1>12, <1>r
    <3>. QED  BY <3>1, <1>7, Zenon
  <2>2. pc' = "end"
    BY <2>1, <1>7, <1>8, <1>9, <1>12, Zenon
  <2>. QED  BY <1>1, <1>10, <1>11, <1>12, <2>2
<1>13. CASE r # LineCount(c)
  <2>1. r < LineCount(c) /\ LineCount(c) > r
    BY <1>3, <1>r, <1>13
  <2>2. /\ partial' \in 0 .. Len(buf) /\ b + partial' = EndAt(c, k)
        /\ IF got \/ found \/ Len(buf) = item
           THEN pc' = "block" /\ block' = SubSeq(Text(c), EndAt(c, r) + 1, EndAt(c, k))
           ELSE pc' = "error"
    BY <1>8, <1>9, <2>1, Zenon
  <2>3. Len(buf) # item
    <3>1. EndAt(c, r) < EndAt(c, LineCount(c)) /\ LineCount(c) \in 0 .. LineCount(c)
      <4>1. LineCount(c) \in 0 .. LineCount(c)
        BY <1>3
      <4>. QED  BY <4>1, <1>r, <2>1, LinesFollow
    <3>2. EndAt(c, r) \in Nat /\ EndAt(c, LineCount(c)) \in Nat
      BY <3>1, <1>r, LineNumbers
    <3>3. b + item = EndAt(c, r) /\ b + Len(buf) = EndAt(c, LineCount(c))
      BY <1>6, <1>7, Zenon
    <3>. QED  BY <3>1, <3>2, <3>3
  <2>4. CASE found
    <3>1. Emits(c, r, LineCount(c))
      BY <2>1, <2>2, <2>4, <1>8, <1>9, Zenon DEF Emits
    <3>2. Settled(c, b, LineCount(c))'
      BY <1>1, <1>2, <1>5 DEF Settled
    <3>3. InMemory(c, LineCount(c))'
      <4>1. InMemory(c, j)'
        BY <1>1, <1>2 DEF InMemory, Left
      <4>. QED  BY <4>1, <1>5, Zenon
    <3>4. /\ LineCount(c) \in 0 .. LineCount(c) /\ partial' \in 0 .. Len(buf') /\ b + partial' = EndAt(c, LineCount(c))
      BY <1>1, <1>3, <1>9, <2>2
    <3>5. ~(LineCount(c) < LineCount(c))
      BY <1>3
    <3>6. BetweenCalls(c, b, LineCount(c), LineCount(c))'
      BY <3>2, <3>3, <3>4, <3>5, Zenon DEF BetweenCalls
    <3>. QED  BY <3>1, <3>6, <1>1, <1>10, <1>11
  <2>5. CASE ~found
    <3>1. pc' = "error"
      BY <2>2, <2>3, <2>5, <1>7, Zenon
    <3>2. streaming
      <4>1. ~(j < LineCount(c))
        BY <1>3, <1>5
      <4>2. streaming \in BOOLEAN
        BY Zenon DEF Typed
      <4>. QED  BY <4>1, <4>2, <1>7, <1>13, <2>5, Zenon
    <3>. QED  BY <3>1, <3>2, <1>1, <1>10, <1>11
  <2>. QED  BY <2>4, <2>5, Zenon
<1>. QED  BY <1>12, <1>13, Zenon

\* A whole line is there, and the next piece does not fit.
LEMMA FullStep ==
  ASSUME NEW c, Chart(c, stream), NEW b, NEW j, NEW r, Typed, Buffered(c, b), ReadingAt(c, b, j, r), Full
  PROVE  /\ Typed' /\ Buffered(c, b)' /\ UNCHANGED <<stream, streaming>>
         /\ \E k \in 0 .. LineCount(c) : Emits(c, r, k) /\ BetweenCalls(c, b, j, k)'
<1>1. /\ UNCHANGED <<stream, streaming, at, avail>> /\ UNCHANGED <<buf, size, last_path, shared>>
      /\ UNCHANGED <<resize, found, got, item>>
      /\ ~resize /\ Return(buf, got)
  BY DEF Full, reader, buffer, call, Holds
<1>2. Settled(c, b, j) /\ InMemory(c, j)
  BY Zenon DEF ReadingAt
<1>3. /\ j \in 0 .. LineCount(c) /\ j \in Nat /\ LineCount(c) \in Nat
      /\ b \in Nat /\ Len(buf) \in Nat /\ PathAt(c, j) \in Nat
      /\ last_path \in Nat /\ last_path <= Len(buf) /\ b + last_path = PathAt(c, j)
  BY <1>2, ReaderAt
<1>7. /\ r \in 0 .. j /\ item \in 0 .. Len(buf) /\ b + item = EndAt(c, r)
      /\ got = TRUE /\ r + 2 <= j
  <2>1. got \in BOOLEAN
    BY Zenon DEF Typed
  <2>2. got
    BY <1>1, Zenon DEF ReadingAt
  <2>. QED  BY <1>1, <2>1, <2>2, Zenon DEF ReadingAt
<1>r. r \in 0 .. LineCount(c) /\ r \in Nat /\ r + 1 \in 0 .. LineCount(c) /\ r + 1 < j
  BY <1>3, <1>7
<1>8. PICK k \in r .. LineCount(c) :
           /\ k \in 0 .. LineCount(c) /\ EndAt(c, k) <= b + Len(buf) /\ (k < LineCount(c) => b + Len(buf) < EndAt(c, k + 1))
           /\ partial' \in Nat
           /\ (k > r => /\ partial' \in 0 .. Len(buf) /\ b + partial' = EndAt(c, k)
                        /\ IF TRUE \/ found \/ Len(buf) = item
                           THEN pc' = "block" /\ block' = SubSeq(Text(c), EndAt(c, r) + 1, EndAt(c, k))
                           ELSE pc' = "error")
           /\ (k = r /\ ~TRUE => pc' = "end")
  <2>1. Window(Text(c), b, buf)
    BY Zenon DEF Buffered
  <2>2. TRUE \in BOOLEAN /\ partial \in Nat
    BY Zenon DEF Typed
  <2>3. item \in 0 .. Len(buf) /\ b + item = EndAt(c, r) /\ Return(buf, TRUE)
    BY <1>1, <1>7, Zenon
  <2>. HIDE DEF Return
  <2>. QED  BY <2>1, <2>2, <2>3, <1>r, Returns
<1>9. k > r
  <2>1. EndAt(c, r + 1) <= b + Len(buf) /\ b + Len(buf) \in Nat
    <3>1. EndAt(c, r + 1) < PathAt(c, j)
      BY <1>3, <1>r, LinesFollow
    <3>2. EndAt(c, r + 1) \in Nat
      BY <1>r, LineNumbers
    <3>. QED  BY <3>1, <3>2, <1>3
  <2>2. r + 1 <= k
    BY <1>8, <1>r, <2>1, SameLine
  <2>. QED  BY <2>2, <1>r, <1>8, <1>3
<1>10. Typed'
  <2>1. Left' = Left
    BY <1>1 DEF Left
  <2>. QED  BY <1>1, <1>8, <2>1 DEF Typed
<1>11. Buffered(c, b)'
  BY <1>1 DEF Buffered
<1>12. Emits(c, r, k)
  <2>1. r < k
    BY <1>r, <1>8, <1>9, <1>3
  <2>. QED  BY <2>1, <1>8, <1>9, Zenon DEF Emits
<1>13. BetweenCalls(c, b, j, k)'
  <2>1. Settled(c, b, j)'
    BY <1>1, <1>2 DEF Settled
  <2>2. InMemory(c, j)'
    BY <1>1, <1>2 DEF InMemory, Left
  <2>3. /\ k \in 0 .. LineCount(c) /\ partial' \in 0 .. Len(buf') /\ b + partial' = EndAt(c, k)
        /\ (k < LineCount(c) => b + Len(buf') < EndAt(c, k + 1))
    BY <1>1, <1>8, <1>9
  <2>. QED  BY <2>1, <2>2, <2>3, Zenon DEF BetweenCalls
<1>. QED  BY <1>1, <1>8, <1>10, <1>11, <1>12, <1>13

\* The NUL of the next line is in the piece.
LEMMA EntryText ==
  ASSUME NEW c, Chart(c, stream), NEW b, NEW j, Typed, Buffered(c, b), Settled(c, b, j),
         avail > 0, NulAt > 0
  PROVE  /\ Window(Text(c), b, buf \o Taken) /\ Len(buf \o Taken) = Len(buf) + NulAt
         /\ b + Len(buf \o Taken) = PathAt(c, j + 1)
         /\ at + NulAt = At(c, j) + Gap(c, j) /\ NulAt \in Nat
         /\ j < LineCount(c) /\ j + 1 \in 1 .. LineCount(c) /\ j \in 0 .. LineCount(c) /\ (j + 1) - 1 = j
<1>1. NulAt \in 0 .. avail /\ j < LineCount(c) /\ at + NulAt = At(c, j) + Gap(c, j)
  BY NextNul
<1>2. /\ j \in 0 .. LineCount(c) /\ j \in Nat /\ LineCount(c) \in Nat
      /\ b \in Nat /\ Len(buf) \in Nat /\ at \in Nat /\ avail \in Nat
      /\ At(c, j) \in Nat /\ Gap(c, j) \in Nat /\ Pos(c, j) \in Nat
      /\ b + Len(buf) = Pos(c, j) + (at - At(c, j))
      /\ at + avail <= Len(stream) /\ Len(stream) \in Nat
  BY ReaderAt
<1>3. NulAt \in Nat /\ NulAt <= avail /\ at + NulAt <= Len(stream)
  BY <1>1, <1>2
<1>4. Taken = SubSeq(stream, at + 1, at + NulAt)
  <2>1. Taken = SubSeq(Piece, 1, NulAt)
    <3>1. NulAt # 0
      BY <1>3
    <3>. QED  BY <3>1, Zenon DEF Taken
  <2>2. stream \in Seq(Int)
    BY Zenon DEF Chart, ChartTyped
  <2>3. Piece \in Seq(Int) /\ Len(Piece) = avail /\ \A i \in 1 .. avail : Piece[i] = stream[at + i]
    BY <2>2, PieceIs
  <2>4. /\ SubSeq(Piece, 0 + 1, NulAt) \in Seq(Int) /\ Len(SubSeq(Piece, 0 + 1, NulAt)) = NulAt - 0
        /\ \A i \in 1 .. NulAt - 0 : SubSeq(Piece, 0 + 1, NulAt)[i] = Piece[0 + i]
    <3>1. 0 \in Nat /\ 0 <= NulAt /\ NulAt <= Len(Piece)
      BY <1>3, <2>3
    <3>. QED  BY <1>3, <2>3, <3>1, Sub
  <2>. DEFINE w == at + NulAt
  <2>5. w \in Nat /\ at <= w /\ w <= Len(stream) /\ w - at = NulAt
    BY <1>2, <1>3
  <2>. HIDE DEF w
  <2>6. /\ SubSeq(stream, at + 1, w) \in Seq(Int) /\ Len(SubSeq(stream, at + 1, w)) = w - at
        /\ \A i \in 1 .. w - at : SubSeq(stream, at + 1, w)[i] = stream[at + i]
    BY <1>2, <2>2, <2>5, Sub, ZenonT(60)
  <2>. DEFINE f == SubSeq(Piece, 1, NulAt)
              g == SubSeq(stream, at + 1, w)
  <2>7. f \in Seq(Int) /\ Len(f) = NulAt /\ \A i \in 1 .. NulAt : f[i] = stream[at + i]
    <3>1. 0 + 1 = 1 /\ NulAt - 0 = NulAt /\ \A i \in 1 .. NulAt : 0 + i = i /\ i \in 1 .. avail
      BY <1>2, <1>3
    <3>2. \A i \in 1 .. NulAt : f[i] = Piece[i]
      BY <2>4, <3>1
    <3>3. f \in Seq(Int) /\ Len(f) = NulAt
      BY <2>4, <3>1
    <3>. HIDE DEF f
    <3>. QED  BY <2>3, <3>1, <3>2, <3>3
  <2>8. g \in Seq(Int) /\ Len(g) = NulAt /\ \A i \in 1 .. NulAt : g[i] = stream[at + i]
    BY <2>5, <2>6
  <2>. HIDE DEF f, g
  <2>9. f = g
    BY <2>7, <2>8
  <2>. QED  BY <2>1, <2>9, Zenon DEF f, g, w
<1>5. Window(Text(c), b + Len(buf), Taken) /\ Len(Taken) = NulAt
  <2>1. at + NulAt <= At(c, j) + Gap(c, j)
    BY <1>1, <1>2, <1>3
  <2>. QED  BY <1>3, <1>4, <2>1, NextBytes
<1>6. Window(Text(c), b, buf \o Taken) /\ Len(buf \o Taken) = Len(buf) + NulAt
  <2>1. Window(Text(c), b, buf)
    BY Zenon DEF Buffered
  <2>2. Window(Text(c), b, buf \o Taken) /\ Len(buf \o Taken) = Len(buf) + Len(Taken)
    BY <2>1, <1>5, WindowConcat
  <2>. QED  BY <2>2, <1>5, Zenon
<1>7. PathAt(c, j + 1) = Pos(c, j) + Gap(c, j) /\ j + 1 \in 1 .. LineCount(c)
  BY <1>1, <1>2, NextLine
<1>8. b + Len(buf \o Taken) = PathAt(c, j + 1)
  <2>1. /\ b \in Nat /\ Len(buf) \in Nat /\ at \in Nat /\ At(c, j) \in Nat /\ Gap(c, j) \in Nat /\ Pos(c, j) \in Nat
        /\ b + Len(buf) = Pos(c, j) + (at - At(c, j)) /\ at + NulAt = At(c, j) + Gap(c, j)
    BY <1>1, <1>2, Zenon
  <2>2. b + (Len(buf) + NulAt) = Pos(c, j) + Gap(c, j)
    BY <2>1, <1>3
  <2>. QED  BY <2>2, <1>6, <1>7, Zenon
<1>9. (j + 1) - 1 = j
  BY <1>2
<1>. QED  BY <1>1, <1>2, <1>3, <1>6, <1>7, <1>8, <1>9, Zenon

\* What is left of the piece at hand.
LEMMA Rest ==
  ASSUME NEW a \in Nat, NEW v \in Nat, NEW l \in Nat, a + v <= l, NEW x \in Nat, x <= l,
         NEW y, y = IF a + v > x THEN a + v - x ELSE 0
  PROVE  y \in 0 .. l - x /\ (a + v = l => y \in {0, l - x})
OBVIOUS

\* The NUL of line j + 1, its difference and, if it fits, its shared prefix.
LEMMA EntryStep ==
  ASSUME NEW c, Chart(c, stream), NEW b, NEW j, NEW r, Typed, Buffered(c, b), ReadingAt(c, b, j, r), Entry,
         pc = "read"
  PROVE  /\ Typed' /\ Buffered(c, b)' /\ UNCHANGED <<stream, streaming>>
         /\ j + 1 \in 0 .. LineCount(c) /\ j \in 0 .. LineCount(c)
         /\ \/ ReadingAt(c, b, j + 1, r)' /\ UNCHANGED <<pc, block>>
            \/ Emits(c, r, j) /\ BetweenCalls(c, b, j + 1, j)'
<1>. DEFINE text == buf \o Taken
            p    == at + NulAt + 1
            big  == Grown(Len(text), size)
            n    == shared + DecodeDiff(stream, p)
            copy == CopyShared(text, last_path, n, big, ~found)
<1>1. /\ UNCHANGED <<stream, streaming, item>> /\ NulAt > 0 /\ avail > 0
      /\ resize' = ~found /\ found' = TRUE /\ got' = TRUE
      /\ IF ~HasDiff(stream, p)
         THEN /\ pc' = "error"
              /\ buf' = text /\ size' = big /\ at' = Len(stream) /\ avail' = 0
              /\ UNCHANGED <<last_path, shared, partial, block>>
         ELSE /\ at' = p + DiffLen(stream, p) - 1
              /\ avail' = IF at + avail > at' THEN at + avail - at' ELSE 0
              /\ shared' = n
              /\ CASE copy.is = "ok" ->
                        /\ buf' = copy.buf /\ size' = copy.size /\ last_path' = Len(text)
                        /\ UNCHANGED <<partial, pc, block>>
                   [] copy.is = "full" ->
                        /\ buf' = text /\ size' = big /\ UNCHANGED last_path
                        /\ Return(text, TRUE)
                   [] copy.is = "error" ->
                        /\ buf' = text /\ size' = big /\ pc' = "error"
                        /\ UNCHANGED <<last_path, partial, block>>
  BY Zenon DEF Entry, Reading
<1>. HIDE DEF text, p, big, n, copy
<1>2. Settled(c, b, j) /\ InMemory(c, j)
  BY Zenon DEF ReadingAt
<1>3. /\ Window(Text(c), b, text) /\ Len(text) = Len(buf) + NulAt
      /\ b + Len(text) = PathAt(c, j + 1)
      /\ at + NulAt = At(c, j) + Gap(c, j) /\ NulAt \in Nat
      /\ j < LineCount(c) /\ j + 1 \in 1 .. LineCount(c) /\ j \in 0 .. LineCount(c) /\ (j + 1) - 1 = j
  BY <1>1, <1>2, EntryText DEF text
<1>4. /\ j \in Nat /\ LineCount(c) \in Nat
      /\ b \in Nat /\ Len(buf) \in Nat /\ at \in Nat /\ avail \in Nat
      /\ At(c, j) \in Nat /\ Gap(c, j) \in Nat
      /\ at + avail <= Len(stream) /\ Len(stream) \in Nat
      /\ last_path \in Nat /\ last_path <= Len(buf) /\ b + last_path = PathAt(c, j)
      /\ Shared(c, j) \in Nat
  BY <1>2, ReaderAt
<1>5. p = At(c, j) + Gap(c, j) + 1
  <2>1. p = (at + NulAt) + 1
    BY DEF p
  <2>. QED  BY <2>1, <1>3, Zenon
<1>6. /\ HasDiff(stream, p) /\ DecodeDiff(stream, p) = Shared(c, j + 1) - Shared(c, j)
      /\ At(c, j + 1) = p + DiffLen(stream, p) - 1
  BY <1>3, <1>5, NextLine
<1>j. j + 1 \in 0 .. LineCount(c) /\ j + 1 \in Nat
  BY <1>3, <1>4
<1>7. /\ Shared(c, j + 1) \in Nat /\ At(c, j + 1) \in Nat /\ Gap(c, j + 1) \in Nat /\ Pos(c, j + 1) \in Nat
      /\ At(c, j + 1) + Gap(c, j + 1) <= Len(stream) /\ PathAt(c, j + 1) \in Nat
      /\ Pos(c, j + 1) = PathAt(c, j + 1) + Shared(c, j + 1)
  BY <1>j, LineNumbers
<1>8. n = Shared(c, j + 1)
  <2>1. shared = Shared(c, j)
    BY <1>2, Zenon DEF Settled
  <2>2. n = Shared(c, j) + (Shared(c, j + 1) - Shared(c, j))
    BY <2>1, <1>6, Zenon DEF n
  <2>3. Shared(c, j) \in Nat /\ Shared(c, j + 1) \in Nat
    BY <1>4, <1>7, Zenon
  <2>. QED  BY <2>2, <2>3
<1>9. /\ at' = At(c, j + 1) /\ shared' = Shared(c, j + 1)
      /\ avail' = IF at + avail > at' THEN at + avail - at' ELSE 0
      /\ CASE copy.is = "ok" ->
                /\ buf' = copy.buf /\ size' = copy.size /\ last_path' = Len(text)
                /\ UNCHANGED <<partial, pc, block>>
           [] copy.is = "full" ->
                /\ buf' = text /\ size' = big /\ UNCHANGED last_path
                /\ Return(text, TRUE)
           [] copy.is = "error" ->
                /\ buf' = text /\ size' = big /\ pc' = "error"
                /\ UNCHANGED <<last_path, partial, block>>
  BY <1>1, <1>6, <1>8, Zenon
\* What is left of the piece.
<1>10. /\ at' \in 0 .. Len(stream') /\ avail' \in 0 .. Left'
       /\ (~streaming => avail' \in {0, Left'})
  <2>1. at' \in Nat /\ at' <= Len(stream) /\ Len(stream) \in Nat /\ at \in Nat /\ avail \in Nat
        /\ at + avail <= Len(stream)
    <3>1. /\ At(c, j + 1) \in Nat /\ Gap(c, j + 1) \in Nat /\ At(c, j + 1) + Gap(c, j + 1) <= Len(stream)
          /\ Len(stream) \in Nat
      BY <1>4, <1>7, Zenon
    <3>2. At(c, j + 1) <= Len(stream)
      BY <3>1
    <3>. QED  BY <3>2, <1>4, <1>7, <1>9, Zenon
  <2>2. Left' = Len(stream) - at'
    BY <1>1 DEF Left
  <2>3. avail' = IF at + avail > at' THEN at + avail - at' ELSE 0
    BY <1>9, Zenon
  <2>4. at' \in 0 .. Len(stream)
    BY <2>1
  <2>50. avail' \in 0 .. Len(stream) - at' /\ (at + avail = Len(stream) => avail' \in {0, Len(stream) - at'})
    BY <2>1, <2>3, Rest
  <2>5. avail' \in 0 .. Left'
    BY <2>2, <2>50, Zenon
  <2>6. ~streaming => at + avail = Len(stream)
    <3>1. ~streaming => avail = Len(stream) - at
      BY <1>1, <1>2 DEF InMemory, Left
    <3>. QED  BY <3>1, <2>1
  <2>7. ~streaming => avail' \in {0, Left'}
    BY <2>2, <2>50, <2>6, Zenon
  <2>. QED  BY <1>1, <2>4, <2>5, <2>7
<1>11. InMemory(c, j + 1)'
  <2>1. streaming' = streaming /\ at' = At(c, j + 1)
    BY <1>1, <1>9
  <2>2. ~streaming' => avail' \in {0, Left'}
    BY <2>1, <1>10
  <2>. QED  BY <2>1, <2>2, Zenon DEF InMemory
<1>12. /\ Len(text) \in Nat /\ last_path \in 0 .. Len(text) /\ big \in Nat /\ Len(text) <= big /\ (~found) \in BOOLEAN
  <2>1. Len(text) \in Nat
    BY <1>3, <1>4
  <2>2. size \in Nat
    BY Zenon DEF Buffered
  <2>3. last_path \in 0 .. Len(text)
    BY <1>3, <1>4, <2>1
  <2>. QED  BY <2>1, <2>2, <2>3, Grows DEF big
<1>13. \/ /\ copy.is = "ok" /\ Window(Text(c), b, copy.buf) /\ Len(copy.buf) = Len(text) + n
          /\ b + Len(copy.buf) = Pos(c, j + 1) /\ copy.size \in Nat /\ Len(copy.buf) <= copy.size
       \/ copy = [is |-> "full"] /\ found /\ Len(text) + n > big
  <2>1. b + last_path = PathAt(c, (j + 1) - 1) \/ Shared(c, j + 1) = 0
    BY <1>3, <1>4, Zenon
  <2>. DEFINE may == ~found
              k == j + 1
  <2>m. may \in BOOLEAN /\ (~may => found)
    <3>1. found \in BOOLEAN
      BY Zenon DEF Typed
    <3>. QED  BY <3>1
  <2>2. copy = CopyShared(text, last_path, Shared(c, k), big, may)
    BY <1>8 DEF copy
  <2>k. k \in 1 .. LineCount(c) /\ b + Len(text) = PathAt(c, k) /\ (b + last_path = PathAt(c, k - 1) \/ Shared(c, k) = 0)
    BY <1>3, <2>1, Zenon
  <2>s. n = Shared(c, k)
    BY <1>8, Zenon
  <2>. HIDE DEF may, k
  <2>3. Copied(c, k, b, text, CopyShared(text, last_path, Shared(c, k), big, may), big, may)
    <3>1. Window(Text(c), b, text)
      BY <1>3, Zenon
    <3>2. last_path \in 0 .. Len(text) /\ big \in Nat
      BY <1>12, Zenon
    <3>. QED  BY <2>m, <2>k, <3>1, <3>2, Copies
  <2>4. Pos(c, k) = Pos(c, j + 1)
    BY DEF k
  <2>. QED  BY <2>m, <2>2, <2>3, <2>4, <2>s, Zenon DEF Copied
<1>14. /\ r \in 0 .. j /\ item \in 0 .. Len(buf) /\ b + item = EndAt(c, r) /\ (found => r < j) /\ found \in BOOLEAN
  BY Zenon DEF ReadingAt, Typed
<1>15. item \in 0 .. Len(text) /\ r \in 0 .. LineCount(c) /\ r \in Nat
  BY <1>3, <1>4, <1>14, SMTT(60)
<1>16. /\ partial \in Nat /\ item \in Nat /\ streaming \in BOOLEAN /\ (~found) \in BOOLEAN /\ TRUE \in BOOLEAN
       /\ shared' \in Int
  BY <1>7, <1>9 DEF Typed
<1>17. CASE copy.is = "ok"
  <2>1. /\ buf' = copy.buf /\ size' = copy.size /\ last_path' = Len(text) /\ UNCHANGED <<partial, pc, block>>
    BY <1>9, <1>17
  <2>2. /\ Window(Text(c), b, buf') /\ Len(buf') = Len(text) + n /\ b + Len(buf') = Pos(c, j + 1)
        /\ size' \in Nat /\ Len(buf') <= size'
    <3>1. copy # [is |-> "full"]
      BY <1>17
    <3>. QED  BY <2>1, <3>1, <1>13, Zenon
  <2>3. Buffered(c, b)'
    BY <2>2, Zenon DEF Buffered
  <2>4. Len(buf') \in Nat /\ Len(text) <= Len(buf')
    <3>1. n \in Nat /\ Len(text) \in Nat
      BY <1>7, <1>8, <1>12, Zenon
    <3>. QED  BY <3>1, <2>2
  <2>5. last_path' \in 0 .. Len(buf') /\ b + last_path' = PathAt(c, j + 1)
    <3>1. Len(text) \in 0 .. Len(buf')
      BY <2>4, <1>12
    <3>. QED  BY <2>1, <3>1, <1>3, Zenon
  <2>6. Typed'
    <3>1. /\ at' \in 0 .. Len(stream') /\ avail' \in 0 .. Left' /\ partial' \in Nat /\ item' \in Nat
          /\ last_path' \in 0 .. Len(buf') /\ Len(buf') <= size'
          /\ streaming' \in BOOLEAN /\ shared' \in Int
      BY <1>1, <1>10, <1>16, <2>1, <2>2, <2>5
    <3>2. resize' \in BOOLEAN /\ found' \in BOOLEAN /\ got' \in BOOLEAN
      BY <1>1, <1>16
    <3>. QED  BY <3>1, <3>2, Zenon DEF Typed
  <2>7. Settled(c, b, j + 1)'
    <3>1. b + Len(buf') - Pos(c, j + 1) = at' - At(c, j + 1)
      <4>1. b + Len(buf') = Pos(c, j + 1) /\ Pos(c, j + 1) \in Nat /\ at' = At(c, j + 1) /\ At(c, j + 1) \in Nat
        BY <2>2, <1>7, <1>9, Zenon
      <4>2. b \in Nat
        BY <1>4, Zenon
      <4>. QED  BY <4>1, <4>2, <2>4
    <3>2. At(c, j + 1) <= at' /\ at' <= At(c, j + 1) + Gap(c, j + 1)
          /\ (j + 1 < LineCount(c) => at' < At(c, j + 1) + Gap(c, j + 1))
      <4>1. at' = At(c, j + 1) /\ At(c, j + 1) \in Nat /\ Gap(c, j + 1) \in Nat
        BY <1>7, <1>9, Zenon
      <4>2. j + 1 < LineCount(c) => Gap(c, j + 1) >= 1
        BY <1>j, NextLine
      <4>. QED  BY <4>1, <4>2
    <3>3. shared' = Shared(c, j + 1)
      BY <1>9, Zenon
    <3>. QED  BY <1>j, <2>5, <3>1, <3>2, <3>3, Zenon DEF Settled
  <2>8. ReadingAt(c, b, j + 1, r)'
    <3>1. r \in 0 .. j + 1 /\ r < j + 1 /\ (found => r + 2 <= j + 1)
      <4>1. r \in Nat /\ r <= j /\ j \in Nat
        BY <1>14, <1>15, <1>4
      <4>2. found => r < j
        BY <1>14, Zenon
      <4>3. r < j => r + 2 <= j + 1
        BY <4>1
      <4>4. r \in 0 .. j + 1 /\ r < j + 1
        BY <4>1
      <4>. QED  BY <4>2, <4>3, <4>4, Zenon
    <3>2. item' \in 0 .. Len(buf') /\ b + item' = EndAt(c, r)
      <4>1. item \in 0 .. Len(text) /\ Len(text) \in Nat
        BY <1>12, <1>15, Zenon
      <4>2. item \in 0 .. Len(buf')
        BY <4>1, <2>4
      <4>. QED  BY <4>2, <1>1, <1>14
    <3>3. (found' => r < j + 1) /\ (got' => found') /\ (~resize' => got' /\ r + 2 <= j + 1)
      BY <3>1, <1>1
    <3>4. ~(~streaming' /\ ~found')
      BY <1>1
    <3>. QED  BY <3>1, <3>2, <3>3, <3>4, <2>7, <1>11, Zenon DEF ReadingAt
  <2>. QED  BY <1>1, <1>3, <1>j, <2>1, <2>3, <2>6, <2>8
<1>18. CASE copy = [is |-> "full"] /\ found /\ Len(text) + n > big
  <2>1. copy.is = "full"
    BY <1>18
  <2>2. /\ buf' = text /\ size' = big /\ UNCHANGED last_path /\ Return(text, TRUE)
    BY <1>9, <2>1
  <2>3. n > 0
    <3>1. Len(text) \in Nat /\ big \in Nat /\ Len(text) <= big /\ n \in Nat
      BY <1>7, <1>8, <1>12, Zenon
    <3>. QED  BY <3>1, <1>18
  <2>4. Buffered(c, b)'
    BY <1>3, <1>12, <2>2, Zenon DEF Buffered
  <2>5. PICK k \in r .. LineCount(c) :
           /\ k \in 0 .. LineCount(c) /\ EndAt(c, k) <= b + Len(text) /\ (k < LineCount(c) => b + Len(text) < EndAt(c, k + 1))
           /\ partial' \in Nat
           /\ (k > r => /\ partial' \in 0 .. Len(text) /\ b + partial' = EndAt(c, k)
                        /\ IF TRUE \/ found \/ Len(text) = item
                           THEN pc' = "block" /\ block' = SubSeq(Text(c), EndAt(c, r) + 1, EndAt(c, k))
                           ELSE pc' = "error")
           /\ (k = r /\ ~TRUE => pc' = "end")
    <3>1. TRUE \in BOOLEAN /\ partial \in Nat
      BY Zenon DEF Typed
    <3>2. item \in 0 .. Len(text) /\ b + item = EndAt(c, r) /\ Return(text, TRUE) /\ r \in 0 .. LineCount(c)
      BY <1>14, <1>15, <2>2, Zenon
    <3>3. Window(Text(c), b, text)
      BY <1>3, Zenon
    <3>. QED  BY <3>1, <3>2, <3>3, Returns
  <2>6. k = j /\ b + Len(text) < EndAt(c, j + 1)
    <3>1. EndAt(c, j) < PathAt(c, j + 1) /\ PathAt(c, j + 1) < EndAt(c, j + 1)
      <4>1. j < j + 1 /\ j \in 0 .. LineCount(c)
        BY <1>3, <1>4
      <4>. QED  BY <4>1, <1>j, LinesFollow
    <3>2. EndAt(c, j) \in Nat /\ EndAt(c, j + 1) \in Nat /\ PathAt(c, j + 1) \in Nat
      BY <1>3, <1>j, LineNumbers
    <3>3. b + Len(text) \in Nat /\ EndAt(c, j) <= b + Len(text) /\ b + Len(text) < EndAt(c, j + 1)
      <4>1. b + Len(text) = PathAt(c, j + 1)
        BY <1>3, Zenon
      <4>. QED  BY <3>1, <3>2, <4>1
    <3>4. j <= k
      BY <1>3, <2>5, <3>3, SameLine
    <3>5. k <= j
      <4>1. EndAt(c, k) <= b + Len(text) /\ k \in 0 .. LineCount(c) /\ j \in 0 .. LineCount(c)
        BY <1>3, <2>5, Zenon
      <4>. QED  BY <3>3, <4>1, SameLine
    <3>. QED  BY <3>3, <3>4, <3>5, <1>4, <2>5
  <2>7. r < j /\ j > r
    BY <1>4, <1>14, <1>15, <1>18
  <2>8. /\ partial' \in Nat /\ partial' \in 0 .. Len(text) /\ b + partial' = EndAt(c, j)
        /\ pc' = "block" /\ block' = SubSeq(Text(c), EndAt(c, r) + 1, EndAt(c, j))
    BY <2>5, <2>6, <2>7, Zenon
  <2>9. Emits(c, r, j)
    BY <1>3, <2>7, <2>8, Zenon DEF Emits
  <2>10. Typed'
    <3>1. /\ at' \in 0 .. Len(stream') /\ avail' \in 0 .. Left' /\ partial' \in Nat /\ item' \in Nat
          /\ last_path' \in 0 .. Len(buf') /\ Len(buf') <= size'
          /\ streaming' \in BOOLEAN /\ shared' \in Int
      BY <1>1, <1>10, <1>12, <1>16, <2>2, <2>8
    <3>2. resize' \in BOOLEAN /\ found' \in BOOLEAN /\ got' \in BOOLEAN
      BY <1>1, <1>16
    <3>. QED  BY <3>1, <3>2, Zenon DEF Typed
  <2>11. Awaits(c, b, j + 1)'
    <3>1. shared' = Shared(c, j + 1) /\ shared' > 0
      BY <1>8, <1>9, <2>3, Zenon
    <3>2. last_path' \in 0 .. Len(buf') /\ b + last_path' = PathAt(c, (j + 1) - 1)
      BY <1>3, <1>4, <1>12, <2>2
    <3>3. at' = At(c, j + 1) /\ b + Len(buf') = PathAt(c, j + 1)
      BY <1>3, <1>9, <2>2
    <3>. QED  BY <1>3, <3>1, <3>2, <3>3, Zenon DEF Awaits
  <2>12. BetweenCalls(c, b, j + 1, j)'
    <3>1. j \in 0 .. LineCount(c) /\ partial' \in 0 .. Len(buf') /\ b + partial' = EndAt(c, j)
      BY <1>3, <2>2, <2>8
    <3>2. j < LineCount(c) => b + Len(buf') < EndAt(c, j + 1)
      BY <2>2, <2>6
    <3>. QED  BY <3>1, <3>2, <2>11, <1>11, Zenon DEF BetweenCalls
  <2>. QED  BY <1>1, <1>3, <1>j, <2>4, <2>9, <2>10, <2>12
<1>. QED  BY <1>13, <1>17, <1>18, Zenon

\* The buffer ends with the NUL of its last line: nothing of the path is there, and nothing is shared.
LEMMA EndsWithNul ==
  ASSUME NEW c, Chart(c, stream), NEW b, NEW j, Typed, Buffered(c, b), Settled(c, b, j),
         b + Len(buf) \in 1 .. Len(Text(c)), Text(c)[b + Len(buf)] = Nul
  PROVE  j \in 1 .. LineCount(c) /\ b + Len(buf) = PathAt(c, j) /\ Shared(c, j) = 0 /\ at = At(c, j)
<1>1. /\ j \in 0 .. LineCount(c) /\ j \in Nat /\ LineCount(c) \in Nat
      /\ b \in Nat /\ Len(buf) \in Nat /\ at \in Nat
      /\ At(c, j) \in Nat /\ Gap(c, j) \in Nat /\ Pos(c, j) \in Nat /\ PathAt(c, j) \in Nat /\ Shared(c, j) \in Nat
      /\ Pos(c, j) = PathAt(c, j) + Shared(c, j) /\ At(c, j) <= at
      /\ b + Len(buf) = Pos(c, j) + (at - At(c, j))
      /\ (j < LineCount(c) => at < At(c, j) + Gap(c, j))
  BY ReaderAt
<1>. DEFINE w == b + Len(buf)
<1>2. PICK m \in 1 .. LineCount(c) : w = PathAt(c, m)
  BY Separates
<1>. HIDE DEF w
<1>3. w = Pos(c, j) + (at - At(c, j)) /\ w \in Nat
  BY <1>1 DEF w
<1>4. w >= Pos(c, j) /\ w >= PathAt(c, j)
  <2>1. /\ Pos(c, j) \in Nat /\ at \in Nat /\ At(c, j) \in Nat /\ At(c, j) <= at
        /\ Pos(c, j) = PathAt(c, j) + Shared(c, j) /\ PathAt(c, j) \in Nat /\ Shared(c, j) \in Nat
    BY <1>1, Zenon
  <2>. QED  BY <2>1, <1>3
<1>5. m \in 0 .. LineCount(c) /\ m \in Nat /\ PathAt(c, m) \in Nat
  <2>1. m \in 0 .. LineCount(c) /\ m \in Nat
    BY <1>1
  <2>. QED  BY <2>1, LineNumbers
<1>6. ~(m < j)
  <2>1. m < j => PathAt(c, m) < PathAt(c, j)
    BY <1>1, <1>5, LinesFollow
  <2>2. PathAt(c, j) \in Nat
    BY <1>1, Zenon
  <2>. QED  BY <2>1, <2>2, <1>2, <1>4, <1>5
<1>7. ~(j < m)
  <2>1. SUFFICES ASSUME j < m PROVE FALSE
    OBVIOUS
  <2>2. j < LineCount(c) /\ j + 1 <= m /\ j + 1 \in 0 .. LineCount(c)
    BY <2>1, <1>1, <1>5, SMTT(60)
  <2>3. PathAt(c, j + 1) = Pos(c, j) + Gap(c, j)
    BY <2>2, <1>1, NextLine
  <2>4. PathAt(c, j + 1) <= PathAt(c, m)
    BY <2>2, <1>5, LinesFollow
  <2>5. /\ at \in Nat /\ At(c, j) \in Nat /\ Gap(c, j) \in Nat /\ Pos(c, j) \in Nat /\ at < At(c, j) + Gap(c, j)
    BY <1>1, <2>2, Zenon
  <2>6. w < Pos(c, j) + Gap(c, j)
    BY <2>5, <1>3
  <2>. QED  BY <2>3, <2>4, <2>5, <2>6, <1>2, <1>5
<1>8. m = j
  <2>1. m \in Nat /\ j \in Nat
    BY <1>1, <1>5, Zenon
  <2>. QED  BY <2>1, <1>6, <1>7
<1>9. Shared(c, j) = 0 /\ at = At(c, j)
  <2>1. /\ Pos(c, j) \in Nat /\ at \in Nat /\ At(c, j) \in Nat /\ At(c, j) <= at
        /\ Pos(c, j) = PathAt(c, j) + Shared(c, j) /\ PathAt(c, j) \in Nat /\ Shared(c, j) \in Nat
    BY <1>1, Zenon
  <2>2. w = PathAt(c, j)
    BY <1>2, <1>8
  <2>. DEFINE p == PathAt(c, j)
              h == Shared(c, j)
              a == At(c, j)
  <2>3. w = (p + h) + (at - a) /\ a <= at /\ p \in Nat /\ h \in Nat /\ a \in Nat /\ at \in Nat /\ w = p
    BY <2>1, <2>2, <1>3
  <2>. HIDE DEF p, h, a, w
  <2>4. h = 0 /\ at = a
    BY <2>3
  <2>. QED  BY <2>4 DEF h, a
<1>. QED  BY <1>2, <1>8, <1>9 DEF w

\* What has been returned lies before the line that is being read.
LEMMA ReturnedBefore ==
  ASSUME NEW c, Chart(c, stream), NEW b, NEW j, Typed, Buffered(c, b), NEW r \in 0 .. LineCount(c),
         EndAt(c, r) <= b + Len(buf)
  PROVE  /\ Settled(c, b, j) => r \in 0 .. j
         /\ Awaits(c, b, j) => r \in 0 .. j /\ r < j
<1>1. r \in Nat /\ LineCount(c) \in Nat /\ EndAt(c, r) \in Nat
  BY LineNumbers
<1>2. b \in Nat /\ Len(buf) \in Nat /\ b + Len(buf) \in Nat
  <2>1. b \in Nat /\ Len(buf) \in Nat
    BY WindowLen DEF Buffered
  <2>. QED  BY <2>1
<1>3. ASSUME Settled(c, b, j) PROVE r \in 0 .. j
  <2>1. /\ j \in 0 .. LineCount(c) /\ j \in Nat /\ at \in Nat
        /\ At(c, j) \in Nat /\ Gap(c, j) \in Nat /\ Pos(c, j) \in Nat
        /\ b + Len(buf) = Pos(c, j) + (at - At(c, j))
        /\ (j < LineCount(c) => at < At(c, j) + Gap(c, j))
    BY <1>3, ReaderAt
  <2>2. ASSUME j < LineCount(c) PROVE b + Len(buf) < EndAt(c, j + 1)
    <3>1. j + 1 \in 0 .. LineCount(c) /\ PathAt(c, j + 1) = Pos(c, j) + Gap(c, j)
      BY <2>1, <2>2, NextLine
    <3>2. PathAt(c, j + 1) <= EndAt(c, j + 1) /\ EndAt(c, j + 1) \in Nat
      BY <3>1, LineNumbers
    <3>3. b + Len(buf) < Pos(c, j) + Gap(c, j)
      BY <2>1, <2>2
    <3>4. Pos(c, j) \in Nat /\ Gap(c, j) \in Nat
      BY <2>1, Zenon
    <3>. QED  BY <3>1, <3>2, <3>3, <3>4, <1>2
  <2>3. r <= j
    BY <1>2, <2>1, <2>2, SameLine
  <2>. QED  BY <2>1, <2>3, <1>1
<1>4. ASSUME Awaits(c, b, j) PROVE r \in 0 .. j /\ r < j
  <2>1. j \in 1 .. LineCount(c) /\ b + Len(buf) = PathAt(c, j)
    BY <1>4, Zenon DEF Awaits
  <2>2. j \in Nat /\ j \in 0 .. LineCount(c)
    BY <1>1, <2>1
  <2>3. PathAt(c, j) < EndAt(c, j) /\ PathAt(c, j) \in Nat /\ EndAt(c, j) \in Nat
    <3>1. /\ Pos(c, j) = PathAt(c, j) + Shared(c, j) /\ Pos(c, j) < EndAt(c, j) /\ PathAt(c, j) \in Nat
          /\ EndAt(c, j) \in Nat /\ Shared(c, j) \in Nat
      <4>1. j > 0
        BY <1>1, <2>1
      <4>. QED  BY <2>2, <4>1, LineNumbers
    <3>. QED  BY <3>1
  <2>4. ~(j <= r)
    <3>1. j <= r => EndAt(c, j) <= EndAt(c, r)
      BY <2>2, LinesFollow
    <3>2. EndAt(c, r) <= PathAt(c, j)
      BY <2>1, Zenon
    <3>. QED  BY <3>1, <3>2, <2>3, <1>1
  <2>. QED  BY <1>1, <2>2, <2>4
<1>. QED  BY <1>3, <1>4, Zenon

\* A line that is still to come: its NUL is the last byte.
LEMMA AwaitsNul ==
  ASSUME NEW c, Chart(c, stream), NEW b, NEW j, Typed, Buffered(c, b), Awaits(c, b, j)
  PROVE  /\ b + Len(buf) \in 1 .. Len(Text(c)) /\ Text(c)[b + Len(buf)] = Nul /\ last_path < Len(buf)
         /\ j \in 1 .. LineCount(c) /\ b + Len(buf) = PathAt(c, j) /\ b + last_path = PathAt(c, j - 1)
         /\ shared = Shared(c, j) /\ at = At(c, j)
<1>1. /\ j \in 1 .. LineCount(c) /\ b + Len(buf) = PathAt(c, j) /\ b + last_path = PathAt(c, j - 1)
      /\ shared = Shared(c, j) /\ shared > 0 /\ at = At(c, j) /\ last_path \in 0 .. Len(buf)
  BY Zenon DEF Awaits
<1>2. /\ j - 1 \in 0 .. LineCount(c) /\ j \in 0 .. LineCount(c)
      /\ PathAt(c, j - 1) + Shared(c, j) <= PathAt(c, j)
  BY <1>1, SharedBytes
<1>3. /\ PathAt(c, j) \in Nat /\ PathAt(c, j - 1) \in Nat /\ Shared(c, j) \in Nat
      /\ Pos(c, j) = PathAt(c, j) + Shared(c, j) /\ Pos(c, j) + Gap(c, j) <= Len(Text(c)) /\ Gap(c, j) \in Nat
      /\ Len(Text(c)) \in Nat
  BY <1>2, LineNumbers
<1>4. b \in Nat /\ Len(buf) \in Nat
  BY WindowLen DEF Buffered
<1>5. last_path < Len(buf) /\ PathAt(c, j) >= 1
  <2>1. last_path \in Nat /\ shared \in Nat
    BY <1>1, <1>3, <1>4
  <2>2. PathAt(c, j - 1) + shared <= PathAt(c, j) /\ PathAt(c, j - 1) \in Nat /\ PathAt(c, j) \in Nat
    BY <1>1, <1>2, <1>3, Zenon
  <2>3. shared > 0 /\ b + Len(buf) = PathAt(c, j) /\ b + last_path = PathAt(c, j - 1)
    BY <1>1, Zenon
  <2>. QED  BY <2>1, <2>2, <2>3, <1>4
<1>6. PathAt(c, j) \in 1 .. Len(Text(c))
  BY <1>3, <1>5
<1>7. Text(c)[PathAt(c, j)] = Nul
  BY <1>1, <1>6, Separates
<1>. QED  BY <1>1, <1>5, <1>6, <1>7, Zenon

\* What the next call keeps of the buffer.
KeepFrom == IF partial < last_path THEN partial ELSE last_path
KeptPart == SubSeq(buf, KeepFrom + 1, Len(buf))

\* It is a window behind the kept place, and the places that are remembered move with it.
LEMMA Keeps ==
  ASSUME NEW c, Chart(c, stream), NEW b, NEW r \in 0 .. LineCount(c), Typed, Buffered(c, b),
         partial \in 0 .. Len(buf), b + partial = EndAt(c, r)
  PROVE  /\ KeepFrom \in Nat /\ b + KeepFrom \in Nat /\ Window(Text(c), b + KeepFrom, KeptPart) /\ Len(KeptPart) \in Nat
         /\ Len(KeptPart) <= Len(buf) /\ b + KeepFrom + Len(KeptPart) = b + Len(buf)
         /\ partial - KeepFrom \in 0 .. Len(KeptPart) /\ b + KeepFrom + (partial - KeepFrom) = EndAt(c, r)
         /\ last_path - KeepFrom \in 0 .. Len(KeptPart) /\ b + KeepFrom + (last_path - KeepFrom) = b + last_path
         /\ b + KeepFrom \in 0 .. Len(Text(c))
         /\ (KeptPart # <<>> /\ KeptPart[Len(KeptPart)] = Nul
               <=> KeepFrom < Len(buf) /\ b + Len(buf) \in 1 .. Len(Text(c)) /\ Text(c)[b + Len(buf)] = Nul)
         /\ partial - KeepFrom = Len(KeptPart) <=> partial = Len(buf)
<1>1. /\ b \in Nat /\ Len(buf) \in Nat /\ Len(Text(c)) \in Nat /\ b + Len(buf) <= Len(Text(c)) /\ Window(Text(c), b, buf)
  BY WindowLen DEF Buffered
<1>2. /\ partial \in Nat /\ last_path \in Nat /\ partial <= Len(buf) /\ last_path <= Len(buf)
  <2>1. last_path \in 0 .. Len(buf)
    BY Zenon DEF Typed
  <2>. QED  BY <2>1, <1>1
<1>3. KeepFrom \in Nat /\ KeepFrom <= partial /\ KeepFrom <= last_path /\ KeepFrom <= Len(buf)
  BY <1>2 DEF KeepFrom
<1>4. Window(Text(c), b + KeepFrom, KeptPart) /\ Len(KeptPart) = Len(buf) - KeepFrom
  <2>. DEFINE l == Len(buf)
  <2>1. KeepFrom \in Nat /\ l \in Nat /\ KeepFrom <= l /\ l <= Len(buf)
    BY <1>1, <1>3
  <2>. HIDE DEF l
  <2>2. Window(Text(c), b + KeepFrom, SubSeq(buf, KeepFrom + 1, l)) /\ Len(SubSeq(buf, KeepFrom + 1, l)) = l - KeepFrom
    <3>1. Window(Text(c), b, buf)
      BY <1>1, Zenon
    <3>. QED  BY <3>1, <2>1, WindowSub, Zenon
  <2>. QED  BY <2>2, Zenon DEF l, KeptPart
<1>k. Len(KeptPart) = Len(buf) - KeepFrom
  BY <1>4, Zenon
<1>b. b \in Nat /\ Len(buf) \in Nat /\ Len(Text(c)) \in Nat /\ b + Len(buf) <= Len(Text(c))
  BY <1>1, Zenon
<1>5. /\ b + KeepFrom \in Nat /\ Len(KeptPart) \in Nat /\ Len(KeptPart) <= Len(buf) /\ b + KeepFrom + Len(KeptPart) = b + Len(buf)
      /\ b + KeepFrom \in 0 .. Len(Text(c))
  BY <1>b, <1>3, <1>k
<1>6. /\ partial - KeepFrom \in 0 .. Len(KeptPart) /\ b + KeepFrom + (partial - KeepFrom) = b + partial
      /\ last_path - KeepFrom \in 0 .. Len(KeptPart) /\ b + KeepFrom + (last_path - KeepFrom) = b + last_path
      /\ partial - KeepFrom = Len(KeptPart) <=> partial = Len(buf)
  BY <1>b, <1>2, <1>3, <1>k
<1>7. KeptPart # <<>> /\ KeptPart[Len(KeptPart)] = Nul
               <=> KeepFrom < Len(buf) /\ b + Len(buf) \in 1 .. Len(Text(c)) /\ Text(c)[b + Len(buf)] = Nul
  <2>1. KeptPart \in Seq(Int)
    BY <1>4, WindowLen
  <2>2. KeptPart # <<>> <=> Len(KeptPart) # 0
    BY <2>1
  <2>3. Len(KeptPart) # 0 <=> KeepFrom < Len(buf)
    BY <1>1, <1>3, <1>4
  <2>4. ASSUME KeepFrom < Len(buf) PROVE KeptPart[Len(KeptPart)] = Text(c)[b + Len(buf)] /\ b + Len(buf) \in 1 .. Len(Text(c))
    <3>1. Len(KeptPart) \in 1 .. Len(KeptPart)
      BY <2>3, <2>4, <1>5
    <3>2. KeptPart[Len(KeptPart)] = Text(c)[b + KeepFrom + Len(KeptPart)]
      BY <3>1, <1>4, Zenon DEF Window
    <3>3. b + Len(buf) \in 1 .. Len(Text(c))
      BY <2>4, <1>1, <1>3
    <3>. QED  BY <3>2, <3>3, <1>5, Zenon
  <2>. QED  BY <2>2, <2>3, <2>4, Zenon
<1>8. b + KeepFrom + (partial - KeepFrom) = EndAt(c, r)
  BY <1>6, Zenon
<1>. QED  BY <1>3, <1>4, <1>5, <1>6, <1>7, <1>8, Zenon

\* A frame in memory has been read up to its end, or the next call finds a NUL, or there is another line.
LEMMA NothingLeft ==
  ASSUME NEW c, Chart(c, stream), Shared(c, LineCount(c)) = 0, NEW b, NEW j, NEW r \in 0 .. LineCount(c),
         Typed, Buffered(c, b), Settled(c, b, j), InMemory(c, j), ~streaming, ~(j < LineCount(c)),
         partial \in 0 .. Len(buf), b + partial = EndAt(c, r), r < LineCount(c) => b + Len(buf) < EndAt(c, r + 1),
         NEW from \in Nat, from <= partial,
         ~(from < Len(buf) /\ b + Len(buf) \in 1 .. Len(Text(c)) /\ Text(c)[b + Len(buf)] = Nul)
  PROVE  r = LineCount(c) /\ partial = Len(buf)
<1>1. /\ j \in 0 .. LineCount(c) /\ j \in Nat /\ LineCount(c) \in Nat
      /\ b \in Nat /\ Len(buf) \in Nat /\ at \in Nat
      /\ At(c, j) \in Nat /\ Gap(c, j) \in Nat /\ Pos(c, j) \in Nat /\ PathAt(c, j) \in Nat
      /\ Pos(c, j) = PathAt(c, j) + Shared(c, j)
      /\ b + Len(buf) = Pos(c, j) + (at - At(c, j)) /\ Len(Text(c)) \in Nat
  BY ReaderAt
<1>2. j = LineCount(c)
  BY <1>1
<1>3. /\ At(c, j) + Gap(c, j) = Len(stream) /\ Pos(c, j) + Gap(c, j) = Len(Text(c)) /\ EndAt(c, j) = Len(Text(c))
      /\ Shared(c, j) = 0
  BY <1>2, LastOfChart
<1>r. r \in Nat /\ EndAt(c, r) \in Nat /\ r <= LineCount(c)
  BY LineNumbers
<1>4. CASE at = Len(stream)
  <2>1. b + Len(buf) = EndAt(c, j)
    <3>1. /\ Pos(c, j) \in Nat /\ at \in Nat /\ At(c, j) \in Nat /\ Gap(c, j) \in Nat
          /\ b + Len(buf) = Pos(c, j) + (at - At(c, j))
      BY <1>1, Zenon
    <3>2. b + Len(buf) = Pos(c, j) + Gap(c, j)
      BY <3>1, <1>3, <1>4
    <3>. QED  BY <3>2, <1>3, Zenon
  <2>2. LineCount(c) <= r
    <3>1. b + Len(buf) \in Nat /\ EndAt(c, j) <= b + Len(buf)
      <4>1. b + Len(buf) \in Nat
        BY <1>1
      <4>. QED  BY <4>1, <2>1
    <3>2. LineCount(c) \in 0 .. LineCount(c)
      BY <1>2, <1>1, Zenon
    <3>. QED  BY <3>1, <3>2, <1>2, SameLine
  <2>3. r = LineCount(c)
    BY <2>2, <1>1, <1>r
  <2>4. b + partial = b + Len(buf)
    BY <2>1, <2>3, <1>2, Zenon
  <2>5. b \in Nat /\ Len(buf) \in Nat /\ partial \in Nat
    BY <1>1
  <2>. QED  BY <2>3, <2>4, <2>5
<1>5. CASE at = At(c, j) /\ at # Len(stream)
  <2>1. b + Len(buf) = PathAt(c, j)
    <3>1. /\ Pos(c, j) = PathAt(c, j) + Shared(c, j) /\ PathAt(c, j) \in Nat /\ At(c, j) \in Nat
          /\ b + Len(buf) = Pos(c, j) + (at - At(c, j))
      BY <1>1, Zenon
    <3>. QED  BY <3>1, <1>3, <1>5
  <2>2. ASSUME j = 0 PROVE FALSE
    <3>1. /\ At(c, 0) = 0 /\ Pos(c, 0) = 0 /\ EndAt(c, 0) = 0
      BY Zenon DEF Chart, ChartEnds
    <3>2. Gap(c, j) = 0 /\ Gap(c, j) \in Nat
      BY <3>1, <2>2, <1>1, <1>3
    <3>. QED  BY <3>1, <3>2, <2>2, <1>3, <1>5
  <2>3. j \in 1 .. LineCount(c)
    BY <1>1, <2>2
  <2>4. r < j
    <3>1. EndAt(c, r) <= b + Len(buf)
      BY <1>1
    <3>2. PathAt(c, j) < EndAt(c, j) /\ PathAt(c, j) \in Nat /\ EndAt(c, j) \in Nat
      <4>1. j \in 0 .. LineCount(c) /\ j > 0
        BY <1>1, <2>3
      <4>2. /\ Pos(c, j) = PathAt(c, j) + Shared(c, j) /\ Pos(c, j) < EndAt(c, j) /\ PathAt(c, j) \in Nat
            /\ EndAt(c, j) \in Nat
        BY <4>1, LineNumbers
      <4>. QED  BY <4>2, <1>3
    <3>3. j <= r => EndAt(c, j) <= EndAt(c, r)
      BY <1>1, LinesFollow
    <3>. QED  BY <3>1, <3>2, <3>3, <2>1, <1>1, <1>r
  <2>5. EndAt(c, r) < PathAt(c, j)
    BY <1>1, <2>4, LinesFollow
  <2>6. partial < Len(buf)
    <3>1. b + partial < b + Len(buf) /\ b \in Nat /\ Len(buf) \in Nat /\ partial \in Nat
      BY <1>1, <2>1, <2>5
    <3>. QED  BY <3>1
  <2>7. from < Len(buf) /\ b + Len(buf) >= 1
    BY <2>6, <1>1
  <2>8. b + Len(buf) \in 1 .. Len(Text(c))
    <3>1. b + Len(buf) <= Len(Text(c))
      BY WindowLen DEF Buffered
    <3>. QED  BY <3>1, <2>7, <1>1
  <2>9. Text(c)[b + Len(buf)] = Nul
    BY <2>1, <2>3, <2>8, Separates
  <2>. QED  BY <2>7, <2>8, <2>9
<1>. QED  BY <1>4, <1>5 DEF InMemory

\* Between calls the buffer is moved, and a prefix that did not fit is copied now.
LEMMA CallStep ==
  ASSUME NEW c, Chart(c, stream), Shared(c, LineCount(c)) = 0, NEW b, NEW j, NEW r, Typed, Buffered(c, b),
         BetweenCalls(c, b, j, r), Call
  PROVE  /\ Typed' /\ UNCHANGED <<stream, streaming, block>> /\ pc' = "read"
         /\ \E d \in 0 .. LineCount(c), b2 \in 0 .. Len(Text(c)) : d = j /\ Buffered(c, b2)' /\ ReadingAt(c, b2, j, r)'
<1>. DEFINE from == KeepFrom
            kept == KeptPart
            nul  == kept # <<>> /\ kept[Len(kept)] = Nul
            lp   == last_path - from
            copy == CopyShared(kept, lp, shared, size, TRUE)
<1>1. /\ item' = partial - from /\ found' = nul
      /\ IF ~nul
         THEN /\ buf' = kept /\ last_path' = lp
              /\ pc' = "read" /\ UNCHANGED size
         ELSE IF copy.is = "ok"
         THEN /\ buf' = copy.buf /\ size' = copy.size /\ last_path' = Len(kept)
              /\ pc' = "read"
         ELSE pc' = "error" /\ UNCHANGED <<buf, size, last_path>>
      /\ got' = FALSE /\ resize' = TRUE
      /\ UNCHANGED <<stream, streaming, at, avail>> /\ UNCHANGED <<shared, partial, block>>
  BY Zenon DEF Call, reader, KeepFrom, KeptPart
<1>2. /\ Settled(c, b, j) \/ Awaits(c, b, j)
      /\ InMemory(c, j)
      /\ r \in 0 .. LineCount(c) /\ partial \in 0 .. Len(buf) /\ b + partial = EndAt(c, r)
      /\ (r < LineCount(c) => b + Len(buf) < EndAt(c, r + 1))
  BY Zenon DEF BetweenCalls
<1>b. PICK b2 \in 0 .. Len(Text(c)) : b2 = b + from
  <2>1. b + from \in 0 .. Len(Text(c))
    BY <1>2, Keeps
  <2>. QED  BY <2>1, Zenon
<1>3. /\ from \in Nat /\ b2 \in Nat /\ Window(Text(c), b2, kept) /\ Len(kept) \in Nat
      /\ Len(kept) <= Len(buf) /\ b2 + Len(kept) = b + Len(buf)
      /\ partial - from \in 0 .. Len(kept) /\ b2 + (partial - from) = EndAt(c, r)
      /\ lp \in 0 .. Len(kept) /\ b2 + lp = b + last_path
      /\ b2 \in 0 .. Len(Text(c))
      /\ (nul <=> from < Len(buf) /\ b + Len(buf) \in 1 .. Len(Text(c)) /\ Text(c)[b + Len(buf)] = Nul)
      /\ partial - from = Len(kept) <=> partial = Len(buf)
  <2>1. /\ from \in Nat /\ b + from \in Nat /\ Window(Text(c), b + from, kept) /\ Len(kept) \in Nat
        /\ Len(kept) <= Len(buf) /\ b + from + Len(kept) = b + Len(buf)
        /\ partial - from \in 0 .. Len(kept) /\ b + from + (partial - from) = EndAt(c, r)
        /\ lp \in 0 .. Len(kept) /\ b + from + lp = b + last_path
        /\ (nul <=> from < Len(buf) /\ b + Len(buf) \in 1 .. Len(Text(c)) /\ Text(c)[b + Len(buf)] = Nul)
        /\ partial - from = Len(kept) <=> partial = Len(buf)
    BY <1>2, Keeps
  <2>. HIDE DEF nul, from, kept, lp, copy
  <2>. QED  BY <2>1, <1>b, Zenon
<1>f. from <= partial /\ from <= last_path
  <2>1. partial \in Nat /\ last_path \in Nat
    <3>1. partial \in 0 .. Len(buf) /\ last_path \in 0 .. Len(buf) /\ Len(buf) \in Nat
      BY <1>2, WindowLen DEF Typed, Buffered
    <3>. QED  BY <3>1
  <2>. QED  BY <2>1 DEF KeepFrom
<1>n. nul \in BOOLEAN
  OBVIOUS
<1>. HIDE DEF nul, from, kept, lp, copy
<1>4. /\ b \in Nat /\ Len(buf) \in Nat /\ b + Len(buf) <= Len(Text(c)) /\ Len(Text(c)) \in Nat
      /\ size \in Nat /\ Len(buf) <= size
  BY WindowLen DEF Buffered
<1>5. EndAt(c, r) <= b + Len(buf)
  BY <1>2, <1>4
<1>6. j \in 0 .. LineCount(c) /\ r \in 0 .. j /\ (Awaits(c, b, j) => r < j) /\ shared = Shared(c, j)
  <2>1. Settled(c, b, j) => j \in 0 .. LineCount(c) /\ shared = Shared(c, j)
    BY Zenon DEF Settled
  <2>2. Awaits(c, b, j) => j \in 0 .. LineCount(c) /\ shared = Shared(c, j)
    <3>1. LineCount(c) \in Nat
      BY Zenon DEF Chart, ChartTyped
    <3>2. Awaits(c, b, j) => j \in 1 .. LineCount(c) /\ shared = Shared(c, j)
      BY Zenon DEF Awaits
    <3>. QED  BY <3>1, <3>2
  <2>3. /\ Settled(c, b, j) => r \in 0 .. j
        /\ Awaits(c, b, j) => r \in 0 .. j /\ r < j
    BY <1>2, <1>5, ReturnedBefore
  <2>. QED  BY <2>1, <2>2, <2>3, <1>2, Zenon
<1>7. /\ j \in Nat /\ LineCount(c) \in Nat /\ Shared(c, j) \in Nat /\ At(c, j) \in Nat /\ Gap(c, j) \in Nat
      /\ Pos(c, j) \in Nat /\ PathAt(c, j) \in Nat /\ EndAt(c, j) \in Nat
      /\ (j > 0 => Pos(c, j) < EndAt(c, j)) /\ Pos(c, j) = PathAt(c, j) + Shared(c, j)
  BY <1>6, LineNumbers
<1>8. InMemory(c, j)' /\ Left' = Left
  BY <1>1, <1>2 DEF InMemory, Left
<1>9. /\ at' \in 0 .. Len(stream') /\ avail' \in 0 .. Left' /\ partial' \in Nat /\ item' \in Nat
      /\ streaming' \in BOOLEAN /\ shared' \in Int
      /\ resize' \in BOOLEAN /\ found' \in BOOLEAN /\ got' \in BOOLEAN
  <2>1. item' \in Nat
    BY <1>1, <1>3
  <2>. QED  BY <2>1, <1>1, <1>8, <1>n DEF Typed
<1>10. CASE nul
  <2>1. /\ j \in 1 .. LineCount(c) /\ b + Len(buf) = PathAt(c, j) /\ at = At(c, j)
        /\ (b2 + lp = PathAt(c, j - 1) \/ Shared(c, j) = 0)
    <3>1. CASE Settled(c, b, j)
      <4>1. b + Len(buf) \in 1 .. Len(Text(c)) /\ Text(c)[b + Len(buf)] = Nul
        BY <1>3, <1>10, Zenon
      <4>. QED  BY <3>1, <4>1, EndsWithNul
    <3>2. CASE Awaits(c, b, j)
      <4>1. j \in 1 .. LineCount(c) /\ b + Len(buf) = PathAt(c, j) /\ b + last_path = PathAt(c, j - 1) /\ at = At(c, j)
        BY <3>2, AwaitsNul
      <4>. QED  BY <4>1, <1>3, Zenon
    <3>. QED  BY <3>1, <3>2, <1>2
  <2>2. /\ copy.is = "ok" /\ Window(Text(c), b2, copy.buf) /\ Len(copy.buf) = Len(kept) + Shared(c, j)
        /\ b2 + Len(copy.buf) = Pos(c, j) /\ copy.size \in Nat /\ Len(copy.buf) <= copy.size
    <3>1. Window(Text(c), b2, kept) /\ b2 + Len(kept) = PathAt(c, j) /\ lp \in 0 .. Len(kept)
      BY <1>3, <2>1, Zenon
    <3>2. TRUE \in BOOLEAN /\ size \in Nat
      BY <1>4
    <3>3. copy = CopyShared(kept, lp, Shared(c, j), size, TRUE)
      BY <1>6 DEF copy
    <3>. DEFINE may == TRUE
    <3>m. may \in BOOLEAN
      OBVIOUS
    <3>. HIDE DEF may
    <3>4. Copied(c, j, b2, kept, CopyShared(kept, lp, Shared(c, j), size, may), size, may)
      <4>1. size \in Nat /\ j \in 1 .. LineCount(c) /\ (b2 + lp = PathAt(c, j - 1) \/ Shared(c, j) = 0)
        BY <2>1, <1>4, Zenon
      <4>. QED  BY <4>1, <3>m, <3>1, Copies
    <3>5. may
      BY DEF may
    <3>6. copy = CopyShared(kept, lp, Shared(c, j), size, may)
      BY <3>3, Zenon DEF may
    <3>. QED  BY <3>4, <3>5, <3>6, Zenon DEF Copied
  <2>3. /\ buf' = copy.buf /\ size' = copy.size /\ last_path' = Len(kept) /\ pc' = "read" /\ found' = TRUE
    BY <1>1, <1>10, <2>2
  <2>4. Window(Text(c), b2, buf') /\ Len(buf') = Len(kept) + Shared(c, j) /\ b2 + Len(buf') = Pos(c, j) /\ size' \in Nat /\ Len(buf') <= size'
    BY <2>2, <2>3, Zenon
  <2>5. Buffered(c, b2)'
    BY <2>4, Zenon DEF Buffered
  <2>6. Len(buf') \in Nat /\ Len(kept) <= Len(buf')
    <3>1. Shared(c, j) \in Nat /\ Len(kept) \in Nat
      BY <1>3, <1>7, Zenon
    <3>. QED  BY <3>1, <2>4
  <2>7. last_path' \in 0 .. Len(buf') /\ b2 + last_path' = PathAt(c, j)
    <3>1. Len(kept) \in 0 .. Len(buf')
      BY <2>6, <1>3
    <3>. QED  BY <2>1, <2>3, <3>1, <1>3
  <2>8. Typed'
    BY <1>9, <2>4, <2>7, Zenon DEF Typed
  <2>9. Settled(c, b2, j)'
    <3>1. b2 + Len(buf') - Pos(c, j) = at' - At(c, j)
      <4>1. b2 + Len(buf') = Pos(c, j) /\ Pos(c, j) \in Nat /\ at' = At(c, j) /\ At(c, j) \in Nat /\ b2 \in Nat
        BY <1>1, <1>3, <1>7, <2>1, <2>4
      <4>. QED  BY <4>1, <2>6
    <3>2. At(c, j) <= at' /\ at' <= At(c, j) + Gap(c, j) /\ (j < LineCount(c) => at' < At(c, j) + Gap(c, j))
      <4>1. at' = At(c, j) /\ At(c, j) \in Nat /\ Gap(c, j) \in Nat
        BY <1>1, <1>7, <2>1
      <4>2. j < LineCount(c) => Gap(c, j) >= 1
        BY <1>6, NextLine
      <4>. QED  BY <4>1, <4>2
    <3>3. shared' = Shared(c, j) /\ j \in 0 .. LineCount(c)
      BY <1>1, <1>6
    <3>. QED  BY <2>7, <3>1, <3>2, <3>3, Zenon DEF Settled
  <2>10. r < j
    <3>1. EndAt(c, r) <= PathAt(c, j) /\ PathAt(c, j) < EndAt(c, j)
      <4>1. Pos(c, j) < EndAt(c, j) /\ Pos(c, j) = PathAt(c, j) + Shared(c, j) /\ Shared(c, j) \in Nat
            /\ PathAt(c, j) \in Nat /\ EndAt(c, j) \in Nat
        <5>1. j > 0
          BY <2>1, <1>7
        <5>. QED  BY <5>1, <1>7, Zenon
      <4>. QED  BY <4>1, <1>5, <2>1
    <3>2. r # j
      <4>1. EndAt(c, r) \in Nat /\ PathAt(c, j) \in Nat /\ EndAt(c, j) \in Nat
        BY <1>2, <1>7, LineNumbers
      <4>. QED  BY <3>1, <4>1
    <3>. QED  BY <3>2, <1>6, <1>7
  <2>11. ReadingAt(c, b2, j, r)'
    <3>1. item' \in 0 .. Len(buf') /\ b2 + item' = EndAt(c, r)
      <4>1. item' \in 0 .. Len(kept) /\ Len(kept) \in Nat
        BY <1>1, <1>3
      <4>2. item' \in 0 .. Len(buf')
        BY <4>1, <2>6
      <4>. QED  BY <4>2, <1>1, <1>3
    <3>2. /\ r \in 0 .. j /\ (found' => r < j) /\ (got' => found') /\ (~resize' => got' /\ r + 2 <= j)
          /\ ~(~streaming' /\ ~found')
      BY <1>1, <1>6, <2>3, <2>10
    <3>. QED  BY <3>1, <3>2, <2>9, <1>8, Zenon DEF ReadingAt
  <2>. QED  BY <1>1, <1>3, <1>6, <2>3, <2>5, <2>8, <2>11
<1>11. CASE ~nul
  <2>1. /\ buf' = kept /\ last_path' = lp /\ pc' = "read" /\ size' = size /\ found' = FALSE
    BY <1>1, <1>11, <1>n
  <2>2. Settled(c, b, j)
    <3>1. ~Awaits(c, b, j)
      <4>1. SUFFICES ASSUME Awaits(c, b, j) PROVE FALSE
        BY Zenon
      <4>2. b + Len(buf) \in 1 .. Len(Text(c)) /\ Text(c)[b + Len(buf)] = Nul /\ last_path < Len(buf)
        BY <4>1, AwaitsNul
      <4>3. last_path \in 0 .. Len(buf)
        BY Zenon DEF Typed
      <4>4. from < Len(buf)
        BY <4>2, <4>3, <1>f, <1>3, <1>4
      <4>. QED  BY <4>2, <4>4, <1>3, <1>11, Zenon
    <3>. QED  BY <3>1, <1>2, Zenon
  <2>3. Buffered(c, b2)'
    <3>1. Len(kept) <= size
      BY <1>3, <1>4
    <3>. QED  BY <1>3, <1>4, <2>1, <3>1 DEF Buffered
  <2>4. last_path' \in 0 .. Len(buf') /\ b2 + last_path' = PathAt(c, j)
    <3>1. b + last_path = PathAt(c, j)
      BY <2>2, Zenon DEF Settled
    <3>. QED  BY <3>1, <1>3, <2>1
  <2>5. Typed'
    <3>1. Len(buf') <= size'
      BY <2>3, Zenon DEF Buffered
    <3>. QED  BY <1>9, <2>4, <3>1, Zenon DEF Typed
  <2>6. Settled(c, b2, j)'
    <3>1. /\ At(c, j) <= at /\ at <= At(c, j) + Gap(c, j) /\ b + Len(buf) - Pos(c, j) = at - At(c, j)
          /\ (j < LineCount(c) => at < At(c, j) + Gap(c, j))
      BY <2>2, Zenon DEF Settled
    <3>2. b2 + Len(buf') - Pos(c, j) = at' - At(c, j)
      <4>1. (b2 + Len(kept)) - Pos(c, j) = (b + Len(buf)) - Pos(c, j)
        BY <1>3, Zenon
      <4>2. b2 + Len(kept) - Pos(c, j) = (b2 + Len(kept)) - Pos(c, j)
        BY <1>3, <1>7, SMTT(60)
      <4>3. b + Len(buf) - Pos(c, j) = (b + Len(buf)) - Pos(c, j)
        BY <1>4, <1>7
      <4>. QED  BY <3>1, <4>1, <4>2, <4>3, <1>1, <2>1
    <3>. QED  BY <3>1, <3>2, <1>1, <1>6, <2>4 DEF Settled
  <2>7. ~streaming => (r = LineCount(c) /\ item' = Len(buf')) \/ j < LineCount(c)
    <3>1. ASSUME ~streaming, ~(j < LineCount(c)) PROVE r = LineCount(c) /\ item' = Len(buf')
      <4>1. ~(from < Len(buf) /\ b + Len(buf) \in 1 .. Len(Text(c)) /\ Text(c)[b + Len(buf)] = Nul)
        BY <1>3, <1>11, Zenon
      <4>2. from \in Nat /\ from <= partial
        BY <1>3, <1>f, Zenon
      <4>3. r = LineCount(c) /\ partial = Len(buf)
        BY <1>2, <2>2, <3>1, <4>1, <4>2, NothingLeft
      <4>. QED  BY <4>3, <1>1, <1>3, <2>1
    <3>. QED  BY <3>1, Zenon
  <2>8. ReadingAt(c, b2, j, r)'
    <3>1. item' \in 0 .. Len(buf') /\ b2 + item' = EndAt(c, r)
      BY <1>1, <1>3, <2>1
    <3>2. /\ r \in 0 .. j /\ (found' => r < j) /\ (got' => found') /\ (~resize' => got' /\ r + 2 <= j)
          /\ (~streaming' /\ ~found' => (r = LineCount(c) /\ item' = Len(buf')) \/ j < LineCount(c))
      BY <1>1, <1>6, <2>1, <2>7
    <3>. QED  BY <3>1, <3>2, <2>6, <1>8, Zenon DEF ReadingAt
  <2>. QED  BY <1>1, <1>3, <1>6, <2>1, <2>3, <2>5, <2>8
<1>. QED  BY <1>10, <1>11, <1>n

----------------------------------------------------------------------------
(***************************************************************************)
(* The decoder over a frame.                                               *)
(***************************************************************************)

\* What holds between two steps of a decoder of the frame, which are about q of its lines.
Decoding(c, q) == Chart(c, stream) /\ Shared(c, LineCount(c)) = 0 /\ Typed /\ InFrame(c, q)

\* What InFrame means.
LEMMA InFrameIs ==
  ASSUME NEW c, NEW q, Decoding(c, q)
  PROVE  \E b \in 0 .. Len(Text(c)), j, r \in 0 .. LineCount(c) :
           /\ Chart(c, stream) /\ Shared(c, LineCount(c)) = 0 /\ Typed /\ Buffered(c, b)
           /\ (pc = "read" => ReadingAt(c, b, j, r)) /\ (pc # "read" => BetweenCalls(c, b, j, r))
           /\ q \in 0 .. r /\ (pc = "block" <=> q < r)
           /\ block = SubSeq(Text(c), EndAt(c, q) + 1, EndAt(c, r))
BY Zenon DEF Decoding, InFrame

\* Every step of the decoder, on every frame that has a chart: it goes on, ends behind the last line, or fails while it streams.
LEMMA DecodeStep ==
  ASSUME NEW c, NEW q, Decoding(c, q), Decode
  PROVE  /\ Typed' /\ UNCHANGED <<stream, streaming>>
         /\ \/ Decoding(c, q)' /\ pc' \in {"read", "block"}
            \/ q = LineCount(c) /\ pc' = "end"
            \/ streaming /\ pc' = "error"
<1>1. PICK b \in 0 .. Len(Text(c)), j \in 0 .. LineCount(c), r \in 0 .. LineCount(c) :
           /\ Chart(c, stream) /\ Shared(c, LineCount(c)) = 0 /\ Typed /\ Buffered(c, b)
           /\ (pc = "read" => ReadingAt(c, b, j, r)) /\ (pc # "read" => BetweenCalls(c, b, j, r))
           /\ q \in 0 .. r /\ (pc = "block" <=> q < r)
           /\ block = SubSeq(Text(c), EndAt(c, q) + 1, EndAt(c, r))
  BY InFrameIs
<1>2. Decode => pc \in {"read", "call"} /\ (pc = "call" => Call) /\ (pc = "read" => ~Call)
  BY DEF Decode, Call, Fill, AtEnd, Full, Take, Entry, Reading
<1>3. q = r /\ r \in Nat /\ pc # "block"
  <2>1. r \in Nat
    BY <1>1, LineNumbers
  <2>2. pc # "block"
    BY <1>2
  <2>. QED  BY <1>1, <2>1, <2>2
<1>4. block = SubSeq(Text(c), EndAt(c, q) + 1, EndAt(c, r))
  BY <1>1, Zenon
<1>5. ASSUME Chart(c, stream)', Typed', NEW k \in 0 .. LineCount(c), NEW l \in 0 .. LineCount(c), Emits(c, r, l),
             NEW a, Buffered(c, a)', BetweenCalls(c, a, k, l)'
      PROVE  Decoding(c, q)' /\ pc' \in {"read", "block"}
  <2>1. pc' = "block" /\ r < l /\ block' = SubSeq(Text(c), EndAt(c, q) + 1, EndAt(c, l))
    BY <1>3, <1>5 DEF Emits
  <2>2. a \in 0 .. Len(Text(c))
    <3>1. Window(Text(c), a, buf')
      BY <1>5, Zenon DEF Buffered
    <3>2. a \in Nat /\ Len(buf') \in Nat /\ Len(Text(c)) \in Nat /\ a + Len(buf') <= Len(Text(c))
      BY <3>1, WindowLen
    <3>. QED  BY <3>2
  <2>3. q \in 0 .. l /\ q < l
    BY <1>3, <2>1, <1>1
  <2>4. InFrame(c, q)'
    <3>1. pc' # "read" /\ (pc' = "block" <=> q < l)
      BY <2>1, <2>3
    <3>. QED  BY <3>1, <2>1, <2>2, <2>3, <1>5, Zenon DEF InFrame
  <2>. QED  BY <1>1, <1>5, <2>1, <2>4 DEF Decoding
<1>6. ASSUME Chart(c, stream)', Typed', NEW k \in 0 .. LineCount(c), pc' = "read", block' = block,
             NEW a \in 0 .. Len(Text(c)), Buffered(c, a)', ReadingAt(c, a, k, r)'
      PROVE  Decoding(c, q)' /\ pc' \in {"read", "block"}
  <2>1. block' = SubSeq(Text(c), EndAt(c, q) + 1, EndAt(c, r))
    BY <1>4, <1>6
  <2>2. q \in 0 .. r /\ ~(q < r) /\ pc' # "block"
    BY <1>1, <1>3, <1>6
  <2>3. InFrame(c, q)'
    BY <1>1, <2>1, <2>2, <1>6, Zenon DEF InFrame
  <2>. QED  BY <1>1, <1>6, <2>3 DEF Decoding
<1>7. CASE pc = "call"
  <2>1. Call /\ BetweenCalls(c, b, j, r)
    BY <1>1, <1>2, <1>7
  <2>2. /\ Typed' /\ UNCHANGED <<stream, streaming, block>> /\ pc' = "read"
        /\ \E d \in 0 .. LineCount(c), b2 \in 0 .. Len(Text(c)) : d = j /\ Buffered(c, b2)' /\ ReadingAt(c, b2, j, r)'
    BY <1>1, <2>1, CallStep
  <2>3. Chart(c, stream)'
    BY <1>1, <2>2
  <2>4. Decoding(c, q)' /\ pc' \in {"read", "block"}
    BY <1>6, <2>2, <2>3
  <2>. QED  BY <2>2, <2>4
<1>8. CASE pc = "read"
  <2>0. ReadingAt(c, b, j, r) /\ (Fill \/ AtEnd \/ Full \/ Take \/ Entry)
    BY <1>1, <1>2, <1>8 DEF Decode
  <2>1. CASE Fill
    <3>1. /\ Typed' /\ Buffered(c, b)' /\ ReadingAt(c, b, j, r)' /\ UNCHANGED <<stream, streaming, pc, block, partial>>
      BY <1>1, <2>0, <2>1, FillStep
    <3>2. Chart(c, stream)' /\ pc' = "read"
      BY <1>1, <1>8, <3>1
    <3>3. Decoding(c, q)' /\ pc' \in {"read", "block"}
      BY <1>6, <3>1, <3>2
    <3>. QED  BY <3>1, <3>3
  <2>2. CASE Take
    <3>1. /\ Typed' /\ Buffered(c, b)' /\ ReadingAt(c, b, j, r)' /\ UNCHANGED <<stream, streaming, pc, block, partial>>
      BY <1>1, <2>0, <2>2, TakeStep
    <3>2. Chart(c, stream)' /\ pc' = "read"
      BY <1>1, <1>8, <3>1
    <3>3. Decoding(c, q)' /\ pc' \in {"read", "block"}
      BY <1>6, <3>1, <3>2
    <3>. QED  BY <3>1, <3>3
  <2>3. CASE Entry
    <3>1. /\ Typed' /\ Buffered(c, b)' /\ UNCHANGED <<stream, streaming>>
          /\ j + 1 \in 0 .. LineCount(c) /\ j \in 0 .. LineCount(c)
          /\ \/ ReadingAt(c, b, j + 1, r)' /\ UNCHANGED <<pc, block>>
             \/ Emits(c, r, j) /\ BetweenCalls(c, b, j + 1, j)'
      BY <1>1, <1>8, <2>0, <2>3, EntryStep
    <3>2. Chart(c, stream)'
      BY <1>1, <3>1
    <3>3. Decoding(c, q)' /\ pc' \in {"read", "block"}
      <4>1. CASE ReadingAt(c, b, j + 1, r)' /\ UNCHANGED <<pc, block>>
        <5>1. pc' = "read" /\ block' = block
          BY <1>8, <4>1
        <5>. QED  BY <1>6, <3>1, <3>2, <4>1, <5>1
      <4>2. CASE Emits(c, r, j) /\ BetweenCalls(c, b, j + 1, j)'
        BY <1>5, <3>1, <3>2, <4>2
      <4>. QED  BY <3>1, <4>1, <4>2
    <3>. QED  BY <3>1, <3>3
  <2>4. CASE Full
    <3>1. /\ Typed' /\ Buffered(c, b)' /\ UNCHANGED <<stream, streaming>>
          /\ \E k \in 0 .. LineCount(c) : Emits(c, r, k) /\ BetweenCalls(c, b, j, k)'
      BY <1>1, <2>0, <2>4, FullStep
    <3>2. Chart(c, stream)'
      BY <1>1, <3>1
    <3>3. Decoding(c, q)' /\ pc' \in {"read", "block"}
      BY <1>5, <3>1, <3>2
    <3>. QED  BY <3>1, <3>3
  <2>5. CASE AtEnd
    <3>1. /\ Typed' /\ Buffered(c, b)' /\ UNCHANGED <<stream, streaming>>
          /\ \/ Emits(c, r, LineCount(c)) /\ BetweenCalls(c, b, LineCount(c), LineCount(c))'
             \/ r = LineCount(c) /\ pc' = "end"
             \/ streaming /\ pc' = "error"
      BY <1>1, <2>0, <2>5, AtEndStep
    <3>2. Chart(c, stream)' /\ LineCount(c) \in 0 .. LineCount(c)
      BY <1>1, <3>1, LastOfChart
    <3>3. CASE Emits(c, r, LineCount(c)) /\ BetweenCalls(c, b, LineCount(c), LineCount(c))'
      <4>1. Decoding(c, q)' /\ pc' \in {"read", "block"}
        BY <1>5, <3>1, <3>2, <3>3
      <4>. QED  BY <4>1, <3>1
    <3>. QED  BY <1>3, <3>1, <3>3
  <2>. QED  BY <2>0, <2>1, <2>2, <2>3, <2>4, <2>5
<1>. QED  BY <1>2, <1>7, <1>8

\* A decoder over a frame.
LEMMA StartsFrame ==
  ASSUME NEW c, NEW s, Chart(c, s), Shared(c, LineCount(c)) = 0, DecoderOver(s), size' \in Nat, pc' = "call",
         streaming' \in BOOLEAN
  PROVE  Decoding(c, 0)'
<1>1. /\ stream' = s /\ at' = 0 /\ avail' = 0
      /\ buf' = <<>> /\ last_path' = 0 /\ partial' = 0 /\ shared' = 0
      /\ resize' = TRUE /\ found' = FALSE /\ got' = FALSE /\ item' = 0
      /\ block' = <<>>
  BY DEF DecoderOver
<1>2. /\ At(c, 0) = 0 /\ Pos(c, 0) = 0 /\ Shared(c, 0) = 0 /\ PathAt(c, 0) = 0 /\ EndAt(c, 0) = 0
      /\ s \in Seq(Int) /\ Text(c) \in Seq(Int) /\ LineCount(c) \in Nat
  BY Zenon DEF Chart, ChartEnds, ChartTyped
<1>3. Len(s) \in Nat /\ Len(Text(c)) \in Nat /\ 0 \in 0 .. LineCount(c) /\ Len(buf') = 0 /\ buf' \in Seq(Int)
  BY <1>1, <1>2
<1>4. Gap(c, 0) \in Nat /\ (0 < LineCount(c) => Gap(c, 0) >= 1 /\ 0 < EndAt(c, 1))
  <2>1. Gap(c, 0) \in Nat
    BY <1>3, LineNumbers
  <2>2. ASSUME 0 < LineCount(c) PROVE Gap(c, 0) >= 1 /\ 0 < EndAt(c, 1)
    <3>1. Gap(c, 0) >= 1
      BY <1>3, <2>2, NextLine
    <3>2. 1 \in 0 .. LineCount(c)
      BY <1>2, <2>2
    <3>3. EndAt(c, 0) < EndAt(c, 1)
      BY <3>2, <1>3, LinesFollow
    <3>. QED  BY <3>1, <3>3, <1>2
  <2>. QED  BY <2>1, <2>2
<1>5. Typed'
  <2>1. Left' = Len(s)
    BY <1>1, <1>3 DEF Left
  <2>2. 0 \in 0 .. Len(s) /\ 0 \in 0 .. Len(buf') /\ Len(buf') <= size' /\ 0 \in Nat /\ 0 \in Int
    BY <1>3
  <2>3. at' \in 0 .. Len(stream') /\ avail' \in 0 .. Left'
    BY <1>1, <2>1, <2>2
  <2>4. last_path' \in 0 .. Len(buf') /\ partial' \in Nat /\ item' \in Nat /\ shared' \in Int
    BY <1>1, <2>2
  <2>5. resize' \in BOOLEAN /\ found' \in BOOLEAN /\ got' \in BOOLEAN
    BY <1>1
  <2>. QED  BY <2>2, <2>3, <2>4, <2>5, Zenon DEF Typed
<1>6. Buffered(c, 0)'
  <2>1. Window(Text(c), 0, buf')
    BY <1>2, <1>3 DEF Window
  <2>2. Len(buf') <= size'
    BY <1>3
  <2>. QED  BY <2>1, <2>2 DEF Buffered
<1>7. Settled(c, 0, 0)'
  <2>1. last_path' \in 0 .. Len(buf') /\ 0 + last_path' = 0 /\ 0 + Len(buf') - 0 = at' - 0 /\ 0 <= at' /\ at' <= 0 + Gap(c, 0)
        /\ (0 < LineCount(c) => at' < 0 + Gap(c, 0))
    BY <1>1, <1>3, <1>4
  <2>. QED  BY <2>1, <1>1, <1>2, <1>3, Zenon DEF Settled
<1>8. InMemory(c, 0)'
  BY <1>1, <1>2 DEF InMemory
<1>9. BetweenCalls(c, 0, 0, 0)'
  <2>1. partial' \in 0 .. Len(buf') /\ 0 + partial' = EndAt(c, 0) /\ (0 < LineCount(c) => 0 + Len(buf') < EndAt(c, 0 + 1))
    BY <1>1, <1>2, <1>3, <1>4
  <2>. QED  BY <2>1, <1>3, <1>7, <1>8, Zenon DEF BetweenCalls
<1>10. InFrame(c, 0)'
  <2>1. 0 \in 0 .. Len(Text(c)) /\ 0 \in 0 .. 0 /\ ~(0 < 0)
    BY <1>3
  <2>2. block' = SubSeq(Text(c), EndAt(c, 0) + 1, EndAt(c, 0))
    BY <1>1, <1>2
  <2>3. pc' # "read" /\ pc' # "block"
    OBVIOUS
  <2>. QED  BY <2>1, <2>2, <2>3, <1>3, <1>6, <1>9, Zenon DEF InFrame
<1>11. Chart(c, stream)'
  BY <1>1
<1>. QED  BY <1>5, <1>10, <1>11 DEF Decoding

----------------------------------------------------------------------------
(***************************************************************************)
(* A line of a block.                                                      *)
(***************************************************************************)

\* The lines of a block: the first newline ends the first of them.
BlockOf(c, s, r, q, f, l) ==
  /\ Chart(c, s) /\ r \in 0 .. LineCount(c) /\ q \in 0 .. LineCount(c) /\ q < r
  /\ f = SubSeq(Text(c), EndAt(c, q) + 1, EndAt(c, r)) /\ IsFirst(f, Newline, l)

Headed(c, r, q, f, l) ==
  /\ q + 1 \in 0 .. LineCount(c) /\ q + 1 <= r /\ Window(Text(c), EndAt(c, q), f) /\ l \in 1 .. Len(f)
  /\ EndAt(c, q) + l = EndAt(c, q + 1)
  /\ SubSeq(f, l + 1, Len(f)) = SubSeq(Text(c), EndAt(c, q + 1) + 1, EndAt(c, r))
  /\ SubSeq(f, l + 1, Len(f)) = <<>> <=> q + 1 = r

\* The first newline of a block is the end of its first line.
LEMMA BlockLine ==
  ASSUME NEW c, NEW s, NEW r, NEW q, NEW f, NEW l, BlockOf(c, s, r, q, f, l)
  PROVE  Headed(c, r, q, f, l)
<1>0. /\ Chart(c, s) /\ r \in 0 .. LineCount(c) /\ q \in 0 .. LineCount(c) /\ q < r
      /\ f = SubSeq(Text(c), EndAt(c, q) + 1, EndAt(c, r)) /\ IsFirst(f, Newline, l)
  BY Zenon DEF BlockOf
<1>1. /\ LineCount(c) \in Nat /\ q \in Nat /\ r \in Nat /\ r <= LineCount(c) /\ Len(Text(c)) \in Nat
      /\ EndAt(c, q) \in Nat /\ EndAt(c, r) \in Nat /\ EndAt(c, r) <= Len(Text(c))
  <2>1. EndAt(c, r) <= Pos(c, r) + Gap(c, r) /\ Pos(c, r) + Gap(c, r) <= Len(Text(c))
        /\ EndAt(c, r) \in Nat /\ Pos(c, r) \in Nat /\ Gap(c, r) \in Nat /\ Len(Text(c)) \in Nat /\ LineCount(c) \in Nat
        /\ r \in Nat /\ r <= LineCount(c)
    BY <1>0, LineNumbers
  <2>2. EndAt(c, q) \in Nat /\ q \in Nat
    BY <1>0, LineNumbers
  <2>3. EndAt(c, r) <= Len(Text(c))
    BY <2>1
  <2>. QED  BY <2>1, <2>2, <2>3
<1>2. q + 1 \in 0 .. LineCount(c) /\ q + 1 <= r /\ q < q + 1
  BY <1>0, <1>1
<1>3. EndAt(c, q) < EndAt(c, q + 1) /\ EndAt(c, q + 1) <= EndAt(c, r) /\ EndAt(c, q + 1) \in Nat /\ (q + 1 < r => EndAt(c, q + 1) < EndAt(c, r))
  <2>1. EndAt(c, q) < EndAt(c, q + 1)
    BY <1>0, <1>2, LinesFollow
  <2>2. EndAt(c, q + 1) <= EndAt(c, r) /\ (q + 1 < r => EndAt(c, q + 1) < EndAt(c, r))
    BY <1>0, <1>2, LinesFollow
  <2>3. EndAt(c, q + 1) \in Nat
    BY <1>0, <1>2, LineNumbers
  <2>. QED  BY <2>1, <2>2, <2>3
<1>t. Text(c) \in Seq(Int)
  BY <1>0, Zenon DEF Chart, ChartTyped
<1>4. Window(Text(c), EndAt(c, q), f) /\ Len(f) = EndAt(c, r) - EndAt(c, q)
  <2>. DEFINE n == EndAt(c, r) - EndAt(c, q)
  <2>1. n \in Nat /\ EndAt(c, q) + n = EndAt(c, r) /\ EndAt(c, q) + n <= Len(Text(c))
    BY <1>1, <1>3
  <2>. HIDE DEF n
  <2>2. Window(Text(c), EndAt(c, q), SubSeq(Text(c), EndAt(c, q) + 1, EndAt(c, q) + n))
        /\ Len(SubSeq(Text(c), EndAt(c, q) + 1, EndAt(c, q) + n)) = n
    BY <1>1, <1>t, <2>1, WindowWhole
  <2>3. f = SubSeq(Text(c), EndAt(c, q) + 1, EndAt(c, q) + n)
    BY <1>0, <2>1
  <2>. QED  BY <2>2, <2>3 DEF n
<1>n. Len(f) \in Nat /\ f \in Seq(Int)
  BY <1>4, WindowLen
<1>5. ASSUME NEW i \in 1 .. Len(f)
      PROVE  f[i] = Text(c)[EndAt(c, q) + i] /\ EndAt(c, q) + i \in 1 .. Len(Text(c))
  <2>1. f[i] = Text(c)[EndAt(c, q) + i]
    BY <1>4, Zenon DEF Window
  <2>. QED  BY <2>1, <1>1, <1>4, <1>n
<1>. DEFINE e == EndAt(c, q + 1) - EndAt(c, q)
<1>6. e \in 1 .. Len(f) /\ EndAt(c, q) + e = EndAt(c, q + 1)
  BY <1>1, <1>3, <1>4
<1>. HIDE DEF e
<1>7. f[e] = Newline
  <2>1. q + 1 \in 1 .. LineCount(c)
    BY <1>1, <1>2
  <2>2. Text(c)[EndAt(c, q) + e] = Newline
    BY <1>5, <1>6, <1>0, <2>1, Separates
  <2>. QED  BY <1>5, <1>6, <2>2
<1>8. ASSUME NEW i \in 1 .. Len(f), f[i] = Newline PROVE e <= i
  <2>1. PICK j \in 1 .. LineCount(c) : EndAt(c, q) + i = EndAt(c, j)
    BY <1>5, <1>8, <1>0, Separates
  <2>2. j \in 0 .. LineCount(c) /\ j \in Nat
    BY <1>1
  <2>3. CASE j <= q
    <3>1. EndAt(c, j) <= EndAt(c, q) /\ EndAt(c, j) \in Nat
      BY <2>2, <2>3, <1>0, LinesFollow, LineNumbers
    <3>. QED  BY <3>1, <2>1, <1>1, <1>n
  <2>4. CASE q + 1 <= j
    <3>1. EndAt(c, q + 1) <= EndAt(c, j) /\ EndAt(c, j) \in Nat
      BY <2>2, <2>4, <1>0, <1>2, LinesFollow, LineNumbers
    <3>. QED  BY <3>1, <2>1, <1>1, <1>3, <1>6, <1>n
  <2>. QED  BY <1>1, <2>2, <2>3, <2>4
<1>9. l \in 1 .. Len(f) /\ f[l] = Newline /\ \A i \in 1 .. l - 1 : f[i] # Newline
  BY <1>0, <1>6, <1>7, Zenon DEF IsFirst
<1>10. l = e
  <2>1. e <= l
    BY <1>8, <1>9
  <2>2. ~(e \in 1 .. l - 1)
    BY <1>7, <1>9
  <2>. QED  BY <2>1, <2>2, <1>6, <1>9, <1>n
<1>11. SubSeq(f, l + 1, Len(f)) = SubSeq(Text(c), EndAt(c, q + 1) + 1, EndAt(c, r))
       /\ Len(SubSeq(f, l + 1, Len(f))) = EndAt(c, r) - EndAt(c, q + 1) /\ SubSeq(f, l + 1, Len(f)) \in Seq(Int)
  <2>. DEFINE n == EndAt(c, r) - EndAt(c, q + 1)
              w == Len(f)
  <2>1. n \in Nat /\ EndAt(c, q + 1) + n = EndAt(c, r) /\ EndAt(c, q + 1) + n <= Len(Text(c)) /\ w - l = n /\ l \in Nat /\ w \in Nat /\ l <= w
        /\ w <= Len(f) /\ EndAt(c, q) + l = EndAt(c, q + 1)
    <3>1. /\ EndAt(c, q) \in Nat /\ EndAt(c, r) \in Nat /\ EndAt(c, q + 1) \in Nat /\ Len(Text(c)) \in Nat
          /\ EndAt(c, r) <= Len(Text(c)) /\ EndAt(c, q + 1) <= EndAt(c, r) /\ Len(f) \in Nat
          /\ Len(f) = EndAt(c, r) - EndAt(c, q)
      BY <1>1, <1>3, <1>4, <1>n, Zenon
    <3>2. l \in 1 .. Len(f) /\ EndAt(c, q) + l = EndAt(c, q + 1)
      BY <1>6, <1>10, Zenon
    <3>. QED  BY <3>1, <3>2, SMTT(60)
  <2>. HIDE DEF n, w
  <2>2. Window(Text(c), EndAt(c, q) + l, SubSeq(f, l + 1, w)) /\ Len(SubSeq(f, l + 1, w)) = w - l
    <3>1. Window(Text(c), EndAt(c, q), f) /\ l \in Nat /\ w \in Nat /\ l <= w /\ w <= Len(f)
      BY <1>4, <2>1, Zenon
    <3>. QED  BY <3>1, WindowSub, Zenon
  <2>3. Window(Text(c), EndAt(c, q + 1), SubSeq(Text(c), EndAt(c, q + 1) + 1, EndAt(c, q + 1) + n))
        /\ Len(SubSeq(Text(c), EndAt(c, q + 1) + 1, EndAt(c, q + 1) + n)) = n
    BY <1>3, <1>t, <2>1, WindowWhole, SMTT(60)
  <2>4. SubSeq(f, l + 1, w) = SubSeq(Text(c), EndAt(c, q + 1) + 1, EndAt(c, q + 1) + n)
    BY <2>1, <2>2, <2>3, WindowSame
  <2>5. SubSeq(f, l + 1, w) \in Seq(Int)
    BY <2>2, WindowLen
  <2>. QED  BY <2>1, <2>2, <2>4, <2>5 DEF n, w
<1>12. SubSeq(f, l + 1, Len(f)) = <<>> <=> q + 1 = r
  <2>. DEFINE g == SubSeq(f, l + 1, Len(f))
  <2>1. g \in Seq(Int) /\ Len(g) = EndAt(c, r) - EndAt(c, q + 1)
    BY <1>11
  <2>. HIDE DEF g
  <2>2. g = <<>> <=> Len(g) = 0
    BY <2>1
  <2>3. Len(g) = 0 <=> q + 1 = r
    BY <2>1, <1>1, <1>2, <1>3
  <2>. QED  BY <2>2, <2>3 DEF g
<1>. QED  BY <1>2, <1>4, <1>6, <1>10, <1>11, <1>12, Zenon DEF Headed

\* What the line says.
LineIn(t, w, p, e, meta, path) ==
  /\ t \in Seq(Int) /\ meta \in Seq(Int) /\ path \in Seq(Int) /\ w \in Nat /\ e <= Len(t) /\ t[p] = Nul
  /\ p = w + Len(meta) + 1 /\ e = p + Len(path) + 1
  /\ \A i \in 1 .. Len(meta) : t[w + i] = meta[i]
  /\ \A i \in 1 .. Len(path) : t[p + i] = path[i]

\* What a line of the chart says is what stands in the text.
LEMMA LineSays ==
  ASSUME NEW t, NEW w, NEW p, NEW e, NEW meta, NEW path, LineIn(t, w, p, e, meta, path)
  PROVE  Window(t, w, meta \o <<Nul>> \o path) /\ w + Len(meta \o <<Nul>> \o path) + 1 = e
<1>1. /\ p = w + Len(meta) + 1 /\ e = p + Len(path) + 1
      /\ \A i \in 1 .. Len(meta) : t[w + i] = meta[i]
      /\ \A i \in 1 .. Len(path) : t[p + i] = path[i]
  BY Zenon DEF LineIn
<1>0. t \in Seq(Int) /\ meta \in Seq(Int) /\ path \in Seq(Int) /\ w \in Nat /\ e <= Len(t) /\ t[p] = Nul
  BY Zenon DEF LineIn
<1>2. Len(meta) \in Nat /\ Len(path) \in Nat /\ Len(t) \in Nat /\ Nul \in Int
  BY <1>0 DEF Nul
<1>3. /\ w + Len(meta) <= Len(t) /\ w + Len(meta) \in Nat /\ w + Len(meta) + 1 <= Len(t)
      /\ w + Len(meta) + 1 \in Nat /\ w + Len(meta) + 1 + Len(path) <= Len(t)
  BY <1>0, <1>1, <1>2
<1>. DEFINE z == <<Nul>>
<1>z. z \in Seq(Int) /\ Len(z) = 1 /\ z[1] = Nul
  BY <1>2
<1>. HIDE DEF z
<1>4. Window(t, w, meta)
  BY <1>1, <1>2, <1>3, <1>0, Zenon DEF Window
<1>5. Window(t, w + Len(meta), z)
  <2>1. ASSUME NEW i \in 1 .. Len(z) PROVE z[i] = t[w + Len(meta) + i]
    <3>1. i = 1
      BY <1>z
    <3>. QED  BY <3>1, <1>z, <1>0, <1>1
  <2>2. w + Len(meta) + Len(z) <= Len(t)
    BY <1>3, <1>z
  <2>. QED  BY <1>2, <1>3, <1>z, <1>0, <2>1, <2>2, Zenon DEF Window
<1>6. Window(t, w, meta \o z) /\ Len(meta \o z) = Len(meta) + Len(z)
  BY <1>4, <1>5, WindowConcat
<1>. DEFINE y == meta \o z
<1>y. Window(t, w, y) /\ Len(y) = Len(meta) + 1
  BY <1>6, <1>z
<1>. HIDE DEF y
<1>7. Window(t, w + Len(y), path)
  <2>1. w + Len(y) = p /\ w + Len(y) \in Nat /\ w + Len(y) + Len(path) <= Len(t)
    <3>1. Len(y) = Len(meta) + 1 /\ p = w + Len(meta) + 1
      BY <1>y, <1>1, Zenon
    <3>. QED  BY <3>1, <1>2, <1>3, <1>0
  <2>. QED  BY <2>1, <1>0, <1>1, Zenon DEF Window
<1>8. Window(t, w, y \o path) /\ Len(y \o path) = Len(y) + Len(path)
  <2>1. Window(t, w, y)
    BY <1>y, Zenon
  <2>. QED  BY <2>1, <1>7, WindowConcat
<1>9. w + Len(y \o path) + 1 = e
  BY <1>8, <1>y, <1>1, <1>2, <1>0
<1>10. y \o path = meta \o <<Nul>> \o path
  BY DEF y, z
<1>. QED  BY <1>8, <1>9, <1>10

----------------------------------------------------------------------------
(***************************************************************************)
(* The next line of the block, and the decoder once it has been scanned.   *)
(***************************************************************************)
NewlineAt == SelectInSeq(block, LAMBDA c : c = Newline)
NextOne   == SubSeq(block, 1, NewlineAt - 1)
Remaining == SubSeq(block, NewlineAt + 1, Len(block))

\* The line that the scan takes is the next one of the chart, and one more has been scanned.
LEMMA ScansLine ==
  ASSUME NEW c, NEW q, Decoding(c, q), pc = "block"
  PROVE  /\ q \in 0 .. LineCount(c) /\ q + 1 \in 0 .. LineCount(c) /\ q + 1 \in 1 .. LineCount(c)
         /\ \A meta, path \in Seq(Int) : Says(c, q + 1, meta, path) => NextOne = meta \o <<Nul>> \o path
         /\ /\ UNCHANGED <<reader, buffer, partial, call>> /\ block' = Remaining
            /\ pc' = (IF block' = <<>> THEN "call" ELSE "block")
            => Decoding(c, q + 1)'
<1>1. PICK b \in 0 .. Len(Text(c)), j \in 0 .. LineCount(c), r \in 0 .. LineCount(c) :
           /\ Chart(c, stream) /\ Shared(c, LineCount(c)) = 0 /\ Typed /\ Buffered(c, b)
           /\ (pc = "read" => ReadingAt(c, b, j, r)) /\ (pc # "read" => BetweenCalls(c, b, j, r))
           /\ q \in 0 .. r /\ (pc = "block" <=> q < r)
           /\ block = SubSeq(Text(c), EndAt(c, q) + 1, EndAt(c, r))
  BY InFrameIs
<1>2. BetweenCalls(c, b, j, r) /\ q < r
  BY <1>1
<1>3. q \in 0 .. LineCount(c) /\ r \in Nat /\ q \in Nat
  <2>1. r \in Nat /\ r <= LineCount(c) /\ LineCount(c) \in Nat
    BY <1>1, LineNumbers
  <2>. QED  BY <2>1, <1>1
<1>t. Text(c) \in Seq(Int)
  BY <1>1, Zenon DEF Chart, ChartTyped
<1>. DEFINE l == NewlineAt
<1>4. IsFirst(block, Newline, l)
  <2>1. l = FirstAt(block, Newline)
    BY DEF NewlineAt, SelectInSeq, FirstAt, Places
  <2>2. block \in Seq(Int)
    <3>1. EndAt(c, q) \in Nat /\ EndAt(c, r) \in Nat
      BY <1>1, <1>3, LineNumbers
    <3>2. Text(c) \in Seq(Int) /\ EndAt(c, r) <= Len(Text(c))
      <4>1. EndAt(c, r) <= Pos(c, r) + Gap(c, r) /\ Pos(c, r) + Gap(c, r) <= Len(Text(c))
            /\ Pos(c, r) \in Nat /\ Gap(c, r) \in Nat /\ Len(Text(c)) \in Nat
        BY <1>1, LineNumbers
      <4>. QED  BY <4>1, <3>1, <1>t
    <3>3. EndAt(c, q) <= EndAt(c, r)
      BY <1>1, <1>2, <1>3, LinesFollow
    <3>4. SubSeq(Text(c), EndAt(c, q) + 1, EndAt(c, r)) \in Seq(Int)
      BY <3>1, <3>2, <3>3, Sub
    <3>. QED  BY <3>4, <1>1
  <2>. HIDE DEF l
  <2>. QED  BY <2>1, <2>2, FirstFound
<1>. HIDE DEF l
<1>5. /\ q + 1 \in 0 .. LineCount(c) /\ q + 1 <= r /\ Window(Text(c), EndAt(c, q), block) /\ l \in 1 .. Len(block) /\ EndAt(c, q) + l = EndAt(c, q + 1)
      /\ SubSeq(block, l + 1, Len(block)) = SubSeq(Text(c), EndAt(c, q + 1) + 1, EndAt(c, r))
      /\ SubSeq(block, l + 1, Len(block)) = <<>> <=> q + 1 = r
  <2>1. Chart(c, stream) /\ r \in 0 .. LineCount(c) /\ q < r /\ block = SubSeq(Text(c), EndAt(c, q) + 1, EndAt(c, r))
    BY <1>1, <1>2, Zenon
  <2>2. BlockOf(c, stream, r, q, block, l)
    BY <2>1, <1>3, <1>4, Zenon DEF BlockOf
  <2>3. Headed(c, r, q, block, l)
    BY <2>2, BlockLine
  <2>. QED  BY <2>3, Zenon DEF Headed
<1>6. q + 1 \in 1 .. LineCount(c)
  BY <1>3, <1>5
<1>7. ASSUME NEW meta \in Seq(Int), NEW path \in Seq(Int), Says(c, q + 1, meta, path)
      PROVE  NextOne = meta \o <<Nul>> \o path
  <2>1. /\ EndAt(c, q) \in Nat /\ EndAt(c, q + 1) \in Nat /\ (q + 1) - 1 = q /\ PathAt(c, q + 1) \in Nat
        /\ EndAt(c, q + 1) <= Len(Text(c)) /\ PathAt(c, q + 1) <= Len(Text(c)) /\ 1 <= PathAt(c, q + 1)
    <3>1. /\ EndAt(c, q + 1) \in Nat /\ PathAt(c, q + 1) \in Nat /\ PathAt(c, q + 1) <= EndAt(c, q + 1)
          /\ EndAt(c, q + 1) <= Pos(c, q + 1) + Gap(c, q + 1) /\ Pos(c, q + 1) + Gap(c, q + 1) <= Len(Text(c))
          /\ Pos(c, q + 1) \in Nat /\ Gap(c, q + 1) \in Nat /\ Len(Text(c)) \in Nat
      BY <1>1, <1>5, LineNumbers
    <3>2. EndAt(c, q) \in Nat
      BY <1>1, <1>3, LineNumbers
    <3>3. EndAt(c, q) < PathAt(c, q + 1)
      <4>1. q < q + 1
        BY <1>3
      <4>. QED  BY <4>1, <1>1, <1>3, <1>5, LinesFollow
    <3>. QED  BY <3>1, <3>2, <3>3, <1>3
  <2>2. Text(c)[PathAt(c, q + 1)] = Nul
    <3>1. PathAt(c, q + 1) \in 1 .. Len(Text(c))
      BY <2>1
    <3>. QED  BY <3>1, <1>1, <1>6, Separates
  <2>. DEFINE w == meta \o <<Nul>> \o path
  <2>3. Window(Text(c), EndAt(c, q), w) /\ EndAt(c, q) + Len(w) + 1 = EndAt(c, q + 1)
    <3>1. EndAt(c, (q + 1) - 1) = EndAt(c, q) /\ EndAt(c, q) \in Nat /\ EndAt(c, q + 1) <= Len(Text(c))
      BY <2>1, Zenon
    <3>2. LineIn(Text(c), EndAt(c, q), PathAt(c, q + 1), EndAt(c, q + 1), meta, path)
      BY <3>1, <1>7, <1>t, <2>2, Zenon DEF LineIn, Says
    <3>. QED  BY <3>2, LineSays
  <2>. HIDE DEF w
  <2>4. Len(w) \in Nat
    BY <2>3, WindowLen
  <2>. DEFINE n == l - 1
              m == 0
  <2>5. n \in Nat /\ n <= Len(block) /\ m \in Nat /\ m <= n /\ n = Len(w)
    <3>1. Len(block) \in Nat
      BY <1>5, WindowLen
    <3>2. l \in 1 .. Len(block) /\ EndAt(c, q) + l = EndAt(c, q + 1) /\ EndAt(c, q) \in Nat
          /\ EndAt(c, q) + Len(w) + 1 = EndAt(c, q + 1)
      BY <1>5, <2>1, <2>3, Zenon
    <3>. QED  BY <3>1, <3>2, <2>4
  <2>6. EndAt(c, q) + m = EndAt(c, q) /\ m + 1 = 1 /\ n - m = n
    BY <2>1, <2>5
  <2>. HIDE DEF n, m
  <2>7. Window(Text(c), EndAt(c, q) + m, SubSeq(block, m + 1, n)) /\ Len(SubSeq(block, m + 1, n)) = n - m
    BY <1>5, <2>5, WindowSub
  <2>8. Window(Text(c), EndAt(c, q), SubSeq(block, 1, n)) /\ Len(SubSeq(block, 1, n)) = n
    BY <2>6, <2>7
  <2>9. SubSeq(block, 1, n) = w
    BY <2>3, <2>5, <2>8, WindowSame
  <2>. QED  BY <2>9 DEF NextOne, n, w, l
<1>8. ASSUME UNCHANGED <<reader, buffer, partial, call>>, block' = Remaining,
             pc' = (IF block' = <<>> THEN "call" ELSE "block")
      PROVE  Decoding(c, q + 1)'
  <2>1. /\ UNCHANGED <<stream, streaming, at, avail, buf, size, last_path, shared, partial, resize, found, got, item>>
    BY <1>8 DEF reader, buffer, call
  <2>2. block' = SubSeq(Text(c), EndAt(c, q + 1) + 1, EndAt(c, r)) /\ (block' = <<>> <=> q + 1 = r)
    BY <1>5, <1>8 DEF Remaining, l
  <2>3. q + 1 \in 0 .. r /\ (pc' = "block" <=> q + 1 < r) /\ pc' # "read"
    <3>1. q + 1 \in 0 .. r /\ (q + 1 < r <=> q + 1 # r)
      BY <1>3, <1>5
    <3>2. pc' = "block" <=> block' # <<>>
      BY <1>8
    <3>3. pc' # "read"
      BY <1>8
    <3>. QED  BY <3>1, <3>2, <3>3, <2>2
  <2>4. Chart(c, stream)' /\ Typed' /\ Buffered(c, b)'
    <3>1. Chart(c, stream)'
      BY <1>1, <2>1
    <3>2. Left' = Left
      BY <2>1 DEF Left
    <3>3. Typed'
      BY <1>1, <2>1, <3>2 DEF Typed
    <3>4. Buffered(c, b)'
      BY <1>1, <2>1 DEF Buffered
    <3>. QED  BY <3>1, <3>3, <3>4
  <2>5. BetweenCalls(c, b, j, r)'
    <3>1. Settled(c, b, j) => Settled(c, b, j)'
      BY <2>1 DEF Settled
    <3>2. Awaits(c, b, j) => Awaits(c, b, j)'
      BY <2>1 DEF Awaits
    <3>3. InMemory(c, j) => InMemory(c, j)'
      BY <2>1 DEF InMemory, Left
    <3>4. /\ (Settled(c, b, j) \/ Awaits(c, b, j)) /\ InMemory(c, j)
          /\ r \in 0 .. LineCount(c) /\ partial \in 0 .. Len(buf) /\ b + partial = EndAt(c, r)
          /\ r < LineCount(c) => b + Len(buf) < EndAt(c, r + 1)
      BY <1>2, Zenon DEF BetweenCalls
    <3>5. /\ partial' \in 0 .. Len(buf') /\ b + partial' = EndAt(c, r)
          /\ r < LineCount(c) => b + Len(buf') < EndAt(c, r + 1)
      BY <3>4, <2>1
    <3>. QED  BY <3>1, <3>2, <3>3, <3>4, <3>5, Zenon DEF BetweenCalls
  <2>6. InFrame(c, q + 1)'
    BY <2>2, <2>3, <2>4, <2>5, Zenon DEF InFrame
  <2>. QED  BY <1>1, <2>4, <2>6 DEF Decoding
<1>. QED  BY <1>3, <1>5, <1>6, <1>7, <1>8

----------------------------------------------------------------------------
(***************************************************************************)
(* FlattenSeq.                                                             *)
(***************************************************************************)

(***************************************************************************)
(* FlattenSeq: f is the function it is computed with, on the first n       *)
(* sequences of g.  Such a function exists, and what it is up to m depends *)
(* on the first m sequences only.                                          *)
(***************************************************************************)
Flattens(f, g, n) == f = [i \in 1 .. n |-> IF i = 1 THEN g[i] ELSE f[i - 1] \o g[i]]

\* There is one.
LEMMA FlatteningExists ==
  ASSUME NEW g, NEW n \in Nat
  PROVE  \E f : Flattens(f, g, n)
<1>. DEFINE T == {m \in Nat : ~ \E f : Flattens(f, g, m)}
<1>. SUFFICES ASSUME T # {} PROVE FALSE
  OBVIOUS
<1>1. PICK m \in T : \A k \in T : m <= k
  <2>. HIDE DEF T
  <2>1. T \subseteq Nat
    BY DEF T
  <2>. QED  BY <2>1, Smallest
<1>2. m # 0
  <2>1. Flattens([i \in 1 .. 0 |-> g[i]], g, 0)
    BY DEF Flattens
  <2>. QED  BY <2>1
<1>3. m \in Nat /\ m - 1 \in Nat /\ m - 1 \notin T
  BY <1>1, <1>2
<1>4. PICK f : Flattens(f, g, m - 1)
  BY <1>3
<1>. DEFINE h == [i \in 1 .. m |-> IF i = 1 THEN g[i] ELSE f[i - 1] \o g[i]]
<1>5. \A i \in 1 .. m - 1 : h[i] = f[i]
  <2>. SUFFICES ASSUME NEW i \in 1 .. m - 1 PROVE h[i] = f[i]
    OBVIOUS
  <2>1. i \in 1 .. m
    BY <1>3
  <2>2. h[i] = IF i = 1 THEN g[i] ELSE f[i - 1] \o g[i]
    BY <2>1
  <2>3. f[i] = IF i = 1 THEN g[i] ELSE f[i - 1] \o g[i]
    BY <1>4 DEF Flattens
  <2>. QED  BY <2>2, <2>3
<1>6. Flattens(h, g, m)
  <2>1. h = [i \in 1 .. m |-> h[i]]
    OBVIOUS
  <2>2. ASSUME NEW i \in 1 .. m
        PROVE  h[i] = IF i = 1 THEN g[i] ELSE h[i - 1] \o g[i]
    <3>1. CASE i = 1
      BY <3>1
    <3>2. CASE i # 1
      <4>1. i - 1 \in 1 .. m - 1
        BY <1>3, <3>2
      <4>2. h[i] = f[i - 1] \o g[i]
        BY <3>2
      <4>. QED  BY <1>5, <3>2, <4>1, <4>2
    <3>. QED  BY <3>1, <3>2
  <2>. HIDE DEF h
  <2>. QED  BY <2>1, <2>2 DEF Flattens
<1>. QED  BY <1>1, <1>6

\* Two of them agree as far as what they flatten does.
LEMMA FlatteningAgrees ==
  ASSUME NEW f, NEW g, NEW n \in Nat, Flattens(f, g, n),
         NEW h, NEW k, NEW m \in Nat, Flattens(h, k, m), m <= n,
         \A i \in 1 .. m : g[i] = k[i],
         NEW j \in 1 .. m
  PROVE  f[j] = h[j]
<1>. DEFINE T == {i \in 1 .. m : f[i] # h[i]}
<1>. SUFFICES ASSUME T # {} PROVE FALSE
  OBVIOUS
<1>1. PICK i \in T : \A l \in T : i <= l
  <2>. HIDE DEF T
  <2>1. T \subseteq Nat
    BY DEF T
  <2>. QED  BY <2>1, Smallest
<1>2. /\ i \in 1 .. m /\ i \in 1 .. n /\ g[i] = k[i]
      /\ f[i] = IF i = 1 THEN g[i] ELSE f[i - 1] \o g[i]
      /\ h[i] = IF i = 1 THEN k[i] ELSE h[i - 1] \o k[i]
  <2>1. i \in 1 .. m /\ i \in 1 .. n
    BY <1>1
  <2>2. f[i] = IF i = 1 THEN g[i] ELSE f[i - 1] \o g[i]
    BY <2>1 DEF Flattens
  <2>3. h[i] = IF i = 1 THEN k[i] ELSE h[i - 1] \o k[i]
    BY <2>1 DEF Flattens
  <2>. QED  BY <2>1, <2>2, <2>3
<1>3. i # 1
  BY <1>1, <1>2
<1>4. i - 1 \in 1 .. m /\ i - 1 \notin T
  BY <1>1, <1>2, <1>3
<1>. QED  BY <1>1, <1>2, <1>3, <1>4

\* FlattenSeq is its last value.
LEMMA FlattenedSeq ==
  ASSUME NEW n \in Nat \ {0}, NEW S, NEW g \in [1 .. n -> Seq(S)]
  PROVE  \E f : Flattens(f, g, n) /\ FlattenSeq(g) = f[n]
<1>1. Len(g) = n /\ n # 0 /\ 1 .. Len(g) = 1 .. n
  <2>1. g \in Seq(Seq(S))
    OBVIOUS
  <2>2. DOMAIN g = 1 .. n
    OBVIOUS
  <2>. QED  BY <2>1, <2>2
<1>2. \E f : f = [i \in 1 .. Len(g) |-> IF i = 1 THEN g[i] ELSE f[i - 1] \o g[i]]
  BY <1>1, FlatteningExists DEF Flattens
<1>3. \E f : /\ f = [i \in 1 .. Len(g) |-> IF i = 1 THEN g[i] ELSE f[i - 1] \o g[i]]
             /\ FlattenSeq(g) = f[Len(g)]
  <2>1. Len(g) # 0
    BY <1>1
  <2>. QED  BY <1>2, <2>1, Zenon DEF FlattenSeq
<1>. QED  BY <1>1, <1>3 DEF Flattens

\* Nothing to flatten.
LEMMA FlattenNothing == ASSUME NEW g, Len(g) = 0 PROVE FlattenSeq(g) = g
BY DEF FlattenSeq

\* The type of a flattened sequence, and one more sequence at its end.
LEMMA FlattenType ==
  ASSUME NEW S, NEW n \in Nat, NEW g \in [1 .. n -> Seq(S)]
  PROVE  FlattenSeq(g) \in Seq(S)
<1>1. CASE n = 0
  <2>1. g = << >> /\ Len(g) = 0 /\ << >> \in Seq(S)
    BY <1>1
  <2>. QED  BY <2>1, FlattenNothing
<1>2. CASE n # 0
  <2>1. PICK f : Flattens(f, g, n) /\ FlattenSeq(g) = f[n]
    BY <1>2, FlattenedSeq
  <2>. DEFINE T == {i \in 1 .. n : f[i] \notin Seq(S)}
  <2>2. ASSUME T # {} PROVE FALSE
    <3>1. PICK i \in T : \A l \in T : i <= l
      <4>. HIDE DEF T
      <4>1. T \subseteq Nat
        BY DEF T
      <4>. QED  BY <2>2, <4>1, Smallest
    <3>2. i \in 1 .. n /\ g[i] \in Seq(S) /\ f[i] = IF i = 1 THEN g[i] ELSE f[i - 1] \o g[i]
      <4>1. i \in 1 .. n
        OBVIOUS
      <4>. QED  BY <2>1, <4>1 DEF Flattens
    <3>3. i # 1
      BY <3>2
    <3>4. i - 1 \in 1 .. n /\ i - 1 \notin T
      BY <3>1, <3>2, <3>3
    <3>5. f[i - 1] \in Seq(S)
      BY <3>4
    <3>6. f[i - 1] \o g[i] \in Seq(S)
      BY <3>2, <3>5
    <3>. QED  BY <3>2, <3>3, <3>6
  <2>. QED  BY <1>2, <2>1, <2>2
<1>. QED  BY <1>1, <1>2

\* One sequence more.
LEMMA FlattenStep ==
  ASSUME NEW S, NEW n \in Nat, NEW g \in [1 .. n + 1 -> Seq(S)]
  PROVE  FlattenSeq(g) = FlattenSeq([i \in 1 .. n |-> g[i]]) \o g[n + 1]
<1>. DEFINE k == [i \in 1 .. n |-> g[i]]
<1>1. k \in [1 .. n -> Seq(S)] /\ g[n + 1] \in Seq(S) /\ n + 1 \in Nat \ {0} /\ n + 1 \in 1 .. n + 1
  OBVIOUS
<1>2. PICK f : Flattens(f, g, n + 1) /\ FlattenSeq(g) = f[n + 1]
  BY <1>1, FlattenedSeq
<1>3. f[n + 1] = IF n + 1 = 1 THEN g[n + 1] ELSE f[n + 1 - 1] \o g[n + 1]
  <2>. DEFINE m == n + 1
  <2>1. m \in 1 .. m /\ f = [i \in 1 .. m |-> IF i = 1 THEN g[i] ELSE f[i - 1] \o g[i]]
    BY <1>1, <1>2 DEF Flattens
  <2>. HIDE DEF m
  <2>2. f[m] = IF m = 1 THEN g[m] ELSE f[m - 1] \o g[m]
    BY <2>1
  <2>. QED  BY <2>2 DEF m
<1>4. CASE n = 0
  <2>1. k = << >> /\ Len(k) = 0
    BY <1>4
  <2>2. FlattenSeq(k) = << >>
    BY <2>1, FlattenNothing
  <2>3. << >> \o g[n + 1] = g[n + 1]
    BY <1>1
  <2>. QED  BY <1>2, <1>3, <1>4, <2>2, <2>3
<1>5. CASE n # 0
  <2>1. PICK h : Flattens(h, k, n) /\ FlattenSeq(k) = h[n]
    BY <1>1, <1>5, FlattenedSeq
  <2>2. n <= n + 1 /\ n \in 1 .. n /\ n + 1 - 1 = n /\ n + 1 # 1
        /\ \A i \in 1 .. n : g[i] = k[i]
    BY <1>5
  <2>3. f[n] = h[n]
    <3>. HIDE DEF k
    <3>1. n \in Nat /\ n + 1 \in Nat
      OBVIOUS
    <3>. QED  BY <1>2, <2>1, <2>2, <3>1, FlatteningAgrees
  <2>. QED  BY <1>2, <1>3, <2>1, <2>2, <2>3
<1>. QED  BY <1>4, <1>5

----------------------------------------------------------------------------
(***************************************************************************)
(* The charts of what the encoder writes.                                  *)
(***************************************************************************)

----------------------------------------------------------------------------

\* The chart of nothing.
EmptyChart ==
  LET none == [j \in 0 .. 0 |-> 0]
  IN [n |-> 0, text |-> << >>, at |-> none, pos |-> none, gap |-> none, shared |-> none,
      path |-> none, end |-> none]

\* It is the chart of no bytes.
LEMMA NothingCharted ==
  Chart(EmptyChart, << >>) /\ LineCount(EmptyChart) = 0 /\ Shared(EmptyChart, 0) = 0
<1>. DEFINE c == EmptyChart
<1>1. LineCount(c) = 0 /\ Text(c) = << >>
  BY DEF LineCount, Text, EmptyChart
<1>2. At(c, 0) = 0 /\ Pos(c, 0) = 0 /\ Gap(c, 0) = 0 /\ Shared(c, 0) = 0 /\ PathAt(c, 0) = 0 /\ EndAt(c, 0) = 0
  BY DEF At, Pos, Gap, Shared, PathAt, EndAt, EmptyChart
<1>. HIDE DEF c
<1>3. Len(Text(c)) = 0 /\ Text(c) \in Seq(Int) /\ << >> \in Seq(Int) /\ Len(<< >>) = 0
  BY <1>1
<1>4. \A j : j \in 0 .. LineCount(c) => j = 0
  BY <1>1
<1>5. ChartTyped(c, << >>)
  <2>1. ASSUME NEW j \in 0 .. LineCount(c)
        PROVE  /\ At(c, j) \in Nat /\ Pos(c, j) \in Nat /\ Gap(c, j) \in Nat
               /\ Shared(c, j) \in Nat /\ PathAt(c, j) \in Nat /\ EndAt(c, j) \in Nat
    <3>1. j = 0
      BY <1>4
    <3>. QED  BY <3>1, <1>2
  <2>. QED  BY <1>1, <1>3, <2>1 DEF ChartTyped
<1>6. ChartEnds(c, << >>)
  BY <1>1, <1>2, <1>3 DEF ChartEnds
<1>7. ChartGaps(c, << >>)
  <2>1. ASSUME NEW j \in 0 .. LineCount(c)
        PROVE  /\ At(c, j) + Gap(c, j) <= Len(<< >>) /\ Pos(c, j) + Gap(c, j) <= Len(Text(c))
               /\ Pos(c, j) = PathAt(c, j) + Shared(c, j) /\ EndAt(c, j) <= Pos(c, j) + Gap(c, j)
               /\ j > 0 => Pos(c, j) < EndAt(c, j)
               /\ Gap(c, j) = 0
    <3>1. j = 0
      BY <1>4
    <3>. QED  BY <3>1, <1>2, <1>3
  <2>2. ASSUME NEW j \in 0 .. LineCount(c), NEW i \in 1 .. Gap(c, j) PROVE FALSE
    BY <2>1
  <2>. QED  BY <2>1, <2>2 DEF ChartGaps
<1>8. ChartSteps(c, << >>)
  <2>1. \A j : ~(j \in 0 .. LineCount(c) - 1)
    BY <1>1
  <2>. QED  BY <2>1, Zenon DEF ChartSteps
<1>9. ChartOrder(c)
  <2>1. \A j, k \in 0 .. LineCount(c) : ~(j < k)
    BY <1>1
  <2>. QED  BY <2>1, Zenon DEF ChartOrder
<1>10. ChartBytes(c)
  <2>1. \A x : ~(x \in 1 .. Len(Text(c)))
    BY <1>3
  <2>. QED  BY <2>1, Zenon DEF ChartBytes
<1>. QED  BY <1>1, <1>2, <1>5, <1>6, <1>7, <1>8, <1>9, <1>10 DEF Chart, c

----------------------------------------------------------------------------

\* What SharedLen finds.
LEMMA SharedPrefix ==
  ASSUME NEW l \in Seq(Int), NEW p \in Seq(Int), NEW x, x = SharedLen(l, p)
  PROVE  /\ x \in Nat /\ x <= Len(l) /\ x <= Len(p) /\ x <= MaxI16
         /\ \A i \in 1 .. x : l[i] = p[i]
<1>. DEFINE L == {Len(l), Len(p), MaxI16}
            limit == CHOOSE n \in L : \A k \in L : n <= k
<1>1. Len(l) \in Nat /\ Len(p) \in Nat /\ MaxI16 \in Nat
  BY Bytes
<1>2. limit \in Nat /\ limit <= Len(l) /\ limit <= Len(p) /\ limit <= MaxI16
  <2>1. \E n \in L : \A k \in L : n <= k
    BY <1>1
  <2>2. limit \in L /\ \A k \in L : limit <= k
    BY <2>1, Zenon
  <2>. QED  BY <1>1, <2>2
<1>3. x = CHOOSE n \in 0 .. limit : SubSeq(l, 1, n) = SubSeq(p, 1, n) /\ (n < limit => l[n + 1] # p[n + 1])
  BY DEF SharedLen
<1>. HIDE DEF limit
<1>. DEFINE T == {n \in 0 .. limit : SubSeq(l, 1, n) = SubSeq(p, 1, n)}
<1>4. PICK n \in T : \A m \in T : m <= n
  <2>1. 0 \in T
    <3>1. SubSeq(l, 1, 0) = << >> /\ SubSeq(p, 1, 0) = << >>
      BY SubSeqEmpty
    <3>. QED  BY <3>1, <1>2
  <2>2. T \subseteq 0 .. limit
    OBVIOUS
  <2>. HIDE DEF T
  <2>. QED  BY <2>1, <2>2, <1>2, Greatest
<1>5. n \in 0 .. limit /\ SubSeq(l, 1, n) = SubSeq(p, 1, n)
  BY <1>4
<1>p. ASSUME NEW m \in 0 .. limit
      PROVE  /\ SubSeq(l, 1, m) \in Seq(Int) /\ Len(SubSeq(l, 1, m)) = m /\ \A i \in 1 .. m : SubSeq(l, 1, m)[i] = l[i]
             /\ SubSeq(p, 1, m) \in Seq(Int) /\ Len(SubSeq(p, 1, m)) = m /\ \A i \in 1 .. m : SubSeq(p, 1, m)[i] = p[i]
  <2>1. m \in Nat /\ m <= Len(l) /\ m <= Len(p)
    BY <1>1, <1>2
  <2>2. /\ SubSeq(l, 1, m) \in Seq(Int) /\ Len(SubSeq(l, 1, m)) = m /\ \A i \in 1 .. m : SubSeq(l, 1, m)[i] = l[i]
    BY <2>1
  <2>3. /\ SubSeq(p, 1, m) \in Seq(Int) /\ Len(SubSeq(p, 1, m)) = m /\ \A i \in 1 .. m : SubSeq(p, 1, m)[i] = p[i]
    BY <2>1
  <2>. QED  BY <2>2, <2>3
<1>6. n < limit => l[n + 1] # p[n + 1]
  <2>. SUFFICES ASSUME n < limit, l[n + 1] = p[n + 1] PROVE FALSE
    OBVIOUS
  <2>1. n + 1 \in 0 .. limit /\ n \in Nat
    BY <1>2, <1>5
  <2>2. ASSUME NEW i \in 1 .. n + 1 PROVE l[i] = p[i]
    <3>1. CASE i = n + 1
      BY <3>1
    <3>2. CASE i # n + 1
      <4>1. i \in 1 .. n
        BY <2>1, <3>2
      <4>2. SubSeq(l, 1, n)[i] = l[i] /\ SubSeq(p, 1, n)[i] = p[i]
        BY <1>5, <1>p, <4>1
      <4>. QED  BY <4>2, <1>5
    <3>. QED  BY <3>1, <3>2
  <2>3. SubSeq(l, 1, n + 1) = SubSeq(p, 1, n + 1)
    <3>. DEFINE f == SubSeq(l, 1, n + 1)
                g == SubSeq(p, 1, n + 1)
    <3>1. /\ f \in Seq(Int) /\ Len(f) = n + 1 /\ g \in Seq(Int) /\ Len(g) = n + 1
          /\ \A i \in 1 .. n + 1 : f[i] = l[i] /\ g[i] = p[i]
      BY <1>p, <2>1
    <3>2. \A i \in 1 .. n + 1 : f[i] = g[i]
      BY <3>1, <2>2
    <3>. HIDE DEF f, g
    <3>. QED  BY <3>1, <3>2, SeqEqual DEF f, g
  <2>4. n + 1 \in T
    BY <2>1, <2>3
  <2>. QED  BY <1>4, <2>4, <2>1
<1>7. x \in 0 .. limit /\ SubSeq(l, 1, x) = SubSeq(p, 1, x)
  BY <1>3, <1>5, <1>6, Zenon
<1>8. ASSUME NEW i \in 1 .. x PROVE l[i] = p[i]
  <2>1. SubSeq(l, 1, x)[i] = l[i] /\ SubSeq(p, 1, x)[i] = p[i]
    BY <1>7, <1>p
  <2>. QED  BY <2>1, <1>7
<1>. QED  BY <1>1, <1>2, <1>7, <1>8, SMTT(60)

\* A chart d that starts as c does.
Continues(c, d) ==
  /\ LineCount(c) \in Nat /\ LineCount(d) \in Nat /\ LineCount(c) <= LineCount(d)
  /\ \A j \in 0 .. LineCount(c) : EndAt(d, j) = EndAt(c, j) /\ PathAt(d, j) = PathAt(c, j)
  /\ Len(Text(c)) \in Nat /\ Len(Text(d)) \in Nat /\ Len(Text(c)) <= Len(Text(d))
  /\ \A i \in 1 .. Len(Text(c)) : Text(d)[i] = Text(c)[i]

\* A chart starts as it does itself.
LEMMA ContinuesItself ==
  ASSUME NEW c, NEW s, Chart(c, s)
  PROVE  Continues(c, c)
<1>1. LineCount(c) \in Nat /\ Len(Text(c)) \in Nat
  BY LastOfChart, LineNumbers
<1>2. LineCount(c) <= LineCount(c) /\ Len(Text(c)) <= Len(Text(c))
  BY <1>1
<1>. QED  BY <1>1, <1>2, Zenon DEF Continues

\* ... and as one that starts as it does.
LEMMA ContinuesOn ==
  ASSUME NEW c, NEW d, NEW e, Continues(c, d), Continues(d, e)
  PROVE  Continues(c, e)
<1>1. /\ LineCount(c) \in Nat /\ LineCount(d) \in Nat /\ LineCount(c) <= LineCount(d)
      /\ \A j \in 0 .. LineCount(c) : EndAt(d, j) = EndAt(c, j) /\ PathAt(d, j) = PathAt(c, j)
      /\ Len(Text(c)) \in Nat /\ Len(Text(d)) \in Nat /\ Len(Text(c)) <= Len(Text(d))
      /\ \A i \in 1 .. Len(Text(c)) : Text(d)[i] = Text(c)[i]
  BY Zenon DEF Continues
<1>2. /\ LineCount(e) \in Nat /\ LineCount(d) <= LineCount(e)
      /\ \A j \in 0 .. LineCount(d) : EndAt(e, j) = EndAt(d, j) /\ PathAt(e, j) = PathAt(d, j)
      /\ Len(Text(e)) \in Nat /\ Len(Text(d)) <= Len(Text(e))
      /\ \A i \in 1 .. Len(Text(d)) : Text(e)[i] = Text(d)[i]
  BY Zenon DEF Continues
<1>3. LineCount(c) <= LineCount(e) /\ Len(Text(c)) <= Len(Text(e))
  BY <1>1, <1>2
<1>4. ASSUME NEW j \in 0 .. LineCount(c) PROVE EndAt(e, j) = EndAt(c, j) /\ PathAt(e, j) = PathAt(c, j)
  <2>1. j \in 0 .. LineCount(d)
    BY <1>1
  <2>. QED  BY <2>1, <1>1, <1>2, Zenon
<1>5. ASSUME NEW i \in 1 .. Len(Text(c)) PROVE Text(e)[i] = Text(c)[i]
  <2>1. i \in 1 .. Len(Text(d))
    BY <1>1
  <2>. QED  BY <2>1, <1>1, <1>2, Zenon
<1>. QED  BY <1>1, <1>2, <1>3, <1>4, <1>5, Zenon DEF Continues

\* One more line changes none before it.
LEMMA FollowsContinues ==
  ASSUME NEW c, NEW s, Chart(c, s), NEW d, NEW t, Chart(d, t), NEW meta, NEW path, NEW x, Follows(c, d, meta, path, x)
  PROVE  Continues(c, d)
<1>1. /\ LineCount(d) = LineCount(c) + 1
      /\ \A j \in 0 .. LineCount(c) : EndAt(d, j) = EndAt(c, j) /\ PathAt(d, j) = PathAt(c, j) /\ Shared(d, j) = Shared(c, j)
      /\ Len(Text(d)) >= Len(Text(c)) /\ \A i \in 1 .. Len(Text(c)) : Text(d)[i] = Text(c)[i]
  BY Zenon DEF Follows
<1>2. LineCount(c) \in Nat /\ Len(Text(c)) \in Nat /\ Len(Text(d)) \in Nat
  <2>1. LineCount(c) \in Nat /\ Len(Text(c)) \in Nat
    BY LastOfChart, LineNumbers
  <2>2. Len(Text(d)) \in Nat
    BY LastOfChart, LineNumbers
  <2>. QED  BY <2>1, <2>2
<1>3. Len(Text(d)) >= Len(Text(c)) /\ LineCount(d) = LineCount(c) + 1
  BY <1>1, Zenon
<1>4. LineCount(d) \in Nat /\ LineCount(c) <= LineCount(d) /\ Len(Text(c)) <= Len(Text(d))
  BY <1>2, <1>3
<1>. QED  BY <1>1, <1>2, <1>4, Zenon DEF Continues

\* A line of c still says the same.
LEMMA SaysStill ==
  ASSUME NEW c, NEW s, Chart(c, s), NEW d, Continues(c, d), NEW q \in 1 .. LineCount(c),
         NEW meta \in Seq(Int), NEW path \in Seq(Int), Says(c, q, meta, path)
  PROVE  Says(d, q, meta, path)
<1>1. /\ PathAt(c, q) = EndAt(c, q - 1) + Len(meta) + 1 /\ EndAt(c, q) = PathAt(c, q) + Len(path) + 1
      /\ \A i \in 1 .. Len(meta) : Text(c)[EndAt(c, q - 1) + i] = meta[i]
      /\ \A i \in 1 .. Len(path) : Text(c)[PathAt(c, q) + i] = path[i]
  BY Zenon DEF Says
<1>2. /\ \A j \in 0 .. LineCount(c) : EndAt(d, j) = EndAt(c, j) /\ PathAt(d, j) = PathAt(c, j)
      /\ \A i \in 1 .. Len(Text(c)) : Text(d)[i] = Text(c)[i]
      /\ LineCount(c) \in Nat /\ Len(Text(c)) \in Nat
  BY Zenon DEF Continues
<1>3. q \in 0 .. LineCount(c) /\ q - 1 \in 0 .. LineCount(c)
  BY <1>2
<1>4. EndAt(d, q) = EndAt(c, q) /\ PathAt(d, q) = PathAt(c, q) /\ EndAt(d, q - 1) = EndAt(c, q - 1)
  BY <1>2, <1>3, Zenon
<1>5. EndAt(c, q - 1) \in Nat /\ PathAt(c, q) \in Nat /\ EndAt(c, q) \in Nat /\ EndAt(c, q) <= Len(Text(c))
  <2>1. EndAt(c, q - 1) \in Nat
    BY <1>3, LineNumbers
  <2>2. /\ PathAt(c, q) \in Nat /\ EndAt(c, q) \in Nat /\ EndAt(c, q) <= Pos(c, q) + Gap(c, q)
        /\ Pos(c, q) + Gap(c, q) <= Len(Text(c)) /\ Pos(c, q) \in Nat /\ Gap(c, q) \in Nat /\ Len(Text(c)) \in Nat
    BY <1>3, LineNumbers
  <2>3. EndAt(c, q) <= Len(Text(c))
    BY <2>2
  <2>. QED  BY <2>1, <2>2, <2>3
<1>6. Len(meta) \in Nat /\ Len(path) \in Nat
  BY LenProperties
<1>p. PathAt(c, q) = EndAt(c, q - 1) + Len(meta) + 1 /\ EndAt(c, q) = PathAt(c, q) + Len(path) + 1
  BY <1>1, Zenon
<1>n. Len(Text(c)) \in Nat
  BY <1>2, Zenon
<1>9. EndAt(c, q - 1) + Len(meta) <= Len(Text(c)) /\ PathAt(c, q) + Len(path) <= Len(Text(c))
  BY <1>p, <1>n, <1>5, <1>6
<1>7. ASSUME NEW i \in 1 .. Len(meta) PROVE Text(d)[EndAt(d, q - 1) + i] = meta[i]
  <2>1. EndAt(c, q - 1) + i \in 1 .. Len(Text(c))
    <3>. DEFINE w == EndAt(c, q - 1)
                n == Len(meta)
                m == Len(Text(c))
    <3>1. w \in Nat /\ n \in Nat /\ m \in Nat /\ w + n <= m /\ i \in 1 .. n
      BY <1>9, <1>n, <1>5, <1>6
    <3>. HIDE DEF w, n, m
    <3>2. w + i \in 1 .. m
      BY <3>1
    <3>. QED  BY <3>2 DEF w, m
  <2>. QED  BY <2>1, <1>1, <1>2, <1>4, Zenon
<1>8. ASSUME NEW i \in 1 .. Len(path) PROVE Text(d)[PathAt(d, q) + i] = path[i]
  <2>1. PathAt(c, q) + i \in 1 .. Len(Text(c))
    <3>. DEFINE w == PathAt(c, q)
                n == Len(path)
                m == Len(Text(c))
    <3>1. w \in Nat /\ n \in Nat /\ m \in Nat /\ w + n <= m /\ i \in 1 .. n
      BY <1>9, <1>n, <1>5, <1>6
    <3>. HIDE DEF w, n, m
    <3>2. w + i \in 1 .. m
      BY <3>1
    <3>. QED  BY <3>2 DEF w, m
  <2>. QED  BY <2>1, <1>1, <1>2, <1>4, Zenon
<1>. QED  BY <1>p, <1>4, <1>7, <1>8, Zenon DEF Says

----------------------------------------------------------------------------
(***************************************************************************)
(* The lines of a package, one after the other.                            *)
(***************************************************************************)
LineBytes(lines, k) ==
  WriteLine(lines[k].meta, SharedLens(lines)[k] - SharedLens(lines)[k - 1],
            SubSeq(lines[k].path, SharedLens(lines)[k] + 1, Len(lines[k].path)))

PlainLines(lines) ==
  /\ Len(lines) \in Nat /\ DOMAIN lines = 1 .. Len(lines)
  /\ \A k \in 1 .. Len(lines) : lines[k].meta \in Seq(Plain) /\ lines[k].path \in Seq(Plain)

\* Characters are numbers.
LEMMA PlainIsInt ==
  ASSUME NEW s \in Seq(Plain)
  PROVE  s \in Seq(Int) /\ Len(s) \in Nat
BY DEF Plain

\* What two lines share is no longer than either, and the same in both.
LEMMA LensBounded ==
  ASSUME NEW lines, PlainLines(lines), NEW k \in 0 .. Len(lines), NEW n, n = SharedLens(lines)[k]
  PROVE  /\ n \in Nat /\ n <= MaxI16
         /\ k < 2 => n = 0
         /\ k > 0 => n <= Len(lines[k].path)
         /\ k > 1 => /\ n <= Len(lines[k - 1].path)
                     /\ \A i \in 1 .. n : lines[k].path[i] = lines[k - 1].path[i]
<1>1. /\ Len(lines) \in Nat
      /\ \A j \in 1 .. Len(lines) : lines[j].meta \in Seq(Plain) /\ lines[j].path \in Seq(Plain)
  BY Zenon DEF PlainLines
<1>2. n = IF k < 2 THEN 0 ELSE SharedLen(lines[k - 1].path, lines[k].path)
  BY DEF SharedLens
<1>3. MaxI16 \in Nat
  BY Bytes
<1>4. CASE k < 2
  <2>1. n = 0
    BY <1>2, <1>4
  <2>2. k > 0 => lines[k].path \in Seq(Plain) /\ k \in 1 .. Len(lines)
    BY <1>1
  <2>3. k > 0 => Len(lines[k].path) \in Nat
    BY <2>2, PlainIsInt
  <2>4. ~(k > 1)
    BY <1>1, <1>4
  <2>. QED  BY <2>1, <2>3, <2>4, <1>3
<1>5. CASE ~(k < 2)
  <2>1. k \in 1 .. Len(lines) /\ k - 1 \in 1 .. Len(lines)
    BY <1>1, <1>5
  <2>. DEFINE l == lines[k - 1].path
              p == lines[k].path
  <2>2. l \in Seq(Int) /\ p \in Seq(Int)
    BY <2>1, <1>1, PlainIsInt
  <2>3. n = SharedLen(l, p)
    BY <1>2, <1>5
  <2>. HIDE DEF l, p
  <2>4. /\ n \in Nat /\ n <= Len(l) /\ n <= Len(p) /\ n <= MaxI16
        /\ \A i \in 1 .. n : l[i] = p[i]
    BY <2>2, <2>3, SharedPrefix
  <2>. QED  BY <2>4, <1>5 DEF l, p
<1>. QED  BY <1>4, <1>5

\* The first line of a package shares nothing.
LEMMA FirstLens ==
  ASSUME NEW lines, PlainLines(lines), 0 \in 0 .. Len(lines), NEW n, n = SharedLens(lines)[0]
  PROVE  n = 0
<1>. DEFINE N == Len(lines)
            S(k) == IF k < 2 THEN 0 ELSE SharedLen(lines[k - 1].path, lines[k].path)
<1>1. SharedLens(lines) = [k \in 0 .. N |-> S(k)]
  BY DEF SharedLens
<1>2. S(0) = 0
  OBVIOUS
<1>. HIDE DEF S, N
<1>. QED  BY <1>1, <1>2 DEF N

\* A line is a sequence of bytes.
LEMMA LineTyped ==
  ASSUME NEW meta \in Seq(Int), NEW change \in Int, -MaxI16 <= change, change <= MaxI16, NEW rest \in Seq(Int)
  PROVE  WriteLine(meta, change, rest) \in Seq(Int)
<1>. DEFINE e == EncodeDiff(change)
<1>1. e \in Seq(Int)
  BY DiffDecodes
<1>. HIDE DEF e
<1>2. Nul \in Int /\ Newline \in Int
  BY Bytes
<1>3. <<Nul>> \in Seq(Int) /\ <<Newline>> \in Seq(Int)
  BY <1>2
<1>4. meta \o <<Nul>> \o e \o rest \o <<Newline>> \in Seq(Int)
  BY <1>1, <1>3
<1>. QED  BY <1>4 DEF WriteLine, e

\* So are those of a package.
LEMMA BytesTyped ==
  ASSUME NEW lines, PlainLines(lines), NEW k \in 1 .. Len(lines)
  PROVE  LineBytes(lines, k) \in Seq(Int)
<1>. DEFINE a == SharedLens(lines)[k]
            b == SharedLens(lines)[k - 1]
            m == lines[k].meta
            p == lines[k].path
<1>1. Len(lines) \in Nat /\ m \in Seq(Int) /\ p \in Seq(Int)
  <2>1. lines[k].meta \in Seq(Plain) /\ lines[k].path \in Seq(Plain) /\ Len(lines) \in Nat
    BY Zenon DEF PlainLines
  <2>. QED  BY <2>1, PlainIsInt
<1>2. k \in 0 .. Len(lines) /\ k - 1 \in 0 .. Len(lines) /\ k > 0
  BY <1>1
<1>3. a \in Nat /\ a <= MaxI16 /\ a <= Len(p)
  BY <1>2, LensBounded
<1>4. b \in Nat /\ b <= MaxI16
  BY <1>2, LensBounded
<1>. HIDE DEF a, b, m, p
<1>5. MaxI16 \in Nat /\ Len(p) \in Nat
  BY Bytes, <1>1
<1>6. a - b \in Int /\ -MaxI16 <= a - b /\ a - b <= MaxI16
  BY <1>3, <1>4, <1>5
<1>7. SubSeq(p, a + 1, Len(p)) \in Seq(Int)
  BY <1>1, <1>3, <1>5, Sub
<1>8. WriteLine(m, a - b, SubSeq(p, a + 1, Len(p))) \in Seq(Int)
  BY <1>1, <1>6, <1>7, LineTyped
<1>. QED  BY <1>8 DEF LineBytes, a, b, m, p

\* The first e lines.
Laid(lines, e) == FlattenSeq([k \in 1 .. e |-> LineBytes(lines, k)])

\* One line more.
LEMMA LaidPlus ==
  ASSUME NEW lines, PlainLines(lines), NEW e \in Nat, e < Len(lines)
  PROVE  /\ Laid(lines, e) \in Seq(Int) /\ LineBytes(lines, e + 1) \in Seq(Int)
         /\ Laid(lines, e + 1) = Laid(lines, e) \o LineBytes(lines, e + 1)
<1>. DEFINE g == [k \in 1 .. e + 1 |-> LineBytes(lines, k)]
            f == [k \in 1 .. e |-> LineBytes(lines, k)]
<1>1. Len(lines) \in Nat
  BY Zenon DEF PlainLines
<1>2. ASSUME NEW k \in 1 .. e + 1 PROVE LineBytes(lines, k) \in Seq(Int)
  <2>1. k \in 1 .. Len(lines)
    BY <1>1
  <2>. QED  BY <2>1, BytesTyped
<1>3. g \in [1 .. e + 1 -> Seq(Int)]
  BY <1>2
<1>4. e + 1 \in 1 .. e + 1 /\ \A k \in 1 .. e : k \in 1 .. e + 1
  OBVIOUS
<1>5. f = [k \in 1 .. e |-> g[k]] /\ g[e + 1] = LineBytes(lines, e + 1)
  BY <1>4
<1>6. f \in [1 .. e -> Seq(Int)]
  BY <1>2, <1>4
<1>. HIDE DEF f, g
<1>7. FlattenSeq(g) = FlattenSeq([k \in 1 .. e |-> g[k]]) \o g[e + 1]
  BY <1>3, FlattenStep
<1>8. FlattenSeq(f) \in Seq(Int)
  BY <1>6, FlattenType
<1>9. Laid(lines, e) = FlattenSeq(f) /\ Laid(lines, e + 1) = FlattenSeq(g)
  BY DEF Laid, f, g
<1>. QED  BY <1>2, <1>4, <1>5, <1>7, <1>8, <1>9

Charted(c, s, lines, e) ==
  \E d : /\ Chart(d, s \o Laid(lines, e))
         /\ Continues(c, d) /\ LineCount(d) = LineCount(c) + e /\ Shared(d, LineCount(d)) = SharedLens(lines)[e]
         /\ \A k \in 1 .. e : Says(d, LineCount(c) + k, lines[k].meta, lines[k].path)

\* Before the first line.
LEMMA NoLineCharted ==
  ASSUME NEW c, NEW s, Chart(c, s), Shared(c, LineCount(c)) = 0, NEW lines, PlainLines(lines)
  PROVE  Charted(c, s, lines, 0)
<1>1. LineCount(c) \in Nat /\ s \in Seq(Int)
  BY Zenon DEF Chart, ChartTyped
<1>. DEFINE g == [k \in 1 .. 0 |-> LineBytes(lines, k)]
<1>2. g = << >> /\ Len(g) = 0
  OBVIOUS
<1>3. FlattenSeq(g) = << >>
  BY <1>2, FlattenNothing
<1>. HIDE DEF g
<1>4. s \o FlattenSeq(g) = s
  BY <1>1, <1>3, ConcatEmptySeq
<1>5. SharedLens(lines)[0] = 0
  <2>1. Len(lines) \in Nat
    BY Zenon DEF PlainLines
  <2>2. 0 \in 0 .. Len(lines) /\ 0 < 2
    BY <2>1
  <2>. DEFINE n == SharedLens(lines)[0]
  <2>3. n = SharedLens(lines)[0]
    OBVIOUS
  <2>. HIDE DEF n
  <2>4. n = 0
    BY <2>2, <2>3, FirstLens
  <2>. QED  BY <2>4 DEF n
<1>6. LineCount(c) = LineCount(c) + 0 /\ \A k : ~(k \in 1 .. 0)
  BY <1>1
<1>7. Continues(c, c)
  BY ContinuesItself
<1>. QED  BY <1>4, <1>5, <1>6, <1>7, Zenon DEF Charted, Laid, g

\* The next line of a package can follow those before it.
LEMMA NextFollows ==
  ASSUME NEW d, NEW t, Chart(d, t), NEW lines, PlainLines(lines), NEW e \in Nat, e < Len(lines),
         Shared(d, LineCount(d)) = SharedLens(lines)[e], NEW x, x = SharedLens(lines)[e + 1],
         e > 0 => Says(d, LineCount(d), lines[e].meta, lines[e].path)
  PROVE  CanFollow(d, lines[e + 1].meta, lines[e + 1].path, x)
<1>. DEFINE L == LineCount(d)
            y == SharedLens(lines)[e]
            p == lines[e + 1].path
            m == lines[e + 1].meta
            o == lines[e].path
<1>1. /\ Len(lines) \in Nat
      /\ \A j \in 1 .. Len(lines) : lines[j].meta \in Seq(Plain) /\ lines[j].path \in Seq(Plain)
  BY Zenon DEF PlainLines
<1>2. e + 1 \in 1 .. Len(lines) /\ e + 1 \in 0 .. Len(lines) /\ e \in 0 .. Len(lines) /\ (e + 1) - 1 = e
      /\ (e > 0 => e \in 1 .. Len(lines) /\ e + 1 > 1) /\ e + 1 > 0 /\ (~(e > 0) => e + 1 < 2)
  BY <1>1
<1>3. m \in Seq(Plain) /\ p \in Seq(Plain) /\ Len(p) \in Nat
  BY <1>1, <1>2, PlainIsInt
<1>4. y \in Nat /\ y <= MaxI16
  <2>1. y = SharedLens(lines)[e]
    OBVIOUS
  <2>. HIDE DEF y
  <2>. QED  BY <1>2, <2>1, LensBounded
<1>5. /\ x \in Nat /\ x <= MaxI16 /\ x <= Len(p) /\ (e + 1 < 2 => x = 0)
      /\ (e + 1 > 1 => x <= Len(lines[(e + 1) - 1].path) /\ \A i \in 1 .. x : p[i] = lines[(e + 1) - 1].path[i])
  <2>. DEFINE k == e + 1
  <2>1. k \in 0 .. Len(lines) /\ x = SharedLens(lines)[k] /\ k > 0
    BY <1>2
  <2>. HIDE DEF k
  <2>2. /\ x \in Nat /\ x <= MaxI16
        /\ k < 2 => x = 0
        /\ k > 0 => x <= Len(lines[k].path)
        /\ k > 1 => /\ x <= Len(lines[k - 1].path)
                    /\ \A i \in 1 .. x : lines[k].path[i] = lines[k - 1].path[i]
    BY <2>1, LensBounded, ZenonT(60)
  <2>. QED  BY <2>1, <2>2, Zenon DEF k
<1>6. /\ (~(e > 0) => x = 0)
      /\ (e > 0 => x <= Len(o) /\ \A i \in 1 .. x : p[i] = o[i])
  BY <1>2, <1>5
<1>7. L \in 0 .. L
  BY LastOfChart
<1>8. PathAt(d, L) \in Nat /\ EndAt(d, L) \in Nat /\ PathAt(d, L) <= EndAt(d, L)
  BY <1>7, LineNumbers
<1>9. e > 0 => /\ EndAt(d, L) = PathAt(d, L) + Len(o) + 1 /\ Len(o) \in Nat
               /\ \A i \in 1 .. Len(o) : Text(d)[PathAt(d, L) + i] = o[i]
  <2>. SUFFICES ASSUME e > 0
                PROVE  /\ EndAt(d, L) = PathAt(d, L) + Len(o) + 1 /\ Len(o) \in Nat
                       /\ \A i \in 1 .. Len(o) : Text(d)[PathAt(d, L) + i] = o[i]
    OBVIOUS
  <2>1. Says(d, L, lines[e].meta, lines[e].path)
    OBVIOUS
  <2>2. o \in Seq(Plain)
    BY <1>1, <1>2
  <2>3. Len(o) \in Nat
    BY <2>2, PlainIsInt
  <2>. QED  BY <2>1, <2>3, Zenon DEF Says
<1>s. Shared(d, L) = y
  OBVIOUS
<1>. HIDE DEF L, y, p, m, o
<1>10. x \in 0 .. Len(p) /\ -MaxI16 <= x - y /\ x - y <= MaxI16
  <2>1. MaxI16 \in Nat
    BY Bytes
  <2>. QED  BY <2>1, <1>3, <1>4, <1>5, SMTT(60)
<1>11. PathAt(d, L) + x <= EndAt(d, L)
  <2>1. CASE e > 0
    <3>1. EndAt(d, L) = PathAt(d, L) + Len(o) + 1 /\ Len(o) \in Nat /\ x <= Len(o)
      BY <1>6, <1>9, <2>1
    <3>. QED  BY <3>1, <1>5, <1>8
  <2>2. CASE ~(e > 0)
    <3>1. x = 0
      BY <1>6, <2>2
    <3>. QED  BY <3>1, <1>8
  <2>. QED  BY <2>1, <2>2
<1>12. ASSUME NEW i \in 1 .. x PROVE p[i] = Text(d)[PathAt(d, L) + i]
  <2>1. CASE e > 0
    <3>1. i \in 1 .. Len(o)
      BY <1>5, <1>6, <1>9, <2>1
    <3>. QED  BY <3>1, <1>6, <1>9, <2>1
  <2>2. CASE ~(e > 0)
    <3>1. x = 0
      BY <1>6, <2>2
    <3>. QED  BY <3>1
  <2>. QED  BY <2>1, <2>2
<1>13. CanFollow(d, m, p, x)
  BY <1>3, <1>10, <1>11, <1>12, <1>s, Zenon DEF CanFollow, L
<1>. QED  BY <1>13 DEF m, p

\* If the first e lines have a chart, so has one more.
LEMMA OneMoreLine ==
  ASSUME NEW c, NEW s, Chart(c, s), NEW lines, PlainLines(lines), NEW e \in Nat, e < Len(lines), Charted(c, s, lines, e)
  PROVE  Charted(c, s, lines, e + 1)
<1>0. LineCount(c) \in Nat /\ s \in Seq(Int)
  BY Zenon DEF Chart, ChartTyped
<1>1. PICK d : /\ Chart(d, s \o Laid(lines, e))
               /\ Continues(c, d) /\ LineCount(d) = LineCount(c) + e /\ Shared(d, LineCount(d)) = SharedLens(lines)[e]
               /\ \A k \in 1 .. e : Says(d, LineCount(c) + k, lines[k].meta, lines[k].path)
  BY Zenon DEF Charted
<1>. DEFINE x == SharedLens(lines)[e + 1]
            p == lines[e + 1].path
            m == lines[e + 1].meta
            t == s \o Laid(lines, e)
            y == SharedLens(lines)[e]
            b == WriteLine(m, x - Shared(d, LineCount(d)), SubSeq(p, x + 1, Len(p)))
<1>2. e > 0 => Says(d, LineCount(d), lines[e].meta, lines[e].path)
  <2>1. e > 0 => e \in 1 .. e
    OBVIOUS
  <2>. QED  BY <1>1, <2>1
<1>3. CanFollow(d, m, p, x)
  BY <1>1, <1>2, NextFollows
<1>4. PICK f : Chart(f, t \o b) /\ Follows(d, f, m, p, x)
  <2>1. Chart(d, t)
    BY <1>1
  <2>. HIDE DEF m, p, x, t
  <2>. QED  BY <1>3, <2>1, Extend
<1>5. b = LineBytes(lines, e + 1)
  <2>1. (e + 1) - 1 = e
    OBVIOUS
  <2>. QED  BY <1>1, <2>1 DEF LineBytes
<1>. HIDE DEF m, p, x, t, b
<1>6. t \o b = s \o Laid(lines, e + 1)
  <2>1. /\ Laid(lines, e) \in Seq(Int) /\ LineBytes(lines, e + 1) \in Seq(Int)
        /\ Laid(lines, e + 1) = Laid(lines, e) \o LineBytes(lines, e + 1)
    BY LaidPlus
  <2>2. (s \o Laid(lines, e)) \o LineBytes(lines, e + 1) = s \o (Laid(lines, e) \o LineBytes(lines, e + 1))
    <3>. DEFINE a == Laid(lines, e)
                z == LineBytes(lines, e + 1)
    <3>1. s \in Seq(Int) /\ a \in Seq(Int) /\ z \in Seq(Int)
      BY <1>0, <2>1
    <3>. HIDE DEF a, z
    <3>2. (s \o a) \o z = s \o (a \o z)
      BY <3>1, ThreeParts
    <3>. QED  BY <3>2 DEF a, z
  <2>. QED  BY <1>5, <2>1, <2>2 DEF t
<1>7. Continues(d, f)
  <2>1. Chart(d, t)
    BY <1>1 DEF t
  <2>. QED  BY <1>4, <2>1, FollowsContinues
<1>8. Continues(c, f)
  BY <1>1, <1>7, ContinuesOn
<1>9. LineCount(f) = LineCount(d) + 1 /\ Shared(f, LineCount(f)) = x /\ Says(f, LineCount(f), m, p)
  BY <1>4, Zenon DEF Follows
<1>10. LineCount(f) = LineCount(c) + (e + 1)
  BY <1>0, <1>1, <1>9
<1>11. ASSUME NEW k \in 1 .. e + 1 PROVE Says(f, LineCount(c) + k, lines[k].meta, lines[k].path)
  <2>1. CASE k = e + 1
    BY <2>1, <1>9, <1>10 DEF m, p
  <2>2. CASE k # e + 1
    <3>1. k \in 1 .. e /\ LineCount(c) + k \in 1 .. LineCount(d)
      BY <1>0, <1>1, <2>2
    <3>2. Says(d, LineCount(c) + k, lines[k].meta, lines[k].path)
      BY <1>1, <3>1
    <3>3. lines[k].meta \in Seq(Int) /\ lines[k].path \in Seq(Int)
      <4>1. /\ Len(lines) \in Nat
            /\ \A j \in 1 .. Len(lines) : lines[j].meta \in Seq(Plain) /\ lines[j].path \in Seq(Plain)
        BY Zenon DEF PlainLines
      <4>2. k \in 1 .. Len(lines)
        BY <3>1, <4>1
      <4>. QED  BY <4>1, <4>2, PlainIsInt
    <3>. QED  BY <1>1, <1>7, <3>1, <3>2, <3>3, SaysStill
  <2>. QED  BY <2>1, <2>2
<1>12. Chart(f, s \o Laid(lines, e + 1))
  BY <1>4, <1>6
<1>. QED  BY <1>8, <1>9, <1>10, <1>11, <1>12, Zenon DEF Charted, x

\* All lines of a package: by induction over their number, as the least number without a chart would have one.
LEMMA LinesCharted ==
  ASSUME NEW c, NEW s, Chart(c, s), Shared(c, LineCount(c)) = 0, NEW lines, PlainLines(lines)
  PROVE  Charted(c, s, lines, Len(lines))
<1>. DEFINE T == {e \in 0 .. Len(lines) : ~Charted(c, s, lines, e)}
<1>1. Len(lines) \in Nat
  BY Zenon DEF PlainLines
<1>. SUFFICES ASSUME T # {} PROVE FALSE
  BY <1>1
<1>2. PICK e \in T : \A k \in T : e <= k
  <2>1. T \subseteq Nat
    BY <1>1
  <2>. HIDE DEF T
  <2>. QED  BY <2>1, Smallest
<1>3. e # 0
  BY <1>2, NoLineCharted
<1>4. e - 1 \in Nat /\ e - 1 < Len(lines) /\ e - 1 \in 0 .. Len(lines) /\ (e - 1) + 1 = e /\ ~(e <= e - 1)
  BY <1>1, <1>2, <1>3
<1>5. Charted(c, s, lines, e - 1)
  BY <1>2, <1>4
<1>6. Charted(c, s, lines, (e - 1) + 1)
  BY <1>4, <1>5, OneMoreLine
<1>. QED  BY <1>2, <1>4, <1>6

\* The lines of a package with its footer.
EncodedAt(c, d, lines, footer) ==
  /\ Continues(c, d) /\ LineCount(d) = LineCount(c) + Len(lines) + 1 /\ Shared(d, LineCount(d)) = 0
  /\ \A k \in 1 .. Len(lines) : Says(d, LineCount(c) + k, lines[k].meta, lines[k].path)
  /\ Says(d, LineCount(d), footer.meta, footer.path)

(***************************************************************************)
(* Front coding: whatever lines a package has and whatever stands before   *)
(* it, what Encode writes has a chart.  It says each line and the footer,  *)
(* every difference is the one that leads from one shared prefix to the    *)
(* next, and the footer takes the shared length back to nothing.           *)
(***************************************************************************)
THEOREM EncodeCharted ==
  ASSUME NEW c, NEW s, Chart(c, s), Shared(c, LineCount(c)) = 0, NEW lines, PlainLines(lines),
         NEW footer, footer.meta \in Seq(Plain), footer.path \in Seq(Plain)
  PROVE  /\ Encode(lines, footer) \in Seq(Int)
         /\ \E d : Chart(d, s \o Encode(lines, footer)) /\ EncodedAt(c, d, lines, footer)
<1>. DEFINE n == Len(lines)
            y == SharedLens(lines)[n]
            m == footer.meta
            p == footer.path
            b == WriteLine(m, -y, p)
            a == Laid(lines, n)
<1>0. /\ LineCount(c) \in Nat /\ s \in Seq(Int) /\ n \in Nat /\ DOMAIN lines = 1 .. n
      /\ \A k \in 1 .. n : lines[k].meta \in Seq(Plain) /\ lines[k].path \in Seq(Plain)
  BY Zenon DEF Chart, ChartTyped, PlainLines
<1>1. /\ m \in Seq(Plain) /\ p \in Seq(Plain) /\ m \in Seq(Int) /\ p \in Seq(Int) /\ Len(p) \in Nat
  BY PlainIsInt
<1>2. y \in Nat /\ y <= MaxI16 /\ MaxI16 \in Nat
  <2>1. n \in 0 .. n /\ y = SharedLens(lines)[n]
    BY <1>0
  <2>. HIDE DEF y
  <2>2. y \in Nat /\ y <= MaxI16
    BY <2>1, LensBounded
  <2>. QED  BY <2>2, Bytes
<1>3. -y \in Int /\ -MaxI16 <= -y /\ -y <= MaxI16 /\ 0 - y = -y
  BY <1>2
<1>4. Encode(lines, footer) = a \o b
  <2>1. [k \in DOMAIN lines |->
           WriteLine(lines[k].meta, SharedLens(lines)[k] - SharedLens(lines)[k - 1],
                     SubSeq(lines[k].path, SharedLens(lines)[k] + 1, Len(lines[k].path)))]
        = [k \in 1 .. n |-> LineBytes(lines, k)]
    BY <1>0, Zenon DEF LineBytes
  <2>. QED  BY <2>1, Zenon DEF Encode, Laid
<1>5. b \in Seq(Int)
  <2>. HIDE DEF y, m, p
  <2>. QED  BY <1>1, <1>3, LineTyped
<1>6. a \in Seq(Int)
  <2>1. CASE n = 0
    <3>. DEFINE g == [k \in 1 .. n |-> LineBytes(lines, k)]
    <3>1. g = << >> /\ Len(g) = 0 /\ << >> \in Seq(Int)
      BY <2>1
    <3>. HIDE DEF g
    <3>2. FlattenSeq(g) = << >>
      BY <3>1, FlattenNothing
    <3>. QED  BY <3>1, <3>2 DEF Laid, g
  <2>2. CASE n # 0
    <3>1. n - 1 \in Nat /\ n - 1 < Len(lines) /\ (n - 1) + 1 = n
      BY <1>0, <2>2
    <3>2. /\ Laid(lines, n - 1) \in Seq(Int) /\ LineBytes(lines, (n - 1) + 1) \in Seq(Int)
          /\ Laid(lines, (n - 1) + 1) = Laid(lines, n - 1) \o LineBytes(lines, (n - 1) + 1)
      BY <3>1, LaidPlus
    <3>3. Laid(lines, (n - 1) + 1) \in Seq(Int)
      <4>. DEFINE g == Laid(lines, n - 1)
                  h == LineBytes(lines, (n - 1) + 1)
      <4>1. g \in Seq(Int) /\ h \in Seq(Int)
        BY <3>2
      <4>. HIDE DEF g, h
      <4>2. g \o h \in Seq(Int)
        BY <4>1, ConcatProperties
      <4>. QED  BY <3>2, <4>2 DEF g, h
    <3>. QED  BY <3>1, <3>3
  <2>. QED  BY <2>1, <2>2
<1>7. PICK d : /\ Chart(d, s \o a)
               /\ Continues(c, d) /\ LineCount(d) = LineCount(c) + n /\ Shared(d, LineCount(d)) = y
               /\ \A k \in 1 .. n : Says(d, LineCount(c) + k, lines[k].meta, lines[k].path)
  <2>1. Charted(c, s, lines, n)
    BY LinesCharted
  <2>. QED  BY <2>1, Zenon DEF Charted
<1>8. CanFollow(d, m, p, 0)
  <2>. DEFINE L == LineCount(d)
  <2>1. L \in 0 .. L
    BY <1>7, LastOfChart
  <2>2. PathAt(d, L) \in Nat /\ EndAt(d, L) \in Nat /\ PathAt(d, L) <= EndAt(d, L)
    BY <1>7, <2>1, LineNumbers
  <2>3. Shared(d, L) = y
    BY <1>7
  <2>. HIDE DEF L, y, m, p
  <2>4. 0 \in 0 .. Len(p) /\ -MaxI16 <= 0 - y /\ 0 - y <= MaxI16 /\ PathAt(d, L) + 0 <= EndAt(d, L) /\ \A i : ~(i \in 1 .. 0)
    BY <1>1, <1>2, <2>2
  <2>. QED  BY <1>1, <2>3, <2>4, Zenon DEF CanFollow, L
<1>9. PICK f : Chart(f, (s \o a) \o b) /\ Follows(d, f, m, p, 0)
  <2>1. WriteLine(m, 0 - Shared(d, LineCount(d)), SubSeq(p, 0 + 1, Len(p))) = b
    <3>1. SubSeq(p, 0 + 1, Len(p)) = p
      <4>1. SubSeq(p, 1, Len(p)) = p
        BY <1>1, SubSeqFull
      <4>. QED  BY <4>1
    <3>. HIDE DEF y, m, p
    <3>2. 0 - Shared(d, LineCount(d)) = -y
      BY <1>3, <1>7
    <3>. QED  BY <3>1, <3>2, Zenon
  <2>2. Chart(d, s \o a)
    BY <1>7
  <2>. HIDE DEF m, p, a, b
  <2>3. \E f : /\ Chart(f, (s \o a) \o WriteLine(m, 0 - Shared(d, LineCount(d)), SubSeq(p, 0 + 1, Len(p))))
               /\ Follows(d, f, m, p, 0)
    BY <1>8, <2>2, Extend
  <2>. QED  BY <2>1, <2>3
<1>. HIDE DEF y, m, p, a, b, n
<1>10. (s \o a) \o b = s \o (a \o b) /\ a \o b \in Seq(Int)
  <2>1. s \in Seq(Int) /\ a \in Seq(Int) /\ b \in Seq(Int)
    BY <1>0, <1>5, <1>6
  <2>2. (s \o a) \o b = s \o (a \o b)
    BY <2>1, ThreeParts
  <2>3. a \o b \in Seq(Int)
    BY <2>1, ConcatProperties
  <2>. QED  BY <2>2, <2>3
<1>11. Continues(d, f)
  BY <1>7, <1>9, FollowsContinues
<1>12. Continues(c, f)
  BY <1>7, <1>11, ContinuesOn
<1>13. LineCount(f) = LineCount(d) + 1 /\ Shared(f, LineCount(f)) = 0 /\ Says(f, LineCount(f), m, p)
  BY <1>9, Zenon DEF Follows
<1>14. LineCount(f) = LineCount(c) + n + 1
  BY <1>0, <1>7, <1>13
<1>15. ASSUME NEW k \in 1 .. n PROVE Says(f, LineCount(c) + k, lines[k].meta, lines[k].path)
  <2>1. LineCount(c) + k \in 1 .. LineCount(d)
    BY <1>0, <1>7
  <2>2. Says(d, LineCount(c) + k, lines[k].meta, lines[k].path)
    BY <1>7
  <2>3. lines[k].meta \in Seq(Int) /\ lines[k].path \in Seq(Int)
    BY <1>0, PlainIsInt
  <2>. QED  BY <1>7, <1>11, <2>1, <2>2, <2>3, SaysStill
<1>16. EncodedAt(c, f, lines, footer)
  BY <1>12, <1>13, <1>14, <1>15, Zenon DEF EncodedAt, m, p, n
<1>. QED  BY <1>4, <1>9, <1>10, <1>16

----------------------------------------------------------------------------
(***************************************************************************)
(* The charts of the frames.                                               *)
(***************************************************************************)

(***************************************************************************)
(* A package as the writer puts it in: with entries, whose metadata and    *)
(* paths have no separators.                                               *)
(***************************************************************************)
PlainPackage(package) ==
  /\ Len(package.entries) \in Nat \ {0} /\ DOMAIN package.entries = 1 .. Len(package.entries)
  /\ \A e \in 1 .. Len(package.entries) :
       EncodeMeta(package.entries[e].node) \in Seq(Plain) /\ package.entries[e].path \in Seq(Plain)
  /\ package.store_path.json \in Seq(Plain)

PlainPackages(packages) ==
  /\ Len(packages) \in Nat /\ DOMAIN packages = 1 .. Len(packages)
  /\ \A i \in 1 .. Len(packages) : PlainPackage(packages[i])

PackageAt(c, d, package) ==
  /\ Continues(c, d) /\ LineCount(d) = LineCount(c) + Len(package.entries) + 1 /\ Shared(d, LineCount(d)) = 0
  /\ \A e \in 1 .. Len(package.entries) :
       Says(d, LineCount(c) + e, EncodeMeta(package.entries[e].node), package.entries[e].path)
  /\ Says(d, LineCount(d), <<P>>, package.store_path.json)

\* The metadata of a footer is no separator.
LEMMA FooterPlain == <<P>> \in Seq(Plain)
<1>1. P \in {P, Slash} \cup {Digit(n) : n \in 0 .. 9} \cup Range(Tag)
  OBVIOUS
<1>2. P \notin Separators
  BY <1>1, InputsAssumption
<1>3. P \in Plain
  BY <1>2 DEF Plain, Separators, P
<1>. QED  BY <1>3

\* What the writer encodes for a package has a chart.
LEMMA PackageCharted ==
  ASSUME NEW c, NEW s, Chart(c, s), Shared(c, LineCount(c)) = 0, NEW package, PlainPackage(package)
  PROVE  /\ Encoded(package) \in Seq(Int)
         /\ \E d : Chart(d, s \o Encoded(package)) /\ PackageAt(c, d, package)
<1>. DEFINE lines == [i \in DOMAIN package.entries |-> Line(package.entries[i])]
            footer == [meta |-> <<P>>, path |-> package.store_path.json]
            n == Len(package.entries)
<1>1. /\ n \in Nat \ {0} /\ DOMAIN package.entries = 1 .. n
      /\ \A e \in 1 .. n :
           EncodeMeta(package.entries[e].node) \in Seq(Plain) /\ package.entries[e].path \in Seq(Plain)
      /\ package.store_path.json \in Seq(Plain)
  BY Zenon DEF PlainPackage
<1>2. DOMAIN lines = 1 .. n /\ lines = [i \in 1 .. n |-> Line(package.entries[i])]
  BY <1>1
<1>3. Len(lines) = n
  <2>1. lines \in Seq({Line(package.entries[i]) : i \in 1 .. n})
    BY <1>1, <1>2
  <2>. HIDE DEF lines
  <2>. QED  BY <1>1, <1>2, <2>1
<1>4. ASSUME NEW e \in 1 .. n
      PROVE  lines[e].meta = EncodeMeta(package.entries[e].node) /\ lines[e].path = package.entries[e].path
  BY <1>2 DEF Line
<1>5. footer.meta = <<P>> /\ footer.path = package.store_path.json
  OBVIOUS
<1>6. Encoded(package) = Encode(lines, footer)
  BY DEF Encoded
<1>. HIDE DEF lines, footer
<1>7. PlainLines(lines)
  BY <1>1, <1>2, <1>3, <1>4, ZenonT(60) DEF PlainLines
<1>8. footer.meta \in Seq(Plain) /\ footer.path \in Seq(Plain)
  BY <1>1, <1>5, FooterPlain
<1>9. /\ Encode(lines, footer) \in Seq(Int)
      /\ \E d : Chart(d, s \o Encode(lines, footer)) /\ EncodedAt(c, d, lines, footer)
  BY <1>7, <1>8, EncodeCharted
<1>10. PICK d : Chart(d, s \o Encode(lines, footer)) /\ EncodedAt(c, d, lines, footer)
  BY <1>9
<1>11. PackageAt(c, d, package)
  <2>1. /\ Continues(c, d) /\ LineCount(d) = LineCount(c) + Len(lines) + 1 /\ Shared(d, LineCount(d)) = 0
        /\ \A k \in 1 .. Len(lines) : Says(d, LineCount(c) + k, lines[k].meta, lines[k].path)
        /\ Says(d, LineCount(d), footer.meta, footer.path)
    BY <1>10, Zenon DEF EncodedAt
  <2>2. ASSUME NEW e \in 1 .. n
        PROVE  Says(d, LineCount(c) + e, EncodeMeta(package.entries[e].node), package.entries[e].path)
    <3>1. e \in 1 .. Len(lines)
      BY <1>3
    <3>. QED  BY <2>1, <3>1, <1>4
  <2>3. Says(d, LineCount(d), <<P>>, package.store_path.json)
    BY <2>1, <1>5, Zenon
  <2>4. LineCount(d) = LineCount(c) + n + 1
    BY <2>1, <1>3, Zenon
  <2>. QED  BY <2>1, <2>2, <2>3, <2>4, Zenon DEF PackageAt
<1>. QED  BY <1>6, <1>9, <1>10, <1>11

----------------------------------------------------------------------------
(***************************************************************************)
(* The bytes of frame k of the first m packages.                           *)
(***************************************************************************)
Part(packages, v, k, i) == IF FrameNumber(v, i) = k - 1 THEN Encoded(packages[i]) ELSE << >>
FramedTo(packages, v, k, m) == FlattenSeq([i \in 1 .. m |-> Part(packages, v, k, i)])

\* What a package adds to a frame is a sequence of bytes.
LEMMA PartTyped ==
  ASSUME NEW packages, PlainPackages(packages), NEW v, NEW k, NEW i \in 1 .. Len(packages)
  PROVE  Part(packages, v, k, i) \in Seq(Int)
<1>1. PlainPackage(packages[i])
  BY Zenon DEF PlainPackages
<1>2. Encoded(packages[i]) \in Seq(Int)
  <2>1. Chart(EmptyChart, << >>) /\ Shared(EmptyChart, LineCount(EmptyChart)) = 0
    BY NothingCharted
  <2>. QED  BY <1>1, <2>1, PackageCharted
<1>3. << >> \in Seq(Int)
  OBVIOUS
<1>. QED  BY <1>2, <1>3 DEF Part

\* One package more.
LEMMA FramedPlus ==
  ASSUME NEW packages, PlainPackages(packages), NEW v, NEW k, NEW m \in Nat, m < Len(packages)
  PROVE  /\ FramedTo(packages, v, k, m) \in Seq(Int)
         /\ FramedTo(packages, v, k, m + 1) = FramedTo(packages, v, k, m) \o Part(packages, v, k, m + 1)
<1>. DEFINE g == [i \in 1 .. m + 1 |-> Part(packages, v, k, i)]
            f == [i \in 1 .. m |-> Part(packages, v, k, i)]
<1>1. Len(packages) \in Nat
  BY Zenon DEF PlainPackages
<1>2. ASSUME NEW i \in 1 .. m + 1 PROVE Part(packages, v, k, i) \in Seq(Int)
  <2>1. i \in 1 .. Len(packages)
    BY <1>1
  <2>. QED  BY <2>1, PartTyped
<1>3. g \in [1 .. m + 1 -> Seq(Int)]
  BY <1>2
<1>4. m + 1 \in 1 .. m + 1 /\ \A i \in 1 .. m : i \in 1 .. m + 1
  OBVIOUS
<1>5. f = [i \in 1 .. m |-> g[i]] /\ g[m + 1] = Part(packages, v, k, m + 1)
  BY <1>4
<1>6. f \in [1 .. m -> Seq(Int)]
  BY <1>2, <1>4
<1>. HIDE DEF f, g
<1>7. FlattenSeq(g) = FlattenSeq([i \in 1 .. m |-> g[i]]) \o g[m + 1]
  BY <1>3, FlattenStep
<1>8. FlattenSeq(f) \in Seq(Int)
  BY <1>6, FlattenType
<1>9. FramedTo(packages, v, k, m) = FlattenSeq(f) /\ FramedTo(packages, v, k, m + 1) = FlattenSeq(g)
  BY DEF FramedTo, f, g
<1>. QED  BY <1>5, <1>7, <1>8, <1>9

\* One more package: d goes on where c ends, if it is in the frame, and is c if it is not.
Adds(c, s, d, u, w, v, k, packages, m) ==
  /\ Chart(c, s) /\ PlainPackages(packages) /\ m \in Nat /\ m < Len(packages)
  /\ FrameLines(c, u, v, k, packages, m) /\ Continues(c, d) /\ Shared(d, LineCount(d)) = 0
  /\ FrameNumber(v, m + 1) = k - 1 => PackageAt(c, d, packages[m + 1])
  /\ FrameNumber(v, m + 1) # k - 1 => d = c
  /\ w = [i \in 0 .. m + 1 |-> IF i <= m THEN Upto(u, i) ELSE LineCount(d)]

\* The lines of a package stay what they are in a longer chart.
LEMMA StillPackage ==
  ASSUME NEW c, NEW s, Chart(c, s), NEW d, Continues(c, d), NEW package, PlainPackage(package),
         NEW u, NEW w, NEW i, Upto(u, i) \in Nat, Upto(u, i - 1) \in Nat, Upto(u, i) <= LineCount(c),
         Upto(w, i) = Upto(u, i), Upto(w, i - 1) = Upto(u, i - 1), PackageLines(c, u, i, package)
  PROVE  PackageLines(d, w, i, package)
<1>. DEFINE a == Upto(u, i - 1)
            b == Upto(u, i)
            n == Len(package.entries)
<1>1. /\ n \in Nat \ {0}
      /\ \A e \in 1 .. n :
           EncodeMeta(package.entries[e].node) \in Seq(Plain) /\ package.entries[e].path \in Seq(Plain)
      /\ package.store_path.json \in Seq(Plain)
  BY Zenon DEF PlainPackage
<1>2. /\ b = a + n + 1
      /\ \A e \in 1 .. n : Says(c, a + e, EncodeMeta(package.entries[e].node), package.entries[e].path)
      /\ Says(c, b, <<P>>, package.store_path.json)
  BY Zenon DEF PackageLines
<1>3. a \in Nat /\ b \in Nat /\ b <= LineCount(c) /\ LineCount(c) \in Nat
  <2>1. LineCount(c) \in Nat
    BY Zenon DEF Continues
  <2>. QED  BY <2>1
<1>. DEFINE N == LineCount(c)
<1>w. Upto(w, i) = b /\ Upto(w, i - 1) = a
  OBVIOUS
<1>. HIDE DEF a, b, n, N
<1>4. b = a + n + 1 /\ a \in Nat /\ b \in Nat /\ b <= N /\ N \in Nat /\ n \in Nat
  BY <1>1, <1>2, <1>3 DEF N
<1>5. ASSUME NEW e \in 1 .. n PROVE Says(d, a + e, EncodeMeta(package.entries[e].node), package.entries[e].path)
  <2>1. a + e \in 1 .. LineCount(c)
    <3>1. a + e \in 1 .. N
      BY <1>4
    <3>. QED  BY <3>1 DEF N
  <2>2. EncodeMeta(package.entries[e].node) \in Seq(Int) /\ package.entries[e].path \in Seq(Int)
    BY <1>1, PlainIsInt
  <2>3. Says(c, a + e, EncodeMeta(package.entries[e].node), package.entries[e].path)
    BY <1>2
  <2>. QED  BY <2>1, <2>2, <2>3, SaysStill
<1>6. Says(d, b, <<P>>, package.store_path.json)
  <2>1. b \in 1 .. LineCount(c)
    <3>1. b \in 1 .. N
      BY <1>4
    <3>. QED  BY <3>1 DEF N
  <2>2. package.store_path.json \in Seq(Int)
    BY <1>1, PlainIsInt
  <2>3. <<P>> \in Seq(Int)
    BY FooterPlain, PlainIsInt
  <2>. DEFINE f == <<P>>
  <2>. HIDE DEF f
  <2>4. f \in Seq(Int) /\ Says(c, b, f, package.store_path.json)
    BY <2>3, <1>2 DEF f
  <2>5. Says(d, b, f, package.store_path.json)
    BY <2>1, <2>2, <2>4, SaysStill
  <2>. QED  BY <2>5 DEF f
<1>. QED  BY <1>w, <1>4, <1>5, <1>6, Zenon DEF PackageLines, n

\* The lines of every package up to the next, in the chart that goes on.
LEMMA AddsLines ==
  ASSUME NEW c, NEW s, NEW d, NEW u, NEW w, NEW v, NEW k, NEW packages, NEW m,
         Adds(c, s, d, u, w, v, k, packages, m)
  PROVE  FrameLines(d, w, v, k, packages, m + 1)
<1>. DEFINE N == LineCount(c)
            M == LineCount(d)
            In(i) == FrameNumber(v, i) = k - 1
<1>1. /\ Chart(c, s) /\ PlainPackages(packages) /\ m \in Nat /\ m < Len(packages)
      /\ FrameLines(c, u, v, k, packages, m) /\ Continues(c, d) /\ Shared(d, M) = 0
      /\ In(m + 1) => PackageAt(c, d, packages[m + 1])
      /\ ~In(m + 1) => d = c
      /\ w = [i \in 0 .. m + 1 |-> IF i <= m THEN Upto(u, i) ELSE M]
  BY Zenon DEF Adds
<1>2. /\ Upto(u, 0) = 0 /\ Upto(u, m) = N
      /\ \A i \in 0 .. m : Upto(u, i) \in 0 .. N
      /\ \A i, l \in 0 .. m : i <= l => Upto(u, i) <= Upto(u, l)
      /\ \A i \in 0 .. m :
           /\ (\A l \in 1 .. i : ~In(l)) => Upto(u, i) = 0
           /\ (\A l \in i + 1 .. m : ~In(l)) => Upto(u, i) = Upto(u, m)
      /\ \A i \in 1 .. m : IF In(i) THEN PackageLines(c, u, i, packages[i]) ELSE Upto(u, i) = Upto(u, i - 1)
  BY <1>1, Zenon DEF FrameLines
<1>3. N \in Nat /\ M \in Nat /\ N <= M /\ m \in Nat
  BY <1>1, Zenon DEF Continues
<1>4. ASSUME NEW i \in 0 .. m PROVE Upto(w, i) = Upto(u, i)
  BY <1>1, <1>3, <1>4 DEF Upto
<1>5. Upto(w, m + 1) = M
  <2>1. m + 1 \in 0 .. m + 1 /\ ~(m + 1 <= m)
    BY <1>3
  <2>. QED  BY <1>1, <2>1 DEF Upto
<1>m. ~In(m + 1) => M = N
  BY <1>1
<1>d. Shared(d, M) = 0
  BY <1>1
<1>6. \A i \in 0 .. m + 1 : i \in 0 .. m \/ i = m + 1
  BY <1>3
<1>7. 0 \in 0 .. m /\ m \in 0 .. m /\ m + 1 \in 1 .. m + 1
  BY <1>3
<1>8. ASSUME NEW i \in 0 .. m + 1 PROVE Upto(w, i) \in 0 .. M
  <2>1. CASE i \in 0 .. m
    <3>1. Upto(w, i) \in 0 .. N
      BY <2>1, <1>2, <1>4
    <3>. QED  BY <3>1, <1>3
  <2>2. CASE i = m + 1
    <3>1. Upto(w, i) = M
      BY <1>5, <2>2
    <3>. QED  BY <3>1, <1>3
  <2>. QED  BY <2>1, <2>2, <1>6
<1>9. ASSUME NEW i \in 0 .. m + 1, NEW l \in 0 .. m + 1, i <= l PROVE Upto(w, i) <= Upto(w, l)
  <2>1. CASE l \in 0 .. m
    <3>1. i \in 0 .. m
      BY <1>3, <1>9, <2>1
    <3>. QED  BY <3>1, <2>1, <1>2, <1>4, <1>9
  <2>2. CASE l = m + 1
    <3>1. Upto(w, l) = M /\ Upto(w, i) \in 0 .. M
      BY <2>2, <1>5, <1>8
    <3>. QED  BY <3>1, <1>3
  <2>. QED  BY <2>1, <2>2, <1>6
<1>10. ASSUME NEW i \in 0 .. m + 1, \A l \in 1 .. i : ~In(l) PROVE Upto(w, i) = 0
  <2>1. CASE i \in 0 .. m
    BY <2>1, <1>2, <1>4, <1>10, Zenon
  <2>2. CASE i = m + 1
    <3>1. ~In(m + 1)
      BY <2>2, <1>7, <1>10
    <3>2. \A l \in 1 .. m : ~In(l)
      <4>1. \A l \in 1 .. m : l \in 1 .. m + 1
        BY <1>3
      <4>. QED  BY <4>1, <2>2, <1>10
    <3>3. Upto(u, m) = 0
      BY <3>2, <1>2, <1>7, Zenon
    <3>. QED  BY <3>1, <3>3, <2>2, <1>5, <1>m, <1>2
  <2>. QED  BY <2>1, <2>2, <1>6
<1>11. ASSUME NEW i \in 0 .. m + 1, \A l \in i + 1 .. m + 1 : ~In(l) PROVE Upto(w, i) = Upto(w, m + 1)
  <2>1. CASE i \in 0 .. m
    <3>1. m + 1 \in i + 1 .. m + 1 /\ \A l \in i + 1 .. m : l \in i + 1 .. m + 1
      BY <2>1, <1>3
    <3>2. ~In(m + 1) /\ \A l \in i + 1 .. m : ~In(l)
      BY <3>1, <1>11
    <3>3. Upto(u, i) = Upto(u, m)
      BY <3>2, <2>1, <1>2, Zenon
    <3>. QED  BY <3>2, <3>3, <2>1, <1>2, <1>4, <1>5, <1>m
  <2>2. CASE i = m + 1
    BY <2>2
  <2>. QED  BY <2>1, <2>2, <1>6
<1>12. ASSUME NEW i \in 1 .. m + 1
       PROVE  IF In(i) THEN PackageLines(d, w, i, packages[i]) ELSE Upto(w, i) = Upto(w, i - 1)
  <2>1. CASE i \in 1 .. m
    <3>1. i \in 0 .. m /\ i - 1 \in 0 .. m /\ i \in 1 .. Len(packages)
      <4>1. Len(packages) \in Nat /\ m < Len(packages)
        BY <1>1, Zenon DEF PlainPackages
      <4>. QED  BY <4>1, <2>1, <1>3
    <3>2. Upto(w, i) = Upto(u, i) /\ Upto(w, i - 1) = Upto(u, i - 1)
      BY <3>1, <1>4
    <3>3. CASE In(i)
      <4>1. PackageLines(c, u, i, packages[i])
        BY <1>2, <2>1, <3>3
      <4>2. PlainPackage(packages[i])
        BY <1>1, <3>1, Zenon DEF PlainPackages
      <4>3. Upto(u, i) \in 0 .. N /\ Upto(u, i - 1) \in 0 .. N
        BY <1>2, <3>1
      <4>4. Upto(u, i) \in Nat /\ Upto(u, i - 1) \in Nat /\ Upto(u, i) <= N
        BY <1>3, <4>3
      <4>5. PackageLines(d, w, i, packages[i])
        <5>1. Chart(c, s) /\ Continues(c, d) /\ Upto(u, i) <= LineCount(c)
          BY <1>1, <4>4
        <5>. HIDE DEF N, M, In
        <5>. QED  BY <5>1, <4>1, <4>2, <4>4, <3>2, StillPackage
      <4>. QED  BY <4>5, <3>3
    <3>4. CASE ~In(i)
      BY <3>4, <1>2, <2>1, <3>2
    <3>. QED  BY <3>3, <3>4
  <2>2. CASE i = m + 1
    <3>1. Upto(w, i) = M /\ Upto(w, i - 1) = N
      <4>1. i - 1 = m
        BY <2>2, <1>3
      <4>. QED  BY <4>1, <2>2, <1>2, <1>4, <1>5, <1>7
    <3>2. CASE In(i)
      <4>1. PackageAt(c, d, packages[i])
        BY <1>1, <2>2, <3>2
      <4>2. PackageLines(d, w, i, packages[i])
        BY <4>1, <3>1, Zenon DEF PackageAt, PackageLines
      <4>. QED  BY <4>2, <3>2
    <3>3. CASE ~In(i)
      BY <3>1, <3>3, <2>2, <1>m
    <3>. QED  BY <3>2, <3>3
  <2>3. i \in 1 .. m \/ i = m + 1
    BY <1>3
  <2>. QED  BY <2>1, <2>2, <2>3
<1>13. Upto(w, 0) = 0
  BY <1>2, <1>4, <1>7
<1>. QED  BY <1>5, <1>d, <1>8, <1>9, <1>10, <1>11, <1>12, <1>13, Zenon DEF FrameLines

FrameCharted(packages, v, k, m) ==
  \E c, u : Chart(c, FramedTo(packages, v, k, m)) /\ FrameLines(c, u, v, k, packages, m)

\* No package.
LEMMA NoFrameCharted ==
  ASSUME NEW packages, NEW v, NEW k
  PROVE  FrameCharted(packages, v, k, 0)
<1>. DEFINE u == [i \in 0 .. 0 |-> 0]
            c == EmptyChart
            s == FramedTo(packages, v, k, 0)
<1>1. s = << >>
  <2>. DEFINE f == [i \in 1 .. 0 |-> Part(packages, v, k, i)]
  <2>1. f = << >> /\ Len(f) = 0
    OBVIOUS
  <2>. HIDE DEF f
  <2>2. FlattenSeq(f) = << >>
    BY <2>1, FlattenNothing
  <2>. QED  BY <2>2 DEF FramedTo, f
<1>2. Chart(c, s) /\ LineCount(c) = 0 /\ Shared(c, 0) = 0
  BY <1>1, NothingCharted
<1>3. Upto(u, 0) = 0 /\ \A i \in 0 .. 0 : i = 0
  BY DEF Upto
<1>4. \A i \in 1 .. 0 : FALSE
  OBVIOUS
<1>. HIDE DEF c, s, u
<1>5. FrameLines(c, u, v, k, packages, 0)
  <2>1. Upto(u, 0) = 0 /\ Upto(u, 0) = LineCount(c) /\ Shared(c, LineCount(c)) = 0
    BY <1>2, <1>3
  <2>2. \A i \in 0 .. 0 : Upto(u, i) \in 0 .. LineCount(c)
    BY <1>2, <1>3
  <2>3. \A i, l \in 0 .. 0 : i <= l => Upto(u, i) <= Upto(u, l)
    BY <1>3
  <2>4. \A i \in 0 .. 0 : /\ (\A l \in 1 .. i : FrameNumber(v, l) # k - 1) => Upto(u, i) = 0
                          /\ (\A l \in i + 1 .. 0 : FrameNumber(v, l) # k - 1) => Upto(u, i) = Upto(u, 0)
    BY <1>3
  <2>. QED  BY <2>1, <2>2, <2>3, <2>4, <1>4, Zenon DEF FrameLines
<1>. QED  BY <1>2, <1>5, Zenon DEF FrameCharted, s

\* If the first m packages of the frame have a chart, so has one more.
LEMMA OneMorePackage ==
  ASSUME NEW packages, PlainPackages(packages), NEW v, NEW k, NEW m \in Nat, m < Len(packages),
         FrameCharted(packages, v, k, m)
  PROVE  FrameCharted(packages, v, k, m + 1)
<1>1. PICK c, u : Chart(c, FramedTo(packages, v, k, m)) /\ FrameLines(c, u, v, k, packages, m)
  BY Zenon DEF FrameCharted
<1>. DEFINE s == FramedTo(packages, v, k, m)
            t == FramedTo(packages, v, k, m + 1)
            In == FrameNumber(v, m + 1) = k - 1
<1>2. s \in Seq(Int) /\ t = s \o Part(packages, v, k, m + 1)
  BY FramedPlus
<1>3. Chart(c, s) /\ FrameLines(c, u, v, k, packages, m) /\ Shared(c, LineCount(c)) = 0
  <2>1. Shared(c, LineCount(c)) = 0
    BY <1>1, Zenon DEF FrameLines
  <2>. QED  BY <1>1, <2>1
<1>4. m + 1 \in 1 .. Len(packages)
  <2>1. Len(packages) \in Nat
    BY Zenon DEF PlainPackages
  <2>. QED  BY <2>1
<1>5. PlainPackage(packages[m + 1])
  BY <1>4, Zenon DEF PlainPackages
<1>. HIDE DEF s, t
<1>6. \E d : Chart(d, t) /\ Continues(c, d) /\ Shared(d, LineCount(d)) = 0
             /\ (In => PackageAt(c, d, packages[m + 1])) /\ (~In => d = c)
  <2>1. CASE In
    <3>1. Part(packages, v, k, m + 1) = Encoded(packages[m + 1])
      BY <2>1, Zenon DEF Part
    <3>2. PICK d : Chart(d, s \o Encoded(packages[m + 1])) /\ PackageAt(c, d, packages[m + 1])
      BY <1>3, <1>5, PackageCharted
    <3>3. Chart(d, t)
      BY <3>1, <3>2, <1>2, Zenon
    <3>4. Continues(c, d) /\ Shared(d, LineCount(d)) = 0
      BY <3>2, Zenon DEF PackageAt
    <3>. QED  BY <2>1, <3>2, <3>3, <3>4, Zenon
  <2>2. CASE ~In
    <3>1. Part(packages, v, k, m + 1) = << >>
      BY <2>2, Zenon DEF Part
    <3>2. t = s
      BY <3>1, <1>2
    <3>3. Continues(c, c)
      BY <1>3, ContinuesItself
    <3>. QED  BY <2>2, <3>2, <3>3, <1>3, Zenon
  <2>. QED  BY <2>1, <2>2
<1>7. PICK d : Chart(d, t) /\ Continues(c, d) /\ Shared(d, LineCount(d)) = 0
               /\ (In => PackageAt(c, d, packages[m + 1])) /\ (~In => d = c)
  BY <1>6, Zenon
<1>. DEFINE w == [i \in 0 .. m + 1 |-> IF i <= m THEN Upto(u, i) ELSE LineCount(d)]
<1>8. w = [i \in 0 .. m + 1 |-> IF i <= m THEN Upto(u, i) ELSE LineCount(d)]
  OBVIOUS
<1>. HIDE DEF w
<1>9. Adds(c, s, d, u, w, v, k, packages, m)
  BY <1>3, <1>7, <1>8, Zenon DEF Adds
<1>10. FrameLines(d, w, v, k, packages, m + 1)
  BY <1>9, AddsLines
<1>. QED  BY <1>7, <1>10, Zenon DEF FrameCharted, t

\* Every number of packages.
LEMMA FramesCharted ==
  ASSUME NEW packages, PlainPackages(packages), NEW v, NEW k, NEW n \in 0 .. Len(packages)
  PROVE  FrameCharted(packages, v, k, n)
<1>. DEFINE T == {m \in 0 .. n : ~FrameCharted(packages, v, k, m)}
<1>1. Len(packages) \in Nat
  BY Zenon DEF PlainPackages
<1>2. T \subseteq Nat /\ n \in Nat /\ n <= Len(packages)
  BY <1>1
<1>3. CASE T # {}
  <2>1. PICK m \in T : \A e \in T : m <= e
    <3>. HIDE DEF T
    <3>. QED  BY <1>2, <1>3, Smallest
  <2>2. m \in 0 .. n /\ ~FrameCharted(packages, v, k, m) /\ n \in Nat
    BY <2>1, <1>2
  <2>3. m # 0
    BY <2>2, NoFrameCharted
  <2>4. m - 1 \in Nat /\ m - 1 \in 0 .. n /\ ~(m <= m - 1) /\ (m - 1) + 1 = m /\ m - 1 < Len(packages)
    BY <2>2, <2>3, <1>1, <1>2
  <2>5. FrameCharted(packages, v, k, m - 1)
    BY <2>1, <2>4
  <2>6. FrameCharted(packages, v, k, (m - 1) + 1)
    <3>. DEFINE l == m - 1
    <3>1. l \in Nat /\ l < Len(packages) /\ FrameCharted(packages, v, k, l)
      BY <2>4, <2>5
    <3>. HIDE DEF l
    <3>2. FrameCharted(packages, v, k, l + 1)
      BY <3>1, OneMorePackage
    <3>. QED  BY <3>2 DEF l
  <2>. QED  BY <2>2, <2>4, <2>6
<1>4. CASE T = {}
  <2>1. n \in 0 .. n
    BY <1>2
  <2>. QED  BY <1>4, <2>1
<1>. QED  BY <1>3, <1>4

\* Each frame of `files` is that of all packages, and has a chart.
LEMMA FramedCharted ==
  ASSUME NEW packages, PlainPackages(packages), NEW v, NEW k \in DOMAIN Framed(v, packages)
  PROVE  FrameCharted(packages, v, k, Len(packages)) /\ Framed(v, packages)[k] = FramedTo(packages, v, k, Len(packages))
<1>1. Len(packages) \in Nat /\ DOMAIN packages = 1 .. Len(packages)
  BY Zenon DEF PlainPackages
<1>2. Len(packages) \in 0 .. Len(packages)
  BY <1>1
<1>3. FrameCharted(packages, v, k, Len(packages))
  BY <1>2, FramesCharted
<1>. DEFINE numbers == {FrameNumber(v, i) : i \in DOMAIN packages}
            N == Cardinality(numbers)
            Bytes2(j) == FlattenSeq([i \in DOMAIN packages |->
                           IF FrameNumber(v, i) = j - 1 THEN Encoded(packages[i]) ELSE << >>])
<1>4. Framed(v, packages) = [j \in 1 .. N |-> Bytes2(j)]
  BY DEF Framed
<1>5. Bytes2(k) = FramedTo(packages, v, k, Len(packages))
  BY <1>1 DEF FramedTo, Part
<1>6. k \in 1 .. N
  <2>. HIDE DEF N
  <2>1. DOMAIN [j \in 1 .. N |-> Bytes2(j)] = 1 .. N
    OBVIOUS
  <2>. QED  BY <2>1, <1>4
<1>7. Framed(v, packages)[k] = Bytes2(k)
  <2>. HIDE DEF N, Bytes2
  <2>. QED  BY <1>4, <1>6
<1>. QED  BY <1>3, <1>5, <1>7

\* A frame holds a package.
LEMMA PackagesInAFrame == PerFrame \in Nat \ {0}
BY InputsAssumption, Zenon

\* Frame numbers start with 0, do not fall, and leave none out.
LEMMA FrameNumbers ==
  ASSUME NEW v, NEW i \in Nat \ {0}
  PROVE  /\ FrameNumber(v, i) \in 0 .. i - 1
         /\ \A j \in 1 .. i : FrameNumber(v, j) <= FrameNumber(v, i)
         /\ \A f \in 0 .. FrameNumber(v, i) : \E j \in 1 .. i : FrameNumber(v, j) = f
<1>0. PerFrame \in Nat \ {0}
  BY PackagesInAFrame
<1>1. CASE v = 1
  <2>1. \A j : FrameNumber(v, j) = 0
    BY <1>1 DEF FrameNumber
  <2>2. i \in 1 .. i
    OBVIOUS
  <2>. QED  BY <2>1, <2>2
<1>2. CASE v # 1
  <2>1. \A j : FrameNumber(v, j) = (j - 1) \div PerFrame
    BY <1>2 DEF FrameNumber
  <2>. DEFINE q == (i - 1) \div PerFrame
              r == (i - 1) % PerFrame
              p == PerFrame
  <2>2. q \in Int /\ r \in 0 .. p - 1 /\ i - 1 = p * q + r
    <3>1. i - 1 \in Int
      OBVIOUS
    <3>. QED  BY <1>0, <3>1, Divides
  <2>. HIDE DEF q, r
  <2>3. p \in Nat /\ p >= 1 /\ FrameNumber(v, i) = q
    BY <1>0, <2>1 DEF q
  <2>. HIDE DEF p
  <2>4. q >= 0
    <3>1. CASE q <= -1
      <4>1. p * q <= p * (-1)
        BY <2>2, <2>3, <3>1
      <4>. QED  BY <4>1, <2>2, <2>3
    <3>. QED  BY <3>1, <2>2
  <2>5. q <= p * q
    BY <2>2, <2>3, <2>4
  <2>6. q \in 0 .. i - 1
    BY <2>2, <2>3, <2>4, <2>5
  <2>7. ASSUME NEW j \in 1 .. i PROVE FrameNumber(v, j) <= q
    <3>. DEFINE x == (j - 1) \div PerFrame
                y == (j - 1) % PerFrame
    <3>1. x \in Int /\ y \in 0 .. p - 1 /\ j - 1 = p * x + y
      <4>1. j - 1 \in Int
        OBVIOUS
      <4>. QED  BY <1>0, <4>1, Divides DEF p
    <3>2. FrameNumber(v, j) = x
      BY <2>1
    <3>. HIDE DEF x, y
    <3>3. CASE x >= q + 1
      <4>1. p * x >= p * (q + 1)
        BY <2>2, <2>3, <3>1, <3>3
      <4>2. p * (q + 1) = p * q + p
        BY <2>2, <2>3
      <4>. QED  BY <4>1, <4>2, <2>2, <2>3, <3>1
    <3>. QED  BY <3>1, <3>2, <3>3, <2>2
  <2>8. ASSUME NEW f \in 0 .. q PROVE \E j \in 1 .. i : FrameNumber(v, j) = f
    <3>. DEFINE j == f * p + 0 + 1
    <3>1. f \in Int /\ f * p \in Int /\ f * p >= 0 /\ 0 \in 0 .. p - 1
      BY <2>2, <2>3
    <3>2. f * p <= p * q
      <4>1. p * f <= p * q
        BY <2>2, <2>3
      <4>. QED  BY <4>1, <2>2, <2>3
    <3>3. j \in 1 .. i
      BY <3>1, <3>2, <2>2, <2>3
    <3>4. (f * p + 0) \div p = f
      <4>1. p \in Nat \ {0}
        BY <2>3
      <4>. QED  BY <3>1, <4>1, Quotient
    <3>5. j - 1 = f * p + 0
      BY <3>1
    <3>6. FrameNumber(v, j) = f
      BY <2>1, <3>4, <3>5 DEF p
    <3>. QED  BY <3>3, <3>6
  <2>. QED  BY <2>3, <2>6, <2>7, <2>8
<1>. QED  BY <1>1, <1>2

\* Every package is in one of the frames.
LEMMA FrameOfPackage ==
  ASSUME NEW packages, PlainPackages(packages), NEW v
  PROVE  /\ Len(Framed(v, packages)) \in Nat
         /\ DOMAIN Framed(v, packages) = 1 .. Len(Framed(v, packages))
         /\ \A i \in 1 .. Len(packages) : FrameNumber(v, i) < Len(Framed(v, packages))
<1>. DEFINE n == Len(packages)
            numbers == {FrameNumber(v, i) : i \in DOMAIN packages}
            N == Cardinality(numbers)
            Frame(j) == FlattenSeq([i \in DOMAIN packages |->
                          IF FrameNumber(v, i) = j - 1 THEN Encoded(packages[i]) ELSE << >>])
            f == Framed(v, packages)
<1>1. n \in Nat /\ DOMAIN packages = 1 .. n
  BY Zenon DEF PlainPackages
<1>2. ASSUME NEW i \in 1 .. n
      PROVE  FrameNumber(v, i) \in 0 .. n /\ \A e \in 0 .. FrameNumber(v, i) : \E j \in 1 .. n : FrameNumber(v, j) = e
  <2>1. i \in Nat \ {0} /\ \A j \in 1 .. i : j \in 1 .. n
    BY <1>1
  <2>2. FrameNumber(v, i) \in 0 .. i - 1 /\ \A e \in 0 .. FrameNumber(v, i) : \E j \in 1 .. i : FrameNumber(v, j) = e
    BY <2>1, FrameNumbers
  <2>3. \A x \in 0 .. i - 1 : x \in 0 .. n
    BY <1>1
  <2>. QED  BY <2>1, <2>2, <2>3
<1>3. IsFiniteSet(numbers) /\ N \in Nat
  <2>1. numbers \subseteq 0 .. n
    BY <1>1, <1>2
  <2>2. IsFiniteSet(0 .. n)
    BY <1>1, FS_Interval
  <2>. HIDE DEF numbers
  <2>3. IsFiniteSet(numbers)
    BY <2>1, <2>2, FS_Subset
  <2>. QED  BY <2>3, FS_CardinalityType
<1>4. ASSUME NEW i \in 1 .. n PROVE FrameNumber(v, i) < N
  <2>. DEFINE x == FrameNumber(v, i)
  <2>1. x \in Nat /\ 0 .. x \subseteq numbers
    BY <1>1, <1>2
  <2>. HIDE DEF numbers, x
  <2>2. Cardinality(0 .. x) = x + 1
    BY <2>1, FS_Interval
  <2>3. Cardinality(0 .. x) <= N
    BY <2>1, <1>3, FS_Subset
  <2>. QED  BY <2>1, <2>2, <2>3, <1>3 DEF x
<1>5. f = [j \in 1 .. N |-> Frame(j)]
  BY DEF Framed
<1>. HIDE DEF N, Frame, f
<1>6. DOMAIN f = 1 .. N
  BY <1>5
<1>7. Len(f) = N
  <2>1. f \in Seq({Frame(j) : j \in 1 .. N})
    BY <1>3, <1>5
  <2>. QED  BY <2>1, <1>3, <1>6
<1>. QED  BY <1>3, <1>4, <1>6, <1>7 DEF f

----------------------------------------------------------------------------
(***************************************************************************)
(* Lines as the scan reads them.                                           *)
(***************************************************************************)

\* Sequences with the same elements are the same.
LEMMA SameSeq ==
  ASSUME NEW S, NEW f \in Seq(S), NEW g \in Seq(S), Len(f) = Len(g), \A i \in 1 .. Len(f) : f[i] = g[i]
  PROVE  f = g
BY SeqEqual

\* The parts of the line of an entry.
IsLine(line, meta, path) == meta \in Seq(Plain) /\ path \in Seq(Int) /\ line = meta \o <<Nul>> \o path
InLine(line, meta, path) ==
  /\ line \in Seq(Int) /\ Len(line) = Len(meta) + 1 + Len(path) /\ SeparatorIn(line) = Len(meta) + 1
  /\ (\A i \in 1 .. Len(meta) : line[i] = meta[i]) /\ line[Len(meta) + 1] = Nul
  /\ SubSeq(line, 1, SeparatorIn(line) - 1) = meta
  /\ SubSeq(line, SeparatorIn(line) + 1, Len(line)) = path

\* Where the first separator of the line is, and what stands before and behind it.
LEMMA EntryLine ==
  ASSUME NEW meta, NEW path, NEW line, IsLine(line, meta, path)
  PROVE  InLine(line, meta, path)
<1>. DEFINE z == <<Nul>>
            y == meta \o z
            n == Len(meta)
            p == Len(path)
            k == SeparatorIn(line)
<1>a. meta \in Seq(Plain) /\ path \in Seq(Int) /\ line = meta \o <<Nul>> \o path
  BY Zenon DEF IsLine
<1>0. meta \in Seq(Int) /\ n \in Nat /\ p \in Nat /\ \A i \in 1 .. n : meta[i] # Nul
  <2>1. meta \in Seq(Int)
    BY <1>a, PlainIsInt
  <2>2. n \in Nat /\ p \in Nat
    BY <2>1, <1>a
  <2>3. \A i \in 1 .. n : meta[i] \in Plain
    BY <1>a, ElementOfSeq
  <2>. QED  BY <2>1, <2>2, <2>3 DEF Plain
<1>1. Nul \in Int
  BY DEF Nul
<1>2. y \in Seq(Int) /\ Len(y) = n + 1 /\ (\A i \in 1 .. n : y[i] = meta[i]) /\ y[n + 1] = Nul
  BY <1>0, <1>1, ConcatOne
<1>3. line = y \o path
  BY <1>a
<1>. HIDE DEF y, z
<1>4. /\ line \in Seq(Int) /\ Len(line) = Len(y) + p
      /\ \A i \in 1 .. Len(y) : line[i] = y[i]
      /\ \A i \in 1 .. p : line[Len(y) + i] = path[i]
  <2>. DEFINE x == y \o path
  <2>1. y \in Seq(Int) /\ path \in Seq(Int)
    BY <1>a, <1>2
  <2>2. /\ x \in Seq(Int) /\ Len(x) = Len(y) + Len(path)
        /\ \A i \in 1 .. Len(y) : x[i] = y[i]
        /\ \A i \in 1 .. Len(path) : x[Len(y) + i] = path[i]
    BY <2>1, ConcatAt
  <2>3. line = x
    BY <1>3
  <2>. QED  BY <2>2, <2>3, Zenon
<1>5. /\ Len(line) = n + 1 + p /\ (\A i \in 1 .. n : line[i] = meta[i]) /\ line[n + 1] = Nul
      /\ \A i \in 1 .. p : line[n + 1 + i] = path[i]
  <2>1. \A i \in 1 .. n : i \in 1 .. Len(y)
    BY <1>0, <1>2
  <2>2. n + 1 \in 1 .. Len(y)
    BY <1>0, <1>2
  <2>3. Len(line) = n + 1 + p
    BY <1>2, <1>4
  <2>4. \A i \in 1 .. p : line[n + 1 + i] = path[i]
    BY <1>2, <1>4
  <2>. QED  BY <1>2, <1>4, <2>1, <2>2, <2>3, <2>4, Zenon
<1>6. IsFirst(line, Nul, k)
  <2>1. k = FirstAt(line, Nul)
    BY DEF SeparatorIn, SelectInSeq, FirstAt, Places
  <2>. HIDE DEF k
  <2>. QED  BY <2>1, <1>4, FirstFound
<1>. HIDE DEF k, n, p
<1>7. k = n + 1
  <2>1. n + 1 \in 1 .. Len(line) /\ n \in Nat /\ Len(line) \in Nat
    BY <1>0, <1>5 DEF n, p
  <2>2. k \in 1 .. Len(line) /\ line[k] = Nul /\ \A i \in 1 .. k - 1 : line[i] # Nul
    BY <2>1, <1>5, <1>6, Zenon DEF IsFirst
  <2>3. ~(k \in 1 .. n)
    BY <1>0, <1>5, <2>2 DEF n
  <2>4. ~(n + 1 \in 1 .. k - 1)
    BY <1>5, <2>2
  <2>. QED  BY <2>1, <2>2, <2>3, <2>4
<1>8. SubSeq(line, 1, n) = meta
  <2>. DEFINE m == 0
  <2>1. m \in Nat /\ m <= n /\ n \in Nat /\ n <= Len(line) /\ m + 1 = 1 /\ n - m = n
    BY <1>0, <1>5 DEF n, p
  <2>2. \A i : i \in 1 .. n - m => m + i = i
    BY <2>1
  <2>. HIDE DEF m
  <2>. DEFINE g == SubSeq(line, m + 1, n)
  <2>3. g \in Seq(Int) /\ Len(g) = n - m /\ \A i \in 1 .. n - m : g[i] = line[m + i]
    BY <1>4, <2>1, Sub
  <2>. HIDE DEF g
  <2>4. Len(g) = Len(meta) /\ \A i \in 1 .. Len(g) : g[i] = meta[i]
    BY <2>1, <2>2, <2>3, <1>5 DEF n
  <2>5. g = meta
    BY <2>3, <2>4, <1>0, SameSeq
  <2>. QED  BY <2>1, <2>5 DEF g
<1>9. SubSeq(line, n + 1 + 1, Len(line)) = path
  <2>. DEFINE m == n + 1
              l == Len(line)
              g == SubSeq(line, m + 1, l)
  <2>1. m \in Nat /\ m <= l /\ l \in Nat /\ l <= Len(line) /\ l - m = p
    BY <1>0, <1>5 DEF n, p
  <2>. HIDE DEF m, l
  <2>2. g \in Seq(Int) /\ Len(g) = l - m /\ \A i \in 1 .. l - m : g[i] = line[m + i]
    BY <1>4, <2>1, Sub
  <2>. HIDE DEF g
  <2>3. Len(g) = Len(path) /\ \A i \in 1 .. Len(g) : g[i] = path[i]
    BY <2>1, <2>2, <1>5 DEF p, m
  <2>4. g = path
    BY <2>2, <2>3, <1>a, SameSeq
  <2>. QED  BY <2>4 DEF g, m, l
<1>10. k - 1 = n /\ k + 1 = n + 1 + 1 /\ k = Len(meta) + 1 /\ Len(line) = Len(meta) + 1 + Len(path)
  BY <1>0, <1>5, <1>7 DEF n, p
<1>11. (\A i \in 1 .. Len(meta) : line[i] = meta[i]) /\ line[Len(meta) + 1] = Nul
  BY <1>5 DEF n
<1>12. line \in Seq(Int) /\ SubSeq(line, 1, k - 1) = meta /\ SubSeq(line, k + 1, Len(line)) = path
  BY <1>4, <1>8, <1>9, <1>10
<1>. QED  BY <1>10, <1>11, <1>12, Zenon DEF k, InLine

\* Whether it is that of a footer.
LEMMA FooterLine ==
  ASSUME NEW meta, NEW path, NEW line, IsLine(line, meta, path)
  PROVE  /\ line # << >> /\ (IsFooter(line) <=> meta = <<P>>)
         /\ meta = <<P>> => SubSeq(line, 3, Len(line)) = path
<1>. DEFINE h == <<P, Nul>>
            z == <<P>>
            n == Len(meta)
            p == Len(path)
<1>1. /\ line \in Seq(Int) /\ Len(line) = n + 1 + p /\ SeparatorIn(line) = n + 1
      /\ (\A i \in 1 .. n : line[i] = meta[i]) /\ line[n + 1] = Nul
      /\ SubSeq(line, SeparatorIn(line) + 1, Len(line)) = path
  <2>1. InLine(line, meta, path)
    BY EntryLine
  <2>. QED  BY <2>1, Zenon DEF InLine
<1>a. meta \in Seq(Plain) /\ path \in Seq(Int)
  BY Zenon DEF IsLine
<1>2. n \in Nat /\ p \in Nat /\ meta \in Seq(Int) /\ \A i \in 1 .. n : meta[i] # Nul
  <2>1. meta \in Seq(Int)
    BY <1>a, PlainIsInt
  <2>2. n \in Nat /\ p \in Nat
    BY <2>1, <1>a
  <2>3. \A i \in 1 .. n : meta[i] \in Plain
    BY <1>a, ElementOfSeq
  <2>. QED  BY <2>1, <2>2, <2>3 DEF Plain
<1>3. h \in Seq(Int) /\ Len(h) = 2 /\ h[1] = P /\ h[2] = Nul /\ P \in Int /\ P # Nul
  BY DEF P, Nul
<1>4. z \in Seq(Int) /\ Len(z) = 1 /\ z[1] = P
  BY <1>3
<1>5. IsFooter(line) <=> (2 <= Len(line) /\ SubSeq(h, 1, 2) = SubSeq(line, 1, 2))
  BY <1>3 DEF IsFooter, IsPrefix
<1>. HIDE DEF h, z, n, p
<1>6. SubSeq(h, 1, 2) = h
  BY <1>3, SubSeqFull
<1>7. ASSUME 2 <= Len(line) PROVE SubSeq(line, 1, 2) = h <=> (line[1] = P /\ line[2] = Nul)
  <2>. DEFINE g == SubSeq(line, 1, 2)
  <2>1. g \in Seq(Int) /\ Len(g) = 2 /\ g[1] = line[1] /\ g[2] = line[2]
    BY <1>1, <1>7
  <2>. HIDE DEF g
  <2>2. ASSUME line[1] = P, line[2] = Nul PROVE g = h
    <3>1. \A i \in 1 .. Len(g) : i = 1 \/ i = 2
      BY <2>1
    <3>2. \A i \in 1 .. Len(g) : g[i] = h[i]
      BY <3>1, <2>1, <2>2, <1>3
    <3>. QED  BY <3>2, <2>1, <1>3, SameSeq
  <2>. QED  BY <2>1, <2>2, <1>3 DEF g
<1>8. IsFooter(line) <=> (2 <= Len(line) /\ line[1] = P /\ line[2] = Nul)
  BY <1>5, <1>6, <1>7
<1>9. ASSUME 2 <= Len(line), line[1] = P, line[2] = Nul PROVE meta = z
  <2>1. n # 0
    BY <1>1, <1>3, <1>9
  <2>2. 1 \in 1 .. n /\ meta[1] = P
    BY <1>1, <1>2, <2>1, <1>9
  <2>3. ~(2 \in 1 .. n)
    BY <1>1, <1>2, <1>9
  <2>4. n = 1
    BY <1>2, <2>1, <2>3
  <2>5. \A i \in 1 .. Len(meta) : i = 1
    BY <2>4 DEF n
  <2>6. Len(meta) = Len(z) /\ \A i \in 1 .. Len(meta) : meta[i] = z[i]
    BY <1>4, <2>2, <2>4, <2>5 DEF n
  <2>. QED  BY <2>6, <1>2, <1>4, SameSeq
<1>10. ASSUME meta = z PROVE 2 <= Len(line) /\ line[1] = P /\ line[2] = Nul /\ SubSeq(line, 3, Len(line)) = path
  <2>1. n = 1
    BY <1>4, <1>10 DEF n
  <2>2. 1 \in 1 .. n /\ n + 1 = 2 /\ (n + 1) + 1 = 3
    BY <2>1
  <2>3. 2 <= Len(line)
    BY <1>1, <1>2, <2>1
  <2>4. SubSeq(line, 3, Len(line)) = path
    BY <1>1, <2>2, Zenon
  <2>. QED  BY <1>1, <1>4, <1>10, <2>2, <2>3, <2>4
<1>11. line # << >>
  BY <1>1, <1>2
<1>12. IsFooter(line) <=> meta = z
  BY <1>8, <1>9, <1>10
<1>. QED  BY <1>10, <1>11, <1>12 DEF z

\* An entry whose line is read as that entry.
Readable(entry) ==
  /\ entry = [path |-> entry.path, node |-> entry.node] /\ entry.path \in Seq(Plain)
  /\ EncodeMeta(entry.node) \in Seq(Plain) /\ EncodeMeta(entry.node) # <<P>>
  /\ DecodesMeta(EncodeMeta(entry.node)) /\ DecodeMeta(EncodeMeta(entry.node)) = entry.node

Written(package) ==
  /\ package.entries \in Seq(Range(package.entries)) /\ package.entries # << >>
  /\ \A e \in 1 .. Len(package.entries) : Readable(package.entries[e])
  /\ package.store_path.json \in Seq(Plain)
  /\ Named(package.store_path.json) = {package.store_path}
  /\ package = Recorded(package.store_path, package.entries)

WrittenAll(packages) ==
  /\ packages \in Seq(Range(packages))
  /\ \A i \in 1 .. Len(packages) : Written(packages[i])

\* What can be written has no separators.
LEMMA WrittenPlain ==
  ASSUME NEW packages, WrittenAll(packages)
  PROVE  PlainPackages(packages)
<1>1. packages \in Seq(Range(packages)) /\ \A i \in 1 .. Len(packages) : Written(packages[i])
  BY Zenon DEF WrittenAll
<1>2. Len(packages) \in Nat /\ DOMAIN packages = 1 .. Len(packages)
  BY <1>1, LenProperties
<1>3. ASSUME NEW i \in 1 .. Len(packages) PROVE PlainPackage(packages[i])
  <2>. DEFINE p == packages[i]
              es == p.entries
  <2>1. /\ es \in Seq(Range(es)) /\ es # << >> /\ p.store_path.json \in Seq(Plain)
        /\ \A e \in 1 .. Len(es) : Readable(es[e])
    BY <1>1, <1>3, Zenon DEF Written
  <2>. HIDE DEF p, es
  <2>2. Len(es) \in Nat \ {0} /\ DOMAIN es = 1 .. Len(es)
    BY <2>1, LenProperties, EmptySeq
  <2>3. \A e \in 1 .. Len(es) : EncodeMeta(es[e].node) \in Seq(Plain) /\ es[e].path \in Seq(Plain)
    BY <2>1, Zenon DEF Readable
  <2>. QED  BY <2>1, <2>2, <2>3, Zenon DEF PlainPackage, p, es
<1>. QED  BY <1>2, <1>3, Zenon DEF PlainPackages

\* The line of an entry is read as that entry.
LEMMA ReadsEntry ==
  ASSUME NEW entry, Readable(entry), NEW line, line = EncodeMeta(entry.node) \o <<Nul>> \o entry.path
  PROVE  line # << >> /\ ~IsFooter(line) /\ ParsesEntry(line) /\ EntryOf(line) = entry
<1>. DEFINE meta == EncodeMeta(entry.node)
            path == entry.path
            k == SeparatorIn(line)
<1>1. /\ entry = [path |-> path, node |-> entry.node] /\ path \in Seq(Plain)
      /\ meta \in Seq(Plain) /\ meta # <<P>>
      /\ DecodesMeta(meta) /\ DecodeMeta(meta) = entry.node
  BY Zenon DEF Readable
<1>2. path \in Seq(Int) /\ line = meta \o <<Nul>> \o path
  BY <1>1, PlainIsInt
<1>. HIDE DEF meta, path
<1>3. IsLine(line, meta, path)
  BY <1>1, <1>2, Zenon DEF IsLine
<1>4. line # << >> /\ ~IsFooter(line)
  BY <1>1, <1>3, FooterLine, Zenon
<1>5. InLine(line, meta, path)
  BY <1>3, EntryLine, Zenon
<1>6. /\ k = Len(meta) + 1
      /\ SubSeq(line, 1, k - 1) = meta /\ SubSeq(line, k + 1, Len(line)) = path
  BY <1>5, Zenon DEF InLine
<1>7. Len(meta) \in Nat
  BY <1>1
<1>8. k > 0
  <2>. HIDE DEF k
  <2>. QED  BY <1>6, <1>7
<1>9. ParsesEntry(line)
  BY <1>1, <1>6, <1>8, Zenon DEF ParsesEntry
<1>10. EntryOf(line) = [path |-> path, node |-> entry.node]
  BY <1>1, <1>6, Zenon DEF EntryOf
<1>. QED  BY <1>1, <1>4, <1>9, <1>10, Zenon

\* The line of a footer is read as that footer.
LEMMA ReadsFooter ==
  ASSUME NEW json \in Seq(Plain), NEW line, line = <<P>> \o <<Nul>> \o json
  PROVE  line # << >> /\ IsFooter(line) /\ SubSeq(line, 3, Len(line)) = json
<1>1. <<P>> \in Seq(Plain) /\ json \in Seq(Int)
  BY FooterPlain, PlainIsInt
<1>2. IsLine(line, <<P>>, json)
  BY <1>1, Zenon DEF IsLine
<1>. QED  BY <1>2, FooterLine, Zenon

----------------------------------------------------------------------------
(***************************************************************************)
(* The next line of the frame: an entry of the next package, or its        *)
(* footer.                                                                 *)
(***************************************************************************)
Scanning(c, u, q) ==
  /\ WrittenAll(built.packages) /\ frame \in Nat \ {0} /\ Upto(u, Len(recorded)) \in Nat
  /\ FrameLines(c, u, version, frame, built.packages, Len(built.packages))
  /\ ScanAt(c, u, q)

NextIs(c, u, q, m, k, package) ==
  /\ m = Len(recorded) /\ k = Len(current) /\ m \in Nat /\ m < Len(built.packages) /\ k \in 0 .. Len(package.entries)
  /\ FrameNumber(version, m + 1) = frame - 1 /\ Upto(u, m + 1) = Upto(u, m) + Len(package.entries) + 1
  /\ package = built.packages[m + 1] /\ Written(package) /\ current = SubSeq(package.entries, 1, k)
  /\ k < Len(package.entries) => Says(c, q + 1, EncodeMeta(package.entries[k + 1].node), package.entries[k + 1].path)
  /\ k = Len(package.entries) => q + 1 = Upto(u, m + 1) /\ Says(c, q + 1, <<P>>, package.store_path.json)

\* Which of the two it is, from how many lines of the frame were scanned.
LEMMA NextInFrame ==
  ASSUME NEW c, NEW u, NEW q, Scanning(c, u, q), LineCount(c) \in Nat, q < LineCount(c)
  PROVE  NextIs(c, u, q, Len(recorded), Len(current), built.packages[Len(recorded) + 1])
<1>. DEFINE m == Len(recorded)
            k == Len(current)
            n == Len(built.packages)
            N == LineCount(c)
            package == built.packages[m + 1]
            E == Len(package.entries)
<1>1. /\ WrittenAll(built.packages) /\ frame \in Nat \ {0} /\ Upto(u, m) \in Nat
      /\ FrameLines(c, u, version, frame, built.packages, n)
      /\ ScanAt(c, u, q)
  BY Zenon DEF Scanning
<1>2. /\ Collected /\ FramesInOrder /\ q = Upto(u, m) + k
      /\ current # <<>> => FrameNumber(version, m + 1) = frame - 1
  BY <1>1, Zenon DEF ScanAt
<1>3. /\ m \in 0 .. n /\ k \in Nat
      /\ current # <<>> => m < n /\ k <= E /\ current = SubSeq(package.entries, 1, k)
  BY <1>2, Zenon DEF Collected
<1>4. /\ \A i \in 1 .. m : FrameNumber(version, i) < frame
      /\ \A i \in m + 1 .. n : FrameNumber(version, i) >= frame - 1
  BY <1>2, Zenon DEF FramesInOrder
<1>5. /\ Upto(u, n) = N
      /\ \A i \in 0 .. n : (\A l \in i + 1 .. n : FrameNumber(version, l) # frame - 1) => Upto(u, i) = Upto(u, n)
      /\ \A i \in 1 .. n : FrameNumber(version, i) = frame - 1 => PackageLines(c, u, i, built.packages[i])
  BY <1>1, Zenon DEF FrameLines
<1>6. /\ n \in Nat /\ m \in Nat /\ m <= n /\ frame \in Nat
  <2>1. n \in Nat
    BY <1>1, WrittenPlain, Zenon DEF PlainPackages
  <2>. QED  BY <2>1, <1>3, <1>1
<1>7. m < n /\ FrameNumber(version, m + 1) = frame - 1
  <2>1. CASE current # <<>>
    BY <1>2, <1>3, <2>1
  <2>2. CASE current = <<>>
    <3>1. q = Upto(u, m)
      <4>1. k = 0
        BY <2>2
      <4>. HIDE DEF k, m
      <4>. QED  BY <4>1, <1>1, <1>2
    <3>2. Upto(u, m) # Upto(u, n)
      <4>. HIDE DEF k, m, n, N
      <4>1. q < N /\ N \in Nat
        BY DEF N
      <4>. QED  BY <3>1, <1>1, <1>5, <4>1
    <3>3. PICK l \in m + 1 .. n : FrameNumber(version, l) = frame - 1
      BY <1>3, <1>5, <3>2, Zenon
    <3>4. l \in Nat \ {0} /\ m + 1 \in 1 .. l /\ m < n /\ m + 1 \in m + 1 .. n /\ m + 1 \in Nat \ {0}
      <4>. HIDE DEF m, n
      <4>. QED  BY <3>3, <1>6
    <3>5. FrameNumber(version, m + 1) <= FrameNumber(version, l) /\ FrameNumber(version, m + 1) >= frame - 1
      BY <3>4, <1>4, FrameNumbers
    <3>6. FrameNumber(version, m + 1) \in 0 .. (m + 1) - 1
      BY <3>4, FrameNumbers
    <3>. DEFINE F == FrameNumber(version, m + 1)
    <3>7. F <= frame - 1 /\ F >= frame - 1 /\ F \in 0 .. (m + 1) - 1
      BY <3>3, <3>5, <3>6
    <3>. HIDE DEF F, m
    <3>8. F = frame - 1
      BY <3>7, <1>6
    <3>. QED  BY <3>4, <3>8 DEF F, m
  <2>. QED  BY <2>1, <2>2
<1>8. m + 1 \in 1 .. n
  <2>. HIDE DEF m, n
  <2>. QED  BY <1>6, <1>7
<1>9. Written(package)
  BY <1>1, <1>8, Zenon DEF WrittenAll
<1>10. PackageLines(c, u, m + 1, package)
  BY <1>5, <1>7, <1>8, Zenon
<1>11. (m + 1) - 1 = m
  <2>. HIDE DEF m
  <2>. QED  BY <1>6
<1>12. /\ Upto(u, m + 1) = Upto(u, m) + E + 1
       /\ \A e \in 1 .. E : Says(c, Upto(u, m) + e, EncodeMeta(package.entries[e].node), package.entries[e].path)
       /\ Says(c, Upto(u, m + 1), <<P>>, package.store_path.json)
  BY <1>10, <1>11, Zenon DEF PackageLines
<1>13. E \in Nat /\ k \in 0 .. E /\ current = SubSeq(package.entries, 1, k)
  <2>1. E \in Nat
    BY <1>9, LenProperties DEF Written
  <2>2. CASE current = <<>>
    <3>1. k = 0
      BY <2>2
    <3>2. SubSeq(package.entries, 1, 0) = << >>
      BY SubSeqEmpty
    <3>3. k \in 0 .. E
      BY <3>1, <2>1
    <3>. QED  BY <2>1, <3>1, <3>2, <3>3, <2>2
  <2>3. CASE current # <<>>
    <3>1. k \in 0 .. E
      <4>1. k <= E /\ k \in Nat
        BY <1>3, <2>3
      <4>. HIDE DEF k, E
      <4>. QED  BY <4>1, <2>1
    <3>. QED  BY <3>1, <2>1, <1>3, <2>3, Zenon
  <2>. QED  BY <2>2, <2>3
<1>14. ASSUME k < E PROVE Says(c, q + 1, EncodeMeta(package.entries[k + 1].node), package.entries[k + 1].path)
  <2>1. k + 1 \in 1 .. E /\ q + 1 = Upto(u, m) + (k + 1)
    <3>. HIDE DEF k, E, m
    <3>. QED  BY <1>14, <1>13, <1>1, <1>2
  <2>. QED  BY <2>1, <1>12
<1>15. ASSUME k = E PROVE q + 1 = Upto(u, m + 1) /\ Says(c, q + 1, <<P>>, package.store_path.json)
  <2>1. q + 1 = Upto(u, m + 1)
    <3>. HIDE DEF k, E, m
    <3>. QED  BY <1>15, <1>13, <1>12, <1>1, <1>2
  <2>. QED  BY <2>1, <1>12
<1>. HIDE DEF m, k, n, package, E, N
<1>16. package = built.packages[m + 1] /\ E = Len(package.entries) /\ n = Len(built.packages) /\ m = Len(recorded) /\ k = Len(current)
  BY DEF m, k, n, package, E
<1>17. NextIs(c, u, q, m, k, package)
  BY <1>6, <1>7, <1>9, <1>12, <1>13, <1>14, <1>15, <1>16, Zenon DEF NextIs
<1>. QED  BY <1>17 DEF m, k, package

\* The first k elements.
LEMMA FirstOf ==
  ASSUME NEW S, NEW s \in Seq(S), NEW k \in 0 .. Len(s)
  PROVE  SubSeq(s, 1, k) \in Seq(S) /\ Len(SubSeq(s, 1, k)) = k /\ \A i \in 1 .. k : SubSeq(s, 1, k)[i] = s[i]
<1>1. k \in Nat /\ k <= Len(s) /\ Len(s) \in Nat
  OBVIOUS
<1>2. \A i \in 1 .. k : s[i] \in S
  BY <1>1
<1>. DEFINE g == SubSeq(s, 1, k)
<1>3. /\ g \in Seq(S) /\ Len(g) = (IF 1 <= k THEN k - 1 + 1 ELSE 0)
      /\ \A i \in 1 .. k - 1 + 1 : g[i] = s[1 + i - 1]
  BY <1>1, <1>2, SubSeqProperties
<1>. HIDE DEF g
<1>4. Len(g) = k /\ \A i \in 1 .. k : g[i] = s[i]
  BY <1>1, <1>3
<1>. QED  BY <1>3, <1>4 DEF g

\* ... and one more.
LEMMA OneMore ==
  ASSUME NEW S, NEW s \in Seq(S), NEW k \in 0 .. Len(s), k < Len(s)
  PROVE  /\ Append(SubSeq(s, 1, k), s[k + 1]) = SubSeq(s, 1, k + 1)
         /\ Len(SubSeq(s, 1, k + 1)) = k + 1 /\ SubSeq(s, 1, k + 1) # << >>
<1>1. k \in Nat /\ Len(s) \in Nat /\ k + 1 \in 0 .. Len(s) /\ k + 1 \in 1 .. Len(s)
  OBVIOUS
<1>. DEFINE f == SubSeq(s, 1, k)
            g == SubSeq(s, 1, k + 1)
            e == s[k + 1]
<1>2. f \in Seq(S) /\ Len(f) = k /\ \A i \in 1 .. k : f[i] = s[i]
  BY FirstOf
<1>3. g \in Seq(S) /\ Len(g) = k + 1 /\ \A i \in 1 .. k + 1 : g[i] = s[i]
  BY <1>1, FirstOf
<1>4. e \in S
  BY <1>1
<1>. HIDE DEF f, g
<1>. DEFINE h == Append(f, e)
<1>5. /\ h \in Seq(S) /\ Len(h) = Len(f) + 1 /\ (\A i \in 1 .. Len(f) : h[i] = f[i]) /\ h[Len(f) + 1] = e
  BY <1>2, <1>4, AppendProperties
<1>. HIDE DEF h
<1>6. Len(h) = Len(g) /\ \A i \in 1 .. Len(h) : h[i] = g[i]
  <2>1. Len(h) = k + 1
    BY <1>2, <1>5
  <2>2. ASSUME NEW i \in 1 .. k + 1 PROVE h[i] = g[i]
    <3>1. CASE i \in 1 .. k
      BY <3>1, <1>2, <1>3, <1>5
    <3>2. CASE i = k + 1
      BY <3>2, <1>1, <1>2, <1>3, <1>5
    <3>. QED  BY <3>1, <3>2, <1>1
  <2>. QED  BY <2>1, <2>2, <1>3
<1>7. h = g
  BY <1>3, <1>5, <1>6, SameSeq
<1>8. g # << >>
  BY <1>1, <1>3
<1>. QED  BY <1>3, <1>7, <1>8 DEF f, g, h

\* A step of the scan reads the line.
LEMMA ReadsLine ==
  ASSUME NEW line, line = NextOne, Scan
  PROVE  /\ UNCHANGED <<reader, buffer, partial, call, index, frame, map, stored, fresh>> /\ block' = Remaining
         /\ line # <<>> /\ ~IsFooter(line) /\ ParsesEntry(line) =>
              /\ pc' = IF block' = <<>> THEN "call" ELSE "block"
              /\ current' = Append(current, EntryOf(line)) /\ UNCHANGED recorded
         /\ line # <<>> /\ IsFooter(line) /\ current # <<>> /\ Named(SubSeq(line, 3, Len(line))) # {} =>
              /\ pc' = IF block' = <<>> THEN "call" ELSE "block"
              /\ recorded' = Append(recorded, Recorded(PackageOf(line), current)) /\ current' = <<>>
<1>1. /\ UNCHANGED <<reader, buffer, partial, call, index, frame, map, stored, fresh>> /\ block' = Remaining
      /\ IF Parses(line)
         THEN ScanLine(line) /\ pc' = (IF block' = <<>> THEN "call" ELSE "block")
         ELSE pc' = "error" /\ UNCHANGED <<current, recorded>>
  BY DEF Scan, Remaining, NextOne, NewlineAt
<1>2. ASSUME line # <<>>, ~IsFooter(line), ParsesEntry(line)
      PROVE  Parses(line) /\ (ScanLine(line) => current' = Append(current, EntryOf(line)) /\ UNCHANGED recorded)
  BY <1>2, Zenon DEF Parses, ScanLine
<1>3. ASSUME line # <<>>, IsFooter(line), current # <<>>, Named(SubSeq(line, 3, Len(line))) # {}
      PROVE  Parses(line) /\ (ScanLine(line) => recorded' = Append(recorded, Recorded(PackageOf(line), current)) /\ current' = <<>>)
  BY <1>3, Zenon DEF Parses, ScanLine
<1>. QED  BY <1>1, <1>2, <1>3, Zenon

\* A step of the scan never fails on a frame of the writer, and collects one more line.
LEMMA ScanStep ==
  ASSUME NEW c, NEW u, NEW q, Scanning(c, u, q), Decoding(c, q), Scan
  PROVE  /\ Decoding(c, q + 1)' /\ ScanAt(c, u, q + 1)' /\ pc' \in {"call", "block"}
         /\ UNCHANGED <<reader, index, frame, map, stored, fresh>>
<1>0. pc = "block"
  BY DEF Scan
<1>1. /\ q \in 0 .. LineCount(c) /\ q + 1 \in 0 .. LineCount(c) /\ q + 1 \in 1 .. LineCount(c)
      /\ \A meta, path \in Seq(Int) : Says(c, q + 1, meta, path) => NextOne = meta \o <<Nul>> \o path
      /\ /\ UNCHANGED <<reader, buffer, partial, call>> /\ block' = Remaining
         /\ pc' = (IF block' = <<>> THEN "call" ELSE "block")
         => Decoding(c, q + 1)'
  BY <1>0, ScansLine
<1>2. LineCount(c) \in Nat /\ q < LineCount(c) /\ q \in Nat
  <2>1. LineCount(c) \in Nat
    BY Zenon DEF Decoding, Chart, ChartTyped
  <2>. DEFINE N == LineCount(c)
  <2>2. N \in Nat /\ q \in 0 .. N /\ q + 1 \in 1 .. N
    BY <1>1, <2>1
  <2>. HIDE DEF N
  <2>3. q < N /\ q \in Nat
    BY <2>2
  <2>. QED  BY <2>1, <2>3 DEF N
<1>. DEFINE m == Len(recorded)
            k == Len(current)
            package == built.packages[m + 1]
            line == NextOne
            es == package.entries
<1>3. NextIs(c, u, q, m, k, package)
  BY <1>2, NextInFrame
<1>4. /\ WrittenAll(built.packages) /\ frame \in Nat \ {0}
      /\ ScanAt(c, u, q)
  BY Zenon DEF Scanning
<1>5. /\ Collected /\ FramesInOrder /\ q = Upto(u, m) + k
  BY <1>4, Zenon DEF ScanAt
<1>. HIDE DEF m, k, package, line, es
<1>6. /\ m = Len(recorded) /\ k = Len(current) /\ m \in Nat /\ m < Len(built.packages) /\ k \in 0 .. Len(es)
      /\ FrameNumber(version, m + 1) = frame - 1 /\ Upto(u, m + 1) = Upto(u, m) + Len(es) + 1
      /\ package = built.packages[m + 1] /\ Written(package) /\ current = SubSeq(es, 1, k)
      /\ k < Len(es) => Says(c, q + 1, EncodeMeta(es[k + 1].node), es[k + 1].path)
      /\ k = Len(es) => q + 1 = Upto(u, m + 1) /\ Says(c, q + 1, <<P>>, package.store_path.json)
  BY <1>3, Zenon DEF NextIs, es
<1>7. /\ es \in Seq(Range(es)) /\ es # << >> /\ (\A e \in 1 .. Len(es) : Readable(es[e]))
      /\ package.store_path.json \in Seq(Plain) /\ Named(package.store_path.json) = {package.store_path}
      /\ package = Recorded(package.store_path, es)
  BY <1>6, Zenon DEF Written, es
<1>8. Len(es) \in Nat \ {0} /\ k \in Nat /\ k <= Len(es)
  <2>1. Len(es) \in Nat \ {0}
    BY <1>7, EmptySeq
  <2>. QED  BY <2>1, <1>6
<1>9. recorded = SubSeq(built.packages, 1, m) /\ m \in 0 .. Len(built.packages)
  BY <1>5, Zenon DEF Collected, m
<1>10. /\ UNCHANGED <<reader, buffer, partial, call, index, frame, map, stored, fresh>> /\ block' = Remaining
       /\ line # <<>> /\ ~IsFooter(line) /\ ParsesEntry(line) =>
            /\ pc' = IF block' = <<>> THEN "call" ELSE "block"
            /\ current' = Append(current, EntryOf(line)) /\ UNCHANGED recorded
       /\ line # <<>> /\ IsFooter(line) /\ current # <<>> /\ Named(SubSeq(line, 3, Len(line))) # {} =>
            /\ pc' = IF block' = <<>> THEN "call" ELSE "block"
            /\ recorded' = Append(recorded, Recorded(PackageOf(line), current)) /\ current' = <<>>
  <2>1. line = NextOne
    BY DEF line
  <2>. QED  BY <2>1, ReadsLine, Zenon
<1>11. UNCHANGED <<built, version, frame>>
  BY <1>10 DEF index
<1>12. ASSUME pc' = (IF block' = <<>> THEN "call" ELSE "block")
       PROVE  Decoding(c, q + 1)' /\ pc' \in {"call", "block"}
  BY <1>1, <1>10, <1>12
<1>13. /\ \A i \in 1 .. m : FrameNumber(version, i) < frame
       /\ \A i \in m + 1 .. Len(built.packages) : FrameNumber(version, i) >= frame - 1
  BY <1>5, Zenon DEF FramesInOrder, m
<1>n. Len(built.packages) \in Nat
  BY <1>4, WrittenPlain, Zenon DEF PlainPackages
<1>14. CASE k < Len(es)
  <2>. DEFINE entry == es[k + 1]
  <2>1. k + 1 \in 1 .. Len(es)
    BY <1>8, <1>14
  <2>2. Readable(entry)
    BY <2>1, <1>7
  <2>3. EncodeMeta(entry.node) \in Seq(Int) /\ entry.path \in Seq(Int)
    BY <2>2, PlainIsInt DEF Readable
  <2>4. line = EncodeMeta(entry.node) \o <<Nul>> \o entry.path
    BY <1>1, <1>6, <1>14, <2>3 DEF line
  <2>5. line # << >> /\ ~IsFooter(line) /\ ParsesEntry(line) /\ EntryOf(line) = entry
    <3>. HIDE DEF entry
    <3>. QED  BY <2>2, <2>4, ReadsEntry
  <2>6. current' = Append(current, entry) /\ recorded' = recorded /\ Decoding(c, q + 1)' /\ pc' \in {"call", "block"}
    BY <2>5, <1>10, <1>12, Zenon
  <2>7. current' = SubSeq(es, 1, k + 1) /\ Len(SubSeq(es, 1, k + 1)) = k + 1
    BY <2>6, <1>6, <1>7, <1>14, OneMore
  <2>8. Collected'
    <3>1. Len(recorded') = m /\ Len(current') = k + 1 /\ k + 1 \in Nat /\ k + 1 <= Len(es)
      BY <2>6, <2>7, <1>6, <1>8, <1>14
    <3>2. es = built.packages[m + 1].entries
      BY <1>6 DEF es
    <3>3. built' = built
      BY <1>11
    <3>. QED  BY <3>1, <3>2, <3>3, <2>6, <2>7, <1>6, <1>9, Zenon DEF Collected
  <2>9. FramesInOrder'
    BY <2>6, <1>11, <1>13 DEF FramesInOrder, m
  <2>10. q + 1 = Upto(u, m) + (k + 1)
    <3>1. Upto(u, m) \in Nat
      BY Zenon DEF Scanning, m
    <3>. QED  BY <1>5, <1>8, <3>1
  <2>11. q + 1 = Upto(u, Len(recorded')) + Len(current')
    BY <2>6, <2>7, <2>10 DEF m
  <2>12. FrameNumber(version', Len(recorded') + 1) = frame' - 1
    BY <2>6, <1>6, <1>11 DEF m
  <2>. QED  BY <2>6, <2>8, <2>9, <2>11, <2>12, <1>10, Zenon DEF ScanAt
<1>15. CASE k = Len(es)
  <2>. DEFINE json == package.store_path.json
  <2>1. q + 1 = Upto(u, m + 1) /\ Says(c, q + 1, <<P>>, json) /\ json \in Seq(Plain)
    BY <1>6, <1>7, <1>15
  <2>2. json \in Seq(Int) /\ <<P>> \in Seq(Int)
    BY <2>1, FooterPlain, PlainIsInt
  <2>3. line = <<P>> \o <<Nul>> \o json
    BY <1>1, <2>1, <2>2 DEF line
  <2>4. line # << >> /\ IsFooter(line) /\ SubSeq(line, 3, Len(line)) = json
    <3>. HIDE DEF json
    <3>. QED  BY <2>1, <2>3, ReadsFooter, Zenon
  <2>5. Named(SubSeq(line, 3, Len(line))) = {package.store_path}
    BY <2>4, <1>7, Zenon
  <2>6. PackageOf(line) = package.store_path
    BY <2>5, SMTT(60) DEF PackageOf
  <2>7. current = es
    <3>1. SubSeq(es, 1, Len(es)) = es
      BY <1>7, SubSeqFull
    <3>. QED  BY <3>1, <1>6, <1>15
  <2>8. current # <<>> /\ Named(SubSeq(line, 3, Len(line))) # {}
    BY <2>5, <2>7, <1>7
  <2>9. /\ pc' = (IF block' = <<>> THEN "call" ELSE "block")
        /\ recorded' = Append(recorded, Recorded(PackageOf(line), current)) /\ current' = <<>>
    BY <2>4, <2>8, <1>10, Zenon
  <2>10. recorded' = Append(recorded, package) /\ current' = <<>> /\ Decoding(c, q + 1)' /\ pc' \in {"call", "block"}
    <3>1. Recorded(PackageOf(line), current) = package
      BY <2>6, <2>7, <1>7, Zenon
    <3>. QED  BY <3>1, <2>9, <1>12, Zenon
  <2>11. recorded' = SubSeq(built.packages, 1, m + 1) /\ Len(SubSeq(built.packages, 1, m + 1)) = m + 1
    <3>1. built.packages \in Seq(Range(built.packages))
      BY <1>4, Zenon DEF WrittenAll
    <3>. QED  BY <3>1, <2>10, <1>6, <1>9, OneMore
  <2>12. Len(recorded') = m + 1 /\ Len(current') = 0 /\ m + 1 \in 0 .. Len(built.packages)
    BY <2>10, <2>11, <1>6, <1>n
  <2>13. Collected'
    <3>1. built' = built /\ 0 \in Nat
      BY <1>11
    <3>. QED  BY <2>10, <2>11, <2>12, <3>1, Zenon DEF Collected
  <2>14. FramesInOrder'
    <3>1. version' = version /\ frame' = frame /\ built' = built
      BY <1>11
    <3>2. ASSUME NEW i \in 1 .. m + 1 PROVE FrameNumber(version, i) < frame
      <4>1. CASE i \in 1 .. m
        BY <4>1, <1>13
      <4>2. CASE i = m + 1
        BY <4>2, <1>6, <1>4
      <4>. QED  BY <4>1, <4>2, <1>6
    <3>3. ASSUME NEW i \in (m + 1) + 1 .. Len(built.packages) PROVE FrameNumber(version, i) >= frame - 1
      <4>1. i \in m + 1 .. Len(built.packages)
        BY <1>6
      <4>. QED  BY <4>1, <1>13
    <3>. QED  BY <3>1, <3>2, <3>3, <2>12, Zenon DEF FramesInOrder
  <2>15. q + 1 = Upto(u, Len(recorded')) + Len(current')
    <3>1. q + 1 = q + 1 + 0
      BY <1>2
    <3>2. Upto(u, m + 1) + 0 = q + 1
      BY <3>1, <2>1
    <3>. QED  BY <3>2, <2>12
  <2>. QED  BY <2>10, <2>13, <2>14, <2>15, <1>10, Zenon DEF ScanAt
<1>. QED  BY <1>8, <1>14, <1>15

----------------------------------------------------------------------------
(***************************************************************************)
(* The inductive invariant: where the decoder is in the chart of its frame *)
(* is where the scan is in the packages of that frame.                     *)
(***************************************************************************)

\* What the build left: `files`, and the sidecars it wrote itself.
Indexed ==
  /\ version \in {1, 2} /\ WrittenAll(built.packages)
  /\ input \in Inputs /\ built.packages = Kept(input)
  /\ frames = Framed(version, built.packages) /\ built.own = Own(version, built.packages)

\* The packages in map are in it with their frames, and they are all those before this frame.
MapOK ==
  /\ Len(map) \in Nat /\ DOMAIN map = 1 .. Len(map) /\ Len(map) <= Len(recorded)
  /\ \A i \in 1 .. Len(map) : map[i] = FrameNumber(version, i)
  /\ \A i \in Len(map) + 1 .. Len(built.packages) : FrameNumber(version, i) >= frame - 1

\* The packages recorded are those up to the end of this frame.
Passed ==
  /\ \A i \in 1 .. Len(recorded) : FrameNumber(version, i) < frame
  /\ \A i \in Len(recorded) + 1 .. Len(built.packages) : FrameNumber(version, i) >= frame

\* Every package has a frame, and later packages have no earlier one.
LEMMA NumbersOfPackages ==
  ASSUME Indexed
  PROVE  /\ Len(built.packages) \in Nat /\ Len(frames) \in Nat /\ DOMAIN built.packages = 1 .. Len(built.packages)
         /\ built.packages \in Seq(Range(built.packages))
         /\ \A i \in 1 .. Len(built.packages) : FrameNumber(version, i) \in Nat /\ FrameNumber(version, i) < Len(frames)
         /\ \A i, j \in 1 .. Len(built.packages) : i <= j => FrameNumber(version, i) <= FrameNumber(version, j)
<1>. DEFINE n == Len(built.packages)
<1>1. WrittenAll(built.packages) /\ frames = Framed(version, built.packages)
  BY Zenon DEF Indexed
<1>2. PlainPackages(built.packages) /\ built.packages \in Seq(Range(built.packages))
  BY <1>1, WrittenPlain, Zenon DEF WrittenAll
<1>3. n \in Nat /\ DOMAIN built.packages = 1 .. n
  BY <1>2, Zenon DEF PlainPackages
<1>4. Len(frames) \in Nat /\ \A i \in 1 .. n : FrameNumber(version, i) < Len(frames)
  BY <1>1, <1>2, FrameOfPackage
<1>. HIDE DEF n
<1>5. ASSUME NEW i \in 1 .. n PROVE FrameNumber(version, i) \in Nat
  <2>1. i \in Nat \ {0}
    BY <1>3
  <2>. QED  BY <2>1, FrameNumbers
<1>6. ASSUME NEW i \in 1 .. n, NEW j \in 1 .. n, i <= j PROVE FrameNumber(version, i) <= FrameNumber(version, j)
  <2>1. j \in Nat \ {0} /\ i \in 1 .. j
    BY <1>3, <1>6
  <2>. QED  BY <2>1, FrameNumbers
<1>. QED  BY <1>2, <1>3, <1>4, <1>5, <1>6, Zenon DEF n

\* Each frame that was built has a chart.
LEMMA EveryFrameCharted ==
  ASSUME Indexed, NEW k \in 1 .. Len(frames)
  PROVE  \E c, u : FrameChart(c, u, k)
<1>1. WrittenAll(built.packages) /\ frames = Framed(version, built.packages)
  BY Zenon DEF Indexed
<1>2. PlainPackages(built.packages)
  BY <1>1, WrittenPlain, Zenon
<1>3. k \in DOMAIN Framed(version, built.packages)
  BY <1>1, <1>2, FrameOfPackage
<1>4. /\ FrameCharted(built.packages, version, k, Len(built.packages))
      /\ frames[k] = FramedTo(built.packages, version, k, Len(built.packages))
  BY <1>1, <1>2, <1>3, FramedCharted, Zenon
<1>. QED  BY <1>4, Zenon DEF FrameCharted, FrameChart

\* Where the lines of the packages of a frame end.
LEMMA UptoTyped ==
  ASSUME Indexed, NEW c, NEW u, NEW k, FrameChart(c, u, k), NEW i \in 0 .. Len(built.packages)
  PROVE  Upto(u, i) \in Nat /\ Upto(u, i) <= LineCount(c) /\ LineCount(c) \in Nat
<1>1. Chart(c, frames[k]) /\ FrameLines(c, u, version, k, built.packages, Len(built.packages))
  BY Zenon DEF FrameChart
<1>2. Upto(u, i) \in 0 .. LineCount(c)
  BY <1>1, Zenon DEF FrameLines
<1>3. LineCount(c) \in Nat
  BY <1>1, Zenon DEF Chart, ChartTyped
<1>. QED  BY <1>2, <1>3

(***************************************************************************)
(* Once all lines of a frame are scanned, its packages are recorded and    *)
(* none is cut.                                                            *)
(***************************************************************************)
LEMMA EndOfFrame ==
  ASSUME Indexed, frame \in Nat \ {0}, NEW c, NEW u, FrameChart(c, u, frame), ScanAt(c, u, LineCount(c))
  PROVE  current = <<>> /\ Passed
<1>. DEFINE m == Len(recorded)
            n == Len(built.packages)
            k == Len(current)
            N == LineCount(c)
<1>1. /\ Collected /\ FramesInOrder /\ N = Upto(u, m) + k
      /\ current # <<>> => FrameNumber(version, m + 1) = frame - 1
  BY Zenon DEF ScanAt
<1>2. /\ m \in 0 .. n /\ k \in Nat
      /\ current # <<>> => m < n /\ k <= Len(built.packages[m + 1].entries)
  BY <1>1, Zenon DEF Collected
<1>3. /\ \A i \in 1 .. m : FrameNumber(version, i) < frame
      /\ \A i \in m + 1 .. n : FrameNumber(version, i) >= frame - 1
  BY <1>1, Zenon DEF FramesInOrder
<1>4. /\ n \in Nat /\ \A i \in 1 .. n : FrameNumber(version, i) \in Nat
  BY NumbersOfPackages, Zenon
<1>5. FrameLines(c, u, version, frame, built.packages, n)
  BY Zenon DEF FrameChart
<1>6. /\ \A i, l \in 0 .. n : i <= l => Upto(u, i) <= Upto(u, l)
      /\ \A i \in 1 .. n : FrameNumber(version, i) = frame - 1 => PackageLines(c, u, i, built.packages[i])
  BY <1>5, Zenon DEF FrameLines
<1>w. WrittenAll(built.packages)
  BY Zenon DEF Indexed
<1>. HIDE DEF m, n, k, N
\* no package of the frame ends behind the lines that were scanned
<1>7. ASSUME NEW i \in 1 .. n, m < i, FrameNumber(version, i) = frame - 1
      PROVE  N >= Upto(u, i - 1) + Len(built.packages[i].entries) + 1 /\ Upto(u, i - 1) \in Nat
             /\ Upto(u, m) <= Upto(u, i - 1) /\ Upto(u, m) \in Nat /\ Len(built.packages[i].entries) \in Nat \ {0} /\ N \in Nat
  <2>1. PackageLines(c, u, i, built.packages[i])
    BY <1>6, <1>7
  <2>2. Upto(u, i) = Upto(u, i - 1) + Len(built.packages[i].entries) + 1
    BY <2>1, Zenon DEF PackageLines
  <2>3. i \in 0 .. n /\ i - 1 \in 0 .. n /\ m <= i - 1 /\ m \in 0 .. n
    BY <1>2, <1>4, <1>7
  <2>4. Upto(u, i) <= N /\ Upto(u, i - 1) \in Nat /\ Upto(u, m) \in Nat /\ N \in Nat
    BY <2>3, UptoTyped DEF n, N
  <2>5. Upto(u, m) <= Upto(u, i - 1)
    BY <2>3, <1>6
  <2>6. Written(built.packages[i])
    BY <1>w, Zenon DEF WrittenAll, n
  <2>7. Len(built.packages[i].entries) \in Nat \ {0}
    BY <2>6, EmptySeq DEF Written
  <2>. QED  BY <2>2, <2>4, <2>5, <2>7
<1>8. current = <<>>
  <2>1. SUFFICES ASSUME current # <<>> PROVE FALSE
    OBVIOUS
  <2>2. m < n /\ k <= Len(built.packages[m + 1].entries) /\ FrameNumber(version, m + 1) = frame - 1
    BY <1>1, <1>2, <2>1
  <2>3. m + 1 \in 1 .. n /\ m < m + 1 /\ (m + 1) - 1 = m
    BY <1>2, <1>4, <2>2
  <2>4. N >= Upto(u, m) + Len(built.packages[m + 1].entries) + 1 /\ Upto(u, m) \in Nat /\ Len(built.packages[m + 1].entries) \in Nat \ {0}
    BY <1>7, <2>2, <2>3
  <2>. DEFINE x == Upto(u, m)
              E == Len(built.packages[m + 1].entries)
  <2>5. N >= x + E + 1 /\ x \in Nat /\ E \in Nat /\ k <= E /\ N = x + k /\ k \in Nat
    BY <1>1, <1>2, <2>2, <2>4
  <2>. HIDE DEF x, E
  <2>. QED  BY <2>5
<1>9. k = 0
  BY <1>8 DEF k
<1>10. ASSUME NEW i \in m + 1 .. n PROVE FrameNumber(version, i) >= frame
  <2>1. i \in 1 .. n /\ m < i
    BY <1>2, <1>4
  <2>2. FrameNumber(version, i) # frame - 1
    <3>1. SUFFICES ASSUME FrameNumber(version, i) = frame - 1 PROVE FALSE
      OBVIOUS
    <3>2. N >= Upto(u, i - 1) + Len(built.packages[i].entries) + 1 /\ Upto(u, i - 1) \in Nat
          /\ Upto(u, m) <= Upto(u, i - 1) /\ Upto(u, m) \in Nat /\ Len(built.packages[i].entries) \in Nat \ {0} /\ N \in Nat
      BY <1>7, <2>1, <3>1
    <3>3. N = Upto(u, m) + 0
      BY <1>1, <1>9
    <3>. DEFINE x == Upto(u, m)
                y == Upto(u, i - 1)
                E == Len(built.packages[i].entries)
    <3>4. N >= y + E + 1 /\ y \in Nat /\ x <= y /\ x \in Nat /\ E \in Nat /\ N = x + 0
      BY <3>2, <3>3
    <3>. HIDE DEF x, y, E
    <3>. QED  BY <3>4
  <2>. DEFINE F == FrameNumber(version, i)
  <2>3. F >= frame - 1 /\ F # frame - 1 /\ F \in Nat
    BY <1>3, <1>4, <2>1, <2>2
  <2>. HIDE DEF F
  <2>4. F >= frame
    BY <2>3
  <2>. QED  BY <2>4 DEF F
<1>. QED  BY <1>3, <1>8, <1>10, Zenon DEF Passed, m, n

----------------------------------------------------------------------------

\* The map at the end of a frame.
LEMMA MapGrows ==
  ASSUME Indexed, Collected, MapOK, Passed, frame \in Nat
  PROVE  /\ Len(NextMap) = Len(recorded) /\ DOMAIN NextMap = 1 .. Len(recorded)
         /\ NextMap = [i \in 1 .. Len(recorded) |-> FrameNumber(version, i)]
<1>. DEFINE m == Len(recorded)
            n == Len(built.packages)
            l == Len(map)
<1>1. n \in Nat /\ built.packages \in Seq(Range(built.packages)) /\ \A i \in 1 .. n : FrameNumber(version, i) \in Nat
  BY NumbersOfPackages, Zenon
<1>2. m \in 0 .. n /\ recorded = SubSeq(built.packages, 1, m)
  BY Zenon DEF Collected
<1>3. recorded \in Seq(Range(built.packages))
  BY <1>1, <1>2, FirstOf
<1>4. DOMAIN recorded = 1 .. m /\ m \in Nat /\ m <= n
  BY <1>1, <1>2, <1>3, LenProperties
<1>5. /\ l \in Nat /\ DOMAIN map = 1 .. l /\ l <= m
      /\ \A i \in 1 .. l : map[i] = FrameNumber(version, i)
      /\ \A i \in l + 1 .. n : FrameNumber(version, i) >= frame - 1
  BY Zenon DEF MapOK
<1>6. \A i \in 1 .. m : FrameNumber(version, i) < frame
  BY Zenon DEF Passed
<1>. HIDE DEF m, n, l
<1>7. ASSUME NEW i \in 1 .. m
      PROVE  (IF i \in 1 .. l THEN map[i] ELSE frame - 1) = FrameNumber(version, i)
  <2>1. CASE i \in 1 .. l
    BY <2>1, <1>5
  <2>2. CASE i \notin 1 .. l
    <3>. DEFINE F == FrameNumber(version, i)
    <3>1. i \in l + 1 .. n /\ i \in 1 .. n
      BY <2>2, <1>1, <1>4, <1>5
    <3>2. F >= frame - 1 /\ F < frame /\ F \in Nat
      BY <3>1, <1>1, <1>5, <1>6
    <3>. HIDE DEF F
    <3>3. F = frame - 1
      BY <3>2
    <3>. QED  BY <3>3, <2>2 DEF F
  <2>. QED  BY <2>1, <2>2
<1>8. NextMap = [i \in 1 .. m |-> IF i \in 1 .. l THEN map[i] ELSE frame - 1]
  BY <1>4, <1>5 DEF NextMap
<1>9. NextMap = [i \in 1 .. m |-> FrameNumber(version, i)]
  BY <1>7, <1>8
<1>10. Len(NextMap) = m
  <2>1. NextMap \in Seq({FrameNumber(version, i) : i \in 1 .. m}) /\ DOMAIN NextMap = 1 .. m
    BY <1>4, <1>9
  <2>. QED  BY <2>1, <1>4
<1>. QED  BY <1>9, <1>10, Zenon DEF m

\* Behind the last frame every package is recorded.
LEMMA AllRecorded ==
  ASSUME Indexed, Collected, Passed, frame = Len(frames)
  PROVE  recorded = built.packages
<1>. DEFINE m == Len(recorded)
            n == Len(built.packages)
<1>1. /\ n \in Nat /\ built.packages \in Seq(Range(built.packages)) /\ Len(frames) \in Nat
      /\ \A i \in 1 .. n : FrameNumber(version, i) \in Nat /\ FrameNumber(version, i) < Len(frames)
  BY NumbersOfPackages, Zenon
<1>2. m \in 0 .. n /\ recorded = SubSeq(built.packages, 1, m)
  BY Zenon DEF Collected
<1>3. \A i \in m + 1 .. n : FrameNumber(version, i) >= frame
  BY Zenon DEF Passed
<1>. HIDE DEF m, n
<1>4. m = n
  <2>1. SUFFICES ASSUME m # n PROVE FALSE
    OBVIOUS
  <2>2. n \in 1 .. n /\ n \in m + 1 .. n
    BY <1>1, <1>2, <2>1
  <2>. DEFINE F == FrameNumber(version, n)
  <2>3. F \in Nat /\ F < Len(frames) /\ F >= Len(frames)
    BY <1>1, <1>3, <2>2
  <2>. HIDE DEF F
  <2>. QED  BY <2>3, <1>1
<1>5. SubSeq(built.packages, 1, n) = built.packages
  BY <1>1, SubSeqFull DEF n
<1>. QED  BY <1>2, <1>4, <1>5

\* A step between opening a frame and its end.
InsideFrame == pc \in {"call", "read", "block"}
AllScanned  == pc \in {"write", "done", "dead"}

\* The decoder and the scan are about q of the lines of the frame.
WorkingOn(c, u, q) ==
  /\ FrameChart(c, u, frame) /\ stream = frames[frame]
  /\ Decoding(c, q) /\ ScanAt(c, u, q)

RegenerationInv ==
  /\ Indexed /\ Typed /\ Collected /\ frame \in 0 .. Len(frames)
  /\ InsideFrame \/ pc = "end" \/ AllScanned \/ pc = "error"
  /\ InsideFrame => MapOK /\ frame > 0 /\ \E c, u, q : WorkingOn(c, u, q)
  /\ pc = "end" => MapOK /\ Passed /\ current = <<>>
  /\ AllScanned =>
       recorded = built.packages /\ map = [i \in 1 .. Len(built.packages) |-> FrameNumber(version, i)]
  /\ pc = "error" => streaming

\* A decoder is open on one of the frames.
LEMMA FrameType ==
  ASSUME RegenerationInv
  PROVE  frame \in Nat /\ Len(frames) \in Nat /\ (InsideFrame => frame \in Nat \ {0} /\ frame \in 1 .. Len(frames))
<1>1. Indexed /\ frame \in 0 .. Len(frames) /\ (InsideFrame => frame > 0)
  BY Zenon DEF RegenerationInv
<1>2. Len(frames) \in Nat
  BY <1>1, NumbersOfPackages
<1>. QED  BY <1>1, <1>2

\* What it says of other variables stays true as long as they do.
LEMMA IndexStays ==
  ASSUME Indexed, UNCHANGED index
  PROVE  Indexed'
BY Zenon DEF Indexed, WrittenAll, Written, Named, StorePaths, index

\* So do the types,
LEMMA TypedStays ==
  ASSUME Typed, UNCHANGED <<reader, buffer, partial, call>>
  PROVE  Typed'
<1>1. UNCHANGED <<stream, streaming, at, avail, buf, size, last_path, shared, partial, resize, found, got, item>>
  BY Zenon DEF reader, buffer, call
<1>. QED  BY <1>1, Zenon DEF Typed, Left

\* what has been collected,
LEMMA CollectedStays ==
  ASSUME Collected, UNCHANGED <<index, scan>>
  PROVE  Collected'
BY Zenon DEF Collected, index, scan

\* and the map.
LEMMA MapStays ==
  ASSUME MapOK, UNCHANGED <<index, frame, map>>, Len(recorded') >= Len(recorded), Len(recorded) \in Nat, Len(recorded') \in Nat
  PROVE  MapOK'
<1>1. /\ Len(map) \in Nat /\ DOMAIN map = 1 .. Len(map) /\ Len(map) <= Len(recorded)
      /\ \A i \in 1 .. Len(map) : map[i] = FrameNumber(version, i)
      /\ \A i \in Len(map) + 1 .. Len(built.packages) : FrameNumber(version, i) >= frame - 1
  BY Zenon DEF MapOK
<1>2. map' = map /\ version' = version /\ built' = built /\ frame' = frame
  BY DEF index
<1>3. Len(map) <= Len(recorded')
  BY <1>1
<1>. QED  BY <1>1, <1>2, <1>3, Zenon DEF MapOK

----------------------------------------------------------------------------

\* A step of the decoder.
LEMMA DecodesOn ==
  ASSUME RegenerationInv, Decode, UNCHANGED <<index, frame, scan, stored, fresh>>
  PROVE  RegenerationInv'
<1>1. InsideFrame /\ pc # "block"
  BY DEF Decode, Call, Fill, AtEnd, Full, Take, Entry, Reading, InsideFrame
<1>2. /\ Indexed /\ Typed /\ Collected /\ frame \in 0 .. Len(frames) /\ MapOK /\ frame > 0
      /\ \E c, u, q : WorkingOn(c, u, q)
  BY <1>1, Zenon DEF RegenerationInv
<1>3. PICK c, u, q : WorkingOn(c, u, q)
  BY <1>2, Zenon
<1>4. FrameChart(c, u, frame) /\ stream = frames[frame] /\ Decoding(c, q) /\ ScanAt(c, u, q)
  BY <1>3, Zenon DEF WorkingOn
<1>5. /\ Typed' /\ UNCHANGED <<stream, streaming>>
      /\ \/ Decoding(c, q)' /\ pc' \in {"read", "block"}
         \/ q = LineCount(c) /\ pc' = "end"
         \/ streaming /\ pc' = "error"
  BY <1>4, DecodeStep
<1>6. Indexed' /\ Collected' /\ UNCHANGED <<version, built, frames, frame, map, recorded, current>>
  BY <1>2, IndexStays, CollectedStays DEF index, scan
<1>7. frame' \in 0 .. Len(frames') /\ frame' > 0
  BY <1>2, <1>6
<1>8. MapOK'
  BY <1>2, <1>6, Zenon DEF MapOK
<1>9. FrameChart(c, u, frame)' /\ stream' = frames'[frame'] /\ ScanAt(c, u, q)'
  <2>1. FrameChart(c, u, frame)'
    BY <1>4, <1>6, Zenon DEF FrameChart
  <2>2. stream' = frames'[frame']
    BY <1>4, <1>5, <1>6
  <2>3. FramesInOrder'
    BY <1>4, <1>6, Zenon DEF ScanAt, FramesInOrder
  <2>4. ScanAt(c, u, q)'
    BY <1>4, <1>6, <2>3, Zenon DEF ScanAt
  <2>. QED  BY <2>1, <2>2, <2>4
<1>10. CASE Decoding(c, q)' /\ pc' \in {"read", "block"}
  <2>1. WorkingOn(c, u, q)'
    BY <1>9, <1>10, Zenon DEF WorkingOn
  <2>2. InsideFrame' /\ pc' # "end" /\ ~AllScanned' /\ pc' # "error"
    BY <1>10 DEF InsideFrame, AllScanned
  <2>. QED  BY <1>5, <1>6, <1>7, <1>8, <2>1, <2>2, Zenon DEF RegenerationInv
<1>11. CASE q = LineCount(c) /\ pc' = "end"
  <2>1. frame \in Nat \ {0}
    BY <1>1, FrameType
  <2>2. current = <<>> /\ Passed
    BY <1>2, <1>4, <1>11, <2>1, EndOfFrame
  <2>3. current' = <<>> /\ Passed'
    BY <2>2, <1>6, Zenon DEF Passed
  <2>4. ~InsideFrame' /\ pc' = "end" /\ ~AllScanned' /\ pc' # "error"
    BY <1>11 DEF InsideFrame, AllScanned
  <2>. QED  BY <1>5, <1>6, <1>7, <1>8, <2>3, <2>4, Zenon DEF RegenerationInv
<1>12. CASE streaming /\ pc' = "error"
  <2>1. ~InsideFrame' /\ pc' # "end" /\ ~AllScanned' /\ streaming'
    BY <1>5, <1>12 DEF InsideFrame, AllScanned
  <2>. QED  BY <1>5, <1>6, <1>7, <1>12, <2>1, Zenon DEF RegenerationInv
<1>. QED  BY <1>5, <1>10, <1>11, <1>12

\* A step of the scan.
LEMMA ScansOn ==
  ASSUME RegenerationInv, Scan
  PROVE  RegenerationInv'
<1>1. pc = "block" /\ InsideFrame
  BY DEF Scan, InsideFrame
<1>2. /\ Indexed /\ Typed /\ Collected /\ frame \in 0 .. Len(frames) /\ MapOK /\ frame > 0
      /\ \E c, u, q : WorkingOn(c, u, q)
  BY <1>1, Zenon DEF RegenerationInv
<1>3. PICK c, u, q : WorkingOn(c, u, q)
  BY <1>2, Zenon
<1>4. FrameChart(c, u, frame) /\ stream = frames[frame] /\ Decoding(c, q) /\ ScanAt(c, u, q)
  BY <1>3, Zenon DEF WorkingOn
<1>5. frame \in Nat \ {0}
  BY <1>1, FrameType
<1>6. Len(recorded) \in 0 .. Len(built.packages) /\ Len(recorded) \in Nat
  <2>1. Len(recorded) \in 0 .. Len(built.packages)
    BY <1>2, Zenon DEF Collected
  <2>2. Len(built.packages) \in Nat
    BY <1>2, NumbersOfPackages
  <2>. QED  BY <2>1, <2>2
<1>7. Scanning(c, u, q)
  <2>1. Upto(u, Len(recorded)) \in Nat
    BY <1>2, <1>4, <1>6, UptoTyped
  <2>. QED  BY <1>2, <1>4, <1>5, <2>1, Zenon DEF Scanning, FrameChart, Indexed
<1>8. /\ Decoding(c, q + 1)' /\ ScanAt(c, u, q + 1)' /\ pc' \in {"call", "block"}
      /\ UNCHANGED <<reader, index, frame, map, stored, fresh>>
  BY <1>4, <1>7, ScanStep
<1>9. Indexed' /\ UNCHANGED <<version, built, frames, frame, map, stream>> /\ Typed' /\ Collected'
  <2>1. Typed'
    BY <1>8, Zenon DEF Decoding
  <2>2. Collected'
    BY <1>8, Zenon DEF ScanAt
  <2>3. Indexed'
    BY <1>2, <1>8, IndexStays
  <2>4. UNCHANGED <<version, built, frames, frame, map, stream>>
    BY <1>8 DEF index, reader
  <2>. QED  BY <2>1, <2>2, <2>3, <2>4, Zenon
<1>10. frame' \in 0 .. Len(frames') /\ frame' > 0
  BY <1>2, <1>9
<1>11. Len(recorded') >= Len(recorded) /\ Len(recorded') \in Nat
  <2>. DEFINE line == NextOne
  <2>1. recorded' = recorded \/ \E x : recorded' = Append(recorded, x)
    BY Zenon DEF Scan, ScanLine
  <2>2. recorded \in Seq(Range(built.packages))
    <3>1. recorded = SubSeq(built.packages, 1, Len(recorded))
      BY <1>2, Zenon DEF Collected
    <3>2. built.packages \in Seq(Range(built.packages))
      BY <1>2, NumbersOfPackages
    <3>. QED  BY <3>1, <3>2, <1>6, FirstOf
  <2>3. ASSUME NEW x, recorded' = Append(recorded, x) PROVE Len(recorded') = Len(recorded) + 1
    <3>1. x \in Range(built.packages) \cup {x} /\ recorded \in Seq(Range(built.packages) \cup {x})
      BY <2>2, SeqMonotonic
    <3>2. Len(Append(recorded, x)) = Len(recorded) + 1
      BY <3>1, AppendProperties
    <3>. QED  BY <3>2, <2>3
  <2>. QED  BY <2>1, <2>3, <1>6
<1>12. MapOK'
  BY <1>2, <1>6, <1>8, <1>11, MapStays
<1>13. FrameChart(c, u, frame)' /\ stream' = frames'[frame']
  <2>1. FrameChart(c, u, frame)'
    BY <1>4, <1>9, Zenon DEF FrameChart
  <2>. QED  BY <2>1, <1>4, <1>9, Zenon
<1>14. WorkingOn(c, u, q + 1)'
  BY <1>8, <1>13, Zenon DEF WorkingOn
<1>15. \E d, w, r : WorkingOn(d, w, r)'
  BY <1>14, Zenon
<1>16. InsideFrame' /\ pc' # "end" /\ ~AllScanned' /\ pc' # "error"
  BY <1>8 DEF InsideFrame, AllScanned
<1>. QED  BY <1>9, <1>10, <1>12, <1>15, <1>16, Zenon DEF RegenerationInv

\* The next frame is opened: a decoder over nothing but the frame is at the start of its chart.
LEMMA OpensFrame ==
  ASSUME RegenerationInv, NextFrame
  PROVE  RegenerationInv'
<1>1. /\ pc = "end" /\ frame < Len(frames)
      /\ DecoderOver(frames[frame + 1]) /\ size' \in Sizes /\ pc' = "call"
      /\ frame' = frame + 1 /\ map' = NextMap /\ current' = <<>>
      /\ UNCHANGED <<streaming, index, recorded, stored, fresh>>
  BY Zenon DEF NextFrame
<1>2. Indexed /\ Typed /\ Collected /\ frame \in 0 .. Len(frames) /\ MapOK /\ Passed
  BY <1>1, Zenon DEF RegenerationInv
<1>3. frame \in Nat /\ Len(frames) \in Nat
  BY FrameType
<1>4. frame + 1 \in 1 .. Len(frames) /\ frame + 1 > 0 /\ frame + 1 \in 0 .. Len(frames) /\ (frame + 1) - 1 = frame
  BY <1>1, <1>3
<1>5. PICK c, u : FrameChart(c, u, frame + 1)
  BY <1>2, <1>4, EveryFrameCharted
<1>6. Indexed' /\ UNCHANGED <<version, built, frames>>
  <2>1. Indexed'
    BY <1>1, <1>2, IndexStays
  <2>2. UNCHANGED <<version, built, frames>>
    BY <1>1 DEF index
  <2>. QED  BY <2>1, <2>2
<1>7. FrameChart(c, u, frame)'
  BY <1>1, <1>5, <1>6, Zenon DEF FrameChart
<1>8. Decoding(c, 0)'
  <2>1. Chart(c, frames[frame + 1]) /\ Shared(c, LineCount(c)) = 0
    BY <1>5, Zenon DEF FrameChart, FrameLines
  <2>2. size' \in Nat
    BY <1>1, CodingAssumption
  <2>3. streaming' \in BOOLEAN
    BY <1>1, <1>2, Zenon DEF Typed
  <2>. QED  BY <1>1, <2>1, <2>2, <2>3, StartsFrame
<1>9. /\ Len(recorded) \in 0 .. Len(built.packages) /\ recorded = SubSeq(built.packages, 1, Len(recorded))
      /\ Len(built.packages) \in Nat
  BY <1>2, NumbersOfPackages, Zenon DEF Collected
<1>10. Collected' /\ Len(current') = 0
  <2>1. Len(<<>>) = 0 /\ 0 \in Nat
    OBVIOUS
  <2>2. recorded' = recorded /\ built' = built /\ current' = <<>>
    BY <1>1, <1>6
  <2>. QED  BY <2>1, <2>2, <1>9, Zenon DEF Collected
<1>11. /\ \A i \in 1 .. Len(recorded) : FrameNumber(version, i) < frame
       /\ \A i \in Len(recorded) + 1 .. Len(built.packages) : FrameNumber(version, i) >= frame
  BY <1>2, Zenon DEF Passed
<1>12. \A i \in 1 .. Len(recorded) : FrameNumber(version, i) \in Nat
  <2>1. \A i \in 1 .. Len(recorded) : i \in 1 .. Len(built.packages)
    BY <1>9
  <2>. QED  BY <2>1, <1>2, NumbersOfPackages
<1>13. FramesInOrder'
  <2>1. \A i \in 1 .. Len(recorded) : FrameNumber(version, i) < frame + 1
    BY <1>3, <1>11, <1>12
  <2>2. \A i \in Len(recorded) + 1 .. Len(built.packages) : FrameNumber(version, i) >= (frame + 1) - 1
    BY <1>4, <1>11
  <2>3. recorded' = recorded /\ built' = built /\ version' = version /\ frame' = frame + 1
    BY <1>1, <1>6
  <2>. QED  BY <2>1, <2>2, <2>3, Zenon DEF FramesInOrder
<1>14. ScanAt(c, u, 0)'
  <2>1. Upto(u, Len(recorded)) = 0
    <3>1. \A l \in 1 .. Len(recorded) : FrameNumber(version, l) # (frame + 1) - 1
      BY <1>4, <1>11, <1>12, <1>3
    <3>2. FrameLines(c, u, version, frame + 1, built.packages, Len(built.packages))
      BY <1>5, Zenon DEF FrameChart
    <3>. QED  BY <3>1, <3>2, <1>9, Zenon DEF FrameLines
  <2>2. 0 = Upto(u, Len(recorded')) + Len(current')
    BY <2>1, <1>1, <1>10
  <2>. QED  BY <2>2, <1>1, <1>10, <1>13, Zenon DEF ScanAt
<1>15. WorkingOn(c, u, 0)'
  <2>1. stream' = frames'[frame']
    BY <1>1, <1>6 DEF DecoderOver
  <2>. QED  BY <2>1, <1>7, <1>8, <1>14, Zenon DEF WorkingOn
<1>16. MapOK'
  <2>1. Len(NextMap) = Len(recorded) /\ DOMAIN NextMap = 1 .. Len(recorded)
        /\ NextMap = [i \in 1 .. Len(recorded) |-> FrameNumber(version, i)]
    BY <1>2, <1>3, MapGrows
  <2>2. Len(NextMap) \in Nat /\ Len(NextMap) <= Len(recorded) /\ DOMAIN NextMap = 1 .. Len(NextMap)
    BY <2>1, <1>9
  <2>3. \A i \in 1 .. Len(NextMap) : NextMap[i] = FrameNumber(version, i)
    BY <2>1
  <2>4. \A i \in Len(NextMap) + 1 .. Len(built.packages) : FrameNumber(version, i) >= (frame + 1) - 1
    BY <2>1, <1>4, <1>11
  <2>5. recorded' = recorded /\ built' = built /\ version' = version /\ frame' = frame + 1 /\ map' = NextMap
    BY <1>1, <1>6
  <2>. HIDE DEF NextMap
  <2>. QED  BY <2>2, <2>3, <2>4, <2>5, Zenon DEF MapOK
<1>17. \E d, w, r : WorkingOn(d, w, r)'
  BY <1>15, Zenon
<1>18. Typed' /\ frame' \in 0 .. Len(frames') /\ frame' > 0
  BY <1>1, <1>4, <1>6, <1>8 DEF Decoding
<1>19. InsideFrame' /\ pc' # "end" /\ ~AllScanned' /\ pc' # "error"
  BY <1>1 DEF InsideFrame, AllScanned
<1>. QED  BY <1>6, <1>10, <1>16, <1>17, <1>18, <1>19, Zenon DEF RegenerationInv

\* Behind the last frame.
LEMMA ScansAll ==
  ASSUME RegenerationInv, Scanned
  PROVE  RegenerationInv'
<1>1. /\ pc = "end" /\ frame = Len(frames)
      /\ DecoderOver(<<>>) /\ size' = 0 /\ pc' = "write"
      /\ map' = NextMap /\ current' = <<>>
      /\ UNCHANGED <<streaming, index, frame, recorded, stored, fresh>>
  BY Zenon DEF Scanned
<1>2. Indexed /\ Typed /\ Collected /\ frame \in 0 .. Len(frames) /\ MapOK /\ Passed
  BY <1>1, Zenon DEF RegenerationInv
<1>3. frame \in Nat
  BY FrameType
<1>4. Indexed' /\ UNCHANGED <<version, built, frames, frame, recorded>>
  <2>1. Indexed'
    BY <1>1, <1>2, IndexStays
  <2>2. UNCHANGED <<version, built, frames, frame, recorded>>
    BY <1>1 DEF index
  <2>. QED  BY <2>1, <2>2
<1>5. Typed'
  <2>1. streaming' \in BOOLEAN
    BY <1>1, <1>2, Zenon DEF Typed
  <2>2. /\ stream' = <<>> /\ at' = 0 /\ avail' = 0
        /\ buf' = <<>> /\ last_path' = 0 /\ partial' = 0 /\ shared' = 0
        /\ resize' = TRUE /\ found' = FALSE /\ got' = FALSE /\ item' = 0 /\ size' = 0
    BY <1>1, Zenon DEF DecoderOver
  <2>3. Len(<<>>) = 0 /\ 0 \in 0 .. 0 /\ 0 - 0 = 0 /\ 0 \in Nat /\ 0 \in Int /\ 0 <= 0 /\ TRUE \in BOOLEAN /\ FALSE \in BOOLEAN
    OBVIOUS
  <2>4. at' \in 0 .. Len(stream') /\ avail' \in 0 .. Len(stream') - at' /\ last_path' \in 0 .. Len(buf') /\ Len(buf') <= size'
    BY <2>2, <2>3
  <2>. QED  BY <2>1, <2>2, <2>3, <2>4, Zenon DEF Typed, Left
<1>6. recorded = built.packages
  BY <1>1, <1>2, AllRecorded
<1>7. map' = [i \in 1 .. Len(built.packages) |-> FrameNumber(version, i)]
  <2>1. NextMap = [i \in 1 .. Len(recorded) |-> FrameNumber(version, i)]
    BY <1>2, <1>3, MapGrows
  <2>. QED  BY <2>1, <1>1, <1>6, Zenon
<1>8. Collected'
  <2>1. Len(<<>>) = 0 /\ 0 \in Nat
    OBVIOUS
  <2>2. recorded' = recorded /\ built' = built /\ current' = <<>>
    BY <1>1, <1>4
  <2>. QED  BY <2>1, <2>2, <1>2, Zenon DEF Collected
<1>9. ~InsideFrame' /\ pc' # "end" /\ AllScanned' /\ pc' # "error"
  BY <1>1 DEF InsideFrame, AllScanned
<1>10. recorded' = built'.packages /\ map' = [i \in 1 .. Len(built'.packages) |-> FrameNumber(version', i)]
  BY <1>4, <1>6, <1>7, Zenon
<1>11. frame' \in 0 .. Len(frames')
  BY <1>2, <1>4
<1>. QED  BY <1>4, <1>5, <1>8, <1>9, <1>10, <1>11, Zenon DEF RegenerationInv

\* Writing changes nothing of it.
LEMMA WritesOn ==
  ASSUME RegenerationInv, AllScanned, AllScanned', UNCHANGED <<reader, buffer, partial, call, index, frame, scan>>
  PROVE  RegenerationInv'
<1>1. /\ Indexed /\ Typed /\ Collected /\ frame \in 0 .. Len(frames)
      /\ recorded = built.packages /\ map = [i \in 1 .. Len(built.packages) |-> FrameNumber(version, i)]
  BY Zenon DEF RegenerationInv
<1>2. Indexed' /\ Typed' /\ Collected'
  BY <1>1, IndexStays, TypedStays, CollectedStays
<1>3. UNCHANGED <<version, built, frames, frame, recorded, map>>
  BY DEF index, scan
<1>4. /\ frame' \in 0 .. Len(frames') /\ recorded' = built'.packages
      /\ map' = [i \in 1 .. Len(built'.packages) |-> FrameNumber(version', i)]
  BY <1>1, <1>3, Zenon
<1>5. ~InsideFrame' /\ pc' # "end" /\ pc' # "error"
  BY DEF InsideFrame, AllScanned
<1>. QED  BY <1>2, <1>4, <1>5, Zenon DEF RegenerationInv

\* A step that changes nothing.
LEMMA Unmoved ==
  ASSUME RegenerationInv, UNCHANGED regeneration
  PROVE  RegenerationInv'
<1>1. /\ UNCHANGED <<reader, buffer, partial, call, index, frame, scan, pc, block>>
  BY Zenon DEF regeneration, decoder
<1>2. /\ Indexed /\ Typed /\ Collected /\ frame \in 0 .. Len(frames)
      /\ InsideFrame \/ pc = "end" \/ AllScanned \/ pc = "error"
      /\ InsideFrame => MapOK /\ frame > 0 /\ \E c, u, q : WorkingOn(c, u, q)
      /\ pc = "end" => MapOK /\ Passed /\ current = <<>>
      /\ AllScanned =>
           recorded = built.packages /\ map = [i \in 1 .. Len(built.packages) |-> FrameNumber(version, i)]
      /\ pc = "error" => streaming
  BY Zenon DEF RegenerationInv
<1>3. Indexed' /\ Typed' /\ Collected'
  BY <1>1, <1>2, IndexStays, TypedStays, CollectedStays
<1>4. UNCHANGED <<stream, streaming, at, avail, buf, size, last_path, shared, partial, resize, found, got, item,
                  version, built, frames, frame, recorded, current, map, pc, block>>
  BY <1>1 DEF reader, buffer, call, index, scan
<1>5. InsideFrame' <=> InsideFrame
  BY <1>4 DEF InsideFrame
<1>6. AllScanned' <=> AllScanned
  BY <1>4 DEF AllScanned
<1>7. MapOK => MapOK'
  BY <1>4, Zenon DEF MapOK
<1>8. Passed => Passed'
  BY <1>4, Zenon DEF Passed
<1>9. ASSUME NEW c, NEW u, NEW q, WorkingOn(c, u, q) PROVE WorkingOn(c, u, q)'
  <2>1. /\ FrameChart(c, u, frame) /\ stream = frames[frame]
        /\ Decoding(c, q) /\ ScanAt(c, u, q)
    BY <1>9, Zenon DEF WorkingOn
  <2>2. FrameChart(c, u, frame)'
    BY <2>1, <1>4, Zenon DEF FrameChart
  <2>3. InFrame(c, q)'
    <3>1. PICK b \in 0 .. Len(Text(c)), j \in 0 .. LineCount(c), r \in 0 .. LineCount(c) :
            /\ Chart(c, stream) /\ Shared(c, LineCount(c)) = 0 /\ Typed /\ Buffered(c, b)
            /\ (pc = "read" => ReadingAt(c, b, j, r)) /\ (pc # "read" => BetweenCalls(c, b, j, r))
            /\ q \in 0 .. r /\ (pc = "block" <=> q < r)
            /\ block = SubSeq(Text(c), EndAt(c, q) + 1, EndAt(c, r))
      BY <2>1, InFrameIs
    <3>2. Buffered(c, b)'
      BY <3>1, <1>4, Zenon DEF Buffered
    <3>3. Settled(c, b, j) => Settled(c, b, j)'
      BY <1>4, Zenon DEF Settled
    <3>4. Awaits(c, b, j) => Awaits(c, b, j)'
      BY <1>4, Zenon DEF Awaits
    <3>5. InMemory(c, j) => InMemory(c, j)'
      BY <1>4, Zenon DEF InMemory, Left
    <3>6. ReadingAt(c, b, j, r) => ReadingAt(c, b, j, r)'
      BY <3>3, <3>5, <1>4, Zenon DEF ReadingAt
    <3>7. BetweenCalls(c, b, j, r) => BetweenCalls(c, b, j, r)'
      BY <3>3, <3>4, <3>5, <1>4, Zenon DEF BetweenCalls
    <3>8. /\ (pc' = "read" => ReadingAt(c, b, j, r)') /\ (pc' # "read" => BetweenCalls(c, b, j, r)')
          /\ (pc' = "block" <=> q < r) /\ block' = SubSeq(Text(c), EndAt(c, q) + 1, EndAt(c, r))
      BY <3>1, <3>6, <3>7, <1>4, Zenon
    <3>. QED  BY <3>1, <3>2, <3>8, Zenon DEF InFrame
  <2>4. Decoding(c, q)'
    BY <2>1, <2>3, <1>3, <1>4, Zenon DEF Decoding
  <2>5. FramesInOrder'
    BY <2>1, <1>4, Zenon DEF ScanAt, FramesInOrder
  <2>6. ScanAt(c, u, q)'
    BY <2>1, <2>5, <1>3, <1>4, Zenon DEF ScanAt
  <2>. QED  BY <2>1, <2>2, <2>4, <2>6, <1>4, Zenon DEF WorkingOn
<1>10. ASSUME InsideFrame' PROVE MapOK' /\ frame' > 0 /\ \E c, u, q : WorkingOn(c, u, q)'
  <2>1. MapOK' /\ frame' > 0
    BY <1>2, <1>4, <1>5, <1>7, <1>10, Zenon
  <2>2. PICK c, u, q : WorkingOn(c, u, q)
    BY <1>2, <1>5, <1>10, Zenon
  <2>3. WorkingOn(c, u, q)'
    BY <2>2, <1>9
  <2>. QED  BY <2>1, <2>3, Zenon
<1>11. ASSUME AllScanned'
       PROVE  recorded' = built'.packages /\ map' = [i \in 1 .. Len(built'.packages) |-> FrameNumber(version', i)]
  BY <1>2, <1>4, <1>6, <1>11, Zenon
<1>12. frame' \in 0 .. Len(frames') /\ (InsideFrame' \/ pc' = "end" \/ AllScanned' \/ pc' = "error")
       /\ (pc' = "end" => MapOK' /\ Passed' /\ current' = <<>>) /\ (pc' = "error" => streaming')
  BY <1>2, <1>4, <1>5, <1>6, <1>7, <1>8
<1>. QED  BY <1>3, <1>10, <1>11, <1>12, Zenon DEF RegenerationInv

\* Every step keeps the inductive invariant.
LEMMA StepInv ==
  ASSUME RegenerationInv, [RegenerationNext]_regeneration
  PROVE  RegenerationInv'
<1>1. CASE Decode /\ UNCHANGED <<index, frame, scan, stored, fresh>>
  BY <1>1, DecodesOn
<1>2. CASE Scan
  BY <1>2, ScansOn
<1>3. CASE NextFrame
  BY <1>3, OpensFrame
<1>4. CASE Scanned
  BY <1>4, ScansAll
<1>5. CASE WriteFile
  <2>1. pc = "write" /\ UNCHANGED <<reader, buffer, partial, call, index, frame, scan>> /\ pc' \in {"done", "write"}
    BY <1>5 DEF WriteFile
  <2>2. AllScanned /\ AllScanned'
    BY <2>1 DEF AllScanned
  <2>. QED  BY <2>1, <2>2, WritesOn
<1>6. CASE DieWriting
  <2>1. pc = "write" /\ UNCHANGED <<reader, buffer, partial, call, index, frame, scan>> /\ pc' = "dead"
    BY <1>6 DEF DieWriting
  <2>2. AllScanned /\ AllScanned'
    BY <2>1 DEF AllScanned
  <2>. QED  BY <2>1, <2>2, WritesOn
<1>7. CASE Stopped
  BY <1>7, Unmoved, Zenon DEF Stopped
<1>8. CASE UNCHANGED regeneration
  BY <1>8, Unmoved
<1>. QED  BY <1>1, <1>2, <1>3, <1>4, <1>5, <1>6, <1>7, <1>8, Zenon DEF RegenerationNext

\* The first elements of a sequence are a prefix of it.
LEMMA FirstIsPrefix ==
  ASSUME NEW S, NEW s \in Seq(S), NEW k \in 0 .. Len(s), NEW f, f = SubSeq(s, 1, k)
  PROVE  IsPrefix(f, s)
<1>1. f \in Seq(S) /\ Len(f) = k
  BY FirstOf
<1>2. SubSeq(f, 1, Len(f)) = f
  BY <1>1, SubSeqFull
<1>3. Len(f) <= Len(s)
  BY <1>1
<1>. QED  BY <1>1, <1>2, <1>3, Zenon DEF IsPrefix

\* The places a decoder remembers lie in its buffer.
LEMMA WithinBuffer ==
  ASSUME NEW c, NEW q, Decoding(c, q)
  PROVE  (pc = "call" => partial <= Len(buf)) /\ (pc = "read" => item <= Len(buf))
<1>1. PICK b \in 0 .. Len(Text(c)), j \in 0 .. LineCount(c), r \in 0 .. LineCount(c) :
        /\ Buffered(c, b)
        /\ (pc = "read" => ReadingAt(c, b, j, r)) /\ (pc # "read" => BetweenCalls(c, b, j, r))
  BY InFrameIs
<1>2. Len(buf) \in Nat
  <2>1. Window(Text(c), b, buf)
    BY <1>1, Zenon DEF Buffered
  <2>. QED  BY <2>1, WindowLen
<1>3. ASSUME pc = "read" PROVE item <= Len(buf)
  <2>1. item \in 0 .. Len(buf)
    BY <1>1, <1>3, Zenon DEF ReadingAt
  <2>. QED  BY <2>1, <1>2
<1>4. ASSUME pc = "call" PROVE partial <= Len(buf)
  <2>1. partial \in 0 .. Len(buf)
    BY <1>1, <1>4, Zenon DEF BetweenCalls
  <2>. QED  BY <2>1, <1>2
<1>. QED  BY <1>3, <1>4

\* The inductive invariant implies the property.
LEMMA InvDecodesWhole ==
  ASSUME RegenerationInv
  PROVE  DecodesWhole
<1>1. /\ Indexed /\ Typed /\ Collected
      /\ InsideFrame \/ pc = "end" \/ AllScanned \/ pc = "error"
      /\ InsideFrame => \E c, u, q : WorkingOn(c, u, q)
      /\ AllScanned => recorded = built.packages
      /\ pc = "error" => streaming
  BY Zenon DEF RegenerationInv
<1>2. DecoderWithin
  <2>1. pc \in {"call", "read", "block", "end", "error", "write", "done", "dead"}
    BY <1>1 DEF InsideFrame, AllScanned
  <2>2. ASSUME InsideFrame PROVE (pc = "call" => partial <= Len(buf)) /\ (pc = "read" => item <= Len(buf))
    <3>1. PICK c, u, q : WorkingOn(c, u, q)
      BY <1>1, <2>2, Zenon
    <3>2. Decoding(c, q)
      BY <3>1, Zenon DEF WorkingOn
    <3>. QED  BY <3>2, WithinBuffer, Zenon
  <2>3. (pc = "call" => partial <= Len(buf)) /\ (pc = "read" => item <= Len(buf))
    <3>1. pc \in {"call", "read"} => InsideFrame
      BY DEF InsideFrame
    <3>. QED  BY <2>2, <3>1
  <2>. QED  BY <1>1, <2>1, <2>3, Zenon DEF DecoderWithin, Typed
<1>3. /\ Len(built.packages) \in Nat /\ built.packages \in Seq(Range(built.packages))
      /\ WrittenAll(built.packages)
  BY <1>1, NumbersOfPackages, Zenon DEF Indexed
<1>. DEFINE m == Len(recorded)
            k == Len(current)
            package == built.packages[m + 1]
<1>4. /\ m \in 0 .. Len(built.packages) /\ recorded = SubSeq(built.packages, 1, m) /\ k \in Nat
      /\ current # <<>> => m < Len(built.packages) /\ k <= Len(package.entries) /\ current = SubSeq(package.entries, 1, k)
  BY <1>1, Zenon DEF Collected
<1>5. IsPrefix(recorded, built.packages)
  <2>. HIDE DEF m
  <2>. QED  BY <1>3, <1>4, FirstIsPrefix
<1>6. ASSUME current # <<>> PROVE m < Len(built.packages) /\ IsPrefix(current, package.entries)
  <2>1. m < Len(built.packages) /\ k <= Len(package.entries) /\ current = SubSeq(package.entries, 1, k)
    BY <1>4, <1>6
  <2>2. m + 1 \in 1 .. Len(built.packages)
    <3>. HIDE DEF m
    <3>. QED  BY <2>1, <1>3, <1>4
  <2>3. package.entries \in Seq(Range(package.entries))
    BY <2>2, <1>3, Zenon DEF WrittenAll, Written
  <2>. DEFINE es == package.entries
  <2>4. es \in Seq(Range(es)) /\ k <= Len(es) /\ current = SubSeq(es, 1, k) /\ Len(es) \in Nat
    BY <2>1, <2>3
  <2>. HIDE DEF es, k
  <2>5. k \in 0 .. Len(es)
    BY <2>4, <1>4
  <2>6. IsPrefix(current, es)
    BY <2>4, <2>5, FirstIsPrefix
  <2>. QED  BY <2>1, <2>6 DEF es
<1>7. pc \in {"write", "done", "dead"} => recorded = built.packages
  BY <1>1 DEF AllScanned
<1>. QED  BY <1>1, <1>2, <1>5, <1>6, <1>7, Zenon DEF DecodesWhole

----------------------------------------------------------------------------
(***************************************************************************)
(* What is put into an index can be read back: the order of a list, the    *)
(* nodes of a listing, their metadata and paths.                           *)
(***************************************************************************)

(***************************************************************************)
(* A strict total order on a finite set: each place in it is taken.        *)
(***************************************************************************)
StrictOrder(S, R) ==
  /\ \A x \in S : <<x, x>> \notin R
  /\ \A x, y, z \in S : <<x, y>> \in R /\ <<y, z>> \in R => <<x, z>> \in R
  /\ \A x, y \in S : x # y => <<x, y>> \in R \/ <<y, x>> \in R

\* By induction over the rank: the least member of those above is the next.
LEMMA RankTaken ==
  ASSUME NEW S, IsFiniteSet(S), NEW R, StrictOrder(S, R), NEW i \in 1 .. Cardinality(S)
  PROVE  \E x \in S : Cardinality({y \in S : <<y, x>> \in R}) = i - 1
<1>. DEFINE n == Cardinality(S)
            below(x) == {y \in S : <<y, x>> \in R}
            f == [x \in S |-> Cardinality(below(x))]
<1>1. n \in Nat
  BY FS_CardinalityType
<1>2. ASSUME NEW x \in S PROVE IsFiniteSet(below(x)) /\ Cardinality(below(x)) \in 0 .. n - 1
  <2>1. IsFiniteSet(S \ {x}) /\ Cardinality(S \ {x}) = n - 1
    BY FS_RemoveElement
  <2>2. below(x) \subseteq S \ {x}
    BY DEF StrictOrder
  <2>. HIDE DEF below
  <2>3. IsFiniteSet(below(x)) /\ Cardinality(below(x)) <= n - 1
    BY <2>1, <2>2, FS_Subset
  <2>4. Cardinality(below(x)) \in Nat
    BY <2>3, FS_CardinalityType
  <2>. QED  BY <2>3, <2>4, <1>1
<1>3. ASSUME NEW x \in S, NEW z \in S, <<x, z>> \in R PROVE Cardinality(below(x)) # Cardinality(below(z))
  <2>1. below(x) \subseteq below(z)
    BY <1>3 DEF StrictOrder
  <2>2. x \in below(z) /\ x \notin below(x)
    BY <1>3 DEF StrictOrder
  <2>3. IsFiniteSet(below(z))
    BY <1>2
  <2>. HIDE DEF below
  <2>. QED  BY <2>1, <2>2, <2>3, FS_Subset
<1>. DEFINE T == 0 .. n - 1
<1>4. f \in [S -> T]
  BY <1>2
<1>5. ASSUME NEW x \in S, NEW z \in S, f[x] = f[z] PROVE x = z
  <2>1. Cardinality(below(x)) = Cardinality(below(z))
    BY <1>5
  <2>2. <<x, z>> \notin R /\ <<z, x>> \notin R
    BY <2>1, <1>3
  <2>. QED  BY <2>2 DEF StrictOrder
<1>6. f \in Injection(S, T)
  <2>. HIDE DEF f, T
  <2>. QED  BY <1>4, <1>5 DEF Injection, IsInjective
<1>7. IsFiniteSet(T) /\ Cardinality(T) = n
  <2>1. IsFiniteSet(0 .. n - 1) /\ Cardinality(0 .. n - 1) = (IF 0 > n - 1 THEN 0 ELSE n - 1 - 0 + 1)
    <3>1. 0 \in Int /\ n - 1 \in Int
      BY <1>1
    <3>. QED  BY <3>1, FS_Interval
  <2>. HIDE DEF n
  <2>. QED  BY <1>1, <2>1
<1>8. f \in Surjection(S, T)
  <2>. HIDE DEF f, T
  <2>. QED  BY <1>6, <1>7, FS_Injection
<1>9. i - 1 \in T
  BY <1>1
<1>10. \E x \in S : f[x] = i - 1
  <2>. HIDE DEF f, T
  <2>. QED  BY <1>8, <1>9 DEF Surjection
<1>. QED  BY <1>10

----------------------------------------------------------------------------
(***************************************************************************)
(* The order of sequences by the first elements in which they differ.      *)
(***************************************************************************)
Agree(a, b, n) == n \in Nat /\ n <= Len(a) /\ n <= Len(b) /\ \A i \in 1 .. n : a[i] = b[i]
LexAt(a, b, R, n) ==
  /\ Agree(a, b, n) /\ n < Len(b)
  /\ n = Len(a) \/ (n < Len(a) /\ <<a[n + 1], b[n + 1]>> \in R)
Lex(a, b, R) == \E n \in Nat : LexAt(a, b, R, n)
LexOrder(S, R) == {p \in S \X S : Lex(p[1], p[2], R)}

\* It is an order ...
LEMMA LexIrreflexive ==
  ASSUME NEW E, NEW R, StrictOrder(E, R), NEW a \in Seq(E)
  PROVE  ~Lex(a, a, R)
<1>1. SUFFICES ASSUME NEW n \in Nat, LexAt(a, a, R, n) PROVE FALSE
  BY Zenon DEF Lex
<1>2. Len(a) \in Nat
  OBVIOUS
<1>3. n < Len(a) /\ <<a[n + 1], a[n + 1]>> \in R
  BY <1>1, <1>2 DEF LexAt
<1>4. n + 1 \in 1 .. Len(a)
  BY <1>2, <1>3
<1>5. a[n + 1] \in E
  BY <1>4
<1>. QED  BY <1>3, <1>5, Zenon DEF StrictOrder

\* ... that is transitive ...
LEMMA LexTransitive ==
  ASSUME NEW E, NEW R, StrictOrder(E, R), NEW a \in Seq(E), NEW b \in Seq(E), NEW c \in Seq(E),
         Lex(a, b, R), Lex(b, c, R)
  PROVE  Lex(a, c, R)
<1>1. PICK n \in Nat : LexAt(a, b, R, n)
  BY Zenon DEF Lex
<1>2. PICK m \in Nat : LexAt(b, c, R, m)
  BY Zenon DEF Lex
<1>3. Len(a) \in Nat /\ Len(b) \in Nat /\ Len(c) \in Nat
  OBVIOUS
<1>4. /\ n <= Len(a) /\ n <= Len(b) /\ (\A i \in 1 .. n : a[i] = b[i]) /\ n < Len(b)
      /\ n = Len(a) \/ (n < Len(a) /\ <<a[n + 1], b[n + 1]>> \in R)
  BY <1>1, Zenon DEF LexAt, Agree
<1>5. /\ m <= Len(b) /\ m <= Len(c) /\ (\A i \in 1 .. m : b[i] = c[i]) /\ m < Len(c)
      /\ m = Len(b) \/ (m < Len(b) /\ <<b[m + 1], c[m + 1]>> \in R)
  BY <1>2, Zenon DEF LexAt, Agree
<1>6. CASE n < m
  <2>1. n + 1 \in 1 .. m /\ n < Len(c) /\ n <= Len(c) /\ \A i \in 1 .. n : i \in 1 .. m
    BY <1>3, <1>5, <1>6
  <2>2. b[n + 1] = c[n + 1] /\ \A i \in 1 .. n : a[i] = c[i]
    BY <2>1, <1>4, <1>5
  <2>3. LexAt(a, c, R, n)
    BY <2>1, <2>2, <1>4, Zenon DEF LexAt, Agree
  <2>. QED  BY <2>3, Zenon DEF Lex
<1>7. CASE n = m
  <2>1. m # Len(b)
    BY <1>3, <1>4, <1>7
  <2>2. m < Len(b) /\ <<b[n + 1], c[n + 1]>> \in R
    BY <2>1, <1>5, <1>7
  <2>3. \A i \in 1 .. n : a[i] = c[i]
    BY <1>4, <1>5, <1>7
  <2>4. n = Len(a) \/ (n < Len(a) /\ <<a[n + 1], c[n + 1]>> \in R)
    <3>1. SUFFICES ASSUME n < Len(a), <<a[n + 1], b[n + 1]>> \in R PROVE <<a[n + 1], c[n + 1]>> \in R
      BY <1>4, Zenon
    <3>2. n + 1 \in 1 .. Len(a) /\ n + 1 \in 1 .. Len(b) /\ n + 1 \in 1 .. Len(c)
      BY <1>3, <1>4, <1>5, <1>7, <3>1
    <3>3. a[n + 1] \in E /\ b[n + 1] \in E /\ c[n + 1] \in E
      BY <3>2
    <3>. DEFINE x == a[n + 1]
                y == b[n + 1]
                z == c[n + 1]
    <3>4. <<x, y>> \in R /\ <<y, z>> \in R /\ x \in E /\ y \in E /\ z \in E
      BY <2>2, <3>1, <3>3
    <3>. HIDE DEF x, y, z
    <3>5. <<x, z>> \in R
      BY <3>4 DEF StrictOrder
    <3>. QED  BY <3>5 DEF x, z
  <2>5. LexAt(a, c, R, n)
    BY <2>3, <2>4, <1>4, <1>5, <1>7, Zenon DEF LexAt, Agree
  <2>. QED  BY <2>5, Zenon DEF Lex
<1>8. CASE m < n
  <2>1. m + 1 \in 1 .. n /\ m < Len(a) /\ m <= Len(a) /\ m # Len(b) /\ \A i \in 1 .. m : i \in 1 .. n
    BY <1>3, <1>4, <1>8
  <2>2. a[m + 1] = b[m + 1] /\ \A i \in 1 .. m : a[i] = c[i]
    BY <2>1, <1>4, <1>5
  <2>3. LexAt(a, c, R, m)
    BY <2>1, <2>2, <1>5, Zenon DEF LexAt, Agree
  <2>. QED  BY <2>3, Zenon DEF Lex
<1>. QED  BY <1>6, <1>7, <1>8

\* ... and total, ...
LEMMA LexTotal ==
  ASSUME NEW E, NEW R, StrictOrder(E, R), NEW a \in Seq(E), NEW b \in Seq(E), a # b
  PROVE  Lex(a, b, R) \/ Lex(b, a, R)
<1>. DEFINE T == {i \in Nat : i >= 1 /\ i <= Len(a) /\ i <= Len(b) /\ a[i] # b[i]}
<1>1. Len(a) \in Nat /\ Len(b) \in Nat /\ T \subseteq Nat
  OBVIOUS
<1>2. CASE T # {}
  <2>1. PICK k \in T : \A j \in T : k <= j
    <3>. HIDE DEF T
    <3>. QED  BY <1>1, <1>2, Smallest
  <2>. DEFINE n == k - 1
  <2>2. n \in Nat /\ n + 1 = k /\ n < Len(a) /\ n < Len(b) /\ n <= Len(a) /\ n <= Len(b) /\ a[k] # b[k]
        /\ k \in 1 .. Len(a) /\ k \in 1 .. Len(b)
    BY <2>1, <1>1
  <2>3. ASSUME NEW i \in 1 .. n PROVE a[i] = b[i]
    <3>1. i \in Nat /\ i >= 1 /\ i <= Len(a) /\ i <= Len(b) /\ ~(k <= i)
      BY <2>2, <1>1
    <3>. QED  BY <3>1, <2>1
  <2>4. a[k] \in E /\ b[k] \in E
    BY <2>2
  <2>5. <<a[k], b[k]>> \in R \/ <<b[k], a[k]>> \in R
    BY <2>2, <2>4, Zenon DEF StrictOrder
  <2>. HIDE DEF n
  <2>6. Agree(a, b, n) /\ Agree(b, a, n)
    BY <2>2, <2>3, Zenon DEF Agree
  <2>7. LexAt(a, b, R, n) \/ LexAt(b, a, R, n)
    BY <2>2, <2>5, <2>6, Zenon DEF LexAt
  <2>. QED  BY <2>2, <2>7, Zenon DEF Lex
<1>3. CASE T = {}
  <2>1. ASSUME NEW i \in Nat, i >= 1, i <= Len(a), i <= Len(b) PROVE a[i] = b[i]
    BY <1>3, <2>1
  <2>2. CASE Len(a) = Len(b)
    <3>1. \A i \in 1 .. Len(a) : a[i] = b[i]
      BY <2>1, <2>2, <1>1
    <3>. QED  BY <2>2, <3>1, SameSeq
  <2>3. CASE Len(a) < Len(b)
    <3>1. \A i \in 1 .. Len(a) : a[i] = b[i]
      BY <2>1, <2>3, <1>1
    <3>2. Len(a) <= Len(a) /\ Len(a) <= Len(b)
      BY <2>3, <1>1
    <3>3. LexAt(a, b, R, Len(a))
      BY <2>3, <3>1, <3>2, <1>1 DEF LexAt, Agree
    <3>. QED  BY <3>3, <1>1, Zenon DEF Lex
  <2>4. CASE Len(b) < Len(a)
    <3>1. \A i \in 1 .. Len(b) : b[i] = a[i]
      BY <2>1, <2>4, <1>1
    <3>2. Len(b) <= Len(a) /\ Len(b) <= Len(b)
      BY <2>4, <1>1
    <3>3. LexAt(b, a, R, Len(b))
      BY <2>4, <3>1, <3>2, <1>1 DEF LexAt, Agree
    <3>. QED  BY <3>3, <1>1, Zenon DEF Lex
  <2>. QED  BY <2>2, <2>3, <2>4, <1>1
<1>. QED  BY <1>2, <1>3

\* ... if that of the elements is.
LEMMA LexStrict ==
  ASSUME NEW E, NEW R, StrictOrder(E, R)
  PROVE  StrictOrder(Seq(E), LexOrder(Seq(E), R))
<1>. DEFINE S == Seq(E)
            L == LexOrder(S, R)
<1>1. \A x, y \in S : <<x, y>> \in L <=> Lex(x, y, R)
  BY DEF LexOrder
<1>2. \A x \in S : ~Lex(x, x, R)
  BY LexIrreflexive
<1>3. \A x, y, z \in S : Lex(x, y, R) /\ Lex(y, z, R) => Lex(x, z, R)
  BY LexTransitive
<1>4. \A x, y \in S : x # y => Lex(x, y, R) \/ Lex(y, x, R)
  BY LexTotal
<1>. HIDE DEF S, L
<1>5. StrictOrder(S, L)
  BY <1>1, <1>2, <1>3, <1>4, Zenon DEF StrictOrder
<1>. QED  BY <1>5 DEF S, L

\* Equal prefixes are equal at each place.
LEMMA SamePrefix ==
  ASSUME NEW S, NEW a \in Seq(S), NEW b \in Seq(S), NEW n \in Nat, n <= Len(a), n <= Len(b)
  PROVE  SubSeq(a, 1, n) = SubSeq(b, 1, n) <=> \A i \in 1 .. n : a[i] = b[i]
<1>. DEFINE f == SubSeq(a, 1, n)
            g == SubSeq(b, 1, n)
<1>1. n \in 0 .. Len(a) /\ n \in 0 .. Len(b)
  OBVIOUS
<1>2. f \in Seq(S) /\ Len(f) = n /\ \A i \in 1 .. n : f[i] = a[i]
  BY <1>1, FirstOf
<1>3. g \in Seq(S) /\ Len(g) = n /\ \A i \in 1 .. n : g[i] = b[i]
  BY <1>1, FirstOf
<1>. HIDE DEF f, g
<1>4. ASSUME \A i \in 1 .. n : a[i] = b[i] PROVE f = g
  <2>1. Len(f) = Len(g) /\ \A i \in 1 .. Len(f) : f[i] = g[i]
    BY <1>2, <1>3, <1>4
  <2>. QED  BY <2>1, <1>2, <1>3, SameSeq
<1>5. ASSUME f = g PROVE \A i \in 1 .. n : a[i] = b[i]
  BY <1>2, <1>3, <1>5
<1>. QED  BY <1>4, <1>5 DEF f, g

\* The order as the model writes it.
LEMMA LexIs ==
  ASSUME NEW S, NEW a \in Seq(S), NEW b \in Seq(S), NEW R
  PROVE  Lex(a, b, R) <=>
           \E n \in 0 .. Len(a) :
             /\ n < Len(b) /\ SubSeq(a, 1, n) = SubSeq(b, 1, n)
             /\ n = Len(a) \/ <<a[n + 1], b[n + 1]>> \in R
<1>1. Len(a) \in Nat /\ Len(b) \in Nat
  OBVIOUS
<1>2. ASSUME NEW n \in Nat, LexAt(a, b, R, n)
      PROVE  /\ n \in 0 .. Len(a) /\ n < Len(b) /\ SubSeq(a, 1, n) = SubSeq(b, 1, n)
             /\ n = Len(a) \/ <<a[n + 1], b[n + 1]>> \in R
  <2>1. /\ n <= Len(a) /\ n <= Len(b) /\ (\A i \in 1 .. n : a[i] = b[i]) /\ n < Len(b)
        /\ n = Len(a) \/ (n < Len(a) /\ <<a[n + 1], b[n + 1]>> \in R)
    BY <1>2, Zenon DEF LexAt, Agree
  <2>2. SubSeq(a, 1, n) = SubSeq(b, 1, n)
    BY <2>1, SamePrefix
  <2>3. n \in 0 .. Len(a)
    BY <2>1, <1>1
  <2>. QED  BY <2>1, <2>2, <2>3, Zenon
<1>3. ASSUME NEW n \in 0 .. Len(a), n < Len(b), SubSeq(a, 1, n) = SubSeq(b, 1, n),
             n = Len(a) \/ <<a[n + 1], b[n + 1]>> \in R
      PROVE  n \in Nat /\ LexAt(a, b, R, n)
  <2>1. n \in Nat /\ n <= Len(a) /\ n <= Len(b) /\ (n # Len(a) => n < Len(a))
    BY <1>1, <1>3
  <2>2. \A i \in 1 .. n : a[i] = b[i]
    BY <2>1, <1>3, SamePrefix
  <2>3. n = Len(a) \/ (n < Len(a) /\ <<a[n + 1], b[n + 1]>> \in R)
    BY <2>1, <1>3, Zenon
  <2>. QED  BY <2>1, <2>2, <2>3, <1>3, Zenon DEF LexAt, Agree
<1>. QED  BY <1>2, <1>3, Zenon DEF Lex

\* The order of names, and that of the nodes of a tree.
Numbers == {p \in Int \X Int : p[1] < p[2]}
Names   == {p \in Seq(Int) \X Seq(Int) : Before(p[2], p[1])}

\* Names are compared character by character,
LEMMA BeforeIsLex ==
  ASSUME NEW a \in Seq(Int), NEW b \in Seq(Int)
  PROVE  Before(a, b) <=> Lex(a, b, Numbers)
<1>1. Len(a) \in Nat /\ Len(b) \in Nat
  OBVIOUS
<1>2. ASSUME NEW n \in 0 .. Len(a), n < Len(b)
      PROVE  (n = Len(a) \/ a[n + 1] < b[n + 1]) <=> (n = Len(a) \/ <<a[n + 1], b[n + 1]>> \in Numbers)
  <2>1. SUFFICES ASSUME n # Len(a) PROVE a[n + 1] < b[n + 1] <=> <<a[n + 1], b[n + 1]>> \in Numbers
    OBVIOUS
  <2>2. n + 1 \in 1 .. Len(a) /\ n + 1 \in 1 .. Len(b)
    BY <1>1, <1>2, <2>1
  <2>3. a[n + 1] \in Int /\ b[n + 1] \in Int
    BY <2>2
  <2>. QED  BY <2>3 DEF Numbers
<1>3. Before(a, b) <=>
        \E n \in 0 .. Len(a) :
          /\ n < Len(b) /\ SubSeq(a, 1, n) = SubSeq(b, 1, n)
          /\ n = Len(a) \/ <<a[n + 1], b[n + 1]>> \in Numbers
  BY <1>2, Zenon DEF Before
<1>. QED  BY <1>3, LexIs

\* which orders them,
LEMMA NamesOrdered == StrictOrder(Seq(Int), Names)
<1>. DEFINE S == Seq(Int)
            L == LexOrder(S, Numbers)
<1>1. StrictOrder(Int, Numbers)
  <2>1. \A x \in Int : <<x, x>> \notin Numbers
    BY DEF Numbers
  <2>2. \A x, y, z \in Int : <<x, y>> \in Numbers /\ <<y, z>> \in Numbers => <<x, z>> \in Numbers
    BY DEF Numbers
  <2>3. \A x, y \in Int : x # y => <<x, y>> \in Numbers \/ <<y, x>> \in Numbers
    BY DEF Numbers
  <2>. QED  BY <2>1, <2>2, <2>3, Zenon DEF StrictOrder
<1>2. StrictOrder(S, L)
  BY <1>1, LexStrict
<1>3. \A x, y \in S : <<x, y>> \in Names <=> <<y, x>> \in L
  <2>1. \A x, y \in S : <<x, y>> \in Names <=> Before(y, x)
    BY DEF Names
  <2>2. \A x, y \in S : <<y, x>> \in L <=> Lex(y, x, Numbers)
    BY DEF LexOrder
  <2>. QED  BY <2>1, <2>2, BeforeIsLex
<1>. HIDE DEF S, L
<1>4. StrictOrder(S, Names)
  <2>1. \A x \in S : <<x, x>> \notin L
    BY <1>2, Zenon DEF StrictOrder
  <2>2. \A x, y, z \in S : <<x, y>> \in L /\ <<y, z>> \in L => <<x, z>> \in L
    BY <1>2, Zenon DEF StrictOrder
  <2>3. \A x, y \in S : x # y => <<x, y>> \in L \/ <<y, x>> \in L
    BY <1>2, Zenon DEF StrictOrder
  <2>4. \A x \in S : <<x, x>> \notin Names
    BY <1>3, <2>1, Zenon
  <2>5. ASSUME NEW x \in S, NEW y \in S, NEW z \in S, <<x, y>> \in Names, <<y, z>> \in Names PROVE <<x, z>> \in Names
    <3>1. <<z, y>> \in L /\ <<y, x>> \in L
      BY <1>3, <2>5, Zenon
    <3>2. <<z, x>> \in L
      BY <2>2, <3>1, Zenon
    <3>. QED  BY <1>3, <3>2, Zenon
  <2>6. ASSUME NEW x \in S, NEW y \in S, x # y PROVE <<x, y>> \in Names \/ <<y, x>> \in Names
    BY <1>3, <2>3, <2>6, Zenon
  <2>. QED  BY <2>4, <2>5, <2>6, Zenon DEF StrictOrder
<1>. QED  BY <1>4 DEF S

\* and the nodes of a tree by their names,
LEMMA TreeIsLex ==
  ASSUME NEW a \in Seq(Seq(Int)), NEW b \in Seq(Seq(Int))
  PROVE  BeforeInTree(a, b) <=> Lex(a, b, Names)
<1>1. Len(a) \in Nat /\ Len(b) \in Nat
  OBVIOUS
<1>2. ASSUME NEW n \in 0 .. Len(a), n < Len(b)
      PROVE  (n = Len(a) \/ Before(b[n + 1], a[n + 1])) <=> (n = Len(a) \/ <<a[n + 1], b[n + 1]>> \in Names)
  <2>1. SUFFICES ASSUME n # Len(a) PROVE Before(b[n + 1], a[n + 1]) <=> <<a[n + 1], b[n + 1]>> \in Names
    OBVIOUS
  <2>2. n + 1 \in 1 .. Len(a) /\ n + 1 \in 1 .. Len(b)
    BY <1>1, <1>2, <2>1
  <2>3. a[n + 1] \in Seq(Int) /\ b[n + 1] \in Seq(Int)
    BY <2>2, ElementOfSeq
  <2>. QED  BY <2>3 DEF Names
<1>3. BeforeInTree(a, b) <=>
        \E n \in 0 .. Len(a) :
          /\ n < Len(b) /\ SubSeq(a, 1, n) = SubSeq(b, 1, n)
          /\ n = Len(a) \/ <<a[n + 1], b[n + 1]>> \in Names
  BY <1>2, Zenon DEF BeforeInTree
<1>. QED  BY <1>3, LexIs

\* so that a sorted set of nodes lists each rank.
LEMMA TreeOrdered ==
  ASSUME NEW S, IsFiniteSet(S), S \subseteq Seq(Seq(Int)), NEW order, order = Sorted(S, BeforeInTree)
  PROVE  /\ Cardinality(S) \in Nat /\ DOMAIN order = 1 .. Cardinality(S)
         /\ \A i \in 1 .. Cardinality(S) : order[i] \in S
<1>. DEFINE R == LexOrder(Seq(Seq(Int)), Names)
<1>1. StrictOrder(Seq(Seq(Int)), R)
  BY NamesOrdered, LexStrict
<1>2. \A x, y \in S : <<x, y>> \in R <=> BeforeInTree(x, y)
  <2>1. \A x, y \in Seq(Seq(Int)) : <<x, y>> \in R <=> Lex(x, y, Names)
    BY DEF LexOrder
  <2>2. \A x, y \in Seq(Seq(Int)) : BeforeInTree(x, y) <=> Lex(x, y, Names)
    BY TreeIsLex
  <2>. HIDE DEF R
  <2>. QED  BY <2>1, <2>2
<1>. HIDE DEF R
<1>3. StrictOrder(S, R)
  <2>. DEFINE U == Seq(Seq(Int))
  <2>1. S \subseteq U /\ StrictOrder(U, R)
    BY <1>1
  <2>. HIDE DEF U
  <2>2. \A x \in S : x \in U
    BY <2>1
  <2>. QED  BY <2>1, <2>2, Zenon DEF StrictOrder
<1>. DEFINE n == Cardinality(S)
            Of(i) == CHOOSE x \in S : Cardinality({y \in S : BeforeInTree(y, x)}) = i - 1
<1>4. ASSUME NEW i \in 1 .. n PROVE Of(i) \in S
  <2>1. PICK x \in S : Cardinality({y \in S : <<y, x>> \in R}) = i - 1
    BY <1>3, RankTaken
  <2>2. {y \in S : <<y, x>> \in R} = {y \in S : BeforeInTree(y, x)}
    BY <1>2
  <2>3. Cardinality({y \in S : BeforeInTree(y, x)}) = i - 1
    BY <2>1, <2>2
  <2>. QED  BY <2>3, Zenon
<1>5. order = [i \in 1 .. n |-> Of(i)]
  BY Zenon DEF Sorted
<1>6. n \in Nat
  BY FS_CardinalityType
<1>. HIDE DEF n, Of
<1>7. DOMAIN order = 1 .. n /\ \A i \in 1 .. n : order[i] \in S
  BY <1>4, <1>5
<1>. QED  BY <1>6, <1>7 DEF n

\* The nodes of a tree whose lines can be written.
Sized   == {"executable", "regular", "directory"}
IsSized(node) == \E k \in Sized, n \in 0 .. 9 : node = [kind |-> k, size |-> n]
IsLink(node)  == \E t \in Seq(Plain) : node = [kind |-> "symlink", target |-> t]

\* The characters of the kinds, of a footer and of digits differ from each other and from the separators.
LEMMA TagsApart ==
  /\ DOMAIN Tag = {"executable", "regular", "symlink", "directory"}
  /\ \A k, l \in DOMAIN Tag : Tag[k] = Tag[l] => k = l
  /\ \A k \in DOMAIN Tag : Tag[k] \in Plain /\ Tag[k] # P
  /\ \A n \in 0 .. 9 : Digit(n) \in Plain /\ Digit(n) - Digit(0) = n
<1>1. DOMAIN Tag = {"executable", "regular", "symlink", "directory"}
  BY DEF Tag
<1>2. \A k, l \in DOMAIN Tag : Tag[k] = Tag[l] => k = l
  BY <1>1 DEF Tag
<1>3. \A k \in DOMAIN Tag : Tag[k] \in Int /\ Tag[k] # P
  BY <1>1 DEF Tag, P
<1>4. \A n \in 0 .. 9 : Digit(n) \in Int /\ Digit(n) - Digit(0) = n
  BY DEF Digit
<1>5. \A c \in {P, Slash} \cup {Digit(n) : n \in 0 .. 9} \cup Range(Tag) : c \notin Separators
  BY InputsAssumption, Zenon
<1>6. \A k \in DOMAIN Tag : Tag[k] \notin Separators
  BY <1>5, Zenon DEF Range
<1>7. \A n \in 0 .. 9 : Digit(n) \notin Separators
  BY <1>5, Zenon
<1>8. \A x : x \in Int /\ x \notin Separators => x \in Plain
  BY DEF Plain, Separators
<1>. QED  BY <1>1, <1>2, <1>3, <1>4, <1>6, <1>7, <1>8, Zenon

\* Metadata with a size is read as what was written.
LEMMA MetaOfSized ==
  ASSUME NEW k \in Sized, NEW n \in 0 .. 9, NEW node, node = [kind |-> k, size |-> n],
         NEW meta, meta = EncodeMeta(node)
  PROVE  meta \in Seq(Plain) /\ meta # <<P>> /\ DecodesMeta(meta) /\ DecodeMeta(meta) = node
<1>1. k \in DOMAIN Tag /\ k # "symlink"
  BY TagsApart DEF Sized
<1>2. meta = <<Digit(n), Tag[k]>>
  BY <1>1 DEF EncodeMeta
<1>. DEFINE x == Digit(n)
            y == Tag[k]
<1>3. x \in Plain /\ y \in Plain /\ x - Digit(0) = n /\ x \in {Digit(j) : j \in 0 .. 9}
      /\ y \in {Tag[j] : j \in DOMAIN Tag} /\ \A j \in DOMAIN Tag : Tag[j] = y <=> j = k
  BY <1>1, TagsApart, Zenon
<1>4. meta = <<x, y>>
  BY <1>2
<1>5. "symlink" \in DOMAIN Tag
  BY TagsApart
<1>6. y # Tag["symlink"]
  BY <1>1, <1>3, <1>5, Zenon
<1>. HIDE DEF x, y
<1>7. meta \in Seq(Plain) /\ Len(meta) = 2 /\ meta # << >> /\ meta[1] = x /\ Last(meta) = y
  <2>1. meta \in Seq(Plain) /\ Len(meta) = 2 /\ meta # << >> /\ meta[1] = x /\ meta[2] = y
    <3>. DEFINE U == Plain
    <3>1. x \in U /\ y \in U
      BY <1>3
    <3>. HIDE DEF U
    <3>2. <<x, y>> \in Seq(U) /\ Len(<<x, y>>) = 2 /\ <<x, y>>[1] = x /\ <<x, y>>[2] = y
      BY <3>1
    <3>3. Len(<< >>) = 0
      OBVIOUS
    <3>4. meta # << >>
      BY <3>2, <3>3, <1>4, SMTT(60)
    <3>. QED  BY <3>2, <3>4, <1>4 DEF U
  <2>2. Last(meta) = meta[2]
    BY <2>1, Zenon DEF Last
  <2>. QED  BY <2>1, <2>2, Zenon
<1>8. meta # <<P>>
  BY <1>7
<1>9. DecodesMeta(meta)
  BY <1>3, <1>7, Zenon DEF DecodesMeta
<1>10. (CHOOSE j \in DOMAIN Tag : Tag[j] = Last(meta)) = k
  BY <1>1, <1>3, <1>7, Zenon
<1>11. DecodeMeta(meta) = [kind |-> k, size |-> meta[1] - Digit(0)]
  BY <1>1, <1>10, Zenon DEF DecodeMeta
<1>12. DecodeMeta(meta) = [kind |-> k, size |-> n]
  BY <1>3, <1>7, <1>11, Zenon
<1>. QED  BY <1>7, <1>8, <1>9, <1>12, Zenon

\* So is that of a link.
LEMMA MetaOfLink ==
  ASSUME NEW t \in Seq(Plain), NEW node, node = [kind |-> "symlink", target |-> t],
         NEW meta, meta = EncodeMeta(node)
  PROVE  meta \in Seq(Plain) /\ meta # <<P>> /\ DecodesMeta(meta) /\ DecodeMeta(meta) = node
<1>1. "symlink" \in DOMAIN Tag
  BY TagsApart
<1>. DEFINE y == Tag["symlink"]
<1>2. y \in Plain /\ y # P /\ y \in {Tag[j] : j \in DOMAIN Tag} /\ \A j \in DOMAIN Tag : Tag[j] = y <=> j = "symlink"
  BY <1>1, TagsApart, Zenon
<1>3. meta = Append(t, y)
  BY DEF EncodeMeta
<1>4. y = Tag.symlink
  OBVIOUS
<1>. HIDE DEF y
<1>5. meta \in Seq(Plain) /\ Len(meta) = Len(t) + 1 /\ meta[Len(t) + 1] = y /\ Len(t) \in Nat
      /\ \A i \in 1 .. Len(t) : meta[i] = t[i]
  BY <1>2, <1>3
<1>6. meta # << >> /\ Last(meta) = y
  BY <1>5 DEF Last
<1>7. meta # <<P>>
  <2>1. SUFFICES ASSUME meta = <<P>> PROVE FALSE
    OBVIOUS
  <2>2. Len(meta) = 1 /\ meta[1] = P
    BY <2>1
  <2>. QED  BY <2>2, <1>2, <1>5
<1>8. DecodesMeta(meta)
  BY <1>2, <1>4, <1>6, Zenon DEF DecodesMeta
<1>9. Front(meta) = t
  <2>1. Len(t) \in 0 .. Len(meta) /\ Len(meta) - 1 = Len(t)
    BY <1>5
  <2>. DEFINE f == SubSeq(meta, 1, Len(t))
  <2>2. f \in Seq(Plain) /\ Len(f) = Len(t) /\ \A i \in 1 .. Len(t) : f[i] = meta[i]
    BY <2>1, <1>5, FirstOf
  <2>. HIDE DEF f
  <2>3. f = t
    <3>1. Len(f) = Len(t) /\ \A i \in 1 .. Len(f) : f[i] = t[i]
      BY <2>2, <1>5
    <3>. QED  BY <3>1, <2>2, SameSeq
  <2>4. Front(meta) = SubSeq(meta, 1, Len(t))
    BY <2>1, Zenon DEF Front
  <2>. QED  BY <2>3, <2>4 DEF f
<1>10. (CHOOSE j \in DOMAIN Tag : Tag[j] = Last(meta)) = "symlink"
  BY <1>1, <1>2, <1>6, Zenon
<1>11. DecodeMeta(meta) = [kind |-> "symlink", target |-> Front(meta)]
  BY <1>10, Zenon DEF DecodeMeta
<1>. QED  BY <1>5, <1>7, <1>8, <1>9, <1>11, Zenon

\* A path is characters.
LEMMA PathTyped ==
  ASSUME NEW p \in Seq(Seq(Int))
  PROVE  PathOf(p) \in Seq(Int)
<1>. DEFINE n == Len(p)
            g == [i \in 1 .. n |-> <<Slash>> \o p[i]]
<1>1. n \in Nat /\ DOMAIN p = 1 .. n /\ \A i \in 1 .. n : p[i] \in Seq(Int)
  OBVIOUS
<1>2. <<Slash>> \in Seq(Int)
  BY DEF Slash
<1>. HIDE DEF n
<1>3. \A i \in 1 .. n : <<Slash>> \o p[i] \in Seq(Int)
  BY <1>1, <1>2, ConcatAt
<1>4. g \in [1 .. n -> Seq(Int)]
  BY <1>3
<1>5. FlattenSeq(g) \in Seq(Int)
  <2>. HIDE DEF g
  <2>. QED  BY <1>1, <1>4, FlattenType
<1>6. PathOf(p) = FlattenSeq(g)
  BY <1>1, Zenon DEF PathOf
<1>. QED  BY <1>5, <1>6

\* The entries of a listing are its nodes with their paths.
NodeAt(ls, p) == [path |-> PathOf(p), node |-> Tree(ls)[p]]

\* The list of a tree has only its nodes.
LEMMA EntriesOfTree ==
  ASSUME NEW ls, IsListing(ls), NEW prefix, NEW list, list = ToList(Tree(ls), prefix)
  PROVE  list \in Seq({NodeAt(ls, p) : p \in DOMAIN ls})
<1>. DEFINE T == {p \in DOMAIN Tree(ls) : Starts(PathOf(p), prefix)}
            order == Sorted(T, BeforeInTree)
            n == Cardinality(T)
<1>1. IsFiniteSet(DOMAIN ls) /\ DOMAIN ls \subseteq Seq(Seq(Int)) /\ DOMAIN Tree(ls) = DOMAIN ls
  BY DEF IsListing, Tree
<1>2. T \subseteq DOMAIN ls
  BY <1>1
<1>3. IsFiniteSet(T)
  <2>. HIDE DEF T
  <2>. QED  BY <1>1, <1>2, FS_Subset
<1>4. list = [i \in DOMAIN order |-> NodeAt(ls, order[i])]
  BY Zenon DEF ToList, NodeAt
<1>5. T \subseteq Seq(Seq(Int))
  BY <1>1, <1>2
<1>6. order = Sorted(T, BeforeInTree)
  OBVIOUS
<1>. HIDE DEF T, order
<1>7. n \in Nat /\ DOMAIN order = 1 .. n /\ \A i \in 1 .. n : order[i] \in T
  BY <1>3, <1>5, <1>6, TreeOrdered
<1>. HIDE DEF n
<1>8. list = [i \in 1 .. n |-> NodeAt(ls, order[i])] /\ \A i \in 1 .. n : NodeAt(ls, order[i]) \in {NodeAt(ls, p) : p \in DOMAIN ls}
  BY <1>2, <1>4, <1>7, Zenon
<1>. QED  BY <1>7, <1>8

\* A sequence has only members of its range.
LEMMA InItsRange ==
  ASSUME NEW S, NEW s \in Seq(S)
  PROVE  s \in Seq(Range(s)) /\ DOMAIN s = 1 .. Len(s) /\ Len(s) \in Nat /\ \A i \in 1 .. Len(s) : s[i] \in S
<1>1. DOMAIN s = 1 .. Len(s) /\ Len(s) \in Nat /\ (\A i \in 1 .. Len(s) : s[i] \in S) /\ s = [i \in 1 .. Len(s) |-> s[i]]
  OBVIOUS
<1>. DEFINE R == Range(s)
<1>2. \A i \in 1 .. Len(s) : s[i] \in R
  BY <1>1, Zenon DEF Range
<1>. HIDE DEF R
<1>3. s \in [1 .. Len(s) -> R]
  BY <1>1, <1>2
<1>4. s \in Seq(R)
  BY <1>1, <1>3
<1>. QED  BY <1>1, <1>4 DEF R

\* What is taken of a sequence.
LEMMA OneOrNone ==
  ASSUME NEW T, NEW h, NEW e, h = << >> \/ (e \in T /\ h = <<e>>)
  PROVE  h \in Seq(T)
<1>1. << >> \in Seq(T)
  OBVIOUS
<1>2. e \in T => <<e>> \in Seq(T)
  OBVIOUS
<1>. QED  BY <1>1, <1>2, Zenon

\* Only those are taken that are let through.
LEMMA TakenOf ==
  ASSUME NEW S, NEW T, NEW s \in Seq(S), NEW g, DOMAIN g = DOMAIN s, g = [i \in DOMAIN s |-> g[i]],
         \A i \in DOMAIN s : g[i] = << >> \/ (s[i] \in T /\ g[i] = <<s[i]>>)
  PROVE  FlattenSeq(g) \in Seq(T)
<1>. DEFINE n == Len(s)
<1>1. n \in Nat /\ DOMAIN s = 1 .. n
  OBVIOUS
<1>2. ASSUME NEW i \in 1 .. n PROVE g[i] \in Seq(T)
  <2>1. g[i] = << >> \/ (s[i] \in T /\ g[i] = <<s[i]>>)
    BY <1>1
  <2>. QED  BY <2>1, OneOrNone, Zenon
<1>. HIDE DEF n
<1>3. g \in [1 .. n -> Seq(T)]
  BY <1>1, <1>2
<1>. QED  BY <1>1, <1>3, FlattenType

\* Sequences of characters that are none of the separators.
LEMMA NoSeparator ==
  ASSUME NEW t \in Seq(Int), \A i \in DOMAIN t : t[i] \notin Separators
  PROVE  t \in Seq(Plain)
<1>1. DOMAIN t = 1 .. Len(t) /\ Len(t) \in Nat /\ (\A i \in 1 .. Len(t) : t[i] \in Int) /\ t = [i \in 1 .. Len(t) |-> t[i]]
  OBVIOUS
<1>2. \A i \in 1 .. Len(t) : t[i] \in Plain
  BY <1>1 DEF Plain, Separators
<1>. DEFINE U == Plain
<1>3. \A i \in 1 .. Len(t) : t[i] \in U
  BY <1>2
<1>. HIDE DEF U
<1>4. t \in Seq(U)
  BY <1>1, <1>3
<1>. QED  BY <1>4 DEF U

(***************************************************************************)
(* Metadata, round trip: what encode writes for a node has no separator,   *)
(* is not taken for a footer, and is decoded as that node.                 *)
(***************************************************************************)
THEOREM MetaReads ==
  ASSUME NEW node, IsSized(node) \/ IsLink(node)
  PROVE  /\ EncodeMeta(node) \in Seq(Plain) /\ EncodeMeta(node) # <<P>>
         /\ DecodesMeta(EncodeMeta(node)) /\ DecodeMeta(EncodeMeta(node)) = node
<1>. DEFINE meta == EncodeMeta(node)
<1>1. meta = EncodeMeta(node)
  OBVIOUS
<1>. HIDE DEF meta
<1>2. meta \in Seq(Plain) /\ meta # <<P>> /\ DecodesMeta(meta) /\ DecodeMeta(meta) = node
  <2>1. ASSUME IsSized(node) PROVE meta \in Seq(Plain) /\ meta # <<P>> /\ DecodesMeta(meta) /\ DecodeMeta(meta) = node
    <3>1. PICK k \in Sized, n \in 0 .. 9 : node = [kind |-> k, size |-> n]
      BY <2>1, Zenon DEF IsSized
    <3>. QED  BY <1>1, <3>1, MetaOfSized, Zenon
  <2>2. ASSUME IsLink(node) PROVE meta \in Seq(Plain) /\ meta # <<P>> /\ DecodesMeta(meta) /\ DecodeMeta(meta) = node
    <3>1. PICK t \in Seq(Plain) : node = [kind |-> "symlink", target |-> t]
      BY <2>2, Zenon DEF IsLink
    <3>. QED  BY <1>1, <3>1, MetaOfLink, Zenon
  <2>. QED  BY <2>1, <2>2
<1>. QED  BY <1>1, <1>2, Zenon

\* The nodes of a listing that is accepted are of these kinds.
LEMMA NodesOfTree ==
  ASSUME NEW ls, IsListing(ls), Listed(ls), NEW p \in DOMAIN ls, NEW node, node = Tree(ls)[p],
         node.kind = "symlink" => \A i \in DOMAIN node.target : node.target[i] \notin Separators
  PROVE  IsSized(node) \/ IsLink(node)
<1>1. /\ Cardinality(Children(ls, p)) \in 0 .. 9
      /\ "size" \in DOMAIN ls[p] => ls[p].size \in 0 .. 9
      /\ "target" \in DOMAIN ls[p] => ls[p].target \in Seq(Int)
  BY Zenon DEF IsListing
<1>2. /\ ls[p].type \in {"regular", "symlink", "directory"}
      /\ ls[p].type = "symlink" => "target" \in DOMAIN ls[p]
  BY Zenon DEF Listed
<1>3. node = CASE ls[p].type = "regular" ->
                    [kind |-> IF "executable" \in DOMAIN ls[p] THEN "executable" ELSE "regular",
                     size |-> IF "size" \in DOMAIN ls[p] THEN ls[p].size ELSE 0]
               [] ls[p].type = "symlink"   -> [kind |-> "symlink", target |-> ls[p].target]
               [] ls[p].type = "directory" -> [kind |-> "directory", size |-> Cardinality(Children(ls, p))]
  BY Zenon DEF Tree
<1>4. ASSUME ls[p].type = "regular" PROVE IsSized(node)
  <2>. DEFINE k == IF "executable" \in DOMAIN ls[p] THEN "executable" ELSE "regular"
              n == IF "size" \in DOMAIN ls[p] THEN ls[p].size ELSE 0
  <2>1. node = [kind |-> k, size |-> n]
    BY <1>3, <1>4
  <2>2. k \in Sized
    BY DEF Sized
  <2>3. n \in 0 .. 9
    BY <1>1
  <2>. QED  BY <2>1, <2>2, <2>3, Zenon DEF IsSized
<1>5. ASSUME ls[p].type = "directory" PROVE IsSized(node)
  <2>. DEFINE n == Cardinality(Children(ls, p))
  <2>1. node = [kind |-> "directory", size |-> n]
    BY <1>3, <1>5
  <2>2. "directory" \in Sized
    BY DEF Sized
  <2>. QED  BY <2>1, <2>2, <1>1, Zenon DEF IsSized
<1>6. ASSUME ls[p].type = "symlink" PROVE IsLink(node)
  <2>1. node = [kind |-> "symlink", target |-> ls[p].target] /\ ls[p].target \in Seq(Int)
    BY <1>1, <1>2, <1>3, <1>6
  <2>2. node.kind = "symlink" /\ node.target = ls[p].target
    BY <2>1
  <2>3. ls[p].target \in Seq(Plain)
    <3>. DEFINE t == ls[p].target
    <3>1. t \in Seq(Int) /\ \A i \in DOMAIN t : t[i] \notin Separators
      BY <2>1, <2>2
    <3>. HIDE DEF t
    <3>2. t \in Seq(Plain)
      BY <3>1, NoSeparator
    <3>. QED  BY <3>2 DEF t
  <2>. QED  BY <2>1, <2>3, Zenon DEF IsLink
<1>. QED  BY <1>2, <1>4, <1>5, <1>6

\* An entry that the encoder accepts can be read back.
LEMMA EntryReadable ==
  ASSUME NEW ls, IsListing(ls), Listed(ls), NEW p \in DOMAIN ls, NEW e, e = NodeAt(ls, p), Encodable(e, Separators)
  PROVE  Readable(e)
<1>. DEFINE node == Tree(ls)[p]
            path == PathOf(p)
<1>1. e = [path |-> path, node |-> node]
  BY DEF NodeAt
<1>2. p \in Seq(Seq(Int))
  BY DEF IsListing
<1>3. path \in Seq(Int)
  BY <1>2, PathTyped
<1>4. node = Tree(ls)[p]
  OBVIOUS
<1>. HIDE DEF node, path
<1>5. e.path = path /\ e.node = node
  BY <1>1
<1>6. /\ \A i \in DOMAIN path : path[i] \notin Separators
      /\ node.kind = "symlink" => \A i \in DOMAIN node.target : node.target[i] \notin Separators
  BY <1>5, Zenon DEF Encodable
<1>7. path \in Seq(Plain)
  BY <1>3, <1>6, NoSeparator, Zenon
<1>8. IsSized(node) \/ IsLink(node)
  BY <1>4, <1>6, NodesOfTree, Zenon
<1>9. /\ EncodeMeta(node) \in Seq(Plain) /\ EncodeMeta(node) # <<P>>
      /\ DecodesMeta(EncodeMeta(node)) /\ DecodeMeta(EncodeMeta(node)) = node
  BY <1>8, MetaReads, Zenon
<1>. QED  BY <1>1, <1>5, <1>7, <1>9, Zenon DEF Readable

\* The entries of a package can be read.
LEMMA EntriesReadable ==
  ASSUME NEW package, IsListing(package.listing), Listed(package.listing), NEW prefix,
         NEW entries, entries = Entries(package, prefix)
  PROVE  entries \in Seq(Range(entries)) /\ Len(entries) \in Nat /\ \A e \in 1 .. Len(entries) : Readable(entries[e])
<1>. DEFINE ls == package.listing
            S == {NodeAt(ls, p) : p \in DOMAIN ls}
            T == {e \in S : Encodable(e, Separators)}
            list == ToList(Tree(ls), prefix)
            Good(e) == (\A x \in Excluded : ~Starts(e.path, x)) /\ Encodable(e, Separators)
            g == [i \in DOMAIN list |-> IF Good(list[i]) THEN <<list[i]>> ELSE << >>]
<1>1. entries = FlattenSeq(g)
  BY Zenon DEF Entries, Only
<1>2. list \in Seq(S)
  BY EntriesOfTree
<1>3. ASSUME NEW e \in T PROVE Readable(e)
  <2>1. PICK p \in DOMAIN ls : e = NodeAt(ls, p)
    OBVIOUS
  <2>. QED  BY <2>1, EntryReadable
<1>. HIDE DEF list
<1>4. DOMAIN g = DOMAIN list /\ g = [i \in DOMAIN list |-> g[i]]
  OBVIOUS
<1>5. \A i \in DOMAIN list : list[i] \in S
  BY <1>2
<1>6. ASSUME NEW i \in DOMAIN list
      PROVE  g[i] = << >> \/ (list[i] \in T /\ g[i] = <<list[i]>>)
  <2>1. g[i] = IF Good(list[i]) THEN <<list[i]>> ELSE << >>
    OBVIOUS
  <2>2. list[i] \in S
    BY <1>5
  <2>. HIDE DEF g, S
  <2>. QED  BY <2>1, <2>2, Zenon
<1>. HIDE DEF g, S, T
<1>7. entries \in Seq(T)
  BY <1>1, <1>2, <1>4, <1>6, TakenOf
<1>. QED  BY <1>3, <1>7, InItsRange

\* The packages of an input that are put in.
LEMMA KeptOf ==
  ASSUME NEW given, given.packages \in Seq(Range(given.packages)), NEW kept,
         kept = Only(given.packages, LAMBDA p : Listed(p.listing) /\ Entries(p, given.prefix) # <<>>)
  PROVE  kept \in Seq({p \in Range(given.packages) : Listed(p.listing) /\ Entries(p, given.prefix) # << >>})
<1>. DEFINE pkgs == given.packages
            S == Range(pkgs)
            Good(p) == Listed(p.listing) /\ Entries(p, given.prefix) # << >>
            T == {p \in S : Good(p)}
            g == [i \in DOMAIN pkgs |-> IF Good(pkgs[i]) THEN <<pkgs[i]>> ELSE << >>]
<1>1. kept = FlattenSeq(g)
  BY Zenon DEF Only
<1>2. pkgs \in Seq(S)
  OBVIOUS
<1>. HIDE DEF pkgs, Good
<1>3. DOMAIN g = DOMAIN pkgs /\ g = [i \in DOMAIN pkgs |-> g[i]]
  OBVIOUS
<1>. HIDE DEF S
<1>4. \A i \in DOMAIN pkgs : pkgs[i] \in S
  BY <1>2
<1>5. ASSUME NEW i \in DOMAIN pkgs
      PROVE  g[i] = << >> \/ (pkgs[i] \in T /\ g[i] = <<pkgs[i]>>)
  <2>1. g[i] = IF Good(pkgs[i]) THEN <<pkgs[i]>> ELSE << >>
    OBVIOUS
  <2>2. pkgs[i] \in S
    BY <1>4
  <2>. HIDE DEF g
  <2>. QED  BY <2>1, <2>2, Zenon
<1>. HIDE DEF g, T
<1>6. kept \in Seq(T)
  BY <1>1, <1>2, <1>3, <1>5, TakenOf
<1>. QED  BY <1>6 DEF T, S, pkgs, Good

\* What an input gives for one of them can be written and read.
LEMMA GivenWritten ==
  ASSUME input \in Inputs, NEW p \in Range(input.packages), Listed(p.listing), NEW prefix,
         Entries(p, prefix) # << >>, NEW package, package = Recorded(p.store_path, Entries(p, prefix))
  PROVE  Written(package)
<1>. DEFINE es == Entries(p, prefix)
            sp == p.store_path
<1>1. /\ IsListing(p.listing) /\ sp.json \in Seq(Int \ Separators)
      /\ \A q \in Range(input.packages) : sp.json = q.store_path.json => sp = q.store_path
  <2>1. /\ IsListing(p.listing) /\ sp.json \in Seq(Int \ Separators)
        /\ \A i, j \in DOMAIN input.packages :
             input.packages[i].store_path.json = input.packages[j].store_path.json => i = j
    BY InputsAssumption, Zenon
  <2>2. ASSUME NEW q \in Range(input.packages), sp.json = q.store_path.json PROVE sp = q.store_path
    <3>1. PICK i \in DOMAIN input.packages : input.packages[i] = p
      BY Zenon DEF Range
    <3>2. PICK j \in DOMAIN input.packages : input.packages[j] = q
      BY Zenon DEF Range
    <3>3. i = j
      BY <2>1, <2>2, <3>1, <3>2, Zenon
    <3>. QED  BY <3>1, <3>2, <3>3, Zenon
  <2>. QED  BY <2>1, <2>2, Zenon
<1>2. es \in Seq(Range(es)) /\ Len(es) \in Nat /\ \A e \in 1 .. Len(es) : Readable(es[e])
  BY <1>1, EntriesReadable, Zenon
<1>3. package.entries = es /\ package.store_path = sp
  BY DEF Recorded
<1>4. sp.json \in Seq(Plain)
  <2>1. Int \ Separators = Plain
    BY DEF Plain, Separators
  <2>. QED  BY <1>1, <2>1
<1>5. Named(sp.json) = {sp}
  <2>1. sp \in StorePaths
    BY Zenon DEF StorePaths
  <2>2. ASSUME NEW s \in StorePaths, s.json = sp.json PROVE s = sp
    <3>1. PICK q \in Range(input.packages) : s = q.store_path
      BY <2>2, Zenon DEF StorePaths
    <3>. QED  BY <3>1, <2>2, <1>1, Zenon
  <2>. QED  BY <2>1, <2>2, Zenon DEF Named
<1>. HIDE DEF es, sp
<1>6. es # << >> /\ package = Recorded(sp, es)
  BY DEF es, sp
<1>. QED  BY <1>2, <1>3, <1>4, <1>5, <1>6, Zenon DEF Written

\* What the writer records can be written and read.
LEMMA KeptWritten ==
  ASSUME input \in Inputs, NEW packages, packages = Kept(input)
  PROVE  WrittenAll(packages)
<1>. DEFINE prefix == input.prefix
            kept == Only(input.packages, LAMBDA p : Listed(p.listing) /\ Entries(p, input.prefix) # <<>>)
            G == {p \in Range(input.packages) : Listed(p.listing) /\ Entries(p, prefix) # << >>}
            R(i) == Recorded(kept[i].store_path, Entries(kept[i], prefix))
            n == Len(kept)
<1>1. input.packages \in Seq(Range(input.packages))
  BY InputsAssumption, Zenon
<1>2. kept \in Seq(G)
  BY <1>1, KeptOf
<1>3. packages = [i \in DOMAIN kept |-> R(i)]
  BY Zenon DEF Kept
<1>. HIDE DEF kept
<1>4. DOMAIN kept = 1 .. n /\ n \in Nat /\ \A i \in 1 .. n : kept[i] \in G
  <2>. HIDE DEF G
  <2>. QED  BY <1>2
<1>5. ASSUME NEW i \in 1 .. n PROVE Written(R(i))
  <2>1. /\ kept[i] \in Range(input.packages) /\ Listed(kept[i].listing) /\ Entries(kept[i], prefix) # << >>
    BY <1>4
  <2>. QED  BY <2>1, GivenWritten, Zenon
<1>. HIDE DEF n, R
<1>6. packages = [i \in 1 .. n |-> R(i)]
  BY <1>3, <1>4
<1>. DEFINE U == {R(i) : i \in 1 .. n}
<1>7. packages \in Seq(U)
  BY <1>4, <1>6
<1>8. Len(packages) = n
  BY <1>4, <1>6
<1>9. packages \in Seq(Range(packages))
  <2>. HIDE DEF U
  <2>. QED  BY <1>7, InItsRange
<1>10. \A i \in 1 .. Len(packages) : Written(packages[i])
  BY <1>5, <1>6, <1>8
<1>. QED  BY <1>9, <1>10, Zenon DEF WrittenAll

\* The inductive invariant holds when the regeneration starts.
LEMMA InitInv ==
  ASSUME RegenerationInit
  PROVE  RegenerationInv
<1>1. /\ input \in Inputs /\ version \in {1, 2}
      /\ frames = Framed(version, Kept(input))
      /\ built = [packages |-> Kept(input), own |-> Own(version, Kept(input))]
      /\ streaming = (version = 1) /\ size = 0
      /\ stream = <<>> /\ at = 0 /\ avail = 0 /\ buf = <<>> /\ last_path = 0 /\ partial = 0
      /\ shared = 0 /\ resize = TRUE /\ found = FALSE /\ got = FALSE /\ item = 0
      /\ pc = "end" /\ frame = 0
      /\ current = <<>> /\ recorded = <<>> /\ map = <<>>
  BY Zenon DEF RegenerationInit
<1>2. built.packages = Kept(input) /\ built.own = Own(version, Kept(input))
  BY <1>1
<1>3. WrittenAll(built.packages)
  BY <1>1, <1>2, KeptWritten, Zenon
<1>4. Indexed
  BY <1>1, <1>2, <1>3, Zenon DEF Indexed
<1>5. /\ Len(built.packages) \in Nat /\ Len(frames) \in Nat
      /\ \A i \in 1 .. Len(built.packages) : FrameNumber(version, i) \in Nat
  BY <1>4, NumbersOfPackages, Zenon
<1>6. /\ Len(recorded) = 0 /\ Len(current) = 0 /\ Len(map) = 0 /\ DOMAIN map = 1 .. 0 /\ Len(buf) = 0 /\ Len(stream) = 0
  BY <1>1
<1>7. Typed
  <2>1. streaming \in BOOLEAN /\ resize \in BOOLEAN /\ found \in BOOLEAN /\ got \in BOOLEAN
    BY <1>1, Zenon
  <2>2. /\ at \in 0 .. Len(stream) /\ avail \in 0 .. Left /\ partial \in Nat /\ item \in Nat
        /\ last_path \in 0 .. Len(buf) /\ Len(buf) <= size /\ shared \in Int
    BY <1>1, <1>6 DEF Left
  <2>. QED  BY <2>1, <2>2, Zenon DEF Typed
<1>8. Collected
  <2>1. recorded = SubSeq(built.packages, 1, 0)
    BY <1>1, SubSeqEmpty
  <2>2. 0 \in 0 .. Len(built.packages) /\ 0 \in Nat
    BY <1>5
  <2>. QED  BY <1>1, <1>6, <2>1, <2>2, Zenon DEF Collected
<1>9. frame \in 0 .. Len(frames)
  BY <1>1, <1>5
<1>. DEFINE F(i) == FrameNumber(version, i)
<1>10. \A i \in 0 + 1 .. Len(built.packages) : F(i) >= frame - 1 /\ F(i) >= frame
  <2>1. \A i \in 1 .. Len(built.packages) : F(i) \in Nat
    BY <1>5
  <2>. HIDE DEF F
  <2>. QED  BY <2>1, <1>1, <1>5
<1>11. MapOK
  <2>1. \A i \in 1 .. 0 : map[i] = F(i)
    OBVIOUS
  <2>2. 0 <= 0 /\ 0 \in Nat
    OBVIOUS
  <2>. QED  BY <1>6, <1>10, <2>1, <2>2, Zenon DEF MapOK
<1>12. Passed
  <2>1. \A i \in 1 .. 0 : F(i) < frame
    OBVIOUS
  <2>. QED  BY <1>6, <1>10, <2>1, Zenon DEF Passed
<1>13. ~InsideFrame /\ ~AllScanned /\ pc # "error"
  BY <1>1 DEF InsideFrame, AllScanned
<1>. QED  BY <1>1, <1>4, <1>7, <1>8, <1>9, <1>11, <1>12, <1>13, Zenon DEF RegenerationInv

(***************************************************************************)
(* What the scan records of an index is what its writer recorded, for      *)
(* every listing, base, buffer size and way in which the input is cut into *)
(* pieces: always a prefix of it, package for package and entry for entry, *)
(* all of it once the scan is over, and without an error if the frame is   *)
(* in memory.                                                              *)
(***************************************************************************)
THEOREM RegenerationDecodesWhole == RegenerationSpec => []DecodesWhole
<1>1. RegenerationInit => RegenerationInv
  BY InitInv
<1>2. RegenerationInv /\ [RegenerationNext]_regeneration => RegenerationInv'
  BY StepInv
<1>3. RegenerationInv => DecodesWhole
  BY InvDecodesWhole
<1>. QED  BY <1>1, <1>2, <1>3, PTL DEF RegenerationSpec

----------------------------------------------------------------------------
(***************************************************************************)
(* The files that are written.                                             *)
(***************************************************************************)

\* A file of a sidecar that a regeneration writes.
FileNames == {"names", "postings", "fst", "store_paths", "entries", "strings", "offsets", "map"}
SidecarFiles == {<<s, f>> : s \in DOMAIN FilesOf, f \in FileNames}

\* Sequences of the same kind, one behind the other.
LEMMA Joined ==
  ASSUME NEW S, NEW s \in Seq(S), NEW t \in Seq(S)
  PROVE  s \o t \in Seq(S) /\ Len(s \o t) = Len(s) + Len(t) /\ Len(s) \in Nat /\ Len(t) \in Nat
BY SMTT(60)

\* The sidecars that are written.
LEMMA OrderOfSidecars ==
  ASSUME NEW v
  PROVE  \E n \in Nat : n > 0 /\ DOMAIN WritingOrder(v) = 1 .. n /\ \A k \in 1 .. n : WritingOrder(v)[k] \in DOMAIN FilesOf
<1>. DEFINE U == {"basename", "path", "entry", "path_trigram", "path_entry", "ngram", "frame_map"}
            a == <<"basename", "path", "entry", "path_trigram", "path_entry", "ngram">>
            b == IF v = 2 THEN <<"frame_map">> ELSE << >>
            s == a \o b
<1>1. DOMAIN FilesOf = U
  BY DEF FilesOf
<1>2. a \in Seq(U) /\ Len(a) = 6
  OBVIOUS
<1>3. b \in Seq(U) /\ Len(b) \in Nat
  <2>1. << >> \in Seq(U) /\ Len(<< >>) \in Nat
    BY DEF FileNames
  <2>2. <<"frame_map">> \in Seq(U) /\ Len(<<"frame_map">>) \in Nat
    OBVIOUS
  <2>. QED  BY <2>1, <2>2, Zenon
<1>. HIDE DEF U, a, b
<1>4. s \in Seq(U) /\ Len(s) = 6 + Len(b)
  <2>1. a \in Seq(U) /\ b \in Seq(U)
    BY <1>2, <1>3
  <2>2. s \in Seq(U) /\ Len(s) = Len(a) + Len(b)
    BY <2>1, Joined
  <2>. QED  BY <2>2, <1>2
<1>5. WritingOrder(v) = s
  BY DEF WritingOrder, a, b
<1>. HIDE DEF s
<1>6. Len(s) \in Nat /\ Len(s) > 0 /\ DOMAIN s = 1 .. Len(s) /\ \A k \in 1 .. Len(s) : s[k] \in U
  BY <1>3, <1>4
<1>. QED  BY <1>1, <1>5, <1>6

\* Their files.
LEMMA NamesOfFiles ==
  ASSUME NEW s \in DOMAIN FilesOf
  PROVE  /\ DOMAIN FilesOf[s] = 1 .. Len(FilesOf[s]) /\ Len(FilesOf[s]) \in Nat \ {0}
         /\ \A j \in 1 .. Len(FilesOf[s]) : FilesOf[s][j] \in FileNames
<1>. DEFINE t == FilesOf[s]
<1>1. t \in Seq(FileNames) /\ Len(t) \in {1, 2, 3, 5}
  <2>1. <<"map">> \in Seq(FileNames) /\ Len(<<"map">>) = 1
    BY DEF FileNames
  <2>2. <<"postings", "fst">> \in Seq(FileNames) /\ Len(<<"postings", "fst">>) = 2
    BY DEF FileNames
  <2>3. <<"names", "postings", "fst">> \in Seq(FileNames) /\ Len(<<"names", "postings", "fst">>) = 3
    BY DEF FileNames
  <2>4. <<"store_paths", "postings", "fst">> \in Seq(FileNames) /\ Len(<<"store_paths", "postings", "fst">>) = 3
    BY DEF FileNames
  <2>5. /\ <<"store_paths", "entries", "fst", "strings", "offsets">> \in Seq(FileNames)
        /\ Len(<<"store_paths", "entries", "fst", "strings", "offsets">>) = 5
    BY DEF FileNames
  <2>6. t \in {<<"map">>, <<"postings", "fst">>, <<"names", "postings", "fst">>,
               <<"store_paths", "postings", "fst">>, <<"store_paths", "entries", "fst", "strings", "offsets">>}
    <3>1. DOMAIN FilesOf = {"basename", "path", "entry", "path_trigram", "path_entry", "ngram", "frame_map"}
      BY DEF FilesOf
    <3>2. /\ FilesOf["basename"] = <<"names", "postings", "fst">> /\ FilesOf["path"] = <<"postings", "fst">>
          /\ FilesOf["entry"] = <<"store_paths", "postings", "fst">> /\ FilesOf["path_trigram"] = <<"postings", "fst">>
          /\ FilesOf["path_entry"] = <<"store_paths", "entries", "fst", "strings", "offsets">>
          /\ FilesOf["ngram"] = <<"postings", "fst">> /\ FilesOf["frame_map"] = <<"map">>
      BY DEF FilesOf
    <3>. QED  BY <3>1, <3>2, Zenon
  <2>. HIDE DEF t
  <2>7. t \in Seq(FileNames)
    BY <2>1, <2>2, <2>3, <2>4, <2>5, <2>6, Zenon
  <2>8. Len(t) \in {1, 2, 3, 5}
    BY <2>1, <2>2, <2>3, <2>4, <2>5, <2>6, Zenon
  <2>. QED  BY <2>7, <2>8
<1>. DEFINE U == FileNames
<1>2. t \in Seq(U) /\ Len(t) \in {1, 2, 3, 5}
  BY <1>1
<1>. HIDE DEF t, U
<1>3. DOMAIN t = 1 .. Len(t) /\ \A j \in 1 .. Len(t) : t[j] \in U
  BY <1>2
<1>4. Len(t) \in Nat \ {0}
  <2>. DEFINE l == Len(t)
  <2>1. l \in {1, 2, 3, 5}
    BY <1>2
  <2>. HIDE DEF l
  <2>2. l \in Nat \ {0}
    BY <2>1
  <2>. QED  BY <2>2 DEF l
<1>. QED  BY <1>3, <1>4 DEF t, U

\* So each file that is written is one of those.
LEMMA WritesTyped ==
  ASSUME NEW v
  PROVE  Writes(v) \in Seq(SidecarFiles) /\ Len(Writes(v)) \in Nat /\ Len(Writes(v)) > 0
<1>. DEFINE order == WritingOrder(v)
            One(k) == [j \in DOMAIN FilesOf[order[k]] |-> <<order[k], FilesOf[order[k]][j]>>]
<1>1. PICK n \in Nat : n > 0 /\ DOMAIN order = 1 .. n /\ \A k \in 1 .. n : order[k] \in DOMAIN FilesOf
  BY OrderOfSidecars
<1>. DEFINE g == [k \in 1 .. n |-> One(k)]
<1>2. Writes(v) = FlattenSeq([k \in DOMAIN order |-> One(k)])
  BY Zenon DEF Writes
<1>. HIDE DEF order
<1>3. ASSUME NEW k \in 1 .. n PROVE One(k) \in Seq(SidecarFiles) /\ Len(One(k)) \in Nat \ {0}
  <2>. DEFINE s == order[k]
              m == Len(FilesOf[s])
  <2>1. s \in DOMAIN FilesOf
    BY <1>1
  <2>2. DOMAIN FilesOf[s] = 1 .. m /\ m \in Nat \ {0} /\ \A j \in 1 .. m : FilesOf[s][j] \in FileNames
    BY <2>1, NamesOfFiles
  <2>. HIDE DEF s, m
  <2>3. One(k) = [j \in 1 .. m |-> <<s, FilesOf[s][j]>>]
    BY <2>2 DEF s
  <2>4. \A j \in 1 .. m : <<s, FilesOf[s][j]>> \in SidecarFiles
    <3>1. ASSUME NEW j \in 1 .. m PROVE <<s, FilesOf[s][j]>> \in SidecarFiles
      <4>. DEFINE x == FilesOf[s][j]
      <4>1. x \in FileNames
        BY <2>2
      <4>. HIDE DEF x
      <4>2. <<s, x>> \in SidecarFiles
        BY <2>1, <4>1 DEF SidecarFiles
      <4>. QED  BY <4>2 DEF x
    <3>. QED  BY <3>1
  <2>. DEFINE h == One(k)
              F == SidecarFiles
              e == [j \in 1 .. m |-> <<s, FilesOf[s][j]>>]
  <2>5. e \in [1 .. m -> F]
    BY <2>4
  <2>6. h = e
    BY <2>3
  <2>. HIDE DEF h, F, e
  <2>7. h \in Seq(F) /\ Len(h) = m
    BY <2>2, <2>5, <2>6
  <2>. QED  BY <2>2, <2>7 DEF h, F
<1>. HIDE DEF One
<1>. DEFINE F == SidecarFiles
            m == n - 1
            front == FlattenSeq([i \in 1 .. m |-> g[i]])
            last == g[m + 1]
<1>4. m \in Nat /\ m + 1 = n /\ n \in 1 .. n
  BY <1>1
<1>5. g \in [1 .. m + 1 -> Seq(F)]
  <2>. HIDE DEF F
  <2>. QED  BY <1>3, <1>4 DEF F
<1>6. Writes(v) = FlattenSeq(g)
  BY <1>1, <1>2
<1>7. last \in Seq(F) /\ Len(last) \in Nat \ {0}
  <2>1. last = One(n)
    BY <1>4
  <2>. QED  BY <2>1, <1>3, <1>4
<1>8. [i \in 1 .. m |-> g[i]] \in [1 .. m -> Seq(F)]
  <2>. HIDE DEF F, g, m
  <2>. QED  BY <1>4, <1>5
<1>9. FlattenSeq(g) = front \o last
  <2>. HIDE DEF F, g, m
  <2>. QED  BY <1>4, <1>5, FlattenStep
<1>10. front \in Seq(F)
  <2>. HIDE DEF F, g, m
  <2>. QED  BY <1>4, <1>8, FlattenType
<1>. HIDE DEF front, last, F
<1>11. front \o last \in Seq(F) /\ Len(front \o last) = Len(front) + Len(last) /\ Len(front) \in Nat
  BY <1>7, <1>10
<1>. DEFINE w == front \o last
            x == Len(front)
            y == Len(last)
<1>12. Len(w) = x + y /\ x \in Nat /\ y \in Nat \ {0}
  BY <1>7, <1>11
<1>. HIDE DEF x, y
<1>13. Len(w) \in Nat /\ Len(w) > 0
  <2>. HIDE DEF w
  <2>. QED  BY <1>12
<1>14. Writes(v) = w /\ w \in Seq(F)
  BY <1>6, <1>9, <1>11
<1>. HIDE DEF w
<1>. QED  BY <1>13, <1>14 DEF F

\* What there is to be written of a sidecar.
Numbering == [i \in DOMAIN built.packages |-> FrameNumber(version, i)]
Contents(s) == Content(s, built.packages, Numbering)

\* What was written is there, and is what is to be written of the packages of the build.
AsBuilt(w) ==
  /\ w[1] \in Sidecars /\ w[2] \in DOMAIN stored[w[1]]
  /\ stored[w[1]][w[2]] = Contents(w[1])[w[2]]

WrittenSoFar ==
  /\ DOMAIN stored = Sidecars /\ IsFiniteSet(fresh) /\ fresh \subseteq SidecarFiles
  /\ \A w \in fresh : AsBuilt(w)
  /\ ~AllScanned => fresh = {}
  /\ pc = "write" => Cardinality(fresh) < Len(Writes(version))

\* The build wrote the same of its sidecars,
LEMMA OwnContents ==
  ASSUME Indexed, NEW s, s \in DOMAIN built.own
  PROVE  built.own[s] = Contents(s)
<1>. DEFINE pkgs == built.packages
            m == [i \in DOMAIN pkgs |-> FrameNumber(version, i)]
            D == {"basename", "path", "command"} \cup (IF version = 2 THEN {"frame_map"} ELSE {})
<1>1. built.own = [x \in D |-> Content(x, pkgs, m)]
  BY Zenon DEF Indexed, Own
<1>2. m = Numbering
  BY DEF Numbering
<1>. HIDE DEF D, m, pkgs
<1>3. s \in D
  BY <1>1
<1>4. built.own[s] = Content(s, pkgs, m)
  BY <1>1, <1>3
<1>. QED  BY <1>2, <1>4 DEF pkgs, Contents

\* and so does the regeneration.
LEMMA SameContent ==
  ASSUME RegenerationInv, AllScanned, NEW s
  PROVE  Content(s, recorded, map) = Contents(s)
<1>1. /\ Indexed /\ recorded = built.packages
      /\ map = [i \in 1 .. Len(built.packages) |-> FrameNumber(version, i)]
  BY Zenon DEF RegenerationInv
<1>2. DOMAIN built.packages = 1 .. Len(built.packages)
  BY <1>1, NumbersOfPackages, Zenon
<1>3. map = Numbering
  BY <1>1, <1>2 DEF Numbering
<1>. QED  BY <1>1, <1>3, Zenon DEF Contents

\* A step that writes nothing.
LEMMA WrittenStays ==
  ASSUME WrittenSoFar, UNCHANGED <<index, stored, fresh>>, AllScanned => AllScanned', pc' = "write" => pc = "write" \/ fresh = {}
  PROVE  WrittenSoFar'
<1>1. /\ DOMAIN stored = Sidecars /\ IsFiniteSet(fresh) /\ fresh \subseteq SidecarFiles
      /\ \A w \in fresh : AsBuilt(w)
      /\ ~AllScanned => fresh = {}
      /\ pc = "write" => Cardinality(fresh) < Len(Writes(version))
  BY Zenon DEF WrittenSoFar
<1>2. stored' = stored /\ fresh' = fresh /\ built' = built /\ version' = version
  BY DEF index
<1>3. ASSUME NEW w, AsBuilt(w) PROVE AsBuilt(w)'
  BY <1>2, <1>3, Zenon DEF AsBuilt, Contents, Numbering
<1>4. pc' = "write" => Cardinality(fresh) < Len(Writes(version))
  <2>1. Cardinality({}) = 0
    BY FS_EmptySet
  <2>2. Len(Writes(version)) > 0
    BY WritesTyped
  <2>. QED  BY <1>1, <2>1, <2>2
<1>5. ~AllScanned' => fresh = {}
  BY <1>1
<1>6. \A w \in fresh' : AsBuilt(w)'
  BY <1>1, <1>2, <1>3, Zenon
<1>. QED  BY <1>1, <1>2, <1>4, <1>5, <1>6, Zenon DEF WrittenSoFar

\* All of them are sidecars.
LEMMA SidecarsWritten == DOMAIN FilesOf \subseteq Sidecars
BY DEF Sidecars

\* One file more.
LEMMA OneMoreFile ==
  ASSUME RegenerationInv, WrittenSoFar, WriteFile
  PROVE  WrittenSoFar'
<1>1. /\ DOMAIN stored = Sidecars /\ IsFiniteSet(fresh) /\ fresh \subseteq SidecarFiles
      /\ \A w \in fresh : AsBuilt(w)
      /\ pc = "write" => Cardinality(fresh) < Len(Writes(version))
  BY Zenon DEF WrittenSoFar
<1>. DEFINE to   == Writes(version)[Cardinality(fresh) + 1]
            file == Content(to[1], recorded, map)[to[2]]
            n    == Cardinality(fresh)
            N    == Len(Writes(version))
<1>2. /\ pc = "write"
      /\ stored' = [stored EXCEPT ![to[1]] = [f \in DOMAIN @ \cup {to[2]} |-> IF f = to[2] THEN file ELSE @[f]]]
      /\ fresh' = fresh \cup {to}
      /\ pc' = IF Cardinality(fresh') = Len(Writes(version)) THEN "done" ELSE "write"
      /\ UNCHANGED <<reader, buffer, partial, call, block, index, frame, scan>>
  BY Zenon DEF WriteFile
<1>3. version' = version /\ built' = built
  BY <1>2 DEF index
<1>4. Writes(version) \in Seq(SidecarFiles) /\ N \in Nat /\ n \in Nat /\ n < N
  <2>1. Writes(version) \in Seq(SidecarFiles) /\ N \in Nat
    BY WritesTyped
  <2>2. n \in Nat
    BY <1>1, FS_CardinalityType
  <2>. QED  BY <2>1, <2>2, <1>1, <1>2
<1>5. to \in SidecarFiles
  <2>. DEFINE ws == Writes(version)
              F == SidecarFiles
  <2>1. ws \in Seq(F) /\ Len(ws) = N /\ to = ws[n + 1]
    BY <1>4
  <2>. HIDE DEF ws, F, n, N, to
  <2>2. n + 1 \in 1 .. Len(ws)
    BY <2>1, <1>4
  <2>3. to \in F
    BY <2>1, <2>2
  <2>. QED  BY <2>3 DEF F
<1>6. PICK s \in DOMAIN FilesOf, t \in FileNames : to = <<s, t>>
  <2>. HIDE DEF to
  <2>. QED  BY <1>5 DEF SidecarFiles
<1>7. to[1] = s /\ to[2] = t /\ s \in Sidecars
  BY <1>6, SidecarsWritten
<1>8. AllScanned /\ AllScanned'
  BY <1>2 DEF AllScanned
<1>9. file = Contents(s)[t]
  BY <1>7, <1>8, SameContent
<1>. HIDE DEF to, file
<1>10. /\ DOMAIN stored' = Sidecars
       /\ stored'[s] = [f \in DOMAIN stored[s] \cup {t} |-> IF f = t THEN file ELSE stored[s][f]]
       /\ \A x \in Sidecars : x # s => stored'[x] = stored[x]
  <2>. DEFINE h == [f \in DOMAIN stored[s] \cup {t} |-> IF f = t THEN file ELSE stored[s][f]]
  <2>1. stored' = [stored EXCEPT ![s] = h]
    BY <1>2, <1>7
  <2>. HIDE DEF h
  <2>2. DOMAIN stored' = Sidecars /\ stored'[s] = h /\ \A x \in Sidecars : x # s => stored'[x] = stored[x]
    BY <2>1, <1>1, <1>7
  <2>. QED  BY <2>2 DEF h
<1>11. ASSUME NEW w \in fresh' PROVE AsBuilt(w)'
  <2>1. /\ w[1] \in Sidecars
        /\ w[1] = s => w[2] \in DOMAIN stored[s] \cup {t}
        /\ w[1] # s => w[2] \in DOMAIN stored[w[1]]
        /\ w = to \/ AsBuilt(w)
    <3>1. CASE w = to
      BY <3>1, <1>7, Zenon
    <3>2. CASE w # to
      <4>1. AsBuilt(w)
        BY <3>2, <1>1, <1>2
      <4>2. w[1] \in Sidecars /\ w[2] \in DOMAIN stored[w[1]]
        BY <4>1, Zenon DEF AsBuilt
      <4>3. w[1] = s => w[2] \in DOMAIN stored[s] \cup {t}
        BY <4>2
      <4>. QED  BY <4>1, <4>2, <4>3
    <3>. QED  BY <3>1, <3>2
  <2>2. w[2] \in DOMAIN stored'[w[1]]
    <3>1. DOMAIN stored'[s] = DOMAIN stored[s] \cup {t}
      BY <1>10
    <3>2. CASE w[1] = s
      BY <2>1, <3>1, <3>2, Zenon
    <3>3. CASE w[1] # s
      BY <2>1, <1>10, <3>3, Zenon
    <3>. QED  BY <3>2, <3>3
  <2>3. stored'[w[1]][w[2]] = Contents(w[1])[w[2]]
    <3>1. CASE w[1] = s /\ w[2] = t
      <4>1. stored'[s][t] = file
        BY <1>10
      <4>. QED  BY <4>1, <3>1, <1>9, Zenon
    <3>2. CASE ~(w[1] = s /\ w[2] = t)
      <4>1. w # to
        BY <3>2, <1>7, Zenon
      <4>2. AsBuilt(w)
        BY <4>1, <2>1, Zenon
      <4>3. stored[w[1]][w[2]] = Contents(w[1])[w[2]]
        BY <4>2, Zenon DEF AsBuilt
      <4>4. CASE w[1] = s
        <5>1. w[2] \in DOMAIN stored[s] \cup {t} /\ w[2] # t
          BY <2>1, <3>2, <4>4, Zenon
        <5>. DEFINE g == w[2]
        <5>2. g \in DOMAIN stored[s] \cup {t} /\ g # t
          BY <5>1
        <5>. HIDE DEF g
        <5>3. stored'[s][g] = stored[s][g]
          BY <5>2, <1>10
        <5>. QED  BY <5>3, <4>3, <4>4 DEF g
      <4>5. CASE w[1] # s
        BY <4>3, <4>5, <2>1, <1>10, Zenon
      <4>. QED  BY <4>4, <4>5
    <3>. QED  BY <3>1, <3>2
  <2>. QED  BY <2>1, <2>2, <2>3, <1>3, Zenon DEF AsBuilt, Contents, Numbering
<1>12. IsFiniteSet(fresh') /\ Cardinality(fresh') \in Nat /\ Cardinality(fresh') <= n + 1
  <2>1. CASE to \in fresh
    <3>1. fresh' = fresh
      BY <2>1, <1>2
    <3>2. n <= n + 1
      <4>. HIDE DEF n
      <4>. QED  BY <1>4
    <3>. QED  BY <3>1, <3>2, <1>1, <1>4
  <2>2. CASE to \notin fresh
    <3>1. IsFiniteSet(fresh \cup {to}) /\ Cardinality(fresh \cup {to}) = n + 1
      BY <2>2, <1>1, FS_AddElement
    <3>2. n + 1 \in Nat /\ n + 1 <= n + 1
      <4>. HIDE DEF n
      <4>. QED  BY <1>4
    <3>. QED  BY <3>1, <3>2, <1>2
  <2>. QED  BY <2>1, <2>2
<1>13. pc' = "write" => Cardinality(fresh') < N
  <2>. DEFINE m == Cardinality(fresh')
  <2>1. pc' = "write" => m # N
    BY <1>2
  <2>. HIDE DEF m, n, N
  <2>2. pc' = "write" => m < N
    BY <2>1, <1>4, <1>12 DEF m
  <2>. QED  BY <2>2 DEF m
<1>14. fresh' \subseteq SidecarFiles
  BY <1>1, <1>2, <1>5
<1>. QED  BY <1>3, <1>8, <1>10, <1>11, <1>12, <1>13, <1>14, Zenon DEF WrittenSoFar

\* A step of the decoder does not start to write.
LEMMA ReturnsTo ==
  ASSUME NEW b, NEW i, Return(b, i)
  PROVE  pc' \in {"error", "end", "block"} /\ pc' # "write"
<1>1. pc' = "error" \/ pc' = "end" \/ pc' = "block"
  BY Zenon DEF Return
<1>. QED  BY <1>1

\* Nor does its reading an entry.
LEMMA EntryTo ==
  ASSUME Entry
  PROVE  pc \in {"call", "read"} /\ pc' # "write"
<1>. DEFINE p    == at + NulAt + 1
            text == buf \o Taken
            big  == Grown(Len(text), size)
            n    == shared + DecodeDiff(stream, p)
            copy == CopyShared(text, last_path, n, big, ~found)
<1>1. pc = "read"
  BY Zenon DEF Entry, Reading
<1>2. copy.is = "ok" \/ copy.is = "full" \/ copy.is = "error"
  <2>. HIDE DEF p, text, big, n
  <2>. QED  BY DEF CopyShared
<1>3. IF ~HasDiff(stream, p)
      THEN /\ pc' = "error"
           /\ buf' = text /\ size' = big /\ at' = Len(stream) /\ avail' = 0
           /\ UNCHANGED <<last_path, shared, partial, block>>
      ELSE /\ at' = p + DiffLen(stream, p) - 1
           /\ avail' = IF at + avail > at' THEN at + avail - at' ELSE 0
           /\ shared' = n
           /\ CASE copy.is = "ok" ->
                     /\ buf' = copy.buf /\ size' = copy.size /\ last_path' = Len(text)
                     /\ UNCHANGED <<partial, pc, block>>
                [] copy.is = "full" ->
                     /\ buf' = text /\ size' = big /\ UNCHANGED last_path
                     /\ Return(text, TRUE)
                [] copy.is = "error" ->
                     /\ buf' = text /\ size' = big /\ pc' = "error"
                     /\ UNCHANGED <<last_path, partial, block>>
  BY Zenon DEF Entry
<1>. HIDE DEF p, text, big, n, copy
<1>4. pc' = "error" \/ pc' = pc \/ Return(text, TRUE)
  BY <1>2, <1>3
<1>5. Return(text, TRUE) => pc' # "write"
  BY ReturnsTo, Zenon
<1>. QED  BY <1>1, <1>4, <1>5

\* Every step keeps what was written.
LEMMA WrittenStep ==
  ASSUME RegenerationInv, WrittenSoFar, [RegenerationNext]_regeneration
  PROVE  WrittenSoFar'
<1>1. CASE WriteFile
  BY <1>1, OneMoreFile
<1>2. CASE DieWriting
  <2>1. UNCHANGED <<index, stored, fresh>> /\ pc' = "dead"
    BY <1>2 DEF DieWriting
  <2>2. AllScanned' /\ pc' # "write"
    BY <2>1 DEF AllScanned
  <2>. QED  BY <2>1, <2>2, WrittenStays
<1>3. CASE Scanned
  <2>1. UNCHANGED <<index, stored, fresh>> /\ pc = "end" /\ pc' = "write"
    BY <1>3 DEF Scanned
  <2>2. ~AllScanned /\ AllScanned'
    BY <2>1 DEF AllScanned
  <2>3. fresh = {}
    BY <2>2 DEF WrittenSoFar
  <2>. QED  BY <2>1, <2>2, <2>3, WrittenStays
<1>4. CASE Decode /\ UNCHANGED <<index, frame, scan, stored, fresh>>
  <2>1. pc \in {"call", "read"} /\ pc' # "write"
    <3>1. CASE Call
      BY <3>1 DEF Call
    <3>2. CASE Fill \/ Take
      BY <3>2 DEF Fill, Take, Reading
    <3>3. CASE AtEnd \/ Full
      <4>1. pc = "read" /\ \E b, i : Return(b, i)
        BY <3>3, Zenon DEF AtEnd, Full, Reading
      <4>. QED  BY <4>1, ReturnsTo, Zenon
    <3>4. CASE Entry
      BY <3>4, EntryTo
    <3>. QED  BY <1>4, <3>1, <3>2, <3>3, <3>4 DEF Decode
  <2>. QED  BY <2>1, <1>4, WrittenStays DEF AllScanned
<1>5. CASE Scan
  <2>1. UNCHANGED <<index, stored, fresh>> /\ pc = "block" /\ pc' # "write"
    BY <1>5 DEF Scan
  <2>. QED  BY <2>1, WrittenStays DEF AllScanned
<1>6. CASE NextFrame
  <2>1. UNCHANGED <<index, stored, fresh>> /\ pc = "end" /\ pc' = "call"
    BY <1>6 DEF NextFrame
  <2>. QED  BY <2>1, WrittenStays DEF AllScanned
<1>7. CASE Stopped \/ UNCHANGED regeneration
  <2>1. UNCHANGED <<index, stored, fresh>> /\ pc' = pc
    BY <1>7 DEF Stopped, regeneration, decoder
  <2>. QED  BY <2>1, WrittenStays DEF AllScanned
<1>. QED  BY <1>1, <1>2, <1>3, <1>4, <1>5, <1>6, <1>7 DEF RegenerationNext

\* When it starts, nothing has been written.
LEMMA NothingWritten ==
  ASSUME RegenerationInit
  PROVE  WrittenSoFar
<1>. DEFINE G(old, here) == [s \in Sidecars |->
                             IF here /\ s \in DOMAIN built.own THEN built.own[s]
                             ELSE IF old = None THEN <<>> ELSE Content(s, Kept(old), <<>>)]
<1>1. \E old \in Earlier, here \in BOOLEAN : stored = G(old, here)
  BY Zenon DEF RegenerationInit
<1>2. \A old, here : DOMAIN G(old, here) = Sidecars
  OBVIOUS
<1>. HIDE DEF G
<1>3. DOMAIN stored = Sidecars
  BY <1>1, <1>2, Zenon
<1>4. pc = "end" /\ fresh = {}
  BY Zenon DEF RegenerationInit
<1>. QED  BY <1>3, <1>4, FS_EmptySet DEF WrittenSoFar

(***************************************************************************)
(* Over the sidecars of the build a regeneration writes what is there:     *)
(* every file it has written of a sidecar the build wrote too is the file  *)
(* of the build, so that it may die between any two of them.               *)
(***************************************************************************)
THEOREM RegenerationReproduces == RegenerationSpec => []Reproduces
<1>1. RegenerationInit => RegenerationInv /\ WrittenSoFar
  BY InitInv, NothingWritten
<1>2. RegenerationInv /\ WrittenSoFar /\ [RegenerationNext]_regeneration => RegenerationInv' /\ WrittenSoFar'
  BY StepInv, WrittenStep
<1>3. RegenerationInv /\ WrittenSoFar => Reproduces
  <2>1. SUFFICES ASSUME RegenerationInv, WrittenSoFar,
                        NEW w \in fresh, w[1] \in DOMAIN built.own
                 PROVE  stored[w[1]][w[2]] = built.own[w[1]][w[2]]
    BY Zenon DEF Reproduces
  <2>2. Indexed /\ AsBuilt(w)
    BY <2>1, Zenon DEF RegenerationInv, WrittenSoFar
  <2>3. built.own[w[1]] = Contents(w[1])
    BY <2>1, <2>2, OwnContents
  <2>. QED  BY <2>2, <2>3, Zenon DEF AsBuilt
<1>. QED  BY <1>1, <1>2, <1>3, PTL DEF RegenerationSpec
============================================================================
