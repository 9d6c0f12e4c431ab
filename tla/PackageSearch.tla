--------------------------- MODULE PackageSearch ---------------------------
(***************************************************************************)
(* SearchDb: the metadata of the packages, what a search finds in it and   *)
(* in which order.  A record has an attribute path and may have a          *)
(* description and a main program; a text is a sequence of characters.  A  *)
(* regular expression is a text in which AnyChar stands for any character. *)
(***************************************************************************)
EXTENDS Integers, SequencesExt, FiniteSetsExt

CONSTANTS AnyChar,    \* `.` of a regular expression
          Absent,     \* a field a record does not have
          FuzzyScore(_, _, _)  \* of frizbee: a text, a pattern, whether case matters; 0: no match

Fold(t) == [i \in DOMAIN t |-> IF t[i] \in 65 .. 90 THEN t[i] + 32 ELSE t[i]]
Cased(t, sensitive) == IF sensitive THEN t ELSE Fold(t)

(***************************************************************************)
(* The values of a record a query looks at.                                *)
(***************************************************************************)
Fields == {"attr", "description", "main_program"}
FieldsOf(field) == IF field = "both" THEN Fields ELSE {field}
Searched(record, q) == {f \in FieldsOf(q.field) : record[f] # Absent}

(***************************************************************************)
(* What a record and a query are, and that a fuzzy one scores it.          *)
(***************************************************************************)
IsRecord(r) ==
  /\ r.attr \in Seq(Int) /\ r.attr # Absent /\ r.name \in Seq(Int) /\ r.name # Absent
  /\ \A f \in Fields : r[f] # Absent => r[f] \in Seq(Int)
IsQuery(q) ==
  /\ q.pattern \in Seq(Int) /\ q.field \in Fields \cup {"both"} /\ q.limit \in Nat
  /\ \A option \in {"regex", "sensitive", "exact", "fuzzy"} : q[option] \in BOOLEAN
  /\ q.sort \in {"none", "reverse", "attr", "attr-desc", "name", "name-desc",
                 "main-program", "main-program-desc"}
IsScored(r, q) ==
  q.fuzzy => \A f \in Searched(r, q) : FuzzyScore(r[f], q.pattern, q.sensitive) \in Nat

----------------------------------------------------------------------------
(***************************************************************************)
(* Where a value matches: as a whole, at its start, elsewhere, or nowhere. *)
(* A regular expression counts where it matches first.                     *)
(***************************************************************************)
Equals(v, p, sensitive) == Cased(v, sensitive) = Cased(p, sensitive)
OccursAt(t, v, i) == i + Len(t) <= Len(v) /\ SubSeq(v, i + 1, i + Len(t)) = t
OccursIn(v, needle, sensitive) ==
  \E i \in 0 .. Len(v) : OccursAt(needle, Cased(v, sensitive), i)

LiteralPlace(v, needle, sensitive) ==
  IF Equals(v, needle, sensitive) THEN 3
  ELSE IF IsPrefix(needle, v) \/ (~sensitive /\ IsPrefix(needle, Fold(v))) THEN 2
  ELSE IF OccursIn(v, needle, sensitive) THEN 1 ELSE 0

Fits(p, v, i, sensitive) ==
  /\ i + Len(p) <= Len(v)
  /\ \A k \in DOMAIN p :
       p[k] = AnyChar \/ Cased(p, sensitive)[k] = Cased(v, sensitive)[i + k]

RegexPlace(v, p, sensitive, exact) ==
  LET at == {i \in 0 .. Len(v) : Fits(p, v, i, sensitive) /\ (exact => i = 0 /\ Len(p) = Len(v))}
  IN IF at = {} THEN 0
     ELSE IF Min(at) > 0 THEN 1
     ELSE IF Len(p) = Len(v) THEN 3 ELSE 2

Place(v, needle, q) ==
  CASE q.regex -> RegexPlace(v, needle, q.sensitive, q.exact)
    [] ~q.regex /\ q.exact -> IF Equals(v, needle, q.sensitive) THEN 3 ELSE 0
    [] OTHER -> LiteralPlace(v, needle, q.sensitive)

(***************************************************************************)
(* relevance_score: an attribute path counts ten times what each of the    *)
(* other fields does.                                                      *)
(***************************************************************************)
\* Fault: the fields count the same.
WeightFlat(f) == 1000

Weight(f) == IF f = "attr" THEN 1000 ELSE 100

PlaceIn(record, f, q) ==
  IF f \in Searched(record, q) THEN Place(record[f], Cased(q.pattern, q.sensitive), q) ELSE 0

Relevance(record, q) ==
  Weight("attr") * PlaceIn(record, "attr", q)
    + Weight("description") * PlaceIn(record, "description", q)
    + Weight("main_program") * PlaceIn(record, "main_program", q)

----------------------------------------------------------------------------
(***************************************************************************)
(* Which records a query finds, by where they stand in the file.  An exact *)
(* query for an attribute path goes to the bucket of its lower-case form.  *)
(***************************************************************************)
Bucket(db, attr) == {i \in DOMAIN db : Fold(db[i].attr) = Fold(attr)}

MatchesField(record, q) ==
  \E f \in Searched(record, q) :
    CASE q.regex -> RegexPlace(record[f], q.pattern, q.sensitive, q.exact) > 0
      [] ~q.regex /\ q.exact -> Equals(record[f], q.pattern, q.sensitive)
      [] OTHER -> OccursIn(record[f], Cased(q.pattern, q.sensitive), q.sensitive)

FastPath(q) == ~q.regex /\ q.exact /\ q.field = "attr"

Matched(db, q) ==
  IF FastPath(q)
  THEN {i \in Bucket(db, q.pattern) : q.sensitive => db[i].attr = q.pattern}
  ELSE {i \in DOMAIN db : MatchesField(db[i], q)}

----------------------------------------------------------------------------
(* Order.                                                                  *)
Precedes(a, b) ==
  \E n \in 0 .. Len(a) :
    /\ n < Len(b) /\ SubSeq(a, 1, n) = SubSeq(b, 1, n)
    /\ n = Len(a) \/ a[n + 1] < b[n + 1]

(***************************************************************************)
(* A stable sort of places: less has the pairs of which one goes first,    *)
(* and where it has neither, the first stays first.                        *)
(***************************************************************************)
GoesFirst(less, i, j) == <<i, j>> \in less \/ (<<j, i>> \notin less /\ i < j)
SortedBy(S, less) ==
  [n \in 1 .. Cardinality(S) |->
     CHOOSE i \in S : n - 1 = Cardinality({j \in S : GoesFirst(less, j, i)})]

(***************************************************************************)
(* compare_records, for a sort by a field; a main program that is absent   *)
(* is the empty text.                                                      *)
(***************************************************************************)
KeyOf(r, sort) ==
  LET f == IF sort \in {"attr", "attr-desc"} THEN "attr"
           ELSE IF sort \in {"name", "name-desc"} THEN "name" ELSE "main_program"
  IN IF r[f] = Absent THEN <<>> ELSE r[f]
ComesFirst(a, b, sort) ==
  IF sort \in {"attr-desc", "name-desc", "main-program-desc"}
  THEN Precedes(KeyOf(b, sort), KeyOf(a, sort))
  ELSE Precedes(KeyOf(a, sort), KeyOf(b, sort))

MoreRelevant(a, b, q) ==
  \/ Relevance(a, q) > Relevance(b, q)
  \/ Relevance(a, q) = Relevance(b, q) /\ Precedes(a.attr, b.attr)

Ordered(db, q) ==
  LET found    == Matched(db, q)
      pairs    == found \X found
      relevant == {p \in pairs : MoreRelevant(db[p[1]], db[p[2]], q)}
      byField  == {p \in pairs : ComesFirst(db[p[1]], db[p[2]], q.sort)}
  IN CASE q.sort = "none"    -> SortedBy(found, relevant)
       [] q.sort = "reverse" -> Reverse(SortedBy(found, relevant))
       [] OTHER              -> SortedBy(found, byField)

(***************************************************************************)
(* search_fuzzy: the best score over the fields; equal scores keep their   *)
(* order, and reversed they are reversed with the others.                  *)
(***************************************************************************)
BestScore(r, q) ==
  Max({FuzzyScore(r[f], q.pattern, q.sensitive) : f \in Searched(r, q)} \cup {0})

OrderedFuzzy(db, q) ==
  LET found   == {i \in DOMAIN db : BestScore(db[i], q) > 0}
      pairs   == found \X found
      better  == {p \in pairs : BestScore(db[p[1]], q) > BestScore(db[p[2]], q)}
      byField == {p \in pairs :
                    \/ ComesFirst(db[p[1]], db[p[2]], q.sort)
                    \/ ~ComesFirst(db[p[2]], db[p[1]], q.sort) /\ p \in better}
  IN CASE q.sort = "none"    -> SortedBy(found, better)
       [] q.sort = "reverse" -> Reverse(SortedBy(found, better))
       [] OTHER              -> SortedBy(found, byField)

Truncate(s, n) == IF Len(s) <= n THEN s ELSE SubSeq(s, 1, n)

Search(db, q) ==
  LET places == Truncate(IF q.fuzzy THEN OrderedFuzzy(db, q) ELSE Ordered(db, q), q.limit)
  IN [n \in DOMAIN places |-> db[places[n]]]

(* The search of /info.                                                    *)
InfoQuery(attr) ==
  [pattern |-> attr, regex |-> FALSE, field |-> "attr", sensitive |-> TRUE, exact |-> TRUE,
   fuzzy |-> FALSE, sort |-> "none", limit |-> 1]
=============================================================================
