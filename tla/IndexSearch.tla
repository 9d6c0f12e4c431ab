---------------------------- MODULE IndexSearch ----------------------------
(***************************************************************************)
(* search_results_with_reader: how a query for a path is answered from the *)
(* index and whichever sidecars lie beside it.  Candidates are packages    *)
(* that may have a match, by basename, by path and by trigrams; one of     *)
(* three shortcuts then answers from a sidecar, or the frames that hold    *)
(* candidates are decoded and scanned, block by block.  One reader answers *)
(* query after query and remembers candidates in a small cache.            *)
(*                                                                         *)
(* A path is a sequence of characters, and a trigram Gram of them.  A      *)
(* regular expression is literal text, or two texts with .* between them,  *)
(* the first of which may be in parentheses with the .* behind it.         *)
(* Characters the regular expression would treat specially are escaped by  *)
(* the code and leave no trace here.                                       *)
(***************************************************************************)
EXTENDS Naturals, SequencesExt

CONSTANTS Indexes,      \* what `files` may hold, see Packages
          Directories,  \* the sets of sidecars that may be there
          Queries,      \* what may be asked, see Query
          Gram,         \* characters in a trigram
          TrigramLimit, \* paths the trigram shortcut looks at, at most
          Capacity,     \* of the cache
          Widths,       \* lines in a block the decoder returns
          None          \* no candidates known, no limit

Sidecars == {"frame_map", "basename", "path", "entry", "path_entry", "path_trigram", "ngram"}

(***************************************************************************)
(* A package: is it a top-level one, and the files it has, with a size     *)
(* each.  An index: its packages and, of each, the frame it is in.         *)
(***************************************************************************)
Packages(index) == DOMAIN index.packages
Paths(index, n) == DOMAIN index.packages[n].files

IsText(t) == t \in Seq(Range(t))

Query(q) ==
  /\ IsText(q.pattern.head) /\ IsText(q.pattern.tail)
  /\ q.client \in {"cli", "daemon"}
  /\ DOMAIN q.pattern = {"head", "gap", "tail", "group"}
  /\ q.pattern.group => q.pattern.gap
  /\ ~q.pattern.gap => q.pattern.tail = <<>>
  /\ {q.regex, q.root, q.whole, q.top} \subseteq BOOLEAN
  /\ ~q.regex => ~q.pattern.gap
  /\ q.sort \in {"none", "size"} /\ q.limit \in Nat \cup {None}

ASSUME SearchAssumption ==
  /\ Directories \subseteq SUBSET Sidecars
  /\ \A q \in Queries : Query(q)
  /\ {Gram, TrigramLimit, Capacity} \cup Widths \subseteq Nat \ {0}
  /\ \A index \in Indexes :
       /\ index.packages \in Seq(Range(index.packages))
       /\ index.frame \in [Packages(index) -> Nat]
       /\ \A S \in SUBSET Packages(index) : S # None
       /\ \A n \in Packages(index) :
            /\ IsFiniteSet(Paths(index, n))
            /\ \A p \in Paths(index, n) : IsText(p) /\ p # <<>> /\ p[1] = "/"
            /\ n > 1 => index.frame[n] \in {index.frame[n - 1], index.frame[n - 1] + 1}

VARIABLES
  index,    \* `files`
  dir,      \* the sidecars beside it
  cache,    \* NgramCache, most recent first
  pc,       \* what the reader does next
  query,    \* the query it works on
  ordinals, \* candidate packages, or None
  found     \* the answer

reader == <<index, dir>>
vars   == <<reader, cache, pc, query, ordinals, found>>

----------------------------------------------------------------------------
(* Text, and what the regular expression of a query matches.               *)
OccursAt(t, p, i) == SubSeq(p, i, i + Len(t) - 1) = t
Occurs(t, p) == \E i \in 1 .. Len(p) + 1 - Len(t) : OccursAt(t, p, i)
BasenameOf(p) == SubSeq(p, SelectLastInSeq(p, LAMBDA c : c = "/") + 1, Len(p))

Matches(q, p) ==
  LET head == q.pattern.head tail == q.pattern.tail
  IN \E i \in 1 .. Len(p) + 1 - Len(head) :
       /\ OccursAt(head, p, i)
       /\ q.root => i = 1
       /\ IF q.pattern.gap
          THEN \E j \in i + Len(head) .. Len(p) + 1 - Len(tail) :
                 OccursAt(tail, p, j) /\ (q.whole => j + Len(tail) = Len(p) + 1)
          ELSE q.whole => i + Len(head) = Len(p) + 1

(***************************************************************************)
(* process_args of the command line, and the same in the daemon: which     *)
(* questions a query puts to which index.  <<>> is none.                   *)
(***************************************************************************)
Literal(q) == IF q.regex \/ q.root \/ q.whole THEN <<>> ELSE q.pattern.head

ExactBasename(q) ==
  IF ~q.regex /\ q.whole /\ Contains(q.pattern.head, "/") THEN BasenameOf(q.pattern.head) ELSE <<>>

Absolute(q) == q.pattern.head # <<>> /\ q.pattern.head[1] = "/"
Rooted(q) == IF Absolute(q) THEN q.pattern.head ELSE <<"/">> \o q.pattern.head
AsksRoot(q) == ~q.regex /\ q.root /\ q.pattern.head # <<>>

ExactPath(q) ==
  IF AsksRoot(q) /\ q.whole /\ (Absolute(q) \/ q.client = "cli") THEN Rooted(q) ELSE <<>>

PathPrefix(q) ==
  IF /\ AsksRoot(q)
     /\ IF Absolute(q) \/ q.client = "cli" THEN ~q.whole ELSE Contains(q.pattern.head, "/")
  THEN Rooted(q) ELSE <<>>

(***************************************************************************)
(* The literal at the start and at the end of a regular expression.  A     *)
(* group that is literal in part counts with that part, and what follows   *)
(* it is appended all the same.                                            *)
(***************************************************************************)
Long(t) == IF Len(t) < Gram THEN <<>> ELSE t

RegexPrefix(q) ==
  IF Literal(q) # <<>> THEN <<>>
  ELSE Long(IF q.pattern.gap /\ ~q.pattern.group THEN q.pattern.head
            ELSE q.pattern.head \o q.pattern.tail)

RegexSuffix(q) ==
  IF Literal(q) # <<>> THEN <<>>
  ELSE Long(IF q.pattern.gap THEN q.pattern.tail ELSE q.pattern.head)

(* package_pattern, hash and the part of should_include_match that looks   *)
(* at the package: here whether it is a top-level one.                     *)
Admits(q, n) == q.top => index.packages[n].top

Hits(q, S) == {h \in S : Admits(q, h[1])}
Entries == {<<n, p>> : n \in Packages(index), p \in UNION {Paths(index, m) : m \in Packages(index)}}
Files == {e \in Entries : e[2] \in Paths(index, e[1])}
Size(e) == index.packages[e[1]].files[e[2]]

----------------------------------------------------------------------------
(***************************************************************************)
(* The sidecars, by what they answer.                                      *)
(***************************************************************************)
Grams(t) == {SubSeq(t, i, i + Gram - 1) : i \in 1 .. Len(t) + 1 - Gram}

BasenameOrdinals(base) ==
  {n \in Packages(index) : \E p \in Paths(index, n) : BasenameOf(p) = base}
PathOrdinals(path) == {n \in Packages(index) : path \in Paths(index, n)}
PrefixOrdinals(prefix) ==
  {n \in Packages(index) : \E p \in Paths(index, n) : IsPrefix(prefix, p)}
GramOrdinals(t) ==
  {n \in Packages(index) : Grams(t) \subseteq UNION {Grams(p) : p \in Paths(index, n)}}
PathIds(t) == {e[2] : e \in {f \in Files : Grams(t) \subseteq Grams(f[2])}}

(***************************************************************************)
(* resolve_ngram_ordinals_multi, computed.                                 *)
(***************************************************************************)
KeyWithoutSuffix(q) == <<Literal(q), RegexPrefix(q)>>
Key(q) == <<Literal(q), RegexPrefix(q), RegexSuffix(q)>>
Usable(q) == {t \in {Literal(q), RegexPrefix(q), RegexSuffix(q)} : Len(t) >= Gram}

NgramOrdinals(q) ==
  IF Usable(q) = {} \/ "ngram" \notin dir THEN None
  ELSE {n \in Packages(index) : \A t \in Usable(q) : n \in GramOrdinals(t)}

Cached(key) == {i \in DOMAIN cache : cache[i].key = key}

Insert(key, value) ==
  <<[key |-> key, value |-> value]>> \o
    (IF Len(cache) >= Capacity THEN Front(cache) ELSE cache)

(* What basename and path index know; both together if both are asked.     *)
BaseOrdinals(q) ==
  LET asked == (IF ExactBasename(q) # <<>> /\ "basename" \in dir
                THEN {BasenameOrdinals(ExactBasename(q))} ELSE {}) \cup
               (IF "path" \notin dir THEN {}
                ELSE IF ExactPath(q) # <<>> THEN {PathOrdinals(ExactPath(q))}
                ELSE IF PathPrefix(q) # <<>> THEN {PrefixOrdinals(PathPrefix(q))} ELSE {})
  IN IF asked = {} THEN None ELSE UNION asked

Both(a, b) == IF a = None THEN b ELSE IF b = None THEN a ELSE a \cap b

----------------------------------------------------------------------------
NoQuery == [pattern |-> None]

Init ==
  /\ index \in Indexes /\ dir \in Directories
  /\ cache = <<>> /\ pc = "idle" /\ query = NoQuery /\ ordinals = None /\ found = {}

Ask ==
  /\ pc \in {"idle", "done"}
  /\ query' \in Queries
  /\ pc' = "resolve" /\ ordinals' = None /\ found' = {}
  /\ UNCHANGED <<reader, cache>>

Candidates(ngram) == ordinals' = Both(BaseOrdinals(query), ngram)

ResolveCached ==
  /\ pc = "resolve" /\ pc' = "plan"
  /\ \E i \in Cached(Key(query)) :
       /\ Candidates(cache[i].value)
       /\ cache' = <<cache[i]>> \o RemoveAt(cache, i)
  /\ UNCHANGED <<reader, query, found>>

Resolve ==
  /\ pc = "resolve" /\ pc' = "plan"
  /\ Cached(Key(query)) = {}
  /\ Candidates(NgramOrdinals(query))
  /\ cache' = IF NgramOrdinals(query) = None THEN cache
              ELSE Insert(Key(query), NgramOrdinals(query))
  /\ UNCHANGED <<reader, query, found>>

(***************************************************************************)
(* Sort, filter once more and cut.  The order of what is not sorted        *)
(* depends on the way it was found, so any part of it may be the first.    *)
(***************************************************************************)
FirstOf(sort, limit, S) ==
  IF limit = None \/ Cardinality(S) <= limit THEN {S}
  ELSE {T \in kSubset(limit, S) :
          sort = "size" => \A e \in T, f \in S \ T : Size(e) <= Size(f)}

Answer(S) ==
  /\ pc' = "done"
  /\ found' \in FirstOf(query.sort, query.limit, Hits(query, S))
  /\ UNCHANGED <<reader, cache, query, ordinals>>

NoCandidates ==
  /\ ordinals = {} /\ ExactPath(query) = <<>> /\ ExactBasename(query) = <<>> /\ Literal(query) = <<>>

Nothing == pc = "plan" /\ NoCandidates /\ Answer({})

TakesPath == ExactPath(query) # <<>> /\ "path_entry" \in dir

FromPathEntries ==
  /\ pc = "plan" /\ TakesPath
  /\ Answer({e \in Files : e[2] = ExactPath(query)})

TakesBasename ==
  /\ ExactBasename(query) # <<>> /\ ExactPath(query) = <<>> /\ PathPrefix(query) = <<>>
  /\ "entry" \in dir

FromEntries ==
  /\ pc = "plan" /\ TakesBasename
  /\ Answer({e \in Files : BasenameOf(e[2]) = ExactBasename(query)})

----------------------------------------------------------------------------
(***************************************************************************)
(* search_path_trigram and search_short_literal.  The regular expression   *)
(* is looked at only when both literals are there and differ.              *)
(***************************************************************************)
Needle(q) ==
  IF Literal(q) # <<>> THEN Literal(q)
  ELSE IF RegexPrefix(q) # <<>> THEN RegexPrefix(q) ELSE RegexSuffix(q)
Second(q) == IF RegexSuffix(q) = Needle(q) THEN <<>> ELSE RegexSuffix(q)

TrigramIds(q) ==
  IF Second(q) = <<>> THEN PathIds(Needle(q)) ELSE PathIds(Needle(q)) \cap PathIds(Second(q))

TakesTrigram ==
  /\ Needle(query) # <<>>
  /\ ExactBasename(query) = <<>> /\ ExactPath(query) = <<>> /\ PathPrefix(query) = <<>>
  /\ {"path_trigram", "path_entry"} \subseteq dir
  /\ Len(Needle(query)) >= Gram => Cardinality(TrigramIds(query)) <= TrigramLimit

Verified(q, p) ==
  Occurs(Needle(q), p) /\ (Second(q) # <<>> => Occurs(Second(q), p) /\ Matches(q, p))

FromTrigrams ==
  /\ pc = "plan" /\ ~NoCandidates /\ TakesTrigram /\ Len(Needle(query)) >= Gram
  /\ Answer({e \in Files : e[2] \in TrigramIds(query) /\ Verified(query, e[2])})

(* A short literal: every path is looked at, and when nothing is to be     *)
(* sorted afterwards the search ends with the last one that is wanted.     *)
StopsAlways(q) == TRUE
StopsEarly(q) == q.sort = "none"

FromPaths ==
  /\ pc = "plan" /\ TakesTrigram /\ Len(Needle(query)) < Gram
  /\ LET hits == Hits(query, {e \in Files : Occurs(Needle(query), e[2])})
     IN \E seen \in FirstOf("none", IF StopsEarly(query) THEN query.limit ELSE None, hits) :
          Answer(seen)

----------------------------------------------------------------------------
(***************************************************************************)
(* search_entries.  A frame holds packages that follow one another.  A     *)
(* line is a file, or the footer that ends a package; packages are counted *)
(* by their footers.  Files whose footer is not in the block wait for the  *)
(* first one of a later block.                                             *)
(***************************************************************************)
LinesOf(n) ==
  Append([j \in 1 .. Cardinality(Paths(index, n)) |->
            [path |-> SetToSeq(Paths(index, n))[j], of |-> 0]], [path |-> <<>>, of |-> n])

Lines(S) == FlattenSeq([i \in 1 .. Cardinality(S) |-> LinesOf(Min(S) + i - 1)])

Blocks(lines, width) ==
  [k \in 1 .. (Len(lines) + width - 1) \div width |->
     SubSeq(lines, (k - 1) * width + 1, Min({k * width, Len(lines)}))]

Carried(state, feet) == IF feet = {} THEN state.pending ELSE {}

ScanBlock(q, filter, state, block) ==
  LET feet   == {i \in DOMAIN block : block[i].of # 0}
      hits   == {i \in DOMAIN block \ feet : Matches(q, block[i].path)}
      foot(i) == Min({k \in feet : k >= i})
      kept(f) == /\ Admits(q, block[f].of)
                 /\ filter # None =>
                      state.next + Cardinality({k \in feet : k < f}) \in filter
      held   == {i \in hits : {k \in feet : k > i} = {}}
  IN [next    |-> state.next + Cardinality(feet),
      pending |-> {block[i].path : i \in held} \cup Carried(state, feet),
      matches |-> state.matches
                  \cup {<<block[foot(i)].of, block[i].path>> : i \in {h \in hits \ held : kept(foot(h))}}
                  \cup (IF feet = {} \/ ~kept(foot(1)) THEN {}
                        ELSE {<<block[foot(1)].of, p>> : p \in state.pending})]

FirstOrdinalInFrame(filter, S) == 0
FirstOrdinal(filter, S) == IF filter = None THEN 0 ELSE Min(S)

ScanFrame(q, filter, S, width) ==
  LET blocks == Blocks(Lines(S), width)
      after[k \in 0 .. Len(blocks)] ==
        IF k = 0 THEN [next |-> FirstOrdinal(filter, S), pending |-> {}, matches |-> {}]
        ELSE ScanBlock(q, filter, after[k - 1], blocks[k])
  IN after[Len(blocks)].matches

Frame(f) == {n \in Packages(index) : index.frame[n] = f}
Filter == IF "frame_map" \in dir THEN ordinals ELSE None
Needed ==
  {f \in {index.frame[n] : n \in Packages(index)} : Filter # None => Frame(f) \cap Filter # {}}

Scan ==
  /\ pc = "plan" /\ ~NoCandidates /\ ~TakesPath /\ ~TakesBasename /\ ~TakesTrigram
  /\ \E width \in Widths :
       Answer(UNION {ScanFrame(query, Filter, Frame(f), width) : f \in Needed})

----------------------------------------------------------------------------
Next ==
  \/ Ask \/ ResolveCached \/ Resolve
  \/ Nothing \/ FromPathEntries \/ FromEntries \/ FromTrigrams \/ FromPaths \/ Scan

Spec == Init /\ [][Next]_vars

----------------------------------------------------------------------------
TypeOK ==
  /\ index \in Indexes /\ dir \in Directories
  /\ pc \in {"idle", "resolve", "plan", "done"}
  /\ query \in Queries \cup {NoQuery}
  /\ ordinals = None \/ ordinals \subseteq Packages(index)
  /\ found \subseteq Files

(***************************************************************************)
(* The answer by definition: every file that matches and is admitted.      *)
(***************************************************************************)
Reference(q) == {e \in Files : Admits(q, e[1]) /\ Matches(q, e[2])}

(***************************************************************************)
(* The cache never holds more than its capacity, and what it holds of a    *)
(* key is what would be computed for it, whichever queries came before.    *)
(***************************************************************************)
CacheExact ==
  /\ Len(cache) <= Capacity
  /\ pc = "plan" => ordinals = Both(BaseOrdinals(query), NgramOrdinals(query))

(***************************************************************************)
(* No sidecar, no candidate set and no place where a block ends hides a    *)
(* match, except from a regular expression with a group that is literal    *)
(* in part.  Every variable has its type.                                  *)
(***************************************************************************)
NothingHidden ==
  /\ TypeOK
  /\ pc = "done" /\ query.limit = None /\ ~query.pattern.group => Reference(query) \subseteq found

(***************************************************************************)
(* Queries that are answered exactly whichever sidecars there are: a       *)
(* sidecar is asked for all of the query, or the regular expression has    *)
(* the last word.                                                          *)
(***************************************************************************)
WholeQuery(q) ==
  \/ Literal(q) # <<>>
  \/ ExactPath(q) # <<>> /\ Absolute(q)
  \/ ExactPath(q) = <<>> /\ PathPrefix(q) # <<>>
  \/ ExactPath(q) = <<>> /\ ExactBasename(q) # <<>> /\ q.pattern.head = <<"/">> \o ExactBasename(q)
  \/ ExactPath(q) = <<>> /\ ExactBasename(q) = <<>> /\ ~q.pattern.group
       /\ (Needle(q) = <<>> \/ Second(q) # <<>>)

(***************************************************************************)
(* Those are answered as a scan of all files would, whichever sidecars are *)
(* there and whatever the cache holds, and a limit keeps the first ones of *)
(* the order that was asked for.                                           *)
(***************************************************************************)
AnswersLikeScan ==
  pc = "done" /\ WholeQuery(query) => found \in FirstOf(query.sort, query.limit, Reference(query))
=============================================================================
