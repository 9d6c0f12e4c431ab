--------------------------- MODULE TuiSearchProofs ---------------------------
(***************************************************************************)
(* Theorems about the interactive search, for any alphabet, any number of  *)
(* keys and rebuilds of the index.  The screen is related to what is still *)
(* under way: the two channels, the worker's handle and the memo.  Only    *)
(* the request asked last can be the active one, so an answer that counts  *)
(* is the answer to what was asked last, in the mode of now; and a handle  *)
(* older than the last Ctrl+R still has that reload before it in the       *)
(* channel of requests.                                                    *)
(***************************************************************************)
EXTENDS TuiSearch, SequenceTheorems, TLAPS

Request == [id : Nat, query : Queries, mode : Modes, matching : Matchings \cup {Plain},
            reload : BOOLEAN]
Outcome == [id : Nat, query : Queries, mode : Modes, rows : Rows \cup {Nothing}]
Entry == [key : [mode : Modes, query : Queries, matching : Matchings \cup {Plain}], rows : Rows]

Channels ==
  /\ requests \in Seq(Request) /\ outcomes \in Seq(Outcome)
  /\ cache \subseteq Entry

(***************************************************************************)
(* Numbers only grow, and only the last one is waited for.                 *)
(***************************************************************************)
Numbered ==
  /\ active # Nothing => active = lastId
  /\ \A i \in DOMAIN outcomes : outcomes[i].id <= lastId
  /\ \A i \in DOMAIN requests :
       /\ requests[i].id <= lastId
       /\ requests[i].id = lastId => i = Len(requests)

Coming == active # Nothing => active \in InFlight

(***************************************************************************)
(* What is waited for is what was asked last; answers and memo say which   *)
(* query they are of.                                                      *)
(***************************************************************************)
IsAsked(x) ==
  x.query # << >> /\ x.mode = mode /\ asked = [query |-> x.query, mode |-> x.mode]

Labelled ==
  /\ \A i \in DOMAIN requests : requests[i].id = active => IsAsked(requests[i])
  /\ \A i \in DOMAIN outcomes : outcomes[i].id = active => IsAsked(outcomes[i])
  /\ \A i \in DOMAIN outcomes : outcomes[i].rows # Nothing =>
       outcomes[i].rows.query = outcomes[i].query /\ outcomes[i].rows.mode = outcomes[i].mode
  /\ \A e \in cache : e.rows.query = e.key.query /\ e.rows.mode = e.key.mode

(***************************************************************************)
(* A handle from before the last Ctrl+R will be dropped before the active  *)
(* request is read; an answer that is waited for is not older than that.   *)
(***************************************************************************)
Renewed ==
  /\ handle \in Nat /\ handle < fresh => \E j \in DOMAIN requests : requests[j].reload
  /\ \A i \in DOMAIN outcomes :
       outcomes[i].id = active /\ outcomes[i].rows # Nothing => outcomes[i].rows.built >= fresh

IInv ==
  /\ TypeOK /\ Channels /\ Numbered /\ Coming /\ Labelled /\ Renewed
  /\ ShowsLastAsked /\ RefreshIsFresh

----------------------------------------------------------------------------
(***************************************************************************)
(* Queries are the sequences of characters that are short enough.          *)
(***************************************************************************)
LEMMA QueriesAreSeqs ==
  ASSUME NEW q
  PROVE  q \in Queries <=> q \in Seq(Chars) /\ Len(q) <= MaxLen
<1>1. ASSUME q \in Queries PROVE q \in Seq(Chars) /\ Len(q) <= MaxLen
  <2>1. PICK n \in 0 .. MaxLen : q \in [1 .. n -> Chars]
    BY <1>1 DEF Queries
  <2>2. n \in Nat /\ n <= MaxLen
    BY <2>1, TuiAssumption
  <2>3. q \in Seq(Chars)
    BY <2>1, <2>2, SeqDef
  <2>. QED  BY <2>1, <2>2, <2>3, LenProperties
<1>2. ASSUME q \in Seq(Chars), Len(q) <= MaxLen PROVE q \in Queries
  <2>1. Len(q) \in Nat /\ q \in [1 .. Len(q) -> Chars]
    BY <1>2, LenProperties
  <2>2. Len(q) \in 0 .. MaxLen
    BY <1>2, <2>1, TuiAssumption
  <2>. QED  BY <2>1, <2>2 DEF Queries
<1>. QED  BY <1>1, <1>2

LEMMA QueryEdits ==
  ASSUME NEW q \in Queries
  PROVE  /\ << >> \in Queries
         /\ q # Nothing
         /\ \A c \in Chars : Len(q) < MaxLen => Append(q, c) \in Queries
         /\ q # << >> => SubSeq(q, 1, Len(q) - 1) \in Queries
<1>1. q \in Seq(Chars) /\ Len(q) <= MaxLen /\ Len(q) \in Nat
  BY QueriesAreSeqs, LenProperties
<1>2. << >> \in Queries
  <2>1. << >> \in Seq(Chars) /\ Len(<< >>) = 0
    BY EmptySeq
  <2>2. 0 <= MaxLen
    BY TuiAssumption
  <2>. QED  BY <2>1, <2>2, QueriesAreSeqs
<1>3. q # Nothing
  BY <1>1, TuiAssumption
<1>4. ASSUME NEW c \in Chars, Len(q) < MaxLen PROVE Append(q, c) \in Queries
  <2>1. Append(q, c) \in Seq(Chars) /\ Len(Append(q, c)) = Len(q) + 1
    BY <1>1, AppendProperties
  <2>2. Len(Append(q, c)) <= MaxLen
    BY <1>1, <1>4, <2>1, TuiAssumption
  <2>. QED  BY <2>1, <2>2, QueriesAreSeqs
<1>5. ASSUME q # << >> PROVE SubSeq(q, 1, Len(q) - 1) \in Queries
  <2>1. Len(q) > 0
    BY <1>1, <1>5, EmptySeq, LenProperties
  <2>2. /\ SubSeq(q, 1, Len(q) - 1) \in Seq(Chars)
        /\ Len(SubSeq(q, 1, Len(q) - 1)) = Len(q) - 1
    <3>1. PICK m \in Nat : m = Len(q) - 1
      BY <1>1, <2>1
    <3>2. \A i \in 1 .. m : q[i] \in Chars
      BY <1>1, <3>1, ElementOfSeq
    <3>3. SubSeq(q, 1, m) = [i \in 1 .. m |-> q[i]]
      BY <3>1
    <3>4. SubSeq(q, 1, m) \in [1 .. m -> Chars]
      BY <3>2, <3>3, Zenon
    <3>5. SubSeq(q, 1, m) \in Seq(Chars)
      BY <3>4, SeqDef
    <3>6. Len(SubSeq(q, 1, m)) = m
      BY <3>4, <3>5, LenProperties
    <3>. QED  BY <3>1, <3>5, <3>6
  <2>3. Len(SubSeq(q, 1, Len(q) - 1)) <= MaxLen
    BY <1>1, <2>2, TuiAssumption
  <2>. QED  BY <2>2, <2>3, QueriesAreSeqs
<1>. QED  BY <1>2, <1>3, <1>4, <1>5

LEMMA Elements ==
  ASSUME NEW S, NEW s \in Seq(S)
  PROVE  \A i \in DOMAIN s : s[i] \in S
  BY ElementOfSeq, LenProperties

LEMMA RowsAreRows ==
  ASSUME NEW r \in Rows
  PROVE  r # NoRows
<1>1. DOMAIN r = {"query", "mode", "matching", "built"}
  BY DEF Rows
<1>2. DOMAIN NoRows = {}
  BY EmptySeq DEF NoRows
<1>. QED  BY <1>1, <1>2

(***************************************************************************)
(* What a channel holds after something is put in, and taken out.          *)
(***************************************************************************)
LEMMA PutIn ==
  ASSUME NEW S, NEW s \in Seq(S), NEW e \in S
  PROVE  /\ Append(s, e) \in Seq(S)
         /\ Len(Append(s, e)) = Len(s) + 1 /\ Len(s) \in Nat
         /\ Len(s) + 1 \in DOMAIN Append(s, e) /\ Append(s, e)[Len(s) + 1] = e
         /\ \A i \in DOMAIN s : i \in DOMAIN Append(s, e) /\ Append(s, e)[i] = s[i]
         /\ \A i \in DOMAIN Append(s, e) :
              \/ i \in DOMAIN s /\ i # Len(s) + 1
              \/ i = Len(s) + 1
  BY AppendProperties, LenProperties

LEMMA TakenOut ==
  ASSUME NEW S, NEW s \in Seq(S), s # << >>
  PROVE  /\ Tail(s) \in Seq(S) /\ Len(Tail(s)) = Len(s) - 1 /\ Len(s) \in Nat
         /\ 1 \in DOMAIN s /\ Head(s) = s[1] /\ Head(s) \in S
         /\ \A i \in DOMAIN Tail(s) :
              i \in Nat /\ i + 1 \in DOMAIN s /\ Tail(s)[i] = s[i + 1]
         /\ \A i \in DOMAIN s :
              i \in Nat /\ (i = 1 \/ (i - 1 \in DOMAIN Tail(s) /\ Tail(s)[i - 1] = s[i]))
  BY HeadTailProperties, LenProperties, EmptySeq

----------------------------------------------------------------------------
(***************************************************************************)
(* The loop starts with an empty line, nothing asked and nothing kept.     *)
(***************************************************************************)
THEOREM Initially == Init => IInv
<1>. SUFFICES ASSUME Init PROVE IInv
  OBVIOUS
<1>1. << >> \in Queries
  <2>1. << >> \in Seq(Chars) /\ Len(<< >>) = 0
    BY EmptySeq
  <2>2. 0 <= MaxLen
    BY TuiAssumption
  <2>. QED  BY <2>1, <2>2, QueriesAreSeqs
<1>2. TypeOK
  <2>1. keys \in 0 .. MaxKeys /\ built \in 0 .. MaxRebuilds /\ fresh \in 0 .. built
    BY TuiAssumption DEF Init
  <2>2. mode \in Modes /\ matching \in Matchings \cup {Plain} /\ input \in Queries
    BY <1>1 DEF Init, Modes
  <2>. QED  BY <2>1, <2>2 DEF Init, TypeOK
<1>3. Channels
  BY EmptySeq DEF Init, Channels
<1>4. Numbered /\ Coming /\ Labelled /\ Renewed
  BY EmptySeq, TuiAssumption DEF Init, Numbered, Coming, Labelled, Renewed
<1>5. ShowsLastAsked /\ RefreshIsFresh
  BY DEF Init, ShowsLastAsked, RefreshIsFresh
<1>. QED  BY <1>2, <1>3, <1>4, <1>5 DEF IInv

(***************************************************************************)
(* Steps that leave the channels alone, and what is waited for as well, or *)
(* retire it.                                                              *)
(***************************************************************************)
Untouched ==
  rows' = rows /\ mode' = mode /\ active' = active /\ asked' = asked
Retired ==
  /\ active' = Nothing /\ asked' = Nothing
  /\ rows' = NoRows \/ (rows' = rows /\ mode' = mode)

LEMMA QuietKeeps ==
  ASSUME IInv, Untouched \/ Retired, cache' \subseteq cache,
         UNCHANGED <<lastId, requests, outcomes, handle, fresh>>
  PROVE  /\ Numbered' /\ Coming' /\ Labelled' /\ Renewed'
         /\ ShowsLastAsked' /\ RefreshIsFresh'
<1>1. /\ requests \in Seq(Request) /\ outcomes \in Seq(Outcome)
  BY DEF IInv, Channels
<1>2. /\ \A i \in DOMAIN requests : requests[i].id # Nothing
      /\ \A i \in DOMAIN outcomes : outcomes[i].id # Nothing
  <2>1. /\ \A i \in DOMAIN requests : requests[i] \in Request
        /\ \A i \in DOMAIN outcomes : outcomes[i] \in Outcome
    BY <1>1, Elements
  <2>. QED  BY <2>1, TuiAssumption DEF Request, Outcome
<1>3. Numbered'
  BY DEF IInv, Numbered, Untouched, Retired
<1>4. Coming'
  BY DEF IInv, Coming, InFlight, Untouched, Retired
<1>5. Labelled'
  BY <1>2 DEF IInv, Labelled, IsAsked, Untouched, Retired
<1>6. Renewed'
  BY <1>2 DEF IInv, Renewed, Untouched, Retired
<1>7. ShowsLastAsked'
  BY DEF IInv, ShowsLastAsked, Untouched, Retired
<1>8. RefreshIsFresh'
  BY DEF IInv, RefreshIsFresh, Untouched, Retired
<1>. QED  BY <1>3, <1>4, <1>5, <1>6, <1>7, <1>8

(***************************************************************************)
(* A request: it is the last in the channel and has a number of its own,   *)
(* and if it follows a Ctrl+R, it is the reload that renews the handle.    *)
(***************************************************************************)
LEMMA AskKeeps ==
  ASSUME IInv, NEW query \in Queries, query # << >>,
         NEW match \in Matchings \cup {Plain}, NEW reload \in BOOLEAN,
         Ask(query, match, reload),
         UNCHANGED <<mode, outcomes, handle>>, cache' \subseteq cache,
         fresh' = fresh \/ reload
  PROVE  /\ lastId' \in Nat /\ active' \in 1 .. lastId' /\ active' # Nothing
         /\ requests' \in Seq(Request)
         /\ Numbered' /\ Coming' /\ Labelled' /\ Renewed'
<1>. DEFINE new == [id |-> lastId + 1, query |-> query, mode |-> mode,
                    matching |-> match, reload |-> reload]
<1>1. /\ requests \in Seq(Request) /\ outcomes \in Seq(Outcome)
      /\ lastId \in Nat /\ mode \in Modes
  BY DEF IInv, Channels, TypeOK
<1>2. /\ lastId' = lastId + 1 /\ active' = lastId + 1 /\ active' # Nothing
      /\ requests' = Append(requests, new)
      /\ asked' = [query |-> query, mode |-> mode]
  BY <1>1, TuiAssumption DEF Ask, AskAs
<1>3. new \in Request
  BY <1>1 DEF Request
<1>. HIDE DEF new
<1>4. /\ requests' \in Seq(Request)
      /\ Len(requests') = Len(requests) + 1 /\ Len(requests) \in Nat
      /\ Len(requests) + 1 \in DOMAIN requests' /\ requests'[Len(requests) + 1] = new
      /\ \A i \in DOMAIN requests : i \in DOMAIN requests' /\ requests'[i] = requests[i]
      /\ \A i \in DOMAIN requests' : i \in DOMAIN requests \/ i = Len(requests) + 1
  BY <1>1, <1>2, <1>3, PutIn
<1>5. /\ \A i \in DOMAIN requests : requests[i].id <= lastId /\ requests[i].id \in Nat
      /\ \A i \in DOMAIN outcomes : outcomes[i].id <= lastId /\ outcomes[i].id \in Nat
  <2>1. /\ \A i \in DOMAIN requests : requests[i] \in Request
        /\ \A i \in DOMAIN outcomes : outcomes[i] \in Outcome
    BY <1>1, Elements
  <2>. QED  BY <2>1 DEF IInv, Numbered, Request, Outcome
<1>6. Numbered'
  <2>1. \A i \in DOMAIN outcomes' : outcomes'[i].id <= lastId'
    BY <1>1, <1>2, <1>5
  <2>2. \A i \in DOMAIN requests' :
          requests'[i].id <= lastId' /\ (requests'[i].id = lastId' => i = Len(requests'))
    BY <1>1, <1>2, <1>4, <1>5 DEF new
  <2>. QED  BY <1>2, <2>1, <2>2 DEF Numbered
<1>7. Coming'
  BY <1>2, <1>4 DEF Coming, InFlight, new
<1>8. Labelled'
  <2>1. \A i \in DOMAIN requests' : requests'[i].id = active' => requests'[i] = new
    BY <1>1, <1>2, <1>4, <1>5
  <2>2. \A i \in DOMAIN outcomes' : outcomes'[i].id # active'
    BY <1>1, <1>2, <1>5
  <2>3. new.query # << >> /\ new.mode = mode' /\ asked' = [query |-> new.query, mode |-> new.mode]
    BY <1>2 DEF new
  <2>4. /\ \A i \in DOMAIN outcomes' : outcomes'[i].rows # Nothing =>
            /\ outcomes'[i].rows.query = outcomes'[i].query
            /\ outcomes'[i].rows.mode = outcomes'[i].mode
        /\ \A e \in cache' : e.rows.query = e.key.query /\ e.rows.mode = e.key.mode
    BY DEF IInv, Labelled
  <2>. QED  BY <2>1, <2>2, <2>3, <2>4 DEF Labelled, IsAsked
<1>9. Renewed'
  <2>1. \A i \in DOMAIN outcomes : outcomes[i].id # active'
    BY <1>1, <1>2, <1>5
  <2>2. CASE fresh' = fresh
    BY <1>4, <2>1, <2>2 DEF IInv, Renewed
  <2>3. CASE reload
    BY <1>4, <2>1, <2>3 DEF Renewed, new
  <2>. QED  BY <2>2, <2>3
<1>. QED  BY <1>1, <1>2, <1>4, <1>6, <1>7, <1>8, <1>9

(***************************************************************************)
(* With nothing waited for, what is in the channels asks for nothing.      *)
(***************************************************************************)
LEMMA NothingActive ==
  ASSUME IInv, active' = Nothing, cache' \subseteq cache,
         UNCHANGED <<lastId, requests, outcomes, handle, fresh>>
  PROVE  Numbered' /\ Coming' /\ Labelled' /\ Renewed'
<1>1. /\ \A i \in DOMAIN requests : requests[i].id # Nothing
      /\ \A i \in DOMAIN outcomes : outcomes[i].id # Nothing
  <2>1. /\ \A i \in DOMAIN requests : requests[i] \in Request
        /\ \A i \in DOMAIN outcomes : outcomes[i] \in Outcome
    BY Elements DEF IInv, Channels
  <2>. QED  BY <2>1, TuiAssumption DEF Request, Outcome
<1>. QED  BY <1>1 DEF IInv, Numbered, Coming, Labelled, Renewed

----------------------------------------------------------------------------
(***************************************************************************)
(* Keys that ask for nothing.                                              *)
(***************************************************************************)
Idle ==
  \/ \E c \in Chars : Type(c)
  \/ Backspace \/ Escape \/ Tab \/ Help \/ Enter \/ Unpin

LEMMA IdleStep == IInv /\ Idle => IInv'
<1>. SUFFICES ASSUME IInv, Idle PROVE IInv'
  OBVIOUS
<1>. USE DEF settings, screen, search, debounce, history
<1>1. TypeOK /\ Channels
  BY DEF IInv
<1>2. Draft \in Queries
  BY <1>1, QueryEdits DEF TypeOK, Draft
<1>3. /\ Untouched \/ Retired
      /\ cache' = cache /\ UNCHANGED <<lastId, requests, outcomes, handle, built, fresh>>
  BY DEF Idle, Type, Backspace, Escape, Tab, Help, Enter, Unpin, Edit, Retire, Untouched, Retired
<1>4. Channels'
  BY <1>1, <1>3 DEF Channels
<1>5. keys' \in 0 .. MaxKeys
  BY <1>1, TuiAssumption DEF Idle, Type, Backspace, Escape, Tab, Help, Enter, Unpin, Pressed, TypeOK
<1>6. /\ input' \in Queries /\ pending' \in Queries \cup {Nothing}
      /\ dispatched' \in Queries \cup {Nothing}
      /\ deadline' \in BOOLEAN /\ (deadline' => pending' # Nothing)
  <2>1. ASSUME NEW c \in Chars, Type(c)
        PROVE  <1>6!:
    <3>1. Len(Draft) < MaxLen => Append(Draft, c) \in Queries /\ Append(Draft, c) # Nothing
      BY <1>2, QueryEdits
    <3>2. << >> \in Queries /\ << >> # Nothing
      BY <1>2, QueryEdits
    <3>. QED  BY <1>1, <2>1, <3>1, <3>2 DEF Type, Edit, TypeOK
  <2>2. CASE Backspace
    <3>1. << >> \in Queries /\ << >> # Nothing
      BY <1>2, QueryEdits
    <3>2. Draft # << >> => /\ SubSeq(Draft, 1, Len(Draft) - 1) \in Queries
                           /\ SubSeq(Draft, 1, Len(Draft) - 1) # Nothing
      BY <1>2, QueryEdits
    <3>. QED  BY <1>1, <2>2, <3>1, <3>2 DEF Backspace, Edit, TypeOK
  <2>3. CASE Escape \/ Tab
    <3>1. << >> \in Queries
      BY <1>2, QueryEdits
    <3>2. \/ pending' = Nothing /\ deadline' = FALSE /\ dispatched' = Nothing
          \/ pending' = pending /\ deadline' = deadline /\ dispatched' = dispatched
      BY <2>3 DEF Escape, Tab, Retire
    <3>3. input' = input \/ input' = << >>
      BY <2>3 DEF Escape, Tab
    <3>4. input' \in Queries
      BY <1>1, <3>1, <3>3, Zenon DEF TypeOK
    <3>5. /\ pending \in Queries \cup {Nothing} /\ dispatched \in Queries \cup {Nothing}
          /\ deadline \in BOOLEAN /\ (deadline => pending # Nothing)
      BY <1>1, Zenon DEF TypeOK
    <3>6. CASE pending' = Nothing /\ deadline' = FALSE /\ dispatched' = Nothing
      BY <3>4, <3>6
    <3>7. CASE pending' = pending /\ deadline' = deadline /\ dispatched' = dispatched
      BY <3>4, <3>5, <3>7
    <3>. QED  BY <3>2, <3>6, <3>7
  <2>4. CASE Help \/ Enter \/ Unpin
    BY <1>1, <2>4 DEF Help, Enter, Unpin, TypeOK
  <2>. QED  BY <2>1, <2>2, <2>3, <2>4 DEF Idle
<1>7. /\ mode' \in Modes /\ matching' = matching
      /\ rows' \in Rows \cup {NoRows}
  BY <1>1 DEF TypeOK, Idle, Type, Backspace, Escape, Tab, Help, Enter, Unpin, Edit, Retire, Modes, NextMode
<1>8. /\ pane' \in {"none", "open", "pinned"} /\ help' \in BOOLEAN /\ (help' => pane' = "none")
  <2>1. CASE (\E c \in Chars : Type(c)) \/ Backspace \/ Escape \/ Tab
    <3>1. /\ pane' = pane \/ pane' = "none" \/ (pane = "open" /\ pane' = "pinned")
          /\ help' = FALSE \/ (help' = help /\ pane' = "none")
      BY <2>1 DEF Type, Backspace, Escape, Tab, Edit
    <3>. QED  BY <1>1, <3>1, Zenon DEF TypeOK
  <2>2. CASE Help
    <3>1. pane' = "none" /\ help' = ~help
      BY <2>2 DEF Help
    <3>. QED  BY <1>1, <3>1, Zenon DEF TypeOK
  <2>3. CASE Enter
    <3>1. pane' \in {"none", "open", "pinned"} /\ help' = help /\ help = FALSE
      BY <1>1, <2>3, Zenon DEF Enter, TypeOK
    <3>. QED  BY <3>1, Zenon
  <2>4. CASE Unpin
    <3>1. pane = "pinned" /\ pane' = "open" /\ help' = help
      BY <2>4 DEF Unpin
    <3>2. help = FALSE
      BY <1>1, <3>1, Zenon DEF TypeOK
    <3>. QED  BY <3>1, <3>2, Zenon
  <2>. QED  BY <2>1, <2>2, <2>3, <2>4, Zenon DEF Idle
<1>9. active' \in 1 .. lastId \cup {Nothing} /\ loop' = loop
  BY <1>1 DEF TypeOK, Idle, Type, Backspace, Escape, Tab, Help, Enter, Unpin, Edit, Retire
<1>10. TypeOK'
  BY <1>1, <1>3, <1>5, <1>6, <1>7, <1>8, <1>9 DEF TypeOK
<1>. QED  BY <1>3, <1>4, <1>10, QuietKeeps DEF IInv

(***************************************************************************)
(* Keys that ask again.                                                    *)
(***************************************************************************)
LEMMA ReloadStep ==
  ASSUME IInv, Refresh \/ \E m \in Matchings : Toggle(m)
  PROVE  IInv'
<1>. USE DEF settings, screen, search, debounce, history
<1>1. TypeOK /\ Channels
  BY DEF IInv
<1>2. /\ UNCHANGED <<mode, screen, debounce, loop, outcomes, handle, built>>
      /\ cache' \subseteq cache
      /\ keys' \in 0 .. MaxKeys
      /\ matching' \in Matchings \cup {Plain}
      /\ fresh' \in 0 .. built
  BY <1>1, TuiAssumption DEF Refresh, Toggle, Command, Pressed, TypeOK
<1>3. CASE input = << >>
  <2>1. Untouched /\ UNCHANGED <<lastId, requests, fresh>>
    BY <1>2, <1>3 DEF Refresh, Toggle, DispatchReload, Untouched
  <2>2. TypeOK' /\ Channels'
    BY <1>1, <1>2, <2>1 DEF TypeOK, Channels, Untouched
  <2>. QED  BY <1>2, <2>1, <2>2, QuietKeeps DEF IInv
<1>4. CASE input # << >>
  <2>1. PICK match \in Matchings \cup {Plain} : Ask(input, match, TRUE)
    BY <1>1, <1>2, <1>4 DEF Refresh, Toggle, DispatchReload, TypeOK
  <2>2. /\ lastId' \in Nat /\ active' \in 1 .. lastId' /\ active' # Nothing
        /\ requests' \in Seq(Request)
        /\ Numbered' /\ Coming' /\ Labelled' /\ Renewed'
    BY <1>1, <1>2, <1>4, <2>1, AskKeeps DEF TypeOK
  <2>3. TypeOK' /\ Channels'
    BY <1>1, <1>2, <2>2 DEF TypeOK, Channels
  <2>4. ShowsLastAsked'
    BY <1>2, <2>2 DEF IInv, ShowsLastAsked
  <2>5. RefreshIsFresh'
    <3>1. CASE Refresh
      BY <2>2, <3>1 DEF Refresh, RefreshIsFresh
    <3>2. CASE \E m \in Matchings : Toggle(m)
      BY <2>2, <3>2 DEF Toggle, IInv, RefreshIsFresh
    <3>. QED  BY <3>1, <3>2
  <2>. QED  BY <2>2, <2>3, <2>4, <2>5 DEF IInv
<1>. QED  BY <1>3, <1>4

----------------------------------------------------------------------------
(***************************************************************************)
(* The debounce: nothing new, an empty line, an answer from the memo or a  *)
(* request.                                                                *)
(***************************************************************************)
LEMMA DebounceStep == IInv /\ Debounce => IInv'
<1>. SUFFICES ASSUME IInv, Debounce PROVE IInv'
  OBVIOUS
<1>. USE DEF settings, screen, search, debounce, history
<1>1. TypeOK /\ Channels
  BY DEF IInv
<1>2. /\ UNCHANGED <<keys, mode, matching, help, loop, outcomes, handle, built, fresh, cache>>
      /\ pending' = Nothing /\ deadline' = FALSE
      /\ pending \in Queries
  BY <1>1 DEF Debounce, TypeOK
<1>3. CASE dispatched = pending
  <2>1. Untouched /\ UNCHANGED <<input, pane, dispatched, lastId, requests>>
    BY <1>3 DEF Debounce, Untouched
  <2>2. TypeOK' /\ Channels'
    BY <1>1, <1>2, <2>1 DEF TypeOK, Channels, Untouched
  <2>. QED  BY <1>2, <2>1, <2>2, QuietKeeps DEF IInv
<1>4. CASE dispatched # pending
  <2>1. /\ input' = pending /\ dispatched' = pending /\ pane' = "none"
        /\ DispatchSearch(pending)
    BY <1>4 DEF Debounce
  <2>2. CASE pending = << >> /\ active' = Nothing /\ rows' = NoRows
             /\ asked' = [query |-> pending, mode |-> mode] /\ UNCHANGED <<lastId, requests>>
    <3>1. TypeOK' /\ Channels'
      BY <1>1, <1>2, <2>1, <2>2 DEF TypeOK, Channels
    <3>2. Numbered' /\ Coming' /\ Labelled' /\ Renewed'
      BY <1>1, <1>2, <2>2, NothingActive
    <3>3. ShowsLastAsked' /\ RefreshIsFresh'
      BY <1>2, <2>2 DEF IInv, ShowsLastAsked, RefreshIsFresh
    <3>. QED  BY <3>1, <3>2, <3>3 DEF IInv
  <2>3. CASE /\ pending # << >> /\ active' = Nothing /\ rows' \in Cached(pending)
             /\ asked' = [query |-> pending, mode |-> mode] /\ UNCHANGED <<lastId, requests>>
    <3>1. PICK e \in cache : e.key = CacheKey(pending) /\ rows' = e.rows
      BY <2>3 DEF Cached
    <3>2. e.rows.query = pending /\ e.rows.mode = mode /\ e.rows \in Rows /\ e.rows.built >= fresh
      BY <1>1, <3>1 DEF IInv, Labelled, CacheKey, RefreshIsFresh, TypeOK
    <3>3. TypeOK' /\ Channels'
      BY <1>1, <1>2, <2>1, <2>3, <3>1, <3>2 DEF TypeOK, Channels
    <3>4. Numbered' /\ Coming' /\ Labelled' /\ Renewed'
      BY <1>1, <1>2, <2>3, NothingActive
    <3>5. rows' # NoRows
      BY <3>1, <3>2, RowsAreRows
    <3>6. ShowsLastAsked' /\ RefreshIsFresh'
      BY <1>2, <2>3, <3>1, <3>2, <3>5 DEF IInv, ShowsLastAsked, RefreshIsFresh
    <3>. QED  BY <3>3, <3>4, <3>6 DEF IInv
  <2>4. CASE pending # << >> /\ Ask(pending, matching, FALSE) /\ rows' = rows
    <3>1. /\ lastId' \in Nat /\ active' \in 1 .. lastId' /\ active' # Nothing
          /\ requests' \in Seq(Request)
          /\ Numbered' /\ Coming' /\ Labelled' /\ Renewed'
      BY <1>1, <1>2, <2>4, AskKeeps DEF TypeOK
    <3>2. TypeOK' /\ Channels'
      BY <1>1, <1>2, <2>1, <2>4, <3>1 DEF TypeOK, Channels
    <3>3. ShowsLastAsked' /\ RefreshIsFresh'
      BY <1>2, <2>4, <3>1 DEF IInv, ShowsLastAsked, RefreshIsFresh
    <3>. QED  BY <3>1, <3>2, <3>3 DEF IInv
  <2>. QED  BY <2>1, <2>2, <2>3, <2>4 DEF DispatchSearch, DispatchedWith
<1>. QED  BY <1>3, <1>4

(***************************************************************************)
(* An answer: dropped, or applied and kept, or an error.                   *)
(***************************************************************************)
LEMMA ApplyStep == IInv /\ ApplyOutcome => IInv'
<1>. SUFFICES ASSUME IInv, ApplyOutcome PROVE IInv'
  OBVIOUS
<1>. USE DEF settings, screen, search, debounce, history
<1>. DEFINE outcome == Head(outcomes)
<1>1. TypeOK /\ Channels
  BY DEF IInv
<1>2. /\ UNCHANGED <<keys, mode, matching, input, help, lastId, pending, deadline, dispatched,
                     loop, requests, handle, built, fresh>>
      /\ outcomes # << >> /\ outcomes' = Tail(outcomes)
  BY DEF ApplyOutcome
<1>3. /\ outcomes' \in Seq(Outcome) /\ 1 \in DOMAIN outcomes /\ outcome = outcomes[1]
      /\ outcome \in Outcome
      /\ \A i \in DOMAIN outcomes' :
           i \in Nat /\ i + 1 \in DOMAIN outcomes /\ outcomes'[i] = outcomes[i + 1]
      /\ \A i \in DOMAIN outcomes :
           i \in Nat /\ (i = 1 \/ (i - 1 \in DOMAIN outcomes' /\ outcomes'[i - 1] = outcomes[i]))
  BY <1>1, <1>2, TakenOut DEF Channels
<1>. HIDE DEF outcome
<1>4. /\ \A i \in DOMAIN requests : requests[i].id # Nothing
      /\ \A i \in DOMAIN outcomes : outcomes[i].id # Nothing
  <2>1. /\ \A i \in DOMAIN requests : requests[i] \in Request
        /\ \A i \in DOMAIN outcomes : outcomes[i] \in Outcome
    BY <1>1, Elements DEF Channels
  <2>. QED  BY <2>1, TuiAssumption DEF Request, Outcome
<1>5. active' = Nothing \/ active' = active
  BY DEF ApplyOutcome
<1>6. Numbered'
  BY <1>2, <1>3, <1>5 DEF IInv, Numbered
<1>7. CASE outcome.id # active /\ UNCHANGED <<active, cache, rows, pane, asked>>
  <2>1. TypeOK' /\ Channels'
    BY <1>1, <1>2, <1>3, <1>7 DEF TypeOK, Channels
  <2>2. Coming'
    <3>1. CASE \E i \in DOMAIN outcomes : outcomes[i].id = active
      <4>1. PICK i \in DOMAIN outcomes : outcomes[i].id = active
        BY <3>1
      <4>2. i - 1 \in DOMAIN outcomes' /\ outcomes'[i - 1] = outcomes[i]
        BY <1>3, <1>7, <4>1
      <4>3. active' \in {outcomes'[j].id : j \in DOMAIN outcomes'}
        BY <1>7, <4>1, <4>2
      <4>. QED  BY <4>3 DEF Coming, InFlight
    <3>2. CASE \E i \in DOMAIN requests : requests[i].id = active
      BY <1>2, <1>7, <3>2 DEF Coming, InFlight
    <3>3. CASE active = Nothing
      BY <1>7, <3>3 DEF Coming
    <3>. QED  BY <3>1, <3>2, <3>3 DEF IInv, Coming, InFlight
  <2>3. Labelled' /\ Renewed'
    BY <1>2, <1>3, <1>7 DEF IInv, Labelled, IsAsked, Renewed
  <2>4. ShowsLastAsked' /\ RefreshIsFresh'
    BY <1>2, <1>7 DEF IInv, ShowsLastAsked, RefreshIsFresh
  <2>. QED  BY <1>6, <2>1, <2>2, <2>3, <2>4 DEF IInv
<1>8. CASE /\ outcome.id = active /\ outcome.rows # Nothing
           /\ active' = Nothing
           /\ cache' = {e \in cache : e.key # CacheKey(outcome.query)}
                         \cup {[key |-> CacheKey(outcome.query), rows |-> outcome.rows]}
           /\ rows' = outcome.rows /\ pane' = "none" /\ asked' = asked
  <2>1. /\ IsAsked(outcome) /\ outcome.rows \in Rows /\ outcome.query \in Queries
        /\ outcome.rows.query = outcome.query /\ outcome.rows.mode = mode
        /\ outcome.rows.built >= fresh
    BY <1>3, <1>8 DEF IInv, Labelled, IsAsked, Renewed, Outcome
  <2>2. [key |-> CacheKey(outcome.query), rows |-> outcome.rows] \in Entry
    BY <1>1, <2>1 DEF TypeOK, Entry, CacheKey
  <2>3. Channels'
    BY <1>1, <1>2, <1>3, <1>8, <2>2 DEF Channels
  <2>4. TypeOK'
    BY <1>1, <1>2, <1>8, <2>1 DEF TypeOK
  <2>5. Coming'
    BY <1>8 DEF Coming
  <2>6. Labelled'
    <3>1. \A e \in cache' : e.rows.query = e.key.query /\ e.rows.mode = e.key.mode
      BY <1>8, <2>1 DEF IInv, Labelled, CacheKey
    <3>2. /\ \A i \in DOMAIN requests' : requests'[i].id # active'
          /\ \A i \in DOMAIN outcomes' : outcomes'[i].id # active'
      BY <1>2, <1>3, <1>4, <1>8
    <3>3. \A i \in DOMAIN outcomes' : outcomes'[i].rows # Nothing =>
            /\ outcomes'[i].rows.query = outcomes'[i].query
            /\ outcomes'[i].rows.mode = outcomes'[i].mode
      BY <1>3 DEF IInv, Labelled
    <3>. QED  BY <3>1, <3>2, <3>3 DEF Labelled
  <2>7. Renewed'
    BY <1>2, <1>3, <1>4, <1>8 DEF IInv, Renewed
  <2>8. rows' # NoRows
    BY <1>8, <2>1, RowsAreRows
  <2>9. ShowsLastAsked'
    BY <1>2, <1>8, <2>1, <2>8 DEF ShowsLastAsked, IsAsked
  <2>10. RefreshIsFresh'
    BY <1>2, <1>8, <2>1 DEF IInv, RefreshIsFresh
  <2>. QED  BY <1>6, <2>3, <2>4, <2>5, <2>6, <2>7, <2>9, <2>10 DEF IInv
<1>9. CASE /\ outcome.id = active /\ outcome.rows = Nothing
           /\ active' = Nothing /\ asked' = Nothing /\ UNCHANGED <<cache, rows, pane>>
  <2>1. TypeOK' /\ Channels'
    BY <1>1, <1>2, <1>3, <1>9 DEF TypeOK, Channels
  <2>2. Coming'
    BY <1>9 DEF Coming
  <2>3. Labelled' /\ Renewed'
    BY <1>2, <1>3, <1>4, <1>9 DEF IInv, Labelled, Renewed
  <2>4. ShowsLastAsked' /\ RefreshIsFresh'
    BY <1>2, <1>9 DEF IInv, ShowsLastAsked, RefreshIsFresh
  <2>. QED  BY <1>6, <2>1, <2>2, <2>3, <2>4 DEF IInv
<1>. QED  BY <1>7, <1>8, <1>9 DEF ApplyOutcome, Answers, outcome

(***************************************************************************)
(* The worker: the request leaves its channel and the answer enters the    *)
(* other.  The active request is the last one, so no reload waits behind   *)
(* it, and a handle from before the last Ctrl+R does not answer it.        *)
(***************************************************************************)
LEMMA WorkStep == IInv /\ Work => IInv'
<1>. SUFFICES ASSUME IInv, Work PROVE IInv'
  OBVIOUS
<1>. USE DEF settings, screen, search, debounce, history
<1>. DEFINE request == Head(requests)
            held == HandleFor(request)
            read == IF request.mode = "search" /\ held # Nothing THEN held ELSE built
            found == [query |-> request.query, mode |-> request.mode,
                      matching |-> request.matching, built |-> read]
            Answer(result) == [id |-> request.id, query |-> request.query,
                               mode |-> request.mode, rows |-> result]
<1>1. TypeOK /\ Channels
  BY DEF IInv
<1>2. /\ UNCHANGED <<keys, mode, matching, input, rows, pane, help, active, lastId, cache,
                     pending, deadline, dispatched, loop, built, asked, fresh>>
      /\ requests # << >> /\ requests' = Tail(requests)
  BY DEF Work
<1>3. /\ requests' \in Seq(Request) /\ Len(requests') = Len(requests) - 1
      /\ Len(requests) \in Nat /\ 1 \in DOMAIN requests
      /\ request = requests[1] /\ request \in Request
      /\ \A i \in DOMAIN requests' :
           i \in Nat /\ i + 1 \in DOMAIN requests /\ requests'[i] = requests[i + 1]
      /\ \A i \in DOMAIN requests :
           i \in Nat /\ (i = 1 \/ (i - 1 \in DOMAIN requests' /\ requests'[i - 1] = requests[i]))
  BY <1>1, <1>2, TakenOut DEF Channels
<1>4. /\ read \in 0 .. MaxRebuilds
      /\ handle' = held \/ handle' = read
      /\ held = Nothing \/ (held = handle /\ ~request.reload)
      /\ request.reload => held = Nothing
  <2>1. held = Nothing \/ held \in 0 .. MaxRebuilds
    BY <1>1 DEF HandleFor, TypeOK
  <2>2. read \in 0 .. MaxRebuilds
    BY <1>1, <2>1 DEF TypeOK
  <2>3. handle' = held \/ handle' = read
    BY DEF Work
  <2>4. held = Nothing \/ (held = handle /\ ~request.reload)
    BY DEF HandleFor
  <2>5. request.reload => held = Nothing
    BY DEF HandleFor
  <2>. QED  BY <2>2, <2>3, <2>4, <2>5, Zenon
<1>5. read = built \/ read = held
  OBVIOUS
<1>6. PICK result \in {found, Nothing} : outcomes' = Append(outcomes, Answer(result))
  BY DEF Work
<1>. DEFINE new == Answer(result)
<1>7. found \in Rows /\ new \in Outcome
  BY <1>3, <1>4 DEF Request, Outcome, Rows
<1>8. /\ new.id = request.id /\ new.query = request.query /\ new.mode = request.mode
      /\ new.rows # Nothing => /\ new.rows.query = new.query /\ new.rows.mode = new.mode
                               /\ new.rows.built = read
  OBVIOUS
<1>. HIDE DEF request, held, read, found, Answer, new
<1>9. /\ outcomes' \in Seq(Outcome) /\ Len(outcomes) + 1 \in DOMAIN outcomes'
      /\ outcomes'[Len(outcomes) + 1] = new
      /\ \A i \in DOMAIN outcomes : i \in DOMAIN outcomes' /\ outcomes'[i] = outcomes[i]
      /\ \A i \in DOMAIN outcomes' : i \in DOMAIN outcomes \/ i = Len(outcomes) + 1
  BY <1>1, <1>6, <1>7, PutIn DEF Channels, new
<1>10. /\ \A i \in DOMAIN outcomes' : outcomes'[i] = new \/
             \E j \in DOMAIN outcomes : outcomes'[i] = outcomes[j]
  BY <1>9
<1>11. handle' \in 0 .. MaxRebuilds \cup {Nothing}
  BY <1>1, <1>4 DEF TypeOK
<1>12. TypeOK' /\ Channels'
  BY <1>1, <1>2, <1>3, <1>9, <1>11 DEF TypeOK, Channels
<1>13. Numbered'
  <2>1. active' # Nothing => active' = lastId'
    BY <1>2 DEF IInv, Numbered
  <2>2. \A i \in DOMAIN outcomes' : outcomes'[i].id <= lastId'
    BY <1>2, <1>3, <1>8, <1>10 DEF IInv, Numbered
  <2>3. \A i \in DOMAIN requests' :
          requests'[i].id <= lastId' /\ (requests'[i].id = lastId' => i = Len(requests'))
    BY <1>2, <1>3 DEF IInv, Numbered
  <2>. QED  BY <2>1, <2>2, <2>3 DEF Numbered
<1>14. Coming'
  <2>1. SUFFICES ASSUME active # Nothing PROVE active \in InFlight'
    BY <1>2 DEF Coming
  <2>2. CASE \E i \in DOMAIN outcomes : outcomes[i].id = active
    BY <1>9, <2>2 DEF InFlight
  <2>3. CASE \E i \in DOMAIN requests : requests[i].id = active
    <3>1. PICK i \in DOMAIN requests : requests[i].id = active
      BY <2>3
    <3>2. CASE i = 1
      BY <1>3, <1>8, <1>9, <3>1, <3>2 DEF InFlight
    <3>3. CASE i # 1
      BY <1>3, <3>1, <3>3 DEF InFlight
    <3>. QED  BY <3>2, <3>3
  <2>. QED  BY <2>1, <2>2, <2>3 DEF IInv, Coming, InFlight
<1>15. Labelled'
  <2>1. \A i \in DOMAIN requests' : requests'[i].id = active => IsAsked(requests'[i])
    BY <1>3 DEF IInv, Labelled
  <2>2. new.id = active => IsAsked(new)
    BY <1>3, <1>8, ZenonT(40) DEF IInv, Labelled, IsAsked
  <2>3. \A i \in DOMAIN outcomes' : outcomes'[i].id = active => IsAsked(outcomes'[i])
    BY <1>10, <2>2 DEF IInv, Labelled
  <2>4. \A i \in DOMAIN outcomes' : outcomes'[i].rows # Nothing =>
          /\ outcomes'[i].rows.query = outcomes'[i].query
          /\ outcomes'[i].rows.mode = outcomes'[i].mode
    BY <1>8, <1>10 DEF IInv, Labelled
  <2>5. \A e \in cache' : e.rows.query = e.key.query /\ e.rows.mode = e.key.mode
    BY <1>2 DEF IInv, Labelled
  <2>. QED  BY <1>2, <2>1, <2>3, <2>4, <2>5 DEF Labelled, IsAsked
<1>16. Renewed'
  <2>1. fresh \in Nat /\ built \in Nat /\ fresh <= built /\ Nothing \notin Nat
    BY <1>1, TuiAssumption DEF TypeOK
  <2>2. ASSUME handle' \in Nat, handle' < fresh
        PROVE  \E j \in DOMAIN requests' : requests'[j].reload
    <3>1. handle' = handle /\ ~request.reload
      BY <1>4, <1>5, <2>1, <2>2
    <3>2. PICK j \in DOMAIN requests : requests[j].reload
      BY <2>2, <3>1 DEF IInv, Renewed
    <3>. QED  BY <1>3, <3>1, <3>2
  <2>3. ASSUME new.id = active, new.rows # Nothing
        PROVE  new.rows.built >= fresh
    <3>1. CASE read = built
      BY <1>8, <2>1, <2>3, <3>1
    <3>2. CASE read # built
      <4>1. read = handle /\ ~request.reload /\ handle \in Nat
        BY <1>4, <1>5, <2>1, <3>2
      <4>2. request.id = lastId
        BY <1>3, <1>8, <2>3, TuiAssumption DEF IInv, Numbered, Request
      <4>3. Len(requests) = 1
        BY <1>3, <4>2 DEF IInv, Numbered
      <4>4. \A j \in DOMAIN requests : j = 1
        BY <1>1, <4>3, LenProperties DEF Channels
      <4>5. ~(handle < fresh)
        BY <1>3, <4>1, <4>4 DEF IInv, Renewed
      <4>. QED  BY <1>8, <2>1, <2>3, <4>1, <4>5
    <3>. QED  BY <3>1, <3>2
  <2>. QED  BY <1>2, <1>10, <2>2, <2>3 DEF IInv, Renewed
<1>17. ShowsLastAsked' /\ RefreshIsFresh'
  BY <1>2 DEF IInv, ShowsLastAsked, RefreshIsFresh
<1>. QED  BY <1>12, <1>13, <1>14, <1>15, <1>16, <1>17 DEF IInv

(***************************************************************************)
(* The end of the loop, and a rebuild behind its back.                     *)
(***************************************************************************)
LEMMA OtherStep == IInv /\ (Quit \/ Joined \/ Rebuild) => IInv'
<1>. SUFFICES ASSUME IInv, Quit \/ Joined \/ Rebuild PROVE IInv'
  OBVIOUS
<1>. USE DEF settings, screen, search, debounce, history
<1>1. TypeOK /\ Channels
  BY DEF IInv
<1>2. /\ UNCHANGED <<keys, mode, matching, input, rows, pane, help, active, lastId, cache,
                     pending, deadline, dispatched, requests, outcomes, handle, asked, fresh>>
      /\ loop' \in {"running", "waiting", "ended"}
      /\ built' = built \/ (built < MaxRebuilds /\ built' = built + 1)
  BY <1>1 DEF Quit, Joined, Rebuild, TypeOK
<1>3. built' \in 0 .. MaxRebuilds /\ fresh' \in 0 .. built'
  BY <1>1, <1>2, TuiAssumption DEF TypeOK
<1>4. TypeOK' /\ Channels'
  BY <1>1, <1>2, <1>3 DEF TypeOK, Channels
<1>5. Untouched /\ cache' \subseteq cache
  BY <1>2 DEF Untouched
<1>. QED  BY <1>2, <1>4, <1>5, QuietKeeps DEF IInv

----------------------------------------------------------------------------
(***************************************************************************)
(* All of this holds throughout.                                           *)
(***************************************************************************)
THEOREM Invariant == Spec => []IInv
<1>1. Init => IInv
  BY Initially
<1>2. IInv /\ [Next]_vars => IInv'
  <2>. SUFFICES ASSUME IInv, [Next]_vars PROVE IInv'
    OBVIOUS
  <2>1. CASE Key
    BY <2>1, IdleStep, ReloadStep DEF Key, Idle
  <2>2. CASE Loop
    BY <2>2, DebounceStep, ApplyStep, OtherStep DEF Loop
  <2>3. CASE Work
    BY <2>3, WorkStep
  <2>4. CASE Quit \/ Rebuild
    BY <2>4, OtherStep
  <2>5. CASE UNCHANGED vars
    <3>1. UNCHANGED <<keys, mode, matching, input, rows, pane, help, active, lastId, cache,
                      pending, deadline, dispatched, loop, requests, outcomes, handle, built,
                      asked, fresh>>
      BY <2>5 DEF vars, settings, screen, search, debounce, history
    <3>2. TypeOK' /\ Channels' /\ Untouched /\ cache' \subseteq cache
      BY <3>1 DEF IInv, TypeOK, Channels, Untouched
    <3>. QED  BY <3>1, <3>2, QuietKeeps DEF IInv
  <2>. QED  BY <2>1, <2>2, <2>3, <2>4, <2>5 DEF Next
<1>. QED  BY <1>1, <1>2, PTL DEF Spec

(***************************************************************************)
(* Whatever keys are pressed and however late the worker answers, every    *)
(* variable keeps its type and the request the screen waits for is still   *)
(* in one of the channels.                                                 *)
(***************************************************************************)
THEOREM WaitsForWhatIsComing == Spec => []ActiveIsComing
<1>1. IInv => ActiveIsComing
  BY DEF IInv, Coming, ActiveIsComing
<1>. QED  BY <1>1, Invariant, PTL

(***************************************************************************)
(* No answer of another mode or of an earlier request ever gets on screen, *)
(* from the worker or from the memo.                                       *)
(***************************************************************************)
THEOREM ScreenIsLastAsked == Spec => []ShowsLastAsked
<1>1. IInv => ShowsLastAsked
  BY DEF IInv
<1>. QED  BY <1>1, Invariant, PTL

(***************************************************************************)
(* After a Ctrl+R neither screen nor memo shows an older index, whatever   *)
(* was queued or open at that moment.                                      *)
(***************************************************************************)
THEOREM RefreshReadsAnew == Spec => []RefreshIsFresh
<1>1. IInv => RefreshIsFresh
  BY DEF IInv
<1>. QED  BY <1>1, Invariant, PTL
=============================================================================
