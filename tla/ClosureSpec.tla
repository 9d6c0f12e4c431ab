----------------------------- MODULE ClosureSpec -----------------------------
(***************************************************************************)
(* What fetch_listings promises to the index build: the listing of every   *)
(* path in the closure of the roots, each exactly once, labelled as the    *)
(* roots label it, and then the end of the stream.  The build may stop     *)
(* listening at any time.                                                  *)
(***************************************************************************)
EXTENDS StoreClosure

VARIABLES
  world,      \* the input of this run
  delivered,  \* the listings the build has received, in order
  stream      \* "open", "ended" (end of stream seen) or "dropped"

vars == <<world, delivered, stream>>

IsDelivered(item) == \E i \in DOMAIN delivered : delivered[i] = item

Init ==
  /\ world \in Worlds
  /\ delivered = << >>
  /\ stream = "open"

Deliver(item) ==
  /\ stream = "open"
  /\ item \in Wanted[world]
  /\ ~IsDelivered(item)
  /\ delivered' = Append(delivered, item)
  /\ UNCHANGED <<world, stream>>

End ==
  /\ stream = "open"
  /\ \A item \in Wanted[world] : IsDelivered(item)
  /\ stream' = "ended"
  /\ UNCHANGED <<world, delivered>>

Drop ==
  /\ stream = "open"
  /\ stream' = "dropped"
  /\ UNCHANGED <<world, delivered>>

DeliverSome == \E item \in Wanted[world] : Deliver(item)

Next == DeliverSome \/ End \/ Drop

Spec == Init /\ [][Next]_vars /\ WF_vars(DeliverSome) /\ WF_vars(End)
=============================================================================
