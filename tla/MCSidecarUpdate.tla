--------------------------- MODULE MCSidecarUpdate ---------------------------
(***************************************************************************)
(* Two processes, which may update at once.                                *)
(***************************************************************************)
EXTENDS SidecarUpdate

(***************************************************************************)
(* Bound: the second takes part while no more than one entry is recorded   *)
(* or one file published.  What a file says is of no account to the races, *)
(* and what two releases do to a sidecar one process finds out.            *)
(***************************************************************************)
SmallOrAlone == records + releases <= 1 \/ upc["u2"] = "idle"
=============================================================================
