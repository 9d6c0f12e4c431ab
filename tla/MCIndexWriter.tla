--------------------------- MODULE MCIndexWriter ---------------------------
(***************************************************************************)
(* IndexWriter for every build of at most five listings of 0, 1 or 3       *)
(* bytes (one of them is filtered out altogether), on one to three         *)
(* threads.  The chunk size is set by each configuration.                  *)
(***************************************************************************)
EXTENDS IndexWriter

MCSizeLists == UNION {[1 .. n -> {0, 1, 3}] : n \in 0 .. 5}
=============================================================================
