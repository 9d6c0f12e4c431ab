------------------------ MODULE MCSegmentedDownload ------------------------
(***************************************************************************)
(* SegmentedDownload against five servers, each publishing at most twice:  *)
(* same length and new content, another length (so that the segments of    *)
(* the two plans differ), no entity tags, a file too small to segment, and *)
(* a first publication that is no index.                                   *)
(***************************************************************************)
EXTENDS SegmentedDownload

CONSTANTS tag1, tag2

Publication(len, tag, nixi) == [len |-> len, tag |-> tag, nixi |-> nixi]

MCHistories ==
  {<<Publication(5, tag1, TRUE), Publication(5, tag2, TRUE)>>,
   <<Publication(6, tag1, TRUE), Publication(5, tag2, TRUE)>>,
   <<Publication(4, NoTag, TRUE), Publication(3, NoTag, TRUE)>>,
   <<Publication(1, tag1, TRUE), Publication(3, tag2, TRUE)>>,
   <<Publication(3, tag1, FALSE), Publication(3, tag2, TRUE)>>}
=============================================================================
