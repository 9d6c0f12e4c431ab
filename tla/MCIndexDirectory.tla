-------------------------- MODULE MCIndexDirectory --------------------------
(* A release in version 1, a build in version 2, and a release in version 2 *)
(* that ends after the first frame of it.                                   *)
EXTENDS IndexDirectory

CONSTANTS release, local, shorter

MCVersion == [g \in Gens |-> IF g = release THEN 1 ELSE 2]
MCFrames == [g \in Gens |-> CASE g = release -> <<"r">> [] g = local -> <<"l", "m">>
                              [] g = shorter -> <<"l">>]
=============================================================================
