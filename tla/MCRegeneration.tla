--------------------------- MODULE MCRegeneration ---------------------------
EXTENDS Regeneration

a == 97  b == 98

Dir == [type |-> "directory"]
Exe == [type |-> "regular", size |-> 1, executable |-> TRUE]
Reg == [type |-> "regular"]
Sym == [type |-> "symlink", target |-> <<a>>]

Path(json, attr) == [json |-> json, attr |-> attr, output |-> "out", toplevel |-> TRUE]

Root == <<>> :> Dir
\* two commands, whose paths share a prefix, and one more that is left out
Tools == Root @@ (<<<<b>>>> :> Dir) @@ (<<<<b>>, <<a>>>> :> Exe) @@ (<<<<b>>, <<a, b>>>> :> Sym)
\* paths that share more than fits into a difference, and one with a newline
Deep == Root @@ (<<<<a, a, a, a, a, a, a, a>>>> :> Reg) @@ (<<<<a, a, a, a, a, a, a, a, b>>>> :> Exe)
          @@ (<<<<Newline>>>> :> Reg)
Shares == Root @@ (<<<<b>>>> :> Dir) @@ (<<<<b>>, <<a>>>> :> Reg)
\* nothing of it can be put in, or it is refused
Odd == Root @@ (<<<<Newline>>>> :> Reg)
Refused == Root @@ (<<<<Dot, Dot>>>> :> Reg)

Given(json, attr, listing) == [store_path |-> Path(json, attr), listing |-> listing]
MCInputs ==
  { [prefix |-> <<Slash>>,
     packages |-> <<Given(<<1000, 1>>, "tools", Tools), Given(<<1000, 2>>, "odd", Odd),
                    Given(<<1000, 5, 5>>, "shares", Shares)>>],
    [prefix |-> <<>>,
     packages |-> <<Given(<<1000, 1>>, "deep", Deep), Given(<<1000, 2>>, "refused", Refused)>>] }
MCEarlier ==
  {None, [prefix |-> <<>>, packages |-> <<Given(<<1000, 4>>, "old", Shares)>>]}
MCExcluded == {<<Slash, b, Slash, b>>}
MCBins == {<<Slash, b, Slash>>}
MCTexts == {<<a>>, <<b>>, <<a, b>>, <<b, Slash, a>>, <<b, Slash>>, <<a, a, a, a, a, a, a, a>>}
=============================================================================
