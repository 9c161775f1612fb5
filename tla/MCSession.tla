----------------------------- MODULE MCSession -----------------------------
(* What the user types: any one short line, or up to three of a few lines. *)
EXTENDS ShellCommand

CONSTANTS MaxLine,   \* bound: the length of a line of any symbols
          MaxPlain   \* bound: the length of a line of words, bars and files

AnySymbol == {Blank, Bar, Less, Greater, Two, Single, Double, Back, "x", "n"}

Xs(n) == [k \in 1 .. n |-> "x"]

Programs == { <<"demo">>, <<"./", "demo">>, <<"./">>, <<"exit">> }

Few == { <<>>, <<"x">>, <<"exit">>, <<"./", "x">>, <<"demo">>, Xs(Full - 1), Xs(Full),
         Xs(Full + 1) }

MCInputs ==
  { <<l>> : l \in SeqOf(AnySymbol, MaxLine) \cup SeqOf({"x", Blank, Bar, Less, Greater}, MaxPlain) }
  \cup { <<s \o l>> : s \in Programs, l \in SeqOf({"x", Blank, Zero, Two}, MaxLine) }
  \cup SeqOf(Few, 3)

=============================================================================
