------------------------------ MODULE MCShell ------------------------------
(* Scripts for TLC: each kind of input with lines of each kind.            *)
EXTENDS Shell

Print1  == Command("none", "none", TRUE, FALSE, 1)
Print2  == Command("none", "none", TRUE, FALSE, 2)
Filter  == Command("none", "none", TRUE, TRUE, 1)
FromFile == Command("file", "none", TRUE, TRUE, 1)
ToFile  == Command("none", "file", TRUE, FALSE, 2)
NotFound == Command("none", "none", FALSE, FALSE, 0)
NoFile  == Command("error", "none", TRUE, TRUE, 1)

OneLine ==
  { Line(<<>>), ExitLine, Line(<<Filter>>), Line(<<NotFound>>), Line(<<Print2>>),
    Line(<<Print2, Filter>>), Line(<<Print2, Filter, Filter>>),
    Line(<<Print2, FromFile>>), Line(<<ToFile, Filter>>), Line(<<NoFile, Filter>>),
    Line(<<Print2, NotFound>>), Line(<<Filter, Print1>>) }

MCScripts ==
  { Script("line", <<l>>) : l \in OneLine }
  \cup { Script(kind, <<Line(<<Print2, Filter>>), l, m>>) :
           kind \in {"file", "tty"}, l \in OneLine,
           m \in { Line(<<Print1>>), Line(<<NotFound, Filter>>) } }
  \cup { Script("pipe", <<Line(<<NoFile>>), l, ExitLine>>) : l \in OneLine }

=============================================================================
