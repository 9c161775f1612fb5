------------------------------- MODULE Symbols -------------------------------
(***************************************************************************)
(* What a typed line is made of, for src/src/parser.c and for the commands  *)
(* that src/src/client.c and src/src/server.c exchange.                     *)
(*                                                                          *)
(* A line is a sequence of symbols.  A symbol is a character, "x" one       *)
(* without a meaning of its own; "demo", "exit" and "./" are single symbols *)
(* and occur only at the start of a line.  Tabs are blanks.                 *)
(***************************************************************************)
EXTENDS Integers, Sequences, FiniteSets

Blank   == " "
Bar     == "|"
Less    == "<"
Greater == ">"
Zero    == "0"
Two     == "2"
Single  == "'"
Double  == "\""
Back    == "\\"
Newline == "newline"
Nul     == "nul"

(* What can be typed: anything but the terminator of strings.              *)
Text == STRING \ {Nul}

(* The numbers of S in their order: the k-th is the one that k of them do  *)
(* not exceed.                                                             *)
Ascending(S) ==
  [k \in 1 .. Cardinality(S) |->
     CHOOSE n \in S : Cardinality({ m \in S : m <= n }) = k]

=============================================================================
