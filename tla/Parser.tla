------------------------------- MODULE Parser -------------------------------
(***************************************************************************)
(* parse_line and the tokenizer of src/src/parser.c, and what a command     *)
(* line should mean: Documented, which the module ShellCommand compares with *)
(* ParseLine.  The messages are left out: <<>> is NULL, whatever the reason. *)
(***************************************************************************)
EXTENDS Symbols, SequencesExt

CONSTANT MaxTokens   \* MAX_TOKENS: the size of argv

ASSUME MaxTokensAssumption == MaxTokens \in Nat \ {0}

Operators == { <<Less>>, <<Greater>>, <<Two, Greater>> }

NoFile == <<Nul>>  \* a redirection that is NULL; no token holds a terminator

NoCommand == [argv |-> <<>>, input |-> NoFile, output |-> NoFile, error |-> NoFile]

Redirected(cmd, op, file) ==
  CASE op = <<Less>>    -> [cmd EXCEPT !.input = file]
    [] op = <<Greater>> -> [cmd EXCEPT !.output = file]
    [] OTHER            -> [cmd EXCEPT !.error = file]

-----------------------------------------------------------------------------
(* trim_whitespace.                                                        *)
Trim(s) ==
  LET solid == { k \in 1 .. Len(s) : s[k] # Blank }
  IN  IF solid = {} THEN <<>>
      ELSE SubSeq(s, CHOOSE k \in solid : \A j \in solid : k <= j,
                     CHOOSE k \in solid : \A j \in solid : k >= j)

(* strsep: the segments between the bars, quoted ones included.            *)
Segments(s) ==
  LET bars == <<0>> \o Ascending({ k \in 1 .. Len(s) : s[k] = Bar }) \o <<Len(s) + 1>>
  IN  [k \in 1 .. Len(bars) - 1 |-> Trim(SubSeq(s, bars[k] + 1, bars[k + 1] - 1))]

(* A pass of the loop of next_token, with what it has kept in its buffer.  *)
ScanStep(s, r) ==
  LET c     == s[r.at]
      next  == IF r.at < Len(s) THEN s[r.at + 1] ELSE Nul
      quote == IF r.state = "single" THEN Single ELSE Double
      To(other)     == [r EXCEPT !.at = @ + 1, !.state = other]
      Keep(n, kept) == [r EXCEPT !.at = @ + n, !.buffer = @ \o kept]
  IN
  IF r.at > Len(s) \/ (r.state = "outside" /\ c = Blank) THEN r
  ELSE IF r.state = "outside"
  THEN CASE c = Single -> To("single")
         [] c = Double -> To("double")
         [] c = Back   -> IF next = Nul THEN Keep(1, <<>>) ELSE Keep(2, <<next>>)
         [] OTHER      -> Keep(1, <<c>>)
  ELSE IF c = quote THEN To("outside")
  ELSE IF r.state = "double" /\ c = Back
  THEN CASE next = "n"              -> Keep(2, <<Newline>>)
         [] next \in {Double, Back} -> Keep(2, <<next>>)
         [] OTHER                   -> Keep(1, <<Back>>)
  ELSE Keep(1, <<c>>)

(* The loop from position p; each pass leaves at least one symbol behind.  *)
Scan(s, p) ==
  LET run[k \in 0 .. Len(s)] ==
        IF k = 0 THEN [at |-> p, state |-> "outside", buffer |-> <<>>]
        ELSE ScanStep(s, run[k - 1])
  IN  run[Len(s)]

(* next_token: at an unmatched quote there is no token.                    *)
NextToken(s, p) ==
  LET solid == { k \in p .. Len(s) : s[k] # Blank }
      found == Scan(s, CHOOSE k \in solid : \A j \in solid : k <= j)
  IN  IF solid = {} \/ found.state # "outside" THEN [none |-> TRUE]
      ELSE [none |-> FALSE, text |-> found.buffer, next |-> found.at]

(* A pass of the loop over the tokens of one segment.                      *)
TokenStep(s, l) ==
  LET t    == NextToken(s, l.at)
      file == NextToken(s, t.next)
  IN
  IF l.over \/ t.none THEN [l EXCEPT !.over = TRUE]
  ELSE IF t.text \notin Operators
  THEN [l EXCEPT !.at = t.next, !.cmd.argv = Append(@, t.text)]
  ELSE IF file.none \/ file.text \in Operators
  THEN [l EXCEPT !.over = TRUE, !.error = TRUE]
  ELSE [l EXCEPT !.at = file.next, !.cmd = Redirected(@, t.text, file.text)]

(* The command of a segment, or an error.                                  *)
ParseTokens(s) ==
  LET run[k \in 0 .. Len(s)] ==
        IF k = 0 THEN [at |-> 1, cmd |-> NoCommand, over |-> FALSE, error |-> FALSE]
        ELSE TokenStep(s, run[k - 1])
  IN  run[Len(s)]

(* Faulty: a segment that was only deferred is forgotten.                  *)
AcceptedFaulty(commands, deferred) == commands

(* What is left to do after the last segment.                              *)
Accepted(commands, deferred) == IF deferred THEN <<>> ELSE commands

(* A pass of the loop over the segments.  One with redirections alone is   *)
(* deferred unless it is the last.                                         *)
SegmentStep(segments, k, l) ==
  LET parsed == ParseTokens(segments[k]) IN
  IF l.failed \/ segments[k] = <<>> \/ parsed.error THEN [l EXCEPT !.failed = TRUE]
  ELSE IF parsed.cmd.argv # <<>>
  THEN [l EXCEPT !.commands = Append(@, parsed.cmd)]
  ELSE IF k < Len(segments) /\ parsed.cmd # NoCommand
  THEN [l EXCEPT !.deferred = TRUE]
  ELSE [l EXCEPT !.failed = TRUE]

ParseSegments(segments) ==
  LET run[k \in 0 .. Len(segments)] ==
        IF k = 0 THEN [commands |-> <<>>, deferred |-> FALSE, failed |-> FALSE]
        ELSE SegmentStep(segments, k, run[k - 1])
      last == run[Len(segments)]
  IN  IF last.failed THEN <<>> ELSE Accepted(last.commands, last.deferred)

ParseLine(line) ==
  IF Trim(line) = <<>> THEN <<>> ELSE ParseSegments(Segments(line))

-----------------------------------------------------------------------------
(* What a line means, without a scan: which symbols are quoted, where the  *)
(* words begin and end, and which words are the files of redirections.     *)

(* The mode that symbol c leaves a line in that was in mode m.             *)
NextMode(m, c) ==
  CASE m = "escaped"                                            -> "outside"
    [] m = "double_escaped"                                     -> "double"
    [] m = "outside" /\ c = Back                                -> "escaped"
    [] m = "double" /\ c = Back                                 -> "double_escaped"
    [] m = "outside" /\ c = Single                              -> "single"
    [] m = "outside" /\ c = Double                              -> "double"
    [] <<m, c>> \in {<<"single", Single>>, <<"double", Double>>} -> "outside"
    [] OTHER                                                    -> m

(* The modes before each symbol and after the last.                        *)
ModesOf(s) ==
  LET mode[k \in 1 .. Len(s) + 1] ==
        IF k = 1 THEN "outside" ELSE NextMode(mode[k - 1], s[k - 1])
  IN  mode

QuotesMatch(s) == ModesOf(s)[Len(s) + 1] \in {"outside", "escaped"}

(* What symbol c adds to its word when the mode changes from m to n.       *)
Literal(c, m, n) ==
  IF m = "double_escaped"
  THEN CASE c = "n"                -> <<Newline>>
         [] c \in {Double, Back}   -> <<c>>
         [] OTHER                  -> <<Back, c>>
  ELSE IF m \in {"escaped", n} THEN <<c>> ELSE <<>>

(* Between words there are blanks that are not quoted.                     *)
Gap(s, k) == k \in {0, Len(s) + 1} \/ (s[k] = Blank /\ ModesOf(s)[k] = "outside")

Starts(s) == { k \in 1 .. Len(s) : ~Gap(s, k) /\ Gap(s, k - 1) }

(* Where the word ends that starts at k.                                   *)
EndOf(s, k) ==
  CHOOSE j \in k .. Len(s) : Gap(s, j + 1) /\ \A i \in k .. j : ~Gap(s, i)

(* What the symbols from i to j amount to.                                 *)
Word(s, i, j) ==
  FlattenSeq([k \in 1 .. j - i + 1 |->
    Literal(s[i + k - 1], ModesOf(s)[i + k - 1], ModesOf(s)[i + k])])

WordsOf(s) ==
  LET first == Ascending(Starts(s)) IN
  [w \in 1 .. Len(first) |-> Word(s, first[w], EndOf(s, first[w]))]

IsFile(w, k) == k > 1 /\ w[k - 1] \in Operators

WellFormed(w) ==
  /\ \A k \in 1 .. Len(w) : w[k] \in Operators => k < Len(w) /\ w[k + 1] \notin Operators
  /\ \E k \in 1 .. Len(w) : w[k] \notin Operators /\ ~IsFile(w, k)

(* The file of the last such redirection counts.                           *)
FileOf(w, op) ==
  LET at == { k \in 2 .. Len(w) : w[k - 1] = op }
  IN  IF at = {} THEN NoFile ELSE w[CHOOSE k \in at : \A j \in at : j <= k]

CommandOf(w) ==
  LET args == Ascending({ k \in 1 .. Len(w) : w[k] \notin Operators /\ ~IsFile(w, k) })
  IN  [argv |-> [k \in 1 .. Len(args) |-> w[args[k]]], input |-> FileOf(w, <<Less>>),
       output |-> FileOf(w, <<Greater>>), error |-> FileOf(w, <<Two, Greater>>)]

Documented(line) ==
  LET words == [k \in 1 .. Len(Segments(line)) |-> WordsOf(Segments(line)[k])]
  IN  IF \A k \in 1 .. Len(words) : WellFormed(words[k])
      THEN [k \in 1 .. Len(words) |-> CommandOf(words[k])]
      ELSE <<>>

(* Quotes that match, and no more arguments than argv can hold.            *)
InScope(line) ==
  \A k \in 1 .. Len(Segments(line)) :
    /\ QuotesMatch(Segments(line)[k])
    /\ Len(WordsOf(Segments(line)[k])) < MaxTokens

=============================================================================
