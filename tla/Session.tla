------------------------------ MODULE Session ------------------------------
(***************************************************************************)
(* One remote session, from the lines typed at src/src/client.c to what     *)
(* handle_client of src/src/server.c makes of them: the framing of commands *)
(* and responses, the choice between a demo, another program and a shell    *)
(* command, and the arguments of each.  How tasks are scheduled, whether    *)
(* they are ever done and what happens when a client goes away is in Server. *)
(***************************************************************************)
EXTENDS Symbols

CONSTANTS
  Inputs,       \* what the user may type: sequences of lines
  BufferSize,   \* BUFFER_SIZE of both programs, in symbols
  MaxInt        \* INT_MAX

ASSUME SessionAssumption ==
  /\ BufferSize \in Nat \ {0, 1} /\ MaxInt \in Nat \ {0, 1}
  /\ \A i \in Inputs : i \in Seq(Seq(Text))

VARIABLES
  client,   \* its place in the code, the last command it sent and
            \* after_full: one of its commands filled the buffer
  typed,    \* what the user has still to type
  wire,     \* the bytes on the way to the server
  replies,  \* the packets on the way to the client
  handler   \* the thread that handles the client: its place in the code, the
            \* command and the task made of it

vars == <<client, typed, wire, replies, handler>>

Init ==
  /\ typed \in Inputs
  /\ client = [at |-> "prompt", command |-> <<>>, after_full |-> FALSE]
  /\ wire = <<>> /\ replies = <<>>
  /\ handler = [at |-> "receive", command |-> <<>>, task |-> "none", progressed |-> FALSE]

-----------------------------------------------------------------------------
(* The client.                                                             *)

Full == BufferSize - 1

(* Faulty: strlen(command) bytes are sent.                                 *)
MessageFaulty(command) == command

(* The command and its terminator.                                         *)
Message(command) == Append(command, Nul)

(* fgets takes at most Full symbols, the newline at the end of the line    *)
(* among them, and leaves the rest.                                        *)
ClientSends ==
  /\ client.at = "prompt" /\ typed # <<>>
  /\ LET line  == Head(typed)
         whole == Len(line) < Full
         part  == IF whole THEN line ELSE SubSeq(line, 1, Full)
     IN
     /\ typed' = IF whole THEN Tail(typed)
                 ELSE <<SubSeq(line, Full + 1, Len(line))>> \o Tail(typed)
     /\ wire' = wire \o Message(part)
     /\ client' = [at |-> "await", command |-> part,
                   after_full |-> client.after_full \/ Len(client.command) = Full]
  /\ UNCHANGED <<replies, handler>>

ClientEnds ==
  /\ client.at = "prompt" /\ typed = <<>>
  /\ client' = [client EXCEPT !.at = "left"]
  /\ UNCHANGED <<typed, wire, replies, handler>>

(* receive_response: progress is printed, the next other packet is taken   *)
(* for the answer.                                                         *)
ClientReceives ==
  /\ client.at = "await" /\ replies # <<>>
  /\ client' = [client EXCEPT !.at = CASE Head(replies).status = "progress" -> "await"
                                       [] Head(replies).status = "continue" -> "prompt"
                                       [] Head(replies).status = "exit"     -> "left"]
  /\ replies' = Tail(replies)
  /\ UNCHANGED <<typed, wire, handler>>

(* "Failed to receive a complete server response".                         *)
ClientFails ==
  /\ client.at = "await" /\ replies = <<>> /\ handler.at \in {"closed", "hung_up"}
  /\ client' = [client EXCEPT !.at = "failed"]
  /\ UNCHANGED <<typed, wire, replies, handler>>

-----------------------------------------------------------------------------
(* What the server makes of a command.                                     *)

(* What a cast to int leaves of n.                                         *)
Wrap(n) == ((n + MaxInt + 1) % (2 * (MaxInt + 1))) - (MaxInt + 1)

(* A long is twice as wide as an int, and strtol stops at its greatest.    *)
LongMax == 2 * (MaxInt + 1) * (MaxInt + 1) - 1

Cast(n) == Wrap(IF n > LongMax THEN LongMax ELSE n)

(* The number at the start of a token, as strtol and atoi read it.         *)
Digits(s) ==
  Cardinality({ k \in 1 .. Len(s) : \A j \in 1 .. k : s[j] \in {Zero, Two} })

Number(s) ==
  LET value[k \in 0 .. Digits(s)] ==
        IF k = 0 THEN 0 ELSE 10 * value[k - 1] + (IF s[k] = Two THEN 2 ELSE 0)
  IN  value[Digits(s)]

(* is_demo_command looks for an end or a blank at characters 4, 5 and 6,   *)
(* so that up to two more may follow "demo".                               *)
IsDemo(c) ==
  LET EndsBy(from, reach) ==
        \E k \in from .. from + reach - 1 : k > Len(c) \/ (k <= Len(c) /\ c[k] = Blank)
  IN  \/ Len(c) > 0 /\ c[1] = "demo" /\ EndsBy(2, 3)
      \/ Len(c) > 1 /\ c[1] = "./" /\ c[2] = "demo" /\ EndsBy(3, 1)

(* is_program_command.                                                     *)
IsProgram(c) == Len(c) > 0 /\ c[1] = "./"

(* split_command_argv: blanks alone separate.                              *)
Split(c) ==
  LET gap(k) == k \in {0, Len(c) + 1} \/ c[k] = Blank
      first  == Ascending({ k \in 1 .. Len(c) : ~gap(k) /\ gap(k - 1) })
      last(k) == CHOOSE j \in k .. Len(c) : gap(j + 1) /\ \A i \in k .. j : ~gap(i)
  IN  [w \in 1 .. Len(first) |-> SubSeq(c, first[w], last(first[w]))]

(* "5" and DEMO_DEFAULT_BURST, here the number of one of two digits.       *)
DefaultText  == <<Two>>
DefaultBurst == Number(DefaultText)

ValidCount(s) == Len(s) > 0 /\ Digits(s) = Len(s) /\ Number(s) > 0

(* Faulty: an argument that is no count is kept.                          *)
CountedFaulty(words) ==
  IF Len(words) < 2 THEN Append(words, DefaultText) ELSE words

(* The default stands in for a count that is missing or is none.           *)
Counted(words) ==
  IF Len(words) < 2 THEN Append(words, DefaultText)
  ELSE IF ValidCount(words[2]) THEN words ELSE [words EXCEPT ![2] = DefaultText]

(* build_demo_argv.                                                        *)
DemoArgv(c) ==
  Counted([Split(c) EXCEPT ![1] = IF @ = <<"demo">> THEN <<"./", "demo">> ELSE @])

(* scheduler_submit_task replaces a burst that is not positive.            *)
Submitted(burst) == IF burst <= 0 THEN DefaultBurst ELSE burst

(* create_program_task; output is streamed if initial_burst is positive.   *)
DemoTask(c) ==
  LET words == Split(c)
      burst == IF Len(words) > 1 /\ ValidCount(words[2]) THEN Cast(Number(words[2]))
               ELSE DefaultBurst
  IN  [argv |-> DemoArgv(c), burst |-> Submitted(burst), streams |-> burst > 0]

(* The tests of handle_client, in their order.                             *)
Kind(c) ==
  IF IsDemo(c) THEN "demo" ELSE IF IsProgram(c) THEN "program" ELSE "shell"

(* Whether a task whose kind is demo is the demo: "demox" is another file. *)
RunsDemo(argv) == argv[1] = <<"./", "demo">>

(* How many lines src/src/demo.c prints, one a second: from 0 through atoi  *)
(* of its argument; none but its usage if it has not just one.             *)
DemoLines(argv) ==
  LET n == Cast(Number(argv[2]))
  IN  IF Len(argv) # 2 \/ n < 0 THEN 0 ELSE n + 1

-----------------------------------------------------------------------------
(* The server.                                                             *)

(* recv_command reads up to a terminator, but no more than Full symbols:   *)
(* how many it takes from the wire, 0 if it has to wait.                   *)
Takes ==
  LET ends == { k \in 1 .. Len(wire) : wire[k] = Nul /\ k <= Full }
  IN  IF ends # {} THEN CHOOSE k \in ends : \A j \in ends : k <= j
      ELSE IF Len(wire) >= Full THEN Full ELSE 0

(* The terminator is not part of the command.                              *)
Received == SubSeq(wire, 1, IF wire[Takes] = Nul THEN Takes - 1 ELSE Takes)

Reply(status) == Append(replies, [status |-> status, to |-> handler'.command])

(* Faulty: only errors end the session.                                    *)
DisconnectedFaulty(command) == FALSE

(* handle_client takes a result of 0 for a disconnection.                  *)
Disconnected(command) == command = <<>>

Handle(command) ==
  IF command = <<"exit">>
  THEN /\ handler' = [handler EXCEPT !.at = "closed", !.command = command]
       /\ replies' = Reply("exit")
  ELSE /\ handler' = [at |-> "submitted", command |-> command, task |-> "runs",
                      progressed |-> FALSE]
       /\ UNCHANGED replies

Receive ==
  /\ handler.at = "receive" /\ Takes > 0
  /\ wire' = SubSeq(wire, Takes + 1, Len(wire))
  /\ \E command \in {Received} :
       IF Disconnected(command)
       THEN handler' = [handler EXCEPT !.at = "closed"] /\ UNCHANGED replies
       ELSE Handle(command)
  /\ UNCHANGED <<client, typed>>

ReceiveEnd ==
  /\ handler.at = "receive" /\ Takes = 0 /\ client.at \in {"left", "failed"}
  /\ handler' = [handler EXCEPT !.at = "closed"]
  /\ UNCHANGED <<client, typed, wire, replies>>

(* The result of scheduler_submit_task is read after the mutex has been     *)
(* unlocked.  If the task has ended by then it is what a freed record holds, *)
(* and if that is negative the handler hangs up.                           *)
SubmitReturns ==
  /\ handler.at = "submitted"
  /\ \/ handler' = [handler EXCEPT !.at = "wait"]
     \/ /\ handler.task \in {"done", "lost"}
        /\ handler' = [handler EXCEPT !.at = "hung_up"]
  /\ UNCHANGED <<client, typed, wire, replies>>

(* The task's context is done, or a program is finalized without that (see *)
(* FinishedIsDone in Server).  Neither need ever happen.                   *)
TaskEnds ==
  /\ handler.task = "runs"
  /\ \E end \in {"done", "lost"} :
       /\ end = "lost" => Kind(handler.command) # "shell"
       /\ handler' = [handler EXCEPT !.task = end]
  /\ UNCHANGED <<client, typed, wire, replies>>

Streams(c) == Kind(c) = "program" \/ (Kind(c) = "demo" /\ DemoTask(c).streams)

(* The executor streams the output of a program.  Once is enough here.     *)
Progress ==
  /\ handler.task = "runs" /\ Streams(handler.command) /\ ~handler.progressed
  /\ handler' = [handler EXCEPT !.progressed = TRUE]
  /\ replies' = Reply("progress")
  /\ UNCHANGED <<client, typed, wire>>

(* The wait is over and the response is sent.                              *)
Respond ==
  /\ handler.at = "wait" /\ handler.task = "done"
  /\ handler' = [handler EXCEPT !.at = "receive", !.task = "none", !.progressed = FALSE]
  /\ replies' = Reply("continue")
  /\ UNCHANGED <<client, typed, wire>>

-----------------------------------------------------------------------------
ClientStep  == ClientReceives \/ ClientFails

HandlerStep == Receive \/ ReceiveEnd \/ SubmitReturns \/ Respond

Executor == Progress \/ TaskEnds

Next == ClientSends \/ ClientEnds \/ ClientStep \/ HandlerStep \/ Executor

Spec == Init /\ [][Next]_vars

(* The two threads run.  The user need not type, and no task need end.     *)
FairSpec == Spec /\ WF_vars(ClientStep) /\ WF_vars(HandlerStep)

-----------------------------------------------------------------------------
(* What the client takes for the answer to a command, and every piece of   *)
(* progress it prints, is about the command it has sent last: the framing  *)
(* of commands and the early end of long ones never put the two sides out  *)
(* of step.                                                                *)
AnswersInStep ==
  [][ClientReceives => Head(replies).to = client.command]_vars

(* A command is answered at last, and the session goes on unless it was    *)
(* "exit"; but for an empty line, and for whatever is sent after a command *)
(* that filled the buffer, which end the session; for a task that is never *)
(* done, on which its handler waits; and for a handler that hangs up on a  *)
(* result it has read from a freed record.                                 *)
LineAnswered ==
  (client.at = "await" /\ client.command # <<>> /\ ~client.after_full)
     ~> \/ client.at = "prompt"
        \/ client.at = "left" /\ client.command = <<"exit">>
        \/ [](handler.at = "wait" /\ handler.task # "done")
        \/ handler.at = "hung_up"

(* The burst that the scheduler compares is how far the demo counts,       *)
(* whatever the user gave it for a number: server and demo read the same   *)
(* int from it, also beyond what an int or a long can hold; and since it    *)
(* counts from 0, it prints one line more than that.  Excepted are         *)
(* a demo with more arguments, which refuses them all, and a number whose  *)
(* int is not positive: it counts no further than 0, but gets the default. *)
BurstIsCount ==
  handler.at = "wait" /\ Kind(handler.command) = "demo" =>
    LET task == DemoTask(handler.command) IN
    RunsDemo(task.argv) =>
      \/ DemoLines(task.argv) = task.burst + 1
      \/ Len(task.argv) > 2 /\ DemoLines(task.argv) = 0
      \/ /\ Number(task.argv[2]) > MaxInt
         /\ DemoLines(task.argv) <= 1 /\ task.burst = DefaultBurst

=============================================================================
