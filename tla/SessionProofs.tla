---------------------------- MODULE SessionProofs ----------------------------
(***************************************************************************)
(* What is proved of Session for every size of the buffer, every width of   *)
(* an int and whatever is typed: answers stay in step with commands, a      *)
(* session ends only for the known reasons, and the burst of a demo is what *)
(* it counts to.                                                            *)
(***************************************************************************)
EXTENDS Session, SequenceTheorems, FiniteSetTheorems, FunctionTheorems,
        WellFoundedInduction, TLAPS

Byte == Text \cup {Nul}

Command == client.command

SessionTyped ==
  /\ client \in [at: {"prompt", "await", "left", "failed"}, command: Seq(Text),
                 after_full: BOOLEAN]
  /\ Len(Command) <= Full
  /\ typed \in Seq(Seq(Text))
  /\ wire \in Seq(Byte)
  /\ replies \in Seq([status: {"progress", "continue", "exit"}, to: Seq(Text)])
  /\ handler \in [at: {"receive", "submitted", "wait", "closed", "hung_up"},
                  command: Seq(Text), task: {"none", "runs", "done", "lost"},
                  progressed: BOOLEAN]

(* The handler has a command and has not answered it.                      *)
Busy == {"submitted", "wait"}

(* A handler has a task just while it is busy, or has hung up since.       *)
Engaged ==
  /\ handler.at \in {"receive", "closed"} => handler.task = "none"
  /\ handler.at = "hung_up" => handler.task \in {"done", "lost"}

(* What a command leaves in the socket once it has been received: its      *)
(* terminator, if it filled the buffer.                                    *)
Rest(c) == IF Len(c) = Full THEN <<Nul>> ELSE <<>>

(* The client is not waiting for an answer: there is none on the way, and  *)
(* the wire holds at most the terminator that the last command left.       *)
Quiet ==
  client.at # "await" =>
    /\ replies = <<>> /\ handler.at \notin Busy
    /\ handler.at = "receive" => wire = Rest(Command)

(* The command is still on the wire, behind such a terminator or not.      *)
OnTheWire ==
  client.at = "await" /\ handler.at = "receive" /\ replies = <<>> =>
    \/ wire = Message(Command)
    \/ wire = <<Nul>> \o Message(Command) /\ client.after_full

(* The command has been received, whole.                                   *)
InHand ==
  client.at = "await" /\ (handler.at \in Busy \/ (handler.at = "receive" /\ replies # <<>>)) =>
    /\ wire = Rest(Command) /\ Command # <<>> /\ Command # <<"exit">>
    /\ handler.at \in Busy => handler.command = Command

(* Replies are about the command that was sent last: any progress, and then *)
(* one that ends the wait, after which the handler waits for a command,     *)
(* unless it hangs up first.                                               *)
Replies ==
  \A i \in 1 .. Len(replies) :
    /\ replies[i].to = Command
    /\ replies[i].status = "progress" <=>
         handler.at \in Busy \cup {"hung_up"} \/ i # Len(replies)
    /\ replies[i].status = "exit" <=> Command = <<"exit">>
    /\ replies[i].status = "exit" => handler.at = "closed"

(* The handler closes the session of a client that has not left only at    *)
(* the command exit, at an empty one or at one that filled the buffer.     *)
Closing ==
  /\ client.at = "prompt" /\ handler.at = "closed" => Len(Command) = Full
  /\ client.at = "await" /\ handler.at = "closed" =>
       IF replies = <<>> THEN Command = <<>> \/ client.after_full
       ELSE Command = <<"exit">> \/ Len(Command) = Full
  /\ client.at = "failed" => Command = <<>> \/ client.after_full \/ handler.at = "hung_up"

SInv == SessionTyped /\ Engaged /\ Quiet /\ OnTheWire /\ InHand /\ Replies /\ Closing

(* A client gives up waiting only if its last command was empty, an        *)
(* earlier one filled the buffer, or the handler hung up on the result of   *)
(* scheduler_submit_task, and that only once the task was over.            *)
FailsForAReason ==
  client.at = "failed" =>
    \/ client.command = <<>> \/ client.after_full
    \/ handler.at = "hung_up" /\ handler.task \in {"done", "lost"}

(* The two sides never wait for each other: whenever recv_command waits    *)
(* while a client waits, there is something to receive or to be answered.  *)
NeverBothWait ==
  client.at = "await" /\ handler.at = "receive" /\ replies = <<>> => Takes > 0

-----------------------------------------------------------------------------
(* What recv_command takes from the wire.                                  *)

LEMMA Sizes ==
  /\ Full \in Nat \ {0} /\ Nul \notin Text /\ Text \subseteq Byte /\ Nul \in Byte
BY SessionAssumption DEF Full, Text, Byte

(* A set of numbers has a least one.                                       *)
LEMMA LeastNat ==
  ASSUME NEW S, S \subseteq Nat, S # {}
  PROVE  \E n \in S : \A j \in S : n <= j
<1>1. PICK n \in S : \A j \in S : <<j, n>> \notin OpToRel(<, Nat)
  BY NatLessThanWellFounded, WFMin
<1>2. \A j \in S : ~(j < n)
  BY <1>1 DEF OpToRel
<1> QED BY <1>2

(* Induction up to n, for sets of numbers, and loops of n passes.          *)

LEMMA UpTo ==
  ASSUME NEW n \in Nat, NEW T, 0 \in T, \A k \in 0 .. n - 1 : k \in T => k + 1 \in T
  PROVE  \A k \in 0 .. n : k \in T
<1> SUFFICES ASSUME (0 .. n) \ T # {} PROVE FALSE
  OBVIOUS
<1>1. PICK k \in (0 .. n) \ T : \A j \in (0 .. n) \ T : k <= j
  <2>1. (0 .. n) \ T \subseteq Nat
    OBVIOUS
  <2> QED BY <2>1, LeastNat
<1>2. k # 0
  BY <1>1
<1>3. k - 1 \in 0 .. n - 1 /\ k - 1 \in T
  BY <1>1, <1>2
<1> QED BY <1>1, <1>3

KeepsTo(n, S, F) == \A k \in 1 .. n, r \in S : F[k][r] \in S

HasRun(n, S, x, F) ==
  \E g \in [0 .. n -> S] : g[0] = x /\ \A k \in 1 .. n : g[k] = F[k][g[k - 1]]

LEMMA Passes ==
  ASSUME NEW n \in Nat, NEW S, NEW x \in S, NEW F, KeepsTo(n, S, F)
  PROVE  HasRun(n, S, x, F)
<1> DEFINE Run(m, g) == g[0] = x /\ \A k \in 1 .. m : g[k] = F[k][g[k - 1]]
           T == { m \in 0 .. n : \E g \in [0 .. m -> S] : Run(m, g) }
<1>1. 0 \in T
  <2> DEFINE g == [k \in 0 .. 0 |-> x]
  <2>1. g \in [0 .. 0 -> S] /\ Run(0, g)
    OBVIOUS
  <2> HIDE DEF g, Run
  <2>2. \E f \in [0 .. 0 -> S] : Run(0, f)
    BY <2>1
  <2>3. 0 \in 0 .. n
    OBVIOUS
  <2> QED BY <2>2, <2>3
<1>2. ASSUME NEW m \in 0 .. n - 1, m \in T
      PROVE  m + 1 \in T
  <2>1. PICK g \in [0 .. m -> S] : Run(m, g)
    BY <1>2
  <2> DEFINE h == [k \in 0 .. m + 1 |-> IF k = m + 1 THEN F[m + 1][g[m]] ELSE g[k]]
  <2>2. F[m + 1][g[m]] \in S
    BY DEF KeepsTo
  <2>3. h \in [0 .. m + 1 -> S]
    BY <2>2
  <2>4. h[0] = x /\ \A k \in 1 .. m + 1 : h[k] = F[k][h[k - 1]]
    <3>1. h[0] = x
      BY <2>1
    <3>2. ASSUME NEW k \in 1 .. m + 1
          PROVE  h[k] = F[k][h[k - 1]]
      <4>1. h[k - 1] = g[k - 1]
        OBVIOUS
      <4>2. CASE k = m + 1
        BY <4>1, <4>2
      <4>3. CASE k # m + 1
        BY <2>1, <4>1, <4>3
      <4> QED BY <4>2, <4>3
    <3> QED BY <3>1, <3>2
  <2> HIDE DEF h
  <2>5. Run(m + 1, h)
    BY <2>4
  <2> QED BY <2>3, <2>5
<1> HIDE DEF T
<1>3. \A m \in 0 .. n : m \in T
  BY <1>1, <1>2, UpTo
<1>4. n \in T
  BY <1>3
<1> QED BY <1>4 DEF T, HasRun

LEMMA OneElement ==
  ASSUME NEW S, NEW s \in Seq(S), Len(s) = 1
  PROVE  s = <<s[1]>>
BY SeqEqual

LEMMA TakesFirst ==
  ASSUME NEW k \in 1 .. Len(wire), wire \in Seq(Byte), k <= Full, wire[k] = Nul,
         \A j \in 1 .. k - 1 : wire[j] # Nul
  PROVE  Takes = k
<1> DEFINE ends == { j \in 1 .. Len(wire) : wire[j] = Nul /\ j <= Full }
<1>1. k \in ends /\ \A j \in ends : k <= j
  OBVIOUS
<1>2. \A n \in ends : (\A j \in ends : n <= j) => n = k
  BY <1>1
<1> HIDE DEF ends
<1>3. (CHOOSE n \in ends : \A j \in ends : n <= j) = k
  BY <1>1, <1>2
<1> QED BY <1>1, <1>3 DEF Takes, ends

LEMMA TakesFull ==
  ASSUME wire \in Seq(Byte), Len(wire) >= Full, \A j \in 1 .. Full : wire[j] # Nul
  PROVE  Takes = Full
<1>1. { k \in 1 .. Len(wire) : wire[k] = Nul /\ k <= Full } = {}
  BY Sizes
<1> QED BY <1>1, Sizes DEF Takes

LEMMA MessageFacts ==
  ASSUME NEW c \in Seq(Text)
  PROVE  /\ Message(c) \in Seq(Byte) /\ c \in Seq(Byte) /\ Len(Message(c)) = Len(c) + 1
         /\ \A i \in 1 .. Len(c) : Message(c)[i] = c[i] /\ c[i] # Nul
         /\ Message(c)[Len(c) + 1] = Nul
         /\ SubSeq(Message(c), 1, Len(c)) = c
         /\ Len(c) \in Nat
<1>1. c \in Seq(Byte) /\ Len(c) \in Nat /\ \A i \in 1 .. Len(c) : c[i] \in Text /\ c[i] # Nul
  <2>1. c \in Seq(Byte)
    BY Sizes, SeqMonotonic
  <2>2. \A i \in 1 .. Len(c) : c[i] \in Text
    OBVIOUS
  <2> QED BY <2>1, <2>2, Sizes
<1>2. /\ Message(c) \in Seq(Byte) /\ Len(Message(c)) = Len(c) + 1
      /\ \A i \in 1 .. Len(c) : Message(c)[i] = c[i]
      /\ Message(c)[Len(c) + 1] = Nul
  BY <1>1, Sizes, AppendProperties DEF Message
<1>3. SubSeq(Message(c), 1, Len(c)) = c
  <2> DEFINE s == SubSeq(Message(c), 1, Len(c))
  <2>1. \A i \in 1 .. Len(c) : Message(c)[i] \in Byte
    BY <1>1, <1>2
  <2>2. /\ s \in Seq(Byte) /\ Len(s) = Len(c)
        /\ \A i \in 1 .. Len(c) : s[i] = Message(c)[i]
    BY <1>1, <2>1, SubSeqProperties
  <2> HIDE DEF s
  <2>3. s = c
    BY <1>1, <1>2, <2>2, SeqEqual
  <2> QED BY <2>3 DEF s
<1> QED BY <1>1, <1>2, <1>3

(* A command that is first on the wire is received whole, and leaves its   *)
(* terminator if it fills the buffer.                                      *)
LEMMA ReceivesCommand ==
  ASSUME NEW c \in Seq(Text), Len(c) <= Full, wire = Message(c)
  PROVE  /\ Received = c /\ Takes > 0
         /\ SubSeq(wire, Takes + 1, Len(wire)) = Rest(c)
<1>1. CASE Len(c) = Full
  <2>1. Takes = Full
    BY <1>1, Sizes, MessageFacts, TakesFull
  <2>2. wire[Full] # Nul
    BY <1>1, Sizes, MessageFacts
  <2>3. SubSeq(wire, Full + 1, Full + 1) = <<Nul>>
    <3>1. /\ Full + 1 \in 1 .. Len(wire) /\ wire[Full + 1] = Nul /\ wire \in Seq(Byte)
      BY <1>1, Sizes, MessageFacts
    <3>2. /\ SubSeq(wire, Full + 1, Full + 1) \in Seq(Byte)
          /\ Len(SubSeq(wire, Full + 1, Full + 1)) = 1
          /\ SubSeq(wire, Full + 1, Full + 1)[1] = Nul
      BY <3>1, Sizes
    <3> QED BY <3>2, OneElement
  <2> QED BY <1>1, <2>1, <2>2, <2>3, MessageFacts, Sizes DEF Received, Rest
<1>2. CASE Len(c) < Full
  <2>1. Takes = Len(c) + 1
    BY <1>2, Sizes, MessageFacts, TakesFirst
  <2>2. SubSeq(wire, Len(c) + 2, Len(c) + 1) = <<>>
    BY MessageFacts, SubSeqEmpty
  <2> QED BY <1>2, <2>1, <2>2, MessageFacts, Sizes DEF Received, Rest
<1> QED BY <1>1, <1>2, Sizes, MessageFacts

(* A terminator that was left is received as an empty command.             *)
LEMMA ReceivesNothing ==
  ASSUME NEW w \in Seq(Byte), wire = <<Nul>> \o w
  PROVE  Received = <<>> /\ Takes > 0
<1>1. wire \in Seq(Byte) /\ Len(wire) >= 1 /\ Len(wire) \in Nat /\ wire[1] = Nul
  BY Sizes
<1>2. Takes = 1
  BY <1>1, Sizes, TakesFirst
<1> QED BY <1>1, <1>2, SubSeqEmpty DEF Received

LEMMA NothingToReceive ==
  ASSUME wire = <<>>
  PROVE  Takes = 0
BY Sizes DEF Takes

LEMMA ReceiveRest ==
  ASSUME NEW c \in Seq(Text), wire = Rest(c), Takes > 0
  PROVE  Received = <<>> /\ Len(c) = Full
<1>1. Len(c) = Full /\ wire = <<Nul>>
  BY NothingToReceive DEF Rest
<1>2. wire = <<Nul>> \o <<>>
  BY <1>1
<1>3. <<>> \in Seq(Byte)
  OBVIOUS
<1> QED BY <1>1, <1>2, <1>3, ReceivesNothing

-----------------------------------------------------------------------------
(* SInv holds at first, and every action keeps it.                         *)

LEMMA InitSInv == Init => SInv
<1> SUFFICES ASSUME Init PROVE SInv
  OBVIOUS
<1>1. SessionTyped
  BY EmptySeq, Sizes, SessionAssumption DEF Init, SessionTyped, Command
<1>2. Rest(Command) = <<>>
  BY EmptySeq, Sizes DEF Init, Rest, Command
<1> QED BY <1>1, <1>2 DEF Init, SInv, Busy, Engaged, Quiet, OnTheWire, InHand, Replies, Closing

(* What fgets takes of a line, and what it leaves.                         *)
LEMMA PartOfLine ==
  ASSUME NEW line \in Seq(Text), Len(line) >= Full
  PROVE  /\ SubSeq(line, 1, Full) \in Seq(Text)
         /\ Len(SubSeq(line, 1, Full)) = Full
         /\ SubSeq(line, Full + 1, Len(line)) \in Seq(Text)
<1>1. Len(line) \in Nat /\ \A i \in 1 .. Len(line) : line[i] \in Text
  OBVIOUS
<1> QED BY <1>1, Sizes, SubSeqProperties

LEMMA ClientSendsSInv == SInv /\ ClientSends => SInv'
<1> SUFFICES ASSUME SInv, ClientSends PROVE SInv'
  OBVIOUS
<1> DEFINE line  == Head(typed)
           whole == Len(line) < Full
           part  == IF whole THEN line ELSE SubSeq(line, 1, Full)
<1> HIDE DEF line
<1> USE SInv DEF SInv
<1>1. line \in Seq(Text) /\ Len(line) \in Nat /\ Tail(typed) \in Seq(Seq(Text))
  BY DEF SessionTyped, ClientSends, line
<1>2. part \in Seq(Text) /\ Len(part) <= Full
  BY <1>1, PartOfLine, Sizes
<1>3. /\ client.at = "prompt" /\ handler' = handler /\ replies' = replies
      /\ wire' = wire \o Message(part)
      /\ client' = [at |-> "await", command |-> part,
                    after_full |-> client.after_full \/ Len(Command) = Full]
  BY DEF ClientSends, line, Command
<1>4. typed' \in Seq(Seq(Text))
  <2>1. CASE whole
    BY <1>1, <2>1 DEF ClientSends, line
  <2>2. CASE ~whole
    <3>1. typed' = <<SubSeq(line, Full + 1, Len(line))>> \o Tail(typed)
      BY <2>2 DEF ClientSends, line
    <3>2. SubSeq(line, Full + 1, Len(line)) \in Seq(Text)
      BY <1>1, <2>2, PartOfLine, Sizes
    <3>3. <<SubSeq(line, Full + 1, Len(line))>> \in Seq(Seq(Text))
      BY <3>2
    <3> QED BY <1>1, <3>1, <3>3, ConcatProperties
  <2> QED BY <2>1, <2>2
<1> HIDE DEF part
<1>5. Command' = part /\ client'.at = "await"
  BY <1>3 DEF Command
<1>6. replies = <<>> /\ handler.at \notin Busy
      /\ (handler.at = "receive" => wire = Rest(Command))
  BY <1>3 DEF Busy, Quiet
<1>7. SessionTyped'
  <2>1. wire' \in Seq(Byte)
    BY <1>2, <1>3, MessageFacts, ConcatProperties DEF SessionTyped
  <2>2. client' \in [at: {"prompt", "await", "left", "failed"}, command: Seq(Text),
                     after_full: BOOLEAN]
    BY <1>2, <1>3 DEF SessionTyped
  <2> QED BY <1>2, <1>3, <1>4, <1>5, <2>1, <2>2 DEF SessionTyped
<1>8. OnTheWire'
  <2>1. SUFFICES ASSUME handler.at = "receive"
                 PROVE  \/ wire' = Message(part)
                        \/ wire' = <<Nul>> \o Message(part) /\ client'.after_full
    BY <1>3, <1>5 DEF OnTheWire
  <2>2. CASE Len(Command) = Full
    BY <1>3, <1>6, <2>1, <2>2 DEF Rest
  <2>3. CASE Len(Command) # Full
    <3>1. wire' = <<>> \o Message(part) /\ Message(part) \in Seq(Byte)
      BY <1>2, <1>3, <1>6, <2>1, <2>3, MessageFacts DEF Rest
    <3> QED BY <3>1, ConcatEmptySeq
  <2> QED BY <2>2, <2>3
<1>9. Closing'
  <2>1. handler.at = "closed" => client'.after_full
    BY <1>3 DEF Closing
  <2> QED BY <1>3, <1>5, <1>6, <2>1 DEF Closing
<1>10. Engaged' /\ Quiet' /\ InHand' /\ Replies'
  BY <1>3, <1>5, <1>6 DEF Busy, Engaged, Quiet, InHand, Replies
<1> QED BY <1>7, <1>8, <1>9, <1>10

LEMMA ClientEndsSInv == SInv /\ ClientEnds => SInv'
<1> SUFFICES ASSUME SInv, ClientEnds PROVE SInv'
  OBVIOUS
<1> USE SInv DEF SInv
<1>1. /\ client.at = "prompt" /\ client'.at = "left" /\ Command' = Command
      /\ client' \in [at: {"prompt", "await", "left", "failed"}, command: Seq(Text),
                      after_full: BOOLEAN]
      /\ typed' = typed /\ wire' = wire /\ replies' = replies /\ handler' = handler
  BY DEF ClientEnds, SessionTyped, Command
<1>2. SessionTyped'
  BY <1>1 DEF SessionTyped
<1>3. Engaged' /\ Quiet' /\ OnTheWire' /\ InHand' /\ Closing'
  BY <1>1 DEF Busy, Engaged, Quiet, OnTheWire, InHand, Closing, Rest
<1>4. Replies'
  BY <1>1 DEF Busy, Replies, Quiet
<1> QED BY <1>2, <1>3, <1>4

LEMMA EmptyTail ==
  ASSUME NEW S, NEW s \in Seq(S), s # <<>>
  PROVE  Tail(s) = <<>> <=> Len(s) = 1
<1>1. Len(s) \in Nat \ {0} /\ Tail(s) \in Seq(S) /\ Len(Tail(s)) = Len(s) - 1
  OBVIOUS
<1>2. Tail(s) = <<>> <=> Len(Tail(s)) = 0
  BY <1>1, EmptySeq
<1> QED BY <1>1, <1>2

LEMMA FirstReply ==
  ASSUME SInv, replies # <<>>
  PROVE  /\ Len(replies) \in Nat \ {0} /\ Head(replies) = replies[1]
         /\ Tail(replies) \in Seq([status: {"progress", "continue", "exit"}, to: Seq(Text)])
         /\ Len(Tail(replies)) = Len(replies) - 1
         /\ \A i \in 1 .. Len(replies) - 1 : Tail(replies)[i] = replies[i + 1]
         /\ Head(replies).status \in {"progress", "continue", "exit"}
         /\ Tail(replies) = <<>> <=> Len(replies) = 1
<1> DEFINE packets == [status: {"progress", "continue", "exit"}, to: Seq(Text)]
<1>1. replies \in Seq(packets)
  BY DEF SInv, SessionTyped
<1>2. \A r \in packets : r.status \in {"progress", "continue", "exit"}
  OBVIOUS
<1> HIDE DEF packets
<1>3. /\ Len(replies) \in Nat \ {0} /\ Head(replies) = replies[1]
      /\ Tail(replies) \in Seq(packets) /\ replies[1] \in packets
      /\ Len(Tail(replies)) = Len(replies) - 1
      /\ \A i \in 1 .. Len(replies) - 1 : Tail(replies)[i] = replies[i + 1]
  BY <1>1
<1>4. Tail(replies) = <<>> <=> Len(replies) = 1
  BY <1>1, EmptyTail
<1> QED BY <1>2, <1>3, <1>4 DEF packets

LEMMA ClientReceivesSInv == SInv /\ ClientReceives => SInv'
<1> SUFFICES ASSUME SInv, ClientReceives PROVE SInv'
  OBVIOUS
<1> USE SInv DEF SInv
<1>1. /\ client.at = "await" /\ replies # <<>> /\ replies' = Tail(replies)
      /\ typed' = typed /\ wire' = wire /\ handler' = handler
      /\ Command' = Command /\ client'.after_full = client.after_full
      /\ Head(replies).status = "progress" => client'.at = "await"
      /\ Head(replies).status = "continue" => client'.at = "prompt"
      /\ Head(replies).status = "exit" => client'.at = "left"
      /\ client' \in [at: {"prompt", "await", "left", "failed"}, command: Seq(Text),
                      after_full: BOOLEAN]
  BY FirstReply DEF ClientReceives, SessionTyped, Command
<1>2. /\ Head(replies).status = "progress" <=> handler.at \in Busy \cup {"hung_up"} \/ 1 # Len(replies)
      /\ Head(replies).status = "exit" <=> Command = <<"exit">>
  BY <1>1, FirstReply DEF Busy, Replies
<1>3. SessionTyped'
  BY <1>1, FirstReply DEF SessionTyped
<1>4. Quiet'
  <2>1. SUFFICES ASSUME client'.at # "await" PROVE Quiet'
    BY DEF Busy, Quiet
  <2>2. handler.at \notin Busy \cup {"hung_up"} /\ Len(replies) = 1
    BY <1>1, <1>2, <2>1
  <2>3. handler.at = "receive" => wire = Rest(Command)
    BY <1>1 DEF Busy, InHand
  <2> QED BY <1>1, <2>2, <2>3, FirstReply DEF Quiet, Rest
<1>5. OnTheWire' /\ Engaged'
  BY <1>1, <1>2, FirstReply DEF Busy, OnTheWire, Engaged
<1>6. InHand'
  BY <1>1 DEF Busy, InHand, Rest
<1>7. Replies'
  <2> SUFFICES ASSUME NEW i \in 1 .. Len(replies')
               PROVE  /\ replies'[i].to = Command'
                      /\ replies'[i].status = "progress" <=>
                           handler'.at \in Busy \cup {"hung_up"} \/ i # Len(replies')
                      /\ replies'[i].status = "exit" <=> Command' = <<"exit">>
                      /\ replies'[i].status = "exit" => handler'.at = "closed"
    BY DEF Busy, Replies
  <2>1. i \in 1 .. Len(replies) - 1 /\ Len(replies') = Len(replies) - 1
    BY <1>1, FirstReply
  <2>2. i + 1 \in 1 .. Len(replies) /\ replies'[i] = replies[i + 1]
        /\ (i # Len(replies') <=> i + 1 # Len(replies))
    BY <1>1, <2>1, FirstReply
  <2> QED BY <1>1, <2>2 DEF Busy, Replies
<1>8. Closing'
  <2>1. handler.at = "closed" => Command = <<"exit">> \/ Len(Command) = Full
    BY <1>1 DEF Closing
  <2>2. client'.at = "await" => Tail(replies) # <<>> \/ handler.at \in Busy \cup {"hung_up"}
    BY <1>1, <1>2, FirstReply
  <2>3. client'.at # "failed"
    BY <1>1, FirstReply
  <2>4. client'.at = "prompt" => Command # <<"exit">>
    BY <1>1, <1>2, FirstReply
  <2> QED BY <1>1, <2>1, <2>2, <2>3, <2>4 DEF Busy, Closing
<1> QED BY <1>3, <1>4, <1>5, <1>6, <1>7, <1>8

LEMMA ClientFailsSInv == SInv /\ ClientFails => SInv'
<1> SUFFICES ASSUME SInv, ClientFails PROVE SInv'
  OBVIOUS
<1> USE SInv DEF SInv
<1>1. /\ client.at = "await" /\ client'.at = "failed" /\ Command' = Command
      /\ client'.after_full = client.after_full
      /\ client' \in [at: {"prompt", "await", "left", "failed"}, command: Seq(Text),
                      after_full: BOOLEAN]
      /\ typed' = typed /\ wire' = wire /\ replies' = replies /\ handler' = handler
      /\ replies = <<>> /\ handler.at \in {"closed", "hung_up"}
  BY DEF ClientFails, SessionTyped, Command
<1>2. SessionTyped'
  BY <1>1 DEF SessionTyped
<1>3. Engaged' /\ Quiet' /\ OnTheWire' /\ InHand' /\ Closing'
  BY <1>1 DEF Busy, Engaged, Quiet, OnTheWire, InHand, Closing
<1>4. Replies'
  BY <1>1 DEF Busy, Replies
<1> QED BY <1>2, <1>3, <1>4

(* A handler that receives: from a client that is not waiting, or one that *)
(* has been answered, nothing but a terminator that was left; from one     *)
(* that waits, the same or the command it sent.                            *)
LEMMA ReceivedFacts ==
  ASSUME SInv, handler.at = "receive", Takes > 0
  PROVE  \/ Received = <<>> /\ Len(Command) = Full
            /\ (client.at # "await" \/ replies # <<>>)
         \/ Received = <<>> /\ client.after_full /\ client.at = "await" /\ replies = <<>>
         \/ /\ Received = Command /\ client.at = "await" /\ replies = <<>>
            /\ SubSeq(wire, Takes + 1, Len(wire)) = Rest(Command)
<1> USE DEF SInv
<1>1. Command \in Seq(Text) /\ Len(Command) <= Full
  BY DEF SessionTyped, Command
<1>2. CASE client.at # "await" \/ replies # <<>>
  <2>1. wire = Rest(Command)
    BY <1>2 DEF Busy, Quiet, InHand
  <2> QED BY <1>1, <1>2, <2>1, ReceiveRest
<1>3. CASE client.at = "await" /\ replies = <<>>
  <2>1. CASE wire = Message(Command)
    BY <1>1, <1>3, <2>1, ReceivesCommand
  <2>2. CASE wire = <<Nul>> \o Message(Command) /\ client.after_full
    <3>1. Message(Command) \in Seq(Byte)
      BY <1>1, MessageFacts
    <3> QED BY <1>3, <2>2, <3>1, ReceivesNothing
  <2> QED BY <1>3, <2>1, <2>2 DEF OnTheWire
<1> QED BY <1>2, <1>3

LEMMA ReceiveSInv == SInv /\ Receive => SInv'
<1> SUFFICES ASSUME SInv, Receive PROVE SInv'
  OBVIOUS
<1> USE SInv DEF SInv
<1>1. /\ handler.at = "receive" /\ Takes > 0 /\ client' = client /\ typed' = typed
      /\ wire' = SubSeq(wire, Takes + 1, Len(wire)) /\ Command' = Command
  BY DEF Receive, Command
<1>2. Command \in Seq(Text)
  BY DEF SessionTyped, Command
<1>3. wire' \in Seq(Byte)
  <2>1. Takes \in Nat
    <3>1. CASE { k \in 1 .. Len(wire) : wire[k] = Nul /\ k <= Full } = {}
      BY <3>1, Sizes DEF Takes
    <3>2. CASE { k \in 1 .. Len(wire) : wire[k] = Nul /\ k <= Full } # {}
      <4>1. { k \in 1 .. Len(wire) : wire[k] = Nul /\ k <= Full } \subseteq Nat
        OBVIOUS
      <4>2. PICK n \in { k \in 1 .. Len(wire) : wire[k] = Nul /\ k <= Full } :
              \A j \in { k \in 1 .. Len(wire) : wire[k] = Nul /\ k <= Full } : n <= j
        BY <3>2, <4>1, LeastNat
      <4> QED BY <3>2, <4>1, <4>2 DEF Takes
    <3> QED BY <3>1, <3>2
  <2>2. Len(wire) \in Nat /\ \A i \in 1 .. Len(wire) : wire[i] \in Byte
    BY DEF SessionTyped
  <2>3. \A i \in Takes + 1 .. Len(wire) : wire[i] \in Byte
    BY <2>1, <2>2
  <2> QED BY <1>1, <2>1, <2>2, <2>3, SubSeqProperties
<1>4. CASE Received = <<>>
  <2>1. handler' = [handler EXCEPT !.at = "closed"] /\ replies' = replies
    BY <1>4 DEF Receive, Disconnected
  <2>2. handler'.at = "closed"
    BY <2>1 DEF SessionTyped
  <2>3. SessionTyped'
    BY <1>1, <1>3, <2>1 DEF SessionTyped
  <2>4. Engaged' /\ Quiet' /\ OnTheWire' /\ InHand'
    BY <1>1, <2>1, <2>2 DEF Busy, Engaged, Quiet, OnTheWire, InHand
  <2>5. Replies'
    BY <1>1, <2>1, <2>2 DEF Busy, Replies
  <2>6. Closing'
    BY <1>1, <1>4, <2>1, <2>2, ReceivedFacts DEF Closing
  <2> QED BY <2>3, <2>4, <2>5, <2>6
<1>5. CASE Received # <<>>
  <2>1. /\ Received = Command /\ client.at = "await" /\ replies = <<>>
        /\ wire' = Rest(Command)
    BY <1>1, <1>5, ReceivedFacts
  <2>2. Handle(Command)
    BY <1>5, <2>1 DEF Receive, Disconnected
  <2>3. CASE Command = <<"exit">>
    <3>1. /\ handler' = [handler EXCEPT !.at = "closed", !.command = Command]
          /\ replies' = Append(replies, [status |-> "exit", to |-> handler'.command])
      BY <2>2, <2>3 DEF Handle, Reply
    <3>2. handler'.at = "closed" /\ handler'.command = Command /\ handler'.task = "none"
      BY <1>1, <3>1 DEF SessionTyped, Engaged
    <3>3. replies' = <<[status |-> "exit", to |-> Command]>>
      BY <2>1, <3>1, <3>2
    <3>4. SessionTyped'
      <4>1. replies' \in Seq([status: {"progress", "continue", "exit"}, to: Seq(Text)])
        BY <1>2, <3>3
      <4>2. handler' \in [at: {"receive", "submitted", "wait", "closed", "hung_up"},
                         command: Seq(Text), task: {"none", "runs", "done", "lost"},
                         progressed: BOOLEAN]
        BY <1>2, <3>1 DEF SessionTyped
      <4> QED BY <1>1, <1>3, <4>1, <4>2 DEF SessionTyped
    <3>5. Engaged' /\ Quiet' /\ OnTheWire' /\ InHand' /\ Closing'
      BY <1>1, <2>1, <2>3, <3>2, <3>3 DEF Busy, Engaged, Quiet, OnTheWire, InHand, Closing
    <3>6. Replies'
      BY <1>1, <2>3, <3>2, <3>3 DEF Busy, Replies
    <3> QED BY <3>4, <3>5, <3>6
  <2>4. CASE Command # <<"exit">>
    <3>1. /\ handler' = [at |-> "submitted", command |-> Command, task |-> "runs",
                         progressed |-> FALSE]
          /\ replies' = <<>>
      BY <2>1, <2>2, <2>4 DEF Handle
    <3>2. SessionTyped'
      BY <1>1, <1>2, <1>3, <3>1 DEF SessionTyped
    <3>3. Engaged' /\ Quiet' /\ OnTheWire' /\ Replies' /\ Closing'
      BY <1>1, <2>1, <3>1 DEF Busy, Engaged, Quiet, OnTheWire, Replies, Closing
    <3>4. InHand'
      BY <1>1, <1>5, <2>1, <2>4, <3>1 DEF Busy, InHand, Rest
    <3> QED BY <3>2, <3>3, <3>4
  <2> QED BY <2>3, <2>4
<1> QED BY <1>4, <1>5

LEMMA ReceiveEndSInv == SInv /\ ReceiveEnd => SInv'
<1> SUFFICES ASSUME SInv, ReceiveEnd PROVE SInv'
  OBVIOUS
<1> USE SInv DEF SInv
<1>1. /\ client.at \in {"left", "failed"} /\ handler' = [handler EXCEPT !.at = "closed"]
      /\ handler.at = "receive" /\ client' = client /\ typed' = typed /\ wire' = wire /\ replies' = replies
      /\ Command' = Command
  BY DEF ReceiveEnd, Command
<1>2. SessionTyped' /\ handler'.at = "closed" /\ handler'.task = "none"
  BY <1>1 DEF SessionTyped, Engaged
<1>3. Engaged' /\ Quiet' /\ OnTheWire' /\ InHand' /\ Closing'
  <2>1. Engaged' /\ OnTheWire' /\ InHand'
    BY <1>1, <1>2 DEF Busy, Engaged, OnTheWire, InHand
  <2>2. Quiet'
    BY <1>1, <1>2 DEF Busy, Quiet
  <2>3. Closing'
    BY <1>1, <1>2 DEF Closing
  <2> QED BY <2>1, <2>2, <2>3
<1>4. Replies'
  BY <1>1 DEF Busy, Replies, Quiet
<1> QED BY <1>2, <1>3, <1>4

(* A packet that the handler adds while its client waits.                  *)
LEMMA Replied ==
  ASSUME SInv, handler.at \in Busy,
         NEW r \in [status: {"progress", "continue", "exit"}, to: Seq(Text)],
         replies' = Append(replies, r)
  PROVE  /\ replies' \in Seq([status: {"progress", "continue", "exit"}, to: Seq(Text)])
         /\ Len(replies) \in Nat /\ Len(replies') = Len(replies) + 1
         /\ \A i \in 1 .. Len(replies) :
              /\ replies'[i] = replies[i] /\ replies[i].to = Command
              /\ replies[i].status = "progress"
         /\ replies'[Len(replies) + 1] = r
<1> DEFINE packets == [status: {"progress", "continue", "exit"}, to: Seq(Text)]
<1>1. replies \in Seq(packets) /\ r \in packets
  BY DEF SInv, SessionTyped
<1>2. \A i \in 1 .. Len(replies) : replies[i].to = Command /\ replies[i].status = "progress"
  BY DEF SInv, Replies
<1> HIDE DEF packets
<1>3. /\ replies' \in Seq(packets)
      /\ Len(replies) \in Nat /\ Len(replies') = Len(replies) + 1
      /\ \A i \in 1 .. Len(replies) : replies'[i] = replies[i]
      /\ replies'[Len(replies) + 1] = r
  BY <1>1, AppendProperties
<1> QED BY <1>2, <1>3 DEF packets

LEMMA ProgressSInv == SInv /\ Progress => SInv'
<1> SUFFICES ASSUME SInv, Progress PROVE SInv'
  OBVIOUS
<1> USE SInv DEF SInv
<1>1. /\ handler.task = "runs" /\ handler' = [handler EXCEPT !.progressed = TRUE]
      /\ replies' = Append(replies, [status |-> "progress", to |-> handler'.command])
      /\ client' = client /\ typed' = typed /\ wire' = wire /\ Command' = Command
  BY DEF Progress, Reply, Command
<1>2. /\ handler.at \in Busy /\ handler'.at = handler.at
      /\ handler'.command = handler.command /\ handler'.task = handler.task
      /\ handler' \in [at: {"receive", "submitted", "wait", "closed", "hung_up"},
                       command: Seq(Text), task: {"none", "runs", "done", "lost"},
                       progressed: BOOLEAN]
  BY <1>1 DEF SessionTyped, Engaged, Busy
<1>3. /\ client.at = "await" /\ handler.command = Command
      /\ wire = Rest(Command) /\ Command # <<>> /\ Command # <<"exit">>
  BY <1>2 DEF Busy, Quiet, InHand
<1> DEFINE r == [status |-> "progress", to |-> Command]
<1>4. /\ r \in [status: {"progress", "continue", "exit"}, to: Seq(Text)]
      /\ r.status = "progress" /\ r.to = Command
  BY DEF SessionTyped, Command
<1>5. replies' = Append(replies, r)
  BY <1>1, <1>2, <1>3
<1> HIDE DEF r
<1>6. SessionTyped'
  BY <1>1, <1>2, <1>4, <1>5, Replied DEF SessionTyped
<1>7. Engaged' /\ Quiet' /\ OnTheWire' /\ InHand' /\ Closing'
  BY <1>1, <1>2, <1>3 DEF Busy, Engaged, Quiet, OnTheWire, InHand, Closing, Rest
<1>8. Replies'
  <2> SUFFICES ASSUME NEW i \in 1 .. Len(replies')
               PROVE  replies'[i].to = Command /\ replies'[i].status = "progress"
    BY <1>1, <1>2, <1>3 DEF Busy, Replies
  <2>1. CASE i \in 1 .. Len(replies)
    BY <1>1, <1>2, <1>4, <1>5, <2>1, Replied
  <2>2. CASE i = Len(replies) + 1
    BY <1>1, <1>2, <1>4, <1>5, <2>2, Replied
  <2> QED BY <1>1, <1>2, <1>4, <1>5, <2>1, <2>2, Replied
<1> QED BY <1>6, <1>7, <1>8

LEMMA RespondSInv == SInv /\ Respond => SInv'
<1> SUFFICES ASSUME SInv, Respond PROVE SInv'
  OBVIOUS
<1> USE SInv DEF SInv
<1>1. /\ handler.at = "wait" /\ handler.at \in Busy
      /\ handler' = [handler EXCEPT !.at = "receive", !.task = "none", !.progressed = FALSE]
      /\ replies' = Append(replies, [status |-> "continue", to |-> handler'.command])
      /\ client' = client /\ typed' = typed /\ wire' = wire /\ Command' = Command
  BY DEF Respond, Reply, Command, Busy
<1>2. /\ handler'.at = "receive" /\ handler'.command = handler.command
      /\ handler'.task = "none"
      /\ handler' \in [at: {"receive", "submitted", "wait", "closed", "hung_up"},
                       command: Seq(Text), task: {"none", "runs", "done", "lost"},
                       progressed: BOOLEAN]
  BY <1>1 DEF SessionTyped
<1>3. /\ client.at = "await" /\ handler.command = Command
      /\ wire = Rest(Command) /\ Command # <<>> /\ Command # <<"exit">>
  BY <1>1 DEF Busy, Quiet, InHand
<1> DEFINE r == [status |-> "continue", to |-> Command]
<1>4. /\ r \in [status: {"progress", "continue", "exit"}, to: Seq(Text)]
      /\ r.status = "continue" /\ r.to = Command
  BY DEF SessionTyped, Command
<1>5. replies' = Append(replies, r)
  BY <1>1, <1>2, <1>3
<1> HIDE DEF r
<1>6. SessionTyped'
  BY <1>1, <1>2, <1>4, <1>5, Replied DEF SessionTyped
<1>7. replies' # <<>>
  BY <1>1, <1>4, <1>5, Replied, EmptySeq
<1>8. Engaged' /\ Quiet' /\ OnTheWire' /\ InHand' /\ Closing'
  BY <1>1, <1>2, <1>3, <1>7 DEF Busy, Engaged, Quiet, OnTheWire, InHand, Closing, Rest
<1>9. Replies'
  <2> SUFFICES ASSUME NEW i \in 1 .. Len(replies')
               PROVE  /\ replies'[i].to = Command /\ replies'[i].status # "exit"
                      /\ replies'[i].status = "progress" <=> i # Len(replies')
    BY <1>1, <1>2, <1>3 DEF Busy, Replies
  <2>1. CASE i \in 1 .. Len(replies)
    BY <1>1, <1>4, <1>5, <2>1, Replied
  <2>2. CASE i = Len(replies) + 1
    BY <1>1, <1>4, <1>5, <2>2, Replied
  <2> QED BY <1>1, <1>4, <1>5, <2>1, <2>2, Replied
<1> QED BY <1>6, <1>8, <1>9

(* The steps that add no packet: the place or the task of a busy handler.  *)
LEMMA BusySInv ==
  ASSUME SInv, handler.at \in Busy,
         \/ handler'.at \in Busy
         \/ handler'.at = "hung_up" /\ handler'.task \in {"done", "lost"},
         handler'.command = handler.command,
         handler' \in [at: {"receive", "submitted", "wait", "closed", "hung_up"},
                       command: Seq(Text), task: {"none", "runs", "done", "lost"},
                       progressed: BOOLEAN],
         UNCHANGED <<client, typed, wire, replies>>
  PROVE  SInv'
<1> USE SInv DEF SInv
<1>1. client.at = "await" /\ Command' = Command
  BY DEF Quiet, Command
<1>2. SessionTyped'
  BY <1>1 DEF SessionTyped
<1>3. Engaged' /\ Quiet' /\ OnTheWire' /\ InHand' /\ Closing'
  BY <1>1 DEF Busy, Engaged, Quiet, OnTheWire, InHand, Closing, Rest
<1>4. Replies'
  BY <1>1 DEF Busy, Replies
<1> QED BY <1>2, <1>3, <1>4

LEMMA SubmitReturnsSInv == SInv /\ SubmitReturns => SInv'
<1> SUFFICES ASSUME SInv, SubmitReturns PROVE SInv'
  OBVIOUS
<1>1. handler.at \in Busy /\ UNCHANGED <<client, typed, wire, replies>>
  BY DEF SubmitReturns, Busy
<1>2. \/ handler' = [handler EXCEPT !.at = "wait"]
      \/ /\ handler.task \in {"done", "lost"}
         /\ handler' = [handler EXCEPT !.at = "hung_up"]
  BY DEF SubmitReturns
<1>3. /\ \/ handler'.at \in Busy
         \/ handler'.at = "hung_up" /\ handler'.task \in {"done", "lost"}
      /\ handler'.command = handler.command
      /\ handler' \in [at: {"receive", "submitted", "wait", "closed", "hung_up"},
                       command: Seq(Text), task: {"none", "runs", "done", "lost"},
                       progressed: BOOLEAN]
  <2>1. handler \in [at: {"receive", "submitted", "wait", "closed", "hung_up"},
                      command: Seq(Text), task: {"none", "runs", "done", "lost"},
                      progressed: BOOLEAN]
    BY DEF SInv, SessionTyped
  <2>2. CASE handler' = [handler EXCEPT !.at = "wait"]
    BY <2>1, <2>2 DEF Busy
  <2>3. CASE handler.task \in {"done", "lost"} /\ handler' = [handler EXCEPT !.at = "hung_up"]
    BY <2>1, <2>3
  <2> QED BY <1>2, <2>2, <2>3
<1> QED BY <1>1, <1>3, BusySInv

LEMMA TaskEndsSInv == SInv /\ TaskEnds => SInv'
<1> SUFFICES ASSUME SInv, TaskEnds PROVE SInv'
  OBVIOUS
<1>1. handler.task = "runs" /\ UNCHANGED <<client, typed, wire, replies>>
  BY DEF TaskEnds
<1>2. PICK end \in {"done", "lost"} : handler' = [handler EXCEPT !.task = end]
  BY DEF TaskEnds
<1>3. handler.at \in Busy
  BY <1>1 DEF SInv, SessionTyped, Engaged, Busy
<1>4. /\ handler'.at = handler.at /\ handler'.command = handler.command
      /\ handler' \in [at: {"receive", "submitted", "wait", "closed", "hung_up"},
                       command: Seq(Text), task: {"none", "runs", "done", "lost"},
                       progressed: BOOLEAN]
  BY <1>2 DEF SInv, SessionTyped
<1>5. handler'.at \in Busy
  BY <1>3, <1>4
<1> QED BY <1>1, <1>3, <1>4, <1>5, BusySInv

LEMMA NextSInv == SInv /\ [Next]_vars => SInv'
<1> SUFFICES ASSUME SInv, [Next]_vars PROVE SInv'
  OBVIOUS
<1>1. CASE UNCHANGED vars
  BY <1>1 DEF vars, SInv, SessionTyped, Busy, Engaged, Quiet, OnTheWire, InHand, Replies, Closing, Rest,
              Command
<1>2. CASE Next
  BY <1>2, ClientSendsSInv, ClientEndsSInv, ClientReceivesSInv, ClientFailsSInv, ReceiveSInv,
     ReceiveEndSInv, SubmitReturnsSInv, RespondSInv, ProgressSInv, TaskEndsSInv
     DEF Next, ClientStep, HandlerStep, Executor
<1> QED BY <1>1, <1>2

LEMMA SessionInvariance == Spec => []SInv
BY InitSInv, NextSInv, PTL DEF Spec

-----------------------------------------------------------------------------
(* Whatever a client receives is about the command it has sent last, for   *)
(* every size of the buffer and whatever is typed.                         *)
THEOREM AnswersAreInStep == Spec => AnswersInStep
<1>1. SInv /\ [Next]_vars => [ClientReceives => Head(replies).to = client.command]_vars
  <2> SUFFICES ASSUME SInv, ClientReceives PROVE Head(replies).to = client.command
    OBVIOUS
  <2>1. replies # <<>>
    BY DEF ClientReceives
  <2> QED BY <2>1, FirstReply DEF SInv, Replies, Command
<1> QED BY <1>1, SessionInvariance, PTL DEF Spec, AnswersInStep

(* A client gives up waiting only for the answer to an empty command, to   *)
(* one sent after a command that filled the buffer, or to one whose task    *)
(* was over before its handler had read the result of its submission.      *)
THEOREM SessionsFailForAReason == Spec => []FailsForAReason
<1>1. SInv => FailsForAReason
  <2>1. SInv => /\ client.at = "failed" => Command = <<>> \/ client.after_full
                                              \/ handler.at = "hung_up"
                /\ handler.at = "hung_up" => handler.task \in {"done", "lost"}
    <3>1. SInv => (handler.at = "hung_up" => handler.task \in {"done", "lost"})
      BY DEF SInv, Engaged, SessionTyped
    <3> QED BY <3>1 DEF SInv, Closing
  <2> QED BY <2>1 DEF FailsForAReason, Command
<1> QED BY <1>1, SessionInvariance, PTL

(* A client that waits is never kept by a handler that waits for it: what  *)
(* the client sent can be received, as long as it has not been answered.   *)
THEOREM NoMutualWait == Spec => []NeverBothWait
<1>1. SInv => NeverBothWait
  <2> SUFFICES ASSUME SInv, client.at = "await", handler.at = "receive", replies = <<>>
               PROVE  Takes > 0
    BY DEF NeverBothWait
  <2>1. Command \in Seq(Text) /\ Len(Command) <= Full
    BY DEF SInv, SessionTyped, Command
  <2>2. CASE wire = Message(Command)
    BY <2>1, <2>2, ReceivesCommand
  <2>3. CASE wire = <<Nul>> \o Message(Command)
    BY <2>1, <2>3, MessageFacts, ReceivesNothing
  <2> QED BY <2>2, <2>3 DEF SInv, OnTheWire
<1> QED BY <1>1, SessionInvariance, PTL

-----------------------------------------------------------------------------
(* Numbers in their order.                                                 *)

Rank(S, x) == Cardinality({ m \in S : m <= x })

LEMMA RankFacts ==
  ASSUME NEW S, S \subseteq Nat, IsFiniteSet(S)
  PROVE  /\ Cardinality(S) \in Nat
         /\ \A x \in S : Rank(S, x) \in 1 .. Cardinality(S)
         /\ \A x, y \in S : x < y => Rank(S, x) < Rank(S, y)
<1> DEFINE below(x) == { m \in S : m <= x }
<1>1. Cardinality(S) \in Nat
  BY FS_CardinalityType
<1>2. \A x \in S : /\ IsFiniteSet(below(x)) /\ Rank(S, x) \in Nat
                   /\ Rank(S, x) <= Cardinality(S) /\ Rank(S, x) = Cardinality(below(x))
  <2> TAKE x \in S
  <2>1. below(x) \in SUBSET S /\ Rank(S, x) = Cardinality(below(x))
    BY DEF Rank
  <2> HIDE DEF below
  <2>2. IsFiniteSet(below(x)) /\ Cardinality(below(x)) <= Cardinality(S)
    BY <2>1, FS_Subset
  <2> QED BY <2>1, <2>2, FS_CardinalityType
<1>3. \A x \in S : Rank(S, x) # 0
  <2> TAKE x \in S
  <2>1. x \in below(x)
    OBVIOUS
  <2> HIDE DEF below
  <2> QED BY <1>2, <2>1, FS_EmptySet
<1>4. \A x, y \in S : x < y => Rank(S, x) < Rank(S, y)
  <2> SUFFICES ASSUME NEW x \in S, NEW y \in S, x < y
               PROVE  Rank(S, x) < Rank(S, y)
    OBVIOUS
  <2>1. below(x) \in SUBSET below(y) /\ y \in below(y) /\ y \notin below(x)
    <3>1. x \in Nat /\ y \in Nat /\ \A m \in S : m \in Nat
      OBVIOUS
    <3>2. \A m \in below(x) : m \in below(y)
      BY <3>1
    <3>3. y \in below(y) /\ y \notin below(x)
      BY <3>1
    <3> HIDE DEF below
    <3> QED BY <3>2, <3>3
  <2> HIDE DEF below
  <2>2. /\ Cardinality(below(x)) <= Cardinality(below(y))
        /\ Cardinality(below(y)) = Cardinality(below(x)) => below(y) = below(x)
    BY <1>2, <2>1, FS_Subset
  <2> QED BY <1>2, <2>1, <2>2
<1>5. \A x \in S : Rank(S, x) \in 1 .. Cardinality(S)
  <2> TAKE x \in S
  <2> HIDE DEF below
  <2>1. Rank(S, x) \in Nat /\ Rank(S, x) <= Cardinality(S) /\ Rank(S, x) # 0
    BY <1>2, <1>3
  <2> QED BY <1>1, <2>1
<1> QED BY <1>1, <1>4, <1>5

(* Ascending(S) lists S, each number at its rank.                          *)
LEMMA AscendingFacts ==
  ASSUME NEW S, S \subseteq Nat, IsFiniteSet(S)
  PROVE  /\ Cardinality(S) \in Nat
         /\ Ascending(S) \in [1 .. Cardinality(S) -> S]
         /\ Len(Ascending(S)) = Cardinality(S)
         /\ \A x \in S : Rank(S, x) \in 1 .. Cardinality(S) /\ Ascending(S)[Rank(S, x)] = x
         /\ \A k \in 1 .. Cardinality(S) : Rank(S, Ascending(S)[k]) = k
         /\ \A i, j \in 1 .. Cardinality(S) : i < j => Ascending(S)[i] < Ascending(S)[j]
<1> DEFINE n == Cardinality(S)
           f == [x \in S |-> Rank(S, x)]
<1>1. /\ n \in Nat
      /\ \A x \in S : Rank(S, x) \in 1 .. n
      /\ \A x, y \in S : x < y => Rank(S, x) < Rank(S, y)
  BY RankFacts
<1>2. \A x, y \in S : Rank(S, x) = Rank(S, y) => x = y
  <2> SUFFICES ASSUME NEW x \in S, NEW y \in S, Rank(S, x) = Rank(S, y), x # y
               PROVE  FALSE
    OBVIOUS
  <2>1. x < y \/ y < x
    OBVIOUS
  <2>2. Rank(S, x) \in Nat /\ Rank(S, y) \in Nat
    BY <1>1
  <2> QED BY <1>1, <2>1, <2>2
<1> HIDE DEF n
<1>3. \A k \in 1 .. n : \E x \in S : Rank(S, x) = k
  <2>1. f \in [S -> 1 .. n] /\ \A x, y \in S : f[x] = f[y] => x = y
    BY <1>1, <1>2
  <2>2. \A x \in S : f[x] = Rank(S, x)
    OBVIOUS
  <2> HIDE DEF f
  <2>3. f \in Injection(S, 1 .. n)
    BY <2>1, Fun_IsInj
  <2>4. IsFiniteSet(1 .. n) /\ Cardinality(1 .. n) = n
    BY <1>1, FS_Interval
  <2>5. f \in Surjection(S, 1 .. n)
    BY <2>3, <2>4, FS_Injection DEF n
  <2> QED BY <2>2, <2>5 DEF Surjection
<1>4. Ascending(S) = [k \in 1 .. n |-> CHOOSE x \in S : Rank(S, x) = k]
  BY DEF Ascending, Rank, n
<1>5. \A k \in 1 .. n : Ascending(S)[k] \in S /\ Rank(S, Ascending(S)[k]) = k
  BY <1>3, <1>4
<1>6. \A x \in S : Ascending(S)[Rank(S, x)] = x
  BY <1>1, <1>2, <1>5
<1>7. Ascending(S) \in [1 .. n -> S]
  <2> DEFINE pick(k) == CHOOSE x \in S : Rank(S, x) = k
  <2>1. Ascending(S) = [k \in 1 .. n |-> pick(k)]
    BY <1>4
  <2> HIDE DEF pick
  <2> QED BY <1>5, <2>1
<1>8. Len(Ascending(S)) = n
  BY <1>1, <1>7
<1>9. \A i, j \in 1 .. n : i < j => Ascending(S)[i] < Ascending(S)[j]
  <2> SUFFICES ASSUME NEW i \in 1 .. n, NEW j \in 1 .. n, i < j,
                      ~(Ascending(S)[i] < Ascending(S)[j])
               PROVE  FALSE
    OBVIOUS
  <2> DEFINE x == Ascending(S)[i]
             y == Ascending(S)[j]
  <2>1. x \in S /\ y \in S /\ Rank(S, x) = i /\ Rank(S, y) = j
    BY <1>5
  <2> HIDE DEF x, y
  <2>2. y < x
    <3>1. x \in Nat /\ y \in Nat /\ x # y
      BY <2>1
    <3> QED BY <3>1 DEF x, y
  <2> QED BY <1>1, <2>1, <2>2
<1> QED BY <1>1, <1>5, <1>6, <1>7, <1>8, <1>9 DEF n

-----------------------------------------------------------------------------
(* The burst of a demo.                                                    *)

(* An int holds what an int can hold.                                      *)
LEMMA WrapKeeps ==
  ASSUME NEW n \in 0 .. MaxInt
  PROVE  Wrap(n) = n
<1>1. MaxInt \in Nat \ {0}
  BY SessionAssumption
<1>2. n + MaxInt + 1 \in 0 .. 2 * (MaxInt + 1) - 1
  BY <1>1
<1>3. (n + MaxInt + 1) % (2 * (MaxInt + 1)) = n + MaxInt + 1
  BY <1>1, <1>2
<1> QED BY <1>1, <1>3 DEF Wrap

LEMMA CastKeeps ==
  ASSUME NEW n \in 0 .. MaxInt
  PROVE  Cast(n) = n
<1>1. MaxInt \in Nat /\ MaxInt + 1 \in Nat
  BY SessionAssumption
<1>2. (MaxInt + 1) * (MaxInt + 1) >= MaxInt + 1 /\ (MaxInt + 1) * (MaxInt + 1) \in Nat
  <2>1. \A m \in Nat : m >= 1 => m * m >= m /\ m * m \in Nat
    OBVIOUS
  <2> QED BY <1>1, <2>1
<1>3. LongMax \in Int /\ LongMax >= MaxInt
  <2>1. \A q \in Nat : 2 * (MaxInt + 1) * (MaxInt + 1) = 2 * ((MaxInt + 1) * (MaxInt + 1))
    BY <1>1
  <2> QED BY <1>1, <1>2, <2>1 DEF LongMax
<1>4. ~(n > LongMax)
  <2>1. \A l \in Int : l >= MaxInt => ~(n > l)
    BY <1>1
  <2> QED BY <1>3, <2>1
<1> QED BY <1>4, WrapKeeps DEF Cast

LEMMA CastType ==
  ASSUME NEW n \in Int
  PROVE  Cast(n) \in Int
<1>1. MaxInt \in Nat /\ LongMax \in Int
  BY SessionAssumption DEF LongMax
<1>2. \A k, m \in Int : m > 0 => k % m \in Int
  OBVIOUS
<1> QED BY <1>1, <1>2 DEF Cast, Wrap

(* The numbers that strtol reads.                                          *)
LEMMA NumberRead ==
  ASSUME NEW s, Len(s) \in Nat
  PROVE  /\ Digits(s) \in 0 .. Len(s) /\ Number(s) \in Nat
         /\ Digits(s) = 1 => Number(s) = IF s[1] = Two THEN 2 ELSE 0
<1> DEFINE n == Digits(s)
           value[k \in 0 .. Digits(s)] ==
             IF k = 0 THEN 0 ELSE 10 * value[k - 1] + (IF s[k] = Two THEN 2 ELSE 0)
           IsValue(g) == g = [k \in 0 .. Digits(s) |->
             IF k = 0 THEN 0 ELSE 10 * g[k - 1] + (IF s[k] = Two THEN 2 ELSE 0)]
           digit(k) == IF s[k] = Two THEN 2 ELSE 0
           F == [k \in 1 .. n |-> [m \in Nat |-> 10 * m + digit(k)]]
<1>1. Number(s) = value[n]
  BY DEF Number
<1>2. n \in 0 .. Len(s)
  <2> DEFINE ks == { k \in 1 .. Len(s) : \A j \in 1 .. k : s[j] \in {Zero, Two} }
  <2>1. IsFiniteSet(1 .. Len(s)) /\ Cardinality(1 .. Len(s)) = Len(s)
    BY FS_Interval
  <2>2. Cardinality(ks) \in Nat /\ Cardinality(ks) <= Len(s)
    BY <2>1, FS_Subset, FS_CardinalityType
  <2> QED BY <2>2 DEF Digits
<1>3. PICK g \in [0 .. n -> Nat] : g[0] = 0 /\ \A k \in 1 .. n : g[k] = F[k][g[k - 1]]
  <2> HIDE DEF n
  <2>1. KeepsTo(n, Nat, F)
    BY DEF KeepsTo
  <2> DEFINE first == 0
  <2>2. first \in Nat /\ n \in Nat
    BY <1>2
  <2> HIDE DEF first, F
  <2>3. HasRun(n, Nat, first, F)
    BY <2>1, <2>2, Passes
  <2> QED BY <2>3 DEF first, HasRun
<1>4. IsValue(g)
  <2> HIDE DEF n
  <2>1. \A k \in 0 .. n : g[k] = IF k = 0 THEN 0 ELSE 10 * g[k - 1] + digit(k)
    <3>1. \A k \in 1 .. n, m \in Nat : F[k][m] = 10 * m + digit(k)
      OBVIOUS
    <3> HIDE DEF F, digit
    <3>2. \A k \in 1 .. n : g[k - 1] \in Nat
      BY <1>2, <1>3
    <3>3. \A k \in 1 .. n : g[k] = 10 * g[k - 1] + digit(k)
      BY <1>3, <3>1, <3>2
    <3>4. \A k \in 0 .. n : k # 0 => k \in 1 .. n
      BY <1>2
    <3> QED BY <1>3, <3>3, <3>4
  <2>2. g = [k \in 0 .. n |-> g[k]]
    BY <1>3
  <2>3. g = [k \in 0 .. n |-> IF k = 0 THEN 0 ELSE 10 * g[k - 1] + digit(k)]
    BY <2>1, <2>2
  <2> QED BY <2>3 DEF n
<1>5. IsValue(value)
  <2>1. value = CHOOSE f : IsValue(f)
    BY DEF value
  <2> HIDE DEF value
  <2> QED BY <1>4, <2>1
<1> HIDE DEF value
<1>6. \A k \in 0 .. n : value[k] = IF k = 0 THEN 0 ELSE 10 * value[k - 1] + digit(k)
  BY <1>5
<1> HIDE DEF n
<1>7. \A k \in 0 .. n : k \in { m \in 0 .. n : value[m] \in Nat }
  <2> DEFINE T == { m \in 0 .. n : value[m] \in Nat }
  <2>1. 0 \in T
    BY <1>2, <1>6
  <2>2. \A k \in 0 .. n - 1 : k \in T => k + 1 \in T
    <3> TAKE k \in 0 .. n - 1
    <3>1. k + 1 \in 0 .. n /\ k + 1 # 0 /\ (k + 1) - 1 = k
      BY <1>2
    <3>2. value[k + 1] = 10 * value[k] + digit(k + 1)
      BY <1>6, <3>1
    <3> QED BY <3>1, <3>2
  <2> HIDE DEF T
  <2>3. \A k \in 0 .. n : k \in T
    <3>1. n \in Nat
      BY <1>2
    <3> QED BY <2>1, <2>2, <3>1, UpTo
  <2> QED BY <2>3 DEF T
<1>8. value[n] \in Nat /\ value[0] = 0
  BY <1>2, <1>6, <1>7
<1>9. n = 1 => value[1] = digit(1)
  BY <1>6, <1>8
<1> QED BY <1>1, <1>2, <1>8, <1>9 DEF n

(* The digit that stands for the default is read as the default.           *)
LEMMA DefaultRead == Number(DefaultText) = 2
<1>1. Len(DefaultText) = 1 /\ DefaultText[1] = Two
  BY DEF DefaultText
<1>2. { k \in 1 .. Len(DefaultText) : \A j \in 1 .. k : DefaultText[j] \in {Zero, Two} } = {1}
  BY <1>1
<1>3. Digits(DefaultText) = 1
  BY <1>2, FS_Singleton DEF Digits
<1> QED BY <1>1, <1>3, NumberRead

(* A sequence of two or more is what Append makes of one of one or more.   *)
LEMMA SecondOfTwo ==
  ASSUME NEW n \in Nat \ {0}, NEW f, f = [k \in 1 .. n |-> f[k]], NEW e
  PROVE  /\ Len(f) = n
         /\ n = 1 => Append(f, e)[2] = e /\ Len(Append(f, e)) = 2
<1> DEFINE S == { f[k] : k \in 1 .. n } \cup {e}
<1>1. f \in [1 .. n -> S]
  OBVIOUS
<1>2. f \in Seq(S) /\ Len(f) = n
  BY <1>1
<1> QED BY <1>2, AppendProperties

(* split_command_argv makes words of the command's own characters.        *)
LEMMA WordsOfText ==
  ASSUME NEW c \in Seq(Text), NEW w \in 1 .. Len(Split(c))
  PROVE  Len(Split(c)) \in Nat /\ Split(c)[w] \in Seq(Text)
<1> DEFINE gap(k)  == k \in {0, Len(c) + 1} \/ c[k] = Blank
           starts  == { k \in 1 .. Len(c) : ~gap(k) /\ gap(k - 1) }
           first   == Ascending(starts)
           IsLast(k, j) == gap(j + 1) /\ \A i \in k .. j : ~gap(i)
           last(k) == CHOOSE j \in k .. Len(c) : IsLast(k, j)
           word(v) == SubSeq(c, first[v], last(first[v]))
<1>1. Len(c) \in Nat /\ \A k \in 1 .. Len(c) : c[k] \in Text
  OBVIOUS
<1>2. starts \subseteq Nat /\ IsFiniteSet(starts)
  <2>1. IsFiniteSet(1 .. Len(c)) /\ starts \in SUBSET (1 .. Len(c))
    BY <1>1, FS_Interval
  <2>2. starts \subseteq Nat
    OBVIOUS
  <2> HIDE DEF starts
  <2> QED BY <2>1, <2>2, FS_Subset
<1>3. \A k \in starts : last(k) \in k .. Len(c)
  <2> TAKE k \in starts
  <2> DEFINE ends == { j \in k .. Len(c) : gap(j + 1) }
  <2>1. k \in 1 .. Len(c) /\ ~gap(k) /\ gap(Len(c) + 1)
    OBVIOUS
  <2>2. ends \subseteq Nat /\ Len(c) \in ends
    <3> HIDE DEF gap, starts
    <3> QED BY <1>1, <2>1
  <2>3. PICK j \in ends : \A i \in ends : j <= i
    <3> HIDE DEF ends
    <3> QED BY <2>2, LeastNat
  <2>4. j \in k .. Len(c) /\ IsLast(k, j)
    <3> HIDE DEF gap, starts
    <3>1. ASSUME NEW i \in k .. j PROVE ~gap(i)
      <4>1. CASE i = k
        BY <2>1, <4>1
      <4>2. CASE i # k
        <5>1. i - 1 \in k .. Len(c) /\ i - 1 < j /\ (i - 1) + 1 = i
          BY <2>1, <4>2
        <5> QED BY <2>3, <5>1
      <4> QED BY <4>1, <4>2
    <3> QED BY <3>1
  <2> HIDE DEF IsLast
  <2> QED BY <2>4
<1>4. Split(c) = [v \in 1 .. Len(first) |-> word(v)]
  BY DEF Split
<1>5. Cardinality(starts) \in Nat /\ first \in [1 .. Cardinality(starts) -> starts]
      /\ Len(first) = Cardinality(starts)
  <2> HIDE DEF starts
  <2> QED BY <1>2, AscendingFacts
<1>6. Len(Split(c)) = Len(first)
  <2> HIDE DEF word, first
  <2> QED BY <1>4, <1>5
<1>7. first[w] \in starts /\ Split(c)[w] = word(w)
  <2> HIDE DEF word, first, starts
  <2> QED BY <1>4, <1>5, <1>6
<1>8. first[w] \in 1 .. Len(c) /\ last(first[w]) \in first[w] .. Len(c)
  BY <1>3, <1>7
<1> HIDE DEF first, last, starts
<1>9. word(w) \in Seq(Text)
  <2>1. \A i \in first[w] .. last(first[w]) : c[i] \in Text
    BY <1>1, <1>8
  <2> QED BY <1>1, <1>8, <2>1, SubSeqProperties
<1> QED BY <1>5, <1>6, <1>7, <1>9

(* A demo has a first word, its program.                                   *)
LEMMA DemoWords ==
  ASSUME NEW c \in Seq(Text), IsDemo(c)
  PROVE  \E n \in Nat \ {0} : Split(c) = [w \in 1 .. n |-> Split(c)[w]] /\ Len(Split(c)) = n
<1> DEFINE gap(k) == k \in {0, Len(c) + 1} \/ c[k] = Blank
           starts == { k \in 1 .. Len(c) : ~gap(k) /\ gap(k - 1) }
           n      == Cardinality(starts)
<1>1. Len(c) \in Nat \ {0} /\ c[1] \in {"demo", "./"}
  BY DEF IsDemo
<1>2. IsFiniteSet(starts) /\ n \in Nat /\ starts # {}
  <2>1. IsFiniteSet(1 .. Len(c))
    BY <1>1, FS_Interval
  <2>2. IsFiniteSet(starts)
    BY <2>1, FS_Subset
  <2>3. 1 \in starts
    <3>1. 1 \in 1 .. Len(c) /\ 1 # Len(c) + 1
      BY <1>1
    <3>2. c[1] # Blank
      BY <1>1 DEF Blank
    <3>3. ~gap(1) /\ gap(1 - 1)
      BY <3>1, <3>2
    <3> HIDE DEF gap
    <3> QED BY <3>1, <3>3
  <2> QED BY <2>2, <2>3, FS_CardinalityType
<1>3. n # 0
  BY <1>2, FS_EmptySet
<1>4. Ascending(starts) = [k \in 1 .. n |-> Ascending(starts)[k]]
  <2> HIDE DEF starts
  <2> DEFINE pick(k) == CHOOSE m \in starts : Cardinality({ j \in starts : j <= m }) = k
  <2>1. Ascending(starts) = [k \in 1 .. n |-> pick(k)]
    BY DEF Ascending
  <2> HIDE DEF pick
  <2> QED BY <2>1
<1>5. Len(Ascending(starts)) = n
  BY <1>2, <1>3, <1>4, SecondOfTwo
<1>6. Split(c) = [w \in 1 .. n |-> Split(c)[w]]
  <2> DEFINE first   == Ascending(starts)
             last(k) == CHOOSE j \in k .. Len(c) : gap(j + 1) /\ \A i \in k .. j : ~gap(i)
             word(w) == SubSeq(c, first[w], last(first[w]))
  <2>1. Split(c) = [w \in 1 .. Len(first) |-> word(w)]
    BY DEF Split
  <2> HIDE DEF word
  <2> QED BY <1>5, <2>1
<1> QED BY <1>2, <1>3, <1>6, SecondOfTwo

(* The words the program is given, and the burst the task is given.   *)
LEMMA DemoCounts ==
  ASSUME NEW c \in Seq(Text), IsDemo(c)
  PROVE  LET words == Split(c)
             valid == Len(words) > 1 /\ ValidCount(words[2])
         IN  /\ Len(DemoTask(c).argv) \in Nat \ {0, 1}
             /\ DemoTask(c).argv[2] = IF valid THEN words[2] ELSE DefaultText
             /\ DemoTask(c).burst =
                  Submitted(IF valid THEN Cast(Number(words[2])) ELSE DefaultBurst)
<1> DEFINE words == Split(c)
           named == [words EXCEPT ![1] = IF @ = <<"demo">> THEN <<"./", "demo">> ELSE @]
<1>1. PICK n \in Nat \ {0} : words = [w \in 1 .. n |-> words[w]] /\ Len(words) = n
  BY DemoWords
<1>2. DemoTask(c).argv = Counted(named)
  BY DEF DemoTask, DemoArgv
<1>3. DemoTask(c).burst =
        Submitted(IF Len(words) > 1 /\ ValidCount(words[2]) THEN Cast(Number(words[2]))
                  ELSE DefaultBurst)
  BY DEF DemoTask
<1> HIDE DEF words
<1>4. /\ named = [w \in 1 .. n |-> named[w]]
      /\ n > 1 => named[2] = words[2]
  <2> DEFINE r == IF words[1] = <<"demo">> THEN <<"./", "demo">> ELSE words[1]
  <2>1. named = [words EXCEPT ![1] = r]
    OBVIOUS
  <2> HIDE DEF r, named
  <2>2. DOMAIN named = 1 .. n
    BY <1>1, <2>1
  <2>3. named = [w \in 1 .. n |-> IF w = 1 THEN r ELSE words[w]]
    BY <1>1, <2>1
  <2> QED BY <2>3
<1> HIDE DEF named
<1>5. Len(named) = n /\ (n = 1 => /\ Append(named, DefaultText)[2] = DefaultText
                                   /\ Len(Append(named, DefaultText)) = 2)
  BY <1>1, <1>4, SecondOfTwo
<1>6. CASE n = 1
  <2>1. DemoTask(c).argv = Append(named, DefaultText)
    BY <1>2, <1>5, <1>6 DEF Counted
  <2> QED BY <1>1, <1>3, <1>5, <1>6, <2>1 DEF words
<1>7. CASE n > 1 /\ ValidCount(words[2])
  BY <1>1, <1>2, <1>3, <1>4, <1>5, <1>7 DEF Counted, words
<1>8. CASE n > 1 /\ ~ValidCount(words[2])
  <2>1. DemoTask(c).argv = [named EXCEPT ![2] = DefaultText]
    BY <1>2, <1>4, <1>5, <1>8 DEF Counted
  <2>2. DemoTask(c).argv[2] = DefaultText /\ DOMAIN DemoTask(c).argv = 1 .. n
    BY <1>4, <1>8, <2>1
  <2> QED BY <1>1, <1>3, <1>8, <2>2 DEF words
<1> QED BY <1>1, <1>6, <1>7, <1>8

(* A demo's burst is how far it counts, for every command line: but for     *)
(* those with more arguments, which the demo refuses, and for numbers whose *)
(* int is not positive.                                                    *)
THEOREM BurstsAreCounts == Spec => []BurstIsCount
<1>1. SInv => BurstIsCount
  <2> DEFINE c     == handler.command
             words == Split(c)
             valid == Len(words) > 1 /\ ValidCount(words[2])
             task  == DemoTask(c)
             n     == Number(task.argv[2])
             Agree == \/ DemoLines(task.argv) = task.burst + 1
                      \/ Len(task.argv) > 2 /\ DemoLines(task.argv) = 0
                      \/ n > MaxInt /\ DemoLines(task.argv) <= 1 /\ task.burst = DefaultBurst
  <2> SUFFICES ASSUME SInv, Kind(c) = "demo" PROVE Agree
    BY DEF BurstIsCount
  <2>1. c \in Seq(Text) /\ IsDemo(c)
    BY DEF SInv, SessionTyped, Kind
  <2>2. /\ task.argv[2] = IF valid THEN words[2] ELSE DefaultText
        /\ task.burst = Submitted(IF valid THEN Cast(Number(words[2])) ELSE DefaultBurst)
        /\ Len(task.argv) \in Nat \ {0, 1}
    BY <2>1, DemoCounts
  <2>3. DemoLines(task.argv) =
          IF Len(task.argv) # 2 \/ Cast(n) < 0 THEN 0 ELSE Cast(n) + 1
    BY DEF DemoLines
  <2>4. MaxInt \in Nat \ {0, 1}
    BY SessionAssumption
  <2> HIDE DEF words, task
  <2>5. Len(task.argv) # 2 => Len(task.argv) > 2 /\ DemoLines(task.argv) = 0
    <3>1. Len(task.argv) \in Nat \ {0, 1}
      BY <2>2
    <3>2. Len(task.argv) # 2 => Len(task.argv) > 2
      <4>1. \A m \in Nat \ {0, 1} : m # 2 => m > 2
        OBVIOUS
      <4> QED BY <3>1, <4>1, Zenon
    <3> QED BY <2>3, <3>2
  <2>6. CASE valid
    <3>1. n \in Nat \ {0} /\ task.burst = Submitted(Cast(n))
      <4>1. \E w \in 1 .. Len(words) : w = 2 /\ words[w] \in Seq(Text)
        <5>1. \A w \in 1 .. Len(words) : Len(words) \in Nat /\ words[w] \in Seq(Text)
          BY <2>1, WordsOfText DEF words
        <5>2. 2 \in 1 .. Len(words)
          BY <2>1, <2>6, DemoWords DEF words
        <5> QED BY <5>1, <5>2
      <4>2. Len(words[2]) \in Nat
        BY <4>1
      <4>3. Number(words[2]) \in Nat /\ Number(words[2]) > 0
        BY <2>6, <4>2, NumberRead DEF ValidCount
      <4> QED BY <2>2, <2>6, <4>3
    <3>2. Cast(n) \in Int /\ (n <= MaxInt => Cast(n) = n)
      BY <2>4, <3>1, CastKeeps, CastType
    <3> HIDE DEF n
    <3>3. CASE Len(task.argv) # 2
      BY <2>5, <3>3
    <3>4. CASE Len(task.argv) = 2 /\ Cast(n) > 0
      BY <2>3, <3>1, <3>2, <3>4 DEF Submitted
    <3>5. CASE Len(task.argv) = 2 /\ Cast(n) <= 0
      <4>1. n > MaxInt
        BY <2>4, <3>1, <3>2, <3>5
      <4>2. task.burst = DefaultBurst
        BY <3>1, <3>2, <3>5 DEF Submitted
      <4>3. DemoLines(task.argv) <= 1
        BY <2>3, <3>2, <3>5
      <4> QED BY <4>1, <4>2, <4>3 DEF n
    <3> QED BY <3>2, <3>3, <3>4, <3>5
  <2>7. CASE ~valid
    <3>1. n = 2 /\ DefaultBurst = 2 /\ task.burst = Submitted(DefaultBurst)
      BY <2>2, <2>7, DefaultRead DEF DefaultBurst
    <3>2. Cast(n) = 2
      BY <2>4, <3>1, CastKeeps
    <3>3. CASE Len(task.argv) # 2
      BY <2>5, <3>3
    <3>4. CASE Len(task.argv) = 2
      BY <2>3, <3>1, <3>2, <3>4 DEF Submitted
    <3> QED BY <3>3, <3>4
  <2> QED BY <2>6, <2>7
<1> QED BY <1>1, SessionInvariance, PTL
=============================================================================
