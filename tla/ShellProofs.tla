----------------------------- MODULE ShellProofs -----------------------------
(***************************************************************************)
(* What is proved of Shell for every script, every set of process ids, of   *)
(* pipes and every size of a pipe: where the shell is in its code and what  *)
(* it then holds, that a finished pipeline has been waited for, that the    *)
(* prompt comes back clean, and that a captured answer is complete.         *)
(***************************************************************************)
EXTENDS Shell, TLAPS

(* The children that have not been waited for.                             *)
Unreaped == { p \in Pids : proc[p].state # "none" }

(* Process p can write to pipe k, now or once it has become a program.     *)
MayWrite(p, k) ==
  Alive(p) /\ (proc[p].out = k \/ W(k) \in proc[p].ends)

(* How far the shell is with its line.                                     *)
Placed ==
  /\ caller.at = "start" => sh.at = "unborn"
  /\ sh.at \in {"unborn", "basic", "wait", "stage", "close", "reap"} =>
       sh.line \in 1 .. Len(script.lines)
  /\ sh.at = "unborn" =>
       sh.pids = <<>> /\ sh.i = 1 /\ sh.prev = NoPipe /\ sh.next = NoPipe
  /\ sh.at = "basic" => Len(Cmds) = 1
  /\ sh.at = "wait"  => Len(sh.pids) = 1
  /\ sh.at = "stage" =>
       /\ sh.i \in 1 .. Len(Cmds) /\ Len(sh.pids) = sh.i - 1
       /\ sh.i = 1 => sh.prev = NoPipe
  /\ sh.at = "close" =>
       /\ sh.i \in 1 .. Len(Cmds) /\ Len(sh.pids) = sh.i
       /\ sh.next = NoPipe <=> sh.i = Len(Cmds)
  /\ sh.at = "reap"  =>
       /\ sh.i \in 1 .. Len(Cmds) /\ Len(sh.pids) = Len(Cmds)
       /\ \A j \in 1 .. sh.i - 1 : proc[sh.pids[j]].state = "none"

(* What the shell holds, when no pipeline has been given up.               *)
Clean ==
  ~gave_up =>
    /\ sh.at \in {"unborn", "prompt", "basic", "returned"} =>
         sh.ends = {} /\ Unreaped = {}
    /\ sh.at = "wait"  => sh.ends = {} /\ Unreaped \subseteq {sh.pids[1]}
    /\ sh.at = "stage" =>
         /\ sh.ends = IF sh.prev = NoPipe THEN {} ELSE {R(sh.prev)}
         /\ \A p \in Unreaped : \E j \in 1 .. Len(sh.pids) : sh.pids[j] = p
    /\ sh.at = "close" =>
         /\ sh.ends = (IF sh.prev = NoPipe THEN {} ELSE {R(sh.prev)})
                      \cup (IF sh.next = NoPipe THEN {} ELSE {R(sh.next), W(sh.next)})
         /\ sh.prev = sh.next => sh.prev = NoPipe
         /\ \A p \in Unreaped : \E j \in 1 .. Len(sh.pids) : sh.pids[j] = p
    /\ sh.at = "reap"  =>
         /\ sh.ends = {}
         /\ \A p \in Unreaped : \E j \in sh.i .. Len(sh.pids) : sh.pids[j] = p

(* A child between fork and exec still has the pipe it will write to.      *)
ForkedHasEnds ==
  \A p \in Pids : proc[p].state = "forked" /\ proc[p].next # NoPipe =>
    W(proc[p].next) \in proc[p].ends

(* The shell whose output is captured writes to the capture pipe.          *)
Captured ==
  caller.at = "read" \/ caller.result = "output" =>
    caller.from \in Pipes /\ sh.out = caller.from /\ sh.at # "unborn"

(* After the caller has seen the end of the output nobody can write more.  *)
NobodyWrites ==
  caller.result = "output" =>
    /\ caller.at \in {"wait", "done"} /\ caller.ends = {}
    /\ sh.at = "ended"
    /\ pipe[caller.from] = 0
    /\ \A p \in Pids : ~MayWrite(p, caller.from)

IInv ==
  /\ ShellTypeOK /\ Placed /\ Clean /\ PipelineReaped
  /\ ForkedHasEnds /\ Captured /\ NobodyWrites

-----------------------------------------------------------------------------
(* What a step of child p leaves alone, and what it may do to itself and   *)
(* to the pipes.                                                           *)
ChildFrame(p) ==
  /\ UNCHANGED <<sh, caller, failures, gave_up>>
  /\ script' \in ScriptRecord /\ script'.lines = script.lines
  /\ script'.offset <= Len(script.lines) /\ rewound' \in BOOLEAN
  /\ proc' \in [Pids -> ProcessRecord]
  /\ \A q \in Pids \ {p} : proc'[q] = proc[q]
  /\ proc[p].state # "none" /\ proc'[p].state # "none"
  /\ proc'[p].state = "forked" => proc'[p] = proc[p]
  /\ \A k \in Pipes : MayWrite(p, k)' => MayWrite(p, k)
  /\ pipe' \in [Pipes -> 0 .. PipeSize]
  /\ \A k \in Pipes : pipe'[k] > pipe[k] => MayWrite(p, k)

LEMMA ProcessTyped ==
  ASSUME NEW x \in ProcessRecord
  PROVE  /\ [x EXCEPT !.state = "zombie"] \in ProcessRecord
         /\ [x EXCEPT !.eof = TRUE] \in ProcessRecord
         /\ [x EXCEPT !.wrote = @ + 1] \in ProcessRecord
<1>1. [x EXCEPT !.state = "zombie"] \in ProcessRecord
  BY DEF ProcessRecord
<1>2. [x EXCEPT !.eof = TRUE] \in ProcessRecord
  BY DEF ProcessRecord
<1>3. [x EXCEPT !.wrote = @ + 1] \in ProcessRecord
  <2>1. x.wrote + 1 \in Nat
    BY DEF ProcessRecord
  <2> QED BY <2>1 DEF ProcessRecord
<1> QED BY <1>1, <1>2, <1>3

(* A child moves the position within the script.                           *)
LEMMA ScriptTyped ==
  ASSUME script \in ScriptRecord, NEW n \in Nat, n <= Len(script.lines),
         script' = [script EXCEPT !.offset = n]
  PROVE  /\ script' \in ScriptRecord /\ script'.lines = script.lines
         /\ script'.offset <= Len(script.lines)
BY DEF ScriptRecord

(* A chunk is taken out of pipe k.                                         *)
LEMMA ChunkTaken ==
  ASSUME PipelineAssumption, pipe \in [Pipes -> 0 .. PipeSize],
         NEW k \in Pipes, pipe[k] > 0, pipe' = [pipe EXCEPT ![k] = @ - 1]
  PROVE  /\ pipe' \in [Pipes -> 0 .. PipeSize]
         /\ \A l \in Pipes : ~(pipe'[l] > pipe[l])
<1>1. \A l \in Pipes : pipe[l] \in Int /\ pipe[l] \in 0 .. PipeSize
  OBVIOUS
<1>2. pipe[k] - 1 \in 0 .. PipeSize /\ ~(pipe[k] - 1 > pipe[k])
  BY <1>1 DEF PipelineAssumption
<1>3. \A l \in Pipes : pipe'[l] = IF l = k THEN pipe[k] - 1 ELSE pipe[l]
  OBVIOUS
<1>4. ASSUME NEW l \in Pipes  PROVE ~(pipe'[l] > pipe[l])
  BY <1>1, <1>2, <1>3
<1> QED BY <1>1, <1>2, <1>3, <1>4

(* exit() leaves the shell a position within its script.                   *)
LEMMA GiveBackTyped ==
  ASSUME ShellTypeOK, NEW x \in ProcessRecord, GiveBack(x)
  PROVE  /\ script' \in ScriptRecord /\ script'.lines = script.lines
         /\ script'.offset <= Len(script.lines)
<1>1. script \in ScriptRecord /\ script.offset <= Len(script.lines) /\ x.unread \in Nat
  BY DEF ShellTypeOK, ProcessRecord
<1>2. script.offset \in Nat /\ Len(script.lines) \in Nat
  BY <1>1 DEF ScriptRecord
<1>3. CASE UNCHANGED script
  BY <1>1, <1>3
<1>4. CASE script.offset >= x.unread
           /\ script' = [script EXCEPT !.offset = @ - x.unread]
  <2>1. script.offset - x.unread \in Nat /\ script.offset - x.unread <= Len(script.lines)
    BY <1>1, <1>2, <1>4
  <2> QED BY <1>1, <1>4, <2>1 DEF ScriptRecord
<1> QED BY <1>3, <1>4 DEF GiveBack

LEMMA ExecFrame ==
  ASSUME PipelineAssumption, ShellTypeOK, ForkedHasEnds, NEW p \in Pids, Exec(p)
  PROVE  ChildFrame(p)
<1> DEFINE x == [Connected(proc[p]) EXCEPT !.state = "running"]
<1>1. proc \in [Pids -> ProcessRecord] /\ proc[p] \in ProcessRecord
  BY DEF ShellTypeOK
<1>2. proc' = [proc EXCEPT ![p] = x] /\ proc[p].state = "forked"
  BY DEF Exec
<1>3. /\ x \in ProcessRecord /\ x.state = "running"
      /\ x.ends \subseteq proc[p].ends
      /\ x.out \in {File, proc[p].out} \cup ({proc[p].next} \ {NoPipe})
  <2> DEFINE y == proc[p]
             in == IF y.cmd.in = "file" THEN File
                   ELSE IF y.prev # NoPipe THEN y.prev ELSE y.in
             out == IF y.cmd.out = "file" THEN File
                    ELSE IF y.next # NoPipe THEN y.next ELSE y.out
             ends == y.ends \ {R(y.prev), R(y.next), W(y.next)}
  <2>1. /\ y.prev \in Pipes \cup {NoPipe} /\ y.in \in Pipes \cup {Given, File}
        /\ y.next \in Pipes \cup {NoPipe} /\ y.out \in Pipes \cup {Given, File}
        /\ y.ends \in SUBSET Ends
    BY <1>1 DEF ProcessRecord, Descriptor
  <2>2. in \in Pipes \cup {Given, File} /\ out \in Pipes \cup {Given, File}
        /\ ends \in SUBSET Ends
    BY <2>1
  <2>3. x = [y EXCEPT !.in = in, !.out = out, !.ends = ends, !.state = "running"]
    BY <1>1 DEF Connected, ProcessRecord
  <2>4. out \in {File, y.out} \cup ({y.next} \ {NoPipe}) /\ ends \subseteq y.ends
    OBVIOUS
  <2> HIDE DEF in, out, ends, x
  <2>5. x \in ProcessRecord /\ x.state = "running" /\ x.out = out /\ x.ends = ends
    BY <1>1, <2>2, <2>3 DEF ProcessRecord
  <2> QED BY <2>4, <2>5
<1>4. proc'[p] = x /\ \A q \in Pids \ {p} : proc'[q] = proc[q]
  BY <1>1, <1>2
<1>5. proc' \in [Pids -> ProcessRecord]
  BY <1>1, <1>2, <1>3
<1>6. \A k \in Pipes : MayWrite(p, k)' => MayWrite(p, k)
  <2> SUFFICES ASSUME NEW k \in Pipes, MayWrite(p, k)'  PROVE MayWrite(p, k)
    OBVIOUS
  <2>1. k # File
    BY DEF PipelineAssumption, File
  <2>2. x.out = k \/ W(k) \in x.ends
    BY <1>4 DEF MayWrite
  <2>3. CASE W(k) \in x.ends
    BY <1>2, <1>3, <2>3 DEF MayWrite, Alive
  <2>4. CASE x.out = k
    BY <1>2, <1>3, <2>1, <2>4 DEF MayWrite, Alive, ForkedHasEnds
  <2> QED BY <2>2, <2>3, <2>4
<1>7. \A k \in Pipes : ~(pipe[k] > pipe[k])
  BY DEF ShellTypeOK
<1> QED
  <2>1. UNCHANGED <<sh, caller, pipe, script, failures, gave_up, rewound>>
    BY DEF Exec
  <2> HIDE DEF x
  <2> QED BY <1>2, <1>3, <1>4, <1>5, <1>6, <1>7, <2>1 DEF ChildFrame, ShellTypeOK

(* A child that only changes its state or its progress.                    *)
LEMMA PlainFrame ==
  ASSUME ShellTypeOK, NEW p \in Pids, proc[p].state # "none",
         NEW x \in ProcessRecord, proc' = [proc EXCEPT ![p] = x],
         x.state \in {"running", "zombie"},
         x.state = "running" => Alive(p) /\ x.out = proc[p].out /\ x.ends = proc[p].ends,
         UNCHANGED <<sh, caller, failures, gave_up>>, rewound' \in BOOLEAN,
         script' \in ScriptRecord, script'.lines = script.lines,
         script'.offset <= Len(script.lines),
         pipe' \in [Pipes -> 0 .. PipeSize],
         \A k \in Pipes : pipe'[k] > pipe[k] => MayWrite(p, k)
  PROVE  ChildFrame(p)
<1>1. proc \in [Pids -> ProcessRecord]
  BY DEF ShellTypeOK
<1>2. proc' \in [Pids -> ProcessRecord] /\ proc'[p] = x
      /\ \A q \in Pids \ {p} : proc'[q] = proc[q]
  BY <1>1
<1>3. \A k \in Pipes : MayWrite(p, k)' => MayWrite(p, k)
  BY <1>2 DEF MayWrite, Alive
<1> QED BY <1>2, <1>3 DEF ChildFrame

LEMMA ChildStep ==
  ASSUME PipelineAssumption, ShellTypeOK, ForkedHasEnds, NEW p \in Pids,
         Runs(p) \/ ReadsTerminal(p)
  PROVE  ChildFrame(p)
<1> DEFINE x == proc[p]
<1>1. /\ proc \in [Pids -> ProcessRecord] /\ x \in ProcessRecord
      /\ script \in ScriptRecord /\ script.offset <= Len(script.lines)
      /\ pipe \in [Pipes -> 0 .. PipeSize] /\ rewound \in BOOLEAN
  BY DEF ShellTypeOK
<1>2. /\ script.offset \in Nat /\ Len(script.lines) \in Nat
      /\ x.wrote \in Nat /\ x.in \in Pipes \cup {Given, File}
      /\ x.out \in Pipes \cup {Given, File}
      /\ \A k \in Pipes : pipe[k] \in 0 .. PipeSize
      /\ PipeSize \in Nat
  BY <1>1 DEF ScriptRecord, ProcessRecord, PipelineAssumption
<1>3. \A k \in Pipes : ~(pipe[k] > pipe[k])
  BY <1>2
<1>4. /\ [x EXCEPT !.state = "zombie"] \in ProcessRecord
      /\ [x EXCEPT !.eof = TRUE] \in ProcessRecord
      /\ [x EXCEPT !.wrote = @ + 1] \in ProcessRecord
  BY <1>1, ProcessTyped
<1>5. /\ [x EXCEPT !.state = "zombie"].state = "zombie"
      /\ \A y \in {[x EXCEPT !.eof = TRUE], [x EXCEPT !.wrote = @ + 1]} :
           y.state = x.state /\ y.out = x.out /\ y.ends = x.ends
  BY <1>1 DEF ProcessRecord
<1>6. proc = [proc EXCEPT ![p] = x]
  BY <1>1
<1>7. CASE Exec(p)
  BY <1>7, ExecFrame
<1>8. CASE StartFails(p)
  <2>1. /\ x.state = "forked" /\ proc' = [proc EXCEPT ![p] = [x EXCEPT !.state = "zombie"]]
        /\ UNCHANGED <<sh, caller, pipe, failures, gave_up>>
    BY <1>8 DEF StartFails
  <2>2. /\ script' \in ScriptRecord /\ script'.lines = script.lines
        /\ script'.offset <= Len(script.lines) /\ rewound' \in BOOLEAN
    <3>1. CASE Exit(x)
      BY <1>1, <3>1, GiveBackTyped DEF Exit
    <3>2. CASE UnderscoreExit(x)
      BY <1>1, <3>2 DEF UnderscoreExit
    <3> QED BY <1>8, <3>1, <3>2 DEF StartFails
  <2> QED BY <1>1, <1>3, <1>4, <1>5, <2>1, <2>2, PlainFrame
<1>9. CASE ReadsPipe(p)
  <2>1. /\ x.state = "running" /\ x.in \in Pipes
        /\ UNCHANGED <<sh, caller, script, failures, gave_up, rewound>>
    BY <1>9 DEF ReadsPipe
  <2>2. CASE pipe[x.in] > 0 /\ pipe' = [pipe EXCEPT ![x.in] = @ - 1] /\ UNCHANGED proc
    <3>1. /\ pipe' \in [Pipes -> 0 .. PipeSize]
          /\ \A k \in Pipes : ~(pipe'[k] > pipe[k])
      <4>1. pipe \in [Pipes -> 0 .. PipeSize]
        BY <1>1
      <4> HIDE DEF x
      <4> QED BY <2>1, <2>2, <4>1, ChunkTaken
    <3> QED BY <1>1, <1>6, <2>1, <2>2, <3>1, PlainFrame DEF Alive
  <2>3. CASE proc' = [proc EXCEPT ![p].eof = TRUE] /\ UNCHANGED pipe
    BY <1>1, <1>3, <1>4, <1>5, <2>1, <2>3, PlainFrame DEF Alive
  <2> QED BY <1>9, <2>2, <2>3 DEF ReadsPipe
<1>10. CASE ReadsFile(p)
  <2>1. /\ x.state = "running" /\ proc' = [proc EXCEPT ![p].eof = TRUE]
        /\ UNCHANGED <<sh, caller, pipe, failures, gave_up, rewound>>
    BY <1>10 DEF ReadsFile
  <2>2. /\ script' \in ScriptRecord /\ script'.lines = script.lines
        /\ script'.offset <= Len(script.lines)
    <3>1. CASE UNCHANGED script
      BY <1>1, <3>1
    <3>2. CASE script' = [script EXCEPT !.offset = Len(script.lines)]
      <4>1. script \in ScriptRecord /\ Len(script.lines) \in Nat
            /\ Len(script.lines) <= Len(script.lines)
        BY <1>1, <1>2
      <4> QED BY <3>2, <4>1, ScriptTyped
    <3> QED BY <1>10, <3>1, <3>2 DEF ReadsFile
  <2> QED BY <1>1, <1>3, <1>4, <1>5, <2>1, <2>2, PlainFrame DEF Alive
<1>11. CASE ReadsTerminal(p)
  <2>1. /\ x.state = "running"
        /\ UNCHANGED <<sh, caller, pipe, failures, gave_up, rewound>>
    BY <1>11 DEF ReadsTerminal
  <2>2. CASE /\ script.offset < Len(script.lines)
             /\ script' = [script EXCEPT !.offset = @ + 1]
             /\ UNCHANGED proc
    <3>1. /\ script' \in ScriptRecord /\ script'.lines = script.lines
          /\ script'.offset <= Len(script.lines)
      <4>1. script \in ScriptRecord /\ script.offset + 1 \in Nat
            /\ script.offset + 1 <= Len(script.lines)
        BY <1>1, <1>2, <2>2
      <4>2. script' = [script EXCEPT !.offset = script.offset + 1]
        BY <2>2
      <4> QED BY <4>1, <4>2, ScriptTyped
    <3> QED BY <1>1, <1>3, <1>6, <2>1, <2>2, <3>1, PlainFrame DEF Alive
  <2>3. CASE proc' = [proc EXCEPT ![p].eof = TRUE] /\ UNCHANGED script
    BY <1>1, <1>3, <1>4, <1>5, <2>1, <2>3, PlainFrame DEF Alive
  <2> QED BY <1>11, <2>2, <2>3 DEF ReadsTerminal
<1>12. CASE Writes(p)
  <2>1. /\ x.state = "running"
        /\ UNCHANGED <<sh, caller, script, failures, gave_up, rewound>>
    BY <1>12 DEF Writes
  <2>2. CASE /\ x.out \in Pipes /\ pipe[x.out] < PipeSize
             /\ pipe' = [pipe EXCEPT ![x.out] = @ + 1]
             /\ proc' = [proc EXCEPT ![p].wrote = @ + 1]
    <3>1. /\ pipe' \in [Pipes -> 0 .. PipeSize]
          /\ \A k \in Pipes : pipe'[k] > pipe[k] => k = x.out
      BY <1>1, <1>2, <2>2
    <3>2. \A k \in Pipes : pipe'[k] > pipe[k] => MayWrite(p, k)
      BY <2>1, <3>1 DEF MayWrite, Alive
    <3> QED BY <1>1, <1>4, <1>5, <2>1, <2>2, <3>1, <3>2, PlainFrame DEF Alive
  <2>3. CASE proc' = [proc EXCEPT ![p].state = "zombie"] /\ UNCHANGED pipe
    BY <1>1, <1>3, <1>4, <1>5, <2>1, <2>3, PlainFrame
  <2>4. CASE proc' = [proc EXCEPT ![p].wrote = @ + 1] /\ UNCHANGED pipe
    BY <1>1, <1>3, <1>4, <1>5, <2>1, <2>4, PlainFrame DEF Alive
  <2> QED BY <1>12, <2>2, <2>3, <2>4 DEF Writes
<1>13. CASE Exits(p)
  <2>1. /\ x.state = "running" /\ proc' = [proc EXCEPT ![p].state = "zombie"]
        /\ UNCHANGED <<sh, caller, pipe, script, failures, gave_up, rewound>>
    BY <1>13 DEF Exits
  <2> QED BY <1>1, <1>3, <1>4, <1>5, <2>1, PlainFrame
<1> QED BY <1>7, <1>8, <1>9, <1>10, <1>11, <1>12, <1>13 DEF Runs

(* Such a step keeps the whole invariant.                                  *)
LEMMA FrameKeeps ==
  ASSUME PipelineAssumption, IInv, NEW p \in Pids, ChildFrame(p)
  PROVE  IInv'
<1>1. /\ UNCHANGED <<sh, caller, failures, gave_up>>
      /\ script' \in ScriptRecord /\ script'.lines = script.lines
      /\ script'.offset <= Len(script.lines) /\ rewound' \in BOOLEAN
      /\ proc' \in [Pids -> ProcessRecord] /\ pipe' \in [Pipes -> 0 .. PipeSize]
  BY DEF ChildFrame
<1>2. ShellTypeOK'
  BY <1>1 DEF IInv, ShellTypeOK
<1>3. Cmds' = Cmds
  BY <1>1 DEF Cmds
<1>4. \A q \in Pids : proc'[q].state = "none" <=> proc[q].state = "none"
  BY DEF ChildFrame
<1>5. Unreaped' = Unreaped
  BY <1>4 DEF Unreaped
<1>6. sh.pids \in Seq(Pids)
  BY DEF IInv, ShellTypeOK, ShellRecord
<1>7. Placed'
  <2>1. sh.at = "reap" =>
          \A j \in 1 .. sh.i - 1 : proc'[sh.pids[j]].state = "none"
    <3> SUFFICES ASSUME sh.at = "reap", NEW j \in 1 .. sh.i - 1
                 PROVE  proc'[sh.pids[j]].state = "none"
      OBVIOUS
    <3>1. proc[sh.pids[j]].state = "none" /\ j \in 1 .. Len(sh.pids)
      BY DEF IInv, Placed
    <3>2. sh.pids[j] \in Pids
      BY <1>6, <3>1
    <3> QED BY <1>4, <3>1, <3>2
  <2> QED BY <1>1, <1>3, <2>1 DEF IInv, Placed
<1>8. Clean'
  BY <1>1, <1>5 DEF IInv, Clean
<1>9. PipelineReaped'
  <2> SUFFICES ASSUME sh.at = "returned", Len(sh.pids) > 1, Len(sh.pids) = Len(Cmds),
                      NEW k \in 1 .. Len(sh.pids)
               PROVE  proc'[sh.pids[k]].state = "none"
    BY <1>1, <1>3 DEF PipelineReaped
  <2>1. sh.pids[k] \in Pids
    BY <1>6
  <2>2. proc[sh.pids[k]].state = "none"
    BY DEF IInv, PipelineReaped
  <2> QED BY <1>4, <2>1, <2>2
<1>10. ForkedHasEnds'
  BY DEF IInv, ForkedHasEnds, ChildFrame
<1>11. Captured'
  BY <1>1 DEF IInv, Captured
<1>12. NobodyWrites'
  <2> SUFFICES ASSUME caller.result = "output"
               PROVE  /\ pipe'[caller.from] = 0
                      /\ \A q \in Pids : ~MayWrite(q, caller.from)'
    BY <1>1 DEF IInv, NobodyWrites, MayWrite, Alive
  <2>1. caller.from \in Pipes /\ pipe[caller.from] = 0
        /\ \A q \in Pids : ~MayWrite(q, caller.from)
    BY DEF IInv, NobodyWrites, Captured
  <2>2. ~(pipe'[caller.from] > 0)
    BY <2>1 DEF ChildFrame
  <2>3. pipe'[caller.from] \in 0 .. PipeSize
    BY <1>1, <2>1
  <2>4. \A q \in Pids \ {p} : ~MayWrite(q, caller.from)'
    BY <1>1, <2>1 DEF ChildFrame, MayWrite, Alive
  <2>5. ~MayWrite(p, caller.from)'
    BY <1>1, <2>1 DEF ChildFrame, MayWrite
  <2> QED BY <2>2, <2>3, <2>4, <2>5 DEF PipelineAssumption
<1> QED BY <1>2, <1>7, <1>8, <1>9, <1>10, <1>11, <1>12 DEF IInv

-----------------------------------------------------------------------------
(* A failed call is counted.                                               *)
LEMMA FailsTyped ==
  ASSUME PipelineAssumption, failures \in 0 .. MaxFailures, NEW free, Fails(free)
  PROVE  failures' \in 0 .. MaxFailures
BY DEF Fails, PipelineAssumption

(* The shell moves on and leaves the rest of its state alone.              *)
LEMMA GoTyped ==
  ASSUME sh \in ShellRecord, NEW place, Go(place),
         place \in {"prompt", "basic", "wait", "stage", "close", "reap", "returned",
                    "ended"}
  PROVE  /\ sh' \in ShellRecord /\ sh'.at = place
         /\ sh'.line = sh.line /\ sh'.unread = sh.unread /\ sh'.out = sh.out
         /\ sh'.ends = sh.ends /\ sh'.i = sh.i /\ sh'.pids = sh.pids
BY DEF Go, ShellRecord

LEMMA SeqElement ==
  ASSUME NEW S, NEW q \in Seq(S), NEW n \in 1 .. Len(q)  PROVE q[n] \in S
OBVIOUS

(* What the shell finds in a line decides where it goes.                   *)
LEMMA ExecuteGoes ==
  ASSUME script \in ScriptRecord, NEW n \in 1 .. Len(script.lines)
  PROVE  /\ script.lines[n].cmds \in Seq(Commands)
         /\ Execute(n) \in {"ended", "basic", "stage", "returned"}
         /\ Execute(n) = "basic" => Len(script.lines[n].cmds) = 1
         /\ Execute(n) = "stage" => Len(script.lines[n].cmds) > 1
<1>1. script.lines \in Seq([exit : BOOLEAN, cmds : Seq(Commands)])
  BY DEF ScriptRecord
<1>2. script.lines[n] \in [exit : BOOLEAN, cmds : Seq(Commands)]
  BY <1>1, SeqElement
<1>3. script.lines[n].cmds \in Seq(Commands) /\ script.lines[n].exit \in BOOLEAN
  BY <1>2
<1> QED BY <1>3 DEF Execute

(* The process that captures has nothing to do with a step of the shell,   *)
(* which has not ended.                                                    *)
LEMMA CaptureKept ==
  ASSUME Captured, NobodyWrites, sh.at # "ended",
         UNCHANGED caller, sh'.out = sh.out, sh'.at # "unborn"
  PROVE  Captured' /\ NobodyWrites'
BY DEF Captured, NobodyWrites

LEMMA FgetsLineStep ==
  ASSUME IInv, FgetsLine  PROVE IInv'
<1> DEFINE n == (IF sh.unread > 0 THEN Len(script.lines) - sh.unread
                 ELSE script.offset) + 1
<1>1. /\ sh \in ShellRecord /\ script \in ScriptRecord
      /\ sh.unread \in Nat /\ script.offset \in Nat /\ Len(script.lines) \in Nat
      /\ sh.unread <= Len(script.lines) /\ script.offset <= Len(script.lines)
  BY DEF IInv, ShellTypeOK, ShellRecord, ScriptRecord
<1>2. /\ sh.at = "prompt" /\ n <= Len(script.lines)
      /\ sh' = [sh EXCEPT !.line = n, !.unread = ReadAhead(n), !.at = Execute(n),
                          !.i = 1, !.prev = NoPipe, !.next = NoPipe, !.pids = <<>>]
      /\ script' = IF sh.unread > 0 THEN script
                   ELSE [script EXCEPT !.offset = n + ReadAhead(n)]
      /\ UNCHANGED <<caller, proc, pipe, failures, gave_up, rewound>>
  BY DEF FgetsLine
<1>3. n \in 1 .. Len(script.lines)
  BY <1>1, <1>2
<1>4. /\ ReadAhead(n) \in Nat /\ ReadAhead(n) <= Len(script.lines)
      /\ n + ReadAhead(n) \in Nat /\ n + ReadAhead(n) <= Len(script.lines)
  BY <1>1, <1>3 DEF ReadAhead
<1>5. /\ script' \in ScriptRecord /\ script'.lines = script.lines
      /\ script'.offset <= Len(script.lines)
  BY <1>1, <1>2, <1>4, ScriptTyped
<1>6. /\ Execute(n) \in {"ended", "basic", "stage", "returned"}
      /\ Execute(n) = "basic" => Len(script.lines[n].cmds) = 1
      /\ Execute(n) = "stage" => Len(script.lines[n].cmds) > 1
      /\ script.lines[n].cmds \in Seq(Commands)
  BY <1>1, <1>3, ExecuteGoes
<1> HIDE DEF n
<1>7. /\ sh' \in ShellRecord /\ sh'.line = n /\ sh'.unread = ReadAhead(n)
      /\ sh'.at = Execute(n) /\ sh'.i = 1 /\ sh'.prev = NoPipe /\ sh'.pids = <<>>
      /\ sh'.out = sh.out /\ sh'.ends = sh.ends
  <2>1. n \in Nat /\ NoPipe \in Descriptor /\ <<>> \in Seq(Pids)
    BY <1>3 DEF Descriptor
  <2>2. sh' = [sh EXCEPT !.line = n, !.unread = ReadAhead(n), !.at = Execute(n),
                         !.i = 1, !.prev = NoPipe, !.next = NoPipe, !.pids = <<>>]
    BY <1>2
  <2> QED BY <1>1, <1>4, <1>6, <2>1, <2>2 DEF ShellRecord
<1>8. Cmds' = script.lines[n].cmds
  BY <1>5, <1>7 DEF Cmds
<1>9. ShellTypeOK'
  BY <1>1, <1>2, <1>3, <1>4, <1>5, <1>7 DEF IInv, ShellTypeOK
<1>10. Placed'
  BY <1>2, <1>3, <1>5, <1>6, <1>7, <1>8 DEF IInv, Placed
<1>11. Clean'
  BY <1>2, <1>6, <1>7 DEF IInv, Clean, Unreaped
<1>12. PipelineReaped' /\ ForkedHasEnds'
  BY <1>2, <1>7 DEF IInv, PipelineReaped, ForkedHasEnds
<1>13. Captured' /\ NobodyWrites'
  BY <1>2, <1>6, <1>7, CaptureKept DEF IInv
<1> QED BY <1>9, <1>10, <1>11, <1>12, <1>13 DEF IInv

LEMMA LineEndStep ==
  ASSUME IInv, FgetsEnd \/ LineDone  PROVE IInv'
<1>1. /\ sh.at \in {"prompt", "returned"}
      /\ \E place \in {"prompt", "ended"} : Go(place)
      /\ UNCHANGED <<caller, proc, pipe, script, failures, gave_up, rewound>>
  BY DEF FgetsEnd, LineDone
<1>2. sh \in ShellRecord
  BY DEF IInv, ShellTypeOK
<1>3. /\ sh' \in ShellRecord /\ sh'.at \in {"prompt", "ended"}
      /\ sh'.line = sh.line /\ sh'.unread = sh.unread /\ sh'.out = sh.out
      /\ sh'.ends = sh.ends /\ sh'.i = sh.i /\ sh'.pids = sh.pids
  BY <1>1, <1>2, GoTyped
<1>4. ShellTypeOK'
  BY <1>1, <1>3 DEF IInv, ShellTypeOK
<1>5. Placed' /\ Clean'
  BY <1>1, <1>3 DEF IInv, Placed, Clean, Unreaped
<1>6. PipelineReaped' /\ ForkedHasEnds'
  BY <1>1, <1>3 DEF IInv, PipelineReaped, ForkedHasEnds
<1>7. Captured' /\ NobodyWrites'
  BY <1>1, <1>3, CaptureKept DEF IInv
<1> QED BY <1>4, <1>5, <1>6, <1>7 DEF IInv

LEMMA StartCaptureStep ==
  ASSUME PipelineAssumption, IInv, StartCapture  PROVE IInv'
<1>1. /\ caller.at = "start" /\ sh.at = "unborn" /\ caller.result # "output"
      /\ UNCHANGED <<proc, pipe, script, gave_up, rewound>>
  BY DEF StartCapture, IInv, Placed, NobodyWrites
<1>2. /\ sh \in ShellRecord /\ caller \in CallerRecord /\ script \in ScriptRecord
      /\ failures \in 0 .. MaxFailures
  BY DEF IInv, ShellTypeOK
<1>3. CASE Fails(FreePipes) /\ CallerAt("done", {}, "error") /\ UNCHANGED sh
  <2>1. failures' \in 0 .. MaxFailures
    BY <1>2, <1>3, FailsTyped
  <2>2. caller' \in CallerRecord /\ caller'.at = "done" /\ caller'.result = "error"
    BY <1>2, <1>3 DEF CallerAt, CallerRecord
  <2>3. ShellTypeOK'
    BY <1>1, <1>3, <2>1, <2>2 DEF IInv, ShellTypeOK
  <2>4. Placed' /\ Clean'
    BY <1>1, <1>3, <2>2 DEF IInv, Placed, Clean, Unreaped, Cmds
  <2>5. PipelineReaped' /\ ForkedHasEnds' /\ Captured' /\ NobodyWrites'
    BY <1>1, <1>3, <2>2 DEF IInv, PipelineReaped, ForkedHasEnds, Captured, NobodyWrites, Cmds
  <2> QED BY <2>3, <2>4, <2>5 DEF IInv
<1>4. CASE /\ \E k \in Lowest(FreePipes) :
                /\ caller' = [caller EXCEPT !.at = "read", !.from = k, !.ends = {R(k)}]
                /\ sh' = [sh EXCEPT !.at = Execute(sh.line), !.out = k]
           /\ UNCHANGED failures
  <2>1. PICK k \in Pipes :
          /\ caller' = [caller EXCEPT !.at = "read", !.from = k, !.ends = {R(k)}]
          /\ sh' = [sh EXCEPT !.at = Execute(sh.line), !.out = k]
    BY <1>4 DEF Lowest, FreePipes
  <2>2. sh.line \in 1 .. Len(script.lines)
    BY <1>1 DEF IInv, Placed
  <2>3. /\ Execute(sh.line) \in {"ended", "basic", "stage", "returned"}
        /\ Execute(sh.line) = "basic" => Len(Cmds) = 1
        /\ Execute(sh.line) = "stage" => Len(Cmds) > 1
        /\ Cmds \in Seq(Commands)
    BY <1>2, <2>2, ExecuteGoes DEF Cmds
  <2>4. /\ caller' \in CallerRecord /\ caller'.at = "read" /\ caller'.from = k
        /\ caller'.result = caller.result
    <3>1. k \in Descriptor /\ {R(k)} \in SUBSET Ends
      BY DEF Descriptor, Ends, R
    <3> QED BY <1>2, <2>1, <3>1 DEF CallerRecord
  <2>5. /\ sh' \in ShellRecord /\ sh'.at = Execute(sh.line) /\ sh'.out = k
        /\ sh'.line = sh.line /\ sh'.unread = sh.unread /\ sh'.ends = sh.ends
        /\ sh'.i = sh.i /\ sh'.prev = sh.prev /\ sh'.pids = sh.pids
    BY <1>2, <2>1, <2>3 DEF ShellRecord
  <2>6. Cmds' = Cmds
    BY <1>1, <2>5 DEF Cmds
  <2>7. sh.pids = <<>> /\ sh.i = 1 /\ sh.prev = NoPipe
    BY <1>1 DEF IInv, Placed
  <2>8. ShellTypeOK'
    BY <1>1, <1>4, <2>4, <2>5 DEF IInv, ShellTypeOK
  <2>9. Placed'
    BY <1>1, <2>2, <2>3, <2>4, <2>5, <2>6, <2>7 DEF Placed
  <2>10. Clean'
    BY <1>1, <2>3, <2>5, <2>7 DEF IInv, Clean, Unreaped
  <2>11. PipelineReaped' /\ ForkedHasEnds'
    <3>1. ~(Len(sh'.pids) > 1)
      BY <2>5, <2>7
    <3> QED BY <1>1, <3>1 DEF IInv, PipelineReaped, ForkedHasEnds
  <2>12. Captured' /\ NobodyWrites'
    BY <1>1, <2>3, <2>4, <2>5 DEF Captured, NobodyWrites
  <2> QED BY <2>8, <2>9, <2>10, <2>11, <2>12 DEF IInv
<1> QED BY <1>3, <1>4 DEF StartCapture

(* A step of the process that captures, once the shell process exists.     *)
LEMMA CallerKeeps ==
  ASSUME IInv, caller.at # "start", caller'.at # "start",
         caller' \in CallerRecord, pipe' \in [Pipes -> 0 .. PipeSize],
         failures' \in 0 .. MaxFailures,
         UNCHANGED <<sh, proc, script, gave_up, rewound>>
  PROVE  /\ ShellTypeOK' /\ Placed' /\ Clean' /\ PipelineReaped' /\ ForkedHasEnds'
<1>1. ShellTypeOK'
  BY DEF IInv, ShellTypeOK
<1>2. Placed' /\ Clean'
  BY DEF IInv, Placed, Clean, Unreaped, Cmds
<1>3. PipelineReaped' /\ ForkedHasEnds'
  BY DEF IInv, PipelineReaped, ForkedHasEnds, Cmds
<1> QED BY <1>1, <1>2, <1>3

LEMMA CapturingStep ==
  ASSUME PipelineAssumption, IInv, ReadChunk \/ ReadEnd \/ WaitForShell
  PROVE  IInv'
<1>1. /\ caller \in CallerRecord /\ failures \in 0 .. MaxFailures
      /\ pipe \in [Pipes -> 0 .. PipeSize]
  BY DEF IInv, ShellTypeOK
<1>2. CASE ReadChunk
  <2>1. /\ caller.at = "read" /\ pipe[caller.from] > 0
        /\ pipe' = [pipe EXCEPT ![caller.from] = @ - 1]
        /\ UNCHANGED <<sh, proc, script, gave_up, rewound>>
    BY <1>2 DEF ReadChunk
  <2>2. caller.from \in Pipes /\ sh.out = caller.from /\ sh.at # "unborn"
        /\ caller.result # "output"
    BY <2>1 DEF IInv, Captured, NobodyWrites
  <2>3. pipe' \in [Pipes -> 0 .. PipeSize]
    BY <1>1, <2>1, <2>2, ChunkTaken
  <2>4. \/ UNCHANGED <<caller, failures>>
        \/ Fails({caller.from}) /\ CallerAt("wait", {}, "error")
    BY <1>2 DEF ReadChunk
  <2>5. failures' \in 0 .. MaxFailures
    BY <1>1, <2>4, FailsTyped
  <2>6. /\ caller' \in CallerRecord /\ caller'.at # "start" /\ caller'.result # "output"
        /\ caller'.from = caller.from
    BY <1>1, <2>1, <2>2, <2>4 DEF CallerAt, CallerRecord
  <2>7. Captured' /\ NobodyWrites'
    BY <2>1, <2>2, <2>6 DEF Captured, NobodyWrites
  <2> QED BY <2>1, <2>3, <2>5, <2>6, <2>7, CallerKeeps DEF IInv
<1>3. CASE ReadEnd
  <2>1. /\ caller.at = "read" /\ pipe[caller.from] = 0
        /\ W(caller.from) \notin OpenEnds /\ CallerAt("wait", {}, "output")
        /\ UNCHANGED <<sh, proc, pipe, script, failures, gave_up, rewound>>
    BY <1>3 DEF ReadEnd, EndOfOutput
  <2>2. /\ caller' \in CallerRecord /\ caller'.at = "wait" /\ caller'.result = "output"
        /\ caller'.from = caller.from /\ caller'.ends = {}
    BY <1>1, <2>1 DEF CallerAt, CallerRecord
  <2>3. caller.from \in Pipes /\ sh.out = caller.from /\ sh.at # "unborn"
    BY <2>1 DEF IInv, Captured
  <2>4. sh.at = "ended"
    BY <2>1, <2>3 DEF OpenEnds, Streams
  <2>5. ASSUME NEW p \in Pids, MayWrite(p, caller.from)  PROVE FALSE
    <3>1. W(caller.from) \in Streams(proc[p]) \cup proc[p].ends /\ Alive(p)
      BY <2>3, <2>5 DEF MayWrite, Streams
    <3> QED BY <2>1, <3>1 DEF OpenEnds
  <2>6. Captured'
    BY <2>1, <2>2, <2>3 DEF Captured
  <2>7. NobodyWrites'
    BY <2>1, <2>2, <2>4, <2>5 DEF NobodyWrites, MayWrite, Alive
  <2> QED BY <1>1, <2>1, <2>2, <2>6, <2>7, CallerKeeps DEF IInv
<1>4. CASE WaitForShell
  <2>1. /\ caller.at = "wait" /\ CallerAt("done", {}, caller.result)
        /\ UNCHANGED <<sh, proc, pipe, script, failures, gave_up, rewound>>
    BY <1>4 DEF WaitForShell
  <2>2. /\ caller' \in CallerRecord /\ caller'.at = "done" /\ caller'.ends = {}
        /\ caller'.result = caller.result /\ caller'.from = caller.from
    BY <1>1, <2>1 DEF CallerAt, CallerRecord
  <2>3. Captured' /\ NobodyWrites'
    BY <2>1, <2>2 DEF IInv, Captured, NobodyWrites, MayWrite, Alive
  <2> QED BY <1>1, <2>1, <2>2, <2>3, CallerKeeps DEF IInv
<1> QED BY <1>2, <1>3, <1>4

-----------------------------------------------------------------------------
LEMMA NoProcTyped == NoProc \in ProcessRecord /\ NoProc.state = "none"
BY DEF NoProc, Command, ProcessRecord, Commands, Redirections, Descriptor, Ends

(* What a child copies from the shell.                                     *)
LEMMA Inherited ==
  ASSUME sh \in ShellRecord
  PROVE  /\ sh.in \in {Given} /\ sh.out \in Pipes \cup {Given}
         /\ sh.prev \in Descriptor /\ sh.unread \in Nat
BY DEF ShellRecord

(* What fork does to the children, whichever process id it returns.        *)
LEMMA ForkChanges ==
  ASSUME IInv, NEW p \in Lowest(FreePids), NEW x \in ProcessRecord,
         proc' = [proc EXCEPT ![p] = x], x.state = "forked",
         x.next # NoPipe => W(x.next) \in x.ends
  PROVE  /\ p \in Pids /\ proc' \in [Pids -> ProcessRecord]
         /\ ForkedHasEnds' /\ Unreaped' = Unreaped \cup {p}
<1>1. p \in Pids /\ proc \in [Pids -> ProcessRecord]
  BY DEF Lowest, FreePids, IInv, ShellTypeOK
<1>2. \A q \in Pids : proc'[q] = IF q = p THEN x ELSE proc[q]
  BY <1>1
<1>3. proc' \in [Pids -> ProcessRecord]
  BY <1>1
<1>4. ForkedHasEnds'
  BY <1>2 DEF IInv, ForkedHasEnds
<1>5. Unreaped' = Unreaped \cup {p}
  BY <1>1, <1>2 DEF Unreaped
<1> QED BY <1>1, <1>3, <1>4, <1>5

(* What wait does to them.                                                 *)
LEMMA WaitChanges ==
  ASSUME IInv, NEW p \in Pids, proc' = [proc EXCEPT ![p] = NoProc]
  PROVE  /\ proc' \in [Pids -> ProcessRecord] /\ proc'[p].state = "none"
         /\ \A q \in Pids : proc[q].state = "none" => proc'[q].state = "none"
         /\ ForkedHasEnds' /\ Unreaped' = Unreaped \ {p}
<1>1. proc \in [Pids -> ProcessRecord]
  BY DEF IInv, ShellTypeOK
<1>2. \A q \in Pids : proc'[q] = IF q = p THEN NoProc ELSE proc[q]
  BY <1>1
<1>3. proc' \in [Pids -> ProcessRecord]
  BY <1>1, NoProcTyped
<1>4. ForkedHasEnds'
  BY <1>2, NoProcTyped DEF IInv, ForkedHasEnds
<1>5. Unreaped' = Unreaped \ {p}
  BY <1>1, <1>2, NoProcTyped DEF Unreaped
<1> QED BY <1>2, <1>3, <1>4, <1>5, NoProcTyped

LEMMA ForkBasicStep ==
  ASSUME PipelineAssumption, IInv, ForkBasic  PROVE IInv'
<1>1. /\ sh.at = "basic" /\ UNCHANGED <<caller, pipe, script, gave_up, rewound>>
  BY DEF ForkBasic
<1>2. /\ sh \in ShellRecord /\ script \in ScriptRecord /\ failures \in 0 .. MaxFailures
  BY DEF IInv, ShellTypeOK
<1>3. sh.line \in 1 .. Len(script.lines) /\ Len(Cmds) = 1
  BY <1>1 DEF IInv, Placed
<1>4. CASE /\ \E p \in Lowest(FreePids) :
                /\ proc' = [proc EXCEPT ![p] = Child(Cmds[1], TRUE, NoPipe, sh.ends)]
                /\ sh' = [sh EXCEPT !.at = "wait", !.pids = <<p>>]
           /\ UNCHANGED failures
  <2>1. PICK p \in Lowest(FreePids) :
          /\ proc' = [proc EXCEPT ![p] = Child(Cmds[1], TRUE, NoPipe, sh.ends)]
          /\ sh' = [sh EXCEPT !.at = "wait", !.pids = <<p>>]
    BY <1>4
  <2>2. Cmds[1] \in Commands
    <3>1. Cmds \in Seq(Commands)
      BY <1>2, <1>3, ExecuteGoes DEF Cmds
    <3>2. 1 \in 1 .. Len(Cmds)
      BY <1>3
    <3> QED BY <3>1, <3>2, SeqElement
  <2>3. sh.ends \in SUBSET Ends /\ NoPipe \in Descriptor
    BY <1>2 DEF ShellRecord, Descriptor
  <2>4. /\ Child(Cmds[1], TRUE, NoPipe, sh.ends) \in ProcessRecord
        /\ Child(Cmds[1], TRUE, NoPipe, sh.ends).state = "forked"
        /\ Child(Cmds[1], TRUE, NoPipe, sh.ends).next = NoPipe
    <3> DEFINE x == Child(Cmds[1], TRUE, NoPipe, sh.ends)
    <3>1. x = [NoProc EXCEPT !.state = "forked", !.cmd = Cmds[1], !.basic = TRUE,
                      !.in = sh.in, !.out = sh.out, !.ends = sh.ends,
                      !.prev = sh.prev, !.next = NoPipe, !.unread = sh.unread]
      BY DEF Child
    <3> HIDE DEF x
    <3>2. x \in ProcessRecord /\ x.state = "forked" /\ x.next = NoPipe
      BY <1>2, <2>2, <2>3, <3>1, Inherited, NoProcTyped DEF ProcessRecord
    <3> QED BY <3>2 DEF x
  <2>5. /\ p \in Pids /\ proc' \in [Pids -> ProcessRecord]
        /\ ForkedHasEnds' /\ Unreaped' = Unreaped \cup {p}
    BY <2>1, <2>4, ForkChanges
  <2>6. /\ sh' \in ShellRecord /\ sh'.at = "wait" /\ sh'.pids = <<p>>
        /\ sh'.line = sh.line /\ sh'.unread = sh.unread /\ sh'.out = sh.out
        /\ sh'.ends = sh.ends
    <3>1. <<p>> \in Seq(Pids)
      BY <2>5
    <3> QED BY <1>2, <2>1, <3>1 DEF ShellRecord
  <2>7. ShellTypeOK'
    BY <1>1, <1>4, <2>5, <2>6 DEF IInv, ShellTypeOK
  <2>8. Placed'
    BY <1>1, <1>3, <2>6 DEF IInv, Placed
  <2>9. Clean'
    BY <1>1, <2>5, <2>6 DEF IInv, Clean
  <2>10. PipelineReaped'
    BY <2>6 DEF PipelineReaped
  <2>11. Captured' /\ NobodyWrites'
    BY <1>1, <2>6, CaptureKept DEF IInv
  <2> QED BY <2>5, <2>7, <2>8, <2>9, <2>10, <2>11 DEF IInv
<1>5. CASE Fails(FreePids) /\ Go("returned") /\ UNCHANGED proc
  <2>1. failures' \in 0 .. MaxFailures
    BY <1>2, <1>5, FailsTyped
  <2>2. /\ sh' \in ShellRecord /\ sh'.at = "returned"
        /\ sh'.line = sh.line /\ sh'.unread = sh.unread /\ sh'.out = sh.out
        /\ sh'.ends = sh.ends /\ sh'.i = sh.i /\ sh'.pids = sh.pids
    BY <1>2, <1>5, GoTyped
  <2>3. Len(Cmds') = 1
    BY <1>1, <1>3, <2>2 DEF Cmds
  <2>4. ShellTypeOK'
    BY <1>1, <1>5, <2>1, <2>2 DEF IInv, ShellTypeOK
  <2>5. Placed' /\ Clean'
    BY <1>1, <1>5, <2>2 DEF IInv, Placed, Clean, Unreaped
  <2>6. PipelineReaped' /\ ForkedHasEnds'
    <3>1. ~(Len(Cmds') > 1)
      BY <2>3
    <3>2. ~(Len(sh'.pids) > 1 /\ Len(sh'.pids) = Len(Cmds'))
      BY <3>1, Zenon
    <3> QED BY <1>5, <3>2 DEF IInv, PipelineReaped, ForkedHasEnds
  <2>7. Captured' /\ NobodyWrites'
    BY <1>1, <2>2, CaptureKept DEF IInv
  <2> QED BY <2>4, <2>5, <2>6, <2>7 DEF IInv
<1> QED BY <1>4, <1>5 DEF ForkBasic

LEMMA WaitBasicStep ==
  ASSUME IInv, WaitBasic  PROVE IInv'
<1>1. /\ sh.at = "wait" /\ Go("returned")
      /\ UNCHANGED <<caller, pipe, script, failures, gave_up, rewound>>
  BY DEF WaitBasic
<1>2. PICK p \in Pids :
        proc[p].state = "zombie" /\ proc' = [proc EXCEPT ![p] = NoProc]
  BY DEF WaitBasic
<1>3. /\ proc' \in [Pids -> ProcessRecord] /\ ForkedHasEnds'
      /\ Unreaped' = Unreaped \ {p} /\ p \in Unreaped
  BY <1>2, WaitChanges DEF Unreaped
<1>4. sh \in ShellRecord /\ Len(sh.pids) = 1
  BY <1>1 DEF IInv, ShellTypeOK, Placed
<1>5. /\ sh' \in ShellRecord /\ sh'.at = "returned"
      /\ sh'.line = sh.line /\ sh'.unread = sh.unread /\ sh'.out = sh.out
      /\ sh'.ends = sh.ends /\ sh'.pids = sh.pids
  BY <1>1, <1>4, GoTyped
<1>6. ShellTypeOK'
  BY <1>1, <1>3, <1>5 DEF IInv, ShellTypeOK
<1>7. Placed'
  BY <1>1, <1>5 DEF IInv, Placed
<1>8. Clean'
  BY <1>1, <1>3, <1>5 DEF IInv, Clean
<1>9. PipelineReaped'
  <2>1. ~(Len(sh.pids) > 1)
    BY <1>4
  <2>2. ~(Len(sh'.pids) > 1)
    BY <1>5, <2>1, Zenon
  <2> QED BY <2>2 DEF PipelineReaped
<1>10. Captured' /\ NobodyWrites'
  BY <1>1, <1>5, CaptureKept DEF IInv
<1> QED BY <1>3, <1>6, <1>7, <1>8, <1>9, <1>10 DEF IInv

(* execute_pipeline returns early, with the pipe ends in open.             *)
LEMMA GiveUpStep ==
  ASSUME PipelineAssumption, IInv, sh.at = "stage", NEW open \in SUBSET Ends,
         GiveUp(open), failures' \in 0 .. MaxFailures,
         UNCHANGED <<caller, script, rewound>>
  PROVE  IInv'
<1>1. /\ sh' = [sh EXCEPT !.at = "returned", !.ends = open]
      /\ gave_up' = (gave_up \/ sh.i > 1 \/ open # {}) /\ UNCHANGED <<proc, pipe>>
  BY DEF GiveUp
<1>2. /\ sh \in ShellRecord /\ gave_up \in BOOLEAN
      /\ sh.i \in 1 .. Len(Cmds) /\ Len(sh.pids) = sh.i - 1
      /\ script \in ScriptRecord /\ sh.line \in 1 .. Len(script.lines)
  BY DEF IInv, ShellTypeOK, Placed
<1>3. Len(Cmds) \in Nat
  <2>1. Cmds \in Seq(Commands)
    BY <1>2, ExecuteGoes DEF Cmds
  <2> QED BY <2>1
<1>4. /\ sh' \in ShellRecord /\ sh'.at = "returned" /\ sh'.ends = open
      /\ sh'.line = sh.line /\ sh'.unread = sh.unread /\ sh'.out = sh.out
      /\ sh'.i = sh.i /\ sh'.pids = sh.pids
  BY <1>1, <1>2 DEF ShellRecord
<1>5. Cmds' = Cmds
  BY <1>4 DEF Cmds
<1>6. ShellTypeOK'
  BY <1>1, <1>2, <1>4 DEF IInv, ShellTypeOK
<1>7. Placed'
  BY <1>4 DEF IInv, Placed
<1>8. Clean'
  <2> SUFFICES ASSUME ~gave_up'  PROVE sh'.ends = {} /\ Unreaped' = {}
    BY <1>4 DEF Clean
  <2>1. ~gave_up /\ ~(sh.i > 1) /\ open = {}
    BY <1>1, <1>2
  <2>2. Len(sh.pids) = 0
    BY <1>2, <1>3, <2>1
  <2>3. \A p \in Unreaped : \E j \in 1 .. Len(sh.pids) : sh.pids[j] = p
    BY <2>1 DEF IInv, Clean
  <2>4. Unreaped = {}
    BY <2>2, <2>3
  <2> QED BY <1>1, <1>4, <2>1, <2>4 DEF Unreaped
<1>9. PipelineReaped'
  <2>1. ~(Len(sh.pids) = Len(Cmds))
    BY <1>2, <1>3
  <2> QED BY <1>4, <1>5, <2>1 DEF PipelineReaped
<1>10. ForkedHasEnds'
  BY <1>1 DEF IInv, ForkedHasEnds
<1>11. Captured' /\ NobodyWrites'
  BY <1>4, CaptureKept DEF IInv
<1> QED BY <1>6, <1>7, <1>8, <1>9, <1>10, <1>11 DEF IInv

LEMMA StageStep ==
  ASSUME PipelineAssumption, IInv, Stage  PROVE IInv'
<1>1. sh.at = "stage" /\ UNCHANGED <<caller, script, rewound>>
  BY DEF Stage
<1>2. /\ sh \in ShellRecord /\ script \in ScriptRecord /\ failures \in 0 .. MaxFailures
      /\ sh.i \in 1 .. Len(Cmds) /\ Len(sh.pids) = sh.i - 1
      /\ sh.line \in 1 .. Len(script.lines) /\ pipe \in [Pipes -> 0 .. PipeSize]
  BY <1>1 DEF IInv, ShellTypeOK, Placed
<1>3. /\ sh.ends \in SUBSET Ends /\ sh.pids \in Seq(Pids) /\ sh.prev \in Descriptor
      /\ sh.i \in Nat
  BY <1>2 DEF ShellRecord
<1>4. Cmds \in Seq(Commands) /\ Cmds[sh.i] \in Commands /\ Len(Cmds) \in Nat
  <2>1. Cmds \in Seq(Commands)
    BY <1>2, ExecuteGoes DEF Cmds
  <2> QED BY <1>2, <2>1, SeqElement
<1>5. CASE /\ sh.i < Len(Cmds)
           /\ Fails(FreePipes) /\ GiveUp(sh.ends)
  BY <1>1, <1>2, <1>3, <1>5, FailsTyped, GiveUpStep
<1>6. CASE ~(sh.i < Len(Cmds) /\ Fails(FreePipes) /\ GiveUp(sh.ends))
  <2> DEFINE ends(n) == sh.ends \cup (IF n = NoPipe THEN {} ELSE {R(n), W(n)})
  <2>1. PICK next \in IF sh.i = Len(Cmds) THEN {NoPipe} ELSE Lowest(FreePipes) :
          \/ Fails(FreePids) /\ GiveUp(ends(next))
          \/ /\ \E p \in Lowest(FreePids) :
                  /\ proc' = [proc EXCEPT ![p] = Child(Cmds[sh.i], FALSE, next, ends(next))]
                  /\ sh' = [sh EXCEPT !.at = "close", !.ends = ends(next), !.next = next,
                                      !.pids = Append(@, p)]
             /\ pipe' = [k \in DOMAIN pipe |-> IF k = next THEN 0 ELSE pipe[k]]
             /\ UNCHANGED <<failures, gave_up>>
    BY <1>6 DEF Stage
  <2>2. /\ next \in Descriptor
        /\ next = NoPipe <=> sh.i = Len(Cmds)
        /\ next # NoPipe => next \in Pipes /\ next \in FreePipes
    BY <2>1 DEF Descriptor, Lowest, FreePipes, PipelineAssumption
  <2>3. ends(next) \in SUBSET Ends
    BY <1>3, <2>2 DEF Ends, R, W
  <2>4. next # NoPipe => W(next) \in ends(next)
    OBVIOUS
  <2>5. ASSUME ~gave_up
        PROVE  /\ ends(next) = (IF sh.prev = NoPipe THEN {} ELSE {R(sh.prev)})
                               \cup (IF next = NoPipe THEN {} ELSE {R(next), W(next)})
               /\ sh.prev = next => sh.prev = NoPipe
    <3>1. sh.ends = IF sh.prev = NoPipe THEN {} ELSE {R(sh.prev)}
      BY <1>1, <2>5 DEF IInv, Clean
    <3>2. next # NoPipe => R(next) \notin sh.ends
      BY <1>1, <2>2 DEF FreePipes, OpenEnds
    <3> QED BY <3>1, <3>2
  <2> HIDE DEF ends
  <2>6. CASE Fails(FreePids) /\ GiveUp(ends(next))
    BY <1>1, <1>2, <2>3, <2>6, FailsTyped, GiveUpStep
  <2>7. CASE /\ \E p \in Lowest(FreePids) :
                  /\ proc' = [proc EXCEPT ![p] = Child(Cmds[sh.i], FALSE, next, ends(next))]
                  /\ sh' = [sh EXCEPT !.at = "close", !.ends = ends(next), !.next = next,
                                      !.pids = Append(@, p)]
             /\ pipe' = [k \in DOMAIN pipe |-> IF k = next THEN 0 ELSE pipe[k]]
             /\ UNCHANGED <<failures, gave_up>>
    <3>1. PICK p \in Lowest(FreePids) :
            /\ proc' = [proc EXCEPT ![p] = Child(Cmds[sh.i], FALSE, next, ends(next))]
            /\ sh' = [sh EXCEPT !.at = "close", !.ends = ends(next), !.next = next,
                                !.pids = Append(@, p)]
      BY <2>7
    <3>2. /\ Child(Cmds[sh.i], FALSE, next, ends(next)) \in ProcessRecord
          /\ Child(Cmds[sh.i], FALSE, next, ends(next)).state = "forked"
          /\ Child(Cmds[sh.i], FALSE, next, ends(next)).next = next
          /\ Child(Cmds[sh.i], FALSE, next, ends(next)).ends = ends(next)
      <4> DEFINE x == Child(Cmds[sh.i], FALSE, next, ends(next))
                 open == ends(next)
      <4>1. x = [NoProc EXCEPT !.state = "forked", !.cmd = Cmds[sh.i], !.basic = FALSE,
                        !.in = sh.in, !.out = sh.out, !.ends = open,
                        !.prev = sh.prev, !.next = next, !.unread = sh.unread]
        BY DEF Child
      <4>2. open \in SUBSET Ends
        BY <2>3
      <4> HIDE DEF x, open
      <4>3. x \in ProcessRecord /\ x.state = "forked" /\ x.next = next /\ x.ends = open
        <5>1. sh \in ShellRecord /\ Cmds[sh.i] \in Commands
          BY <1>2, <1>4
        <5> QED BY <2>2, <4>1, <4>2, <5>1, Inherited, NoProcTyped DEF ProcessRecord
      <4> QED BY <4>3 DEF x, open
    <3>3. /\ p \in Pids /\ proc' \in [Pids -> ProcessRecord]
          /\ ForkedHasEnds' /\ Unreaped' = Unreaped \cup {p}
      <4> DEFINE x == Child(Cmds[sh.i], FALSE, next, ends(next))
      <4>1. /\ x \in ProcessRecord /\ x.state = "forked"
            /\ proc' = [proc EXCEPT ![p] = x]
            /\ x.next # NoPipe => W(x.next) \in x.ends
        BY <2>4, <3>1, <3>2
      <4> HIDE DEF x
      <4> QED BY <4>1, ForkChanges
    <3>4. /\ Append(sh.pids, p) \in Seq(Pids) /\ Len(Append(sh.pids, p)) = sh.i
          /\ Append(sh.pids, p)[sh.i] = p
          /\ \A j \in 1 .. Len(sh.pids) : Append(sh.pids, p)[j] = sh.pids[j]
      BY <1>2, <1>3, <3>3
    <3>5. /\ sh' \in ShellRecord /\ sh'.at = "close" /\ sh'.ends = ends(next)
          /\ sh'.next = next /\ sh'.prev = sh.prev /\ sh'.pids = Append(sh.pids, p)
          /\ sh'.line = sh.line /\ sh'.unread = sh.unread /\ sh'.out = sh.out
          /\ sh'.i = sh.i
      BY <1>2, <2>2, <2>3, <3>1, <3>4 DEF ShellRecord
    <3>6. Cmds' = Cmds
      BY <1>1, <3>5 DEF Cmds
    <3>7. pipe' \in [Pipes -> 0 .. PipeSize]
      BY <1>2, <2>7 DEF PipelineAssumption
    <3>8. ShellTypeOK'
      BY <1>1, <2>7, <3>3, <3>5, <3>7 DEF IInv, ShellTypeOK
    <3>9. Placed'
      BY <1>1, <1>2, <2>2, <3>4, <3>5, <3>6 DEF IInv, Placed
    <3>10. Clean'
      <4> SUFFICES ASSUME ~gave_up
                   PROVE  \A q \in Unreaped' : \E j \in 1 .. sh.i : Append(sh.pids, p)[j] = q
        BY <2>5, <2>7, <3>4, <3>5 DEF Clean
      <4> SUFFICES ASSUME NEW q \in Unreaped'
                   PROVE  \E j \in 1 .. sh.i : Append(sh.pids, p)[j] = q
        OBVIOUS
      <4>1. CASE q = p
        BY <1>2, <1>4, <3>4, <4>1
      <4>2. CASE q \in Unreaped
        <5>1. PICK j \in 1 .. Len(sh.pids) : sh.pids[j] = q
          BY <1>1, <4>2 DEF IInv, Clean
        <5> QED BY <1>2, <1>3, <3>4, <5>1
      <4> QED BY <3>3, <4>1, <4>2
    <3>11. PipelineReaped'
      BY <3>5 DEF PipelineReaped
    <3>12. Captured' /\ NobodyWrites'
      BY <1>1, <3>5, CaptureKept DEF IInv
    <3> QED BY <3>3, <3>8, <3>9, <3>10, <3>11, <3>12 DEF IInv
  <2> QED BY <2>1, <2>6, <2>7
<1> QED BY <1>5, <1>6

LEMMA CloseEndsStep ==
  ASSUME IInv, CloseEnds  PROVE IInv'
<1>1. /\ sh.at = "close"
      /\ sh' = [sh EXCEPT !.ends = @ \ {R(sh.prev), W(sh.next)},
                          !.prev = sh.next, !.next = NoPipe,
                          !.i  = IF @ < Len(Cmds) THEN @ + 1 ELSE 1,
                          !.at = IF sh.i < Len(Cmds) THEN "stage" ELSE "reap"]
      /\ UNCHANGED <<caller, proc, pipe, script, failures, gave_up, rewound>>
  BY DEF CloseEnds, ParentCloses
<1>2. /\ sh \in ShellRecord /\ script \in ScriptRecord /\ sh.line \in 1 .. Len(script.lines)
      /\ sh.i \in 1 .. Len(Cmds) /\ Len(sh.pids) = sh.i
      /\ sh.next = NoPipe <=> sh.i = Len(Cmds)
  BY <1>1 DEF IInv, ShellTypeOK, Placed
<1>3. Len(Cmds) \in Nat /\ sh.i \in Nat /\ sh.ends \in SUBSET Ends /\ sh.next \in Descriptor
      /\ NoPipe \in Descriptor
  <2>1. Cmds \in Seq(Commands)
    BY <1>2, ExecuteGoes DEF Cmds
  <2> QED BY <1>2, <2>1 DEF ShellRecord, Descriptor
<1>4. /\ sh' \in ShellRecord
      /\ sh'.at = IF sh.i < Len(Cmds) THEN "stage" ELSE "reap"
      /\ sh'.i  = IF sh.i < Len(Cmds) THEN sh.i + 1 ELSE 1
      /\ sh'.ends = sh.ends \ {R(sh.prev), W(sh.next)}
      /\ sh'.prev = sh.next /\ sh'.pids = sh.pids
      /\ sh'.line = sh.line /\ sh'.unread = sh.unread /\ sh'.out = sh.out
  <2> DEFINE i  == IF sh.i < Len(Cmds) THEN sh.i + 1 ELSE 1
             at == IF sh.i < Len(Cmds) THEN "stage" ELSE "reap"
             ends == sh.ends \ {R(sh.prev), W(sh.next)}
  <2>1. i \in Nat /\ at \in {"stage", "reap"} /\ ends \in SUBSET Ends
    BY <1>3
  <2>2. sh' = [sh EXCEPT !.ends = ends, !.prev = sh.next, !.next = NoPipe, !.i = i, !.at = at]
    BY <1>1
  <2> HIDE DEF i, at, ends
  <2>3. /\ sh' \in ShellRecord /\ sh'.at = at /\ sh'.i  = i /\ sh'.ends = ends
        /\ sh'.prev = sh.next /\ sh'.pids = sh.pids
        /\ sh'.line = sh.line /\ sh'.unread = sh.unread /\ sh'.out = sh.out
    BY <1>2, <1>3, <2>1, <2>2 DEF ShellRecord
  <2> QED BY <2>3 DEF i, at, ends
<1>5. Cmds' = Cmds
  BY <1>1, <1>4 DEF Cmds
<1>6. ShellTypeOK'
  BY <1>1, <1>4 DEF IInv, ShellTypeOK
<1>7. Placed'
  BY <1>1, <1>2, <1>3, <1>4, <1>5 DEF IInv, Placed
<1>8. Clean'
  <2> SUFFICES ASSUME ~gave_up
               PROVE  /\ sh'.ends = IF sh.next = NoPipe THEN {} ELSE {R(sh.next)}
                      /\ \A p \in Unreaped : \E j \in 1 .. Len(sh.pids) : sh.pids[j] = p
    BY <1>1, <1>2, <1>3, <1>4 DEF Clean, Unreaped
  <2>1. /\ sh.ends = (IF sh.prev = NoPipe THEN {} ELSE {R(sh.prev)})
                     \cup (IF sh.next = NoPipe THEN {} ELSE {R(sh.next), W(sh.next)})
        /\ sh.prev = sh.next => sh.prev = NoPipe
        /\ \A p \in Unreaped : \E j \in 1 .. Len(sh.pids) : sh.pids[j] = p
    BY <1>1 DEF IInv, Clean
  <2>2. sh.next # NoPipe => R(sh.next) \notin {R(sh.prev), W(sh.next)}
    BY <2>1 DEF R, W
  <2> QED BY <1>4, <2>1, <2>2
<1>9. PipelineReaped' /\ ForkedHasEnds'
  BY <1>1, <1>4 DEF IInv, PipelineReaped, ForkedHasEnds
<1>10. Captured' /\ NobodyWrites'
  BY <1>1, <1>4, CaptureKept DEF IInv
<1> QED BY <1>6, <1>7, <1>8, <1>9, <1>10 DEF IInv

LEMMA ReapStep ==
  ASSUME IInv, Reap  PROVE IInv'
<1> DEFINE p == sh.pids[sh.i]
<1>1. /\ sh.at = "reap" /\ proc[p].state = "zombie"
      /\ proc' = [proc EXCEPT ![p] = NoProc]
      /\ sh' = [sh EXCEPT !.i = @ + 1,
                          !.at = IF sh.i < Len(Cmds) THEN "reap" ELSE "returned"]
      /\ UNCHANGED <<caller, pipe, script, failures, gave_up, rewound>>
  BY DEF Reap, Awaited
<1>2. /\ sh \in ShellRecord /\ script \in ScriptRecord /\ sh.line \in 1 .. Len(script.lines)
      /\ sh.i \in 1 .. Len(Cmds) /\ Len(sh.pids) = Len(Cmds)
      /\ \A j \in 1 .. sh.i - 1 : proc[sh.pids[j]].state = "none"
  BY <1>1 DEF IInv, ShellTypeOK, Placed
<1>3. Len(Cmds) \in Nat /\ sh.i \in Nat /\ sh.pids \in Seq(Pids)
  <2>1. Cmds \in Seq(Commands)
    BY <1>2, ExecuteGoes DEF Cmds
  <2> QED BY <1>2, <2>1 DEF ShellRecord
<1>4. p \in Pids /\ \A j \in 1 .. Len(sh.pids) : sh.pids[j] \in Pids
  BY <1>2, <1>3, SeqElement
<1>5. /\ proc' \in [Pids -> ProcessRecord] /\ proc'[p].state = "none"
      /\ \A q \in Pids : proc[q].state = "none" => proc'[q].state = "none"
      /\ ForkedHasEnds' /\ Unreaped' = Unreaped \ {p}
  <2> HIDE DEF p
  <2> QED BY <1>1, <1>4, WaitChanges
<1>6. /\ sh' \in ShellRecord
      /\ sh'.at = IF sh.i < Len(Cmds) THEN "reap" ELSE "returned"
      /\ sh'.i = sh.i + 1 /\ sh'.ends = sh.ends /\ sh'.pids = sh.pids
      /\ sh'.line = sh.line /\ sh'.unread = sh.unread /\ sh'.out = sh.out
  <2> DEFINE at == IF sh.i < Len(Cmds) THEN "reap" ELSE "returned"
  <2>1. sh.i + 1 \in Nat /\ at \in {"reap", "returned"}
    BY <1>3
  <2>2. sh' = [sh EXCEPT !.i = sh.i + 1, !.at = at]
    BY <1>1
  <2> HIDE DEF at
  <2>3. /\ sh' \in ShellRecord /\ sh'.at = at /\ sh'.i = sh.i + 1
        /\ sh'.ends = sh.ends /\ sh'.pids = sh.pids
        /\ sh'.line = sh.line /\ sh'.unread = sh.unread /\ sh'.out = sh.out
    BY <1>2, <2>1, <2>2 DEF ShellRecord
  <2> QED BY <2>3 DEF at
<1>7. Cmds' = Cmds
  BY <1>1, <1>6 DEF Cmds
<1>8. \A j \in 1 .. sh.i : proc'[sh.pids[j]].state = "none"
  <2> TAKE j \in 1 .. sh.i
  <2>1. sh.pids[j] \in Pids
    BY <1>2, <1>3, <1>4
  <2>2. CASE j = sh.i
    BY <1>5, <2>2
  <2>3. CASE j \in 1 .. sh.i - 1
    BY <1>2, <1>5, <2>1, <2>3
  <2> QED BY <1>3, <2>2, <2>3
<1> HIDE DEF p
<1>9. ShellTypeOK'
  BY <1>1, <1>5, <1>6 DEF IInv, ShellTypeOK
<1>10. Placed'
  BY <1>1, <1>2, <1>3, <1>6, <1>7, <1>8 DEF IInv, Placed
<1>11. Clean'
  <2> SUFFICES ASSUME ~gave_up
               PROVE  /\ sh.ends = {}
                      /\ \A q \in Unreaped' : \E j \in sh.i + 1 .. Len(sh.pids) : sh.pids[j] = q
                      /\ ~(sh.i < Len(Cmds)) => Unreaped' = {}
    BY <1>1, <1>6 DEF Clean
  <2>1. sh.ends = {} /\ \A q \in Unreaped : \E j \in sh.i .. Len(sh.pids) : sh.pids[j] = q
    BY <1>1 DEF IInv, Clean
  <2>2. ASSUME NEW q \in Unreaped'
        PROVE  \E j \in sh.i + 1 .. Len(sh.pids) : sh.pids[j] = q
    <3>1. q \in Unreaped /\ q # p
      BY <1>5
    <3>2. PICK j \in sh.i .. Len(sh.pids) : sh.pids[j] = q
      BY <2>1, <3>1
    <3>3. j # sh.i
      BY <3>1, <3>2 DEF p
    <3> QED BY <1>3, <3>2, <3>3
  <2>3. ~(sh.i < Len(Cmds)) => Unreaped' = {}
    BY <1>2, <1>3, <2>2
  <2> QED BY <2>1, <2>2, <2>3
<1>12. PipelineReaped'
  <2> SUFFICES ASSUME sh'.at = "returned", NEW k \in 1 .. Len(sh.pids)
               PROVE  proc'[sh.pids[k]].state = "none"
    BY <1>6 DEF PipelineReaped
  <2>1. k \in 1 .. sh.i
    BY <1>2, <1>3, <1>6
  <2> QED BY <1>8, <2>1
<1>13. Captured' /\ NobodyWrites'
  BY <1>1, <1>6, CaptureKept DEF IInv
<1> QED BY <1>5, <1>9, <1>10, <1>11, <1>12, <1>13 DEF IInv

-----------------------------------------------------------------------------
LEMMA InitIInv ==
  ASSUME PipelineAssumption, ShellInit  PROVE IInv
<1>1. /\ script \in ScriptRecord /\ script.offset <= Len(script.lines)
      /\ script.captured => Len(script.lines) = 1
      /\ Len(script.lines) \in Nat
  <2>1. script \in Scripts
    BY DEF ShellInit
  <2>2. /\ script \in ScriptRecord /\ script.offset <= Len(script.lines)
        /\ script.captured => Len(script.lines) = 1
    BY <2>1, ShellAssumption, Zenon DEF ShellAssumption
  <2>3. Len(script.lines) \in Nat
    BY <2>2 DEF ScriptRecord
  <2> QED BY <2>2, <2>3
<1>2. script.captured \in BOOLEAN
  BY <1>1 DEF ScriptRecord
<1>3. /\ sh = [at |-> IF script.captured THEN "unborn" ELSE "prompt",
               line |-> IF script.captured THEN 1 ELSE 0, unread |-> 0,
               in |-> Given, out |-> Given, ends |-> {},
               i |-> 1, prev |-> NoPipe, next |-> NoPipe, pids |-> <<>>]
      /\ caller = [at |-> IF script.captured THEN "start" ELSE "none",
                   from |-> NoPipe, ends |-> {}, result |-> "none"]
      /\ proc = [p \in Pids |-> NoProc] /\ pipe = [k \in Pipes |-> 0]
      /\ failures = 0 /\ gave_up = FALSE /\ rewound = FALSE
  BY DEF ShellInit
<1>4. /\ NoPipe \in Descriptor /\ <<>> \in Seq(Pids) /\ 0 \in 0 .. PipeSize
      /\ 0 \in 0 .. MaxFailures /\ Len(<<>>) = 0
  BY DEF Descriptor, PipelineAssumption
<1>5. sh \in ShellRecord
  BY <1>2, <1>3, <1>4 DEF ShellRecord
<1>6. caller \in CallerRecord
  BY <1>2, <1>3, <1>4 DEF CallerRecord
<1>7. sh.line <= Len(script.lines) /\ sh.unread <= Len(script.lines)
  BY <1>1, <1>2, <1>3
<1>8. ShellTypeOK
  BY <1>1, <1>3, <1>4, <1>5, <1>6, <1>7, NoProcTyped DEF ShellTypeOK
<1>9. Placed
  <2>1. /\ sh.at \in {"unborn", "prompt"} /\ sh.pids = <<>> /\ sh.i = 1
        /\ sh.prev = NoPipe /\ sh.next = NoPipe
        /\ sh.at = "unborn" => sh.line = 1 /\ Len(script.lines) = 1
        /\ caller.at = "start" => sh.at = "unborn"
    BY <1>1, <1>2, <1>3
  <2>2. sh.at = "unborn" => sh.line \in 1 .. Len(script.lines)
    <3>1. 1 \in 1 .. 1
      OBVIOUS
    <3> QED BY <2>1, <3>1, Zenon
  <2> QED BY <2>1, <2>2 DEF Placed
<1>10. Clean
  BY <1>2, <1>3, NoProcTyped DEF Clean, Unreaped
<1>11. PipelineReaped
  BY <1>2, <1>3 DEF PipelineReaped
<1>12. ForkedHasEnds /\ Captured /\ NobodyWrites
  BY <1>2, <1>3, NoProcTyped DEF ForkedHasEnds, Captured, NobodyWrites
<1> QED BY <1>8, <1>9, <1>10, <1>11, <1>12 DEF IInv

LEMMA NextIInv ==
  ASSUME PipelineAssumption, IInv, [ShellNext]_pipeline_vars  PROVE IInv'
<1>1. CASE ShellStep
  BY <1>1, FgetsLineStep, LineEndStep, ForkBasicStep, WaitBasicStep, StageStep,
     CloseEndsStep, ReapStep DEF ShellStep, RunsLine
<1>2. CASE CallerStep
  BY <1>2, StartCaptureStep, CapturingStep DEF CallerStep
<1>3. CASE \E p \in Pids : Runs(p) \/ ReadsTerminal(p)
  <2>1. PICK p \in Pids : Runs(p) \/ ReadsTerminal(p)
    BY <1>3
  <2>2. ShellTypeOK /\ ForkedHasEnds
    BY DEF IInv
  <2> QED BY <2>1, <2>2, ChildStep, FrameKeeps
<1>4. CASE UNCHANGED pipeline_vars
  BY <1>4 DEF pipeline_vars, IInv, ShellTypeOK, Placed, Clean, PipelineReaped,
     ForkedHasEnds, Captured, NobodyWrites, Unreaped, MayWrite, Alive, Cmds
<1> QED BY <1>1, <1>2, <1>3, <1>4 DEF ShellNext

LEMMA Invariance == ShellSpec => []IInv
BY PipelineAssumption, InitIInv, NextIInv, PTL DEF ShellSpec

-----------------------------------------------------------------------------
(* Every descriptor of the shell and of its children leads somewhere, no   *)
(* pipe is overfull and no read position is beyond the input.              *)
THEOREM ShellTypeCorrect == ShellSpec => []ShellTypeOK
BY Invariance, PTL DEF IInv

(* Unless a pipeline was given up half way, the prompt finds no child that *)
(* was not waited for and no pipe end left open.                           *)
THEOREM PromptComesBackClean == ShellSpec => []PromptIsClean
<1>1. IInv => PromptIsClean
  BY DEF IInv, Clean, PromptIsClean, Unreaped
<1> QED BY <1>1, Invariance, PTL

(* execute_pipeline returns when it has waited for each of its stages,     *)
(* also when stages of earlier pipelines are left.                         *)
THEOREM PipelineIsReaped == ShellSpec => []PipelineReaped
BY Invariance, PTL DEF IInv

(* The output that the capture returns is complete: nothing is left in the *)
(* pipe and no process, started or just forked, can still write to it.     *)
THEOREM CaptureIsComplete == ShellSpec => []CaptureComplete
<1>1. IInv => CaptureComplete
  <2> SUFFICES ASSUME IInv, caller.result = "output"
               PROVE  pipe[caller.from] = 0 /\ W(caller.from) \notin OpenEnds
    BY DEF CaptureComplete
  <2>1. /\ pipe[caller.from] = 0 /\ caller.ends = {} /\ sh.at = "ended"
        /\ \A p \in Pids : ~MayWrite(p, caller.from)
    BY DEF IInv, NobodyWrites
  <2>2. \A p \in Pids : Alive(p) => W(caller.from) \notin Streams(proc[p]) \cup proc[p].ends
    BY <2>1 DEF MayWrite, Streams, W, R
  <2> QED BY <2>1, <2>2 DEF OpenEnds
<1> QED BY <1>1, Invariance, PTL

-----------------------------------------------------------------------------
(* Where the read position is, while no child has moved it back: stdio has *)
(* what it read ahead of a file, and a terminal gives one line at a time.  *)
InPosition ==
  /\ script.captured => sh.at # "prompt"
  /\ ~rewound /\ ~script.captured =>
       IF script.kind = "tty"
       THEN sh.unread = 0 /\ sh.line <= script.offset
       ELSE \/ sh.unread = 0 /\ script.offset = sh.line
            \/ /\ script.offset = Len(script.lines)
               /\ sh.unread > 0 => sh.line + sh.unread = Len(script.lines)

LEMMA PositionTypes ==
  ASSUME IInv
  PROVE  /\ sh \in ShellRecord /\ script \in ScriptRecord
         /\ sh.line \in Nat /\ sh.unread \in Nat /\ sh.i \in Nat
         /\ script.offset \in Nat /\ Len(script.lines) \in Nat
         /\ sh.unread <= Len(script.lines) /\ script.offset <= Len(script.lines)
BY DEF IInv, ShellTypeOK, ShellRecord, ScriptRecord

(* The next line, and what is left of the input then.                      *)
LEMMA NextLineInOrder ==
  ASSUME IInv, InPosition, FgetsLine
  PROVE  /\ InPosition'
         /\ ~rewound => /\ sh'.line > sh.line
                        /\ script.kind # "tty" => sh'.line = sh.line + 1
<1> DEFINE n == (IF sh.unread > 0 THEN Len(script.lines) - sh.unread
                 ELSE script.offset) + 1
<1>1. /\ sh.at = "prompt" /\ n <= Len(script.lines)
      /\ sh' = [sh EXCEPT !.line = n, !.unread = ReadAhead(n), !.at = Execute(n),
                          !.i = 1, !.prev = NoPipe, !.next = NoPipe, !.pids = <<>>]
      /\ script' = IF sh.unread > 0 THEN script
                   ELSE [script EXCEPT !.offset = n + ReadAhead(n)]
      /\ UNCHANGED rewound
  BY DEF FgetsLine
<1>2. ~script.captured
  BY <1>1 DEF InPosition
<1>3. n \in 1 .. Len(script.lines)
  BY <1>1, PositionTypes
<1>4. sh'.line = n /\ sh'.unread = ReadAhead(n)
  <2> HIDE DEF n
  <2> QED BY <1>1, PositionTypes DEF ShellRecord
<1>5. /\ script'.kind = script.kind /\ script'.lines = script.lines
      /\ script'.captured = script.captured
      /\ script'.offset = IF sh.unread > 0 THEN script.offset ELSE n + ReadAhead(n)
  <2> HIDE DEF n
  <2> QED BY <1>1, PositionTypes DEF ScriptRecord
<1>6. ~rewound => /\ n > sh.line
                  /\ script.kind # "tty" => n = sh.line + 1
  BY <1>2, <1>3, PositionTypes DEF InPosition
<1>7. ~rewound /\ script.kind = "tty" =>
        ReadAhead(n) = 0 /\ script'.offset = n
  BY <1>2, <1>3, <1>5 DEF ReadAhead, InPosition
<1>8. ~rewound /\ script.kind # "tty" =>
        /\ script'.offset = Len(script.lines)
        /\ n + ReadAhead(n) = Len(script.lines)
  BY <1>2, <1>3, <1>5, PositionTypes DEF ReadAhead, InPosition
<1>9. sh'.at # "prompt"
  BY <1>1, <1>3, PositionTypes, ExecuteGoes DEF ShellRecord
<1>10. InPosition'
  <2>1. CASE rewound
    BY <1>1, <1>2, <1>5, <2>1 DEF InPosition
  <2>2. CASE ~rewound /\ script.kind = "tty"
    BY <1>1, <1>3, <1>4, <1>5, <1>7, <1>9, <2>2 DEF InPosition
  <2>3. CASE ~rewound /\ script.kind # "tty"
    <3> HIDE DEF n
    <3> QED BY <1>2, <1>4, <1>5, <1>8, <1>9, <2>3 DEF InPosition
  <2> QED BY <2>1, <2>2, <2>3
<1> QED BY <1>4, <1>6, <1>10

(* No other step of the shell or of its caller touches the position.       *)
LEMMA PositionKept ==
  ASSUME InPosition, UNCHANGED <<script, rewound>>,
         sh'.line = sh.line, sh'.unread = sh.unread,
         script.captured => sh'.at # "prompt"
  PROVE  InPosition'
BY DEF InPosition

LEMMA ChildPosition ==
  ASSUME IInv, InPosition, NEW p \in Pids, Runs(p) \/ ReadsTerminal(p)
  PROVE  InPosition'
<1> USE PositionTypes
<1>1. UNCHANGED sh
  BY DEF Runs, Exec, StartFails, ReadsPipe, ReadsFile, ReadsTerminal, Writes, Exits
<1>2. \/ UNCHANGED <<script, rewound>>
      \/ /\ rewound' = TRUE
         /\ script' = [script EXCEPT !.offset = script.offset - proc[p].unread]
      \/ /\ rewound' = rewound /\ script.kind # "tty"
         /\ script' = [script EXCEPT !.offset = Len(script.lines)]
      \/ /\ rewound' = rewound /\ script.kind = "tty"
         /\ script' = [script EXCEPT !.offset = script.offset + 1]
  <2>1. CASE StartFails(p)
    <3>1. CASE Exit(proc[p])
      <4>1. rewound \in BOOLEAN
        BY DEF IInv, ShellTypeOK
      <4>2. CASE script' = script
        BY <3>1, <4>1, <4>2 DEF Exit
      <4>3. CASE script' # script
        BY <3>1, <4>3 DEF Exit, GiveBack
      <4> QED BY <4>2, <4>3
    <3>2. CASE UnderscoreExit(proc[p])
      BY <3>2 DEF UnderscoreExit
    <3> QED BY <2>1, <3>1, <3>2 DEF StartFails
  <2>2. CASE Exec(p) \/ ReadsPipe(p) \/ Writes(p) \/ Exits(p)
    BY <2>2 DEF Exec, ReadsPipe, Writes, Exits
  <2>3. CASE ReadsFile(p)
    BY <2>3 DEF ReadsFile
  <2>4. CASE ReadsTerminal(p)
    BY <2>4 DEF ReadsTerminal
  <2> QED BY <2>1, <2>2, <2>3, <2>4 DEF Runs
<1>3. CASE UNCHANGED <<script, rewound>>
  BY <1>1, <1>3, PositionKept DEF InPosition
<1>4. ASSUME NEW n, script' = [script EXCEPT !.offset = n]
      PROVE  /\ script'.kind = script.kind /\ script'.lines = script.lines
             /\ script'.captured = script.captured /\ script'.offset = n
  BY <1>4 DEF ScriptRecord
<1>5. CASE /\ rewound' = TRUE
           /\ script' = [script EXCEPT !.offset = script.offset - proc[p].unread]
  BY <1>1, <1>4, <1>5 DEF InPosition
<1>6. CASE /\ rewound' = rewound /\ script.kind # "tty"
           /\ script' = [script EXCEPT !.offset = Len(script.lines)]
  BY <1>1, <1>4, <1>6 DEF InPosition
<1>7. CASE /\ rewound' = rewound /\ script.kind = "tty"
           /\ script' = [script EXCEPT !.offset = script.offset + 1]
  <2>1. script.captured' = script.captured
    BY <1>4, <1>7
  <2> QED BY <1>1, <1>4, <1>7 DEF InPosition
<1> QED BY <1>2, <1>3, <1>5, <1>6, <1>7

LEMMA PositionStep ==
  ASSUME IInv, InPosition, [ShellNext]_pipeline_vars  PROVE InPosition'
<1>1. CASE FgetsLine
  BY <1>1, NextLineInOrder
<1>2. CASE FgetsEnd \/ LineDone \/ ForkBasic \/ WaitBasic \/ Stage \/ CloseEnds \/ Reap
  <2>1. /\ UNCHANGED <<script, rewound>> /\ sh'.line = sh.line /\ sh'.unread = sh.unread
        /\ script.captured => sh'.at # "prompt"
    <3>1. CASE FgetsEnd \/ LineDone \/ WaitBasic
      BY <3>1, PositionTypes DEF FgetsEnd, LineDone, WaitBasic, Go, ShellRecord
    <3>2. CASE ForkBasic
      BY <3>2, PositionTypes DEF ForkBasic, Go, ShellRecord
    <3>3. CASE Stage
      BY <3>3, PositionTypes DEF Stage, GiveUp, ShellRecord
    <3>4. CASE CloseEnds \/ Reap
      BY <3>4, PositionTypes DEF CloseEnds, Reap, ShellRecord
    <3> QED BY <1>2, <3>1, <3>2, <3>3, <3>4
  <2> QED BY <2>1, PositionKept
<1>3. CASE StartCapture
  <2>1. /\ UNCHANGED <<script, rewound>> /\ sh'.line = sh.line /\ sh'.unread = sh.unread
        /\ sh'.at # "prompt"
    <3>1. caller.at = "start" /\ sh.at = "unborn" /\ sh.line \in 1 .. Len(script.lines)
      BY <1>3 DEF StartCapture, IInv, Placed
    <3>2. Execute(sh.line) # "prompt"
      BY <3>1, PositionTypes, ExecuteGoes
    <3> QED BY <1>3, <3>1, <3>2, PositionTypes DEF StartCapture, ShellRecord
  <2> QED BY <2>1, PositionKept
<1>4. CASE ReadChunk \/ ReadEnd \/ WaitForShell \/ UNCHANGED pipeline_vars
  <2>1. UNCHANGED <<sh, script, rewound>>
    BY <1>4 DEF ReadChunk, ReadEnd, WaitForShell, pipeline_vars
  <2> QED BY <2>1, PositionKept DEF InPosition
<1>5. CASE \E p \in Pids : Runs(p) \/ ReadsTerminal(p)
  BY <1>5, ChildPosition
<1> QED BY <1>1, <1>2, <1>3, <1>4, <1>5 DEF ShellNext, ShellStep, CallerStep, RunsLine

LEMMA InitPosition ==
  ASSUME ShellInit  PROVE InPosition
<1>1. script \in Scripts
  BY DEF ShellInit
<1>2. /\ script \in ScriptRecord
      /\ ~script.captured => script.offset = 0
  BY <1>1, ShellAssumption, Zenon DEF ShellAssumption
<1>3. /\ sh.line = IF script.captured THEN 1 ELSE 0
      /\ sh.at = IF script.captured THEN "unborn" ELSE "prompt"
      /\ sh.unread = 0
  BY DEF ShellInit
<1> QED BY <1>2, <1>3 DEF InPosition

(* Until a child gives back what stdio had read ahead, the shell runs the  *)
(* lines of its input once each and in order.                              *)
THEOREM LinesAreInOrder == ShellSpec => LinesInOrder
<1>1. IInv /\ InPosition /\ [ShellNext]_pipeline_vars =>
        [FgetsLine /\ ~rewound =>
           /\ sh'.line > sh.line
           /\ script.kind # "tty" => sh'.line = sh.line + 1]_pipeline_vars
  BY NextLineInOrder
<1>2. IInv /\ InPosition /\ [ShellNext]_pipeline_vars => InPosition'
  BY PositionStep
<1>3. ShellInit => InPosition
  BY InitPosition
<1> QED BY <1>1, <1>2, <1>3, Invariance, PTL DEF ShellSpec, LinesInOrder

=============================================================================
