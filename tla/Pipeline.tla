------------------------------ MODULE Pipeline ------------------------------
(***************************************************************************)
(* How a shell process runs one parsed line: run_command_basic of           *)
(* src/src/exec.c and execute_pipeline of src/src/pipes.c, with the child   *)
(* processes, the pipes and the descriptors they work on.                   *)
(*                                                                          *)
(* The programs are external code: a program reads its standard input to    *)
(* the end or not at all, writes some chunks to its standard output and     *)
(* exits.  What the chunks hold and what the shell itself prints are left   *)
(* out.                                                                     *)
(***************************************************************************)
EXTENDS Integers, Sequences, FiniteSets

CONSTANTS
  Pids,         \* process ids for children
  Pipes,        \* pipes the kernel can create
  PipeSize,     \* how many chunks a pipe holds
  MaxFailures   \* bound: how many calls fail without need

NoPipe == 0     \* a descriptor variable that is -1

(* Where a standard stream leads, when not to a pipe.                      *)
File  == -1
Given == -2     \* wherever that of the shell or of the server leads

ASSUME PipelineAssumption ==
  /\ Pids \subseteq Nat /\ Pipes \subseteq Nat \ {NoPipe}
  /\ PipeSize \in Nat \ {0} /\ MaxFailures \in Nat

VARIABLES
  sh,         \* the process that runs the shell's code
  caller,     \* the process that captures its output, see Shell
  proc,       \* the children of the shell
  pipe,       \* kernel: how many chunks are in each pipe
  script,     \* what the shell is given to run, see Shell
  failures,   \* how many calls have failed without need
  gave_up,    \* history: a pipeline was given up and left something behind
  rewound     \* history: a child moved the read position of the script

pipeline_vars == <<sh, caller, proc, pipe, script, failures, gave_up, rewound>>

(* A command: its redirections ("none", "file", or "error" for a file that *)
(* cannot be opened), whether execvp finds the program, whether that reads *)
(* its input and how many chunks it writes.                                *)
Command(in, out, found, reads, writes) ==
  [in |-> in, out |-> out, found |-> found, reads |-> reads, writes |-> writes]

(* The two ends of a pipe.                                                 *)
R(k) == <<k, "read">>
W(k) == <<k, "write">>

(* in and out are the standard streams, ends the pipe ends on other        *)
(* descriptors.                                                            *)
NoProc ==
  [state |-> "none", cmd |-> Command("none", "none", FALSE, FALSE, 0),
   basic |-> FALSE, in |-> Given, out |-> Given, ends |-> {},
   prev |-> NoPipe, next |-> NoPipe, unread |-> 0, wrote |-> 0, eof |-> FALSE]

(* "forked": a copy of the shell; "running": the program.                  *)
Alive(p) == proc[p].state \in {"forked", "running"}

Streams(x) ==
  { R(k) : k \in {x.in} \cap Pipes } \cup { W(k) : k \in {x.out} \cap Pipes }

OpenEnds ==
  caller.ends
    \cup (IF sh.at \in {"unborn", "ended"} THEN {} ELSE sh.ends \cup Streams(sh))
    \cup UNION { Streams(proc[p]) \cup proc[p].ends : p \in { q \in Pids : Alive(q) } }

FreePids  == { p \in Pids : proc[p].state = "none" }
FreePipes == { k \in Pipes : {R(k), W(k)} \cap OpenEnds = {} }

(* Which of the free ones the kernel hands out, if there is one.           *)
Lowest(S) == { x \in S : \A y \in S : x <= y }

Cmds == script.lines[sh.line].cmds

Go(place) == sh' = [sh EXCEPT !.at = place]

(* A call fails when there is nothing left to give, and may fail anyway.   *)
Fails(free) ==
  \/ free = {} /\ UNCHANGED failures
  \/ free # {} /\ failures < MaxFailures /\ failures' = failures + 1

(* fork: the child has the shell's streams, its descriptors and what stdio *)
(* has read ahead of its standard input.                                   *)
Child(cmd, basic, next, ends) ==
  [NoProc EXCEPT !.state = "forked", !.cmd = cmd, !.basic = basic,
                 !.in = sh.in, !.out = sh.out, !.ends = ends,
                 !.prev = sh.prev, !.next = next, !.unread = sh.unread]

-----------------------------------------------------------------------------
(* The shell: run_command_basic.                                           *)

ForkBasic ==
  /\ sh.at = "basic"
  /\ \/ /\ \E p \in Lowest(FreePids) :
             /\ proc' = [proc EXCEPT ![p] = Child(Cmds[1], TRUE, NoPipe, sh.ends)]
             /\ sh' = [sh EXCEPT !.at = "wait", !.pids = <<p>>]
        /\ UNCHANGED failures
     \/ Fails(FreePids) /\ Go("returned") /\ UNCHANGED proc
  /\ UNCHANGED <<caller, pipe, script, gave_up, rewound>>

(* wait(NULL): whichever child has ended.                                  *)
WaitBasic ==
  /\ sh.at = "wait"
  /\ \E p \in Pids :
       /\ proc[p].state = "zombie"
       /\ proc' = [proc EXCEPT ![p] = NoProc]
  /\ Go("returned")
  /\ UNCHANGED <<caller, pipe, script, failures, gave_up, rewound>>

-----------------------------------------------------------------------------
(* The shell: execute_pipeline.                                            *)

(* The early returns: nothing is closed and no stage is waited for.        *)
GiveUp(open) ==
  /\ sh' = [sh EXCEPT !.at = "returned", !.ends = open]
  /\ gave_up' = (gave_up \/ sh.i > 1 \/ open # {})
  /\ UNCHANGED <<proc, pipe>>

(* One pass of the loop, up to and with the fork of stage i.               *)
Stage ==
  /\ sh.at = "stage"
  /\ \/ /\ sh.i < Len(Cmds)
        /\ Fails(FreePipes) /\ GiveUp(sh.ends)
     \/ \E next \in IF sh.i = Len(Cmds) THEN {NoPipe}
                    ELSE Lowest(FreePipes) :
          LET ends == sh.ends \cup (IF next = NoPipe THEN {} ELSE {R(next), W(next)})
          IN
          \/ Fails(FreePids) /\ GiveUp(ends)
          \/ /\ \E p \in Lowest(FreePids) :
                  /\ proc' = [proc EXCEPT ![p] = Child(Cmds[sh.i], FALSE, next, ends)]
                  /\ sh' = [sh EXCEPT !.at = "close", !.ends = ends, !.next = next,
                                      !.pids = Append(@, p)]
             /\ pipe' = [k \in DOMAIN pipe |-> IF k = next THEN 0 ELSE pipe[k]]
             /\ UNCHANGED <<failures, gave_up>>
  /\ UNCHANGED <<caller, script, rewound>>

(* Faulty: the shell keeps the write end.                                  *)
ParentClosesFaulty == {R(sh.prev)}

(* Faulty: the shell keeps the read end it has handed on.                  *)
ParentClosesLeaky == {W(sh.next)}

ParentCloses == {R(sh.prev), W(sh.next)}

(* The rest of the pass.                                                   *)
CloseEnds ==
  /\ sh.at = "close"
  /\ sh' = [sh EXCEPT !.ends = @ \ ParentCloses,
                      !.prev = sh.next, !.next = NoPipe,
                      !.i  = IF @ < Len(Cmds) THEN @ + 1 ELSE 1,
                      !.at = IF sh.i < Len(Cmds) THEN "stage" ELSE "reap"]
  /\ UNCHANGED <<caller, proc, pipe, script, failures, gave_up, rewound>>

(* Faulty: wait(NULL), as for a single command.                            *)
AwaitedFaulty == Pids

(* The children that waitpid waits for.                                    *)
Awaited == {sh.pids[sh.i]}

Reap ==
  /\ sh.at = "reap"
  /\ \E p \in Awaited :
       /\ proc[p].state = "zombie"
       /\ proc' = [proc EXCEPT ![p] = NoProc]
  /\ sh' = [sh EXCEPT !.i = @ + 1,
                      !.at = IF sh.i < Len(Cmds) THEN "reap" ELSE "returned"]
  /\ UNCHANGED <<caller, pipe, script, failures, gave_up, rewound>>

-----------------------------------------------------------------------------
(* A child, up to execvp.                                                  *)

Starts(cmd) == cmd.found /\ "error" \notin {cmd.in, cmd.out}

(* dup2 of the pipe ends comes first, so that a redirection wins.          *)
Connected(x) ==
  [x EXCEPT
     !.in  = IF x.cmd.in = "file" THEN File
             ELSE IF x.prev # NoPipe THEN x.prev ELSE @,
     !.out = IF x.cmd.out = "file" THEN File
             ELSE IF x.next # NoPipe THEN x.next ELSE @,
     !.ends = @ \ {R(x.prev), R(x.next), W(x.next)}]

Exec(p) ==
  /\ proc[p].state = "forked"
  /\ Starts(proc[p].cmd)
  /\ proc' = [proc EXCEPT ![p] = [Connected(@) EXCEPT !.state = "running"]]
  /\ UNCHANGED <<sh, caller, pipe, script, failures, gave_up, rewound>>

(* exit() lets stdio give back what it has read ahead of a file: it moves  *)
(* the position of the open file, which the shell shares, back by what     *)
(* this copy of the shell has not used.  A move to before the start of the *)
(* file is refused, as is any move on a freshly opened input file.         *)
GiveBack(x) ==
  IF script.kind = "file" /\ x.cmd.in # "file" /\ script.offset >= x.unread
  THEN script' = [script EXCEPT !.offset = @ - x.unread]
  ELSE UNCHANGED script

Exit(x) == GiveBack(x) /\ rewound' = (rewound \/ script' # script)

(* Faulty: the stages of a pipeline call exit() as well.                   *)
UnderscoreExitFaulty(x) == GiveBack(x) /\ UNCHANGED rewound

(* _exit() leaves stdio alone.                                             *)
UnderscoreExit(x) == UNCHANGED <<script, rewound>>

(* A file cannot be opened or the program is not found.                    *)
StartFails(p) ==
  /\ proc[p].state = "forked"
  /\ ~Starts(proc[p].cmd)
  /\ proc' = [proc EXCEPT ![p].state = "zombie"]
  /\ IF proc[p].basic THEN Exit(proc[p]) ELSE UnderscoreExit(proc[p])
  /\ UNCHANGED <<sh, caller, pipe, failures, gave_up>>

-----------------------------------------------------------------------------
(* Programs.                                                               *)

ReadsPipe(p) ==
  LET x == proc[p] IN
  /\ x.state = "running" /\ x.cmd.reads /\ ~x.eof /\ x.in \in Pipes
  /\ \/ /\ pipe[x.in] > 0
        /\ pipe' = [pipe EXCEPT ![x.in] = @ - 1]
        /\ UNCHANGED proc
     \/ /\ pipe[x.in] = 0 /\ W(x.in) \notin OpenEnds
        /\ proc' = [proc EXCEPT ![p].eof = TRUE]
        /\ UNCHANGED pipe
  /\ UNCHANGED <<sh, caller, script, failures, gave_up, rewound>>

(* A redirected input, or the rest of the shell's own input.               *)
ReadsFile(p) ==
  LET x == proc[p] IN
  /\ x.state = "running" /\ x.cmd.reads /\ ~x.eof
  /\ \/ x.in = File /\ UNCHANGED script
     \/ /\ x.in = Given /\ script.kind # "tty"
        /\ script' = [script EXCEPT !.offset = Len(script.lines)]
  /\ proc' = [proc EXCEPT ![p].eof = TRUE]
  /\ UNCHANGED <<sh, caller, pipe, failures, gave_up, rewound>>

(* The user types a line for the program, or ends its input.               *)
ReadsTerminal(p) ==
  LET x == proc[p] IN
  /\ x.state = "running" /\ x.cmd.reads /\ ~x.eof
  /\ x.in = Given /\ script.kind = "tty"
  /\ \/ /\ script.offset < Len(script.lines)
        /\ script' = [script EXCEPT !.offset = @ + 1]
        /\ UNCHANGED proc
     \/ proc' = [proc EXCEPT ![p].eof = TRUE] /\ UNCHANGED script
  /\ UNCHANGED <<sh, caller, pipe, failures, gave_up, rewound>>

(* A full pipe makes the writer wait; one that nobody can read ends it.    *)
Writes(p) ==
  LET x == proc[p] IN
  /\ x.state = "running" /\ x.wrote < x.cmd.writes
  /\ \/ /\ x.out \in Pipes /\ R(x.out) \in OpenEnds /\ pipe[x.out] < PipeSize
        /\ pipe' = [pipe EXCEPT ![x.out] = @ + 1]
        /\ proc' = [proc EXCEPT ![p].wrote = @ + 1]
     \/ /\ x.out \in Pipes /\ R(x.out) \notin OpenEnds
        /\ proc' = [proc EXCEPT ![p].state = "zombie"]
        /\ UNCHANGED pipe
     \/ /\ x.out \notin Pipes
        /\ proc' = [proc EXCEPT ![p].wrote = @ + 1]
        /\ UNCHANGED pipe
  /\ UNCHANGED <<sh, caller, script, failures, gave_up, rewound>>

Exits(p) ==
  LET x == proc[p] IN
  /\ x.state = "running" /\ x.wrote = x.cmd.writes
  /\ x.cmd.reads => x.eof
  /\ proc' = [proc EXCEPT ![p].state = "zombie"]
  /\ UNCHANGED <<sh, caller, pipe, script, failures, gave_up, rewound>>

-----------------------------------------------------------------------------
RunsLine == ForkBasic \/ WaitBasic \/ Stage \/ CloseEnds \/ Reap

Runs(p) ==
  Exec(p) \/ StartFails(p) \/ ReadsPipe(p) \/ ReadsFile(p) \/ Writes(p) \/ Exits(p)

=============================================================================
