------------------------------- MODULE Shell -------------------------------
(***************************************************************************)
(* The two front ends of src/src/shell_core.c, which share                  *)
(* shell_execute_line: the loop of the local shell, and the shell process   *)
(* that the server starts for one line and whose output it captures.        *)
(***************************************************************************)
EXTENDS Pipeline

CONSTANT Scripts  \* what the shell may be given to run

(* A script: the kind of the standard input ("file"; "pipe"; "tty", the    *)
(* terminal) and its lines.  All lines of a script have the same length,   *)
(* so that offset counts lines.  A line says whether it is "exit", and the *)
(* commands that parse_line makes of it, none if it rejects the line.  A   *)
(* script of kind "line" is the one line that the server was sent; its     *)
(* standard input is the server's terminal.                                *)
Script(kind, lines) ==
  [kind |-> IF kind = "line" THEN "tty" ELSE kind, captured |-> kind = "line",
   lines |-> lines, offset |-> IF kind = "line" THEN Len(lines) ELSE 0]

Line(cmds) == [exit |-> FALSE, cmds |-> cmds]
ExitLine   == [exit |-> TRUE, cmds |-> <<>>]

Redirections == {"none", "file", "error"}

Commands ==
  [in : Redirections, out : Redirections, found : BOOLEAN, reads : BOOLEAN,
   writes : Nat]

ScriptRecord ==
  [kind : {"file", "pipe", "tty"}, captured : BOOLEAN,
   lines : Seq([exit : BOOLEAN, cmds : Seq(Commands)]), offset : Nat]

ASSUME ShellAssumption ==
  /\ Scripts \subseteq ScriptRecord
  /\ \A s \in Scripts :
       /\ s.offset <= Len(s.lines)
       /\ IF s.captured THEN Len(s.lines) = 1 ELSE s.offset = 0

ShellInit ==
  /\ script \in Scripts
  /\ sh = [at |-> IF script.captured THEN "unborn" ELSE "prompt",
           line |-> IF script.captured THEN 1 ELSE 0, unread |-> 0,
           in |-> Given, out |-> Given, ends |-> {},
           i |-> 1, prev |-> NoPipe, next |-> NoPipe, pids |-> <<>>]
  /\ caller = [at |-> IF script.captured THEN "start" ELSE "none",
               from |-> NoPipe, ends |-> {}, result |-> "none"]
  /\ proc = [p \in Pids |-> NoProc]
  /\ pipe = [k \in Pipes |-> 0]
  /\ failures = 0 /\ gave_up = FALSE /\ rewound = FALSE

-----------------------------------------------------------------------------
(* Where shell_execute_line goes with line n of the script.                *)
Execute(n) ==
  CASE script.lines[n].exit           -> "ended"
    [] Len(script.lines[n].cmds) = 1  -> "basic"
    [] Len(script.lines[n].cmds) > 1  -> "stage"
    [] OTHER                          -> "returned"

(* Faulty: counts the line that is being run as well.                      *)
ReadAheadFaulty(n) == IF script.kind = "tty" THEN 0 ELSE Len(script.lines)

(* shell_run_interactive: stdio reads ahead, from a terminal one line and  *)
(* from a file or a pipe all there is.                                     *)
ReadAhead(n) == IF script.kind = "tty" THEN 0 ELSE Len(script.lines) - n

FgetsLine ==
  /\ sh.at = "prompt"
  /\ LET n == (IF sh.unread > 0 THEN Len(script.lines) - sh.unread
               ELSE script.offset) + 1
     IN
     /\ n <= Len(script.lines)
     /\ sh' = [sh EXCEPT !.line = n, !.unread = ReadAhead(n), !.at = Execute(n),
                         !.i = 1, !.prev = NoPipe, !.next = NoPipe, !.pids = <<>>]
     /\ script' = IF sh.unread > 0 THEN script
                  ELSE [script EXCEPT !.offset = n + ReadAhead(n)]
  /\ UNCHANGED <<caller, proc, pipe, failures, gave_up, rewound>>

FgetsEnd ==
  /\ sh.at = "prompt" /\ sh.unread = 0 /\ script.offset = Len(script.lines)
  /\ Go("ended")
  /\ UNCHANGED <<caller, proc, pipe, script, failures, gave_up, rewound>>

(* The local shell prompts again; the captured one ends.                   *)
LineDone ==
  /\ sh.at = "returned"
  /\ Go(IF script.captured THEN "ended" ELSE "prompt")
  /\ UNCHANGED <<caller, proc, pipe, script, failures, gave_up, rewound>>

-----------------------------------------------------------------------------
(* shell_execute_line_capture, in the server.  The loop that reads runs    *)
(* once per chunk.                                                         *)

CallerAt(place, ends, result) ==
  caller' = [caller EXCEPT !.at = place, !.ends = ends, !.result = result]

(* pipe, fork and what both processes do before the line is executed.  A   *)
(* failure closes what is open.                                            *)
StartCapture ==
  /\ caller.at = "start"
  /\ \/ Fails(FreePipes) /\ CallerAt("done", {}, "error") /\ UNCHANGED sh
     \/ /\ \E k \in Lowest(FreePipes) :
             /\ caller' = [caller EXCEPT !.at = "read", !.from = k, !.ends = {R(k)}]
             /\ sh' = [sh EXCEPT !.at = Execute(sh.line), !.out = k]
        /\ UNCHANGED failures
  /\ UNCHANGED <<proc, pipe, script, gave_up, rewound>>

ReadChunk ==
  /\ caller.at = "read" /\ pipe[caller.from] > 0
  /\ pipe' = [pipe EXCEPT ![caller.from] = @ - 1]
  /\ \/ UNCHANGED <<caller, failures>>
     \/ (* realloc or read fails *)
        Fails({caller.from}) /\ CallerAt("wait", {}, "error")
  /\ UNCHANGED <<sh, proc, script, gave_up, rewound>>

(* Faulty: the shell process has ended.                                    *)
EndOfOutputFaulty == sh.at = "ended"

EndOfOutput == pipe[caller.from] = 0 /\ W(caller.from) \notin OpenEnds

ReadEnd ==
  /\ caller.at = "read" /\ EndOfOutput
  /\ CallerAt("wait", {}, "output")
  /\ UNCHANGED <<sh, proc, pipe, script, failures, gave_up, rewound>>

(* waitpid; exit status 1 stands for an exit request.                      *)
WaitForShell ==
  /\ caller.at = "wait" /\ sh.at = "ended"
  /\ CallerAt("done", {}, caller.result)
  /\ UNCHANGED <<sh, proc, pipe, script, failures, gave_up, rewound>>

-----------------------------------------------------------------------------
ShellStep == FgetsLine \/ FgetsEnd \/ LineDone \/ RunsLine

CallerStep == StartCapture \/ ReadChunk \/ ReadEnd \/ WaitForShell

ShellNext ==
  \/ ShellStep
  \/ CallerStep
  \/ \E p \in Pids : Runs(p) \/ ReadsTerminal(p)

ShellSpec == ShellInit /\ [][ShellNext]_pipeline_vars

(* Processes run.  Nothing is assumed of the user at the terminal.         *)
ShellFairSpec ==
  /\ ShellSpec
  /\ WF_pipeline_vars(ShellStep) /\ WF_pipeline_vars(CallerStep)
  /\ \A p \in Pids : WF_pipeline_vars(Runs(p))

-----------------------------------------------------------------------------
(* Every process is somewhere in the code, its descriptors lead somewhere, *)
(* no pipe is fuller than it can be and no position beyond the script.     *)
Ends == Pipes \X {"read", "write"}

Descriptor == Pipes \cup {NoPipe}

ShellRecord ==
  [at : {"unborn", "prompt", "basic", "wait", "stage", "close", "reap",
         "returned", "ended"},
   line : Nat, unread : Nat, in : {Given}, out : Pipes \cup {Given},
   ends : SUBSET Ends, i : Nat, prev : Descriptor, next : Descriptor,
   pids : Seq(Pids)]

CallerRecord ==
  [at : {"none", "start", "read", "wait", "done"}, from : Descriptor,
   ends : SUBSET Ends, result : {"none", "output", "error"}]

ProcessRecord ==
  [state : {"none", "forked", "running", "zombie"}, cmd : Commands,
   basic : BOOLEAN, in : Pipes \cup {Given, File}, out : Pipes \cup {Given, File},
   ends : SUBSET Ends, prev : Descriptor, next : Descriptor, unread : Nat,
   wrote : Nat, eof : BOOLEAN]

ShellTypeOK ==
  /\ sh \in ShellRecord /\ caller \in CallerRecord /\ script \in ScriptRecord
  /\ sh.line <= Len(script.lines) /\ sh.unread <= Len(script.lines)
  /\ script.offset <= Len(script.lines)
  /\ proc \in [Pids -> ProcessRecord]
  /\ pipe \in [Pipes -> 0 .. PipeSize]
  /\ failures \in 0 .. MaxFailures /\ gave_up \in BOOLEAN /\ rewound \in BOOLEAN

(* When no pipeline was given up half way, the prompt comes back with      *)
(* every child of the finished line waited for and every pipe end closed:  *)
(* no zombies, no leaked descriptors.                                      *)
PromptIsClean ==
  sh.at = "prompt" /\ ~gave_up =>
    /\ sh.ends = {}
    /\ \A p \in Pids : proc[p].state = "none"

(* execute_pipeline has waited for exactly its own stages when it returns, *)
(* whatever earlier pipelines that were given up have left running.        *)
PipelineReaped ==
  sh.at = "returned" /\ Len(sh.pids) > 1 /\ Len(sh.pids) = Len(Cmds) =>
    \A k \in 1 .. Len(sh.pids) : proc[sh.pids[k]].state = "none"

(* While no child has moved the position of the shared standard input, the *)
(* local shell runs the lines of its input once each and in order; only a  *)
(* program that reads the terminal takes lines away from it.               *)
LinesInOrder ==
  [][FgetsLine /\ ~rewound =>
       /\ sh'.line > sh.line
       /\ script.kind # "tty" => sh'.line = sh.line + 1]_pipeline_vars

(* What exec.c says of the parent, "ensures sequential command execution": *)
(* every line of the input is run once, in order.                          *)
EachLineOnce ==
  [][FgetsLine /\ script.kind # "tty" => sh'.line = sh.line + 1]_pipeline_vars

(* When the capture returns output, nothing is left in the pipe and no     *)
(* process can add to it: the answer is complete, also when a pipeline was *)
(* given up and its stages outlived the shell process.                     *)
CaptureComplete ==
  caller.at = "done" /\ caller.result = "output" =>
    pipe[caller.from] = 0 /\ W(caller.from) \notin OpenEnds

(* The first command reads the terminal.                                   *)
WaitsForUser ==
  /\ script.kind = "tty" /\ Cmds # <<>>
  /\ Cmds[1].reads /\ Cmds[1].in = "none"

(* A line that does not wait for the user is finished at last, and its     *)
(* capture too: no pipe end that is left open makes a reader or the        *)
(* executor, and with it the scheduler, wait for ever.                     *)
CommandReturns ==
  /\ (sh.at \in {"basic", "stage"} /\ ~WaitsForUser) ~> sh.at = "returned"
  /\ (caller.at = "read" /\ ~WaitsForUser) ~> caller.at = "done"

=============================================================================
