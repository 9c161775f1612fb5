------------------------------- MODULE Server -------------------------------
(***************************************************************************)
(* The server of src/src/server.c around the scheduler: one handler thread  *)
(* per connection, the executor that runs shell commands and child          *)
(* processes, the TaskContext both share, and what they stand on: sockets,  *)
(* file descriptors, pipes and processes.                                   *)
(*                                                                          *)
(* A connection stands for a client, as in the code: each gets a number of  *)
(* its own.  The client sends one command and awaits its answer, as         *)
(* src/src/client.c does, and may go away at any moment.  main's accept     *)
(* loop never ends, so the scheduler is never stopped here.                 *)
(***************************************************************************)
EXTENDS Scheduler

CONSTANTS
  Fds,        \* descriptors the kernel can hand out for connections
  PipeSize,   \* how many chunks of output a pipe holds
  MaxOutput   \* bound: how many chunks a program prints

NoFd == -1   \* no descriptor

ASSUME ServerAssumption ==
  /\ Fds # {} /\ NoFd \notin Fds
  /\ PipeSize \in Nat \ {0} /\ MaxOutput \in Nat

VARIABLES
  up,           \* FALSE once a signal has killed the server process
  handler,      \* where each connection's handle_client is
  job,          \* the task whose context the handler holds, or NoTask
  sock,         \* client->socket_fd
  fd_conn,      \* kernel: the connection a descriptor names, or NoClient
  conn,         \* kernel: the state of each connection
  ctx,          \* the TaskContext of each task
  proc,         \* kernel: the child process of each task
  executor_at,  \* where execute_program_task is
  slice,        \* its loop counter
  stray,        \* history: <<client, task>>, output of another's task received
  answer        \* the final response to each task that reached its client

servervars == <<up, handler, job, sock, fd_conn, conn, ctx, proc, executor_at,
                slice, stray, answer>>
allvars == <<vars, servervars>>

(* A connection whose client has gone: "half" when it closed in good order, *)
(* "reset" when it left data unread, and "broken" once the server's kernel  *)
(* has reported that to the process.                                        *)
Gone == {"half", "reset", "broken"}

Context ==
  [refs: 0..2, done: {"no", "output", "error"},
   child_pid: BOOLEAN,       \* child_pid > 0
   child_running: BOOLEAN,
   pipe: BOOLEAN,            \* pipe_fd >= 0
   fd: Fds \cup {NoFd}]      \* socket_fd, to which output is streamed

NoContext == [refs |-> 0, done |-> "no", child_pid |-> FALSE,
              child_running |-> FALSE, pipe |-> FALSE, fd |-> NoFd]

Process ==
  [state: {"none", "running", "stopped", "zombie", "reaped"},
   todo: 0..MaxOutput,       \* chunks the program has yet to print
   buffered: 0..PipeSize]    \* chunks in the pipe

NoProcess == [state |-> "none", todo |-> 0, buffered |-> 0]

ServerInit ==
  /\ Init
  /\ up = TRUE
  /\ handler = [c \in Clients |-> "absent"]
  /\ job = [c \in Clients |-> NoTask]
  /\ sock = [c \in Clients |-> NoFd]
  /\ fd_conn = [f \in Fds |-> NoClient]
  /\ conn = [c \in Clients |-> "unused"]
  /\ ctx = [t \in Tasks |-> NoContext]
  /\ proc = [t \in Tasks |-> NoProcess]
  /\ executor_at = "idle" /\ slice = 0
  /\ stray = {}
  /\ answer = [t \in Tasks |-> "none"]

-----------------------------------------------------------------------------
(* The kernel's side of sockets and processes.                             *)

(* A client closes its connection, or its process ends.                    *)
ClientLeaves(c) ==
  /\ conn[c] = "open"
  /\ \E how \in {"half", "reset"} : conn' = [conn EXCEPT ![c] = how]
  /\ UNCHANGED <<vars, up, handler, job, sock, fd_conn, ctx, proc, executor_at,
                 slice, stray, answer>>

(* What becomes of a packet sent on descriptor f, as seen by the sender.   *)
(* SIGPIPE is not ignored by the server: its default action ends it.       *)
Sends(f, outcome) ==
  LET c == IF f \in Fds THEN fd_conn[f] ELSE NoClient IN
  \/ c = NoClient /\ outcome = "failed" /\ UNCHANGED conn
  \/ /\ c # NoClient
     /\ \/ conn[c] = "open" /\ outcome = "sent" /\ UNCHANGED conn
        \/ /\ conn[c] = "half" /\ outcome = "sent"
           /\ \E s \in {"half", "broken"} : conn' = [conn EXCEPT ![c] = s]
        \/ /\ conn[c] = "reset" /\ outcome = "failed"
           /\ conn' = [conn EXCEPT ![c] = "broken"]
        \/ conn[c] \in {"half", "broken"} /\ outcome = "SIGPIPE" /\ UNCHANGED conn

(* The client at the other end of descriptor f, if it still listens.       *)
Listener(f) == { c \in Clients : f \in Fds /\ fd_conn[f] = c /\ conn[c] = "open" }

Killed ==
  /\ up' = FALSE
  /\ UNCHANGED <<vars, handler, job, sock, fd_conn, ctx, proc, executor_at,
                 slice, stray, answer>>

ChildPrints(t) ==
  /\ proc[t].state = "running"
  /\ proc[t].todo > 0 /\ proc[t].buffered < PipeSize
  /\ proc' = [proc EXCEPT ![t].todo = @ - 1, ![t].buffered = @ + 1]

ChildExits(t) ==
  /\ proc[t].state = "running"
  /\ proc[t].todo = 0
  /\ proc' = [proc EXCEPT ![t].state = "zombie"]

Child(t) ==
  /\ ChildPrints(t) \/ ChildExits(t)
  /\ UNCHANGED <<vars, up, handler, job, sock, fd_conn, conn, ctx, executor_at,
                 slice, stray, answer>>

-----------------------------------------------------------------------------
(* TaskContext.                                                            *)

Reaped(p) == [p EXCEPT !.state = "reaped"]

SetDone(x, status) == [x EXCEPT !.done = status]

(* Faulty: a child that is left is neither killed nor reaped.              *)
ReleaseFaulty(S) ==
  /\ ctx' = [t \in Tasks |->
               IF t \notin S THEN ctx[t]
               ELSE IF ctx[t].refs > 1 THEN [ctx[t] EXCEPT !.refs = @ - 1]
               ELSE [NoContext EXCEPT !.done = ctx[t].done]]
  /\ proc' = proc

(* task_context_release, once for every task of S; the last holder closes  *)
(* the pipe, kills and reaps a child that is left and frees the context,   *)
(* of which only its done flag is remembered.                              *)
Release(S) ==
  /\ ctx' = [t \in Tasks |->
               IF t \notin S THEN ctx[t]
               ELSE IF ctx[t].refs > 1 THEN [ctx[t] EXCEPT !.refs = @ - 1]
               ELSE [NoContext EXCEPT !.done = ctx[t].done]]
  /\ proc' = [t \in Tasks |->
                IF t \in S /\ ctx[t].refs = 1 /\ ctx[t].child_pid
                THEN Reaped(NoProcess) ELSE proc[t]]

(* Faulty: child_pid is kept.                                              *)
TerminatedFaulty(x) == [x EXCEPT !.child_running = FALSE, !.pipe = FALSE]

(* task_context_terminate_child.                                           *)
Terminated(x) ==
  [x EXCEPT !.child_pid = FALSE, !.child_running = FALSE, !.pipe = FALSE]

(* Faulty: a pipe that is empty for now (EAGAIN) is taken for a failure.   *)
DrainPipeFaulty(t, outcome) ==
  IF ~ctx[t].pipe \/ proc[t].buffered = 0
  THEN /\ outcome = IF ctx[t].pipe /\ proc[t].state = "running" THEN "failed" ELSE "sent"
       /\ UNCHANGED <<conn, stray>>
  ELSE /\ Sends(ctx[t].fd, outcome)
       /\ stray' = stray \cup
            { <<c, t>> : c \in Listener(ctx[t].fd) \ {task[t].client} }

(* task_context_drain_pipe: everything in the pipe goes to the socket the  *)
(* context remembers, and the pipe is closed at its end of file.           *)
DrainPipe(t, outcome) ==
  IF ~ctx[t].pipe \/ proc[t].buffered = 0
  THEN outcome = "sent" /\ UNCHANGED <<conn, stray>>
  ELSE /\ Sends(ctx[t].fd, outcome)
       /\ stray' = stray \cup
            { <<c, t>> : c \in Listener(ctx[t].fd) \ {task[t].client} }

Drained(p) == [p EXCEPT !.buffered = 0]

AtEof(x, p) == [x EXCEPT !.pipe = @ /\ p.state \in {"running", "stopped"}]

-----------------------------------------------------------------------------
(* handle_client, one thread per connection.                               *)

Goto(c, place) == handler' = [handler EXCEPT ![c] = place]

(* accept and pthread_create.                                              *)
Connect(c) ==
  /\ handler[c] = "absent"
  /\ \E f \in Fds : /\ fd_conn[f] = NoClient
                    /\ fd_conn' = [fd_conn EXCEPT ![f] = c]
                    /\ sock' = [sock EXCEPT ![c] = f]
  /\ conn' = [conn EXCEPT ![c] = "open"]
  /\ Goto(c, "recv")
  /\ UNCHANGED <<vars, up, job, ctx, proc, executor_at, slice, stray, answer>>

(* A command arrives: create_program_task, create_generic_program_task or  *)
(* create_shell_task, and scheduler_submit_task.                           *)
RecvCommand(c, type, burst) ==
  /\ handler[c] = "recv" /\ conn[c] = "open"
  /\ Submit(c, type, burst)
  /\ job' = [job EXCEPT ![c] = next_task_id]
  /\ ctx' = [ctx EXCEPT ![next_task_id] =
               [NoContext EXCEPT !.refs = 2,
                                 !.fd = IF type = "program" THEN sock[c] ELSE NoFd]]
  /\ Goto(c, "submitted")
  /\ UNCHANGED <<up, sock, fd_conn, conn, proc, executor_at, slice, stray, answer>>

(* scheduler_submit_task reads task->task_id for its result after the      *)
(* mutex is unlocked.  If the task has ended by then the record is freed   *)
(* and the read can give anything: a negative value makes the handler give *)
(* up the connection.                                                      *)
SubmitReturns(c) ==
  /\ handler[c] = "submitted"
  /\ \/ Goto(c, "waiting")
     \/ task[job[c]].state \in Ended /\ Goto(c, "hanging_up")
  /\ UNCHANGED <<vars, up, job, sock, fd_conn, conn, ctx, proc, executor_at,
                 slice, stray, answer>>

(* "exit": answered at once, without the scheduler.                        *)
RecvExit(c) ==
  /\ handler[c] = "recv" /\ conn[c] = "open"
  /\ Goto(c, "exiting")
  /\ UNCHANGED <<vars, up, job, sock, fd_conn, conn, ctx, proc, executor_at,
                 slice, stray, answer>>

(* recv_command returns zero or less: the client is gone, or its command   *)
(* was an empty line.                                                      *)
RecvNothing(c) ==
  /\ handler[c] = "recv"
  /\ CancelClient(c)
  /\ Release({t \in Queued : task[t].client = c})
  /\ Goto(c, "leaving")
  /\ UNCHANGED <<up, job, sock, fd_conn, conn, executor_at, slice, stray, answer>>

(* wait_for_task: either done is set, or a timed wait has to pass, during  *)
(* which it may be set too.                                                *)
CheckDone(c) ==
  /\ handler[c] = "waiting"
  /\ Goto(c, IF ctx[job[c]].done # "no" THEN "respond" ELSE "timed_wait")
  /\ UNCHANGED <<vars, up, job, sock, fd_conn, conn, ctx, proc, executor_at,
                 slice, stray, answer>>

WaitAgain(c) ==
  /\ handler[c] = "timed_wait"
  /\ conn[c] = "open"
  /\ Goto(c, "waiting")
  /\ UNCHANGED <<vars, up, job, sock, fd_conn, conn, ctx, proc, executor_at,
                 slice, stray, answer>>

(* The wait is over and the socket found closed; done is not looked at.    *)
WaitClosed(c) ==
  /\ handler[c] = "timed_wait"
  /\ conn[c] \in Gone
  /\ conn' = [conn EXCEPT ![c] = IF @ = "reset" THEN "broken" ELSE @]
  /\ CancelClient(c)
  /\ Release({t \in Queued : task[t].client = c})
  /\ Goto(c, "leaving")
  /\ UNCHANGED <<up, job, sock, fd_conn, executor_at, slice, stray, answer>>

(* send_response, to "exit" and, from handle_task_response, to a task.     *)
Respond(c) ==
  /\ handler[c] \in {"respond", "exiting"}
  /\ \E outcome \in {"sent", "failed"} :
       /\ Sends(sock[c], outcome)
       /\ Goto(c, IF outcome = "sent" /\ handler[c] = "respond"
                  THEN "responded" ELSE "leaving")
  /\ answer' = IF conn[c] = "open" /\ handler[c] = "respond"
               THEN [answer EXCEPT ![job[c]] = ctx[job[c]].done]
               ELSE answer
  /\ UNCHANGED <<vars, up, job, sock, fd_conn, ctx, proc, executor_at, slice, stray>>

RespondKilled(c) ==
  /\ handler[c] \in {"respond", "exiting"}
  /\ Sends(sock[c], "SIGPIPE")
  /\ Killed /\ UNCHANGED answer

(* Faulty: the handler goes on and keeps its reference.                    *)
LetGoFaulty(c) ==
  /\ handler[c] = "responded"
  /\ job' = [job EXCEPT ![c] = NoTask]
  /\ Goto(c, "recv")
  /\ UNCHANGED <<vars, up, sock, fd_conn, conn, ctx, proc, executor_at, slice,
                 stray, answer>>

LetGo(c) ==
  /\ handler[c] = "responded"
  /\ Release({job[c]})
  /\ job' = [job EXCEPT ![c] = NoTask]
  /\ Goto(c, "recv")
  /\ UNCHANGED <<vars, up, sock, fd_conn, conn, executor_at, slice, stray, answer>>

(* The way out of the loop: release, close and end the thread.             *)
Leave(c) ==
  /\ handler[c] \in {"leaving", "hanging_up"}
  /\ Release({job[c]} \ {NoTask})
  /\ job' = [job EXCEPT ![c] = NoTask]
  /\ fd_conn' = [fd_conn EXCEPT ![sock[c]] = NoClient]
  /\ conn' = [conn EXCEPT ![c] = "closed"]
  /\ sock' = [sock EXCEPT ![c] = NoFd]
  /\ Goto(c, "done")
  /\ UNCHANGED <<vars, up, executor_at, slice, stray, answer>>

Handler(c) ==
  \/ SubmitReturns(c) \/ CheckDone(c) \/ WaitAgain(c) \/ WaitClosed(c)
  \/ conn[c] \in Gone /\ RecvNothing(c)
  \/ Respond(c) \/ RespondKilled(c) \/ LetGo(c) \/ Leave(c)

Client(c) ==
  \/ Connect(c) \/ ClientLeaves(c) \/ RecvExit(c)
  \/ conn[c] = "open" /\ RecvNothing(c)
  \/ \E burst \in 1..MaxBurst : RecvCommand(c, "program", burst)
  \/ RecvCommand(c, "shell", 0)

-----------------------------------------------------------------------------
(* server_task_executor, on the scheduler thread.                          *)

Me == current_task

Stay == UNCHANGED vars

Return(r) == ExecutorReturns(r) /\ executor_at' = "idle" /\ slice' = 0

Proceed(place) == executor_at' = place /\ UNCHANGED slice

(* Faulty: one unit too many.                                              *)
LoopFaulty(n) ==
  IF n <= Quantum(Me) /\ task[Me].remaining > 0
  THEN executor_at' = "head" /\ slice' = n
  ELSE /\ executor_at' = IF task[Me].remaining > 0 THEN "stopping" ELSE "waitpid"
       /\ slice' = 0

(* The loop condition, with n for slice.                                   *)
Loop(n) ==
  IF n < Quantum(Me) /\ task[Me].remaining > 0
  THEN executor_at' = "head" /\ slice' = n
  ELSE /\ executor_at' = IF task[Me].remaining > 0 THEN "stopping" ELSE "waitpid"
       /\ slice' = 0

(* Faulty: the handler is not told.                                        *)
RunShellFaulty ==
  /\ pc = "executing" /\ task[Me].type = "shell"
  /\ Return("complete")
  /\ UNCHANGED <<conn, ctx, proc, stray>>

(* execute_shell_task; what shell_execute_line_capture does in between is  *)
(* not visible here.                                                       *)
RunShell ==
  /\ pc = "executing" /\ task[Me].type = "shell"
  /\ ctx' = [ctx EXCEPT ![Me] = SetDone(@, "output")]
  /\ Return("complete")
  /\ UNCHANGED <<conn, proc, stray>>

BeginProgram ==
  /\ pc = "executing" /\ executor_at = "idle" /\ task[Me].type = "program"

(* execute_program_task, task_context_start_child.                         *)
StartChild ==
  /\ BeginProgram /\ ~ctx[Me].child_pid
  /\ ctx' = [ctx EXCEPT ![Me].child_pid = TRUE, ![Me].child_running = TRUE,
                        ![Me].pipe = TRUE]
  /\ \E n \in 0..MaxOutput :
       proc' = [proc EXCEPT ![Me] = [state |-> "running", todo |-> n,
                                     buffered |-> 0]]
  /\ Stay /\ Loop(0)
  /\ UNCHANGED <<conn, stray>>

StartFails ==
  /\ BeginProgram /\ ~ctx[Me].child_pid
  /\ ctx' = [ctx EXCEPT ![Me] = SetDone(@, "error")]
  /\ Return("failed")
  /\ UNCHANGED <<conn, proc, stray>>

(* task_context_resume_child.                                              *)
ResumeChild ==
  /\ BeginProgram /\ ctx[Me].child_pid
  /\ ctx' = [ctx EXCEPT ![Me].child_running = TRUE]
  /\ proc' = [proc EXCEPT ![Me].state =
                IF ~ctx[Me].child_running /\ @ = "stopped" THEN "running" ELSE @]
  /\ Stay /\ Loop(0)
  /\ UNCHANGED <<conn, stray>>

(* The poll for cancellation at the head of the loop.                      *)
LoopHead ==
  /\ executor_at = "head"
  /\ IF task[Me].cancel
     THEN /\ ctx' = [ctx EXCEPT ![Me] = Terminated(@)]
          /\ proc' = [proc EXCEPT ![Me] = Reaped(@)]
          /\ Return("cancelled")
     ELSE /\ Stay /\ Proceed("tick")
          /\ UNCHANGED <<ctx, proc>>
  /\ UNCHANGED <<conn, stray>>

(* After the second has passed, drain; a failure ends the child.           *)
TickDrain ==
  /\ executor_at = "tick"
  /\ \/ /\ DrainPipe(Me, "sent")
        /\ proc' = [proc EXCEPT ![Me] = Drained(@)]
        /\ ctx' = [ctx EXCEPT ![Me] = AtEof(@, proc[Me])]
        /\ Stay /\ Proceed("tock")
     \/ /\ DrainPipe(Me, "failed")
        /\ proc' = [proc EXCEPT ![Me] = Reaped(@)]
        /\ ctx' = [ctx EXCEPT ![Me] = SetDone(Terminated(@), "error")]
        /\ Return("requeue")

(* remaining_burst-- and waitpid with WNOHANG.                             *)
Tock ==
  /\ executor_at = "tock"
  /\ IF proc[Me].state = "zombie"
     THEN /\ ExecutorWorks(0)
          /\ ctx' = [ctx EXCEPT ![Me].child_pid = FALSE, ![Me].child_running = FALSE]
          /\ proc' = [proc EXCEPT ![Me] = Reaped(@)]
          /\ executor_at' = "finish" /\ slice' = 0
     ELSE /\ ExecutorWorks(task[Me].remaining - 1)
          /\ Proceed("poll")
          /\ UNCHANGED <<ctx, proc>>
  /\ UNCHANGED <<conn, stray>>

(* Faulty: the executor takes the request off the task it polled.          *)
PollFaulty ==
  /\ executor_at = "poll"
  /\ task' = [task EXCEPT ![Me].preempt = FALSE]
  /\ UNCHANGED <<waiting, current_task, active_task_count, queued_signal_count,
                 stop_requested, next_task_id, last_selected_task_id, pc, result>>
  /\ executor_at' = "stopping" /\ slice' = 0
  /\ UNCHANGED <<conn, ctx, proc, stray>>

(* scheduler_task_should_preempt.                                          *)
Poll ==
  /\ executor_at = "poll"
  /\ Stay
  /\ IF task[Me].preempt THEN executor_at' = "stopping" /\ slice' = 0
     ELSE Loop(slice + 1)
  /\ UNCHANGED <<conn, ctx, proc, stray>>

(* Faulty: the child is left running.                                      *)
StoppedFaulty(p) == p

(* SIGSTOP.                                                                *)
Stopped(p) == [p EXCEPT !.state = IF @ = "running" THEN "stopped" ELSE @]

(* task_context_stop_child, a last drain, and back to the scheduler.       *)
StopChild ==
  /\ executor_at = "stopping"
  /\ \E outcome \in {"sent", "failed"} :
       /\ DrainPipe(Me, outcome)
       /\ proc' = [proc EXCEPT ![Me] = Drained(Stopped(@))]
       /\ ctx' = [ctx EXCEPT ![Me] =
                    LET x == [@ EXCEPT !.child_running = FALSE]
                    IN  IF outcome = "sent" THEN AtEof(x, proc[Me])
                        ELSE SetDone(x, "error")]
  /\ Return("requeue")

(* The burst is used up: the executor blocks until the child has exited.   *)
AwaitChild ==
  /\ executor_at = "waitpid"
  /\ proc[Me].state = "zombie"
  /\ ctx' = [ctx EXCEPT ![Me].child_pid = FALSE, ![Me].child_running = FALSE]
  /\ proc' = [proc EXCEPT ![Me] = Reaped(@)]
  /\ Stay /\ Proceed("finish")
  /\ UNCHANGED <<conn, stray>>

(* Faulty: what is left in the pipe is not read.                           *)
FinishFaulty ==
  /\ executor_at = "finish"
  /\ ctx' = [ctx EXCEPT ![Me] = SetDone(@, "output")]
  /\ Return("complete")
  /\ UNCHANGED <<conn, proc, stray>>

(* The drain after the child has exited, and the end of the task.          *)
Finish ==
  /\ executor_at = "finish"
  /\ \/ /\ DrainPipe(Me, "sent")
        /\ ctx' = [ctx EXCEPT ![Me] = SetDone(AtEof(@, proc[Me]), "output")]
        /\ Return("complete")
     \/ /\ DrainPipe(Me, "failed")
        /\ ctx' = [ctx EXCEPT ![Me] = SetDone(@, "error")]
        /\ Return("failed")
  /\ proc' = [proc EXCEPT ![Me] = Drained(@)]

(* A drain into a socket whose client is gone.                             *)
DrainKilled ==
  /\ executor_at \in {"tick", "stopping", "finish"}
  /\ ctx[Me].pipe /\ proc[Me].buffered > 0
  /\ Sends(ctx[Me].fd, "SIGPIPE")
  /\ Killed /\ UNCHANGED answer

ServerExecutor ==
  \/ /\ \/ RunShell \/ StartChild \/ StartFails \/ ResumeChild \/ LoopHead
        \/ TickDrain \/ Tock \/ Poll \/ StopChild \/ AwaitChild
        \/ Finish
     /\ UNCHANGED <<up, handler, job, sock, fd_conn, answer>>
  \/ DrainKilled

(* The scheduler thread between rounds; finalize_task calls                *)
(* server_task_cleanup, which releases the context.                        *)
ServerThread ==
  /\ \/ Finalize /\ Release({Me})
     \/ /\ WaitForSignal \/ NothingToDispatch \/ Requeue
           \/ \E t \in Tasks : Dispatch(t)
        /\ UNCHANGED <<ctx, proc>>
  /\ UNCHANGED <<up, handler, job, sock, fd_conn, conn, executor_at, slice, stray,
                 answer>>

-----------------------------------------------------------------------------
ServerNext ==
  /\ up
  /\ \/ ServerThread \/ ServerExecutor
     \/ SpuriousWakeup /\ UNCHANGED servervars
     \/ \E c \in Clients : Handler(c) \/ Client(c)
     \/ \E t \in Tasks : Child(t)

ServerSpec == ServerInit /\ [][ServerNext]_allvars

(* Every thread of the server runs (the executor runs on the scheduler     *)
(* thread), and so do the children that are not stopped.                   *)
ServerFairness ==
  /\ WF_allvars(up /\ (ServerThread \/ ServerExecutor))
  /\ \A c \in Clients : WF_allvars(up /\ Handler(c))
  /\ WF_allvars(up /\ \E t \in Tasks : Child(t))

FairServerSpec == ServerSpec /\ ServerFairness

-----------------------------------------------------------------------------
(* Properties.                                                             *)

ServerTypeOK ==
  /\ up \in BOOLEAN
  /\ handler \in [Clients -> {"absent", "recv", "submitted", "waiting",
                   "timed_wait", "respond", "responded", "exiting",
                   "leaving", "hanging_up", "done"}]
  /\ job \in [Clients -> Tasks \cup {NoTask}]
  /\ sock \in [Clients -> Fds \cup {NoFd}]
  /\ fd_conn \in [Fds -> Clients \cup {NoClient}]
  /\ conn \in [Clients -> Gone \cup {"unused", "open", "closed"}]
  /\ ctx \in [Tasks -> Context]
  /\ proc \in [Tasks -> Process]
  /\ executor_at \in {"idle", "head", "tick", "tock", "poll", "stopping",
                      "waitpid", "finish"}
  /\ slice \in Nat /\ (executor_at # "idle" => slice < Quantum(Me))
  /\ stray \subseteq Clients \X Tasks
  /\ answer \in [Tasks -> {"none", "output", "error"}]

(* The server is an executor and a set of callers of the scheduler's model, *)
(* so what holds of that model holds here.                                 *)
ServerUsesScheduler == Spec

(* The reference count of a context counts the scheduler, while it owns the *)
(* task, and the handler that waits for it: neither uses a freed context,  *)
(* and none outlives both.                                                 *)
ContextCounted ==
  \A t \in Tasks :
    ctx[t].refs = (IF task[t].state \in Live THEN 1 ELSE 0)
                  + Cardinality({c \in Clients : job[c] = t})

(* child_pid names a child that is there to be signalled and reaped, and   *)
(* no child is left behind when its context is freed.                      *)
PidNamesChild ==
  \A t \in Tasks :
    ctx[t].child_pid <=> proc[t].state \in {"running", "stopped", "zombie"}

(* The simulated CPU: a child process runs only inside a round of its task.  *)
(* Between rounds every child is stopped, whichever way the round ended.   *)
ChildRunsInItsRound ==
  \A t \in Tasks : proc[t].state = "running" => t = Me /\ pc = "executing"

(* The final answer to a program follows all of its output: the client that *)
(* is told the program is done has everything it printed.                  *)
AnswerFollowsOutput ==
  \A t \in Tasks :
    answer[t] = "output" /\ proc[t].state # "none" =>
      proc[t].state = "reaped" /\ proc[t].todo = 0 /\ proc[t].buffered = 0

(* A program moves on from the point where it was stopped: one that has     *)
(* ended, or that the executor has killed, is run again in one case only.   *)
(* A drain in the loop has failed, whereupon the task is answered with an   *)
(* error and yet re-queued (server.c:1024-1038), and that happens only to   *)
(* a client whose connection is lost.                                      *)
RestartsOnlyForTheGone ==
  [][\A t \in Tasks :
       proc[t].state = "reaped" /\ proc'[t].state # "reaped" =>
         /\ ctx[t].done = "error"
         /\ conn[task[t].client] \in Gone \cup {"closed"}]_allvars

(* A shell command is answered, since programs give way and end their      *)
(* rounds, unless its client goes before that, the server is killed, or the *)
(* handler hangs up on a result that it read from a freed record.          *)
ShellAnswered ==
  \A t \in Tasks :
    (task[t].state = "waiting" /\ task[t].type = "shell") ~>
      \/ answer[t] # "none" \/ ~up
      \/ \E c \in Clients :
           job[c] = t /\ (conn[c] \in Gone \/ handler[c] = "hanging_up")

(* A client that goes takes its child processes with it: a program it had  *)
(* started is killed or ends, whether it was running, stopped or finished   *)
(* in the meantime, also one that is started, or started again, once its    *)
(* handler has let go of it and left.                                      *)
ChildrenOfTheGoneEnd ==
  \A t \in Tasks :
    (\E c \in Clients :
        /\ job[c] = t \/ task[t].client = c
        /\ conn[c] \in Gone \cup {"closed"})
      ~> (proc[t].state \in {"none", "reaped"} \/ ~up)

-----------------------------------------------------------------------------
(* What comments of the code say, and the code does not keep to.           *)

(* client.c: "Receive one complete response packet for this command"; the  *)
(* response is sent once done is set, so a finished task must have set it. *)
FinishedIsDone ==
  \A t \in Tasks : task[t].state = "finished" => ctx[t].done # "no"

(* TaskContext: socket_fd is the "client socket for sending progress       *)
(* updates", that is, of the client whose task prints.                     *)
OutputGoesToItsClient == stray = {}

(* handle_client: "while also handling disconnections".                    *)
SurvivesDisconnection == up

(* execute_program_task: "After each second we drain any output the child  *)
(* printed"; a child that has more to print is never left with a full pipe *)
(* by an executor that waits for it to exit.                               *)
NoWaitOnBlockedChild ==
  ~ (/\ executor_at = "waitpid" /\ proc[Me].state = "running"
     /\ proc[Me].todo > 0 /\ proc[Me].buffered = PipeSize)
==============================================================================
