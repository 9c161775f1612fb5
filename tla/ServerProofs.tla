---------------------------- MODULE ServerProofs ----------------------------
(***************************************************************************)
(* What is proved of Server for every set of connections and descriptors,   *)
(* every number of tasks and chunks of output, every burst and quanta.      *)
(***************************************************************************)
EXTENDS Server, SchedulerProofs

Places == {"absent", "recv", "submitted", "waiting", "timed_wait", "respond",
           "responded", "exiting", "leaving", "hanging_up", "done"}

Awaiting == {"submitted", "waiting", "timed_wait", "respond", "responded"}

(* Handlers hold tasks that were submitted, each its own, and just while   *)
(* they wait for an answer; the answer they send is there.                 *)
Jobs ==
  \A c \in Clients :
    /\ handler[c] \in Awaiting => job[c] # NoTask
    /\ job[c] # NoTask =>
         /\ handler[c] \in Awaiting \cup {"leaving", "hanging_up"}
         /\ task[job[c]].state # "unsubmitted"
         /\ \A d \in Clients : job[d] = job[c] => d = c
    /\ handler[c] = "respond" => ctx[job[c]].done # "no"

Owners(t) ==
  (IF task[t].state \in Live THEN 1 ELSE 0)
  + (IF \E c \in Clients : job[c] = t THEN 1 ELSE 0)

(* Contexts are counted, and one that is freed holds nothing.              *)
Counted ==
  \A t \in Tasks :
    /\ ctx[t].refs = Owners(t)
    /\ ctx[t].refs = 0 => ~ctx[t].child_pid

(* Where the executor is, and what that says of the child.                 *)
Rounds ==
  /\ executor_at # "idle" => pc = "executing" /\ task[Me].type = "program"
  /\ \A t \in Tasks : proc[t].state = "running" =>
       t = Me /\ executor_at \notin {"idle", "finish"}
  /\ executor_at = "finish" => proc[Me].state = "reaped" /\ proc[Me].todo = 0

(* Only programs have children, and these end when they have printed all.  *)
Children ==
  \A t \in Tasks :
    /\ proc[t].state = "zombie" => proc[t].todo = 0
    /\ \/ task[t].state = "unsubmitted"
       \/ task[t].state \in Live /\ task[t].type = "shell"
       => proc[t].state = "none"

(* A task with its output is over for the executor and for its child.      *)
Outputs ==
  \A t \in Tasks :
    ctx[t].done = "output" \/ answer[t] = "output" =>
      /\ \/ task[t].state \in Ended
         \/ t = Me /\ pc = "returned" /\ result = "complete"
      /\ \/ proc[t].state = "none"
         \/ proc[t].state = "reaped" /\ proc[t].todo = 0 /\ proc[t].buffered = 0

SInv ==
  /\ Bounded /\ ServerTypeOK /\ Jobs /\ Counted /\ PidNamesChild
  /\ Rounds /\ Children /\ Outputs

-----------------------------------------------------------------------------
(* The server as a user of the scheduler.                                  *)

(* What the executor does to the scheduler's variables.                    *)
LEMMA ExecutorUses ==
  ASSUME Bounded, ServerExecutor
  PROVE  \/ UNCHANGED vars
         \/ \E left \in 0..MaxBurst + DefaultBurst : ExecutorWorks(left)
         \/ \E r \in Results : ExecutorReturns(r)
<1>1. MaxBurst + DefaultBurst \in Nat
  BY SchedulerAssumption DEF SchedulerAssumption
<1>2. CASE DrainKilled
  BY <1>2 DEF DrainKilled, Killed
<1>3. CASE StartChild \/ ResumeChild \/ Poll \/ AwaitChild
  BY <1>3 DEF StartChild, ResumeChild, Poll, AwaitChild, Stay
<1>4. CASE RunShell \/ StartFails \/ LoopHead \/ TickDrain \/ StopChild \/ Finish
  BY <1>4 DEF RunShell, StartFails, LoopHead, TickDrain, StopChild, Finish,
     Return, Stay, Results
<1>5. CASE Tock
  <2>1. PICK left \in Int : ExecutorWorks(left) /\ left <= MaxBurst + DefaultBurst
    <3>1. Me \in Tasks /\ task[Me].remaining \in Int
      BY <1>5 DEF Tock, ExecutorWorks, Bounded, IInv, TypeOK, OneTaskRuns, TaskRecord, Me
    <3>2. task[Me].remaining <= MaxBurst + DefaultBurst
      BY <3>1 DEF Bounded
    <3> QED BY <1>5, <1>1, <3>1, <3>2 DEF Tock
  <2>2. left \in 0..MaxBurst + DefaultBurst
    BY <2>1, <1>1 DEF ExecutorWorks
  <2> QED BY <2>1, <2>2
<1> QED BY <1>2, <1>3, <1>4, <1>5 DEF ServerExecutor

LEMMA UsesScheduler == Bounded /\ [ServerNext]_allvars => [Next]_vars
<1> SUFFICES ASSUME Bounded, [ServerNext]_allvars PROVE [Next]_vars
  OBVIOUS
<1>1. CASE ServerThread
  BY <1>1 DEF ServerThread, Next, SchedulerThread
<1>2. CASE ServerExecutor
  BY <1>2, ExecutorUses DEF Next, Executor
<1>3. CASE SpuriousWakeup
  BY <1>3 DEF Next
<1>4. CASE \E c \in Clients : Handler(c) \/ Client(c)
  <2>1. PICK c \in Clients : Handler(c) \/ Client(c)
    BY <1>4
  <2>2. CASE RecvNothing(c) \/ WaitClosed(c)
    BY <2>2 DEF RecvNothing, WaitClosed, Next, Callers
  <2>3. CASE \/ \E burst \in 1..MaxBurst : RecvCommand(c, "program", burst)
             \/ RecvCommand(c, "shell", 0)
    <3>1. \E type \in Types, predicted \in 0..MaxBurst : Submit(c, type, predicted)
      BY <2>3, SchedulerAssumption DEF RecvCommand, Types, SchedulerAssumption
    <3> QED BY <3>1 DEF Next, Callers
  <2>4. CASE UNCHANGED vars
    BY <2>4
  <2> QED BY <2>1, <2>2, <2>3, <2>4
          DEF Handler, Client, SubmitReturns, CheckDone, WaitAgain, Respond,
              RespondKilled, Killed, LetGo, Leave, Connect, ClientLeaves, RecvExit
<1>5. CASE \E t \in Tasks : Child(t)
  BY <1>5 DEF Child
<1>6. CASE UNCHANGED allvars
  BY <1>6 DEF allvars
<1> QED BY <1>1, <1>2, <1>3, <1>4, <1>5, <1>6 DEF ServerNext

LEMMA AlwaysBounded == ServerSpec => []Bounded
<1>1. ServerInit => Bounded
  BY InitBounded DEF ServerInit
<1>2. Bounded /\ [ServerNext]_allvars => Bounded'
  BY UsesScheduler, BoundedStep
<1> QED BY <1>1, <1>2, PTL DEF ServerSpec

(* Every behaviour of the server is one of the scheduler's model, so that   *)
(* what is proved of that holds in the server.                             *)
THEOREM ServerIsUser == ServerSpec => ServerUsesScheduler
<1>1. ServerInit => Init
  BY DEF ServerInit
<1>2. Bounded /\ [ServerNext]_allvars => [Next]_vars
  BY UsesScheduler
<1> QED BY <1>1, <1>2, AlwaysBounded, PTL DEF ServerSpec, ServerUsesScheduler, Spec

-----------------------------------------------------------------------------
(* What the invariant of the scheduler says of a task and of the one that  *)
(* is executed.                                                            *)
LEMMA TaskFacts ==
  ASSUME Bounded
  PROVE  /\ task \in [Tasks -> TaskRecord] /\ NoTask \notin Tasks
         /\ current_task \in Tasks \cup {NoTask} /\ next_task_id \in Nat
         /\ pc \in {"executing", "returned"} <=> Me \in Tasks
         /\ \A t \in Tasks : task[t].state = "running" <=> t = Me
         /\ \A t \in Tasks : task[t].state = "unsubmitted" <=> t >= next_task_id
         /\ Queued \subseteq Tasks
         /\ pc # "destroyed" =>
              \A t \in Tasks : t \in Queued <=> task[t].state = "waiting"
BY SchedulerFacts DEF Me

(* The context of an owned task is not freed, that of a task in its round  *)
(* least of all.                                                           *)
LEMMA CountFacts ==
  ASSUME SInv
  PROVE  /\ \A t \in Tasks : ctx[t].refs = Owners(t) /\ Owners(t) \in 0..2
         /\ \A t \in Tasks : task[t].state \in Live => Owners(t) >= 1
         /\ \A c \in Clients : job[c] # NoTask =>
              job[c] \in Tasks /\ Owners(job[c]) >= 1
BY DEF SInv, Counted, Owners, ServerTypeOK

LEMMA SendsType ==
  ASSUME ServerTypeOK, NEW f, NEW outcome, Sends(f, outcome)
  PROVE  conn' \in [Clients -> Gone \cup {"unused", "open", "closed"}]
BY DEF Sends, ServerTypeOK, Gone

LEMMA InitSInv == ServerInit => SInv
<1> SUFFICES ASSUME ServerInit PROVE SInv
  OBVIOUS
<1>1. Bounded
  BY InitBounded DEF ServerInit
<1>2. \A t \in Tasks : task[t] = Blank("unsubmitted")
  BY DEF ServerInit, Init
<1>3. ServerTypeOK
  BY ServerAssumption DEF ServerInit, ServerTypeOK, NoContext, Context, NoProcess,
     Process, ServerAssumption
<1>4. Jobs /\ PidNamesChild /\ Rounds /\ Children /\ Outputs
  BY DEF ServerInit, Jobs, PidNamesChild, Rounds, Children, Outputs, NoContext,
     NoProcess, Awaiting
<1>5. Counted
  BY <1>2 DEF ServerInit, Counted, Owners, NoContext, NoTask, Tasks, Live, Blank
<1> QED BY <1>1, <1>3, <1>4, <1>5 DEF SInv

(* Steps that touch neither tasks nor contexts nor children: those of the  *)
(* network and of handlers between two calls.                              *)
Quiet(c) ==
  \/ Connect(c) \/ ClientLeaves(c) \/ RecvExit(c) \/ SubmitReturns(c)
  \/ CheckDone(c) \/ WaitAgain(c) \/ Respond(c) \/ RespondKilled(c)

LEMMA QuietGoes ==
  ASSUME NEW c, Quiet(c)
  PROVE  handler' = handler \/ \E place \in Places : Goto(c, place)
BY DEF Quiet, Connect, ClientLeaves, RecvExit, SubmitReturns, CheckDone, WaitAgain,
   Respond, RespondKilled, Killed, Places

LEMMA QuietStep ==
  ASSUME SInv, Bounded', (\E c \in Clients : Quiet(c)) \/ DrainKilled
  PROVE  SInv'
<1> USE DEF SInv
<1>1. UNCHANGED <<vars, job, ctx, proc, executor_at, slice, stray>>
  BY DEF Quiet, Connect, ClientLeaves, RecvExit, SubmitReturns, CheckDone,
     WaitAgain, Respond, RespondKilled, DrainKilled, Killed
<1>2. \A t \in Tasks : answer'[t] \in {answer[t], ctx[t].done}
  BY DEF Quiet, Connect, ClientLeaves, RecvExit, SubmitReturns, CheckDone,
     WaitAgain, Respond, RespondKilled, DrainKilled, Killed, ServerTypeOK
<1>3. Jobs'
  <2>1. CASE DrainKilled
    BY <2>1 DEF DrainKilled, Killed, Jobs, vars
  <2>2. ASSUME NEW c \in Clients, Quiet(c) PROVE Jobs'
    <3>1. \A d \in Clients \ {c} : handler'[d] = handler[d]
      BY <2>2, QuietGoes DEF Goto, ServerTypeOK
    <3>2. \/ handler'[c] \in Awaiting \cup {"leaving", "hanging_up"} /\ handler[c] \in Awaiting
          \/ handler'[c] \notin Awaiting /\ job[c] = NoTask
          \/ handler'[c] = handler[c]
      BY <2>2 DEF Quiet, Connect, ClientLeaves, RecvExit, SubmitReturns, CheckDone,
         WaitAgain, Respond, RespondKilled, Killed, Goto, ServerTypeOK, Jobs, Awaiting
    <3>3. handler'[c] = "respond" => ctx[job[c]].done # "no"
      BY <2>2 DEF Quiet, Connect, ClientLeaves, RecvExit, SubmitReturns, CheckDone,
         WaitAgain, Respond, RespondKilled, Killed, Goto, ServerTypeOK, Jobs
    <3> QED BY <1>1, <3>1, <3>2, <3>3 DEF Jobs, vars, Awaiting
  <2> QED BY <2>1, <2>2
<1>4. ServerTypeOK'
  <2>1. conn' \in [Clients -> Gone \cup {"unused", "open", "closed"}]
    BY SendsType DEF Quiet, Connect, ClientLeaves, RecvExit, SubmitReturns, CheckDone,
       WaitAgain, Respond, RespondKilled, DrainKilled, Killed, ServerTypeOK, Gone
  <2>4. handler' \in [Clients -> Places]
    BY QuietGoes DEF DrainKilled, Killed, Goto, ServerTypeOK, Places
  <2>2. /\ sock' \in [Clients -> Fds \cup {NoFd}]
        /\ fd_conn' \in [Fds -> Clients \cup {NoClient}]
        /\ up' \in BOOLEAN
    <3>1. ASSUME NEW c \in Clients, Connect(c)
          PROVE  /\ sock' \in [Clients -> Fds \cup {NoFd}]
                 /\ fd_conn' \in [Fds -> Clients \cup {NoClient}]
                 /\ up' \in BOOLEAN
      BY <3>1 DEF Connect, ServerTypeOK
    <3>2. ASSUME UNCHANGED <<sock, fd_conn>>
          PROVE  /\ sock' \in [Clients -> Fds \cup {NoFd}]
                 /\ fd_conn' \in [Fds -> Clients \cup {NoClient}]
      BY <3>2 DEF ServerTypeOK
    <3>3. up' \in BOOLEAN \/ \E c \in Clients : Connect(c)
      BY DEF Quiet, ClientLeaves, RecvExit, SubmitReturns, CheckDone,
         WaitAgain, Respond, RespondKilled, DrainKilled, Killed, ServerTypeOK
    <3>4. UNCHANGED <<sock, fd_conn>> \/ \E c \in Clients : Connect(c)
      BY DEF Quiet, ClientLeaves, RecvExit, SubmitReturns, CheckDone,
         WaitAgain, Respond, RespondKilled, DrainKilled, Killed
    <3> QED BY <3>1, <3>2, <3>3, <3>4
  <2>3. answer' \in [Tasks -> {"none", "output", "error"}]
    <3>1. CASE answer' = answer
      BY <3>1 DEF ServerTypeOK
    <3>2. ASSUME NEW c \in Clients, handler[c] = "respond",
                 answer' = [answer EXCEPT ![job[c]] = ctx[job[c]].done]
          PROVE  answer' \in [Tasks -> {"none", "output", "error"}]
      <4>1. job[c] \in Tasks /\ ctx[job[c]].done # "no"
        BY <3>2, CountFacts DEF Jobs, Awaiting
      <4>2. ctx[job[c]].done \in {"output", "error"}
        BY <4>1 DEF ServerTypeOK, Context
      <4> QED BY <3>2, <4>2 DEF ServerTypeOK
    <3> QED BY <3>1, <3>2 DEF Quiet, Connect, ClientLeaves, RecvExit, SubmitReturns,
               CheckDone, WaitAgain, Respond, RespondKilled, DrainKilled
  <2> QED BY <1>1, <2>1, <2>2, <2>3, <2>4 DEF ServerTypeOK, vars, Quantum, Me, Places
<1>5. Counted' /\ PidNamesChild' /\ Rounds' /\ Children'
  BY <1>1 DEF Counted, Owners, PidNamesChild, Rounds, Children, vars, Me
<1>6. Outputs'
  BY <1>1, <1>2 DEF Outputs, vars, Me
<1> QED BY <1>3, <1>4, <1>5, <1>6

(* The scheduler thread between rounds.                                    *)
LEMMA ThreadStep ==
  ASSUME SInv, Bounded', UNCHANGED servervars,
         \/ WaitForSignal \/ NothingToDispatch \/ Requeue \/ SpuriousWakeup
         \/ \E t \in Tasks : Dispatch(t)
  PROVE  SInv'
<1> USE DEF SInv
<1>1. pc \notin {"executing"} /\ executor_at = "idle"
  BY DEF Rounds, WaitForSignal, NothingToDispatch, Requeue, SpuriousWakeup, Dispatch,
     MayDispatch
<1>2. \A t \in Tasks :
        /\ task'[t].type = task[t].type
        /\ task'[t].state \in Live <=> task[t].state \in Live
        /\ task'[t].state = "unsubmitted" <=> task[t].state = "unsubmitted"
        /\ task'[t].state \in Ended <=> task[t].state \in Ended
  <2>1. CASE UNCHANGED task
    BY <2>1
  <2>2. CASE Requeue
    <3>1. Me \in Tasks /\ task[Me].state = "running"
      BY <2>2, TaskFacts DEF Requeue
    <3>2. \A t \in Tasks :
            /\ task'[t].type = task[t].type
            /\ task'[t].state = IF t = Me THEN "waiting" ELSE task[t].state
      BY <2>2, TaskFacts DEF Requeue, TaskRecord, Me
    <3> QED BY <3>1, <3>2 DEF Live, Ended
  <2>3. ASSUME NEW u \in Tasks, Dispatch(u)
        PROVE  \A t \in Tasks :
                 /\ task'[t].type = task[t].type
                 /\ task'[t].state \in Live <=> task[t].state \in Live
                 /\ task'[t].state = "unsubmitted" <=> task[t].state = "unsubmitted"
                 /\ task'[t].state \in Ended <=> task[t].state \in Ended
    <3>1. task[u].state = "waiting"
      <4>1. u \in Queued
        BY <2>3 DEF Dispatch, NextToDispatch, FirstShell, ShortestProgram, Shortest,
           Programs, Queued, Range
      <4> QED BY <4>1, <2>3, TaskFacts DEF Dispatch, MayDispatch
    <3>2. \A t \in Tasks :
            /\ task'[t].type = task[t].type
            /\ task'[t].state = IF t = u THEN "running" ELSE task[t].state
      <4>1. task \in [Tasks -> TaskRecord]
        BY TaskFacts
      <4>2. task' = [task EXCEPT ![u].state = "running", ![u].preempt = FALSE]
        BY <2>3 DEF Dispatch, StartRound
      <4>3. task' = [task EXCEPT ![u] =
                       [[task[u] EXCEPT !.state = "running"] EXCEPT !.preempt = FALSE]]
        BY <4>1, <4>2
      <4> QED BY <4>1, <4>3 DEF TaskRecord
    <3>3. ASSUME NEW t \in Tasks
          PROVE  /\ task'[t].type = task[t].type
                 /\ task'[t].state \in Live <=> task[t].state \in Live
                 /\ task'[t].state = "unsubmitted" <=> task[t].state = "unsubmitted"
                 /\ task'[t].state \in Ended <=> task[t].state \in Ended
      <4>1. CASE t = u
        <5>1. task'[t].state = "running" /\ task[t].state = "waiting"
          BY <3>1, <3>2, <4>1
        <5> QED BY <3>2, <5>1 DEF Live, Ended
      <4>2. CASE t # u
        <5>1. task'[t].state = task[t].state
          BY <3>2, <4>2
        <5> QED BY <3>2, <5>1
      <4> QED BY <4>1, <4>2
    <3> QED BY <3>3
  <2> QED BY <2>1, <2>2, <2>3 DEF WaitForSignal, NothingToDispatch, SpuriousWakeup
<1>3. \A c \in Clients : job[c] # NoTask => job[c] \in Tasks
  BY CountFacts
<1>4. ServerTypeOK'
  BY <1>1 DEF ServerTypeOK, servervars
<1>5. Jobs'
  BY <1>2, <1>3 DEF Jobs, servervars
<1>6. Counted' /\ PidNamesChild'
  BY <1>2 DEF Counted, Owners, PidNamesChild, servervars
<1>7. Rounds'
  BY <1>1 DEF Rounds, servervars
<1>8. Children'
  BY <1>2 DEF Children, servervars
<1>9. Outputs'
  <2>1. pc = "returned" => result # "complete"
    BY DEF WaitForSignal, NothingToDispatch, Requeue, MayRequeue, SpuriousWakeup,
       Dispatch, MayDispatch
  <2> QED BY <2>1, <1>2 DEF Outputs, servervars
<1> QED BY <1>4, <1>5, <1>6, <1>7, <1>8, <1>9

-----------------------------------------------------------------------------
(* task_context_release.                                                   *)
LEMMA ReleaseFacts ==
  ASSUME SInv, NEW S \in SUBSET Tasks, Release(S), \A t \in S : Owners(t) >= 1
  PROVE  /\ ctx' \in [Tasks -> Context] /\ proc' \in [Tasks -> Process]
         /\ \A t \in Tasks :
              /\ ctx'[t].done = ctx[t].done
              /\ ctx'[t].refs = ctx[t].refs - (IF t \in S THEN 1 ELSE 0)
              /\ ctx'[t].refs = 0 => ~ctx'[t].child_pid
              /\ \/ proc'[t] = proc[t]
                 \/ /\ proc[t].state \in {"running", "stopped", "zombie"}
                    /\ proc'[t] = Reaped(NoProcess)
         /\ PidNamesChild'
<1> USE DEF SInv
<1>1. ctx \in [Tasks -> Context] /\ proc \in [Tasks -> Process]
  BY DEF ServerTypeOK
<1> DEFINE freed(t) == t \in S /\ ctx[t].refs = 1
<1>2. ASSUME NEW t \in Tasks
      PROVE  /\ ctx[t].refs \in 0..2 /\ (t \in S => ctx[t].refs >= 1)
             /\ ctx[t].refs = 0 => ~ctx[t].child_pid
             /\ ctx[t].child_pid <=> proc[t].state \in {"running", "stopped", "zombie"}
  BY <1>1, CountFacts DEF Context, Counted, PidNamesChild
<1>3. ASSUME NEW t \in Tasks
      PROVE  /\ ctx'[t] = IF t \notin S THEN ctx[t]
                          ELSE IF ctx[t].refs > 1 THEN [ctx[t] EXCEPT !.refs = @ - 1]
                          ELSE [NoContext EXCEPT !.done = ctx[t].done]
             /\ proc'[t] = IF t \in S /\ ctx[t].refs = 1 /\ ctx[t].child_pid
                           THEN Reaped(NoProcess) ELSE proc[t]
  BY DEF Release
<1>4. ASSUME NEW t \in Tasks
      PROVE  /\ ctx'[t] \in Context
             /\ ctx'[t].done = ctx[t].done
             /\ ctx'[t].refs = ctx[t].refs - (IF t \in S THEN 1 ELSE 0)
             /\ ctx'[t].child_pid <=> ctx[t].child_pid /\ ~freed(t)
  <2>1. /\ ctx[t] \in Context /\ ctx[t].refs \in 0..2
        /\ ctx[t].done \in {"no", "output", "error"}
        /\ ctx[t].child_pid \in BOOLEAN
    BY <1>1 DEF Context
  <2>2. CASE t \notin S
    <3>1. ctx'[t] = ctx[t] /\ ~freed(t)
      BY <2>2, <1>3
    <3>2. ctx[t].refs = ctx[t].refs - (IF t \in S THEN 1 ELSE 0)
      BY <2>1, <2>2
    <3> QED BY <2>1, <3>1, <3>2
  <2>3. CASE t \in S /\ ctx[t].refs > 1
    <3>1. ctx'[t] = [ctx[t] EXCEPT !.refs = @ - 1]
      BY <2>3, <1>3, Zenon
    <3>5. ~freed(t)
      BY <2>1, <2>3
    <3>2. ctx[t].refs - 1 \in 0..2
      BY <2>1, <2>3
    <3>3. ctx'[t] \in Context
      BY <2>1, <3>1, <3>2 DEF Context
    <3>4. /\ ctx'[t].done = ctx[t].done /\ ctx'[t].refs = ctx[t].refs - 1
          /\ ctx'[t].child_pid = ctx[t].child_pid
      BY <2>1, <3>1 DEF Context
    <3> QED BY <2>3, <3>3, <3>4, <3>5
  <2>4. CASE t \in S /\ ~(ctx[t].refs > 1)
    <3>1. ctx'[t] = [NoContext EXCEPT !.done = ctx[t].done]
      BY <2>4, <1>3, Zenon
    <3>4. freed(t) /\ ctx[t].refs = 1
      BY <2>1, <2>4, <1>2
    <3>5. ctx'[t] = [refs |-> 0, done |-> ctx[t].done, child_pid |-> FALSE,
                     child_running |-> FALSE, pipe |-> FALSE, fd |-> NoFd]
      BY <3>1 DEF NoContext
    <3>2. ctx'[t] \in Context
      BY <2>1, <3>5 DEF Context
    <3>3. /\ ctx'[t].done = ctx[t].done /\ ctx'[t].refs = 0
          /\ ctx'[t].child_pid = FALSE
      BY <3>1 DEF NoContext
    <3> QED BY <2>4, <3>4, <3>2, <3>3
  <2> QED BY <2>2, <2>3, <2>4
<1>5. ASSUME NEW t \in Tasks
      PROVE  /\ proc'[t] \in Process
             /\ \/ proc'[t] = proc[t]
                \/ /\ proc[t].state \in {"running", "stopped", "zombie"}
                   /\ proc'[t] = Reaped(NoProcess)
             /\ proc'[t].state \in {"running", "stopped", "zombie"}
                  <=> ctx[t].child_pid /\ ~freed(t)
  <2>1. proc[t] \in Process
    BY <1>1
  <2>2. Reaped(NoProcess) \in Process /\ Reaped(NoProcess).state = "reaped"
    BY ServerAssumption DEF Reaped, NoProcess, Process, ServerAssumption
  <2>3. CASE t \in S /\ ctx[t].refs = 1 /\ ctx[t].child_pid
    <3>1. proc'[t] = Reaped(NoProcess) /\ freed(t)
      BY <2>3, <1>3
    <3> QED BY <2>2, <2>3, <3>1, <1>2
  <2>4. CASE ~(t \in S /\ ctx[t].refs = 1 /\ ctx[t].child_pid)
    <3>1. proc'[t] = proc[t] /\ ~(freed(t) /\ ctx[t].child_pid)
      BY <2>4, <1>3
    <3> QED BY <2>1, <3>1, <1>2
  <2> QED BY <2>3, <2>4
<1>6. ctx' \in [Tasks -> Context] /\ proc' \in [Tasks -> Process]
  BY <1>4, <1>5 DEF Release
<1>7. PidNamesChild'
  BY <1>4, <1>5 DEF PidNamesChild
<1>8. \A t \in Tasks : ctx'[t].refs = 0 => ~ctx'[t].child_pid
  BY <1>2, <1>4
<1> QED BY <1>4, <1>5, <1>6, <1>7, <1>8

(* A step that gives up references, of the scheduler or of a handler.      *)
LEMMA ReleaseStep ==
  ASSUME SInv, Bounded', NEW S \in SUBSET Tasks, Release(S),
         \A t \in S : Owners(t) >= 1,
         \A t \in Tasks : Owners(t)' = Owners(t) - (IF t \in S THEN 1 ELSE 0),
         Jobs',
         handler' \in [Clients -> Places],
         job' \in [Clients -> Tasks \cup {NoTask}],
         sock' \in [Clients -> Fds \cup {NoFd}],
         fd_conn' \in [Fds -> Clients \cup {NoClient}],
         conn' \in [Clients -> Gone \cup {"unused", "open", "closed"}],
         UNCHANGED <<up, executor_at, slice, stray, answer>>,
         executor_at # "idle" =>
            /\ UNCHANGED <<pc, current_task>>
            /\ task'[Me].type = task[Me].type /\ task'[Me].rounds = task[Me].rounds,
         \A t \in Tasks :
            /\ task'[t].state \in Live =>
                  task[t].state \in Live /\ task'[t].type = task[t].type
            /\ task'[t].state = "unsubmitted" => task[t].state = "unsubmitted"
            /\ task[t].state \in Ended => task'[t].state \in Ended
            /\ t = Me /\ pc = "returned" /\ result = "complete" =>
                  \/ task'[t].state \in Ended
                  \/ UNCHANGED <<pc, current_task, result>>
  PROVE  SInv'
<1> USE DEF SInv
<1>1. /\ ctx' \in [Tasks -> Context] /\ proc' \in [Tasks -> Process]
      /\ \A t \in Tasks :
           /\ ctx'[t].done = ctx[t].done
           /\ ctx'[t].refs = ctx[t].refs - (IF t \in S THEN 1 ELSE 0)
           /\ ctx'[t].refs = 0 => ~ctx'[t].child_pid
           /\ \/ proc'[t] = proc[t]
              \/ /\ proc[t].state \in {"running", "stopped", "zombie"}
                 /\ proc'[t] = Reaped(NoProcess)
      /\ PidNamesChild'
  BY ReleaseFacts
<1>2. /\ Reaped(NoProcess).state = "reaped" /\ Reaped(NoProcess).todo = 0
      /\ Reaped(NoProcess).buffered = 0
  BY DEF Reaped, NoProcess
<1>3. executor_at # "idle" => Me \in Tasks
  BY TaskFacts DEF Rounds
<1>4. ServerTypeOK'
  BY <1>1 DEF ServerTypeOK, Quantum, Me, Places
<1>5. Counted'
  BY <1>1 DEF Counted
<1>6. Rounds'
  BY <1>1, <1>2, <1>3 DEF Rounds, Me
<1>7. Children'
  BY <1>1, <1>2 DEF Children
<1>8. Outputs'
  BY <1>1, <1>2 DEF Outputs, Me
<1> QED BY <1>1, <1>4, <1>5, <1>6, <1>7, <1>8

(* finalize_task with server_task_cleanup.                                 *)
LEMMA CleanupStep ==
  ASSUME SInv, Bounded', Finalize, Release({Me}),
         UNCHANGED <<up, handler, job, sock, fd_conn, conn, executor_at, slice,
                     stray, answer>>
  PROVE  SInv'
<1>1. Me \in Tasks /\ task[Me].state = "running" /\ executor_at = "idle"
  <2>1. Me \in Tasks
    BY TaskFacts DEF SInv, Finalize
  <2> QED BY <2>1, TaskFacts DEF SInv, Rounds, Finalize
<1>2. Outcome \in Ended
  BY DEF Outcome, Ended
<1>3. /\ task'[Me] = Blank(Outcome)
      /\ \A t \in Tasks \ {Me} : task'[t] = task[t]
  BY <1>1, TaskFacts DEF SInv, Finalize, Me
<1>4. task'[Me].state \in Ended
  BY <1>2, <1>3 DEF Blank
<1>5. Owners(Me) >= 1
  BY <1>1, CountFacts DEF Live
<1>6. /\ \A t \in Tasks : ctx'[t].done = ctx[t].done
      /\ \A c \in Clients : job[c] # NoTask => job[c] \in Tasks
  BY <1>1, <1>5, ReleaseFacts, CountFacts
<1>7. Jobs'
  <2>1. \A t \in Tasks : task[t].state # "unsubmitted" => task'[t].state # "unsubmitted"
    BY <1>3, <1>4 DEF Ended
  <2>2. \A c \in Clients : handler[c] = "respond" => job[c] # NoTask
    BY DEF SInv, Jobs, Awaiting
  <2> QED BY <1>6, <2>1, <2>2 DEF SInv, Jobs
<1>8. \A t \in Tasks : Owners(t)' = Owners(t) - (IF t \in {Me} THEN 1 ELSE 0)
  <2>1. ASSUME NEW t \in Tasks, t = Me PROVE Owners(t)' = Owners(t) - 1
    <3>1. task[t].state \in Live /\ task'[t].state \notin Live /\ job' = job
      BY <1>1, <1>4, <2>1 DEF Live, Ended
    <3> QED BY <3>1 DEF Owners
  <2>2. \A t \in Tasks \ {Me} : Owners(t)' = Owners(t)
    BY <1>3 DEF Owners
  <2>3. \A t \in Tasks : Owners(t) \in 0..2
    BY CountFacts
  <2> QED BY <2>1, <2>2, <2>3
<1>9. \A t \in Tasks :
            /\ task'[t].state \in Live =>
                  task[t].state \in Live /\ task'[t].type = task[t].type
            /\ task'[t].state = "unsubmitted" => task[t].state = "unsubmitted"
            /\ task[t].state \in Ended => task'[t].state \in Ended
            /\ t = Me /\ pc = "returned" /\ result = "complete" =>
                  \/ task'[t].state \in Ended
                  \/ UNCHANGED <<pc, current_task, result>>
  BY <1>3, <1>4 DEF Live, Ended
<1>10. /\ handler' \in [Clients -> Places]
       /\ job' \in [Clients -> Tasks \cup {NoTask}]
       /\ sock' \in [Clients -> Fds \cup {NoFd}]
       /\ fd_conn' \in [Fds -> Clients \cup {NoClient}]
       /\ conn' \in [Clients -> Gone \cup {"unused", "open", "closed"}]
  BY DEF SInv, ServerTypeOK, Places
<1>11. {Me} \in SUBSET Tasks
  BY <1>1
<1> QED BY <1>1, <1>5, <1>7, <1>8, <1>9, <1>10, <1>11, ReleaseStep

(* scheduler_cancel_client_tasks, by a handler on its way out.             *)
LEMMA HangUpStep ==
  ASSUME SInv, Bounded', NEW c \in Clients, RecvNothing(c) \/ WaitClosed(c)
  PROVE  SInv'
<1> DEFINE S == {t \in Queued : task[t].client = c}
<1>1. /\ CancelClient(c) /\ Release(S) /\ Goto(c, "leaving")
      /\ UNCHANGED <<up, job, sock, fd_conn, executor_at, slice, stray, answer>>
      /\ conn' \in [Clients -> Gone \cup {"unused", "open", "closed"}]
      /\ pc # "destroyed"
  BY DEF RecvNothing, WaitClosed, CancelClient, SInv, ServerTypeOK, Gone
<1>2. S \in SUBSET Tasks /\ \A t \in S : task[t].state = "waiting" /\ t # Me
  BY <1>1, TaskFacts DEF SInv
<1>3. \A t \in S : Owners(t) >= 1
  BY <1>2, CountFacts DEF Live
<1>4. /\ \A t \in S : task'[t] = Blank("cancelled")
      /\ \A t \in Tasks \ S :
           /\ task'[t].state = task[t].state /\ task'[t].type = task[t].type
           /\ task'[t].rounds = task[t].rounds
      /\ UNCHANGED <<pc, current_task, result>>
  <2>1. task' = [t \in Tasks |->
                CASE t \in Queued /\ task[t].client = c
                       -> Blank("cancelled")
                  [] t = current_task /\ task[t].client = c
                       -> [task[t] EXCEPT !.cancel = TRUE, !.preempt = TRUE]
                  [] OTHER -> task[t]]
    BY <1>1 DEF CancelClient
  <2>2. task \in [Tasks -> TaskRecord]
    BY TaskFacts DEF SInv
  <2>3. ASSUME NEW t \in Tasks \ S
        PROVE  /\ task'[t].state = task[t].state /\ task'[t].type = task[t].type
               /\ task'[t].rounds = task[t].rounds
    BY <2>1, <2>2, <2>3 DEF TaskRecord
  <2>4. ASSUME NEW t \in S PROVE task'[t] = Blank("cancelled")
    <3>1. t \in Tasks /\ t \in Queued /\ task[t].client = c /\ t # current_task
      BY <1>2 DEF Me
    <3> QED BY <2>1, <3>1
  <2> QED BY <1>1, <2>3, <2>4 DEF CancelClient
<1>5. \A t \in S : task'[t].state \in Ended
  BY <1>4 DEF Blank, Ended
<1>6. /\ \A t \in Tasks : ctx'[t].done = ctx[t].done
      /\ \A d \in Clients : job[d] # NoTask => job[d] \in Tasks
  BY <1>1, <1>2, <1>3, ReleaseFacts, CountFacts
<1> HIDE DEF S
<1>7. Jobs'
  <2>1. \A t \in Tasks : task[t].state # "unsubmitted" => task'[t].state # "unsubmitted"
    BY <1>4, <1>5 DEF Ended
  <2>2. /\ handler'[c] = "leaving" /\ \A d \in Clients \ {c} : handler'[d] = handler[d]
        /\ job' = job
    BY <1>1 DEF Goto, SInv, ServerTypeOK
  <2>3. \A d \in Clients : handler[d] = "respond" => job[d] # NoTask
    BY DEF SInv, Jobs, Awaiting
  <2> QED BY <1>6, <2>1, <2>2, <2>3 DEF SInv, Jobs, Awaiting
<1>8. \A t \in Tasks : Owners(t)' = Owners(t) - (IF t \in S THEN 1 ELSE 0)
  <2>1. ASSUME NEW t \in S PROVE Owners(t)' = Owners(t) - 1
    <3>1. task[t].state \in Live /\ task'[t].state \notin Live
      BY <1>2, <1>5 DEF Live, Ended
    <3> QED BY <3>1, <1>1 DEF Owners
  <2>2. \A t \in Tasks \ S : Owners(t)' = Owners(t)
    BY <1>1, <1>4 DEF Owners
  <2>3. \A t \in Tasks : Owners(t) \in 0..2
    BY CountFacts
  <2> QED BY <2>1, <2>2, <2>3
<1>9. \A t \in Tasks :
            /\ task'[t].state \in Live =>
                  task[t].state \in Live /\ task'[t].type = task[t].type
            /\ task'[t].state = "unsubmitted" => task[t].state = "unsubmitted"
            /\ task[t].state \in Ended => task'[t].state \in Ended
            /\ t = Me /\ pc = "returned" /\ result = "complete" =>
                  \/ task'[t].state \in Ended
                  \/ UNCHANGED <<pc, current_task, result>>
  BY <1>4, <1>5 DEF Live, Ended
<1>10. /\ handler' \in [Clients -> Places]
       /\ job' \in [Clients -> Tasks \cup {NoTask}]
       /\ sock' \in [Clients -> Fds \cup {NoFd}]
       /\ fd_conn' \in [Fds -> Clients \cup {NoClient}]
  BY <1>1 DEF SInv, ServerTypeOK, Places, Goto
<1>11. executor_at # "idle" =>
            /\ UNCHANGED <<pc, current_task>>
            /\ task'[Me].type = task[Me].type /\ task'[Me].rounds = task[Me].rounds
  <2>1. executor_at # "idle" => Me \in Tasks \ S
    BY <1>2, TaskFacts DEF SInv, Rounds
  <2> QED BY <2>1, <1>4
<1>12. UNCHANGED <<up, executor_at, slice, stray, answer>>
  BY <1>1
<1> QED BY <1>1, <1>2, <1>3, <1>7, <1>8, <1>9, <1>10, <1>11, <1>12, ReleaseStep

(* A handler gives back its reference: after the response, or on its way   *)
(* out.                                                                    *)
LEMMA GiveBackStep ==
  ASSUME SInv, Bounded', NEW c \in Clients, LetGo(c) \/ Leave(c)
  PROVE  SInv'
<1> DEFINE S == {job[c]} \ {NoTask}
<1>1. handler[c] = "responded" => job[c] # NoTask
  BY DEF SInv, Jobs, Awaiting
<1>2. /\ Release(S) /\ job' = [job EXCEPT ![c] = NoTask]
      /\ UNCHANGED <<vars, up, executor_at, slice, stray, answer>>
      /\ Goto(c, "recv") \/ Goto(c, "done")
  <2>1. CASE LetGo(c)
    <3>1. S = {job[c]}
      BY <2>1, <1>1 DEF LetGo
    <3> QED BY <2>1, <3>1 DEF LetGo
  <2>2. CASE Leave(c)
    BY <2>2 DEF Leave
  <2> QED BY <2>1, <2>2
<1>3. /\ sock' \in [Clients -> Fds \cup {NoFd}]
      /\ fd_conn' \in [Fds -> Clients \cup {NoClient}]
      /\ conn' \in [Clients -> Gone \cup {"unused", "open", "closed"}]
      /\ handler' \in [Clients -> Places]
      /\ job' \in [Clients -> Tasks \cup {NoTask}]
  <2>1. /\ handler' \in [Clients -> Places]
        /\ job' \in [Clients -> Tasks \cup {NoTask}]
    BY <1>2 DEF SInv, ServerTypeOK, Goto, Places
  <2>2. CASE LetGo(c)
    BY <2>1, <2>2 DEF LetGo, SInv, ServerTypeOK
  <2>3. CASE Leave(c)
    BY <2>1, <2>3 DEF Leave, SInv, ServerTypeOK
  <2> QED BY <2>2, <2>3
<1>4. /\ S \in SUBSET Tasks
      /\ \A t \in S : Owners(t) >= 1
      /\ \A d \in Clients : job[d] # NoTask => job[d] \in Tasks
  BY CountFacts
<1>5. \A t \in Tasks : ctx'[t].done = ctx[t].done
  BY <1>2, <1>4, ReleaseFacts
<1>6. /\ job'[c] = NoTask /\ handler'[c] \in {"recv", "done"}
      /\ \A d \in Clients \ {c} : job'[d] = job[d] /\ handler'[d] = handler[d]
  BY <1>2 DEF SInv, ServerTypeOK, Goto
<1>7. Jobs'
  <2>1. \A d \in Clients : handler[d] = "respond" => job[d] # NoTask
    BY DEF SInv, Jobs, Awaiting
  <2>2. task' = task
    BY <1>2 DEF vars
  <2> QED BY <1>4, <1>5, <1>6, <2>1, <2>2 DEF SInv, Jobs, Awaiting
<1>8. ASSUME NEW t \in Tasks
      PROVE  Owners(t)' = Owners(t) - (IF t \in S THEN 1 ELSE 0)
  <2>1. task' = task /\ NoTask \notin Tasks
    BY <1>2, TaskFacts DEF vars, SInv
  <2>2. CASE t \in S
    <3>1. job[c] = t /\ \A d \in Clients : job'[d] # t
      BY <1>6, <2>1, <2>2 DEF SInv, Jobs
    <3> QED BY <2>1, <2>2, <3>1 DEF Owners
  <2>3. CASE t \notin S
    <3>1. \A d \in Clients : job'[d] = t <=> job[d] = t
      BY <1>6, <2>1, <2>3
    <3>2. Owners(t) \in 0..2
      BY CountFacts
    <3>3. Owners(t)' = Owners(t)
      BY <2>1, <3>1 DEF Owners
    <3> QED BY <2>3, <3>2, <3>3
  <2> QED BY <2>2, <2>3
<1> HIDE DEF S
<1>9. /\ UNCHANGED <<task, pc, current_task, result>>
      /\ UNCHANGED <<up, executor_at, slice, stray, answer>>
  BY <1>2 DEF vars
<1> QED BY <1>2, <1>3, <1>4, <1>7, <1>8, <1>9, ReleaseStep

(* A command arrives and its task is submitted.                            *)
LEMMA RecvCommandStep ==
  ASSUME SInv, Bounded', NEW c \in Clients, NEW type \in Types, NEW burst \in Nat,
         RecvCommand(c, type, burst)
  PROVE  SInv'
<1> DEFINE new == next_task_id
<1>1. /\ new \in Tasks /\ task[new].state = "unsubmitted" /\ new # Me
      /\ \A d \in Clients : job[d] # new
      /\ ~ctx[new].child_pid /\ proc[new].state = "none"
  <2>1. new \in Tasks
    BY DEF RecvCommand, Submit
  <2>2. task[new].state = "unsubmitted"
    BY <2>1, TaskFacts DEF SInv
  <2>3. new # Me
    BY <2>1, <2>2, TaskFacts DEF SInv
  <2>4. \A d \in Clients : job[d] # new
    BY <2>1, <2>2, TaskFacts DEF SInv, Jobs
  <2> QED BY <2>1, <2>2, <2>3, <2>4 DEF SInv, Children, PidNamesChild
<1>2. /\ task'[new].state = "waiting"
      /\ \A t \in Tasks \ {new} :
           /\ task'[t].state = task[t].state /\ task'[t].type = task[t].type
           /\ task'[t].rounds = task[t].rounds
      /\ UNCHANGED <<current_task, result>>
      /\ pc \in {"executing", "returned"} => pc' = pc
  <2>1. /\ task \in [Tasks -> TaskRecord]
        /\ task' = [u \in Tasks |->
                CASE u = new ->
                       [client |-> c, type |-> type, state |-> "waiting",
                        remaining |-> Burst(type, burst), rounds |-> 0,
                        preempt |-> FALSE, cancel |-> FALSE]
                  [] u = current_task /\ ShouldPreempt(type, Burst(type, burst))
                       -> [task[u] EXCEPT !.preempt = TRUE]
                  [] OTHER -> task[u]]
        /\ Signal /\ UNCHANGED <<current_task, result>>
    BY TaskFacts DEF SInv, RecvCommand, Submit
  <2>2. task'[new].state = "waiting"
    BY <2>1, <1>1 DEF Me
  <2>3. ASSUME NEW t \in Tasks \ {new}
        PROVE  /\ task'[t].state = task[t].state /\ task'[t].type = task[t].type
               /\ task'[t].rounds = task[t].rounds
    BY <2>1 DEF TaskRecord
  <2> QED BY <2>1, <2>2, <2>3 DEF Signal
<1>3. /\ ctx'[new] = [NoContext EXCEPT !.refs = 2,
                          !.fd = IF type = "program" THEN sock[c] ELSE NoFd]
      /\ \A t \in Tasks \ {new} : ctx'[t] = ctx[t]
      /\ ctx' \in [Tasks -> Context]
  <2>1. sock[c] \in Fds \cup {NoFd}
    BY DEF SInv, ServerTypeOK
  <2>2. /\ ctx \in [Tasks -> Context]
        /\ ctx' = [ctx EXCEPT ![new] = [NoContext EXCEPT !.refs = 2,
                          !.fd = IF type = "program" THEN sock[c] ELSE NoFd]]
    BY DEF RecvCommand, SInv, ServerTypeOK
  <2>3. PICK f \in Fds \cup {NoFd} : f = IF type = "program" THEN sock[c] ELSE NoFd
    BY <2>1
  <2>4. ctx'[new] = [[NoContext EXCEPT !.refs = 2] EXCEPT !.fd = f]
    BY <1>1, <2>2, <2>3
  <2>5. ctx'[new] = [refs |-> 2, done |-> "no", child_pid |-> FALSE,
                     child_running |-> FALSE, pipe |-> FALSE, fd |-> f]
    BY <2>4 DEF NoContext
  <2>6. ctx'[new] \in Context
    BY <2>5 DEF Context
  <2> QED BY <1>1, <2>2, <2>6
<1>4. ctx'[new].refs = 2 /\ ctx'[new].done = "no" /\ ctx'[new].child_pid = FALSE
  BY <1>3 DEF NoContext
<1>5. /\ job' = [job EXCEPT ![c] = new] /\ handler[c] = "recv" /\ Goto(c, "submitted")
      /\ UNCHANGED <<up, sock, fd_conn, conn, proc, executor_at, slice, stray, answer>>
  BY DEF RecvCommand
<1>6. /\ job'[c] = new /\ handler'[c] = "submitted"
      /\ \A d \in Clients \ {c} : job'[d] = job[d] /\ handler'[d] = handler[d]
      /\ job' \in [Clients -> Tasks \cup {NoTask}] /\ handler' \in [Clients -> Places]
  BY <1>1, <1>5 DEF SInv, ServerTypeOK, Goto, Places
<1>7. executor_at # "idle" => Me \in Tasks \ {new} /\ pc' = pc /\ pc = "executing"
  BY <1>1, <1>2, TaskFacts DEF SInv, Rounds
<1> HIDE DEF new
<1>8. ServerTypeOK'
  BY <1>2, <1>3, <1>5, <1>6, <1>7 DEF SInv, ServerTypeOK, Quantum, Me, Places
<1>9. Jobs'
  <2>1. NoTask \notin Tasks /\ \A d \in Clients : job[d] # NoTask => job[d] \in Tasks
    BY TaskFacts, CountFacts DEF SInv
  <2>2. \A d \in Clients : handler[d] = "respond" => job[d] # NoTask
    BY DEF SInv, Jobs, Awaiting
  <2> QED BY <1>1, <1>2, <1>3, <1>6, <2>1, <2>2 DEF SInv, Jobs, Awaiting
<1>10. Counted'
  <2>1. ASSUME NEW t \in Tasks \ {new} PROVE Owners(t)' = Owners(t)
    <3>1. job[c] = NoTask /\ NoTask \notin Tasks
      BY <1>5, TaskFacts DEF SInv, Jobs, Awaiting
    <3>2. \A d \in Clients : job'[d] = t <=> job[d] = t
      BY <1>6, <2>1, <3>1
    <3> QED BY <1>2, <2>1, <3>2 DEF Owners
  <2>2. ASSUME NEW t \in Tasks, t = new PROVE Owners(t)' = 2
    BY <1>2, <1>6, <2>2 DEF Owners, Live
  <2> QED BY <1>3, <1>4, <2>1, <2>2 DEF SInv, Counted
<1>11. PidNamesChild'
  BY <1>1, <1>3, <1>4, <1>5 DEF SInv, PidNamesChild
<1>12. Rounds'
  BY <1>1, <1>2, <1>5, <1>7 DEF SInv, Rounds, Me
<1>13. Children'
  BY <1>1, <1>2, <1>5 DEF SInv, Children
<1>14. Outputs'
  <2>1. answer[new] # "output"
    BY <1>1 DEF SInv, Outputs, Ended
  <2> QED BY <1>1, <1>2, <1>3, <1>4, <1>5, <2>1 DEF SInv, Outputs, Me
<1> QED BY <1>8, <1>9, <1>10, <1>11, <1>12, <1>13, <1>14 DEF SInv

(* The child processes.                                                    *)
LEMMA ChildStep ==
  ASSUME SInv, Bounded', NEW t \in Tasks, Child(t)
  PROVE  SInv'
<1> USE DEF SInv
<1>1. /\ proc \in [Tasks -> Process] /\ proc[t].state = "running"
      /\ UNCHANGED <<vars, up, handler, job, sock, fd_conn, conn, ctx, executor_at,
                     slice, stray, answer>>
  BY DEF Child, ChildPrints, ChildExits, ServerTypeOK
<1>2. /\ proc' \in [Tasks -> Process]
      /\ \A u \in Tasks \ {t} : proc'[u] = proc[u]
      /\ \/ proc'[t].state = "running"
         \/ proc'[t].state = "zombie" /\ proc'[t].todo = 0
  <2>1. CASE ChildPrints(t)
    <3>1. /\ proc[t].todo \in 0..MaxOutput /\ proc[t].buffered \in 0..PipeSize
          /\ proc[t].todo > 0 /\ proc[t].buffered < PipeSize
          /\ proc[t].state = "running" /\ PipeSize \in Nat /\ MaxOutput \in Nat
      BY <1>1, <2>1, ServerAssumption DEF ChildPrints, Process, ServerAssumption
    <3>2. proc[t].todo - 1 \in 0..MaxOutput /\ proc[t].buffered + 1 \in 0..PipeSize
      BY <3>1
    <3>3. proc' = [proc EXCEPT ![t] = [state |-> "running", todo |-> proc[t].todo - 1,
                                       buffered |-> proc[t].buffered + 1]]
      BY <1>1, <2>1 DEF ChildPrints, Process
    <3> QED BY <1>1, <3>2, <3>3 DEF Process
  <2>2. CASE ChildExits(t)
    BY <1>1, <2>2 DEF ChildExits, Process
  <2> QED BY <2>1, <2>2 DEF Child
<1>3. ServerTypeOK'
  BY <1>1, <1>2 DEF ServerTypeOK, Quantum, Me, vars
<1>4. Jobs' /\ Counted'
  BY <1>1 DEF Jobs, Counted, Owners, vars
<1>5. PidNamesChild'
  BY <1>1, <1>2 DEF PidNamesChild
<1>6. Rounds'
  BY <1>1, <1>2 DEF Rounds, Me, vars
<1>7. Children'
  BY <1>1, <1>2 DEF Children, vars
<1>8. Outputs'
  BY <1>1, <1>2 DEF Outputs, Me, vars
<1> QED BY <1>3, <1>4, <1>5, <1>6, <1>7, <1>8

-----------------------------------------------------------------------------
(* The executor.  What its helpers do to a context and to a child.         *)
LEMMA ContextUpdates ==
  ASSUME NEW x \in Context
  PROVE  /\ \A status \in {"output", "error"} :
              LET y == SetDone(x, status) IN
              y \in Context /\ y.done = status /\ y.refs = x.refs
                /\ y.child_pid = x.child_pid
         /\ LET y == Terminated(x) IN
              y \in Context /\ y.done = x.done /\ y.refs = x.refs
                /\ y.child_pid = FALSE
         /\ LET y == [x EXCEPT !.child_pid = FALSE, !.child_running = FALSE] IN
              y \in Context /\ y.done = x.done /\ y.refs = x.refs
                /\ y.child_pid = FALSE
         /\ \A b \in BOOLEAN : LET y == [x EXCEPT !.child_running = b] IN
              y \in Context /\ y.done = x.done /\ y.refs = x.refs
                /\ y.child_pid = x.child_pid
<1>1. ASSUME NEW status \in {"output", "error"}
      PROVE  LET y == SetDone(x, status) IN
              y \in Context /\ y.done = status /\ y.refs = x.refs
                /\ y.child_pid = x.child_pid
  BY DEF SetDone, Context
<1>2. LET y == Terminated(x) IN
        y \in Context /\ y.done = x.done /\ y.refs = x.refs /\ y.child_pid = FALSE
  BY DEF Terminated, Context
<1>3. LET y == [x EXCEPT !.child_pid = FALSE, !.child_running = FALSE] IN
        y \in Context /\ y.done = x.done /\ y.refs = x.refs /\ y.child_pid = FALSE
  BY DEF Context
<1>4. ASSUME NEW b \in BOOLEAN
      PROVE  LET y == [x EXCEPT !.child_running = b] IN
              y \in Context /\ y.done = x.done /\ y.refs = x.refs
                /\ y.child_pid = x.child_pid
  BY DEF Context
<1> QED BY <1>1, <1>2, <1>3, <1>4

LEMMA EofUpdates ==
  ASSUME NEW x \in Context, NEW p
  PROVE  /\ AtEof(x, p) \in Context
         /\ AtEof(x, p).done = x.done /\ AtEof(x, p).refs = x.refs
         /\ AtEof(x, p).child_pid = x.child_pid
<1> DEFINE b == x.pipe /\ p.state \in {"running", "stopped"}
<1>1. b \in BOOLEAN
  OBVIOUS
<1>2. AtEof(x, p) = [x EXCEPT !.pipe = b]
  BY DEF AtEof
<1> HIDE DEF b
<1> QED BY <1>1, <1>2 DEF Context

LEMMA ProcessUpdates ==
  ASSUME NEW p \in Process
  PROVE  /\ Reaped(p) \in Process /\ Reaped(p).state = "reaped"
         /\ Reaped(p).todo = p.todo
         /\ Drained(p) \in Process /\ Drained(p).state = p.state
         /\ Drained(p).todo = p.todo /\ Drained(p).buffered = 0
         /\ Stopped(p) \in Process /\ Stopped(p).todo = p.todo
         /\ Stopped(p).state = IF p.state = "running" THEN "stopped" ELSE p.state
<1>1. 0 \in 0..PipeSize
  BY ServerAssumption DEF ServerAssumption
<1>2. Reaped(p) \in Process /\ Reaped(p).state = "reaped" /\ Reaped(p).todo = p.todo
  BY DEF Reaped, Process
<1>3. Drained(p) \in Process /\ Drained(p).state = p.state
      /\ Drained(p).todo = p.todo /\ Drained(p).buffered = 0
  BY <1>1 DEF Drained, Process
<1>4. Stopped(p) \in Process /\ Stopped(p).todo = p.todo
      /\ Stopped(p).state = IF p.state = "running" THEN "stopped" ELSE p.state
  BY DEF Stopped, Process
<1> QED BY <1>2, <1>3, <1>4

LEMMA DrainType ==
  ASSUME ServerTypeOK, Me \in Tasks, NEW outcome, DrainPipe(Me, outcome)
  PROVE  /\ conn' \in [Clients -> Gone \cup {"unused", "open", "closed"}]
         /\ stray' \subseteq Clients \X Tasks
<1>1. CASE UNCHANGED <<conn, stray>>
  BY <1>1 DEF ServerTypeOK
<1>2. CASE /\ Sends(ctx[Me].fd, outcome)
           /\ stray' = stray \cup
                { <<c, Me>> : c \in Listener(ctx[Me].fd) \ {task[Me].client} }
  BY <1>2, SendsType DEF ServerTypeOK, Listener
<1> QED BY <1>1, <1>2 DEF DrainPipe

LEMMA LoopFacts ==
  ASSUME NEW n \in Nat, Loop(n)
  PROVE  /\ executor_at' \in {"head", "stopping", "waitpid"}
         /\ slice' \in Nat /\ slice' < Quantum(Me)
<1>1. Quantum(Me) \in Nat /\ 0 < Quantum(Me)
  BY SchedulerAssumption DEF Quantum, SchedulerAssumption
<1> QED BY <1>1 DEF Loop

(* Steps of a round, and what none of them changes.                        *)
Round ==
  /\ \/ RunShell \/ StartChild \/ StartFails \/ ResumeChild \/ LoopHead
     \/ TickDrain \/ Tock \/ Poll \/ StopChild \/ AwaitChild \/ Finish
  /\ UNCHANGED <<up, handler, job, sock, fd_conn, answer>>

LEMMA RoundFrame ==
  ASSUME SInv, Round
  PROVE  /\ pc = "executing" /\ Me \in Tasks /\ task[Me].state = "running"
         /\ UNCHANGED <<up, handler, job, sock, fd_conn, answer, current_task>>
         /\ \A t \in Tasks :
              /\ task'[t].state = task[t].state /\ task'[t].type = task[t].type
              /\ task'[t].rounds = task[t].rounds
<1>1. pc = "executing"
  BY DEF SInv, Rounds, Round, RunShell, StartChild, StartFails, ResumeChild,
     BeginProgram, LoopHead, TickDrain, Tock, Poll, StopChild, AwaitChild, Finish
<1>2. Me \in Tasks /\ task[Me].state = "running" /\ task \in [Tasks -> TaskRecord]
  BY <1>1, TaskFacts DEF SInv
<1>3. \/ UNCHANGED vars
      \/ \E left \in 0..MaxBurst + DefaultBurst : ExecutorWorks(left)
      \/ \E r \in Results : ExecutorReturns(r)
  BY ExecutorUses DEF SInv, Round, ServerExecutor
<1>4. UNCHANGED current_task
  BY <1>3 DEF vars, ExecutorWorks, ExecutorReturns
<1>5. ASSUME NEW t \in Tasks
      PROVE  /\ task'[t].state = task[t].state /\ task'[t].type = task[t].type
             /\ task'[t].rounds = task[t].rounds
  <2>1. CASE UNCHANGED task
    BY <2>1
  <2>2. ASSUME NEW left, ExecutorWorks(left)
        PROVE  /\ task'[t].state = task[t].state /\ task'[t].type = task[t].type
               /\ task'[t].rounds = task[t].rounds
    BY <1>2, <2>2 DEF ExecutorWorks, TaskRecord
  <2> QED BY <1>3, <2>1, <2>2 DEF vars, ExecutorReturns
<1> QED BY <1>1, <1>2, <1>4, <1>5 DEF Round

(* A step of a round that leaves context x and child p.                    *)
LEMMA RoundStep ==
  ASSUME SInv, Bounded', Round,
         NEW x \in Context, NEW p \in Process,
         ctx' = [ctx EXCEPT ![Me] = x], proc' = [proc EXCEPT ![Me] = p],
         conn' \in [Clients -> Gone \cup {"unused", "open", "closed"}],
         stray' \subseteq Clients \X Tasks,
         x.refs = ctx[Me].refs,
         \/ x.done \in {ctx[Me].done, "error"}
         \/ /\ x.done = "output" /\ pc' = "returned" /\ result' = "complete"
            /\ p.state = "none" \/ (p.state = "reaped" /\ p.todo = 0 /\ p.buffered = 0),
         x.child_pid <=> p.state \in {"running", "stopped", "zombie"},
         p.state = "zombie" => p.todo = 0,
         task[Me].type = "shell" => p.state = "none",
         \/ /\ executor_at' = "idle" /\ slice' = 0 /\ pc' = "returned"
            /\ p.state # "running"
         \/ /\ executor_at' \in {"head", "tick", "tock", "poll", "stopping", "waitpid",
                                 "finish"}
            /\ slice' \in Nat /\ slice' < Quantum(Me)
            /\ pc' = "executing" /\ task[Me].type = "program"
            /\ executor_at' = "finish" => p.state = "reaped" /\ p.todo = 0
  PROVE  SInv'
<1> USE DEF SInv
<1>1. /\ pc = "executing" /\ Me \in Tasks /\ task[Me].state = "running"
      /\ UNCHANGED <<up, handler, job, sock, fd_conn, answer, current_task>>
      /\ \A t \in Tasks :
           /\ task'[t].state = task[t].state /\ task'[t].type = task[t].type
           /\ task'[t].rounds = task[t].rounds
  BY RoundFrame
<1>2. ctx \in [Tasks -> Context] /\ proc \in [Tasks -> Process]
  BY DEF ServerTypeOK
<1>3. /\ ctx' \in [Tasks -> Context] /\ proc' \in [Tasks -> Process]
      /\ ctx'[Me] = x /\ proc'[Me] = p
      /\ \A t \in Tasks \ {Me} : ctx'[t] = ctx[t] /\ proc'[t] = proc[t]
  BY <1>1, <1>2
<1>4. ServerTypeOK'
  <2>1. Quantum(Me)' = Quantum(Me)
    BY <1>1 DEF Quantum, Me
  <2> QED BY <1>1, <1>3, <2>1 DEF ServerTypeOK, Me
<1>5. Jobs'
  <2>1. \A c \in Clients : job[c] # NoTask => job[c] \in Tasks
    BY CountFacts
  <2>2. \A c \in Clients : handler[c] = "respond" => job[c] # NoTask
    BY DEF Jobs, Awaiting
  <2>3. ctx[Me].done # "no" => x.done # "no"
    OBVIOUS
  <2> QED BY <1>1, <1>3, <2>1, <2>2, <2>3 DEF Jobs
<1>6. Counted'
  <2>1. \A t \in Tasks : Owners(t)' = Owners(t)
    BY <1>1 DEF Owners
  <2>2. x.refs # 0
    BY <1>1, CountFacts DEF Live
  <2> QED BY <1>1, <1>3, <2>1, <2>2 DEF Counted
<1>7. PidNamesChild'
  BY <1>3 DEF PidNamesChild
<1>8. Rounds'
  BY <1>1, <1>3 DEF Rounds, Me
<1>9. Children'
  BY <1>1, <1>3 DEF Children
<1>10. Outputs'
  <2>1. ctx[Me].done # "output" /\ answer[Me] # "output"
    BY <1>1 DEF Outputs, Ended
  <2> QED BY <1>1, <1>3, <2>1 DEF Outputs, Me
<1> QED BY <1>4, <1>5, <1>6, <1>7, <1>8, <1>9, <1>10

(* What holds at the start of a step of a round.                           *)
LEMMA RoundStart ==
  ASSUME SInv, Round
  PROVE  /\ Me \in Tasks /\ ctx[Me] \in Context /\ proc[Me] \in Process
         /\ ctx = [ctx EXCEPT ![Me] = ctx[Me]] /\ proc = [proc EXCEPT ![Me] = proc[Me]]
         /\ conn \in [Clients -> Gone \cup {"unused", "open", "closed"}]
         /\ stray \subseteq Clients \X Tasks
         /\ ctx[Me].child_pid <=> proc[Me].state \in {"running", "stopped", "zombie"}
         /\ proc[Me].state = "zombie" => proc[Me].todo = 0
         /\ task[Me].type = "shell" => proc[Me].state = "none" /\ executor_at = "idle"
         /\ executor_at # "idle" => task[Me].type = "program"
         /\ proc[Me].state = "running" => executor_at \notin {"idle", "finish"}
         /\ executor_at = "finish" => proc[Me].state = "reaped" /\ proc[Me].todo = 0
         /\ slice \in Nat /\ pc = "executing"
         /\ executor_at # "idle" => slice < Quantum(Me)
<1>1. Me \in Tasks /\ task[Me].state = "running" /\ pc = "executing"
  BY RoundFrame
<1>2. ctx \in [Tasks -> Context] /\ proc \in [Tasks -> Process]
  BY DEF SInv, ServerTypeOK
<1>3. executor_at # "idle" => slice < Quantum(Me)
  BY DEF SInv, ServerTypeOK
<1> QED BY <1>1, <1>2, <1>3 DEF SInv, ServerTypeOK, PidNamesChild, Rounds, Children, Live

(* execute_shell_task, and a round whose child cannot be started.          *)
LEMMA OnlyReturns ==
  ASSUME SInv, Bounded', Round, RunShell \/ StartFails
  PROVE  SInv'
<1>1. CASE RunShell
  <2> DEFINE x == SetDone(ctx[Me], "output")
  <2>1. /\ ctx' = [ctx EXCEPT ![Me] = x] /\ UNCHANGED <<conn, proc, stray>>
        /\ executor_at' = "idle" /\ slice' = 0 /\ pc' = "returned"
        /\ result' = "complete" /\ task[Me].type = "shell"
    BY <1>1 DEF RunShell, Return, ExecutorReturns
  <2>2. x \in Context /\ x.refs = ctx[Me].refs /\ x.done = "output"
        /\ x.child_pid = ctx[Me].child_pid
    BY RoundStart, ContextUpdates
  <2>3. proc[Me].state = "none"
    BY <2>1, RoundStart
  <2> HIDE DEF x
  <2> QED BY <2>1, <2>2, <2>3, RoundStart, RoundStep
<1>2. CASE StartFails
  <2> DEFINE x == SetDone(ctx[Me], "error")
  <2>1. /\ ctx' = [ctx EXCEPT ![Me] = x] /\ UNCHANGED <<conn, proc, stray>>
        /\ executor_at' = "idle" /\ slice' = 0 /\ pc' = "returned"
        /\ executor_at = "idle"
    BY <1>2 DEF StartFails, BeginProgram, Return, ExecutorReturns
  <2>2. x \in Context /\ x.refs = ctx[Me].refs /\ x.done = "error"
        /\ x.child_pid = ctx[Me].child_pid
    BY RoundStart, ContextUpdates
  <2>3. proc[Me].state # "running"
    BY <2>1, RoundStart
  <2> HIDE DEF x
  <2> QED BY <2>1, <2>2, <2>3, RoundStart, RoundStep
<1> QED BY <1>1, <1>2

(* The start or the resumption of a child, and the loop.                   *)
LEMMA ChildBegins ==
  ASSUME SInv, Bounded', Round, StartChild \/ ResumeChild
  PROVE  SInv'
<1>1. /\ executor_at' \in {"head", "stopping", "waitpid"}
      /\ slice' \in Nat /\ slice' < Quantum(Me)
  BY LoopFacts DEF StartChild, ResumeChild
<1>2. /\ UNCHANGED <<conn, stray>> /\ pc' = pc /\ task[Me].type = "program"
  BY DEF StartChild, ResumeChild, BeginProgram, Stay, vars
<1>3. CASE StartChild
  <2>1. PICK n \in 0..MaxOutput :
          proc' = [proc EXCEPT ![Me] = [state |-> "running", todo |-> n,
                                        buffered |-> 0]]
    BY <1>3 DEF StartChild
  <2> DEFINE p == [state |-> "running", todo |-> n, buffered |-> 0]
             x == ctx'[Me]
  <2>2. /\ p \in Process /\ p.state = "running"
    BY ServerAssumption DEF ServerAssumption, Process
  <2>3. ctx' = [ctx EXCEPT ![Me] = x]
    BY <1>3, RoundStart DEF StartChild, SInv, ServerTypeOK
  <2>4. x = [[[ctx[Me] EXCEPT !.child_pid = TRUE] EXCEPT !.child_running = TRUE]
             EXCEPT !.pipe = TRUE]
    BY <1>3, RoundStart DEF StartChild, SInv, ServerTypeOK
  <2>5. x \in Context /\ x.refs = ctx[Me].refs /\ x.done = ctx[Me].done /\ x.child_pid
    BY <2>4, RoundStart DEF Context
  <2> HIDE DEF x, p
  <2> QED BY <1>1, <1>2, <2>1, <2>2, <2>3, <2>5, RoundStart, RoundStep DEF p
<1>4. CASE ResumeChild
  <2> DEFINE s == IF ~ctx[Me].child_running /\ proc[Me].state = "stopped"
                  THEN "running" ELSE proc[Me].state
             p == [proc[Me] EXCEPT !.state = s]
             x == [ctx[Me] EXCEPT !.child_running = TRUE]
  <2>1. ctx' = [ctx EXCEPT ![Me] = x] /\ proc' = [proc EXCEPT ![Me] = p]
    BY <1>4 DEF ResumeChild
  <2>2. x \in Context /\ x.refs = ctx[Me].refs /\ x.done = ctx[Me].done
        /\ x.child_pid = ctx[Me].child_pid
    BY RoundStart, ContextUpdates
  <2>3. s \in {"running", "stopped", "zombie"} /\ (s = "zombie" => proc[Me].todo = 0)
    BY <1>4, RoundStart DEF ResumeChild
  <2>4. ctx[Me].child_pid
    BY <1>4 DEF ResumeChild
  <2> HIDE DEF s
  <2>5. p \in Process /\ p.state = s /\ p.todo = proc[Me].todo
    BY <2>3, RoundStart DEF Process
  <2> HIDE DEF x, p
  <2> QED BY <1>1, <1>2, <2>1, <2>2, <2>3, <2>4, <2>5, RoundStart, RoundStep
<1> QED BY <1>3, <1>4

(* The polls of the loop, for a cancellation and for a preemption.         *)
LEMMA LoopPolls ==
  ASSUME SInv, Bounded', Round, LoopHead \/ Poll
  PROVE  SInv'
<1>1. UNCHANGED <<conn, stray>> /\ task[Me].type = "program"
  BY RoundStart DEF LoopHead, Poll
<1>2. CASE LoopHead /\ task[Me].cancel
  <2> DEFINE x == Terminated(ctx[Me])
             p == Reaped(proc[Me])
  <2>1. /\ ctx' = [ctx EXCEPT ![Me] = x] /\ proc' = [proc EXCEPT ![Me] = p]
        /\ executor_at' = "idle" /\ slice' = 0 /\ pc' = "returned"
    BY <1>2 DEF LoopHead, Return, ExecutorReturns
  <2>2. x \in Context /\ x.refs = ctx[Me].refs /\ x.done = ctx[Me].done
        /\ x.child_pid = FALSE
    BY RoundStart, ContextUpdates
  <2>3. p \in Process /\ p.state = "reaped"
    BY RoundStart, ProcessUpdates
  <2> HIDE DEF x, p
  <2> QED BY <1>1, <2>1, <2>2, <2>3, RoundStart, RoundStep
<1>3. CASE (LoopHead /\ ~task[Me].cancel) \/ Poll
  <2>1. UNCHANGED <<ctx, proc>> /\ pc' = pc
    BY <1>3 DEF LoopHead, Poll, Stay, vars
  <2>2. /\ executor_at' \in {"head", "tick", "stopping", "waitpid"}
        /\ slice' \in Nat /\ slice' < Quantum(Me)
    <3>1. CASE LoopHead /\ ~task[Me].cancel
      BY <3>1, RoundStart DEF LoopHead, Proceed
    <3>2. CASE Poll /\ task[Me].preempt
      <4>1. 0 < Quantum(Me)
        BY SchedulerAssumption DEF SchedulerAssumption, Quantum
      <4> QED BY <3>2, <4>1 DEF Poll
    <3>3. CASE Poll /\ ~task[Me].preempt
      <4>1. Loop(slice + 1) /\ slice + 1 \in Nat
        BY <3>3, RoundStart DEF Poll
      <4> QED BY <4>1, LoopFacts
    <3> QED BY <1>3, <3>1, <3>2, <3>3
  <2> QED BY <1>1, <2>1, <2>2, RoundStart, RoundStep
<1> QED BY <1>2, <1>3

(* The second passes, and the child's output is sent on.                   *)
LEMMA TickDrainStep ==
  ASSUME SInv, Bounded', Round, TickDrain
  PROVE  SInv'
<1>1. task[Me].type = "program" /\ executor_at = "tick"
  BY RoundStart DEF TickDrain
<1>2. /\ conn' \in [Clients -> Gone \cup {"unused", "open", "closed"}]
      /\ stray' \subseteq Clients \X Tasks
  BY RoundStart, DrainType DEF TickDrain, SInv
<1>3. ASSUME /\ proc' = [proc EXCEPT ![Me] = Drained(proc[Me])]
             /\ ctx' = [ctx EXCEPT ![Me] = AtEof(ctx[Me], proc[Me])]
             /\ Stay /\ Proceed("tock")
      PROVE  SInv'
  <2> DEFINE x == AtEof(ctx[Me], proc[Me])
             p == Drained(proc[Me])
  <2>1. /\ ctx' = [ctx EXCEPT ![Me] = x] /\ proc' = [proc EXCEPT ![Me] = p]
        /\ pc' = pc /\ executor_at' = "tock" /\ slice' = slice
    BY <1>3 DEF Stay, Proceed, vars
  <2>2. x \in Context /\ x.refs = ctx[Me].refs /\ x.done = ctx[Me].done
        /\ x.child_pid = ctx[Me].child_pid
    BY RoundStart, EofUpdates
  <2>3. p \in Process /\ p.state = proc[Me].state /\ p.todo = proc[Me].todo
    BY RoundStart, ProcessUpdates
  <2> HIDE DEF x, p
  <2> QED BY <1>1, <1>2, <2>1, <2>2, <2>3, RoundStart, RoundStep
<1>4. ASSUME /\ proc' = [proc EXCEPT ![Me] = Reaped(proc[Me])]
             /\ ctx' = [ctx EXCEPT ![Me] = SetDone(Terminated(ctx[Me]), "error")]
             /\ Return("requeue")
      PROVE  SInv'
  <2> DEFINE x == SetDone(Terminated(ctx[Me]), "error")
             p == Reaped(proc[Me])
  <2>1. /\ ctx' = [ctx EXCEPT ![Me] = x] /\ proc' = [proc EXCEPT ![Me] = p]
        /\ executor_at' = "idle" /\ slice' = 0 /\ pc' = "returned"
    BY <1>4 DEF Return, ExecutorReturns
  <2>2. /\ Terminated(ctx[Me]) \in Context
        /\ Terminated(ctx[Me]).refs = ctx[Me].refs
        /\ Terminated(ctx[Me]).child_pid = FALSE
    BY RoundStart, ContextUpdates
  <2>3. x \in Context /\ x.refs = ctx[Me].refs /\ x.done = "error"
        /\ x.child_pid = FALSE
    BY <2>2, ContextUpdates
  <2>4. p \in Process /\ p.state = "reaped"
    BY RoundStart, ProcessUpdates
  <2> HIDE DEF x, p
  <2> QED BY <1>1, <1>2, <2>1, <2>3, <2>4, RoundStart, RoundStep
<1> QED BY <1>3, <1>4 DEF TickDrain

(* The child is found to have exited, by Tock or by AwaitChild, or runs on. *)
LEMMA ChildWaits ==
  ASSUME SInv, Bounded', Round, Tock \/ AwaitChild
  PROVE  SInv'
<1>1. task[Me].type = "program" /\ UNCHANGED <<conn, stray>>
  BY RoundStart DEF Tock, AwaitChild
<1>2. pc' = "executing"
  BY RoundStart DEF Tock, AwaitChild, ExecutorWorks, Stay, vars
<1>3. CASE Tock /\ proc[Me].state # "zombie"
  <2>1. UNCHANGED <<ctx, proc>> /\ executor_at' = "poll" /\ slice' = slice
        /\ executor_at = "tock"
    BY <1>3 DEF Tock, Proceed
  <2> QED BY <1>1, <1>2, <2>1, RoundStart, RoundStep
<1>4. CASE proc[Me].state = "zombie"
  <2> DEFINE x == [ctx[Me] EXCEPT !.child_pid = FALSE, !.child_running = FALSE]
             p == Reaped(proc[Me])
  <2>1. /\ ctx' = [ctx EXCEPT ![Me].child_pid = FALSE, ![Me].child_running = FALSE]
        /\ proc' = [proc EXCEPT ![Me] = p] /\ executor_at' = "finish"
        /\ slice' \in {0, slice} /\ executor_at # "idle"
    BY <1>4 DEF Tock, AwaitChild, Proceed
  <2>2. ctx' = [ctx EXCEPT ![Me] = x]
    BY <2>1, RoundStart DEF SInv, ServerTypeOK, Context
  <2>3. x \in Context /\ x.refs = ctx[Me].refs /\ x.done = ctx[Me].done
        /\ x.child_pid = FALSE
    BY RoundStart, ContextUpdates
  <2>4. p \in Process /\ p.state = "reaped" /\ p.todo = 0
    BY <1>4, RoundStart, ProcessUpdates
  <2>5. slice' \in Nat /\ slice' < Quantum(Me)
    BY <2>1, RoundStart, SchedulerAssumption DEF SchedulerAssumption, Quantum
  <2> HIDE DEF x, p
  <2> QED BY <1>1, <1>2, <2>1, <2>2, <2>3, <2>4, <2>5, RoundStart, RoundStep
<1> QED BY <1>3, <1>4 DEF AwaitChild

(* The end of a round that leaves the child stopped.                       *)
LEMMA StopChildStep ==
  ASSUME SInv, Bounded', Round, StopChild
  PROVE  SInv'
<1>1. task[Me].type = "program" /\ executor_at = "stopping"
  BY RoundStart DEF StopChild
<1>2. PICK outcome \in {"sent", "failed"} :
        /\ DrainPipe(Me, outcome)
        /\ proc' = [proc EXCEPT ![Me] = Drained(Stopped(proc[Me]))]
        /\ ctx' = [ctx EXCEPT ![Me] =
                     LET x == [ctx[Me] EXCEPT !.child_running = FALSE]
                     IN  IF outcome = "sent" THEN AtEof(x, proc[Me])
                         ELSE SetDone(x, "error")]
  BY DEF StopChild
<1>3. /\ conn' \in [Clients -> Gone \cup {"unused", "open", "closed"}]
      /\ stray' \subseteq Clients \X Tasks
  BY <1>2, RoundStart, DrainType DEF SInv
<1> DEFINE y == [ctx[Me] EXCEPT !.child_running = FALSE]
           x == IF outcome = "sent" THEN AtEof(y, proc[Me]) ELSE SetDone(y, "error")
           p == Drained(Stopped(proc[Me]))
<1>4. /\ ctx' = [ctx EXCEPT ![Me] = x] /\ proc' = [proc EXCEPT ![Me] = p]
      /\ executor_at' = "idle" /\ slice' = 0 /\ pc' = "returned"
  BY <1>2 DEF StopChild, Return, ExecutorReturns
<1>5. y \in Context /\ y.refs = ctx[Me].refs /\ y.done = ctx[Me].done
      /\ y.child_pid = ctx[Me].child_pid
  BY RoundStart, ContextUpdates
<1> HIDE DEF y
<1>6. x \in Context /\ x.refs = ctx[Me].refs /\ x.done \in {ctx[Me].done, "error"}
      /\ x.child_pid = ctx[Me].child_pid
  <2>1. CASE outcome = "sent"
    BY <1>5, <2>1, EofUpdates
  <2>2. CASE outcome = "failed"
    BY <1>5, <2>2, ContextUpdates
  <2> QED BY <2>1, <2>2
<1>7. /\ p \in Process /\ p.todo = proc[Me].todo
      /\ p.state = IF proc[Me].state = "running" THEN "stopped" ELSE proc[Me].state
  BY RoundStart, ProcessUpdates
<1> HIDE DEF x, p
<1> QED BY <1>1, <1>3, <1>4, <1>6, <1>7, RoundStart, RoundStep

(* The end of a program.                                                   *)
LEMMA FinishStep ==
  ASSUME SInv, Bounded', Round, Finish
  PROVE  SInv'
<1>1. task[Me].type = "program" /\ executor_at = "finish"
  BY RoundStart DEF Finish
<1>2. /\ conn' \in [Clients -> Gone \cup {"unused", "open", "closed"}]
      /\ stray' \subseteq Clients \X Tasks
  BY RoundStart, DrainType DEF Finish, SInv
<1> DEFINE p == Drained(proc[Me])
<1>3. /\ proc' = [proc EXCEPT ![Me] = p]
      /\ executor_at' = "idle" /\ slice' = 0 /\ pc' = "returned"
  BY DEF Finish, Return, ExecutorReturns
<1>4. p \in Process /\ p.state = "reaped" /\ p.todo = 0 /\ p.buffered = 0
  BY <1>1, RoundStart, ProcessUpdates
<1> HIDE DEF p
<1>5. ASSUME NEW status \in {"output", "error"}, NEW y \in {ctx[Me], AtEof(ctx[Me], proc[Me])},
             ctx' = [ctx EXCEPT ![Me] = SetDone(y, status)],
             status = "output" => result' = "complete"
      PROVE  SInv'
  <2> DEFINE x == SetDone(y, status)
  <2>1. y \in Context /\ y.refs = ctx[Me].refs /\ y.child_pid = ctx[Me].child_pid
    BY RoundStart, EofUpdates
  <2>2. x \in Context /\ x.refs = ctx[Me].refs /\ x.done = status
        /\ x.child_pid = ctx[Me].child_pid
    BY <2>1, ContextUpdates
  <2>3. ctx' = [ctx EXCEPT ![Me] = x]
    BY <1>5
  <2> HIDE DEF x
  <2> QED BY <1>1, <1>2, <1>3, <1>4, <1>5, <2>2, <2>3, RoundStart, RoundStep
<1>6. \/ /\ ctx' = [ctx EXCEPT ![Me] = SetDone(AtEof(ctx[Me], proc[Me]), "output")]
         /\ result' = "complete"
      \/ ctx' = [ctx EXCEPT ![Me] = SetDone(ctx[Me], "error")]
  BY DEF Finish, Return, ExecutorReturns
<1> QED BY <1>5, <1>6

-----------------------------------------------------------------------------
LEMMA RoundInv ==
  ASSUME SInv, Bounded', Round
  PROVE  SInv'
BY OnlyReturns, ChildBegins, LoopPolls, TickDrainStep, ChildWaits, StopChildStep,
   FinishStep DEF Round

LEMMA NextSInv == SInv /\ [ServerNext]_allvars => SInv'
<1> SUFFICES ASSUME SInv, [ServerNext]_allvars PROVE SInv'
  OBVIOUS
<1>1. Bounded'
  BY UsesScheduler, BoundedStep DEF SInv
<1>2. CASE ServerThread
  <2>1. CASE Finalize /\ Release({Me})
    BY <1>1, <1>2, <2>1, CleanupStep DEF ServerThread
  <2>2. CASE /\ WaitForSignal \/ NothingToDispatch \/ Requeue
                \/ \E t \in Tasks : Dispatch(t)
             /\ UNCHANGED <<ctx, proc>>
    <3>1. UNCHANGED servervars
      BY <1>2, <2>2 DEF ServerThread, servervars
    <3> QED BY <1>1, <2>2, <3>1, ThreadStep
  <2> QED BY <1>2, <2>1, <2>2 DEF ServerThread
<1>3. CASE ServerExecutor
  BY <1>1, <1>3, RoundInv, QuietStep DEF ServerExecutor, Round
<1>4. CASE SpuriousWakeup /\ UNCHANGED servervars
  BY <1>1, <1>4, ThreadStep
<1>5. ASSUME NEW c \in Clients, Handler(c) \/ Client(c)
      PROVE  SInv'
  <2>1. CASE Quiet(c)
    BY <1>1, <2>1, QuietStep
  <2>2. CASE RecvNothing(c) \/ WaitClosed(c)
    BY <1>1, <2>2, HangUpStep
  <2>3. CASE LetGo(c) \/ Leave(c)
    BY <1>1, <2>3, GiveBackStep
  <2>4. ASSUME NEW burst \in 1..MaxBurst, RecvCommand(c, "program", burst)
        PROVE  SInv'
    BY <1>1, <2>4, RecvCommandStep, SchedulerAssumption DEF SchedulerAssumption, Types
  <2>5. CASE RecvCommand(c, "shell", 0)
    BY <1>1, <2>5, RecvCommandStep DEF Types
  <2> QED BY <1>5, <2>1, <2>2, <2>3, <2>4, <2>5 DEF Handler, Client, Quiet
<1>6. ASSUME NEW t \in Tasks, Child(t)
      PROVE  SInv'
  BY <1>1, <1>6, ChildStep
<1>7. CASE UNCHANGED allvars
  <2>1. UNCHANGED servervars /\ UNCHANGED vars
    BY <1>7 DEF allvars
  <2> QED BY <1>1, <2>1 DEF SInv, servervars, vars, ServerTypeOK, Jobs, Counted, Owners,
          PidNamesChild, Rounds, Children, Outputs, Quantum, Me
<1> QED BY <1>2, <1>3, <1>4, <1>5, <1>6, <1>7 DEF ServerNext

LEMMA ServerInvariance == ServerSpec => []SInv
<1>1. ServerInit => SInv
  BY InitSInv
<1>2. SInv /\ [ServerNext]_allvars => SInv'
  BY NextSInv
<1> QED BY <1>1, <1>2, PTL DEF ServerSpec

(* Every variable of the server keeps to its type: no context is released  *)
(* by more than its two holders, and the executor's loop counter stays     *)
(* below the quantum of the round.                                         *)
THEOREM ServerTypeCorrect == ServerSpec => []ServerTypeOK
<1>1. SInv => ServerTypeOK
  BY DEF SInv
<1> QED BY <1>1, ServerInvariance, PTL

(* The reference count of task_context_release: a context is there as long *)
(* as the scheduler owns its task or a handler waits for it, and no longer. *)
THEOREM ContextsCounted == ServerSpec => []ContextCounted
<1>1. ASSUME SInv
      PROVE  ContextCounted
  <2> SUFFICES ASSUME NEW t \in Tasks
               PROVE  ctx[t].refs = (IF task[t].state \in Live THEN 1 ELSE 0)
                                    + Cardinality({c \in Clients : job[c] = t})
    BY DEF ContextCounted
  <2> DEFINE holders == {c \in Clients : job[c] = t}
  <2>1. ctx[t].refs = Owners(t) /\ t # NoTask
    BY <1>1, TaskFacts DEF SInv, Counted
  <2>2. Cardinality(holders) = IF \E c \in Clients : job[c] = t THEN 1 ELSE 0
    <3>1. CASE \E c \in Clients : job[c] = t
      <4>1. PICK c \in Clients : job[c] = t
        BY <3>1
      <4>2. holders = {c}
        BY <1>1, <2>1, <4>1 DEF SInv, Jobs
      <4> QED BY <3>1, <4>2, FS_Singleton
    <3>2. CASE ~ \E c \in Clients : job[c] = t
      <4>1. holders = {}
        BY <3>2
      <4> QED BY <3>2, <4>1, FS_EmptySet
    <3> QED BY <3>1, <3>2
  <2> QED BY <2>1, <2>2 DEF Owners
<1> QED BY <1>1, ServerInvariance, PTL

(* child_pid is set while there is a child to signal and to reap, and only *)
(* then: kill never meets the pid of a process that has been waited for,   *)
(* and a child outlives neither its task nor its context.                  *)
THEOREM PidsNameChildren == ServerSpec => []PidNamesChild
<1>1. SInv => PidNamesChild
  BY DEF SInv
<1> QED BY <1>1, ServerInvariance, PTL

(* A child runs only while its task is in its round: every way out of      *)
(* execute_program_task stops it, kills it or has seen it exit.            *)
THEOREM ChildrenRunInRounds == ServerSpec => []ChildRunsInItsRound
<1>1. SInv => ChildRunsInItsRound
  BY DEF SInv, Rounds, ChildRunsInItsRound
<1> QED BY <1>1, ServerInvariance, PTL

(* A client is told that its program is done only when everything the      *)
(* program printed has been taken out of the pipe and sent.                *)
THEOREM AnswersFollowOutput == ServerSpec => []AnswerFollowsOutput
<1>1. SInv => AnswerFollowsOutput
  BY DEF SInv, Outputs, AnswerFollowsOutput
<1> QED BY <1>1, ServerInvariance, PTL
=============================================================================
