----------------------------- MODULE SchedulerTest -----------------------------
(***************************************************************************)
(* The test harness src/src/scheduler_test.c: its fake_executor plugged     *)
(* into the scheduler, and its main, which submits a long program, a        *)
(* shorter one and a shell command.  What usleep orders in a test run is    *)
(* left open here, so the run covers the interleavings a test run misses.   *)
(***************************************************************************)
EXTENDS Scheduler

VARIABLES
  executor_at,  \* where fake_executor is
  slice,        \* its loop counter
  main_at,      \* where main is
  granted       \* history: time units run since a shell command waits

testvars == <<vars, executor_at, slice, main_at, granted>>

(* Task A, task B and task C of main: client, type, burst.                 *)
Plan == << [client |-> 1, type |-> "program", burst |-> 8],
           [client |-> 2, type |-> "program", burst |-> 2],
           [client |-> 3, type |-> "shell",   burst |-> 0] >>

ASSUME HarnessAssumption ==
  /\ MaxTasks = Len(Plan)
  /\ \A i \in DOMAIN Plan : /\ Plan[i].client \in Clients
                            /\ Plan[i].burst <= MaxBurst

TestInit ==
  /\ Init
  /\ executor_at = "idle" /\ slice = 0
  /\ main_at = 1
  /\ granted = 0

ShellWaits == \E t \in Queued : task[t].type = "shell"

Remember == granted' = IF ShellWaits' THEN granted ELSE 0

-----------------------------------------------------------------------------
(* fake_executor, one time unit at a time.                                 *)

Me == task[current_task]

Return(r) ==
  /\ ExecutorReturns(r)
  /\ executor_at' = "idle"
  /\ UNCHANGED slice

RunShell ==
  /\ pc = "executing" /\ Me.type = "shell"
  /\ Return("complete")

BeginRound ==
  /\ pc = "executing" /\ executor_at = "idle" /\ Me.type = "program"
  /\ executor_at' = "head" /\ slice' = 0
  /\ UNCHANGED vars

(* The loop condition and scheduler_task_should_cancel.                    *)
LoopHead ==
  /\ executor_at = "head"
  /\ IF slice < Quantum(current_task) /\ Me.remaining > 0
     THEN IF Me.cancel THEN Return("cancelled")
          ELSE executor_at' = "tick" /\ UNCHANGED <<vars, slice>>
     ELSE Return(IF Me.remaining > 0 THEN "requeue" ELSE "complete")

Tick ==
  /\ executor_at = "tick"
  /\ ExecutorWorks(Me.remaining - 1)
  /\ executor_at' = "burst_left"
  /\ UNCHANGED slice

BurstOver ==
  /\ executor_at = "burst_left" /\ Me.remaining <= 0
  /\ Return("complete")

(* Faulty: the preemption flag is not looked at.                           *)
PollPreemptFaulty ==
  /\ executor_at = "burst_left" /\ Me.remaining > 0
  /\ executor_at' = "head" /\ slice' = slice + 1 /\ UNCHANGED vars

(* scheduler_task_should_preempt.                                          *)
PollPreempt ==
  /\ executor_at = "burst_left" /\ Me.remaining > 0
  /\ IF Me.preempt THEN Return("requeue")
     ELSE executor_at' = "head" /\ slice' = slice + 1 /\ UNCHANGED vars

FakeExecutor ==
  /\ \/ RunShell \/ BeginRound \/ LoopHead \/ BurstOver \/ PollPreempt
     \/ Tick
  /\ granted' = IF ShellWaits /\ task'[current_task].remaining < Me.remaining
                THEN granted + 1 ELSE granted
  /\ UNCHANGED main_at

-----------------------------------------------------------------------------
(* main.                                                                   *)

SubmitNext ==
  /\ main_at \in DOMAIN Plan
  /\ Submit(Plan[main_at].client, Plan[main_at].type, Plan[main_at].burst)
  /\ main_at' = main_at + 1

(* Faulty: main does not wait for the work to be done.                     *)
AwaitIdleFaulty ==
  /\ main_at = Len(Plan) + 1
  /\ main_at' = main_at + 1
  /\ UNCHANGED vars

(* The loop around scheduler_has_active_work.                              *)
AwaitIdle ==
  /\ main_at = Len(Plan) + 1
  /\ active_task_count <= 0
  /\ main_at' = main_at + 1
  /\ UNCHANGED vars

StopScheduler ==
  /\ main_at = Len(Plan) + 2
  /\ RequestStop
  /\ main_at' = main_at + 1

JoinScheduler ==
  /\ main_at = Len(Plan) + 3
  /\ JoinAndDestroy
  /\ main_at' = main_at + 1

Main ==
  /\ SubmitNext \/ AwaitIdle \/ StopScheduler \/ JoinScheduler
  /\ Remember
  /\ UNCHANGED <<executor_at, slice>>

-----------------------------------------------------------------------------
TestThread ==
  /\ SchedulerThread
  /\ Remember
  /\ UNCHANGED <<executor_at, slice, main_at>>

TestWakeup ==
  /\ SpuriousWakeup
  /\ UNCHANGED <<executor_at, slice, main_at, granted>>

TestNext == TestThread \/ TestWakeup \/ FakeExecutor \/ Main

HarnessSpec == TestInit /\ [][TestNext]_testvars

(* Three threads of control, each of which the system runs.                *)
TestSpec ==
  /\ HarnessSpec
  /\ WF_testvars(TestThread)
  /\ WF_testvars(FakeExecutor)
  /\ WF_testvars(Main)

-----------------------------------------------------------------------------
(* fake_executor keeps to what the scheduler's model allows an executor.   *)
IsAScheduler == Spec

(* The comment of main says the shell command should run immediately next.  *)
(* It does but for one time unit: the program that runs when it arrives    *)
(* gets no second unit before the shell command is dispatched.             *)
ShellRunsNext == granted <= 1

(* The harness ends, with every task run to its end, whatever the timing.  *)
HarnessCompletes == <>(main_at = Len(Plan) + 4)

NothingLeftUndone ==
  main_at > Len(Plan) + 1 =>
    \A t \in Tasks : task[t].state = "finished"
=============================================================================
