------------------------- MODULE SchedulerTestProofs -------------------------
(***************************************************************************)
(* What is proved of the test harness for every timing of its threads and   *)
(* every pair of quanta: fake_executor is an executor of the scheduler, the *)
(* shell command runs next, and main finds its work done.                   *)
(***************************************************************************)
EXTENDS SchedulerTest, SchedulerProofs

HarnessTyped ==
  /\ executor_at \in {"idle", "head", "tick", "burst_left"}
  /\ slice \in Nat
  /\ main_at \in 1..Len(Plan) + 4
  /\ granted \in {0, 1}

(* fake_executor is inside its loop only for a program in its round, and   *)
(* takes a unit off a burst only when there is one.                        *)
InRound ==
  executor_at # "idle" =>
    /\ pc = "executing" /\ Me.type = "program"
    /\ executor_at = "tick" => Me.remaining > 0

(* Nobody cancels, so a round ends with what the executor found: the work  *)
(* is done, or some of it is left.                                         *)
NothingFails ==
  /\ \A t \in Tasks : ~task[t].cancel /\ task[t].state \notin {"cancelled", "freed"}
  /\ result \in {"none", "complete", "requeue"}
  /\ result = "requeue" => Me.remaining > 0

(* main submits its tasks in order, and once it has seen the scheduler idle *)
(* after the last of them all are finished and stay so.                    *)
InOrder ==
  /\ next_task_id = IF main_at > Len(Plan) THEN Len(Plan) + 1 ELSE main_at
  /\ pc = "destroyed" => main_at = Len(Plan) + 4
  /\ NothingLeftUndone

(* After the one unit that a shell command may have to wait, the executor  *)
(* is on its way out and the next to be dispatched is a shell command.     *)
OnlyOneUnit ==
  granted = 1 =>
    /\ ShellWaits
    /\ pc = "executing" => executor_at = "burst_left" \/ Me.type = "shell"

HInv ==
  Bounded /\ HarnessTyped /\ InRound /\ NothingFails /\ InOrder /\ OnlyOneUnit

-----------------------------------------------------------------------------
LEMMA PlanFacts ==
  /\ Len(Plan) = 3 /\ DOMAIN Plan = 1..3 /\ Tasks = 1..3
  /\ \A i \in 1..3 : /\ Plan[i].client \in Clients
                     /\ Plan[i].type \in Types
                     /\ Plan[i].burst \in 0..MaxBurst
<1>1. Len(Plan) = 3 /\ DOMAIN Plan = 1..3
  BY DEF Plan
<1>2. \A i \in 1..3 : Plan[i].type \in Types /\ Plan[i].burst \in Nat
  BY DEF Plan, Types
<1> QED BY <1>1, <1>2, HarnessAssumption, SchedulerAssumption DEF Tasks

LEMMA InitHInv == TestInit => HInv
<1> SUFFICES ASSUME TestInit PROVE HInv
  OBVIOUS
<1>1. Bounded
  BY InitBounded DEF TestInit
<1>2. HarnessTyped /\ InRound /\ OnlyOneUnit
  BY PlanFacts DEF TestInit, HarnessTyped, InRound, OnlyOneUnit
<1>3. NothingFails
  BY DEF TestInit, Init, NothingFails, Blank
<1>4. InOrder
  BY PlanFacts DEF TestInit, Init, InOrder, NothingLeftUndone
<1> QED BY <1>1, <1>2, <1>3, <1>4 DEF HInv

(* What the invariant says of the task in its round.                       *)
LEMMA RoundFacts ==
  ASSUME HInv
  PROVE  /\ task \in [Tasks -> TaskRecord] /\ NoTask \notin Tasks
         /\ pc \in {"executing", "returned"} => current_task \in Tasks /\ Me \in TaskRecord
         /\ pc = "executing" => current_task \notin Queued
         /\ executor_at # "idle" => pc = "executing"
<1>1. /\ task \in [Tasks -> TaskRecord] /\ NoTask \notin Tasks
      /\ pc \in {"executing", "returned"} => current_task \in Tasks
  BY SchedulerFacts DEF HInv
<1>2. pc = "executing" => current_task \notin Queued
  BY SchedulerFacts DEF HInv
<1>3. executor_at # "idle" => pc = "executing"
  BY DEF HInv, InRound
<1> QED BY <1>1, <1>2, <1>3 DEF Me

(* Each step of fake_executor is one that an executor may take.            *)
LEMMA ExecutorUses ==
  ASSUME HInv, FakeExecutor
  PROVE  \/ UNCHANGED vars
         \/ \E left \in 0..MaxBurst + DefaultBurst : ExecutorWorks(left)
         \/ \E r \in Results : ExecutorReturns(r)
<1>1. CASE Tick
  <2>1. /\ ExecutorWorks(Me.remaining - 1) /\ executor_at = "tick" /\ pc = "executing"
    BY <1>1, RoundFacts DEF Tick
  <2>2. Me.remaining > 0 /\ Me.remaining \in Int /\ Me.remaining <= MaxBurst + DefaultBurst
    BY <2>1, RoundFacts DEF HInv, InRound, Bounded, Me, TaskRecord
  <2>3. Me.remaining - 1 \in 0..MaxBurst + DefaultBurst
    BY <2>2, SchedulerAssumption
  <2> QED BY <2>1, <2>3
<1>2. CASE RunShell \/ BeginRound \/ LoopHead \/ BurstOver \/ PollPreempt
  BY <1>2 DEF RunShell, BeginRound, LoopHead, BurstOver, PollPreempt, Return, Results
<1> QED BY <1>1, <1>2 DEF FakeExecutor

LEMMA HarnessUses == HInv /\ [TestNext]_testvars => [Next]_vars
<1> SUFFICES ASSUME HInv, [TestNext]_testvars PROVE [Next]_vars
  OBVIOUS
<1>1. CASE TestThread
  BY <1>1 DEF TestThread, Next
<1>2. CASE TestWakeup
  BY <1>2 DEF TestWakeup, Next
<1>3. CASE FakeExecutor
  BY <1>3, ExecutorUses DEF Next, Executor
<1>4. CASE SubmitNext
  BY <1>4, PlanFacts DEF SubmitNext, Next, Callers
<1>5. CASE AwaitIdle \/ StopScheduler \/ JoinScheduler
  BY <1>5 DEF AwaitIdle, StopScheduler, JoinScheduler, Next, Callers
<1>6. CASE UNCHANGED testvars
  BY <1>6 DEF testvars
<1> QED BY <1>1, <1>2, <1>3, <1>4, <1>5, <1>6 DEF TestNext, Main

LEMMA NextBounded == HInv /\ [TestNext]_testvars => Bounded'
BY HarnessUses, BoundedStep DEF HInv

-----------------------------------------------------------------------------
(* The steps of the scheduler thread happen between rounds.                *)
LEMMA ThreadPlace ==
  ASSUME HInv, SchedulerThread
  PROVE  /\ executor_at = "idle" /\ next_task_id' = next_task_id
         /\ pc # "destroyed" /\ pc' # "destroyed"
<1>1. pc # "executing" /\ next_task_id' = next_task_id /\ pc # "destroyed" /\ pc' # "destroyed"
  BY DEF SchedulerThread, WaitForSignal, Exit, NothingToDispatch, Dispatch, MayDispatch,
     StartRound, Requeue, Finalize, EndRound
<1> QED BY <1>1 DEF HInv, InRound

(* What the scheduler thread does to the tasks and to the list.            *)
LEMMA ThreadEffect ==
  ASSUME HInv, SchedulerThread
  PROVE  \/ UNCHANGED <<task, waiting, current_task, result>> /\ pc' # "executing"
            /\ pc # "returned"
         \/ \E t \in Tasks :
              /\ Dispatch(t) /\ t \in Queued
              /\ pc' = "executing" /\ current_task' = t
              /\ ShellWaits => task[t].type = "shell"
         \/ Requeue
         \/ Finalize
<1>1. CASE WaitForSignal \/ Exit \/ NothingToDispatch
  BY <1>1 DEF WaitForSignal, Exit, NothingToDispatch
<1>2. ASSUME NEW t \in Tasks, Dispatch(t)
      PROVE  /\ t \in Queued /\ pc' = "executing" /\ current_task' = t
             /\ ShellWaits => task[t].type = "shell"
  <2>1. pc' = "executing" /\ current_task' = t /\ NextToDispatch(t)
    BY <1>2 DEF Dispatch, StartRound
  <2>2. CASE ShellWaits
    <3>1. FirstShell(t)
      BY <2>1, <2>2 DEF NextToDispatch, ShellWaits
    <3> QED BY <2>1, <3>1 DEF FirstShell, Queued, Range
  <2>3. CASE ~ShellWaits
    <3>1. ShortestProgram(t)
      BY <2>1, <2>3 DEF NextToDispatch, ShellWaits
    <3> QED BY <2>1, <2>3, <3>1 DEF ShortestProgram, Shortest, Programs
  <2> QED BY <2>1, <2>2, <2>3
<1> QED BY <1>1, <1>2 DEF SchedulerThread

(* A task keeps its type while it is in use.                               *)
LEMMA ThreadNothingFails ==
  ASSUME HInv, SchedulerThread
  PROVE  /\ NothingFails'
         /\ \A t \in Tasks : task[t].state = "finished" => task'[t].state = "finished"
<1> USE RoundFacts DEF NothingFails
<1>0. NothingFails
  BY DEF HInv
<1>1. CASE UNCHANGED <<task, waiting, current_task, result>>
  BY <1>0, <1>1 DEF Me
<1>2. ASSUME NEW t \in Tasks, Dispatch(t), t \in Queued
      PROVE  /\ NothingFails'
             /\ \A u \in Tasks : task[u].state = "finished" => task'[u].state = "finished"
  <2>1. /\ task' = [task EXCEPT ![t].state = "running", ![t].preempt = FALSE]
        /\ result' = result /\ pc = "locking"
    BY <1>2 DEF Dispatch, MayDispatch, StartRound
  <2>2. task[t].state = "waiting" /\ result = "none"
    BY <1>2, <2>1, SchedulerFacts DEF HInv, Bounded, IInv, Bookkeeping
  <2>3. \A u \in Tasks \ {t} : task'[u] = task[u]
    BY <2>1
  <2>4. task'[t].state = "running" /\ task'[t].cancel = task[t].cancel
    BY <2>1 DEF TaskRecord
  <2> QED BY <1>0, <2>1, <2>2, <2>3, <2>4
<1>3. CASE Requeue
  <2>1. /\ task' = [task EXCEPT ![current_task].state = "waiting", ![current_task].rounds = 1,
                                ![current_task].preempt = FALSE]
        /\ result' = "none" /\ current_task \in Tasks
    BY <1>3 DEF Requeue, EndRound
  <2>2. task[current_task].state = "running"
    BY <2>1, SchedulerFacts DEF HInv
  <2>3. \A u \in Tasks \ {current_task} : task'[u] = task[u]
    BY <2>1
  <2>4. /\ task'[current_task].state = "waiting"
        /\ task'[current_task].cancel = task[current_task].cancel
    BY <2>1 DEF TaskRecord
  <2> QED BY <1>0, <2>1, <2>2, <2>3, <2>4
<1>4. CASE Finalize
  <2>1. /\ task' = [task EXCEPT ![current_task] = Blank(Outcome)]
        /\ result' = "none" /\ current_task \in Tasks /\ ~MayRequeue /\ pc = "returned"
    BY <1>4 DEF Finalize, EndRound
  <2>2. result \in {"complete", "requeue"}
    BY <1>0, <2>1 DEF HInv, Bounded, IInv, Bookkeeping
  <2>3. result = "complete"
    BY <1>0, <2>1, <2>2 DEF MayRequeue, Me
  <2>4. Outcome = "finished"
    BY <1>0, <2>1, <2>3 DEF Outcome
  <2>5. \A u \in Tasks \ {current_task} : task'[u] = task[u]
    BY <2>1
  <2>6. task'[current_task].state = "finished" /\ ~task'[current_task].cancel
    BY <2>1, <2>4, BlankRecord DEF Blank
  <2> QED BY <1>0, <2>1, <2>5, <2>6
<1> QED BY <1>1, <1>2, <1>3, <1>4, ThreadEffect

LEMMA ThreadHInv == HInv /\ TestThread => HInv'
<1> SUFFICES ASSUME HInv, TestThread PROVE HInv'
  OBVIOUS
<1>0. /\ SchedulerThread /\ UNCHANGED <<executor_at, slice, main_at>>
      /\ granted' = (IF ShellWaits' THEN granted ELSE 0)
      /\ executor_at = "idle" /\ next_task_id' = next_task_id /\ pc' # "destroyed"
  BY ThreadPlace DEF TestThread, Remember
<1>1. Bounded'
  BY NextBounded DEF TestNext
<1>2. HarnessTyped'
  BY <1>0 DEF HInv, HarnessTyped
<1>3. InRound'
  BY <1>0 DEF InRound
<1>4. NothingFails'
  BY <1>0, ThreadNothingFails
<1>5. InOrder'
  BY <1>0, ThreadNothingFails DEF HInv, InOrder, NothingLeftUndone
<1>6. OnlyOneUnit'
  <2> SUFFICES ASSUME granted' = 1
               PROVE  pc' = "executing" => task'[current_task'].type = "shell"
    BY <1>0 DEF OnlyOneUnit, Me
  <2>1. granted = 1 /\ ShellWaits
    BY <1>0 DEF HInv, OnlyOneUnit
  <2>2. ASSUME NEW t \in Tasks, Dispatch(t), current_task' = t, task[t].type = "shell"
        PROVE  task'[current_task'].type = "shell"
    <3>1. task' = [task EXCEPT ![t].state = "running", ![t].preempt = FALSE]
      BY <2>2 DEF Dispatch, StartRound
    <3> QED BY <2>2, <3>1, RoundFacts DEF TaskRecord
  <2>3. CASE Requeue \/ Finalize
    BY <2>3 DEF Requeue, Finalize, EndRound
  <2> QED BY <1>0, <2>1, <2>2, <2>3, ThreadEffect
<1> QED BY <1>1, <1>2, <1>3, <1>4, <1>5, <1>6 DEF HInv

-----------------------------------------------------------------------------
(* The steps of fake_executor.                                             *)
LEMMA ExecutorHInv == HInv /\ FakeExecutor => HInv'
<1> SUFFICES ASSUME HInv, FakeExecutor PROVE HInv'
  OBVIOUS
<1>1. Bounded'
  BY NextBounded DEF TestNext
<1>2. /\ pc = "executing" /\ current_task \in Tasks /\ Me \in TaskRecord
      /\ UNCHANGED <<main_at, waiting, current_task, next_task_id>> /\ pc' # "destroyed"
      /\ granted' = IF ShellWaits /\ task'[current_task].remaining < Me.remaining
                    THEN granted + 1 ELSE granted
  <2>1. pc = "executing"
    BY RoundFacts DEF FakeExecutor, RunShell, BeginRound, LoopHead, BurstOver, PollPreempt, Tick
  <2>2. UNCHANGED <<waiting, current_task, next_task_id>> /\ pc' # "destroyed"
    BY <2>1, ExecutorUses DEF vars, ExecutorWorks, ExecutorReturns
  <2> QED BY <2>1, <2>2, RoundFacts DEF FakeExecutor
<1>3. /\ NothingFails /\ Me.remaining \in Int /\ granted \in {0, 1}
      /\ executor_at \in {"idle", "head", "tick", "burst_left"} /\ slice \in Nat
      /\ main_at \in 1..Len(Plan) + 4
      /\ (executor_at # "idle" => Me.type = "program")
      /\ (executor_at = "tick" => Me.remaining > 0)
  BY <1>2 DEF HInv, NothingFails, HarnessTyped, InRound, TaskRecord
<1>4. CASE Tick
  <2>1. /\ executor_at = "tick" /\ executor_at' = "burst_left" /\ slice' = slice
        /\ task' = [task EXCEPT ![current_task].remaining = Me.remaining - 1]
        /\ pc' = pc /\ result' = result
    BY <1>4 DEF Tick, ExecutorWorks
  <2>2. /\ task' \in [Tasks -> TaskRecord]
        /\ \A u \in Tasks : /\ task'[u].state = task[u].state
                            /\ task'[u].type = task[u].type
                            /\ task'[u].cancel = task[u].cancel
    <3>1. task \in [Tasks -> TaskRecord] /\ current_task \in Tasks
      BY <1>2, RoundFacts
    <3>2. \A u \in Tasks : /\ task'[u].state = task[u].state
                           /\ task'[u].type = task[u].type
                           /\ task'[u].cancel = task[u].cancel
      BY <2>1, <3>1 DEF TaskRecord
    <3>3. [Me EXCEPT !.remaining = Me.remaining - 1] \in TaskRecord
      BY <1>2, <1>3 DEF TaskRecord
    <3>4. task' = [task EXCEPT ![current_task] = [Me EXCEPT !.remaining = Me.remaining - 1]]
      BY <2>1, <3>1 DEF Me
    <3> QED BY <3>1, <3>2, <3>3, <3>4
  <2>3. granted = 0 \/ ~ShellWaits
    BY <1>2, <1>3, <2>1 DEF HInv, OnlyOneUnit
  <2>4. granted # 1 \/ ShellWaits
    BY DEF HInv, OnlyOneUnit
  <2>5. ShellWaits' <=> ShellWaits
    <3>1. Queued' = Queued /\ Queued \subseteq Tasks
      BY <1>2, SchedulerFacts DEF Queued, HInv
    <3> QED BY <2>2, <3>1 DEF ShellWaits
  <2>6. HarnessTyped'
    BY <1>2, <1>3, <2>1, <2>3, <2>4 DEF HarnessTyped
  <2>7. InRound'
    BY <1>2, <1>3, <2>1, <2>2 DEF InRound, Me
  <2>8. NothingFails'
    <3>1. result = "none"
      BY <1>2 DEF HInv, Bounded, IInv, Bookkeeping
    <3> QED BY <1>3, <2>1, <2>2, <3>1 DEF NothingFails
  <2>9. InOrder'
    BY <1>2, <2>2 DEF HInv, InOrder, NothingLeftUndone
  <2>10. OnlyOneUnit'
    BY <1>2, <1>3, <2>1, <2>3, <2>4, <2>5 DEF OnlyOneUnit
  <2> QED BY <1>1, <2>6, <2>7, <2>8, <2>9, <2>10 DEF HInv
<1>5. CASE RunShell \/ BeginRound \/ LoopHead \/ BurstOver \/ PollPreempt
  <2>1. /\ task' = task /\ granted' = granted
        /\ executor_at' \in {"idle", "head", "tick"} /\ slice' \in Nat
    <3>1. task' = task
      BY <1>5 DEF RunShell, BeginRound, LoopHead, BurstOver, PollPreempt, Return,
         ExecutorReturns, vars
    <3>2. /\ executor_at' \in {"idle", "head", "tick"}
          /\ slice' \in {slice, 0, slice + 1}
      BY <1>5 DEF RunShell, BeginRound, LoopHead, BurstOver, PollPreempt, Return
    <3> QED BY <1>2, <1>3, <3>1, <3>2 DEF Me
  <2>2. (executor_at' # "idle" => pc' = "executing" /\ Me.type = "program"
                                 /\ (executor_at' = "tick" => Me.remaining > 0))
    BY <1>2, <1>3, <1>5 DEF RunShell, BeginRound, LoopHead, BurstOver, PollPreempt, Return, vars
  <2>3. /\ result' \in {"none", "complete", "requeue"}
        /\ result' = "requeue" => Me.remaining > 0
    <3>1. result = "none"
      BY <1>2 DEF HInv, Bounded, IInv, Bookkeeping
    <3>2. ~Me.cancel
      BY <1>2, <1>3 DEF NothingFails, Me
    <3> QED BY <1>5, <3>1, <3>2 DEF RunShell, BeginRound, LoopHead, BurstOver, PollPreempt,
            Return, ExecutorReturns, vars
  <2>4. /\ ShellWaits' <=> ShellWaits
        /\ Me' = Me
    BY <1>2, <2>1 DEF ShellWaits, Queued, Me
  <2>5. granted = 1 /\ pc' = "executing" => Me.type = "shell"
    <3> SUFFICES ASSUME granted = 1, pc' = "executing", Me.type # "shell" PROVE FALSE
      OBVIOUS
    <3>1. ShellWaits /\ executor_at = "burst_left"
      BY <1>2 DEF HInv, OnlyOneUnit
    <3>2. Me.preempt
      <4>1. ShellPreemptsProgram /\ current_task # NoTask
        BY <1>2, RoundFacts DEF HInv, Bounded, IInv
      <4> QED BY <1>3, <3>1, <4>1 DEF ShellPreemptsProgram, ShellWaits, Me
    <3> QED BY <1>5, <1>2, <3>1, <3>2 DEF RunShell, BeginRound, LoopHead, BurstOver,
            PollPreempt, Return, ExecutorReturns
  <2>6. HarnessTyped'
    BY <1>2, <1>3, <2>1 DEF HarnessTyped
  <2>7. InRound'
    BY <2>2, <2>4 DEF InRound
  <2>8. NothingFails'
    BY <1>3, <2>1, <2>3, <2>4 DEF NothingFails
  <2>9. InOrder'
    BY <1>2, <2>1 DEF HInv, InOrder, NothingLeftUndone
  <2>10. OnlyOneUnit'
    BY <2>1, <2>4, <2>5 DEF HInv, OnlyOneUnit
  <2> QED BY <1>1, <2>6, <2>7, <2>8, <2>9, <2>10 DEF HInv
<1> QED BY <1>4, <1>5 DEF FakeExecutor

-----------------------------------------------------------------------------
(* The steps of main.                                                      *)
LEMMA SubmitHInv == HInv /\ SubmitNext /\ Main => HInv'
<1> SUFFICES ASSUME HInv, SubmitNext, Main PROVE HInv'
  OBVIOUS
<1> DEFINE i == main_at
           new == Plan[i]
<1>1. /\ i \in 1..3 /\ main_at' = i + 1 /\ next_task_id = i
      /\ Submit(new.client, new.type, new.burst)
      /\ UNCHANGED <<executor_at, slice>>
      /\ granted' = (IF ShellWaits' THEN granted ELSE 0)
      /\ i \in Tasks
  BY PlanFacts DEF SubmitNext, Main, Remember, HInv, InOrder
<1> HIDE DEF i, new
<1>2. /\ UNCHANGED <<current_task, result>> /\ waiting' = Append(waiting, i)
      /\ next_task_id' = i + 1
      /\ pc' = (IF pc = "cond_wait" THEN "locking" ELSE pc) /\ pc # "destroyed"
  BY <1>1 DEF Submit, Enqueue, Signal
<1>3. i # current_task
  <2>1. task[i].state = "unsubmitted"
    BY <1>1, PlanFacts, SchedulerFacts DEF HInv
  <2> QED BY <1>1, <2>1, SchedulerFacts DEF HInv
<1>4. /\ task'[i].state = "waiting" /\ ~task'[i].cancel
      /\ \A u \in Tasks \ {i} : /\ task'[u].state = task[u].state
                               /\ task'[u].type = task[u].type
                               /\ task'[u].cancel = task[u].cancel
                               /\ task'[u].remaining = task[u].remaining
  <2>1. /\ task' = [u \in Tasks |->
                     CASE u = i -> [client |-> new.client, type |-> new.type, state |-> "waiting",
                                    remaining |-> Burst(new.type, new.burst), rounds |-> 0,
                                    preempt |-> FALSE, cancel |-> FALSE]
                       [] u = current_task /\ ShouldPreempt(new.type, Burst(new.type, new.burst))
                            -> [task[u] EXCEPT !.preempt = TRUE]
                       [] OTHER -> task[u]]
    BY <1>1 DEF Submit
  <2>2. \A u \in Tasks \ {i} : task'[u] \in {task[u], [task[u] EXCEPT !.preempt = TRUE]}
    BY <2>1
  <2>3. task'[i].state = "waiting" /\ ~task'[i].cancel
    <3>1. task'[i] = [client |-> new.client, type |-> new.type, state |-> "waiting",
                      remaining |-> Burst(new.type, new.burst), rounds |-> 0,
                      preempt |-> FALSE, cancel |-> FALSE]
      BY <1>1, <1>3, <2>1
    <3> QED BY <3>1
  <2> QED BY <2>2, <2>3, RoundFacts DEF TaskRecord
<1>5. Bounded'
  BY NextBounded DEF TestNext
<1>6. HarnessTyped'
  BY <1>1, PlanFacts DEF HInv, HarnessTyped
<1>7. executor_at # "idle" => pc = "executing" /\ current_task \in Tasks
  BY RoundFacts
<1>8. InRound'
  BY <1>1, <1>2, <1>3, <1>4, <1>7 DEF HInv, InRound, Me
<1>9. NothingFails'
  <2>1. result = "requeue" => pc = "returned" /\ current_task \in Tasks
    BY RoundFacts DEF HInv, Bounded, IInv, Bookkeeping
  <2> QED BY <1>1, <1>2, <1>3, <1>4, <2>1 DEF HInv, NothingFails, Me
<1>10. InOrder'
  BY <1>1, <1>2, PlanFacts DEF InOrder, NothingLeftUndone
<1>11. OnlyOneUnit'
  <2> SUFFICES ASSUME granted' = 1, pc' = "executing"
               PROVE  executor_at' = "burst_left" \/ Me'.type = "shell"
    BY <1>1 DEF OnlyOneUnit
  <2>1. granted = 1 /\ pc = "executing" /\ current_task \in Tasks
    BY <1>1, <1>2, RoundFacts
  <2> QED BY <1>1, <1>2, <1>3, <1>4, <2>1 DEF HInv, OnlyOneUnit, Me
<1> QED BY <1>5, <1>6, <1>8, <1>9, <1>10, <1>11 DEF HInv

(* What main finds when it sees the scheduler idle after its last task.    *)
LEMMA IdleIsDone ==
  ASSUME HInv, AwaitIdle
  PROVE  \A t \in Tasks : task[t].state = "finished"
<1> SUFFICES ASSUME NEW t \in Tasks PROVE task[t].state = "finished"
  OBVIOUS
<1>1. main_at = 4 /\ active_task_count = 0 /\ pc # "destroyed" /\ next_task_id = 4
  BY PlanFacts DEF AwaitIdle, HInv, InOrder, Bounded, IInv, TypeOK
<1>2. waiting \in Seq(Tasks) /\ Len(waiting) = 0 /\ current_task = NoTask
  BY <1>1 DEF HInv, Bounded, IInv, TypeOK, ActiveCountExact
<1>3. Queued = {}
  BY <1>2 DEF Queued, Range
<1>4. /\ task[t].state # "waiting" /\ task[t].state # "running"
      /\ task[t].state # "unsubmitted"
  BY <1>1, <1>2, <1>3, SchedulerFacts, PlanFacts DEF HInv
<1>5. task[t].state \notin {"cancelled", "freed"} /\ task[t] \in TaskRecord
  BY RoundFacts DEF HInv, NothingFails
<1> QED BY <1>4, <1>5 DEF TaskRecord, Live, Ended

LEMMA RestHInv ==
  ASSUME HInv, AwaitIdle \/ StopScheduler \/ JoinScheduler, Main
  PROVE  HInv'
<1>1. Bounded'
  BY NextBounded DEF TestNext
<1>2. \A t \in Tasks : task[t].state = "finished"
  BY IdleIsDone, PlanFacts DEF StopScheduler, JoinScheduler, HInv, InOrder, NothingLeftUndone
<1>3. /\ UNCHANGED <<task, waiting, current_task, result, next_task_id, executor_at, slice>>
      /\ granted' = (IF ShellWaits' THEN granted ELSE 0)
      /\ main_at' = main_at + 1 /\ main_at \in 4..6
      /\ pc' = "executing" => pc = "executing"
      /\ executor_at # "idle" => pc' = "executing"
      /\ pc' = "destroyed" => main_at = 6
  <2>1. CASE AwaitIdle \/ StopScheduler
    <3>1. pc # "destroyed"
      BY <2>1, PlanFacts DEF AwaitIdle, StopScheduler, HInv, InOrder
    <3> QED BY <2>1, <3>1, RoundFacts, PlanFacts
            DEF AwaitIdle, StopScheduler, Main, Remember, RequestStop, Signal, vars
  <2>2. CASE JoinScheduler
    <3>1. pc = "exited" /\ pc' = "destroyed" /\ main_at = 6 /\ main_at' = 7
          /\ UNCHANGED <<waiting, current_task, result, next_task_id, executor_at, slice>>
          /\ granted' = (IF ShellWaits' THEN granted ELSE 0)
          /\ task' = [t \in Tasks |-> IF t \in Queued THEN Blank("freed") ELSE task[t]]
      BY <2>2, PlanFacts DEF JoinScheduler, JoinAndDestroy, Main, Remember
    <3>2. \A t \in Tasks : t \notin Queued
      BY <1>2, <3>1, SchedulerFacts DEF HInv
    <3>3. task' = task
      BY <3>1, <3>2, RoundFacts
    <3> QED BY <3>1, <3>3, RoundFacts
  <2> QED BY <2>1, <2>2
<1>4. HarnessTyped'
  BY <1>3, PlanFacts DEF HInv, HarnessTyped
<1>5. InRound' /\ NothingFails'
  BY <1>3 DEF HInv, InRound, NothingFails, Me
<1>6. InOrder'
  BY <1>2, <1>3, PlanFacts DEF HInv, InOrder, NothingLeftUndone
<1>7. OnlyOneUnit'
  BY <1>3 DEF HInv, OnlyOneUnit, Me
<1> QED BY <1>1, <1>4, <1>5, <1>6, <1>7 DEF HInv

LEMMA WakeupHInv == HInv /\ TestWakeup => HInv'
<1> SUFFICES ASSUME HInv, TestWakeup PROVE HInv'
  OBVIOUS
<1>1. Bounded'
  BY NextBounded DEF TestNext
<1>2. /\ UNCHANGED <<task, waiting, current_task, result, next_task_id>>
      /\ UNCHANGED <<executor_at, slice, main_at, granted>>
      /\ pc = "cond_wait" /\ pc' = "locking"
  BY DEF TestWakeup, SpuriousWakeup
<1>3. HarnessTyped' /\ InRound' /\ NothingFails' /\ InOrder'
  BY <1>2 DEF HInv, HarnessTyped, InRound, NothingFails, InOrder, NothingLeftUndone, Me
<1>4. OnlyOneUnit'
  BY <1>2 DEF HInv, OnlyOneUnit, ShellWaits, Queued
<1> QED BY <1>1, <1>3, <1>4 DEF HInv

LEMMA NextHInv == HInv /\ [TestNext]_testvars => HInv'
<1> SUFFICES ASSUME HInv, [TestNext]_testvars PROVE HInv'
  OBVIOUS
<1>1. CASE Main
  BY <1>1, SubmitHInv, RestHInv DEF Main
<1>2. CASE UNCHANGED testvars
  <2>1. Bounded'
    BY NextBounded
  <2>2. HarnessTyped' /\ InRound' /\ NothingFails' /\ InOrder' /\ OnlyOneUnit'
    BY <1>2 DEF testvars, vars, HInv, HarnessTyped, InRound, NothingFails, InOrder,
       NothingLeftUndone, OnlyOneUnit, ShellWaits, Queued, Me
  <2> QED BY <2>1, <2>2 DEF HInv
<1> QED BY <1>1, <1>2, ThreadHInv, ExecutorHInv, WakeupHInv DEF TestNext

LEMMA HarnessInvariance == HarnessSpec => []HInv
<1>1. TestInit => HInv
  BY InitHInv
<1>2. HInv /\ [TestNext]_testvars => HInv'
  BY NextHInv
<1> QED BY <1>1, <1>2, PTL DEF HarnessSpec

-----------------------------------------------------------------------------
(* fake_executor and main keep to what the scheduler's model allows, so    *)
(* that all its theorems hold in the harness.                              *)
THEOREM HarnessIsUser == HarnessSpec => IsAScheduler
<1>1. TestInit => Init
  BY DEF TestInit
<1>2. HInv /\ [TestNext]_testvars => [Next]_vars
  BY HarnessUses
<1> QED BY <1>1, <1>2, HarnessInvariance, PTL DEF HarnessSpec, IsAScheduler, Spec

(* From its submission to its dispatch the shell command sees the running  *)
(* program take one unit at most, whenever it arrives.                     *)
THEOREM ShellIsNext == HarnessSpec => []ShellRunsNext
<1>1. HInv => ShellRunsNext
  BY DEF HInv, HarnessTyped, ShellRunsNext
<1> QED BY <1>1, HarnessInvariance, PTL

(* When main has seen the scheduler idle, every task has run to its end.   *)
THEOREM IdleMeansDone == HarnessSpec => []NothingLeftUndone
<1>1. HInv => NothingLeftUndone
  BY DEF HInv, InOrder
<1> QED BY <1>1, HarnessInvariance, PTL
=============================================================================
