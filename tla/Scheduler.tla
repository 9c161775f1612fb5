------------------------------ MODULE Scheduler ------------------------------
(***************************************************************************)
(* The task scheduler of src/src/scheduler.c: one waiting list, one        *)
(* scheduler thread that dispatches tasks on a simulated single CPU, and    *)
(* the client threads that submit and cancel tasks.                         *)
(*                                                                          *)
(* Every critical section of scheduler->mutex is one action.  The executor  *)
(* callback runs outside the mutex; here it is the most general one the     *)
(* TaskExecutor type allows, so that what holds of this module holds of     *)
(* every executor that is plugged in (SchedulerTest plugs in the one of the *)
(* test harness, Server the one of the server).                             *)
(*                                                                          *)
(* A task is named by its task_id.  arrival_order steps together with       *)
(* next_task_id in scheduler_submit_task, so one number stands for both.    *)
(***************************************************************************)
EXTENDS Integers, Sequences, FiniteSets, Functions

CONSTANTS
  Clients,        \* client numbers, one per connection
  MaxTasks,       \* bound: how many tasks are submitted in a behaviour
  MaxBurst,       \* bound: the largest burst a program is submitted with
  FirstQuantum,   \* config.first_round_quantum
  LaterQuantum,   \* config.later_round_quantum
  DefaultBurst    \* config.default_program_burst

NoTask   == 0   \* a NULL Task pointer
NoClient == 0   \* the owner of a record that is not in use

ASSUME SchedulerAssumption ==
  /\ Clients # {} /\ NoClient \notin Clients
  /\ MaxTasks \in Nat /\ MaxBurst \in Nat
  /\ FirstQuantum \in Nat \ {0} /\ LaterQuantum \in Nat \ {0}
  /\ DefaultBurst \in Nat \ {0}

VARIABLES
  task,                   \* the Task records, by task_id
  waiting,                \* the list waiting_head .. waiting_tail
  current_task,           \* the dispatched task, or NoTask
  active_task_count,
  queued_signal_count,
  stop_requested,
  next_task_id,
  last_selected_task_id,
  pc,                     \* where the scheduler thread is
  result                  \* what the executor returned for this round

vars == <<task, waiting, current_task, active_task_count, queued_signal_count,
          stop_requested, next_task_id, last_selected_task_id, pc, result>>

Tasks  == 1..MaxTasks
Types   == {"shell", "program"}
Results == {"complete", "requeue", "cancelled", "failed"}
Live    == {"waiting", "running"}
Ended   == {"finished", "cancelled"}

(* "locking": about to lock the mutex at the top of the loop; "cond_wait": *)
(* blocked in pthread_cond_wait; "executing": inside the executor;         *)
(* "returned": the executor has returned, the mutex is not yet locked.     *)
ThreadPlaces == {"locking", "cond_wait", "executing", "returned", "exited",
                 "destroyed"}

TaskRecord ==
  [client: Clients \cup {NoClient}, type: Types,
   state: {"unsubmitted", "freed"} \cup Live \cup Ended,
   remaining: Int,          \* remaining_burst
   rounds: {0, 1},          \* rounds_completed: 0, or 1 for one or more
   preempt: BOOLEAN,        \* preempt_requested
   cancel: BOOLEAN]         \* cancel_requested

(* A record that is not in use: not submitted yet or, once the task is     *)
(* over, freed.  Of a task that is over only how it ended is remembered.   *)
Blank(state) ==
  [client |-> NoClient, type |-> "shell", state |-> state,
   remaining |-> -1, rounds |-> 0, preempt |-> FALSE, cancel |-> FALSE]

Init ==
  /\ task = [t \in Tasks |-> Blank("unsubmitted")]
  /\ waiting = <<>>
  /\ current_task = NoTask
  /\ active_task_count = 0
  /\ queued_signal_count = 0
  /\ stop_requested = FALSE
  /\ next_task_id = 1
  /\ last_selected_task_id = -1
  /\ pc = "locking"
  /\ result = "none"

-----------------------------------------------------------------------------
(* The waiting list and the dispatch policy.                               *)

Queued == Range(waiting)

(* Definitions named ...Faulty are variants with a slip that is easy to    *)
(* make at that place of the code; the properties must tell them apart.    *)

(* Faulty: waiting_head = cursor->next also when cursor has a predecessor. *)
UnlinkFaulty(q, S) ==
  { SubSeq(q, i + 1, Len(q)) : i \in {k \in DOMAIN q : q[k] \in S} }

(* The lists that unlinking the tasks of S from the list q can leave: what *)
(* is not in S, in the order of q.  A task is linked once, so there is     *)
(* exactly one.  (Stated by what the list is rather than with SelectSeq,   *)
(* about which nothing can be proved without induction.)                   *)
Unlink(q, S) ==
  { r \in UNION { [1..n -> Range(q)] : n \in 0..Len(q) } :
      /\ Range(r) = Range(q) \ S
      /\ \A i, j \in DOMAIN r : i < j =>
           \E k, l \in DOMAIN q : k < l /\ q[k] = r[i] /\ q[l] = r[j] }

FirstShell(t) ==
  \E i \in DOMAIN waiting :
    /\ waiting[i] = t
    /\ task[t].type = "shell"
    /\ \A j \in DOMAIN waiting : j < i => task[waiting[j]].type = "program"

Programs == { t \in Queued : task[t].type = "program" }

(* The order in which choose_shortest_program_locked ranks two programs.   *)
Before(t, u) ==
  \/ task[t].remaining < task[u].remaining
  \/ task[t].remaining = task[u].remaining /\ t < u

Shortest(t, S) == t \in S /\ \A u \in S \ {t} : Before(t, u)

(* best, or best_alt when best is the task that was selected last.         *)
ShortestProgram(t) ==
  \/ /\ Shortest(t, Programs)
     /\ t = last_selected_task_id => Programs = {t}
  \/ /\ Shortest(last_selected_task_id, Programs)
     /\ Shortest(t, Programs \ {last_selected_task_id})

NextToDispatch(t) ==
  IF \E u \in Queued : task[u].type = "shell"
  THEN FirstShell(t)
  ELSE ShortestProgram(t)

(* Faulty: the wake-up is forgotten.                                       *)
SignalFaulty == pc' = pc

(* pthread_cond_signal and pthread_cond_broadcast on queue_ready: only the *)
(* scheduler thread ever waits on it.                                      *)
Signal == pc' = IF pc = "cond_wait" THEN "locking" ELSE pc

(* Faulty: the list grows, the signal count does not.                      *)
EnqueueFaulty(t) ==
  /\ waiting' = Append(waiting, t)
  /\ queued_signal_count' = queued_signal_count

(* enqueue_task_locked and the signal that goes with it.                   *)
Enqueue(t) ==
  /\ waiting' = Append(waiting, t)
  /\ queued_signal_count' = queued_signal_count + 1

(* Faulty: one decrement for all the tasks a client had queued.            *)
RetireFaulty(n) ==
  active_task_count' = active_task_count - (IF n > 1 THEN 1 ELSE n)

(* n tasks are done with.                                                  *)
Retire(n) == active_task_count' = active_task_count - n

-----------------------------------------------------------------------------
(* What the client threads and main() call.                                *)

(* Faulty: a shell command is treated like a program.                      *)
ShouldPreemptFaulty(type, burst) ==
  /\ current_task # NoTask
  /\ type = "program" /\ task[current_task].type = "program"
  /\ burst < task[current_task].remaining

ShouldPreempt(type, burst) ==
  /\ current_task # NoTask
  /\ task[current_task].type = "program"
  /\ type = "shell" \/ burst < task[current_task].remaining

Burst(type, predicted) ==
  CASE type = "shell"                       -> -1
    [] type = "program" /\ predicted <= 0   -> DefaultBurst
    [] OTHER                                -> predicted

(* scheduler_submit_task on a task made by scheduler_create_task.          *)
Submit(c, type, predicted) ==
  LET t     == next_task_id
      burst == Burst(type, predicted)
      new   == [client |-> c, type |-> type, state |-> "waiting",
                remaining |-> burst, rounds |-> 0,
                preempt |-> FALSE, cancel |-> FALSE]
  IN
  /\ pc # "destroyed"
  /\ t \in Tasks
  /\ next_task_id' = t + 1
  /\ Enqueue(t)
  /\ active_task_count' = active_task_count + 1
  /\ task' = [u \in Tasks |->
                CASE u = t -> new
                  [] u = current_task /\ ShouldPreempt(type, burst)
                       -> [task[u] EXCEPT !.preempt = TRUE]
                  [] OTHER -> task[u]]
  /\ Signal
  /\ UNCHANGED <<current_task, stop_requested, last_selected_task_id, result>>

(* scheduler_cancel_client_tasks, the cleanup of the unlinked tasks        *)
(* included: nothing else can reach them once they are off the list.       *)
(* queued_signal_count keeps the signals of the tasks that are gone.       *)
CancelClient(c) ==
  /\ pc # "destroyed"
  /\ \E rest \in Unlink(waiting, {t \in Queued : task[t].client = c}) :
       /\ waiting' = rest
       /\ Retire(Len(waiting) - Len(rest))
  /\ task' = [t \in Tasks |->
                CASE t \in Queued /\ task[t].client = c
                       -> Blank("cancelled")
                  [] t = current_task /\ task[t].client = c
                       -> [task[t] EXCEPT !.cancel = TRUE, !.preempt = TRUE]
                  [] OTHER -> task[t]]
  /\ UNCHANGED <<current_task, queued_signal_count, stop_requested,
                 next_task_id, last_selected_task_id, pc, result>>

RequestStop ==
  /\ pc # "destroyed"
  /\ stop_requested' = TRUE
  /\ Signal
  /\ UNCHANGED <<task, waiting, current_task, active_task_count,
                 queued_signal_count, next_task_id, last_selected_task_id,
                 result>>

(* scheduler_join, which returns once the thread has exited, followed by   *)
(* scheduler_destroy, which frees what is still linked.                    *)
JoinAndDestroy ==
  /\ pc = "exited"
  /\ pc' = "destroyed"
  /\ task' = [t \in Tasks |-> IF t \in Queued
                              THEN Blank("freed")
                              ELSE task[t]]
  /\ UNCHANGED <<waiting, current_task, active_task_count,
                 queued_signal_count, stop_requested, next_task_id,
                 last_selected_task_id, result>>

-----------------------------------------------------------------------------
(* scheduler_main, the scheduler thread.                                   *)

(* Faulty: the stop request alone ends the thread.                         *)
StopNowFaulty == stop_requested

StopNow == stop_requested /\ active_task_count = 0

WaitForSignal ==
  /\ pc = "locking"
  /\ queued_signal_count = 0 /\ ~StopNow
  /\ pc' = "cond_wait"
  /\ UNCHANGED <<task, waiting, current_task, active_task_count,
                 queued_signal_count, stop_requested, next_task_id,
                 last_selected_task_id, result>>

SpuriousWakeup ==
  /\ pc = "cond_wait"
  /\ pc' = "locking"
  /\ UNCHANGED <<task, waiting, current_task, active_task_count,
                 queued_signal_count, stop_requested, next_task_id,
                 last_selected_task_id, result>>

(* Faulty: the unsigned count is decremented unconditionally.              *)
ConsumeSignalFaulty == queued_signal_count' = queued_signal_count - 1

ConsumeSignal ==
  queued_signal_count' =
    IF queued_signal_count > 0 THEN queued_signal_count - 1 ELSE 0

Exit ==
  /\ pc = "locking"
  /\ StopNow
  /\ ConsumeSignal
  /\ pc' = "exited"
  /\ UNCHANGED <<task, waiting, current_task, active_task_count,
                 stop_requested, next_task_id, last_selected_task_id, result>>

(* A signal whose task was cancelled: dequeue_next_task_locked finds none. *)
NothingToDispatch ==
  /\ pc = "locking"
  /\ queued_signal_count > 0 /\ ~StopNow
  /\ waiting = <<>>
  /\ ConsumeSignal
  /\ UNCHANGED <<task, waiting, current_task, active_task_count,
                 stop_requested, next_task_id, last_selected_task_id, pc,
                 result>>

(* A pass of the loop that gets past the wait and does not end the thread.  *)
MayDispatch ==
  /\ pc = "locking"
  /\ queued_signal_count > 0 /\ ~StopNow

(* Task t is taken off the list and its round begins.                      *)
StartRound(t) ==
  /\ ConsumeSignal
  /\ waiting' \in Unlink(waiting, {t})
  /\ current_task' = t
  /\ last_selected_task_id' = t
  /\ task' = [task EXCEPT ![t].state = "running", ![t].preempt = FALSE]
  /\ pc' = "executing"
  /\ UNCHANGED <<active_task_count, stop_requested, next_task_id, result>>

Dispatch(t) ==
  /\ MayDispatch
  /\ NextToDispatch(t)
  /\ StartRound(t)

Quantum(t) == IF task[t].rounds = 0 THEN FirstQuantum ELSE LaterQuantum

(* The executor callback.  It may lower remaining_burst of a program while *)
(* it runs, without the mutex, and return any result.                      *)
ExecutorWorks(left) ==
  /\ pc = "executing"
  /\ task[current_task].type = "program"
  /\ left \in 0..task[current_task].remaining
  /\ task' = [task EXCEPT ![current_task].remaining = left]
  /\ UNCHANGED <<waiting, current_task, active_task_count,
                 queued_signal_count, stop_requested, next_task_id,
                 last_selected_task_id, pc, result>>

ExecutorReturns(r) ==
  /\ pc = "executing"
  /\ pc' = "returned"
  /\ result' = r
  /\ UNCHANGED <<task, waiting, current_task, active_task_count,
                 queued_signal_count, stop_requested, next_task_id,
                 last_selected_task_id>>

(* Faulty: the executor's answer alone decides.                            *)
MayRequeueFaulty ==
  result = "requeue" /\ task[current_task].remaining > 0

MayRequeue ==
  /\ result = "requeue"
  /\ ~task[current_task].cancel
  /\ task[current_task].remaining > 0

(* Faulty: current_task keeps pointing to the task that was run.           *)
EndRoundFaulty ==
  /\ current_task' = current_task
  /\ pc' = "locking"
  /\ result' = "none"

EndRound ==
  /\ current_task' = NoTask
  /\ pc' = "locking"
  /\ result' = "none"

Requeue ==
  /\ pc = "returned"
  /\ MayRequeue
  /\ task' = [task EXCEPT ![current_task].state = "waiting",
                          ![current_task].rounds = 1,
                          ![current_task].preempt = FALSE]
  /\ Enqueue(current_task)
  /\ EndRound
  /\ UNCHANGED <<active_task_count, stop_requested, next_task_id,
                 last_selected_task_id>>

Outcome ==
  IF result = "cancelled" \/ task[current_task].cancel THEN "cancelled"
  ELSE IF task[current_task].remaining <= 0 \/ result = "complete"
       THEN "finished"
       ELSE "cancelled"

(* finalize_task, the cleanup callback included.                           *)
Finalize ==
  /\ pc = "returned"
  /\ ~MayRequeue
  /\ task' = [task EXCEPT ![current_task] = Blank(Outcome)]
  /\ Retire(1)
  /\ EndRound
  /\ UNCHANGED <<waiting, queued_signal_count, stop_requested, next_task_id,
                 last_selected_task_id>>

-----------------------------------------------------------------------------
SchedulerThread ==
  \/ WaitForSignal \/ Exit \/ NothingToDispatch
  \/ \E t \in Tasks : Dispatch(t)
  \/ Requeue \/ Finalize

Executor ==
  \/ \E left \in 0..MaxBurst + DefaultBurst : ExecutorWorks(left)
  \/ \E r \in Results : ExecutorReturns(r)

Callers ==
  \/ \E c \in Clients, type \in Types, predicted \in 0..MaxBurst :
       Submit(c, type, predicted)
  \/ \E c \in Clients : CancelClient(c)
  \/ RequestStop
  \/ JoinAndDestroy

Next == SchedulerThread \/ SpuriousWakeup \/ Executor \/ Callers

Spec == Init /\ [][Next]_vars

(* The scheduler thread runs whenever the mutex and the condition variable *)
(* let it, and an executor returns.                                        *)
Fairness ==
  /\ WF_vars(SchedulerThread)
  /\ WF_vars(\E r \in Results : ExecutorReturns(r))

FairSpec == Spec /\ Fairness

-----------------------------------------------------------------------------
(* Properties.                                                             *)

(* Every variable keeps to its type; queued_signal_count is unsigned and   *)
(* active_task_count must never be driven below zero.                      *)
TypeOK ==
  /\ task \in [Tasks -> TaskRecord]
  /\ waiting \in Seq(Tasks)
  /\ current_task \in Tasks \cup {NoTask}
  /\ active_task_count \in Nat
  /\ queued_signal_count \in Nat
  /\ stop_requested \in BOOLEAN
  /\ next_task_id \in 1..MaxTasks + 1
  /\ last_selected_task_id \in Tasks \cup {-1}
  /\ pc \in ThreadPlaces
  /\ result \in Results \cup {"none"}

(* The list links exactly the tasks whose state is WAITING, each of them   *)
(* once, and the task that runs is not on it: unlinking, re-queueing and   *)
(* cancelling never lose a task, link it twice or leave it linked.         *)
QueueHoldsWaitingTasks ==
  /\ IsInjective(waiting)
  /\ \A t \in Tasks : t \in Queued <=>
       task[t].state = IF pc = "destroyed" THEN "freed" ELSE "waiting"

(* Only the scheduler thread executes, one task at a time: the RUNNING     *)
(* task is current_task for exactly as long as a round lasts.              *)
OneTaskRuns ==
  /\ current_task # NoTask <=> pc \in {"executing", "returned"}
  /\ \A t \in Tasks : task[t].state = "running" <=> t = current_task

(* queued_signal_count never falls behind the waiting list, so a queued    *)
(* task always finds the scheduler thread willing to look for it, although *)
(* cancelling leaves surplus signals and a pass may consume one in vain.   *)
SignalsCoverQueue == Len(waiting) <= queued_signal_count

(* active_task_count, from which idleness and the end of the thread are    *)
(* decided, counts the waiting tasks and the one in its round, whichever   *)
(* way tasks came and went.                                                *)
ActiveCountExact ==
  active_task_count = Len(waiting) + (IF current_task = NoTask THEN 0 ELSE 1)

(* The scheduler thread never sleeps in pthread_cond_wait while a task     *)
(* waits or the stop it should obey has been requested.                    *)
NeverSleepsOnWork ==
  pc = "cond_wait" => waiting = <<>> /\ ~StopNow

(* A task whose client asked for its cancellation never gets back on the   *)
(* waiting list, and no stale preemption request waits with a task.        *)
CancelledNeverQueued ==
  \A t \in Queued : ~task[t].cancel /\ ~task[t].preempt

(* A shell command never waits behind a program that was not told to give  *)
(* way: while one is queued, the running program has preempt_requested.    *)
ShellPreemptsProgram ==
  /\ current_task # NoTask /\ task[current_task].type = "program"
  /\ \E t \in Queued : task[t].type = "shell"
  => task[current_task].preempt

(* The thread ends only when every task submitted before has ended.        *)
ExitDrained ==
  [][pc' = "exited" /\ pc # "exited" =>
       \A t \in Tasks : task[t].state \notin Live]_vars

(* A shell command does not wait for ever while the thread is up, however  *)
(* long programs are re-queued and shell commands come and go: it gets its *)
(* round or is cancelled.                                                  *)
ShellIsDispatched ==
  \A t \in Tasks :
    []<>~(/\ task[t].state = "waiting" /\ task[t].type = "shell"
          /\ pc \notin {"exited", "destroyed"})

-----------------------------------------------------------------------------
(* The scheduler implements TaskPool: the list becomes a set, the signal   *)
(* count, the task count and the condition variable disappear.             *)
Pool == INSTANCE TaskPool WITH
  Bursts <- (1..MaxBurst) \cup {DefaultBurst},
  status <- [t \in Tasks |->
               IF task[t].state = "freed" THEN "cancelled" ELSE task[t].state],
  owner  <- [t \in Tasks |-> task[t].client],
  kind   <- [t \in Tasks |-> task[t].type],
  left   <- [t \in Tasks |-> task[t].remaining],
  doomed <- { t \in Tasks : task[t].cancel },
  last   <- last_selected_task_id,
  open   <- pc \notin {"exited", "destroyed"}

(* Every behaviour of the scheduler is one of the task pool, and the       *)
(* scheduler keeps the pool's promise to run what waits.                   *)
ImplementsPool == Pool!FairSpec
=============================================================================
