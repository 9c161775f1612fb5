---------------------------- MODULE SchedulerProofs ----------------------------
(***************************************************************************)
(* What is proved of Scheduler for every number of clients, of tasks, every *)
(* burst and every pair of quanta: its invariants first, then that it       *)
(* implements the task pool, because initial states map to initial states   *)
(* and every step of Scheduler maps to a step of TaskPool or changes        *)
(* nothing there.                                                           *)
(***************************************************************************)
EXTENDS Scheduler, FiniteSetTheorems, SequenceTheorems, TLAPS

(* A list that links every task once is as long as the set of its tasks.   *)
LEMMA InjectiveLength ==
  ASSUME NEW T, NEW q \in Seq(T), IsInjective(q)
  PROVE  IsFiniteSet(Range(q)) /\ Cardinality(Range(q)) = Len(q)
<1>1. Len(q) \in Nat /\ q \in [1..Len(q) -> Range(q)] /\ DOMAIN q = 1..Len(q)
  BY DEF Range
<1>2. q \in Bijection(1..Len(q), Range(q))
  BY <1>1 DEF Range, Bijection, Injection, Surjection, IsInjective
<1>3. IsFiniteSet(1..Len(q)) /\ Cardinality(1..Len(q)) = Len(q)
  BY <1>1, FS_Interval
<1>4. ExistsBijection(1..Len(q), Range(q))
  BY <1>2 DEF ExistsBijection
<1> QED BY <1>3, <1>4, FS_Bijection

(* Unlinking tasks from such a list leaves such a list, of the others.     *)
LEMMA UnlinkLeaves ==
  ASSUME NEW T, NEW q \in Seq(T), IsInjective(q), NEW S, NEW r \in Unlink(q, S)
  PROVE  /\ r \in Seq(T)
         /\ IsInjective(r)
         /\ Range(r) = Range(q) \ S
         /\ Len(r) <= Len(q)
<1>1. PICK n \in 0..Len(q) : r \in [1..n -> Range(q)]
  BY DEF Unlink
<1>2. Range(q) \subseteq T
  BY DEF Range
<1>3. n \in Nat /\ n <= Len(q)
  BY <1>1
<1>4. r \in Seq(T) /\ Len(r) = n /\ DOMAIN r = 1..n
  <2>1. r \in [1..n -> T]
    BY <1>1, <1>2
  <2> QED BY <2>1, <1>3, IsASeq
<1>5. /\ Range(r) = Range(q) \ S
      /\ \A i, j \in DOMAIN r : i < j =>
           \E k, l \in DOMAIN q : k < l /\ q[k] = r[i] /\ q[l] = r[j]
  BY DEF Unlink
<1>6. \A i, j \in DOMAIN r : i < j => r[i] # r[j]
  <2> DOMAIN q \subseteq Int
    OBVIOUS
  <2> QED BY <1>5 DEF IsInjective
<1>7. IsInjective(r)
  BY <1>4, <1>6 DEF IsInjective
<1> QED BY <1>3, <1>4, <1>5, <1>7

(* Unlinking one task shortens the list by one.                            *)
LEMMA UnlinkOne ==
  ASSUME NEW T, NEW q \in Seq(T), IsInjective(q), NEW t \in Range(q),
         NEW r \in Unlink(q, {t})
  PROVE  Len(r) = Len(q) - 1
<1>1. r \in Seq(T) /\ IsInjective(r) /\ Range(r) = Range(q) \ {t}
  BY UnlinkLeaves
<1>2. IsFiniteSet(Range(q)) /\ Cardinality(Range(q)) = Len(q)
  BY InjectiveLength
<1>3. Cardinality(Range(r)) = Len(r)
  BY <1>1, InjectiveLength
<1>4. Cardinality(Range(q) \ {t}) = Cardinality(Range(q)) - 1
  BY <1>2, FS_RemoveElement
<1> QED BY <1>1, <1>2, <1>3, <1>4

(* enqueue_task_locked links a task that is not linked yet.                *)
LEMMA AppendLeaves ==
  ASSUME NEW T, NEW q \in Seq(T), IsInjective(q), NEW t \in T, t \notin Range(q)
  PROVE  /\ Append(q, t) \in Seq(T)
         /\ IsInjective(Append(q, t))
         /\ Range(Append(q, t)) = Range(q) \cup {t}
         /\ Len(Append(q, t)) = Len(q) + 1
<1> DEFINE r == Append(q, t)
<1>1. /\ r \in Seq(T) /\ Len(r) = Len(q) + 1
      /\ DOMAIN r = 1..Len(q) + 1 /\ DOMAIN q = 1..Len(q) /\ Len(q) \in Nat
      /\ \A i \in 1..Len(q) : r[i] = q[i]
      /\ r[Len(q) + 1] = t
  BY AppendProperties, LenProperties
<1>2. \A i \in 1..Len(q) : q[i] \in Range(q) /\ q[i] # t
  BY <1>1 DEF Range
<1>3. IsInjective(r)
  <2> SUFFICES ASSUME NEW i \in 1..Len(q) + 1, NEW j \in 1..Len(q) + 1,
                      r[i] = r[j]
               PROVE  i = j
    BY <1>1 DEF IsInjective
  <2>1. CASE i = Len(q) + 1 \/ j = Len(q) + 1
    BY <2>1, <1>1, <1>2
  <2>2. CASE i \in 1..Len(q) /\ j \in 1..Len(q)
    BY <2>2, <1>1 DEF IsInjective
  <2> QED BY <2>1, <2>2, <1>1
<1>4. Range(r) = Range(q) \cup {t}
  <2>1. ASSUME NEW x \in Range(r) PROVE x \in Range(q) \cup {t}
    <3>1. PICK i \in 1..Len(q) + 1 : x = r[i]
      BY <1>1 DEF Range
    <3>2. CASE i = Len(q) + 1
      BY <3>1, <3>2, <1>1
    <3>3. CASE i \in 1..Len(q)
      BY <3>1, <3>3, <1>1, <1>2
    <3> QED BY <3>1, <3>2, <3>3, <1>1
  <2>2. ASSUME NEW x \in Range(q) \cup {t} PROVE x \in Range(r)
    <3>1. CASE x \in Range(q)
      <4>1. PICK i \in 1..Len(q) : x = q[i]
        BY <3>1, <1>1 DEF Range
      <4> QED BY <4>1, <1>1 DEF Range
    <3>2. CASE x = t
      BY <3>2, <1>1 DEF Range
    <3> QED BY <3>1, <3>2
  <2> QED BY <2>1, <2>2
<1> QED BY <1>1, <1>3, <1>4

-----------------------------------------------------------------------------
(* What ties the program counters to the records: task_ids are given out   *)
(* in order and a record is filled when its id is given, a result is there  *)
(* exactly between the executor's return and the mutex, nothing is freed    *)
(* from under the list before scheduler_destroy.                           *)
Bookkeeping ==
  /\ \A t \in Tasks : task[t].state = "unsubmitted" <=> t >= next_task_id
  /\ result # "none" <=> pc = "returned"
  /\ pc # "destroyed" => \A t \in Tasks : task[t].state # "freed"

(* The invariants of the runs are not inductive by themselves, but they    *)
(* are together and with Bookkeeping.                                      *)
IInv ==
  /\ TypeOK
  /\ Bookkeeping
  /\ QueueHoldsWaitingTasks
  /\ OneTaskRuns
  /\ SignalsCoverQueue
  /\ ActiveCountExact
  /\ NeverSleepsOnWork
  /\ CancelledNeverQueued
  /\ ShellPreemptsProgram

LEMMA BlankRecord ==
  ASSUME NEW how \in {"unsubmitted", "freed"} \cup Ended
  PROVE  /\ Blank(how) \in TaskRecord
         /\ Blank(how).state = how
         /\ ~Blank(how).cancel /\ ~Blank(how).preempt
BY DEF Blank, TaskRecord, Types

LEMMA InitIInv == Init => IInv
<1> SUFFICES ASSUME Init PROVE IInv
  OBVIOUS
<1> USE SchedulerAssumption DEF Init
<1>1. Queued = {} /\ waiting \in Seq(Tasks) /\ IsInjective(waiting)
      /\ Len(waiting) = 0
  BY DEF Queued, Range, IsInjective
<1>2. Blank("unsubmitted") \in TaskRecord
      /\ Blank("unsubmitted").state = "unsubmitted"
  BY BlankRecord
<1>3. TypeOK
  <2>1. task \in [Tasks -> TaskRecord]
    BY <1>2
  <2>2. /\ current_task \in Tasks \cup {NoTask}
        /\ active_task_count \in Nat /\ queued_signal_count \in Nat
        /\ stop_requested \in BOOLEAN
    OBVIOUS
  <2>3. next_task_id \in 1..MaxTasks + 1
    OBVIOUS
  <2>4. /\ last_selected_task_id \in Tasks \cup {-1}
        /\ pc \in ThreadPlaces /\ result \in Results \cup {"none"}
    BY DEF ThreadPlaces
  <2> QED BY <1>1, <2>1, <2>2, <2>3, <2>4 DEF TypeOK
<1>4. Bookkeeping
  BY <1>2 DEF Bookkeeping, Tasks
<1>5. QueueHoldsWaitingTasks
  BY <1>1, <1>2 DEF QueueHoldsWaitingTasks
<1>6. OneTaskRuns
  BY <1>2 DEF OneTaskRuns, NoTask, Tasks
<1>7. SignalsCoverQueue /\ ActiveCountExact
  BY <1>1 DEF SignalsCoverQueue, ActiveCountExact, NoTask
<1>8. NeverSleepsOnWork /\ CancelledNeverQueued /\ ShellPreemptsProgram
  BY <1>1 DEF NeverSleepsOnWork, CancelledNeverQueued, ShellPreemptsProgram
<1> QED BY <1>3, <1>4, <1>5, <1>6, <1>7, <1>8 DEF IInv

(* The steps that leave tasks and list alone.                              *)
LEMMA PlaceStep ==
  ASSUME IInv, WaitForSignal \/ SpuriousWakeup \/ RequestStop \/ Exit
               \/ NothingToDispatch
  PROVE  IInv'
<1> USE DEF IInv
<1>1. UNCHANGED <<task, waiting, current_task, active_task_count, next_task_id,
                  last_selected_task_id, result>>
  BY DEF WaitForSignal, SpuriousWakeup, RequestStop, Exit, NothingToDispatch
<1>2. /\ pc \in ThreadPlaces \ {"destroyed"}
      /\ pc' \in ThreadPlaces \ {"destroyed"}
      /\ (pc \in {"executing", "returned"} \/ pc' \in {"executing", "returned"})
            => pc' = pc
  BY DEF WaitForSignal, SpuriousWakeup, RequestStop, Exit, NothingToDispatch,
         Signal, TypeOK, ThreadPlaces
<1>3. Queued' = Queued /\ Len(waiting) \in Nat
  BY <1>1 DEF Queued, TypeOK
<1>4. queued_signal_count' \in Nat /\ SignalsCoverQueue'
  <2>1. CASE NothingToDispatch
    BY <2>1 DEF NothingToDispatch, ConsumeSignal, SignalsCoverQueue, TypeOK
  <2>2. CASE Exit
    <3>1. Len(waiting) = 0
      BY <2>2, <1>3 DEF Exit, StopNow, ActiveCountExact, TypeOK
    <3> QED BY <2>2, <3>1 DEF Exit, ConsumeSignal, SignalsCoverQueue, TypeOK
  <2>3. CASE WaitForSignal \/ SpuriousWakeup \/ RequestStop
    BY <2>3, <1>1 DEF WaitForSignal, SpuriousWakeup, RequestStop,
         SignalsCoverQueue, TypeOK
  <2> QED BY <2>1, <2>2, <2>3
<1>5. TypeOK'
  BY <1>1, <1>2, <1>4 DEF TypeOK, WaitForSignal, SpuriousWakeup, RequestStop,
     Exit, NothingToDispatch
<1>6. Bookkeeping' /\ QueueHoldsWaitingTasks' /\ OneTaskRuns'
  BY <1>1, <1>2, <1>3 DEF Bookkeeping, QueueHoldsWaitingTasks, OneTaskRuns
<1>7. ActiveCountExact' /\ CancelledNeverQueued' /\ ShellPreemptsProgram'
  BY <1>1, <1>3 DEF ActiveCountExact, CancelledNeverQueued, ShellPreemptsProgram
<1>8. NeverSleepsOnWork'
  <2>1. CASE WaitForSignal
    <3>1. waiting = <<>>
      BY <2>1, <1>3, EmptySeq DEF WaitForSignal, SignalsCoverQueue, TypeOK
    <3> QED BY <3>1, <2>1, <1>1 DEF WaitForSignal, NeverSleepsOnWork, StopNow
  <2>2. CASE RequestStop \/ SpuriousWakeup \/ Exit \/ NothingToDispatch
    BY <2>2 DEF RequestStop, SpuriousWakeup, Exit, NothingToDispatch, Signal,
       NeverSleepsOnWork
  <2> QED BY <2>1, <2>2
<1> QED BY <1>4, <1>5, <1>6, <1>7, <1>8

LEMMA DestroyStep == IInv /\ JoinAndDestroy => IInv'
<1> SUFFICES ASSUME IInv, JoinAndDestroy PROVE IInv'
  OBVIOUS
<1> USE DEF IInv
<1>1. UNCHANGED <<waiting, current_task, active_task_count,
         queued_signal_count, stop_requested, next_task_id,
         last_selected_task_id, result>> /\ pc = "exited" /\ pc' = "destroyed"
  BY DEF JoinAndDestroy
<1>2. Queued' = Queued
  BY <1>1 DEF Queued
<1>3. Queued \subseteq Tasks
  BY DEF Queued, TypeOK, Range
<1>4. /\ task \in [Tasks -> TaskRecord]
      /\ task' = [t \in Tasks |-> IF t \in Queued
                               THEN Blank("freed")
                               ELSE task[t]]
  BY DEF JoinAndDestroy, TypeOK
<1>5. /\ task' \in [Tasks -> TaskRecord]
      /\ \A t \in Queued : /\ task'[t].state = "freed"
                          /\ ~task'[t].cancel /\ ~task'[t].preempt
      /\ \A t \in Tasks \ Queued : task'[t] = task[t]
  BY <1>4, <1>3, BlankRecord
<1>6. TypeOK'
  BY <1>1, <1>5 DEF TypeOK, ThreadPlaces
<1>7. \A t \in Tasks : t \in Queued <=> task[t].state = "waiting"
  BY <1>1 DEF QueueHoldsWaitingTasks
<1>8. Bookkeeping'
  BY <1>1, <1>5, <1>7 DEF Bookkeeping
<1>9. QueueHoldsWaitingTasks'
  BY <1>1, <1>2, <1>5 DEF QueueHoldsWaitingTasks, Bookkeeping
<1>10. current_task = NoTask
  BY <1>1 DEF OneTaskRuns
<1>11. OneTaskRuns'
  BY <1>1, <1>5, <1>7, <1>10 DEF OneTaskRuns, NoTask
<1>12. SignalsCoverQueue' /\ ActiveCountExact' /\ NeverSleepsOnWork'
  BY <1>1 DEF SignalsCoverQueue, ActiveCountExact, NeverSleepsOnWork
<1>13. CancelledNeverQueued' /\ ShellPreemptsProgram'
  BY <1>1, <1>2, <1>5, <1>10, <1>3 DEF CancelledNeverQueued, ShellPreemptsProgram
<1> QED BY <1>6, <1>8, <1>9, <1>11, <1>12, <1>13

LEMMA SubmitStep ==
  ASSUME IInv, NEW c \in Clients, NEW type \in Types,
         NEW predicted \in 0..MaxBurst, Submit(c, type, predicted)
  PROVE  IInv'
<1> USE SchedulerAssumption DEF IInv
<1> DEFINE t     == next_task_id
           burst == Burst(type, predicted)
           new   == [client |-> c, type |-> type, state |-> "waiting",
                     remaining |-> burst, rounds |-> 0,
                     preempt |-> FALSE, cancel |-> FALSE]
<1>1. /\ t \in Tasks /\ next_task_id' = t + 1 /\ pc # "destroyed"
      /\ waiting' = Append(waiting, t)
      /\ queued_signal_count' = queued_signal_count + 1
      /\ active_task_count' = active_task_count + 1
      /\ pc' = IF pc = "cond_wait" THEN "locking" ELSE pc
      /\ UNCHANGED <<current_task, stop_requested, last_selected_task_id, result>>
  BY DEF Submit, Enqueue, Signal
<1>2. new \in TaskRecord
  <2>1. burst \in Int
    BY DEF Burst, Types
  <2> QED BY <2>1 DEF TaskRecord, Live
<1>3. task[t].state = "unsubmitted"
  BY <1>1 DEF Bookkeeping, Tasks
<1>4. t \notin Queued /\ t # current_task
  BY <1>1, <1>3 DEF QueueHoldsWaitingTasks, OneTaskRuns
<1>5. /\ waiting' \in Seq(Tasks)
      /\ IsInjective(waiting')
      /\ Queued' = Queued \cup {t}
      /\ Len(waiting') = Len(waiting) + 1
      /\ Len(waiting) \in Nat
  BY <1>1, <1>4, AppendLeaves DEF Queued, TypeOK, QueueHoldsWaitingTasks
<1>6. /\ task' \in [Tasks -> TaskRecord]
      /\ task'[t] = new
      /\ \A u \in Tasks \ {t} :
           /\ task'[u].state = task[u].state
           /\ task'[u].type = task[u].type
           /\ task'[u].cancel = task[u].cancel
           /\ u # current_task => task'[u].preempt = task[u].preempt
           /\ task[u].preempt => task'[u].preempt
           /\ u = current_task /\ ShouldPreempt(type, burst) => task'[u].preempt
  <2>1. task' = [u \in Tasks |->
                   CASE u = t -> new
                     [] u = current_task /\ ShouldPreempt(type, burst)
                          -> [task[u] EXCEPT !.preempt = TRUE]
                     [] OTHER -> task[u]]
    BY DEF Submit
  <2>2. task \in [Tasks -> TaskRecord]
    BY DEF TypeOK
  <2>3. task'[t] = new
    BY <2>1, <1>1, <1>4
  <2>4. ASSUME NEW u \in Tasks \ {t}
        PROVE  task'[u] = IF u = current_task /\ ShouldPreempt(type, burst)
                          THEN [task[u] EXCEPT !.preempt = TRUE]
                          ELSE task[u]
    BY <2>1, <2>4
  <2>5. ASSUME NEW u \in Tasks \ {t}
        PROVE  /\ task'[u] \in TaskRecord
               /\ task'[u].state = task[u].state
               /\ task'[u].type = task[u].type
               /\ task'[u].cancel = task[u].cancel
               /\ u # current_task => task'[u].preempt = task[u].preempt
               /\ task[u].preempt => task'[u].preempt
               /\ u = current_task /\ ShouldPreempt(type, burst) => task'[u].preempt
    BY <2>2, <2>4, <2>5 DEF TaskRecord
  <2>6. task' \in [Tasks -> TaskRecord]
    <3>1. \A u \in Tasks : task'[u] \in TaskRecord
      BY <2>3, <2>5, <1>2
    <3>2. task' = [u \in Tasks |-> task'[u]]
      BY <2>1
    <3> QED BY <3>1, <3>2
  <2> QED BY <2>3, <2>5, <2>6
<1>7. TypeOK'
  BY <1>1, <1>5, <1>6 DEF TypeOK, Tasks, ThreadPlaces
<1>8. Bookkeeping'
  <2>1. \A u \in Tasks : task'[u].state = "unsubmitted" <=> u >= t + 1
    <3>1. task'[t].state = "waiting" /\ t \in Int
      BY <1>1, <1>6 DEF Tasks
    <3>2. \A u \in Tasks \ {t} : u >= t <=> u >= t + 1
      BY <3>1 DEF Tasks
    <3> QED BY <3>1, <3>2, <1>1, <1>6 DEF Bookkeeping
  <2>2. \A u \in Tasks : task'[u].state # "freed"
    BY <1>1, <1>6 DEF Bookkeeping
  <2>3. result' # "none" <=> pc' = "returned"
    BY <1>1 DEF Bookkeeping
  <2> QED BY <2>1, <2>2, <2>3, <1>1 DEF Bookkeeping
<1>9. QueueHoldsWaitingTasks'
  BY <1>1, <1>5, <1>6 DEF QueueHoldsWaitingTasks
<1>10. OneTaskRuns'
  BY <1>1, <1>3, <1>4, <1>6 DEF OneTaskRuns
<1>11. SignalsCoverQueue' /\ ActiveCountExact'
  BY <1>1, <1>5 DEF SignalsCoverQueue, ActiveCountExact, TypeOK
<1>12. NeverSleepsOnWork'
  BY <1>1 DEF NeverSleepsOnWork
<1>13. Queued \subseteq Tasks /\ current_task \notin Queued
  BY DEF Queued, TypeOK, Range, QueueHoldsWaitingTasks, OneTaskRuns, NoTask, Tasks
<1>14. CancelledNeverQueued'
  BY <1>5, <1>6, <1>13 DEF CancelledNeverQueued
<1>15. ShellPreemptsProgram'
  <2> SUFFICES ASSUME current_task # NoTask, task'[current_task].type = "program",
                      NEW u \in Queued \cup {t}, task'[u].type = "shell"
               PROVE  task'[current_task].preempt
    BY <1>1, <1>5 DEF ShellPreemptsProgram
  <2>1. current_task \in Tasks \ {t} /\ task[current_task].type = "program"
    BY <1>4, <1>6 DEF TypeOK
  <2>2. CASE u = t
    <3>1. type = "shell"
      BY <2>2, <1>6
    <3>2. ShouldPreempt(type, burst)
      BY <2>1, <3>1 DEF ShouldPreempt
    <3> QED BY <3>2, <2>1, <1>6
  <2>3. CASE u # t
    <3>1. task[u].type = "shell" /\ u \in Queued
      BY <2>3, <1>6, <1>13
    <3> QED BY <3>1, <2>1, <1>6 DEF ShellPreemptsProgram
  <2> QED BY <2>2, <2>3
<1> QED BY <1>7, <1>8, <1>9, <1>10, <1>11, <1>12, <1>14, <1>15

LEMMA CancelStep ==
  ASSUME IInv, NEW c \in Clients, CancelClient(c)
  PROVE  IInv'
<1> USE DEF IInv
<1> DEFINE Mine == {t \in Queued : task[t].client = c}
<1>1. /\ pc # "destroyed"
      /\ UNCHANGED <<current_task, queued_signal_count, stop_requested,
                     next_task_id, last_selected_task_id, pc, result>>
  BY DEF CancelClient
<1>2. /\ waiting' \in Unlink(waiting, Mine)
      /\ active_task_count' = active_task_count - (Len(waiting) - Len(waiting'))
  BY DEF CancelClient, Retire
<1>3. /\ waiting' \in Seq(Tasks)
      /\ IsInjective(waiting')
      /\ Queued' = Queued \ Mine
      /\ Len(waiting') <= Len(waiting)
      /\ Len(waiting) \in Nat /\ Len(waiting') \in Nat
  <2> HIDE DEF Mine
  <2>1. /\ waiting' \in Seq(Tasks)
        /\ IsInjective(waiting')
        /\ Range(waiting') = Range(waiting) \ Mine
        /\ Len(waiting') <= Len(waiting)
    BY <1>2, UnlinkLeaves DEF TypeOK, QueueHoldsWaitingTasks
  <2> QED BY <2>1 DEF TypeOK, Queued
<1>4. /\ Queued \subseteq Tasks /\ Mine \subseteq Queued
      /\ \A t \in Tasks : t \in Queued <=> task[t].state = "waiting"
      /\ \A t : t \in Mine <=> t \in Queued /\ task[t].client = c
  BY <1>1 DEF Queued, TypeOK, Range, QueueHoldsWaitingTasks
<1>5. /\ task' \in [Tasks -> TaskRecord]
      /\ \A t \in Tasks :
           /\ task'[t].state = IF t \in Mine THEN "cancelled" ELSE task[t].state
           /\ t \notin Mine => task'[t].type = task[t].type
           /\ t \notin Mine /\ t # current_task =>
                /\ task'[t].cancel = task[t].cancel
                /\ task'[t].preempt = task[t].preempt
           /\ t \notin Mine /\ task[t].preempt => task'[t].preempt
  <2>1. task' = [t \in Tasks |->
                   CASE t \in Queued /\ task[t].client = c
                          -> Blank("cancelled")
                     [] t = current_task /\ task[t].client = c
                          -> [task[t] EXCEPT !.cancel = TRUE, !.preempt = TRUE]
                     [] OTHER -> task[t]]
    BY DEF CancelClient
  <2>0. current_task \notin Queued
    BY <1>4 DEF OneTaskRuns
  <2>2. task \in [Tasks -> TaskRecord]
    BY DEF TypeOK
  <2> HIDE DEF Mine
  <2>3. ASSUME NEW t \in Tasks
        PROVE  /\ task'[t] \in TaskRecord
               /\ task'[t].state = IF t \in Mine THEN "cancelled" ELSE task[t].state
               /\ t \notin Mine => task'[t].type = task[t].type
               /\ t \notin Mine /\ t # current_task =>
                    /\ task'[t].cancel = task[t].cancel
                    /\ task'[t].preempt = task[t].preempt
               /\ t \notin Mine /\ task[t].preempt => task'[t].preempt
    <3>1. CASE t \in Mine
      BY <3>1, <2>0, <2>1, <2>2, <1>4, BlankRecord DEF Ended
    <3>2. CASE t \notin Mine /\ t = current_task /\ task[t].client = c
      BY <3>2, <2>1, <2>2, <1>4 DEF TaskRecord
    <3>3. CASE t \notin Mine /\ ~(t = current_task /\ task[t].client = c)
      BY <3>3, <2>1, <2>2, <1>4 DEF TaskRecord
    <3> QED BY <3>1, <3>2, <3>3
  <2>4. task' \in [Tasks -> TaskRecord]
    <3> DEFINE rec(t) ==
          CASE t \in Queued /\ task[t].client = c
                 -> Blank("cancelled")
            [] t = current_task /\ task[t].client = c
                 -> [task[t] EXCEPT !.cancel = TRUE, !.preempt = TRUE]
            [] OTHER -> task[t]
    <3>0. task' = [t \in Tasks |-> rec(t)]
      BY <2>1
    <3> HIDE DEF rec
    <3>1. task' = [t \in Tasks |-> task'[t]]
      BY <3>0
    <3> QED BY <3>1, <2>3
  <2> QED BY <2>3, <2>4
<1> HIDE DEF Mine
<1>6. ActiveCountExact'
  BY <1>1, <1>2, <1>3 DEF ActiveCountExact, TypeOK
<1>7. TypeOK'
  <2>1. active_task_count' \in Nat
    BY <1>1, <1>3, <1>6 DEF ActiveCountExact
  <2> QED BY <2>1, <1>1, <1>3, <1>5 DEF TypeOK
<1>8. Bookkeeping'
  BY <1>1, <1>5, <1>4 DEF Bookkeeping
<1>9. QueueHoldsWaitingTasks'
  BY <1>1, <1>3, <1>5, <1>4 DEF QueueHoldsWaitingTasks
<1>10. OneTaskRuns'
  BY <1>1, <1>5, <1>4 DEF OneTaskRuns
<1>11. SignalsCoverQueue'
  BY <1>1, <1>3 DEF SignalsCoverQueue, TypeOK
<1>12. NeverSleepsOnWork'
  <2> SUFFICES ASSUME pc = "cond_wait" PROVE waiting' = <<>> /\ ~StopNow'
    BY <1>1 DEF NeverSleepsOnWork
  <2>1. waiting = <<>> /\ ~StopNow
    BY DEF NeverSleepsOnWork
  <2>2. Len(waiting') = 0 /\ Len(waiting) = 0
    BY <2>1, <1>3
  <2>3. active_task_count' = active_task_count
    BY <2>2, <1>2 DEF TypeOK
  <2> QED BY <2>1, <2>2, <2>3, <1>1, <1>3, EmptySeq DEF StopNow
<1>13. CancelledNeverQueued'
  <2>1. current_task \notin Queued
    BY <1>4 DEF OneTaskRuns
  <2> QED BY <2>1, <1>3, <1>5, <1>4 DEF CancelledNeverQueued
<1>14. ShellPreemptsProgram'
  <2> SUFFICES ASSUME current_task # NoTask, task'[current_task].type = "program",
                      NEW u \in Queued \ Mine, task'[u].type = "shell"
               PROVE  task'[current_task].preempt
    BY <1>1, <1>3 DEF ShellPreemptsProgram
  <2>1. current_task \in Tasks /\ current_task \notin Mine
    BY <1>4 DEF TypeOK, OneTaskRuns
  <2>2. u \in Tasks /\ task[u].type = "shell" /\ task[current_task].type = "program"
    BY <2>1, <1>4, <1>5
  <2>3. task[current_task].preempt
    BY <2>2 DEF ShellPreemptsProgram
  <2> QED BY <2>1, <2>3, <1>5
<1> QED BY <1>6, <1>7, <1>8, <1>9, <1>10, <1>11, <1>12, <1>13, <1>14

LEMMA DispatchStep ==
  ASSUME IInv, NEW t \in Tasks, Dispatch(t)
  PROVE  IInv'
<1> USE DEF IInv
<1>1. /\ pc = "locking" /\ pc' = "executing"
      /\ queued_signal_count > 0
      /\ queued_signal_count' = queued_signal_count - 1
      /\ waiting' \in Unlink(waiting, {t})
      /\ current_task' = t /\ last_selected_task_id' = t
      /\ task' = [task EXCEPT ![t].state = "running", ![t].preempt = FALSE]
      /\ UNCHANGED <<active_task_count, stop_requested, next_task_id, result>>
  BY DEF Dispatch, MayDispatch, StartRound, ConsumeSignal
<1>2. t \in Queued
  BY DEF Dispatch, MayDispatch, StartRound, NextToDispatch, FirstShell, ShortestProgram, Shortest,
     Programs, Queued, Range
<1>3. current_task = NoTask
  BY <1>1 DEF OneTaskRuns
<1>4. /\ waiting' \in Seq(Tasks)
      /\ IsInjective(waiting')
      /\ Queued' = Queued \ {t}
      /\ Len(waiting') = Len(waiting) - 1
      /\ Len(waiting) \in Nat /\ Len(waiting') \in Nat
  <2>1. /\ waiting' \in Seq(Tasks)
        /\ IsInjective(waiting')
        /\ Range(waiting') = Range(waiting) \ {t}
    BY <1>1, UnlinkLeaves DEF TypeOK, QueueHoldsWaitingTasks
  <2>2. Len(waiting') = Len(waiting) - 1
    BY <1>1, <1>2, UnlinkOne DEF TypeOK, QueueHoldsWaitingTasks, Queued
  <2> QED BY <2>1, <2>2 DEF TypeOK, Queued
<1>5. /\ task' \in [Tasks -> TaskRecord]
      /\ task'[t].state = "running" /\ ~task'[t].preempt
      /\ \A u \in Tasks : task'[u].type = task[u].type
      /\ \A u \in Tasks \ {t} : task'[u] = task[u]
  BY <1>1 DEF TypeOK, TaskRecord, Live
<1>6. /\ Queued \subseteq Tasks
      /\ \A u \in Tasks : u \in Queued <=> task[u].state = "waiting"
      /\ task[t].state = "waiting"
  BY <1>1, <1>2 DEF Queued, TypeOK, Range, QueueHoldsWaitingTasks
<1>7. TypeOK'
  BY <1>1, <1>4, <1>5 DEF TypeOK, ThreadPlaces
<1>8. Bookkeeping'
  <2>1. \A u \in Tasks : task'[u].state = "unsubmitted" <=> u >= next_task_id
    BY <1>5, <1>6 DEF Bookkeeping
  <2>2. \A u \in Tasks : task'[u].state # "freed"
    BY <1>1, <1>5 DEF Bookkeeping
  <2> QED BY <1>1, <2>1, <2>2 DEF Bookkeeping
<1>9. QueueHoldsWaitingTasks'
  BY <1>1, <1>4, <1>5, <1>6 DEF QueueHoldsWaitingTasks
<1>10. OneTaskRuns'
  BY <1>1, <1>3, <1>5 DEF OneTaskRuns, NoTask, Tasks
<1>11. SignalsCoverQueue'
  BY <1>1, <1>4 DEF SignalsCoverQueue, TypeOK
<1>12. ActiveCountExact'
  BY <1>1, <1>3, <1>4 DEF ActiveCountExact, NoTask, Tasks, TypeOK
<1>13. NeverSleepsOnWork' /\ CancelledNeverQueued'
  BY <1>1, <1>4, <1>5, <1>6 DEF NeverSleepsOnWork, CancelledNeverQueued
<1>14. ShellPreemptsProgram'
  <2> SUFFICES ASSUME task'[t].type = "program",
                      NEW u \in Queued \ {t}, task'[u].type = "shell"
               PROVE  FALSE
    BY <1>1, <1>4 DEF ShellPreemptsProgram
  <2>1. task[t].type = "program" /\ task[u].type = "shell" /\ u \in Queued
    BY <1>5, <1>6
  <2>2. FirstShell(t)
    BY <2>1 DEF Dispatch, MayDispatch, StartRound, NextToDispatch
  <2> QED BY <2>1, <2>2 DEF FirstShell
<1> QED BY <1>7, <1>8, <1>9, <1>10, <1>11, <1>12, <1>13, <1>14

(* While the executor runs.                                                *)
LEMMA ExecutorStep ==
  ASSUME IInv, (\E left \in 0..MaxBurst + DefaultBurst : ExecutorWorks(left))
               \/ (\E r \in Results : ExecutorReturns(r))
  PROVE  IInv'
<1> USE SchedulerAssumption DEF IInv
<1>1. /\ UNCHANGED <<waiting, current_task, active_task_count,
           queued_signal_count, stop_requested, next_task_id,
           last_selected_task_id>>
      /\ pc = "executing"
      /\ \/ pc' = "executing" /\ result' = result
         \/ pc' = "returned" /\ result' \in Results
  BY DEF ExecutorWorks, ExecutorReturns
<1>2. Queued' = Queued /\ Queued \subseteq Tasks
  BY <1>1 DEF Queued, TypeOK, Range
<1>3. /\ task' \in [Tasks -> TaskRecord]
      /\ \A t \in Tasks :
           /\ task'[t].state = task[t].state
           /\ task'[t].type = task[t].type
           /\ task'[t].cancel = task[t].cancel
           /\ task'[t].preempt = task[t].preempt
  <2>1. CASE \E left \in 0..MaxBurst + DefaultBurst : ExecutorWorks(left)
    <3>1. PICK left \in 0..MaxBurst + DefaultBurst : ExecutorWorks(left)
      BY <2>1
    <3>2. /\ left \in Int
          /\ task' = [task EXCEPT ![current_task].remaining = left]
          /\ task \in [Tasks -> TaskRecord]
      BY <3>1 DEF ExecutorWorks, TypeOK
    <3> QED BY <3>2 DEF TaskRecord
  <2>2. CASE \E r \in Results : ExecutorReturns(r)
    BY <2>2 DEF ExecutorReturns, TypeOK
  <2> QED BY <2>1, <2>2
<1>4. TypeOK'
  BY <1>1, <1>3 DEF TypeOK, ThreadPlaces
<1>5. Bookkeeping'
  BY <1>1, <1>3 DEF Bookkeeping, Results
<1>6. QueueHoldsWaitingTasks' /\ OneTaskRuns'
  BY <1>1, <1>2, <1>3 DEF QueueHoldsWaitingTasks, OneTaskRuns
<1>7. SignalsCoverQueue' /\ ActiveCountExact' /\ NeverSleepsOnWork'
  BY <1>1 DEF SignalsCoverQueue, ActiveCountExact, NeverSleepsOnWork
<1>8. CancelledNeverQueued'
  BY <1>2, <1>3 DEF CancelledNeverQueued
<1>9. ShellPreemptsProgram'
  BY <1>1, <1>2, <1>3 DEF ShellPreemptsProgram, TypeOK
<1> QED BY <1>4, <1>5, <1>6, <1>7, <1>8, <1>9

LEMMA RequeueStep == IInv /\ Requeue => IInv'
<1> SUFFICES ASSUME IInv, Requeue PROVE IInv'
  OBVIOUS
<1> USE DEF IInv
<1> DEFINE t == current_task
<1>1. /\ pc = "returned" /\ pc' = "locking"
      /\ result' = "none" /\ current_task' = NoTask
      /\ waiting' = Append(waiting, t)
      /\ queued_signal_count' = queued_signal_count + 1
      /\ ~task[t].cancel
      /\ task' = [task EXCEPT ![t].state = "waiting", ![t].rounds = 1,
                              ![t].preempt = FALSE]
      /\ UNCHANGED <<active_task_count, stop_requested, next_task_id,
                     last_selected_task_id>>
  BY DEF Requeue, Enqueue, EndRound, MayRequeue
<1>2. t \in Tasks /\ task[t].state = "running" /\ t \notin Queued
      /\ Queued \subseteq Tasks
  BY <1>1 DEF OneTaskRuns, TypeOK, QueueHoldsWaitingTasks, Queued, Range
<1>3. /\ waiting' \in Seq(Tasks)
      /\ IsInjective(waiting')
      /\ Queued' = Queued \cup {t}
      /\ Len(waiting') = Len(waiting) + 1
      /\ Len(waiting) \in Nat
  BY <1>1, <1>2, AppendLeaves DEF Queued, TypeOK, QueueHoldsWaitingTasks
<1>4. /\ task' \in [Tasks -> TaskRecord]
      /\ task'[t].state = "waiting" /\ ~task'[t].preempt /\ ~task'[t].cancel
      /\ \A u \in Tasks \ {t} : task'[u] = task[u]
  <2> HIDE DEF t
  <2>1. task[t] \in TaskRecord /\ task \in [Tasks -> TaskRecord]
    BY <1>2 DEF TypeOK
  <2>2. task'[t] = [task[t] EXCEPT !.state = "waiting", !.rounds = 1,
                                   !.preempt = FALSE]
    BY <1>1, <1>2, <2>1
  <2>3. /\ task'[t] \in TaskRecord /\ task'[t].state = "waiting"
        /\ ~task'[t].preempt /\ task'[t].cancel = task[t].cancel
    BY <2>1, <2>2 DEF TaskRecord, Live
  <2> QED BY <1>1, <1>2, <2>1, <2>3
<1> HIDE DEF t
<1>5. TypeOK'
  BY <1>1, <1>3, <1>4 DEF TypeOK, ThreadPlaces
<1>6. Bookkeeping'
  <2>1. \A u \in Tasks : task'[u].state = "unsubmitted" <=> u >= next_task_id
    BY <1>2, <1>4 DEF Bookkeeping
  <2>2. \A u \in Tasks : task'[u].state # "freed"
    BY <1>1, <1>4 DEF Bookkeeping
  <2> QED BY <1>1, <2>1, <2>2 DEF Bookkeeping
<1>7. QueueHoldsWaitingTasks'
  BY <1>1, <1>2, <1>3, <1>4 DEF QueueHoldsWaitingTasks
<1>8. OneTaskRuns'
  <2>1. \A u \in Tasks : task'[u].state # "running"
    BY <1>4 DEF OneTaskRuns, t
  <2>2. current_task' = NoTask /\ pc' = "locking" /\ NoTask \notin Tasks
    BY <1>1 DEF NoTask, Tasks
  <2> QED BY <2>1, <2>2 DEF OneTaskRuns
<1>9. SignalsCoverQueue'
  BY <1>1, <1>3 DEF SignalsCoverQueue, TypeOK
<1>10. ActiveCountExact'
  BY <1>1, <1>2, <1>3 DEF ActiveCountExact, NoTask, Tasks, t, TypeOK
<1>11. NeverSleepsOnWork' /\ ShellPreemptsProgram'
  BY <1>1 DEF NeverSleepsOnWork, ShellPreemptsProgram
<1>12. CancelledNeverQueued'
  BY <1>2, <1>3, <1>4 DEF CancelledNeverQueued
<1> QED BY <1>5, <1>6, <1>7, <1>8, <1>9, <1>10, <1>11, <1>12

LEMMA FinalizeStep == IInv /\ Finalize => IInv'
<1> SUFFICES ASSUME IInv, Finalize PROVE IInv'
  OBVIOUS
<1> USE DEF IInv
<1> DEFINE t == current_task
<1>1. /\ pc = "returned" /\ pc' = "locking"
      /\ result' = "none" /\ current_task' = NoTask
      /\ active_task_count' = active_task_count - 1
      /\ task' = [task EXCEPT ![t] = Blank(Outcome)]
      /\ UNCHANGED <<waiting, queued_signal_count, stop_requested, next_task_id,
                     last_selected_task_id>>
  BY DEF Finalize, Retire, EndRound
<1>2. t \in Tasks /\ task[t].state = "running" /\ t \notin Queued
      /\ Queued \subseteq Tasks /\ Queued' = Queued
  BY <1>1 DEF OneTaskRuns, TypeOK, QueueHoldsWaitingTasks, Queued, Range
<1>3. Outcome \in Ended
  BY DEF Outcome, Ended
<1>4. /\ task' \in [Tasks -> TaskRecord]
      /\ task'[t].state \in Ended
      /\ \A u \in Tasks \ {t} : task'[u] = task[u]
  BY <1>1, <1>2, <1>3, BlankRecord DEF TypeOK
<1> HIDE DEF t
<1>5. ActiveCountExact'
  BY <1>1, <1>2 DEF ActiveCountExact, NoTask, Tasks, t, TypeOK
<1>6. TypeOK'
  <2>1. active_task_count' \in Nat
    BY <1>1, <1>5 DEF ActiveCountExact, TypeOK
  <2> QED BY <2>1, <1>1, <1>4 DEF TypeOK, ThreadPlaces
<1>7. Bookkeeping'
  <2>1. \A u \in Tasks : task'[u].state = "unsubmitted" <=> u >= next_task_id
    BY <1>2, <1>4 DEF Bookkeeping, Ended
  <2>2. \A u \in Tasks : task'[u].state # "freed"
    BY <1>1, <1>4 DEF Bookkeeping, Ended
  <2> QED BY <1>1, <2>1, <2>2 DEF Bookkeeping
<1>8. QueueHoldsWaitingTasks'
  BY <1>1, <1>2, <1>4 DEF QueueHoldsWaitingTasks, Ended
<1>9. OneTaskRuns'
  <2>1. \A u \in Tasks : task'[u].state # "running"
    BY <1>4 DEF OneTaskRuns, t, Ended
  <2> QED BY <1>1, <2>1 DEF OneTaskRuns, NoTask, Tasks
<1>10. SignalsCoverQueue' /\ NeverSleepsOnWork' /\ ShellPreemptsProgram'
  BY <1>1 DEF SignalsCoverQueue, NeverSleepsOnWork, ShellPreemptsProgram
<1>11. CancelledNeverQueued'
  BY <1>2, <1>4 DEF CancelledNeverQueued
<1> QED BY <1>5, <1>6, <1>7, <1>8, <1>9, <1>10, <1>11

LEMMA NextIInv == IInv /\ [Next]_vars => IInv'
<1> SUFFICES ASSUME IInv, [Next]_vars PROVE IInv'
  OBVIOUS
<1>1. CASE SchedulerThread
  <2>1. CASE WaitForSignal \/ Exit \/ NothingToDispatch
    BY <2>1, PlaceStep
  <2>2. CASE \E t \in Tasks : Dispatch(t)
    BY <2>2, DispatchStep
  <2>3. CASE Requeue
    BY <2>3, RequeueStep
  <2>4. CASE Finalize
    BY <2>4, FinalizeStep
  <2> QED BY <1>1, <2>1, <2>2, <2>3, <2>4 DEF SchedulerThread
<1>2. CASE SpuriousWakeup
  BY <1>2, PlaceStep
<1>3. CASE Executor
  BY <1>3, ExecutorStep DEF Executor
<1>4. CASE Callers
  <2>1. CASE \E c \in Clients, type \in Types, predicted \in 0..MaxBurst :
               Submit(c, type, predicted)
    BY <2>1, SubmitStep
  <2>2. CASE \E c \in Clients : CancelClient(c)
    BY <2>2, CancelStep
  <2>3. CASE RequestStop
    BY <2>3, PlaceStep
  <2>4. CASE JoinAndDestroy
    BY <2>4, DestroyStep
  <2> QED BY <1>4, <2>1, <2>2, <2>3, <2>4 DEF Callers
<1>5. CASE UNCHANGED vars
  BY <1>5 DEF vars, IInv, TypeOK, Bookkeeping, QueueHoldsWaitingTasks,
     OneTaskRuns, SignalsCoverQueue, ActiveCountExact, NeverSleepsOnWork,
     CancelledNeverQueued, ShellPreemptsProgram, Queued, StopNow
<1> QED BY <1>1, <1>2, <1>3, <1>4, <1>5 DEF Next

LEMMA Invariance == Spec => []IInv
BY InitIInv, NextIInv, PTL DEF Spec

-----------------------------------------------------------------------------
(* Every variable of the scheduler keeps to its type, whatever the number   *)
(* of clients, tasks and the bursts; no counter is driven below zero.       *)
THEOREM TypeCorrect == Spec => []TypeOK
BY Invariance, PTL DEF IInv

(* The waiting list links exactly the waiting tasks, each once.            *)
THEOREM QueueCorrect == Spec => []QueueHoldsWaitingTasks
BY Invariance, PTL DEF IInv

(* The simulated CPU runs one task at a time.                              *)
THEOREM OneTaskAtATime == Spec => []OneTaskRuns
BY Invariance, PTL DEF IInv

(* The signal count covers the waiting list: what is left of it is enough  *)
(* to dispatch every task that waits.                                      *)
THEOREM SignalsCover == Spec => []SignalsCoverQueue
BY Invariance, PTL DEF IInv

(* No wakeup is lost: the scheduler thread does not sleep on work.         *)
THEOREM NoLostWakeup == Spec => []NeverSleepsOnWork
BY Invariance, PTL DEF IInv

(* The task count is exact.                                                *)
THEOREM CountCorrect == Spec => []ActiveCountExact
BY Invariance, PTL DEF IInv

(* A cancelled task is never re-queued.                                    *)
THEOREM NoCancelledTaskWaits == Spec => []CancelledNeverQueued
BY Invariance, PTL DEF IInv

(* While a shell command waits, the running program is told to give way.   *)
THEOREM ShellPreempts == Spec => []ShellPreemptsProgram
BY Invariance, PTL DEF IInv

(* The scheduler thread ends only when no task is alive.                   *)
THEOREM ExitsDrained == Spec => ExitDrained
<1> DEFINE Drained == \A t \in Tasks : task[t].state \notin Live
<1>1. IInv /\ [Next]_vars => [pc' = "exited" /\ pc # "exited" => Drained]_vars
  <2> SUFFICES ASSUME IInv, Next, pc' = "exited", pc # "exited"
               PROVE  Drained
    OBVIOUS
  <2>1. Exit
    BY DEF Next, SchedulerThread, WaitForSignal, NothingToDispatch, Dispatch, MayDispatch, StartRound,
       Requeue, Finalize, EndRound, SpuriousWakeup, Executor, ExecutorWorks,
       ExecutorReturns, Callers, Submit, Signal, CancelClient, RequestStop,
       JoinAndDestroy
  <2>2. active_task_count = 0 /\ pc = "locking"
    BY <2>1 DEF Exit, StopNow
  <2>3. Len(waiting) = 0 /\ current_task = NoTask
    BY <2>2 DEF IInv, TypeOK, ActiveCountExact
  <2>4. Queued = {}
    BY <2>3 DEF Queued, Range, IInv, TypeOK
  <2>5. \A t \in Tasks : task[t].state # "waiting" /\ task[t].state # "running"
    BY <2>2, <2>3, <2>4 DEF IInv, QueueHoldsWaitingTasks, OneTaskRuns, NoTask, Tasks
  <2> QED BY <2>5 DEF Live
<1> QED BY <1>1, Invariance, PTL DEF Spec, ExitDrained

-----------------------------------------------------------------------------
(* For modules that plug callers and an executor into Scheduler: the step   *)
(* of their executor keeps within the burst that Next allows it to leave.  *)
Bounded ==
  IInv /\ \A t \in Tasks : task[t].remaining <= MaxBurst + DefaultBurst

LEMMA BoundedStep == Bounded /\ [Next]_vars => Bounded'
<1> SUFFICES ASSUME Bounded, [Next]_vars
             PROVE  \A t \in Tasks : task'[t].remaining <= MaxBurst + DefaultBurst
  BY NextIInv DEF Bounded
<1> DEFINE B == MaxBurst + DefaultBurst
<1> USE DEF Bounded
<1>1. /\ IInv /\ TypeOK /\ B \in Nat /\ MaxBurst \in Nat /\ DefaultBurst \in Nat
      /\ MaxBurst <= B /\ DefaultBurst <= B
      /\ \A t \in Tasks : task[t].remaining \in Int /\ task[t].remaining <= B
  BY SchedulerAssumption DEF SchedulerAssumption, IInv, TypeOK, TaskRecord
<1>2. task \in [Tasks -> TaskRecord] /\ NoTask \notin Tasks
  BY <1>1 DEF TypeOK, Tasks, NoTask
<1>3. \A how : Blank(how).remaining <= B
  BY <1>1 DEF Blank
<1> HIDE DEF Bounded, B
<1>4. CASE UNCHANGED task
  BY <1>4, <1>1 DEF B
<1>5. CASE \E c \in Clients, type \in Types, predicted \in 0..MaxBurst :
             Submit(c, type, predicted)
  <2>1. PICK c \in Clients, type \in Types, predicted \in 0..MaxBurst :
               Submit(c, type, predicted)
    BY <1>5
  <2>2. Burst(type, predicted) \in Int /\ Burst(type, predicted) <= B
    BY <1>1 DEF Burst, Types
  <2>3. \A t \in Tasks :
          \/ task'[t].remaining = Burst(type, predicted)
          \/ task'[t].remaining = task[t].remaining
    BY <2>1, <1>2 DEF Submit, TaskRecord
  <2> QED BY <2>2, <2>3, <1>1 DEF B
<1>6. CASE \E c \in Clients : CancelClient(c)
  <2>1. \A t \in Tasks :
          \/ task'[t] = Blank("cancelled")
          \/ task'[t].remaining = task[t].remaining
    BY <1>6, <1>2 DEF CancelClient, TaskRecord
  <2> QED BY <2>1, <1>1, <1>3 DEF B
<1>7. CASE JoinAndDestroy
  <2>1. \A t \in Tasks : task'[t] \in {Blank("freed"), task[t]}
    BY <1>7, <1>2 DEF JoinAndDestroy
  <2> QED BY <2>1, <1>1, <1>3 DEF B
<1>8. CASE \E left \in 0..MaxBurst + DefaultBurst : ExecutorWorks(left)
  <2>1. PICK left \in 0..MaxBurst + DefaultBurst : ExecutorWorks(left)
    BY <1>8
  <2>2. \A t \in Tasks : task'[t].remaining \in {left, task[t].remaining}
    BY <2>1, <1>2 DEF ExecutorWorks, TaskRecord
  <2> QED BY <2>2, <1>1 DEF B
<1>9. CASE \/ \E t \in Tasks : Dispatch(t)
           \/ Requeue
  <2>1. \A t \in Tasks : task'[t].remaining = task[t].remaining
    <3>1. CASE Requeue
      BY <3>1, <1>2 DEF Requeue, TaskRecord
    <3>2. CASE \E t \in Tasks : Dispatch(t)
      BY <3>2, <1>2 DEF Dispatch, StartRound, TaskRecord
    <3> QED BY <1>9, <3>1, <3>2
  <2> QED BY <2>1, <1>1 DEF B
<1>10. CASE Finalize
  <2>1. \A t \in Tasks : task'[t] \in {Blank(Outcome), task[t]}
    BY <1>10, <1>2 DEF Finalize
  <2> QED BY <2>1, <1>1, <1>3 DEF B
<1>11. CASE \/ UNCHANGED vars \/ WaitForSignal \/ Exit \/ NothingToDispatch
            \/ SpuriousWakeup \/ RequestStop
            \/ \E r \in Results : ExecutorReturns(r)
  BY <1>11, <1>4 DEF vars, WaitForSignal, Exit, NothingToDispatch, SpuriousWakeup,
     RequestStop, ExecutorReturns
<1> QED BY <1>5, <1>6, <1>7, <1>8, <1>9, <1>10, <1>11
        DEF Next, SchedulerThread, Executor, Callers

LEMMA InitBounded == Init => Bounded
<1> SUFFICES ASSUME Init PROVE \A t \in Tasks : task[t].remaining <= MaxBurst + DefaultBurst
  BY InitIInv DEF Bounded
<1> QED BY SchedulerAssumption DEF Init, Blank, SchedulerAssumption

(* What these invariants say of a task and of the one that is executed.    *)
LEMMA SchedulerFacts ==
  ASSUME Bounded
  PROVE  /\ task \in [Tasks -> TaskRecord] /\ NoTask \notin Tasks
         /\ current_task \in Tasks \cup {NoTask} /\ next_task_id \in Nat
         /\ pc \in {"executing", "returned"} <=> current_task \in Tasks
         /\ \A t \in Tasks : task[t].state = "running" <=> t = current_task
         /\ \A t \in Tasks : task[t].state = "unsubmitted" <=> t >= next_task_id
         /\ Queued \subseteq Tasks
         /\ pc # "destroyed" =>
              \A t \in Tasks : t \in Queued <=> task[t].state = "waiting"
<1>1. NoTask \notin Tasks
  BY DEF NoTask, Tasks
<1>2. Queued \subseteq Tasks
  BY DEF Bounded, IInv, TypeOK, Queued, Range
<1> QED BY <1>1, <1>2 DEF Bounded, IInv, TypeOK, OneTaskRuns, Bookkeeping,
           QueueHoldsWaitingTasks

-----------------------------------------------------------------------------
(* What the mapping needs beyond IInv: a shell task has no burst that would *)
(* let it be re-queued, cancellation is pending only for the running task,  *)
(* and, until scheduler_destroy, shell tasks are listed in the order of     *)
(* their task_ids, which is the order in which the pool starts them.        *)
ShellsHaveNoBurst ==
  \A t \in Tasks : task[t].type = "shell" => task[t].remaining <= 0

OnlyRunningDoomed ==
  \A t \in Tasks : task[t].cancel => task[t].state = "running"

ShellsInOrder ==
  \A i, j \in DOMAIN waiting :
    i < j /\ task[waiting[i]].type = "shell" /\ task[waiting[j]].type = "shell"
      => waiting[i] < waiting[j]

RInv ==
  /\ ShellsHaveNoBurst
  /\ OnlyRunningDoomed
  /\ pc # "destroyed" => ShellsInOrder

-----------------------------------------------------------------------------
(* What a step does to the records, task by task.                          *)

LEMMA SubmitRecords ==
  ASSUME IInv, NEW c \in Clients, NEW type \in Types,
         NEW predicted \in 0..MaxBurst, Submit(c, type, predicted)
  PROVE  /\ next_task_id \in Tasks
         /\ task[next_task_id].state = "unsubmitted"
         /\ next_task_id \notin Queued /\ next_task_id # current_task
         /\ task'[next_task_id] =
              [client |-> c, type |-> type, state |-> "waiting",
               remaining |-> Burst(type, predicted), rounds |-> 0,
               preempt |-> FALSE, cancel |-> FALSE]
         /\ \A u \in Tasks \ {next_task_id} :
              \/ task'[u] = task[u]
              \/ task'[u] = [task[u] EXCEPT !.preempt = TRUE]
<1> DEFINE t     == next_task_id
           burst == Burst(type, predicted)
           new   == [client |-> c, type |-> type, state |-> "waiting",
                     remaining |-> burst, rounds |-> 0,
                     preempt |-> FALSE, cancel |-> FALSE]
<1>1. /\ t \in Tasks
      /\ task' = [u \in Tasks |->
                    CASE u = t -> new
                      [] u = current_task /\ ShouldPreempt(type, burst)
                           -> [task[u] EXCEPT !.preempt = TRUE]
                      [] OTHER -> task[u]]
      /\ pc # "destroyed"
  BY DEF Submit
<1>2. task[t].state = "unsubmitted"
  BY <1>1 DEF IInv, Bookkeeping, Tasks
<1>3. t \notin Queued /\ t # current_task
  BY <1>1, <1>2 DEF IInv, QueueHoldsWaitingTasks, OneTaskRuns
<1> HIDE DEF new, burst
<1>4. task'[t] = new
  BY <1>1, <1>3
<1>5. \A u \in Tasks \ {t} :
        task'[u] = task[u] \/ task'[u] = [task[u] EXCEPT !.preempt = TRUE]
  BY <1>1
<1> QED BY <1>1, <1>2, <1>3, <1>4, <1>5 DEF new, burst

LEMMA CancelRecords ==
  ASSUME IInv, NEW c \in Clients, CancelClient(c)
  PROVE  \A t \in Tasks :
           /\ t \in Queued /\ task[t].client = c => task'[t] = Blank("cancelled")
           /\ t = current_task /\ task[t].client = c =>
                task'[t] = [task[t] EXCEPT !.cancel = TRUE, !.preempt = TRUE]
           /\ ~(task[t].client = c /\ (t \in Queued \/ t = current_task)) =>
                task'[t] = task[t]
<1>1. task' = [t \in Tasks |->
                 CASE t \in Queued /\ task[t].client = c
                        -> Blank("cancelled")
                   [] t = current_task /\ task[t].client = c
                        -> [task[t] EXCEPT !.cancel = TRUE, !.preempt = TRUE]
                   [] OTHER -> task[t]]
  BY DEF CancelClient
<1>2. pc # "destroyed"
  BY DEF CancelClient
<1>3. \A t \in Tasks : t = current_task => t \notin Queued
  BY <1>2 DEF IInv, QueueHoldsWaitingTasks, OneTaskRuns
<1> SUFFICES ASSUME NEW t \in Tasks
    PROVE /\ t \in Queued /\ task[t].client = c => task'[t] = Blank("cancelled")
          /\ t = current_task /\ task[t].client = c =>
               task'[t] = [task[t] EXCEPT !.cancel = TRUE, !.preempt = TRUE]
          /\ ~(task[t].client = c /\ (t \in Queued \/ t = current_task)) =>
               task'[t] = task[t]
  OBVIOUS
<1>4. CASE t \in Queued /\ task[t].client = c
  BY <1>1, <1>3, <1>4
<1>5. CASE t = current_task /\ task[t].client = c
  BY <1>1, <1>3, <1>5
<1>6. CASE ~(task[t].client = c /\ (t \in Queued \/ t = current_task))
  BY <1>1, <1>6
<1> QED BY <1>3, <1>4, <1>5, <1>6

(* Unlinking keeps the order of the list.                                  *)
LEMMA UnlinkKeepsOrder ==
  ASSUME ShellsInOrder, NEW S, waiting' \in Unlink(waiting, S),
         waiting' \in Seq(Tasks),
         \A t \in Range(waiting') : task'[t].type = "shell" => task[t].type = "shell"
  PROVE  ShellsInOrder'
<1> SUFFICES ASSUME NEW i \in DOMAIN waiting', NEW j \in DOMAIN waiting', i < j,
                    task'[waiting'[i]].type = "shell",
                    task'[waiting'[j]].type = "shell"
             PROVE  waiting'[i] < waiting'[j]
  BY DEF ShellsInOrder
<1>1. PICK k \in DOMAIN waiting, l \in DOMAIN waiting :
        k < l /\ waiting[k] = waiting'[i] /\ waiting[l] = waiting'[j]
  BY DEF Unlink
<1>2. waiting'[i] \in Range(waiting') /\ waiting'[j] \in Range(waiting')
  BY DEF Range
<1> QED BY <1>1, <1>2 DEF ShellsInOrder

(* Linking a task at the end keeps it if the task is a program or newer    *)
(* than all of the list.                                                   *)
LEMMA AppendKeepsOrder ==
  ASSUME ShellsInOrder, waiting \in Seq(Tasks), NEW t \in Tasks,
         waiting' = Append(waiting, t),
         \A u \in Range(waiting) : task'[u].type = task[u].type,
         task'[t].type = "program" \/ \A u \in Range(waiting) : u < t
  PROVE  ShellsInOrder'
<1>1. /\ DOMAIN waiting = 1..Len(waiting) /\ Len(waiting) \in Nat
      /\ DOMAIN waiting' = 1..Len(waiting) + 1
      /\ \A i \in 1..Len(waiting) : waiting'[i] = waiting[i]
      /\ waiting'[Len(waiting) + 1] = t
  BY AppendProperties, LenProperties
<1> SUFFICES ASSUME NEW i \in 1..Len(waiting) + 1, NEW j \in 1..Len(waiting) + 1,
                    i < j, task'[waiting'[i]].type = "shell",
                    task'[waiting'[j]].type = "shell"
             PROVE  waiting'[i] < waiting'[j]
  BY <1>1 DEF ShellsInOrder
<1>2. i \in 1..Len(waiting) /\ waiting'[i] = waiting[i]
      /\ waiting[i] \in Range(waiting)
  BY <1>1 DEF Range
<1>3. CASE j = Len(waiting) + 1
  BY <1>1, <1>2, <1>3
<1>4. CASE j \in 1..Len(waiting)
  <2>1. waiting'[j] = waiting[j] /\ waiting[j] \in Range(waiting)
    BY <1>1, <1>4 DEF Range
  <2> QED BY <1>1, <1>2, <1>4, <2>1 DEF ShellsInOrder
<1> QED BY <1>1, <1>3, <1>4

-----------------------------------------------------------------------------
(* RInv is invariant, given IInv.                                          *)

LEMMA InitRInv == Init => RInv
<1> SUFFICES ASSUME Init PROVE RInv
  OBVIOUS
<1>1. \A t \in Tasks : ~task[t].cancel /\ task[t].remaining = -1
  BY DEF Init, Blank
<1>2. DOMAIN waiting = {}
  BY DEF Init
<1> QED BY <1>1, <1>2
     DEF RInv, ShellsHaveNoBurst, OnlyRunningDoomed, ShellsInOrder

LEMMA SubmitRInv ==
  ASSUME IInv, RInv, NEW c \in Clients, NEW type \in Types,
         NEW predicted \in 0..MaxBurst, Submit(c, type, predicted)
  PROVE  RInv'
<1> USE DEF RInv
<1> DEFINE t == next_task_id
<1>1. /\ t \in Tasks /\ task[t].state = "unsubmitted"
      /\ t \notin Queued /\ t # current_task
      /\ task'[t].type = type /\ ~task'[t].cancel
      /\ type = "shell" => task'[t].remaining = -1
  <2>1. /\ t \in Tasks /\ task[t].state = "unsubmitted"
        /\ t \notin Queued /\ t # current_task
        /\ task'[t] =
              [client |-> c, type |-> type, state |-> "waiting",
               remaining |-> Burst(type, predicted), rounds |-> 0,
               preempt |-> FALSE, cancel |-> FALSE]
    BY SubmitRecords
  <2>2. type = "shell" => Burst(type, predicted) = -1
    BY DEF Burst
  <2> QED BY <2>1, <2>2
<1>2. \A u \in Tasks \ {t} :
        /\ task'[u].type = task[u].type /\ task'[u].state = task[u].state
        /\ task'[u].remaining = task[u].remaining
        /\ task'[u].cancel = task[u].cancel
  <2> SUFFICES ASSUME NEW u \in Tasks \ {t}
               PROVE  /\ task'[u].type = task[u].type
                      /\ task'[u].state = task[u].state
                      /\ task'[u].remaining = task[u].remaining
                      /\ task'[u].cancel = task[u].cancel
    OBVIOUS
  <2>1. task[u] \in TaskRecord
    BY DEF IInv, TypeOK
  <2>2. task'[u] = task[u] \/ task'[u] = [task[u] EXCEPT !.preempt = TRUE]
    BY SubmitRecords
  <2> QED BY <2>1, <2>2 DEF TaskRecord
<1>3. waiting' = Append(waiting, t) /\ waiting \in Seq(Tasks)
  BY DEF Submit, Enqueue, IInv, TypeOK
<1>4. \A u \in Queued : u \in Tasks /\ u < t
  <2>1. pc # "destroyed"
    BY DEF Submit
  <2>2. \A u \in Queued : u \in Tasks /\ task[u].state = "waiting"
    BY <1>3, <2>1 DEF Queued, Range, IInv, QueueHoldsWaitingTasks
  <2> QED BY <1>1, <2>2 DEF IInv, Bookkeeping, Tasks
<1> HIDE DEF t
<1>5. ShellsInOrder'
  <2>1. ShellsInOrder
    BY DEF Submit
  <2> QED BY <1>1, <1>2, <1>3, <1>4, <2>1, AppendKeepsOrder DEF Queued
<1>6. ShellsHaveNoBurst'
  BY <1>1, <1>2 DEF ShellsHaveNoBurst
<1>7. OnlyRunningDoomed'
  BY <1>1, <1>2 DEF OnlyRunningDoomed
<1> QED BY <1>5, <1>6, <1>7

LEMMA CancelRInv ==
  ASSUME IInv, RInv, NEW c \in Clients, CancelClient(c)
  PROVE  RInv'
<1> USE DEF RInv
<1> DEFINE Mine == {t \in Queued : task[t].client = c}
<1>1. waiting' \in Unlink(waiting, Mine) /\ pc # "destroyed"
  BY DEF CancelClient
<1>2. waiting' \in Seq(Tasks) /\ Range(waiting') = Queued \ Mine
  BY <1>1, UnlinkLeaves DEF IInv, TypeOK, QueueHoldsWaitingTasks, Queued
<1>3. \A t \in Tasks :
        /\ task'[t].type = "shell" => task'[t].remaining <= 0
        /\ task'[t].cancel => task'[t].state = "running"
        /\ t \notin Mine => task'[t].type = task[t].type
  <2> SUFFICES ASSUME NEW t \in Tasks
               PROVE  /\ task'[t].type = "shell" => task'[t].remaining <= 0
                      /\ task'[t].cancel => task'[t].state = "running"
                      /\ t \notin Mine => task'[t].type = task[t].type
    OBVIOUS
  <2>1. task[t] \in TaskRecord
    BY DEF IInv, TypeOK
  <2>2. CASE t \in Mine
    <3>1. task'[t] = Blank("cancelled")
      BY <2>2, CancelRecords
    <3> QED BY <2>2, <3>1 DEF Blank
  <2>3. CASE t \notin Mine /\ t = current_task /\ task[t].client = c
    <3>1. task'[t] = [task[t] EXCEPT !.cancel = TRUE, !.preempt = TRUE]
      BY <2>3, CancelRecords
    <3>2. task[t].state = "running"
      BY <2>3 DEF IInv, OneTaskRuns
    <3> QED BY <2>1, <3>1, <3>2 DEF TaskRecord, ShellsHaveNoBurst
  <2>4. CASE t \notin Mine /\ ~(t = current_task /\ task[t].client = c)
    <3>1. task'[t] = task[t]
      BY <2>4, CancelRecords
    <3> QED BY <3>1 DEF ShellsHaveNoBurst, OnlyRunningDoomed
  <2> QED BY <2>2, <2>3, <2>4
<1> HIDE DEF Mine
<1>4. ShellsInOrder'
  <2>1. \A t \in Range(waiting') : t \in Tasks /\ t \notin Mine
    BY <1>2 DEF Range
  <2>2. ShellsInOrder
    BY <1>1
  <2> QED BY <1>1, <1>2, <1>3, <2>1, <2>2, UnlinkKeepsOrder
<1> QED BY <1>3, <1>4 DEF ShellsHaveNoBurst, OnlyRunningDoomed

LEMMA DispatchRInv ==
  ASSUME IInv, RInv, NEW t \in Tasks, Dispatch(t)
  PROVE  RInv'
<1> USE DEF RInv
<1>1. /\ waiting' \in Unlink(waiting, {t})
      /\ task' = [task EXCEPT ![t].state = "running", ![t].preempt = FALSE]
  BY DEF Dispatch, MayDispatch, StartRound
<1>2. waiting' \in Seq(Tasks)
  BY <1>1, UnlinkLeaves DEF IInv, TypeOK, QueueHoldsWaitingTasks
<1>3. \A u \in Tasks : /\ task'[u].type = task[u].type
                       /\ task'[u].remaining = task[u].remaining
                       /\ task'[u].cancel = task[u].cancel
                       /\ u # t => task'[u].state = task[u].state
                       /\ u = t => task'[u].state = "running"
  BY <1>1 DEF IInv, TypeOK, TaskRecord
<1>4. ShellsInOrder'
  <2>1. Range(waiting') \subseteq Tasks
    BY <1>2 DEF Range
  <2>2. ShellsInOrder
    BY DEF Dispatch, MayDispatch, StartRound
  <2> QED BY <1>1, <1>2, <1>3, <2>1, <2>2, UnlinkKeepsOrder
<1> QED BY <1>3, <1>4 DEF ShellsHaveNoBurst, OnlyRunningDoomed

LEMMA RequeueRInv == IInv /\ RInv /\ Requeue => RInv'
<1> SUFFICES ASSUME IInv, RInv, Requeue PROVE RInv'
  OBVIOUS
<1> USE DEF RInv
<1> DEFINE t == current_task
<1>1. /\ waiting' = Append(waiting, t)
      /\ task' = [task EXCEPT ![t].state = "waiting", ![t].rounds = 1,
                              ![t].preempt = FALSE]
      /\ ~task[t].cancel /\ task[t].remaining > 0 /\ pc = "returned"
  BY DEF Requeue, Enqueue, MayRequeue
<1>2. t \in Tasks /\ waiting \in Seq(Tasks)
  BY <1>1 DEF IInv, TypeOK, OneTaskRuns
<1> HIDE DEF t
<1>3. \A u \in Tasks : /\ task'[u].type = task[u].type
                       /\ task'[u].remaining = task[u].remaining
                       /\ task'[u].cancel = task[u].cancel
                       /\ u # t => task'[u].state = task[u].state
  BY <1>1, <1>2 DEF IInv, TypeOK, TaskRecord
<1>4. task[t].type = "program"
  <2>1. task[t] \in TaskRecord
    BY <1>2 DEF IInv, TypeOK
  <2> QED BY <1>1, <1>2, <2>1 DEF ShellsHaveNoBurst, TaskRecord, Types
<1>5. ShellsInOrder'
  <2>1. \A u \in Range(waiting) : task'[u].type = task[u].type
    BY <1>2, <1>3 DEF Range
  <2>2. ShellsInOrder
    BY <1>1
  <2> QED BY <1>1, <1>2, <1>3, <1>4, <2>1, <2>2, AppendKeepsOrder
<1> QED BY <1>1, <1>3, <1>5 DEF ShellsHaveNoBurst, OnlyRunningDoomed

LEMMA ExecutorRInv ==
  ASSUME IInv, RInv,
         (\E left \in 0..MaxBurst + DefaultBurst : ExecutorWorks(left))
         \/ (\E r \in Results : ExecutorReturns(r))
  PROVE  RInv'
<1> USE DEF RInv
<1>1. waiting' = waiting
  BY DEF ExecutorWorks, ExecutorReturns
<1>2. \A t \in Tasks :
        /\ task'[t].type = task[t].type
        /\ task'[t].state = task[t].state
        /\ task'[t].cancel = task[t].cancel
        /\ task[t].type = "shell" => task'[t].remaining = task[t].remaining
  <2>1. CASE \E left \in 0..MaxBurst + DefaultBurst : ExecutorWorks(left)
    <3>1. PICK left \in 0..MaxBurst + DefaultBurst : ExecutorWorks(left)
      BY <2>1
    <3>2. /\ task[current_task].type = "program"
          /\ task' = [task EXCEPT ![current_task].remaining = left]
          /\ task \in [Tasks -> TaskRecord]
      BY <3>1 DEF ExecutorWorks, IInv, TypeOK
    <3> QED BY <3>2 DEF TaskRecord
  <2>2. CASE \E r \in Results : ExecutorReturns(r)
    BY <2>2 DEF ExecutorReturns
  <2> QED BY <2>1, <2>2
<1>3. Range(waiting) \subseteq Tasks
  BY DEF IInv, TypeOK, Range
<1>4. ShellsInOrder'
  <2>1. \A i \in DOMAIN waiting : task'[waiting[i]].type = task[waiting[i]].type
    BY <1>2, <1>3 DEF Range
  <2>2. ShellsInOrder
    BY DEF ExecutorWorks, ExecutorReturns
  <2> QED BY <1>1, <2>1, <2>2 DEF ShellsInOrder
<1> QED BY <1>2, <1>4 DEF ShellsHaveNoBurst, OnlyRunningDoomed

LEMMA FinalizeRInv == IInv /\ RInv /\ Finalize => RInv'
<1> SUFFICES ASSUME IInv, RInv, Finalize PROVE RInv'
  OBVIOUS
<1>1. /\ pc = "returned" /\ waiting' = waiting
      /\ task' = [task EXCEPT ![current_task] = Blank(Outcome)]
      /\ task \in [Tasks -> TaskRecord]
  BY DEF Finalize, IInv, TypeOK
<1>2. \A t \in Tasks :
        \/ task'[t] = task[t]
        \/ t = current_task /\ task'[t].remaining = -1 /\ ~task'[t].cancel
  BY <1>1 DEF Blank
<1>3. \A i \in DOMAIN waiting : waiting[i] \in Tasks /\ waiting[i] # current_task
  BY <1>1 DEF IInv, TypeOK, QueueHoldsWaitingTasks, OneTaskRuns, Queued, Range
<1>4. ShellsInOrder'
  <2>1. \A i \in DOMAIN waiting : task'[waiting[i]] = task[waiting[i]]
    BY <1>2, <1>3
  <2> QED BY <1>1, <2>1 DEF RInv, ShellsInOrder
<1> QED BY <1>2, <1>4 DEF RInv, ShellsHaveNoBurst, OnlyRunningDoomed

LEMMA DestroyRInv == IInv /\ RInv /\ JoinAndDestroy => RInv'
<1> SUFFICES ASSUME IInv, RInv, JoinAndDestroy PROVE RInv'
  OBVIOUS
<1>1. /\ pc' = "destroyed"
      /\ \A t \in Tasks :
           task'[t] = task[t] \/ (task'[t].remaining = -1 /\ ~task'[t].cancel)
  BY DEF JoinAndDestroy, Blank
<1> QED BY <1>1 DEF RInv, ShellsHaveNoBurst, OnlyRunningDoomed

(* Steps that leave the list and the records alone.                        *)
LEMMA PlaceRInv ==
  ASSUME RInv, UNCHANGED <<task, waiting>>, pc = "destroyed" => pc' = "destroyed"
  PROVE  RInv'
BY DEF RInv, ShellsHaveNoBurst, OnlyRunningDoomed, ShellsInOrder

LEMMA NextRInv == IInv /\ RInv /\ [Next]_vars => RInv'
<1> SUFFICES ASSUME IInv, RInv, [Next]_vars PROVE RInv'
  OBVIOUS
<1>1. CASE \E c \in Clients, type \in Types, predicted \in 0..MaxBurst :
             Submit(c, type, predicted)
  BY <1>1, SubmitRInv
<1>2. CASE \E c \in Clients : CancelClient(c)
  BY <1>2, CancelRInv
<1>3. CASE \E t \in Tasks : Dispatch(t)
  BY <1>3, DispatchRInv
<1>4. CASE Executor
  BY <1>4, ExecutorRInv DEF Executor
<1>5. CASE Requeue \/ Finalize \/ JoinAndDestroy
  BY <1>5, RequeueRInv, FinalizeRInv, DestroyRInv
<1>6. CASE \/ WaitForSignal \/ SpuriousWakeup \/ Exit \/ NothingToDispatch
           \/ RequestStop \/ UNCHANGED vars
  <2>1. UNCHANGED <<task, waiting>> /\ (pc = "destroyed" => pc' = "destroyed")
    BY <1>6 DEF WaitForSignal, SpuriousWakeup, Exit, NothingToDispatch,
       RequestStop, Signal, vars
  <2> QED BY <2>1, PlaceRInv
<1> QED BY <1>1, <1>2, <1>3, <1>4, <1>5, <1>6 DEF Next, SchedulerThread, Callers

LEMMA RInvariance == Spec => [](IInv /\ RInv)
<1>1. Init => IInv /\ RInv
  BY InitIInv, InitRInv
<1>2. IInv /\ RInv /\ [Next]_vars => (IInv /\ RInv)'
  BY NextIInv, NextRInv
<1> QED BY <1>1, <1>2, PTL DEF Spec

-----------------------------------------------------------------------------
(* What each step of the scheduler is in the pool.                         *)

(* The pool's variables, as Scheduler maps them.                           *)
PoolStatus ==
  [t \in Tasks |-> IF task[t].state = "freed" THEN "cancelled" ELSE task[t].state]
PoolOwner  == [t \in Tasks |-> task[t].client]
PoolKind   == [t \in Tasks |-> task[t].type]
PoolLeft   == [t \in Tasks |-> task[t].remaining]
PoolDoomed == {t \in Tasks : task[t].cancel}
PoolOpen   == pc \notin {"exited", "destroyed"}

LEMMA InitSimulation == Init => Pool!Init
BY SchedulerAssumption DEF Init, Blank, Pool!Init, Pool!Tasks, Tasks

(* The pool's view of the queue.                                           *)
LEMMA PoolView ==
  ASSUME IInv, pc # "destroyed"
  PROVE  /\ Pool!Waiting = Queued
         /\ Pool!Running = {t \in Tasks : t = current_task}
         /\ \A t \in Tasks : task[t].state # "freed"
<1>1. \A t \in Tasks : task[t].state # "freed"
  BY DEF IInv, Bookkeeping
<1>2. Queued = {t \in Tasks : task[t].state = "waiting"}
  BY DEF IInv, TypeOK, QueueHoldsWaitingTasks, Queued, Range
<1>3. \A t \in Tasks : task[t].state = "running" <=> t = current_task
  BY DEF IInv, OneTaskRuns
<1> QED BY <1>1, <1>2, <1>3 DEF Pool!Waiting, Pool!Running, Pool!Tasks, Tasks

LEMMA SubmitSimulation ==
  ASSUME IInv, RInv, NEW c \in Clients, NEW type \in Types,
         NEW predicted \in 0..MaxBurst, Submit(c, type, predicted)
  PROVE  \E t \in Tasks : Pool!Submit(t)
<1> PICK t \in Tasks : t = next_task_id
  BY DEF Submit
<1> DEFINE burst == Burst(type, predicted)
<1>1. /\ t \in Tasks /\ task[t].state = "unsubmitted"
      /\ task'[t] =
           [client |-> c, type |-> type, state |-> "waiting",
            remaining |-> burst, rounds |-> 0,
            preempt |-> FALSE, cancel |-> FALSE]
  BY SubmitRecords
<1>2. /\ task'[t].client = c /\ task'[t].type = type /\ ~task'[t].cancel
      /\ task'[t].state = "waiting" /\ task'[t].remaining = burst
  BY <1>1
<1>3. \A u \in Tasks \ {t} :
        /\ task'[u].client = task[u].client /\ task'[u].type = task[u].type
        /\ task'[u].state = task[u].state /\ task'[u].cancel = task[u].cancel
        /\ task'[u].remaining = task[u].remaining
  <2> SUFFICES ASSUME NEW u \in Tasks \ {t}
      PROVE
        /\ task'[u].client = task[u].client /\ task'[u].type = task[u].type
        /\ task'[u].state = task[u].state /\ task'[u].cancel = task[u].cancel
        /\ task'[u].remaining = task[u].remaining
    OBVIOUS
  <2>1. task[u] \in TaskRecord
    BY DEF IInv, TypeOK
  <2>2. task'[u] = task[u] \/ task'[u] = [task[u] EXCEPT !.preempt = TRUE]
    BY SubmitRecords
  <2> QED BY <2>1, <2>2 DEF TaskRecord
<1>4. \A u \in Tasks : u < t => task[u].state # "unsubmitted"
  BY DEF IInv, TypeOK, Bookkeeping, Tasks
<1>5. \/ type = "shell" /\ burst = -1
      \/ type = "program" /\ burst \in (1..MaxBurst) \cup {DefaultBurst}
  BY DEF Types, Burst
<1>6. ~task[t].cancel
  BY <1>1 DEF RInv, OnlyRunningDoomed
<1>7. pc \notin {"exited", "destroyed"} <=> pc' \notin {"exited", "destroyed"}
  BY DEF Submit, Signal
<1>8. last_selected_task_id' = last_selected_task_id
      /\ \A u \in Tasks : task[u].state # "freed"
  BY DEF Submit, IInv, Bookkeeping
<1> HIDE DEF burst
<1>9. Pool!Submit(t)
  <2>1. PoolStatus' = [PoolStatus EXCEPT ![t] = "waiting"]
    BY <1>1, <1>2, <1>3, <1>8 DEF PoolStatus
  <2>2. PoolOwner' = [PoolOwner EXCEPT ![t] = c]
    BY <1>1, <1>2, <1>3 DEF PoolOwner
  <2>3. /\ PoolKind' = [PoolKind EXCEPT ![t] = type]
        /\ PoolLeft' = [PoolLeft EXCEPT ![t] = burst]
    BY <1>1, <1>2, <1>3 DEF PoolKind, PoolLeft
  <2>4. PoolDoomed' = PoolDoomed
    BY <1>2, <1>3, <1>6 DEF PoolDoomed
  <2> QED
    BY <1>1, <1>4, <1>5, <1>7, <1>8, <2>1, <2>2, <2>3, <2>4
    DEF Pool!Submit, Pool!Tasks, Tasks, PoolStatus, PoolOwner, PoolKind,
        PoolLeft, PoolDoomed
<1> QED BY <1>9

(* Steps that change the state and the burst of one task at most.          *)
LEMMA OneTaskChanges ==
  ASSUME IInv, NEW t \in Tasks,
         \A u \in Tasks : /\ task[u].state # "freed"
                          /\ task'[u].client = task[u].client
                          /\ task'[u].type = task[u].type
                          /\ task'[u].cancel = task[u].cancel,
         \A u \in Tasks \ {t} : /\ task'[u].state = task[u].state
                                /\ task'[u].remaining = task[u].remaining,
         task'[t].state # "freed",
         pc \notin {"exited", "destroyed"}, pc' \notin {"exited", "destroyed"}
  PROVE  /\ PoolStatus' = [PoolStatus EXCEPT ![t] = task'[t].state]
         /\ PoolLeft' = [PoolLeft EXCEPT ![t] = task'[t].remaining]
         /\ task'[t].remaining = task[t].remaining => PoolLeft' = PoolLeft
         /\ task'[t].state = task[t].state => PoolStatus' = PoolStatus
         /\ UNCHANGED <<PoolOwner, PoolKind, PoolDoomed, PoolOpen>>
<1>1. PoolStatus' = [PoolStatus EXCEPT ![t] = task'[t].state]
  BY DEF PoolStatus
<1>2. PoolLeft' = [PoolLeft EXCEPT ![t] = task'[t].remaining]
  BY DEF PoolLeft
<1>3. task'[t].remaining = task[t].remaining => PoolLeft' = PoolLeft
  BY DEF PoolLeft
<1>4. task'[t].state = task[t].state => PoolStatus' = PoolStatus
  BY DEF PoolStatus
<1>5. UNCHANGED <<PoolOwner, PoolKind, PoolDoomed>>
  BY DEF PoolOwner, PoolKind, PoolDoomed
<1> QED BY <1>1, <1>2, <1>3, <1>4, <1>5 DEF PoolOpen

(* The policy on the list is the policy on the set.                        *)
LEMMA DispatchIsBest ==
  ASSUME IInv, RInv, pc = "locking", NEW t \in Tasks, NextToDispatch(t)
  PROVE  /\ t \in Pool!Candidates
         /\ \A u \in Pool!Candidates \ {t} : Pool!Better(t, u)
<1>1. Pool!Waiting = Queued /\ Queued \subseteq Tasks
  BY PoolView DEF Queued, Range, IInv, TypeOK
<1>2. /\ Pool!Shells = {u \in Queued : task[u].type = "shell"}
      /\ Pool!Candidates = IF Pool!Shells # {} THEN Pool!Shells
           ELSE IF Queued = {last_selected_task_id} THEN Queued
                ELSE Queued \ {last_selected_task_id}
      /\ \A u \in Tasks : Pool!Better(t, u) <=>
           IF task[t].type = "shell" THEN t < u
           ELSE \/ task[t].remaining < task[u].remaining
                \/ task[t].remaining = task[u].remaining /\ t < u
  BY <1>1 DEF Pool!Shells, Pool!Candidates, Pool!Better, Pool!Tasks, Tasks
<1>3. CASE \E u \in Queued : task[u].type = "shell"
  <2>1. FirstShell(t) /\ ShellsInOrder
    BY <1>3 DEF NextToDispatch, RInv
  <2>2. PICK i \in DOMAIN waiting :
          /\ waiting[i] = t
          /\ task[t].type = "shell"
          /\ \A j \in DOMAIN waiting : j < i => task[waiting[j]].type = "program"
    BY <2>1 DEF FirstShell
  <2>3. t \in Pool!Candidates /\ Pool!Candidates = Pool!Shells
    BY <1>2, <1>3, <2>2 DEF Queued, Range
  <2>4. ASSUME NEW u \in Pool!Shells \ {t} PROVE t < u
    <3>1. PICK j \in DOMAIN waiting : waiting[j] = u /\ task[u].type = "shell"
      BY <1>2, <2>4 DEF Queued, Range
    <3>2. DOMAIN waiting \subseteq Int
      BY DEF IInv, TypeOK
    <3>3. i < j
      BY <2>2, <2>4, <3>1, <3>2
    <3> QED BY <2>1, <2>2, <3>1, <3>3 DEF ShellsInOrder
  <2> QED BY <1>1, <1>2, <2>2, <2>3, <2>4
<1>4. CASE \A u \in Queued : task[u].type # "shell"
  <2>1. Programs = Queued
    BY <1>1, <1>4 DEF Programs, IInv, TypeOK, TaskRecord, Types
  <2>2. ShortestProgram(t)
    BY <1>4 DEF NextToDispatch
  <2>3. /\ Pool!Candidates = IF Queued = {last_selected_task_id} THEN Queued
                             ELSE Queued \ {last_selected_task_id}
    BY <1>2, <1>4
  <2>4. t \in Pool!Candidates /\ Pool!Candidates \subseteq Queued
    BY <2>1, <2>2, <2>3 DEF ShortestProgram, Shortest
  <2>5. \A u \in Pool!Candidates \ {t} : Before(t, u)
    BY <2>1, <2>2, <2>3 DEF ShortestProgram, Shortest
  <2>6. task[t].type # "shell"
    BY <1>4, <2>4
  <2> QED BY <1>1, <1>2, <2>4, <2>5, <2>6 DEF Before
<1> QED BY <1>3, <1>4

LEMMA DispatchSimulation ==
  ASSUME IInv, RInv, NEW t \in Tasks, Dispatch(t)
  PROVE  Pool!Start(t)
<1>1. /\ pc = "locking" /\ pc' = "executing" /\ NextToDispatch(t)
      /\ last_selected_task_id' = t
      /\ task' = [task EXCEPT ![t].state = "running", ![t].preempt = FALSE]
  BY DEF Dispatch, MayDispatch, StartRound
<1>2. Pool!Running = {} /\ \A u \in Tasks : task[u].state # "freed"
  BY <1>1, PoolView DEF IInv, OneTaskRuns, NoTask, Tasks
<1>3. /\ \A u \in Tasks : /\ task'[u].client = task[u].client
                          /\ task'[u].type = task[u].type
                          /\ task'[u].cancel = task[u].cancel
                          /\ task'[u].remaining = task[u].remaining
      /\ \A u \in Tasks \ {t} : task'[u].state = task[u].state
      /\ task'[t].state = "running"
  BY <1>1 DEF IInv, TypeOK, TaskRecord
<1>4. /\ PoolStatus' = [PoolStatus EXCEPT ![t] = "running"]
      /\ UNCHANGED <<PoolOwner, PoolKind, PoolLeft, PoolDoomed, PoolOpen>>
  BY <1>1, <1>2, <1>3, OneTaskChanges
<1>5. /\ t \in Pool!Candidates
      /\ \A u \in Pool!Candidates \ {t} : Pool!Better(t, u)
  BY <1>1, DispatchIsBest
<1>6. PoolOpen
  BY <1>1 DEF PoolOpen
<1> QED BY <1>1, <1>2, <1>4, <1>5, <1>6
        DEF Pool!Start, PoolStatus, PoolOwner, PoolKind, PoolLeft, PoolDoomed,
            PoolOpen

LEMMA WorkSimulation ==
  ASSUME IInv, NEW left \in 0..MaxBurst + DefaultBurst, ExecutorWorks(left)
  PROVE  \E t \in Tasks : Pool!Work(t)
<1> PICK t \in Tasks : t = current_task
  BY DEF ExecutorWorks, IInv, TypeOK, OneTaskRuns
<1>1. /\ pc = "executing" /\ pc' = pc /\ task[t].type = "program"
      /\ left \in 0..task[t].remaining
      /\ task' = [task EXCEPT ![t].remaining = left]
      /\ last_selected_task_id' = last_selected_task_id
  BY DEF ExecutorWorks
<1>2. Pool!Running = {t} /\ \A u \in Tasks : task[u].state # "freed"
  BY <1>1, PoolView DEF IInv, TypeOK, OneTaskRuns
<1>3. /\ \A u \in Tasks : /\ task'[u].client = task[u].client
                          /\ task'[u].type = task[u].type
                          /\ task'[u].cancel = task[u].cancel
                          /\ task'[u].state = task[u].state
      /\ \A u \in Tasks \ {t} : task'[u].remaining = task[u].remaining
      /\ task'[t].remaining = left
  BY <1>1, <1>2 DEF IInv, TypeOK, TaskRecord
<1>4. /\ PoolLeft' = [PoolLeft EXCEPT ![t] = left]
      /\ UNCHANGED <<PoolStatus, PoolOwner, PoolKind, PoolDoomed, PoolOpen>>
  BY <1>1, <1>2, <1>3, OneTaskChanges
<1>5. Pool!Work(t)
  BY <1>1, <1>2, <1>4
  DEF Pool!Work, PoolStatus, PoolOwner, PoolKind, PoolLeft, PoolDoomed, PoolOpen
<1> QED BY <1>5

LEMMA RequeueSimulation ==
  ASSUME IInv, Requeue
  PROVE  \E t \in Tasks : Pool!Yield(t)
<1> PICK t \in Tasks : t = current_task
  BY DEF Requeue, IInv, TypeOK, OneTaskRuns
<1>1. /\ pc = "returned" /\ pc' = "locking"
      /\ ~task[t].cancel /\ task[t].remaining > 0
      /\ task' = [task EXCEPT ![t].state = "waiting", ![t].rounds = 1,
                              ![t].preempt = FALSE]
      /\ last_selected_task_id' = last_selected_task_id
  BY DEF Requeue, MayRequeue, EndRound
<1>2. Pool!Running = {t} /\ \A u \in Tasks : task[u].state # "freed"
  BY <1>1, PoolView DEF IInv, TypeOK, OneTaskRuns
<1>3. /\ \A u \in Tasks : /\ task'[u].client = task[u].client
                          /\ task'[u].type = task[u].type
                          /\ task'[u].cancel = task[u].cancel
                          /\ task'[u].remaining = task[u].remaining
      /\ \A u \in Tasks \ {t} : task'[u].state = task[u].state
      /\ task'[t].state = "waiting"
  BY <1>1, <1>2 DEF IInv, TypeOK, TaskRecord
<1>4. /\ PoolStatus' = [PoolStatus EXCEPT ![t] = "waiting"]
      /\ UNCHANGED <<PoolOwner, PoolKind, PoolLeft, PoolDoomed, PoolOpen>>
  BY <1>1, <1>2, <1>3, OneTaskChanges
<1>5. Pool!Yield(t)
  BY <1>1, <1>2, <1>4
  DEF Pool!Yield, PoolStatus, PoolOwner, PoolKind, PoolLeft, PoolDoomed, PoolOpen
<1> QED BY <1>5

(* Blanking the records of S is Remove(S, ...).                            *)
LEMMA RemoveSimulation ==
  ASSUME NEW S \in SUBSET Tasks, NEW how, NEW poolHow,
         poolHow = IF how = "freed" THEN "cancelled" ELSE how,
         \A t \in S : task'[t] = Blank(how),
         \A t \in Tasks \ S : /\ task'[t].client = task[t].client
                              /\ task'[t].type = task[t].type
                              /\ task'[t].state = task[t].state
                              /\ task'[t].remaining = task[t].remaining
  PROVE  Pool!Remove(S, poolHow)
<1>1. \A t \in S : /\ task'[t].client = NoClient /\ task'[t].type = "shell"
                   /\ task'[t].state = how /\ task'[t].remaining = -1
  BY DEF Blank
<1>2. /\ PoolStatus' = [t \in Tasks |-> IF t \in S THEN poolHow ELSE PoolStatus[t]]
      /\ PoolOwner' = [t \in Tasks |-> IF t \in S THEN NoClient ELSE PoolOwner[t]]
      /\ PoolKind' = [t \in Tasks |-> IF t \in S THEN "shell" ELSE PoolKind[t]]
      /\ PoolLeft' = [t \in Tasks |-> IF t \in S THEN -1 ELSE PoolLeft[t]]
  BY <1>1 DEF PoolStatus, PoolOwner, PoolKind, PoolLeft
<1> QED BY <1>2
        DEF Pool!Remove, Pool!Tasks, Tasks, PoolStatus, PoolOwner, PoolKind,
            PoolLeft

LEMMA FinalizeSimulation ==
  ASSUME IInv, Finalize
  PROVE  \E t \in Tasks : Pool!End(t, "finished") \/ Pool!End(t, "cancelled")
<1> PICK t \in Tasks : t = current_task
  BY DEF Finalize, IInv, TypeOK, OneTaskRuns
<1> PICK how \in {"finished", "cancelled"} : how = Outcome
  BY DEF Outcome
<1>1. /\ pc = "returned" /\ pc' = "locking"
      /\ task' = [task EXCEPT ![t] = Blank(how)]
      /\ last_selected_task_id' = last_selected_task_id
  BY DEF Finalize, EndRound
<1>2. Pool!Running = {t}
  BY <1>1, PoolView DEF IInv, TypeOK, OneTaskRuns
<1>3. task[t].cancel => how = "cancelled"
  BY DEF Outcome
<1>4. /\ task'[t] = Blank(how)
      /\ \A u \in Tasks \ {t} : task'[u] = task[u]
  BY <1>1, <1>2 DEF IInv, TypeOK
<1>5. Pool!Remove({t}, how)
  <2>1. how = IF how = "freed" THEN "cancelled" ELSE how
    OBVIOUS
  <2> QED BY <1>4, <2>1, RemoveSimulation
<1>6. PoolDoomed' = PoolDoomed \ {t}
  BY <1>2, <1>4 DEF PoolDoomed, Blank
<1>7. PoolOpen' = PoolOpen
  BY <1>1 DEF PoolOpen
<1>8. Pool!End(t, how)
  BY <1>1, <1>2, <1>3, <1>5, <1>6, <1>7 DEF Pool!End, PoolDoomed, PoolOpen
<1> QED BY <1>8

LEMMA CancelSimulation ==
  ASSUME IInv, NEW c \in Clients, CancelClient(c)
  PROVE  Pool!Cancel(c)
<1> DEFINE Mine == {t \in Queued : task[t].client = c}
<1>1. /\ pc # "destroyed" /\ pc' = pc
      /\ last_selected_task_id' = last_selected_task_id
  BY DEF CancelClient
<1>2. /\ Pool!Waiting = Queued /\ Queued \subseteq Tasks
      /\ Pool!Running = {t \in Tasks : t = current_task}
  BY <1>1, PoolView DEF Queued, Range, IInv, TypeOK
<1>3. Mine = {t \in Pool!Waiting : PoolOwner[t] = c} /\ Mine \subseteq Tasks
  BY <1>2 DEF PoolOwner
<1>4. \A t \in Mine : task'[t] = Blank("cancelled")
  BY <1>2, CancelRecords
<1>5. \A t \in Tasks \ Mine :
        /\ task'[t].client = task[t].client
        /\ task'[t].type = task[t].type
        /\ task'[t].state = task[t].state
        /\ task'[t].remaining = task[t].remaining
        /\ task'[t].cancel <=>
             task[t].cancel \/ (t = current_task /\ task[t].client = c)
  <2> SUFFICES ASSUME NEW t \in Tasks \ Mine
      PROVE /\ task'[t].client = task[t].client
            /\ task'[t].type = task[t].type
            /\ task'[t].state = task[t].state
            /\ task'[t].remaining = task[t].remaining
            /\ task'[t].cancel <=>
                 task[t].cancel \/ (t = current_task /\ task[t].client = c)
    OBVIOUS
  <2>1. task[t] \in TaskRecord
    BY DEF IInv, TypeOK
  <2>2. CASE t = current_task /\ task[t].client = c
    <3>1. task'[t] = [task[t] EXCEPT !.cancel = TRUE, !.preempt = TRUE]
      BY <2>2, CancelRecords
    <3> QED BY <2>1, <2>2, <3>1 DEF TaskRecord
  <2>3. CASE ~(t = current_task /\ task[t].client = c)
    <3>1. task'[t] = task[t]
      BY <2>3, CancelRecords
    <3> QED BY <2>3, <3>1
  <2> QED BY <2>2, <2>3
<1>6. \A t \in Mine : ~task[t].cancel /\ t # current_task
  BY <1>1, <1>3 DEF IInv, CancelledNeverQueued, QueueHoldsWaitingTasks, OneTaskRuns
<1> HIDE DEF Mine
<1>7. Pool!Remove(Mine, "cancelled")
  BY <1>3, <1>4, <1>5, RemoveSimulation
<1>8. PoolDoomed' = PoolDoomed \cup {t \in Pool!Running : PoolOwner[t] = c}
  <2>1. \A t \in Mine : ~task'[t].cancel
    BY <1>4 DEF Blank
  <2> QED BY <1>2, <1>3, <1>5, <1>6, <2>1 DEF PoolDoomed, PoolOwner
<1> QED BY <1>1, <1>3, <1>7, <1>8 DEF Pool!Cancel, PoolDoomed, PoolOwner

LEMMA DestroySimulation ==
  ASSUME IInv, JoinAndDestroy
  PROVE  Pool!Discard
<1>1. /\ pc = "exited" /\ pc' = "destroyed"
      /\ task' = [t \in Tasks |-> IF t \in Queued THEN Blank("freed") ELSE task[t]]
      /\ last_selected_task_id' = last_selected_task_id
  BY DEF JoinAndDestroy
<1>2. Pool!Waiting = Queued /\ Queued \subseteq Tasks
  BY <1>1, PoolView DEF Queued, Range, IInv, TypeOK
<1>3. Pool!Remove(Queued, "cancelled")
  <2>1. /\ \A t \in Queued : task'[t] = Blank("freed")
        /\ \A t \in Tasks \ Queued : task'[t] = task[t]
    BY <1>1, <1>2
  <2> HIDE DEF Queued
  <2> QED BY <1>2, <2>1, RemoveSimulation
<1>4. PoolDoomed' = PoolDoomed
  BY <1>1 DEF PoolDoomed, Blank, IInv, CancelledNeverQueued
<1> QED BY <1>1, <1>2, <1>3, <1>4 DEF Pool!Discard, PoolDoomed

LEMMA ExitSimulation ==
  ASSUME IInv, Exit
  PROVE  Pool!Stop
<1>1. /\ pc = "locking" /\ pc' = "exited" /\ active_task_count = 0
      /\ UNCHANGED <<task, last_selected_task_id>>
  BY DEF Exit, StopNow
<1>2. Len(waiting) = 0 /\ current_task = NoTask
  BY <1>1 DEF IInv, TypeOK, ActiveCountExact
<1>3. Pool!Waiting = {} /\ Pool!Running = {}
  BY <1>1, <1>2, PoolView DEF IInv, TypeOK, Queued, Range, NoTask, Tasks
<1> QED BY <1>1, <1>3 DEF Pool!Stop

LEMMA NextSimulation == IInv /\ RInv /\ [Next]_vars => [Pool!Next]_(Pool!vars)
<1> SUFFICES ASSUME IInv, RInv, [Next]_vars
             PROVE  Pool!Next \/ UNCHANGED Pool!vars
  OBVIOUS
<1>1. CASE \E c \in Clients, type \in Types, predicted \in 0..MaxBurst :
             Submit(c, type, predicted)
  <2>1. \E t \in Tasks : Pool!Submit(t)
    BY <1>1, SubmitSimulation
  <2> QED BY <2>1 DEF Pool!Next, Pool!Tasks, Tasks
<1>2. CASE \E c \in Clients : CancelClient(c)
  BY <1>2, CancelSimulation DEF Pool!Next
<1>3. CASE \E t \in Tasks : Dispatch(t)
  BY <1>3, DispatchSimulation DEF Pool!Next, Pool!Tasks, Tasks
<1>4. CASE \E left \in 0..MaxBurst + DefaultBurst : ExecutorWorks(left)
  BY <1>4, WorkSimulation DEF Pool!Next, Pool!Tasks, Tasks
<1>5. CASE Requeue
  BY <1>5, RequeueSimulation DEF Pool!Next, Pool!Tasks, Tasks
<1>6. CASE Finalize
  BY <1>6, FinalizeSimulation DEF Pool!Next, Pool!Tasks, Tasks
<1>7. CASE Exit
  BY <1>7, ExitSimulation DEF Pool!Next
<1>8. CASE JoinAndDestroy
  BY <1>8, DestroySimulation DEF Pool!Next
<1>9. CASE \/ WaitForSignal \/ SpuriousWakeup \/ NothingToDispatch \/ RequestStop
           \/ UNCHANGED vars \/ \E r \in Results : ExecutorReturns(r)
  <2>1. /\ UNCHANGED <<task, last_selected_task_id>>
        /\ pc' \in {"exited", "destroyed"} <=> pc \in {"exited", "destroyed"}
    BY <1>9 DEF WaitForSignal, SpuriousWakeup, NothingToDispatch, RequestStop,
       Signal, ExecutorReturns, vars
  <2> QED BY <2>1 DEF Pool!vars
<1> QED BY <1>1, <1>2, <1>3, <1>4, <1>5, <1>6, <1>7, <1>8, <1>9
        DEF Next, SchedulerThread, Executor, Callers

-----------------------------------------------------------------------------
(* Whatever the clients submit and cancel, and whatever the executor        *)
(* answers, the scheduler does only what the task pool allows: it picks the *)
(* task the policy names, never re-queues a cancelled task and stops only   *)
(* when nothing waits or runs.                                              *)
THEOREM SchedulerIsPool == Spec => Pool!Spec
BY InitSimulation, NextSimulation, RInvariance, PTL DEF Spec, Pool!Spec

=============================================================================
