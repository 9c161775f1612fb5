------------------------------ MODULE WaitQueue ------------------------------
(***************************************************************************)
(* The waiting list of src/src/scheduler.c as the code keeps it: head, tail *)
(* and a next pointer in every task, searched and cut loop pass by loop     *)
(* pass by whoever holds scheduler->mutex.                                  *)
(*                                                                          *)
(* The sequence `waiting` of Scheduler remains as what the pointers are     *)
(* meant to represent.  No choice below looks at it: which task runs next,  *)
(* what a cancellation removes and what the tear-down frees come from the   *)
(* pointers, and the module is shown to implement Scheduler, where these    *)
(* are stated without loops.                                                *)
(***************************************************************************)
EXTENDS Scheduler

VARIABLES
  waiting_head, waiting_tail,
  next,                   \* task->next
  walk                    \* the loop in progress and its local variables

links == <<waiting_head, waiting_tail, next>>
queue_vars == <<vars, links, walk>>

(* by: "nobody" while the mutex is free, or held for one action only;      *)
(* "shells" and "programs" for the two searches of a dispatch; "cancel",   *)
(* "destroy".  The other fields are the locals of these loops, and freed   *)
(* the tasks passed to cleanup so far.                                     *)
NoWalk ==
  [by |-> "nobody", client |-> NoClient,
   cursor |-> NoTask, previous |-> NoTask,
   best |-> NoTask, best_prev |-> NoTask,
   best_alt |-> NoTask, best_alt_prev |-> NoTask,
   to_free |-> NoTask, freed |-> {}]

Unlocked == walk.by = "nobody"

QueueInit ==
  /\ Init
  /\ waiting_head = NoTask /\ waiting_tail = NoTask
  /\ next = [t \in Tasks |-> NoTask]
  /\ walk = NoWalk

-----------------------------------------------------------------------------
(* The pointers.                                                           *)

(* enqueue_task_locked.                                                    *)
Link(t) ==
  /\ waiting_head' = IF waiting_tail = NoTask THEN t ELSE waiting_head
  /\ waiting_tail' = t
  /\ next' = [u \in Tasks |-> CASE u = waiting_tail -> t
                                [] u = t            -> NoTask
                                [] OTHER            -> next[u]]

(* Faulty: the tail stays on a task that is cut off.                       *)
CutFaulty(t, previous, link) ==
  /\ waiting_head' = IF previous = NoTask THEN next[t] ELSE waiting_head
  /\ waiting_tail' = waiting_tail
  /\ next' = [u \in Tasks |-> CASE u = t        -> link
                                [] u = previous -> next[t]
                                [] OTHER        -> next[u]]

(* Task t, whose predecessor is previous, leaves the list; its own pointer *)
(* becomes link.                                                           *)
Cut(t, previous, link) ==
  /\ waiting_head' = IF previous = NoTask THEN next[t] ELSE waiting_head
  /\ waiting_tail' = IF waiting_tail = t THEN previous ELSE waiting_tail
  /\ next' = [u \in Tasks |-> CASE u = t        -> link
                                [] u = previous -> next[t]
                                [] OTHER        -> next[u]]

QueueSubmit(c, type, predicted) ==
  /\ Unlocked
  /\ Submit(c, type, predicted)
  /\ Link(next_task_id)
  /\ UNCHANGED walk

QueueRequeue ==
  /\ Unlocked
  /\ Requeue
  /\ Link(current_task)
  /\ UNCHANGED walk

-----------------------------------------------------------------------------
(* dequeue_next_task_locked and choose_shortest_program_locked.            *)

(* Faulty: the comparison of dequeue_next_task_locked is inverted.         *)
PriorityTypeFaulty == "program"

(* What is taken first, wherever it stands in the list.                    *)
PriorityType == "shell"

BeginDequeue ==
  /\ Unlocked
  /\ MayDispatch
  /\ walk' = [NoWalk EXCEPT !.by = "shells", !.cursor = waiting_head]
  /\ UNCHANGED <<vars, links>>

SkipProgram ==
  /\ walk.by = "shells"
  /\ walk.cursor # NoTask
  /\ task[walk.cursor].type # PriorityType
  /\ walk' = [walk EXCEPT !.previous = walk.cursor,
                          !.cursor = next[walk.cursor]]
  /\ UNCHANGED <<vars, links>>

TakeShell ==
  /\ walk.by = "shells"
  /\ walk.cursor # NoTask
  /\ task[walk.cursor].type = PriorityType
  /\ Cut(walk.cursor, walk.previous, NoTask)
  /\ StartRound(walk.cursor)
  /\ walk' = NoWalk

BeginChoose ==
  /\ walk.by = "shells"
  /\ walk.cursor = NoTask
  /\ walk' = [NoWalk EXCEPT !.by = "programs", !.cursor = waiting_head]
  /\ UNCHANGED <<vars, links>>

Better(t, than) ==
  \/ than = NoTask
  \/ task[t].remaining < task[than].remaining
  \/ task[t].remaining = task[than].remaining /\ t < than

(* Faulty: the best one so far is forgotten when a better one is found.    *)
RankedFaulty(w, t) ==
  IF Better(t, w.best)
  THEN [w EXCEPT !.best = t, !.best_prev = w.previous]
  ELSE IF Better(t, w.best_alt)
       THEN [w EXCEPT !.best_alt = t, !.best_alt_prev = w.previous]
       ELSE w

(* The two candidates after the program t has been looked at.              *)
Ranked(w, t) ==
  IF Better(t, w.best)
  THEN [w EXCEPT !.best_alt = w.best, !.best_alt_prev = w.best_prev,
                 !.best = t, !.best_prev = w.previous]
  ELSE IF Better(t, w.best_alt)
       THEN [w EXCEPT !.best_alt = t, !.best_alt_prev = w.previous]
       ELSE w

RankProgram ==
  /\ walk.by = "programs"
  /\ walk.cursor # NoTask
  /\ LET t == walk.cursor
         w == IF task[t].type = "program" THEN Ranked(walk, t) ELSE walk
     IN walk' = [w EXCEPT !.previous = t, !.cursor = next[t]]
  /\ UNCHANGED <<vars, links>>

(* Faulty: without the fairness rule.                                      *)
UseAlternativeFaulty == FALSE

UseAlternative ==
  walk.best = last_selected_task_id /\ walk.best_alt # NoTask

TakeProgram ==
  LET t    == IF UseAlternative THEN walk.best_alt ELSE walk.best
      prev == IF UseAlternative THEN walk.best_alt_prev ELSE walk.best_prev
  IN
  /\ walk.by = "programs"
  /\ walk.cursor = NoTask
  /\ walk.best # NoTask
  /\ Cut(t, prev, NoTask)
  /\ StartRound(t)
  /\ walk' = NoWalk

(* dequeue_next_task_locked returns NULL; the signal is consumed in vain.  *)
FindNothing ==
  /\ walk.by = "programs"
  /\ walk.cursor = NoTask
  /\ walk.best = NoTask
  /\ ConsumeSignal
  /\ walk' = NoWalk
  /\ UNCHANGED <<task, waiting, current_task, active_task_count,
                 stop_requested, next_task_id, last_selected_task_id, pc,
                 result, links>>

-----------------------------------------------------------------------------
(* scheduler_cancel_client_tasks.                                          *)

BeginCancel(c) ==
  /\ Unlocked
  /\ pc # "destroyed"
  /\ walk' = [NoWalk EXCEPT !.by = "cancel", !.client = c,
                            !.cursor = waiting_head]
  /\ UNCHANGED <<vars, links>>

KeepTask ==
  /\ walk.by = "cancel"
  /\ walk.cursor # NoTask
  /\ task[walk.cursor].client # walk.client
  /\ walk' = [walk EXCEPT !.previous = walk.cursor,
                          !.cursor = next[walk.cursor]]
  /\ UNCHANGED <<vars, links>>

(* Faulty: the cursor advances after the pointer of the removed task has   *)
(* been changed to link what is to be freed.                               *)
AfterRemovedFaulty(t) == walk.to_free

AfterRemoved(t) == next[t]

RemoveTask ==
  LET removed == walk.cursor IN
  /\ walk.by = "cancel"
  /\ removed # NoTask
  /\ task[removed].client = walk.client
  /\ Cut(removed, walk.previous, walk.to_free)
  /\ walk' = [walk EXCEPT !.cursor = AfterRemoved(removed),
                          !.to_free = removed]
  /\ UNCHANGED vars

(* The code unlocks the mutex before this loop.  Nothing else reaches the  *)
(* tasks linked from to_free, so it is done with the mutex held.           *)
CleanUpTask ==
  LET t == walk.to_free IN
  /\ walk.by = "cancel"
  /\ walk.cursor = NoTask
  /\ t # NoTask
  /\ walk' = [walk EXCEPT !.to_free = next[t], !.freed = @ \cup {t}]
  /\ next' = [next EXCEPT ![t] = NoTask]
  /\ UNCHANGED <<vars, waiting_head, waiting_tail>>

(* The counter, which the code decrements task by task, and the flags of   *)
(* the running task, which other threads see when the mutex is unlocked.   *)
EndCancel ==
  /\ walk.by = "cancel"
  /\ walk.cursor = NoTask
  /\ walk.to_free = NoTask
  /\ waiting' \in Unlink(waiting, walk.freed)
  /\ Retire(Cardinality(walk.freed))
  /\ task' = [t \in Tasks |->
                CASE t \in walk.freed -> Blank("cancelled")
                  [] t = current_task /\ task[t].client = walk.client
                       -> [task[t] EXCEPT !.cancel = TRUE, !.preempt = TRUE]
                  [] OTHER -> task[t]]
  /\ walk' = NoWalk
  /\ UNCHANGED <<current_task, queued_signal_count, stop_requested,
                 next_task_id, last_selected_task_id, pc, result, links>>

-----------------------------------------------------------------------------
(* scheduler_destroy.                                                      *)

BeginDestroy ==
  /\ Unlocked
  /\ pc = "exited"
  /\ walk' = [NoWalk EXCEPT !.by = "destroy", !.cursor = waiting_head]
  /\ UNCHANGED <<vars, links>>

DestroyTask ==
  /\ walk.by = "destroy"
  /\ walk.cursor # NoTask
  /\ walk' = [walk EXCEPT !.cursor = next[walk.cursor],
                          !.freed = @ \cup {walk.cursor}]
  /\ UNCHANGED <<vars, links>>

EndDestroy ==
  /\ walk.by = "destroy"
  /\ walk.cursor = NoTask
  /\ task' = [t \in Tasks |-> IF t \in walk.freed THEN Blank("freed")
                                                  ELSE task[t]]
  /\ pc' = "destroyed"
  /\ walk' = NoWalk
  /\ UNCHANGED <<waiting, current_task, active_task_count,
                 queued_signal_count, stop_requested, next_task_id,
                 last_selected_task_id, result, links>>

-----------------------------------------------------------------------------
Dequeue ==
  \/ BeginDequeue \/ SkipProgram \/ TakeShell
  \/ BeginChoose \/ RankProgram \/ TakeProgram \/ FindNothing

FinishCancel ==
  \/ KeepTask \/ RemoveTask \/ CleanUpTask \/ EndCancel

(* What the other actions of Scheduler do under the mutex, without looking *)
(* at the list.                                                            *)
OtherLocked ==
  /\ Unlocked
  /\ WaitForSignal \/ Exit \/ Finalize
  /\ UNCHANGED <<links, walk>>

QueueThread == Dequeue \/ QueueRequeue \/ OtherLocked

(* The executor and the condition variable do not need the mutex.          *)
QueueExecutor == (Executor \/ SpuriousWakeup) /\ UNCHANGED <<links, walk>>

QueueCallers ==
  \/ \E c \in Clients, type \in Types, predicted \in 0..MaxBurst :
       QueueSubmit(c, type, predicted)
  \/ \E c \in Clients : BeginCancel(c)
  \/ FinishCancel
  \/ Unlocked /\ RequestStop /\ UNCHANGED <<links, walk>>
  \/ BeginDestroy \/ DestroyTask \/ EndDestroy

QueueNext == QueueThread \/ QueueExecutor \/ QueueCallers

QueueSpec == QueueInit /\ [][QueueNext]_queue_vars

(* As in Scheduler, and a loop that has begun is not abandoned.  Since the *)
(* walks of other threads keep the mutex for several steps, that the       *)
(* scheduler thread runs "whenever the mutex lets it" is strong fairness   *)
(* here: handlers block in recv between two calls, so the mutex is not     *)
(* kept from it for ever.                                                  *)
QueueFairSpec ==
  /\ QueueSpec
  /\ SF_queue_vars(QueueThread)
  /\ WF_queue_vars(FinishCancel)
  /\ WF_queue_vars((\E r \in Results : ExecutorReturns(r))
                     /\ UNCHANGED <<links, walk>>)

-----------------------------------------------------------------------------
(* Properties.                                                             *)

(* The pointers from first on visit the tasks of q, in this order, and     *)
(* end with NULL.                                                          *)
Chain(first, q) ==
  /\ first = IF q = <<>> THEN NoTask ELSE q[1]
  /\ \A i \in DOMAIN q : next[q[i]] = IF i = Len(q) THEN NoTask ELSE q[i + 1]

Represents(q) ==
  /\ Chain(waiting_head, q)
  /\ waiting_tail = IF q = <<>> THEN NoTask ELSE q[Len(q)]

(* Whenever the mutex is free, and during every search of the list, head,  *)
(* tail and the next pointers of scheduler.c:63-183 are exactly the list   *)
(* of the waiting tasks; no task that is off the list still points at one. *)
ListIsQueue ==
  walk.by # "cancel" =>
    /\ Represents(waiting)
    /\ \A t \in Tasks \ Queued : next[t] = NoTask

(* The tasks a cancellation has removed: those of its client that come     *)
(* before its cursor.                                                      *)
Removed ==
  { waiting[i] : i \in { k \in DOMAIN waiting :
      /\ task[waiting[k]].client = walk.client
      /\ \A j \in 1..k : waiting[j] # walk.cursor } }

(* While a client's tasks are being removed the list stays whole: it links *)
(* all that has not been removed, in order, and the removed tasks hang on  *)
(* to_free until they are freed, so that no task is on both, on neither or *)
(* passed over (scheduler.c:549-595).                                      *)
CancelPartitions ==
  walk.by = "cancel" =>
    /\ \E kept \in Unlink(waiting, Removed) : Represents(kept)
    /\ \E n \in 0..MaxTasks : \E f \in [1..n -> Tasks] :
         /\ IsInjective(f)
         /\ Range(f) = Removed \ walk.freed
         /\ Chain(walk.to_free, f)

(* The loops choose, remove and free what Scheduler says: every behaviour  *)
(* of the list is a behaviour of the scheduler.                            *)
ImplementsScheduler == Spec
=============================================================================
