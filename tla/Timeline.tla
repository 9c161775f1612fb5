------------------------------ MODULE Timeline ------------------------------
(***************************************************************************)
(* The execution summary of src/src/server.c: the clock and the slices that *)
(* the executor records at the end of each turn under counter_mutex, and    *)
(* the handlers that print them when they find the scheduler idle.          *)
(*                                                                          *)
(* Of the server only what decides when these happen is kept: the order of  *)
(* the executor's steps, the done flag and the places of the handlers.      *)
(* Children, pipes, contexts and descriptors are those of module Server.    *)
(***************************************************************************)
EXTENDS Scheduler

CONSTANTS
  MaxSlices,  \* MAX_TIMELINE_SLICES
  MaxClock    \* bound: how far the clock may run

ASSUME TimelineAssumption == MaxSlices \in Nat \ {0} /\ MaxClock \in Nat

VARIABLES
  timeline,                   \* the slices: client and cumulative end
  had_preemption,
  current_slice_start_time,   \* the clock
  turn,                       \* where execute_program_task is
  done,                       \* the tasks whose context is done
  handler,                    \* where each handle_client is
  job,                        \* the task each handler waits for, or NoTask
  gone,                       \* the clients whose connection is closed: see HangUp
  torn,                       \* history: see PrintSummary
  missed                      \* history: see CheckIdle

summary_vars == <<timeline, had_preemption, current_slice_start_time>>
handler_vars == <<handler, job, gone>>
history_vars == <<torn, missed>>
timeline_vars ==
  <<vars, summary_vars, turn, done, handler_vars, history_vars>>

(* at: "idle" when no program has its turn; "loop" at the loop condition;  *)
(* "ticked" after a unit; "clock" and "append" before the two critical     *)
(* sections that record the turn; "return".                                *)
NoTurn == [at |-> "idle", slice |-> 0, slices_run |-> 0, end |-> 0,
           outcome |-> "none", preempted |-> FALSE, recorded |-> FALSE,
           answers |-> FALSE]

TimelineInit ==
  /\ Init
  /\ timeline = <<>> /\ had_preemption = FALSE /\ current_slice_start_time = 0
  /\ turn = NoTurn
  /\ done = {}
  /\ handler = [c \in Clients |-> "recv"]
  /\ job = [c \in Clients |-> NoTask]
  /\ gone = {}
  /\ torn = FALSE /\ missed = FALSE

-----------------------------------------------------------------------------
(* execute_program_task.                                                   *)

Me == current_task

(* A drain of the child's output fails only on a connection that is gone.  *)
MayFail == task[Me].client \in gone

(* The turn ends with this outcome.  preempted: had_preemption will be     *)
(* set; recorded: a slice follows the clock; answers: set_done comes last. *)
EndTurn(ran, outcome, preempted, recorded, answers) ==
  turn' = [turn EXCEPT !.at = "clock", !.slices_run = ran,
                       !.outcome = outcome, !.preempted = preempted,
                       !.recorded = recorded, !.answers = answers]

(* A failed drain: the client is told before the turn is recorded.         *)
FailTurn(ran, outcome, recorded) ==
  /\ MayFail
  /\ done' = done \cup {Me}
  /\ EndTurn(ran, outcome, FALSE, recorded, FALSE)

BeginTurn ==
  /\ pc = "executing" /\ turn.at = "idle" /\ task[Me].type = "program"
  /\ turn' = [NoTurn EXCEPT !.at = "loop"]
  /\ UNCHANGED <<vars, done>>

(* The child could not be started or resumed.                              *)
TurnFails ==
  /\ pc = "executing" /\ turn.at = "idle" /\ task[Me].type = "program"
  /\ done' = done \cup {Me}
  /\ ExecutorReturns("failed")
  /\ UNCHANGED turn

InLoop ==
  turn.at = "loop" /\ turn.slice < Quantum(Me) /\ task[Me].remaining > 0

Cancelled ==
  /\ InLoop
  /\ task[Me].cancel
  /\ EndTurn(turn.slices_run, "cancelled", FALSE, TRUE, FALSE)
  /\ UNCHANGED <<vars, done>>

(* One second of the child, the drain, and the burst that is left.  A      *)
(* program whose drains fail is queued again with its burst as it was, so  *)
(* that the clock has to be bounded.                                       *)
Tick ==
  /\ InLoop
  /\ ~task[Me].cancel
  /\ current_slice_start_time + turn.slices_run < MaxClock
  /\ \/ /\ ExecutorWorks(task[Me].remaining - 1)
        /\ turn' = [turn EXCEPT !.at = "ticked", !.slices_run = @ + 1]
        /\ UNCHANGED done
     \/ /\ FailTurn(turn.slices_run + 1, "requeue", TRUE)
        /\ UNCHANGED vars

(* waitpid with WNOHANG finds that the child has exited.  If the last      *)
(* drain fails, the clock advances but no slice is appended.               *)
ChildEnded ==
  /\ turn.at = "ticked"
  /\ ExecutorWorks(0)
  /\ \/ /\ EndTurn(turn.slices_run, "complete", FALSE, TRUE, TRUE)
        /\ UNCHANGED done
     \/ FailTurn(turn.slices_run, "failed", FALSE)

(* Faulty: the request is taken off the task by the executor that polled.  *)
GiveWayFaulty ==
  /\ turn.at = "ticked" /\ task[Me].preempt
  /\ EndTurn(turn.slices_run, "requeue", TRUE, TRUE, FALSE)
  /\ task' = [task EXCEPT ![Me].preempt = FALSE]
  /\ UNCHANGED <<waiting, current_task, active_task_count, queued_signal_count,
                 stop_requested, next_task_id, last_selected_task_id, pc, result,
                 done>>

(* The child has to give way, for a preemption or at the end of the        *)
(* quantum.                                                                *)
GiveWay ==
  /\ \/ turn.at = "ticked" /\ task[Me].preempt
     \/ turn.at = "loop" /\ ~InLoop /\ task[Me].remaining > 0
  /\ \/ /\ EndTurn(turn.slices_run, "requeue", TRUE, TRUE, FALSE)
        /\ UNCHANGED done
     \/ FailTurn(turn.slices_run, "requeue", TRUE)
  /\ UNCHANGED vars

Continue ==
  /\ turn.at = "ticked"
  /\ ~task[Me].preempt
  /\ turn' = [turn EXCEPT !.at = "loop", !.slice = @ + 1]
  /\ UNCHANGED <<vars, done>>

(* The burst is used up; the executor has waited for the child.            *)
BurstOver ==
  /\ turn.at = "loop"
  /\ task[Me].remaining = 0
  /\ \/ /\ EndTurn(turn.slices_run, "complete", FALSE, TRUE, TRUE)
        /\ UNCHANGED done
     \/ FailTurn(turn.slices_run, "failed", TRUE)
  /\ UNCHANGED vars

Play ==
  /\ \/ BeginTurn \/ TurnFails \/ Cancelled \/ Tick \/ ChildEnded
     \/ GiveWay \/ Continue \/ BurstOver
  /\ UNCHANGED summary_vars

(* Faulty: the clock is set to the length of the turn.                     *)
AdvanceFaulty(ran) == ran

Advance(ran) == current_slice_start_time + ran

AdvanceClock ==
  LET end == Advance(turn.slices_run) IN
  /\ turn.at = "clock"
  /\ current_slice_start_time' = end
  /\ had_preemption' = (had_preemption \/ turn.preempted)
  /\ turn' = [turn EXCEPT
                !.end = end,
                !.at = IF turn.recorded /\ turn.slices_run > 0
                       THEN "append" ELSE "return"]
  /\ UNCHANGED <<vars, done, timeline>>

(* append_timeline_slice, a critical section of its own.                   *)
AppendSlice ==
  /\ turn.at = "append"
  /\ timeline' =
       IF Len(timeline) < MaxSlices
       THEN Append(timeline, [client |-> task[Me].client, end |-> turn.end])
       ELSE timeline
  /\ turn' = [turn EXCEPT !.at = "return"]
  /\ UNCHANGED <<vars, done, had_preemption, current_slice_start_time>>

EndOfTurn ==
  /\ turn.at = "return"
  /\ done' = IF turn.answers THEN done \cup {Me} ELSE done
  /\ ExecutorReturns(turn.outcome)
  /\ turn' = NoTurn
  /\ UNCHANGED summary_vars

(* execute_shell_task takes no time on the clock.                          *)
RunShell ==
  /\ pc = "executing" /\ task[Me].type = "shell"
  /\ done' = done \cup {Me}
  /\ ExecutorReturns("complete")
  /\ UNCHANGED <<turn, summary_vars>>

TurnStep ==
  /\ Play \/ AdvanceClock \/ AppendSlice \/ EndOfTurn \/ RunShell
  /\ UNCHANGED <<handler_vars, history_vars>>

-----------------------------------------------------------------------------
(* handle_client.                                                          *)

Goto(c, place) == handler' = [handler EXCEPT ![c] = place]

(* The client closes its connection.  A handler that hangs up on a client,  *)
(* having read a negative result of scheduler_submit_task from a freed     *)
(* record (server.c:1484-1487), is taken for a client that went: its task   *)
(* is over, and it leaves without a look at the summary as well.            *)
HangUp(c) ==
  /\ c \notin gone
  /\ gone' = gone \cup {c}
  /\ UNCHANGED <<vars, summary_vars, turn, done, handler, job, history_vars>>

RecvCommand(c, type, burst) ==
  /\ handler[c] = "recv" /\ c \notin gone
  /\ Submit(c, type, burst)
  /\ job' = [job EXCEPT ![c] = next_task_id]
  /\ Goto(c, "waiting")
  /\ UNCHANGED <<summary_vars, turn, done, gone, history_vars>>

(* The client is found gone, in recv_command or in wait_for_task.          *)
FindGone(c) ==
  /\ handler[c] \in {"recv", "timed_wait"} /\ c \in gone
  /\ CancelClient(c)
  /\ Goto(c, "left")
  /\ UNCHANGED <<summary_vars, turn, done, job, gone, history_vars>>

WaitForTask(c) ==
  /\ \/ /\ handler[c] = "waiting"
        /\ Goto(c, IF job[c] \in done THEN "respond" ELSE "timed_wait")
     \/ /\ handler[c] = "timed_wait" /\ c \notin gone
        /\ Goto(c, "waiting")
  /\ UNCHANGED <<vars, summary_vars, turn, done, job, gone, history_vars>>

(* Faulty: back to recv_command without the look at the summary.           *)
RespondFaulty(c) ==
  /\ handler[c] = "respond"
  /\ \/ Goto(c, "recv")
     \/ c \in gone /\ Goto(c, "left")
  /\ UNCHANGED <<vars, summary_vars, turn, done, job, gone, history_vars>>

(* handle_task_response; to a client that has gone it may fail, and then   *)
(* the handler leaves without a look at the summary.                       *)
Respond(c) ==
  /\ handler[c] = "respond"
  /\ \/ Goto(c, "responded")
     \/ c \in gone /\ Goto(c, "left")
  /\ UNCHANGED <<vars, summary_vars, turn, done, job, gone, history_vars>>

SummaryDue == had_preemption /\ timeline # <<>>

(* scheduler_has_active_work, under the scheduler's mutex.  The task of    *)
(* this handler may itself not be finalized yet: the executor sets done    *)
(* before it returns.  missed remembers that a due summary was not printed *)
(* for nothing but that.                                                   *)
CheckIdle(c) ==
  /\ handler[c] = "responded"
  /\ Goto(c, IF active_task_count = 0 THEN "idle_seen" ELSE "recv")
  /\ job' = [job EXCEPT ![c] = NoTask]
  /\ missed' = (missed \/ (task[job[c]].state \in Live /\ active_task_count = 1))
  /\ UNCHANGED <<vars, summary_vars, turn, done, gone, torn>>

(* Faulty: the clock runs on after a summary.                              *)
ResetFaulty ==
  /\ timeline' = <<>> /\ had_preemption' = FALSE
  /\ UNCHANGED current_slice_start_time

Reset ==
  /\ timeline' = <<>> /\ had_preemption' = FALSE
  /\ current_slice_start_time' = 0

(* print_summary_if_needed, under counter_mutex.  torn remembers whether   *)
(* the clock was reset between the two halves of the recording of a turn.  *)
PrintSummary(c) ==
  /\ handler[c] = "idle_seen"
  /\ IF SummaryDue
     THEN Reset /\ torn' = (turn.at = "append") /\ missed' = FALSE
     ELSE UNCHANGED <<summary_vars, history_vars>>
  /\ Goto(c, "recv")
  /\ UNCHANGED <<vars, turn, done, job, gone>>

Handler(c) ==
  FindGone(c) \/ WaitForTask(c) \/ Respond(c) \/ CheckIdle(c) \/ PrintSummary(c)

-----------------------------------------------------------------------------
ThreadStep ==
  /\ \/ WaitForSignal \/ NothingToDispatch \/ Requeue \/ Finalize
     \/ \E t \in Tasks : Dispatch(t)
     \/ SpuriousWakeup
  /\ UNCHANGED <<summary_vars, turn, done, handler_vars, history_vars>>

TimelineNext ==
  \/ ThreadStep \/ TurnStep
  \/ \E c \in Clients :
       \/ Handler(c) \/ HangUp(c)
       \/ \E burst \in 1..MaxBurst : RecvCommand(c, "program", burst)
       \/ RecvCommand(c, "shell", 0)

TimelineSpec == TimelineInit /\ [][TimelineNext]_timeline_vars

-----------------------------------------------------------------------------
(* Properties.                                                             *)

(* The executor and the handlers are users of the scheduler's model.       *)
TimelineUsesScheduler == Spec

LastEnd == IF timeline = <<>> THEN 0 ELSE timeline[Len(timeline)].end

(* append_timeline_slice: each slice stores "the cumulative time where that *)
(* scheduled turn ended".  So ends rise along the line and none lies ahead *)
(* of the clock; the one exception is a summary printed while a turn is    *)
(* between its two critical sections (server.c:1094-1100), which can       *)
(* happen because the check for idleness is a third one (1387).            *)
EndsRise ==
  ~torn =>
    /\ \A i, j \in DOMAIN timeline : i < j => timeline[i].end < timeline[j].end
    /\ timeline # <<>> => timeline[1].end > 0
    /\ LastEnd <= current_slice_start_time

(* No turn is missing from the line: its last end is the clock, whichever  *)
(* way turns ended and whenever summaries were printed, unless the line is *)
(* full, a client has gone in its turn (server.c:1057-1060 records no      *)
(* slice), or a turn is being recorded.                                    *)
TimelineWhole ==
  (~torn /\ gone = {} /\ Len(timeline) < MaxSlices /\ turn.at # "append")
    => LastEnd = current_slice_start_time

AtRest ==
  /\ active_task_count = 0
  /\ \A c \in Clients : handler[c] \in {"recv", "left"}

(* When everything has come to rest after programs were preempted, their   *)
(* summary has been printed ("the execution summary includes a timeline    *)
(* when preemption occurs"), unless a client went away or was hung up on,   *)
(* or the last handler looked before its own task was finalized.           *)
SummaryPrinted ==
  AtRest /\ gone = {} /\ ~missed => ~SummaryDue
=============================================================================
