--------------------------- MODULE TimelineProofs ---------------------------
(***************************************************************************)
(* What is proved of Timeline for every set of clients, every number of     *)
(* tasks, every burst and pair of quanta and every length of the line.      *)
(***************************************************************************)
EXTENDS Timeline, SchedulerProofs

Pending == {"waiting", "timed_wait", "respond", "responded"}

Recording == {"clock", "append", "return"}

Slice == [client: Clients \cup {NoClient}, end: Nat]

TurnRecord ==
  [at: {"idle", "loop", "ticked"} \cup Recording, slice: Nat, slices_run: Nat,
   end: Nat, outcome: Results \cup {"none"}, preempted: BOOLEAN,
   recorded: BOOLEAN, answers: BOOLEAN]

Typed ==
  /\ timeline \in Seq(Slice)
  /\ had_preemption \in BOOLEAN
  /\ current_slice_start_time \in Nat
  /\ turn \in TurnRecord
  /\ done \subseteq Tasks
  /\ handler \in [Clients -> {"recv", "left", "idle_seen"} \cup Pending]
  /\ job \in [Clients -> Tasks \cup {NoTask}]
  /\ gone \subseteq Clients
  /\ torn \in BOOLEAN /\ missed \in BOOLEAN

(* A turn lies in a round of a program, and what it will record is known   *)
(* when its recording begins.  The server never destroys its scheduler.    *)
Turns ==
  /\ pc # "destroyed"
  /\ turn.at # "idle" => pc = "executing" /\ task[Me].type = "program"
  /\ turn.at \in Recording =>
       /\ turn.outcome \in Results
       /\ turn.answers => turn.outcome = "complete"
  /\ turn.at = "clock" /\ ~turn.recorded => gone # {}

(* The slice that is about to be appended ends at the clock, behind all    *)
(* that are there.                                                         *)
Lines ==
  /\ EndsRise /\ TimelineWhole
  /\ ~torn /\ turn.at = "append" =>
       turn.end = current_slice_start_time /\ LastEnd < turn.end

Awaited(t) == \E c \in Clients : job[c] = t /\ handler[c] \in Pending

(* The task whose executor has returned but which is not finalized yet.    *)
Returned(t) == t = Me /\ pc = "returned"

(* While all clients are there, every task that is alive has a handler     *)
(* which will look whether the scheduler is idle, unless it has looked     *)
(* already, in the gap between the answer and finalize_task; and if it has  *)
(* then another task is queued, or a due summary counts as missed.         *)
Looks ==
  /\ \A c \in Clients : handler[c] \in {"respond", "responded"} => job[c] \in done
  /\ gone = {} =>
       /\ \A t \in Tasks : task[t].state \in Live =>
            Awaited(t) \/ (Returned(t) /\ t \in done)
       /\ \A t \in done :
            \/ task[t].state \in Ended
            \/ Returned(t) /\ result \in {"complete", "failed"}
       /\ SummaryDue /\ ~missed =>
            /\ \E c \in Clients : handler[c] \in Pending \cup {"idle_seen"}
            /\ Me # NoTask /\ ~Awaited(Me) => waiting # <<>>

TInv == Bounded /\ Typed /\ Turns /\ Lines /\ Looks

-----------------------------------------------------------------------------
LEMMA InitTInv == TimelineInit => TInv
<1> SUFFICES ASSUME TimelineInit PROVE TInv
  OBVIOUS
<1>1. Bounded
  BY InitBounded DEF TimelineInit
<1>2. Typed /\ Turns
  <2>1. NoTurn \in TurnRecord /\ NoTurn.at = "idle"
    BY DEF NoTurn, TurnRecord
  <2>2. timeline \in Seq(Slice) /\ handler \in [Clients -> {"recv"}]
        /\ job \in [Clients -> {NoTask}]
    BY DEF TimelineInit
  <2> QED BY <2>1, <2>2 DEF TimelineInit, Init, Typed, Turns, Recording
<1>3. LastEnd = 0 /\ DOMAIN timeline = {}
  BY DEF TimelineInit, LastEnd
<1>4. Lines
  BY <1>3 DEF TimelineInit, Lines, EndsRise, TimelineWhole, NoTurn
<1>5. Looks
  BY DEF TimelineInit, Init, Looks, Blank, Live, SummaryDue
<1> QED BY <1>1, <1>2, <1>4, <1>5 DEF TInv

(* A turn lies in a round.                                                 *)
LEMMA InRound ==
  ASSUME TInv, TurnStep
  PROVE  pc = "executing" /\ Me \in Tasks /\ task[Me].state = "running"
<1>1. pc = "executing"
  BY DEF TInv, Turns, TurnStep, Play, BeginTurn, TurnFails, Cancelled, Tick, ChildEnded,
     GiveWay, Continue, BurstOver, InLoop, AdvanceClock, AppendSlice, EndOfTurn,
     RunShell, Recording
<1> QED BY <1>1, SchedulerFacts DEF TInv, Me

LEMMA TurnUses ==
  ASSUME TInv, TurnStep
  PROVE  \/ UNCHANGED vars
         \/ \E left \in 0..MaxBurst + DefaultBurst : ExecutorWorks(left)
         \/ \E r \in Results : ExecutorReturns(r)
<1>1. /\ task[Me].remaining \in Int /\ task[Me].remaining <= MaxBurst + DefaultBurst
      /\ MaxBurst + DefaultBurst \in Nat
  BY InRound, SchedulerFacts, SchedulerAssumption
     DEF TInv, Bounded, TaskRecord, SchedulerAssumption
<1>2. CASE Tick
  <2>1. CASE ExecutorWorks(task[Me].remaining - 1)
    BY <1>1, <1>2, <2>1 DEF Tick, InLoop
  <2> QED BY <1>2, <2>1 DEF Tick
<1>3. CASE ChildEnded
  BY <1>1, <1>3 DEF ChildEnded
<1>4. CASE TurnFails \/ EndOfTurn \/ RunShell
  BY <1>4 DEF TurnFails, EndOfTurn, RunShell, Results, TInv, Turns, Recording
<1>5. CASE BeginTurn \/ Cancelled \/ GiveWay \/ Continue \/ BurstOver \/ AdvanceClock
           \/ AppendSlice
  BY <1>5 DEF BeginTurn, Cancelled, GiveWay, Continue, BurstOver, AdvanceClock,
     AppendSlice
<1> QED BY <1>2, <1>3, <1>4, <1>5 DEF TurnStep, Play

LEMMA TimelineUses == TInv /\ [TimelineNext]_timeline_vars => [Next]_vars
<1> SUFFICES ASSUME TInv, [TimelineNext]_timeline_vars PROVE [Next]_vars
  OBVIOUS
<1>1. CASE ThreadStep
  BY <1>1 DEF ThreadStep, Next, SchedulerThread
<1>2. CASE TurnStep
  BY <1>2, TurnUses DEF Next, Executor
<1>3. ASSUME NEW c \in Clients, Handler(c) \/ HangUp(c)
      PROVE  [Next]_vars
  BY <1>3 DEF Handler, HangUp, FindGone, WaitForTask, Respond, CheckIdle, PrintSummary,
     Next, Callers
<1>4. ASSUME NEW c \in Clients, NEW type \in Types, NEW burst \in 0..MaxBurst,
             RecvCommand(c, type, burst)
      PROVE  Next
  BY <1>4 DEF RecvCommand, Next, Callers
<1>5. "program" \in Types /\ "shell" \in Types /\ 1..MaxBurst \subseteq 0..MaxBurst
      /\ 0 \in 0..MaxBurst
  BY SchedulerAssumption DEF SchedulerAssumption, Types
<1>6. CASE UNCHANGED timeline_vars
  BY <1>6 DEF timeline_vars
<1> QED BY <1>1, <1>2, <1>3, <1>4, <1>5, <1>6 DEF TimelineNext

LEMMA NextBounded == TInv /\ [TimelineNext]_timeline_vars => Bounded'
BY TimelineUses, BoundedStep DEF TInv

-----------------------------------------------------------------------------
(* The turns of programs.                                                  *)
LEMMA TurnFrame ==
  ASSUME TInv, TurnStep
  PROVE  /\ UNCHANGED <<current_task, waiting>> /\ pc' \in {"executing", "returned"}
         /\ \A t \in Tasks : task'[t].state = task[t].state
                             /\ task'[t].type = task[t].type
<1>1. task \in [Tasks -> TaskRecord] /\ pc = "executing"
  BY InRound, SchedulerFacts DEF TInv
<1>2. CASE UNCHANGED vars
  BY <1>1, <1>2 DEF vars
<1>3. CASE \E r \in Results : ExecutorReturns(r)
  BY <1>3 DEF ExecutorReturns
<1>4. ASSUME NEW left, ExecutorWorks(left)
      PROVE  /\ UNCHANGED <<current_task, waiting>> /\ pc' = "executing"
             /\ \A t \in Tasks : task'[t].state = task[t].state
                                 /\ task'[t].type = task[t].type
  BY <1>1, <1>4 DEF ExecutorWorks, TaskRecord
<1> QED BY <1>2, <1>3, <1>4, TurnUses

LEMMA EndTurnFacts ==
  ASSUME Typed, NEW ran \in Nat, NEW outcome \in Results, NEW preempted \in BOOLEAN,
         NEW recorded \in BOOLEAN, NEW answers \in BOOLEAN,
         EndTurn(ran, outcome, preempted, recorded, answers)
  PROVE  /\ turn' \in TurnRecord /\ turn'.at = "clock" /\ turn'.outcome = outcome
         /\ turn'.recorded = recorded /\ turn'.answers = answers
BY DEF Typed, EndTurn, TurnRecord, Recording

(* What a turn leaves when it goes on and when it ends.                    *)
Played ==
  /\ turn' \in TurnRecord
  /\ turn'.at \in {"idle", "loop", "ticked", "clock"}
  /\ turn'.at # "idle" => pc' = "executing"
  /\ turn'.at = "clock" =>
       /\ turn'.outcome \in Results
       /\ turn'.answers => turn'.outcome = "complete"
       /\ turn'.recorded \/ gone # {}
  /\ \/ done' = done
     \/ done' = done \cup {Me} /\ (gone = {} => pc' = "returned" /\ result' = "failed")

LEMMA EndTurnPlays ==
  ASSUME TInv, pc' = "executing", NEW ran \in Nat, NEW outcome \in Results,
         NEW preempted \in BOOLEAN, NEW recorded \in BOOLEAN, NEW answers \in BOOLEAN,
         answers => outcome = "complete",
         \/ /\ EndTurn(ran, outcome, preempted, recorded, answers) /\ recorded
            /\ done' = done
         \/ FailTurn(ran, outcome, recorded) /\ ~preempted /\ ~answers
  PROVE  Played
<1>1. EndTurn(ran, outcome, preempted, recorded, answers)
  <2>1. CASE FailTurn(ran, outcome, recorded) /\ ~preempted /\ ~answers
    <3>1. preempted = FALSE /\ answers = FALSE
      BY <2>1
    <3> QED BY <2>1, <3>1 DEF FailTurn
  <2> QED BY <2>1
<1>2. gone # {} \/ (recorded /\ done' = done)
  BY DEF FailTurn, MayFail
<1>3. done' = done \/ done' = done \cup {Me}
  BY DEF FailTurn
<1> QED BY <1>1, <1>2, <1>3, EndTurnFacts DEF TInv, Played

LEMMA PlayFacts ==
  ASSUME TInv, TurnStep, Play
  PROVE  Played /\ turn.at \notin Recording /\ (turn.at = "idle" \/ turn'.at # "idle")
<1>1. turn \in TurnRecord /\ turn.slices_run \in Nat /\ turn.slices_run + 1 \in Nat
      /\ turn.slice + 1 \in Nat /\ pc = "executing"
  BY InRound DEF TInv, Typed, TurnRecord
<1>2. /\ pc' = pc \/ TurnFails
      /\ turn.at \notin Recording
  BY DEF Play, BeginTurn, TurnFails, Cancelled, Tick, ChildEnded, GiveWay, Continue,
     BurstOver, InLoop, ExecutorWorks, vars, Recording
<1>3. /\ {"requeue", "complete", "cancelled", "failed"} \subseteq Results
      /\ TRUE \in BOOLEAN /\ FALSE \in BOOLEAN
  BY DEF Results
<1>4. CASE BeginTurn
  BY <1>1, <1>2, <1>4 DEF BeginTurn, Played, NoTurn, TurnRecord, vars
<1>5. CASE TurnFails
  BY <1>1, <1>2, <1>5 DEF TurnFails, Played, ExecutorReturns
<1>6. CASE Continue
  <2>1. turn' = [[turn EXCEPT !.at = "loop"] EXCEPT !.slice = turn.slice + 1]
    BY <1>1, <1>6 DEF Continue, TurnRecord
  <2>2. turn' \in TurnRecord /\ turn'.at = "loop"
    BY <1>1, <2>1 DEF TurnRecord
  <2> QED BY <1>1, <1>2, <1>6, <2>2 DEF Continue, Played, TurnFails
<1>7. CASE Tick /\ ~FailTurn(turn.slices_run + 1, "requeue", TRUE)
  <2>1. turn' = [[turn EXCEPT !.at = "ticked"] EXCEPT !.slices_run = turn.slices_run + 1]
    BY <1>1, <1>7 DEF Tick, TurnRecord
  <2>2. turn' \in TurnRecord /\ turn'.at = "ticked"
    BY <1>1, <2>1 DEF TurnRecord
  <2> QED BY <1>1, <1>2, <1>7, <2>2 DEF Tick, Played, TurnFails, InLoop
<1>8. CASE Cancelled \/ GiveWay \/ BurstOver \/ ChildEnded
           \/ (Tick /\ FailTurn(turn.slices_run + 1, "requeue", TRUE))
  <2>1. pc' = "executing" /\ turn.at # "idle"
    BY <1>1, <1>2, <1>8 DEF Cancelled, GiveWay, BurstOver, ChildEnded, Tick, TurnFails,
       InLoop
  <2>2. Played
    <3>1. CASE Cancelled
      BY <1>1, <1>3, <2>1, <3>1, EndTurnPlays DEF Cancelled
    <3>2. CASE GiveWay
      BY <1>1, <1>3, <2>1, <3>2, EndTurnPlays DEF GiveWay
    <3>3. CASE BurstOver
      BY <1>1, <1>3, <2>1, <3>3, EndTurnPlays DEF BurstOver
    <3>4. CASE ChildEnded
      BY <1>1, <1>3, <2>1, <3>4, EndTurnPlays DEF ChildEnded
    <3>5. CASE Tick /\ FailTurn(turn.slices_run + 1, "requeue", TRUE)
      BY <1>1, <1>3, <2>1, <3>5, EndTurnPlays
    <3> QED BY <1>8, <3>1, <3>2, <3>3, <3>4, <3>5
  <2>3. turn'.at # "idle"
    <3>1. turn'.at = "clock"
      BY <1>1, <1>8 DEF Cancelled, GiveWay, BurstOver, ChildEnded, FailTurn, EndTurn,
         TurnRecord
    <3> QED BY <3>1
  <2> QED BY <1>2, <2>1, <2>2, <2>3
<1> QED BY <1>4, <1>5, <1>6, <1>7, <1>8 DEF Play

(* What the handlers wait for as a turn goes on.                           *)
LEMMA TurnLooks ==
  ASSUME TInv, TurnStep,
         \/ done' = done
         \/ /\ done' = done \cup {Me}
            /\ gone = {} => pc' = "returned" /\ result' \in {"complete", "failed"},
         UNCHANGED <<timeline, had_preemption>> \/ (done' = done /\ pc' = "executing")
  PROVE  Looks'
<1> USE DEF TInv
<1>1. /\ pc = "executing" /\ Me \in Tasks /\ task[Me].state = "running"
      /\ Me' = Me /\ Me # NoTask
      /\ UNCHANGED <<waiting, handler, job, gone, torn, missed>>
      /\ \A t \in Tasks : task'[t].state = task[t].state
  BY InRound, TurnFrame, SchedulerFacts DEF Me, TurnStep, handler_vars, history_vars
<1>2. \A t : Awaited(t)' = Awaited(t)
  BY <1>1 DEF Awaited
<1>3. gone = {} => \A t \in Tasks : task[t].state \in Live => Awaited(t)
  BY <1>1 DEF Looks, Returned
<1>4. gone = {} => Awaited(Me)
  BY <1>1, <1>3 DEF Live
<1>5. \A c \in Clients : handler'[c] \in {"respond", "responded"} => job'[c] \in done'
  BY <1>1 DEF Looks
<1>6. ASSUME gone = {}, NEW t \in done'
      PROVE  \/ task'[t].state \in Ended
             \/ Returned(t)' /\ result' \in {"complete", "failed"}
  <2>1. CASE t \in done
    <3>1. task[t].state \in Ended /\ t \in Tasks
      BY <1>1, <1>6, <2>1 DEF Looks, Returned, Typed
    <3> QED BY <1>1, <3>1
  <2>2. CASE t \notin done
    BY <1>1, <1>6, <2>2 DEF Returned
  <2> QED BY <2>1, <2>2
<1>7. gone = {} => \E c \in Clients : handler'[c] \in Pending \cup {"idle_seen"}
  BY <1>1, <1>4 DEF Awaited
<1> QED BY <1>1, <1>2, <1>3, <1>4, <1>5, <1>6, <1>7 DEF Looks

LEMMA PlayStep ==
  ASSUME TInv, TurnStep, Play, Bounded'
  PROVE  TInv'
<1> USE DEF TInv
<1>1. /\ UNCHANGED <<timeline, had_preemption, current_slice_start_time, handler, job,
                     gone, torn, missed>>
      /\ Me' = Me /\ Me \in Tasks /\ task'[Me].type = task[Me].type
      /\ pc' # "destroyed"
  BY InRound, TurnFrame DEF Me, TurnStep, Play, summary_vars, handler_vars, history_vars
<1>2. Played /\ turn.at \notin Recording /\ (turn.at = "idle" \/ turn'.at # "idle")
  BY PlayFacts
<1>3. Looks'
  BY <1>1, <1>2, TurnLooks DEF Played
<1>4. Typed'
  BY <1>1, <1>2 DEF Typed, Played
<1>5. Turns'
  <2>1. turn'.at # "idle" => task[Me].type = "program"
    BY <1>2 DEF Turns, Play, BeginTurn, TurnFails, Cancelled, Tick, ChildEnded, GiveWay,
       Continue, BurstOver, InLoop
  <2> QED BY <1>1, <1>2, <2>1 DEF Turns, Played, Recording
<1>6. Lines'
  BY <1>1, <1>2 DEF Lines, EndsRise, TimelineWhole, LastEnd, Played, Recording
<1> QED BY <1>3, <1>4, <1>5, <1>6

LEMMA LineFacts ==
  ASSUME Typed
  PROVE  /\ LastEnd \in Nat /\ Len(timeline) \in Nat
         /\ DOMAIN timeline = 1..Len(timeline)
         /\ \A i \in DOMAIN timeline : timeline[i].end \in Nat
         /\ timeline = <<>> <=> Len(timeline) = 0
<1>1. \A i \in 1..Len(timeline) : timeline[i] \in Slice
  BY DEF Typed
<1>2. \A i \in 1..Len(timeline) : timeline[i].end \in Nat
  BY <1>1 DEF Slice
<1>3. Len(timeline) \in Nat /\ DOMAIN timeline = 1..Len(timeline)
      /\ (timeline = <<>> <=> Len(timeline) = 0)
  BY DEF Typed
<1>4. timeline # <<>> => Len(timeline) \in 1..Len(timeline)
  BY <1>3
<1>5. LastEnd \in Nat
  BY <1>2, <1>4 DEF LastEnd
<1> QED BY <1>2, <1>3, <1>5

(* The clock moves on by what the turn has run.                            *)
LEMMA AdvanceStep ==
  ASSUME TInv, TurnStep, AdvanceClock, Bounded'
  PROVE  TInv'
<1> USE DEF TInv
<1> DEFINE end == current_slice_start_time + turn.slices_run
           at  == IF turn.recorded /\ turn.slices_run > 0 THEN "append" ELSE "return"
<1>1. /\ UNCHANGED <<timeline, done, handler, job, gone, torn, missed>>
      /\ Me' = Me /\ Me \in Tasks /\ task'[Me].type = task[Me].type
      /\ current_slice_start_time' = end /\ pc' = pc /\ pc = "executing"
      /\ turn.at = "clock"
  BY InRound, TurnFrame DEF Me, TurnStep, handler_vars, history_vars, AdvanceClock, vars,
     Advance
<1>2. turn \in TurnRecord /\ turn.slices_run \in Nat /\ current_slice_start_time \in Nat
      /\ end \in Nat
  BY DEF Typed, TurnRecord
<1>3. /\ turn' \in TurnRecord /\ turn'.at = at /\ turn'.end = end
      /\ turn'.outcome = turn.outcome /\ turn'.answers = turn.answers
  <2>1. turn' = [[turn EXCEPT !.end = end] EXCEPT !.at = at]
    BY <1>2 DEF AdvanceClock, Advance, TurnRecord
  <2>2. at \in {"append", "return"}
    OBVIOUS
  <2> HIDE DEF end, at
  <2> QED BY <1>2, <2>1, <2>2 DEF TurnRecord, Recording
<1>4. Looks'
  BY <1>1, TurnLooks
<1>5. had_preemption' \in BOOLEAN
  BY DEF AdvanceClock, Typed
<1>6. Typed'
  BY <1>1, <1>2, <1>3, <1>5 DEF Typed
<1>7. Turns'
  BY <1>1, <1>3 DEF Turns, Recording
<1>8. Lines'
  <2>1. LastEnd' = LastEnd /\ LastEnd \in Nat
    BY <1>1, LineFacts DEF LastEnd
  <2>2. ~torn => LastEnd <= current_slice_start_time
    BY DEF Lines, EndsRise
  <2>3. EndsRise'
    BY <1>1, <1>2, <2>1, <2>2 DEF Lines, EndsRise
  <2>4. TimelineWhole'
    <3>1. at # "append" /\ gone = {} => turn.slices_run = 0
      BY <1>1, <1>2 DEF Turns
    <3> QED BY <1>1, <1>2, <1>3, <2>1, <3>1 DEF Lines, TimelineWhole
  <2>5. ~torn' /\ turn'.at = "append" =>
          turn'.end = current_slice_start_time' /\ LastEnd' < turn'.end
    BY <1>1, <1>2, <1>3, <2>1, <2>2
  <2> QED BY <2>3, <2>4, <2>5 DEF Lines
<1> QED BY <1>4, <1>6, <1>7, <1>8

(* A slice is appended, unless the line is full.                           *)
LEMMA AppendStep ==
  ASSUME TInv, TurnStep, AppendSlice, Bounded'
  PROVE  TInv'
<1> USE DEF TInv
<1> DEFINE new == [client |-> task[Me].client, end |-> turn.end]
<1>1. /\ UNCHANGED <<done, handler, job, gone, torn, missed, had_preemption,
                     current_slice_start_time>>
      /\ Me' = Me /\ Me \in Tasks /\ task'[Me].type = task[Me].type
      /\ pc' = pc /\ pc = "executing" /\ turn.at = "append"
      /\ timeline' = IF Len(timeline) < MaxSlices THEN Append(timeline, new)
                     ELSE timeline
  BY InRound, TurnFrame DEF Me, TurnStep, handler_vars, history_vars, AppendSlice, vars
<1>2. new \in Slice /\ new.end = turn.end /\ turn.end \in Nat
  <2>1. task[Me].client \in Clients \cup {NoClient}
    BY <1>1, SchedulerFacts DEF TaskRecord
  <2> QED BY <2>1 DEF Typed, TurnRecord, Slice
<1> HIDE DEF new
<1>3. /\ turn' \in TurnRecord /\ turn'.at = "return" /\ turn'.outcome = turn.outcome
      /\ turn'.answers = turn.answers
  BY DEF AppendSlice, Typed, TurnRecord, Recording
<1>4. Looks'
  BY <1>1, TurnLooks
<1>5. timeline' \in Seq(Slice)
  BY <1>1, <1>2 DEF Typed
<1>6. Typed'
  BY <1>1, <1>3, <1>5 DEF Typed
<1>7. Turns'
  BY <1>1, <1>3 DEF Turns, Recording
<1>8. Lines'
  <2>1. CASE timeline' = timeline /\ ~(Len(timeline) < MaxSlices)
    BY <1>1, <1>3, <2>1 DEF Lines, EndsRise, TimelineWhole, LastEnd
  <2>2. CASE timeline' = Append(timeline, new)
    <3> DEFINE n == Len(timeline)
    <3>1. /\ n \in Nat /\ DOMAIN timeline = 1..n
          /\ \A i \in 1..n : timeline[i].end \in Nat
          /\ timeline = <<>> <=> n = 0
          /\ LastEnd = IF n = 0 THEN 0 ELSE timeline[n].end
          /\ LastEnd \in Nat
      BY LineFacts DEF LastEnd
    <3>2. /\ DOMAIN timeline' = 1..n + 1 /\ timeline' # <<>> /\ Len(timeline') = n + 1
          /\ \A i \in 1..n : timeline'[i] = timeline[i]
          /\ timeline'[n + 1] = new
      BY <2>2, <1>2 DEF Typed
    <3>3. LastEnd' = turn.end
      BY <1>2, <3>2 DEF LastEnd
    <3> HIDE DEF n
    <3>4. ASSUME ~torn
          PROVE  /\ \A i \in 1..n : timeline[i].end <= LastEnd
                 /\ LastEnd < turn.end /\ turn.end = current_slice_start_time
      <4>1. \A i \in 1..n : i < n => timeline[i].end < timeline[n].end
        BY <3>1, <3>4 DEF Lines, EndsRise
      <4>2. \A i \in 1..n : i = n \/ i < n
        BY <3>1
      <4>3. LastEnd < turn.end /\ turn.end = current_slice_start_time
        BY <1>1, <3>4 DEF Lines
      <4>4. ASSUME NEW i \in 1..n PROVE timeline[i].end <= LastEnd
        <5>1. LastEnd = timeline[n].end /\ timeline[i].end \in Nat /\ timeline[n].end \in Nat
          BY <3>1
        <5>2. i = n \/ timeline[i].end < timeline[n].end
          BY <4>1, <4>2
        <5> QED BY <5>1, <5>2
      <4> QED BY <4>3, <4>4
    <3>5. EndsRise'
      <4> SUFFICES ASSUME ~torn
                   PROVE  /\ \A i, j \in 1..n + 1 :
                               i < j => timeline'[i].end < timeline'[j].end
                          /\ timeline'[1].end > 0
                          /\ LastEnd' <= current_slice_start_time'
        <5>1. torn' = torn /\ DOMAIN timeline' = 1..n + 1
          BY <1>1, <3>2
        <5> QED BY <5>1 DEF EndsRise
      <4>1. ASSUME NEW i \in 1..n + 1, NEW j \in 1..n + 1, i < j
            PROVE  timeline'[i].end < timeline'[j].end
        <5>1. i \in 1..n /\ timeline'[i] = timeline[i]
          BY <3>1, <3>2, <4>1
        <5>2. CASE j = n + 1
          BY <1>2, <3>1, <3>2, <3>4, <5>1, <5>2
        <5>3. CASE j \in 1..n
          BY <3>1, <3>2, <4>1, <5>1, <5>3 DEF Lines, EndsRise
        <5> QED BY <3>1, <5>2, <5>3
      <4>2. timeline'[1].end > 0
        <5>1. CASE n = 0
          BY <1>2, <3>1, <3>2, <3>4, <5>1
        <5>2. CASE n # 0
          <6>1. 1 \in 1..n /\ timeline # <<>>
            BY <3>1, <5>2
          <6> QED BY <3>2, <6>1 DEF Lines, EndsRise
        <5> QED BY <5>1, <5>2
      <4>3. LastEnd' <= current_slice_start_time'
        BY <1>1, <1>2, <3>3, <3>4
      <4> QED BY <4>1, <4>2, <4>3
    <3>6. TimelineWhole'
      BY <1>1, <3>3, <3>4 DEF TimelineWhole
    <3> QED BY <1>3, <3>5, <3>6 DEF Lines
  <2> QED BY <1>1, <2>1, <2>2
<1> QED BY <1>4, <1>6, <1>7, <1>8

(* The end of a turn, and a shell command.                                 *)
LEMMA ReturnStep ==
  ASSUME TInv, TurnStep, EndOfTurn \/ RunShell, Bounded'
  PROVE  TInv'
<1> USE DEF TInv
<1>1. /\ UNCHANGED <<timeline, had_preemption, current_slice_start_time, handler, job,
                     gone, torn, missed>>
      /\ Me' = Me /\ Me \in Tasks
      /\ pc' = "returned"
  BY InRound, TurnFrame
     DEF Me, TurnStep, EndOfTurn, RunShell, ExecutorReturns, summary_vars, handler_vars,
         history_vars
<1>2. /\ turn' \in TurnRecord /\ turn'.at = "idle" /\ turn.at # "append"
      /\ \/ done' = done
         \/ done' = done \cup {Me} /\ result' = "complete"
  <2>1. CASE EndOfTurn
    <3>1. NoTurn \in TurnRecord /\ NoTurn.at = "idle"
      BY DEF NoTurn, TurnRecord
    <3>2. done' = done \/ (done' = done \cup {Me} /\ result' = "complete")
      BY <2>1 DEF EndOfTurn, Turns, Recording, ExecutorReturns
    <3> QED BY <2>1, <3>1, <3>2 DEF EndOfTurn
  <2>2. CASE RunShell
    <3>1. turn.at = "idle"
      BY <2>2 DEF RunShell, Turns
    <3> QED BY <2>2, <3>1 DEF RunShell, ExecutorReturns, Typed
  <2> QED BY <2>1, <2>2
<1>3. Looks'
  BY <1>1, <1>2, TurnLooks
<1>4. Typed'
  BY <1>1, <1>2 DEF Typed
<1>5. Turns' /\ Lines'
  BY <1>1, <1>2 DEF Turns, Recording, Lines, EndsRise, TimelineWhole, LastEnd
<1> QED BY <1>3, <1>4, <1>5

-----------------------------------------------------------------------------
(* The scheduler thread between rounds.                                    *)
LEMMA ThreadTInv ==
  ASSUME TInv, ThreadStep, Bounded'
  PROVE  TInv'
<1> USE DEF TInv
<1>1. /\ UNCHANGED <<timeline, had_preemption, current_slice_start_time, turn, done,
                     handler, job, gone, torn, missed>>
      /\ turn.at = "idle" /\ pc # "executing" /\ pc' # "destroyed"
  BY DEF ThreadStep, StartRound, EndRound, summary_vars, handler_vars, history_vars, Turns, WaitForSignal,
     NothingToDispatch, Requeue, Finalize, Dispatch, MayDispatch, SpuriousWakeup
<1>2. Typed'
  BY <1>1 DEF Typed
<1>3. Turns' /\ Lines'
  BY <1>1 DEF Turns, Recording, Lines, EndsRise, TimelineWhole, LastEnd
<1>4. \A t : Awaited(t)' = Awaited(t)
  BY <1>1 DEF Awaited
<1>5. SummaryDue' = SummaryDue /\ done \subseteq Tasks
  BY <1>1 DEF SummaryDue, Typed
<1>6. CASE WaitForSignal \/ NothingToDispatch \/ SpuriousWakeup
  <2>1. UNCHANGED <<task, waiting, current_task>> /\ pc # "returned"
    BY <1>6 DEF WaitForSignal, NothingToDispatch, SpuriousWakeup
  <2>2. Looks'
    BY <1>1, <1>4, <1>5, <2>1 DEF Looks, Returned, Me
  <2> QED BY <1>2, <1>3, <2>2
<1>7. CASE \E t \in Tasks : Dispatch(t)
  <2>1. PICK t \in Tasks : Dispatch(t)
    BY <1>7
  <2>2. t \in Queued /\ task[t].state = "waiting" /\ pc = "locking"
    <3>1. t \in Queued
      BY <2>1 DEF Dispatch, NextToDispatch, FirstShell, ShortestProgram, Programs,
         Shortest, Range, Queued
    <3> QED BY <2>1, <3>1, SchedulerFacts DEF Dispatch, MayDispatch
  <2>3. /\ Me' = t /\ task'[t].state = "running" /\ pc' = "executing"
        /\ \A u \in Tasks \ {t} : task'[u].state = task[u].state
    BY <2>1, SchedulerFacts DEF Dispatch, StartRound, Me, TaskRecord
  <2>4. gone = {} => \A u \in Tasks : task[u].state \in Live => Awaited(u)
    BY <2>2 DEF Looks, Returned
  <2>5. gone = {} => \A u \in done : task[u].state \in Ended /\ u # t
    BY <2>2 DEF Looks, Returned, Ended
  <2>6. Looks'
    BY <1>1, <1>4, <1>5, <2>2, <2>3, <2>4, <2>5 DEF Looks, Live
  <2> QED BY <1>2, <1>3, <2>6
<1>8. CASE Requeue \/ Finalize
  <2>1. /\ Me \in Tasks /\ task[Me].state = "running" /\ Me' = NoTask
        /\ pc = "returned" /\ pc' = "locking"
    BY <1>8, SchedulerFacts DEF Requeue, Finalize, EndRound, Me
  <2>2. \A u \in Tasks \ {Me} : task'[u].state = task[u].state
    BY <1>8, SchedulerFacts DEF Requeue, Finalize, Me, TaskRecord
  <2>3. \/ task'[Me].state \in Ended
        \/ result = "requeue"
    <3>1. CASE Finalize
      <4>1. task'[Me] = Blank(Outcome) /\ Outcome \in Ended
        BY <2>1, <3>1, SchedulerFacts DEF Finalize, Outcome, Ended, Me
      <4> QED BY <4>1 DEF Blank
    <3> QED BY <1>8, <3>1 DEF Requeue, MayRequeue
  <2>4. gone = {} /\ result = "requeue" => Me \notin done
    BY <2>1 DEF Looks, Ended
  <2>5. gone = {} => \A u \in Tasks : task'[u].state \in Live => Awaited(u)
    BY <2>1, <2>2, <2>3, <2>4 DEF Looks, Returned, Live, Ended
  <2>6. gone = {} => \A u \in done : task'[u].state \in Ended
    BY <1>5, <2>1, <2>2, <2>3, <2>4 DEF Looks, Returned
  <2>7. Looks'
    BY <1>1, <1>4, <1>5, <2>1, <2>5, <2>6 DEF Looks
  <2> QED BY <1>2, <1>3, <2>7
<1> QED BY <1>6, <1>7, <1>8 DEF ThreadStep

-----------------------------------------------------------------------------
(* The handlers and their clients.                                         *)
LEMMA RecvCommandTInv ==
  ASSUME TInv, NEW c \in Clients, NEW type \in Types, NEW burst \in Nat,
         RecvCommand(c, type, burst), Bounded'
  PROVE  TInv'
<1> USE DEF TInv
<1> DEFINE new == next_task_id
<1>1. /\ UNCHANGED <<timeline, had_preemption, current_slice_start_time, turn, done,
                     gone, torn, missed, result, current_task>>
      /\ handler' = [handler EXCEPT ![c] = "waiting"]
      /\ job' = [job EXCEPT ![c] = new] /\ handler[c] = "recv"
      /\ new \in Tasks /\ waiting' = Append(waiting, new)
      /\ pc \in {"executing", "returned"} => pc' = pc
      /\ pc' # "destroyed"
  BY DEF RecvCommand, Goto, summary_vars, history_vars, Submit, Signal, Enqueue
<1>2. /\ task[new].state = "unsubmitted" /\ task'[new].state = "waiting"
      /\ \A t \in Tasks \ {new} : /\ task'[t].state = task[t].state
                                  /\ task'[t].type = task[t].type
      /\ new # Me /\ Me' = Me
  <2>1. task[new].state = "unsubmitted" /\ new # Me
    BY <1>1, SchedulerFacts DEF Me
  <2>2. \A t \in Tasks \ {new} : /\ task'[t].state = task[t].state
                                 /\ task'[t].type = task[t].type
    BY SchedulerFacts DEF RecvCommand, Submit, TaskRecord
  <2>3. task'[new].state = "waiting"
    <3>1. task'[new] = [client |-> c, type |-> type, state |-> "waiting",
                        remaining |-> Burst(type, burst), rounds |-> 0,
                        preempt |-> FALSE, cancel |-> FALSE]
      BY <1>1, <2>1 DEF RecvCommand, Submit, Me
    <3> QED BY <3>1
  <2> QED BY <1>1, <2>1, <2>2, <2>3 DEF Me
<1>3. Typed'
  <2>1. /\ handler' \in [Clients -> {"recv", "left", "idle_seen"} \cup Pending]
        /\ job' \in [Clients -> Tasks \cup {NoTask}]
    BY <1>1 DEF Typed, Pending
  <2> QED BY <1>1, <2>1 DEF Typed
<1>4. Turns'
  <2>1. pc = "executing" => Me \in Tasks
    BY SchedulerFacts DEF Me
  <2> QED BY <1>1, <1>2, <2>1 DEF Turns, Recording
<1>5. Lines'
  BY <1>1 DEF Lines, EndsRise, TimelineWhole, LastEnd
<1>6. /\ handler'[c] = "waiting" /\ job'[c] = new
      /\ \A d \in Clients \ {c} : handler'[d] = handler[d] /\ job'[d] = job[d]
  BY <1>1 DEF Typed
<1>7. \A t \in Tasks : t = new \/ Awaited(t) => Awaited(t)'
  <2>1. ASSUME NEW t \in Tasks, t = new PROVE Awaited(t)'
    BY <1>6, <2>1 DEF Awaited, Pending
  <2>2. \A d \in Clients : handler[d] \in Pending => handler'[d] \in Pending /\ job'[d] = job[d]
    BY <1>1, <1>6 DEF Pending
  <2> HIDE DEF new
  <2>3. ASSUME NEW t \in Tasks, Awaited(t) PROVE Awaited(t)'
    <3>1. PICK d \in Clients : job[d] = t /\ handler[d] \in Pending
      BY <2>3 DEF Awaited
    <3>2. job'[d] = t /\ handler'[d] \in Pending
      BY <2>2, <3>1
    <3> QED BY <3>2 DEF Awaited
  <2> QED BY <2>1, <2>3
<1> HIDE DEF new
<1>8. \A d \in Clients : handler'[d] \in {"respond", "responded"} => job'[d] \in done'
  BY <1>1, <1>6 DEF Looks
<1>9. ASSUME gone = {}
      PROVE  /\ \A t \in Tasks : task'[t].state \in Live =>
                  Awaited(t)' \/ (Returned(t)' /\ t \in done')
             /\ \A t \in done' :
                  \/ task'[t].state \in Ended
                  \/ Returned(t)' /\ result' \in {"complete", "failed"}
  <2>1. new \notin done
    BY <1>2, <1>9 DEF Looks, Returned, Ended
  <2>2. \A t : Returned(t) => Returned(t)'
    BY <1>1, <1>2 DEF Returned
  <2>3. ASSUME NEW t \in Tasks, task'[t].state \in Live
        PROVE  Awaited(t)' \/ (Returned(t)' /\ t \in done')
    <3>1. CASE t = new
      BY <1>7, <3>1
    <3>2. CASE t # new
      BY <1>1, <1>2, <1>7, <1>9, <2>2, <2>3, <3>2 DEF Looks
    <3> QED BY <3>1, <3>2
  <2>4. ASSUME NEW t \in done
        PROVE  \/ task'[t].state \in Ended
               \/ Returned(t)' /\ result' \in {"complete", "failed"}
    <3>1. t \in Tasks \ {new}
      BY <2>1 DEF Typed
    <3> QED BY <1>1, <1>2, <1>9, <2>2, <3>1 DEF Looks
  <2> QED BY <1>1, <2>3, <2>4
<1>10. waiting' # <<>>
  BY <1>1 DEF Bounded, IInv, TypeOK
<1>11. \E d \in Clients : handler'[d] \in Pending \cup {"idle_seen"}
  BY <1>6 DEF Pending
<1>12. Looks'
  BY <1>1, <1>8, <1>9, <1>10, <1>11 DEF Looks
<1> QED BY <1>3, <1>4, <1>5, <1>12

(* A client goes away, or is found gone: little is promised then.          *)
LEMMA GoneTInv ==
  ASSUME TInv, NEW c \in Clients, HangUp(c) \/ FindGone(c), Bounded'
  PROVE  TInv'
<1> USE DEF TInv
<1>1. /\ UNCHANGED <<timeline, had_preemption, current_slice_start_time, turn, done,
                     job, torn, missed, pc, current_task>>
      /\ gone' # {} /\ gone' \subseteq Clients
      /\ \A t \in Tasks : t = Me => task'[t].type = task[t].type
      /\ handler' = handler \/ handler' = [handler EXCEPT ![c] = "left"]
  <2>1. CASE HangUp(c)
    BY <2>1 DEF HangUp, summary_vars, history_vars, vars, Typed
  <2>2. CASE FindGone(c)
    <3>1. \A t \in Tasks : t = Me => task'[t].type = task[t].type
      <4>1. Me \in Tasks => Me \notin Queued
        BY <2>2, SchedulerFacts DEF Me, FindGone, CancelClient
      <4>2. task' = [t \in Tasks |->
                CASE t \in Queued /\ task[t].client = c
                       -> Blank("cancelled")
                  [] t = current_task /\ task[t].client = c
                       -> [task[t] EXCEPT !.cancel = TRUE, !.preempt = TRUE]
                  [] OTHER -> task[t]]
        BY <2>2 DEF FindGone, CancelClient
      <4>3. Me \in Tasks => task[Me] \in TaskRecord
        BY SchedulerFacts
      <4> QED BY <4>1, <4>2, <4>3 DEF TaskRecord
    <3> QED BY <2>2, <3>1 DEF FindGone, CancelClient, summary_vars, history_vars, Typed,
            Goto
  <2> QED BY <2>1, <2>2
<1>2. Me' = Me /\ (pc = "executing" => Me \in Tasks)
  BY <1>1, SchedulerFacts DEF Me
<1>3. Typed'
  BY <1>1 DEF Typed
<1>4. Turns'
  BY <1>1, <1>2 DEF Turns, Recording
<1>5. Lines'
  BY <1>1 DEF Lines, EndsRise, TimelineWhole, LastEnd
<1>6. Looks'
  BY <1>1 DEF Looks, Typed
<1> QED BY <1>3, <1>4, <1>5, <1>6

(* The wait for done, and the answer.                                      *)
LEMMA AnswerTInv ==
  ASSUME TInv, NEW c \in Clients, WaitForTask(c) \/ Respond(c), Bounded'
  PROVE  TInv'
<1> USE DEF TInv
<1>1. UNCHANGED <<vars, timeline, had_preemption, current_slice_start_time, turn, done,
                  job, gone, torn, missed>>
  BY DEF WaitForTask, Respond, summary_vars, history_vars
<1>2. PICK place \in Pending \cup {"left"} :
        /\ handler' = [handler EXCEPT ![c] = place]
        /\ handler[c] \in Pending
        /\ place = "left" => gone # {}
        /\ place \in {"respond", "responded"} => job[c] \in done
  BY DEF WaitForTask, Respond, Goto, Pending, Looks
<1>3. Typed'
  BY <1>1, <1>2 DEF Typed
<1>4. Turns' /\ Lines'
  BY <1>1 DEF Turns, Recording, Lines, EndsRise, TimelineWhole, LastEnd, vars, Me
<1>5. \A d \in Clients \ {c} : handler'[d] = handler[d]
  BY <1>2 DEF Typed
<1>6. handler'[c] = place
  BY <1>2 DEF Typed
<1>7. gone = {} => \A d \in Clients :
        /\ handler'[d] \in Pending <=> handler[d] \in Pending
        /\ handler[d] = "idle_seen" => handler'[d] = "idle_seen"
  BY <1>2, <1>5, <1>6 DEF Pending
<1>8. gone = {} => \A t : Awaited(t)' = Awaited(t)
  BY <1>1, <1>7 DEF Awaited
<1>9. \A d \in Clients : handler'[d] \in {"respond", "responded"} => job'[d] \in done'
  BY <1>1, <1>2, <1>5, <1>6 DEF Looks
<1>10. Looks'
  BY <1>1, <1>7, <1>8, <1>9 DEF Looks, Returned, SummaryDue, vars, Me
<1> QED BY <1>3, <1>4, <1>10

(* The look whether the scheduler is idle.  If it is not, somebody is left *)
(* who will look later, or the summary counts as missed.                   *)
LEMMA CheckIdleTInv ==
  ASSUME TInv, NEW c \in Clients, CheckIdle(c), Bounded'
  PROVE  TInv'
<1> USE DEF TInv
<1> DEFINE mine  == job[c]
           place == IF active_task_count = 0 THEN "idle_seen" ELSE "recv"
<1>1. /\ UNCHANGED <<vars, timeline, had_preemption, current_slice_start_time, turn,
                     done, gone, torn>>
      /\ handler' = [handler EXCEPT ![c] = place] /\ job' = [job EXCEPT ![c] = NoTask]
      /\ handler[c] = "responded"
      /\ missed' = (missed \/ (task[mine].state \in Live /\ active_task_count = 1))
      /\ Me' = Me
  BY DEF CheckIdle, Goto, summary_vars, vars, Me
<1>2. /\ handler'[c] = place /\ place \notin Pending
      /\ \A d \in Clients \ {c} : handler'[d] = handler[d] /\ job'[d] = job[d]
      /\ mine \in done /\ mine \in Tasks
  BY <1>1 DEF Typed, Pending, Looks
<1>3. Typed'
  BY <1>1 DEF Typed
<1>4. Turns' /\ Lines'
  BY <1>1 DEF Turns, Recording, Lines, EndsRise, TimelineWhole, LastEnd, vars, Me
<1>5. \A d \in Clients : handler'[d] \in {"respond", "responded"} => job'[d] \in done'
  BY <1>1, <1>2 DEF Looks, Pending
<1>6. ASSUME NEW t \in Tasks, t # mine
      PROVE  Awaited(t)' <=> Awaited(t)
  <2>1. NoTask \notin Tasks
    BY SchedulerFacts
  <2>2. \A d \in Clients : (job'[d] = t /\ handler'[d] \in Pending)
                           <=> (job[d] = t /\ handler[d] \in Pending)
    BY <1>1, <1>2, <1>6, <2>1
  <2> QED BY <2>2 DEF Awaited
<1>7. /\ active_task_count = Len(waiting) + (IF Me = NoTask THEN 0 ELSE 1)
      /\ Len(waiting) \in Nat /\ (waiting = <<>> <=> Len(waiting) = 0)
      /\ waiting # <<>> => waiting[1] \in Queued
  BY DEF Bounded, IInv, TypeOK, ActiveCountExact, Me, Queued, Range
<1>8. CASE gone # {}
  BY <1>1, <1>3, <1>4, <1>5, <1>8 DEF Looks
<1>9. CASE gone = {}
  <2>1. task[mine].state \in Ended \/ (mine = Me /\ pc = "returned")
    BY <1>2, <1>9 DEF Looks, Returned
  <2>2. \A t \in Tasks : task[t].state \in Live =>
          Awaited(t)' \/ (Returned(t)' /\ t \in done')
    <3> SUFFICES ASSUME NEW t \in Tasks, task[t].state \in Live
                 PROVE  Awaited(t)' \/ (Returned(t)' /\ t \in done')
      OBVIOUS
    <3>1. CASE t = mine
      <4>1. t = Me /\ pc = "returned"
        BY <2>1, <3>1 DEF Live, Ended
      <4> QED BY <1>1, <1>2, <3>1, <4>1 DEF Returned, vars
    <3>2. CASE t # mine
      <4>1. Awaited(t) \/ (Returned(t) /\ t \in done)
        BY <1>9 DEF Looks
      <4> QED BY <1>1, <1>6, <3>2, <4>1 DEF Returned, vars
    <3> QED BY <3>1, <3>2
  <2>3. ASSUME waiting # <<>>
        PROVE  \E u \in Tasks : u # Me /\ u # mine /\ Awaited(u)
    <3>1. waiting[1] \in Tasks /\ task[waiting[1]].state = "waiting" /\ waiting[1] # Me
      <4>1. waiting[1] \in Queued /\ pc # "destroyed"
        BY <1>7, <2>3 DEF Turns
      <4>2. waiting[1] \in Tasks /\ task[waiting[1]].state = "waiting"
        BY <4>1, SchedulerFacts
      <4>3. waiting[1] # Me
        BY <4>2, SchedulerFacts DEF Me
      <4> QED BY <4>2, <4>3
    <3>2. waiting[1] # mine
      BY <2>1, <3>1 DEF Ended
    <3>3. Awaited(waiting[1])
      BY <1>9, <3>1 DEF Looks, Live, Returned
    <3> QED BY <3>1, <3>2, <3>3
  <2>4. ASSUME SummaryDue, ~missed'
        PROVE  /\ \E d \in Clients : handler'[d] \in Pending \cup {"idle_seen"}
               /\ Me # NoTask /\ ~Awaited(Me) => waiting # <<>>
               /\ mine = Me => waiting # <<>>
    <3>1. Me # NoTask /\ ~Awaited(Me) => waiting # <<>>
      BY <1>1, <1>9, <2>4 DEF Looks
    <3>2. ASSUME mine = Me PROVE waiting # <<>>
      <4>1. task[mine].state \in Live /\ Me # NoTask
        BY <1>2, <3>2, SchedulerFacts DEF Live, Me
      <4>2. active_task_count # 1
        BY <1>1, <2>4, <4>1
      <4> QED BY <1>7, <4>1, <4>2
    <3>3. \E d \in Clients : handler'[d] \in Pending \cup {"idle_seen"}
      <4>1. CASE active_task_count = 0
        BY <1>2, <4>1
      <4>2. ASSUME NEW u \in Tasks, u # mine, Awaited(u)
            PROVE  \E d \in Clients : handler'[d] \in Pending
        <5>1. PICK d \in Clients : job[d] = u /\ handler[d] \in Pending
          BY <4>2 DEF Awaited
        <5>2. d # c
          BY <4>2, <5>1
        <5> QED BY <1>2, <5>1, <5>2
      <4>3. CASE waiting # <<>>
        BY <2>3, <4>2, <4>3
      <4>4. CASE active_task_count # 0 /\ waiting = <<>>
        <5>1. Me # NoTask /\ Me \in Tasks /\ Awaited(Me) /\ Me # mine
          BY <1>7, <3>1, <3>2, <4>4, SchedulerFacts DEF Me
        <5> QED BY <4>2, <5>1
      <4> QED BY <4>1, <4>3, <4>4
    <3> QED BY <3>1, <3>2, <3>3
  <2>5. \A t \in Tasks : t = Me => Me' = t
    BY <1>1
  <2>6. ASSUME SummaryDue, ~missed', Me # NoTask, waiting = <<>>
        PROVE  Awaited(Me)'
    <3>1. Me \in Tasks /\ Me # mine /\ Awaited(Me)
      BY <2>4, <2>6, SchedulerFacts DEF Me
    <3>2. \A t \in Tasks : t = Me => Awaited(t)'
      BY <1>6, <3>1
    <3>3. \A t \in Tasks : t = Me' => (Awaited(t)' => Awaited(Me)')
      BY DEF Awaited
    <3> QED BY <1>1, <3>1, <3>2, <3>3
  <2>7. SummaryDue' = SummaryDue /\ UNCHANGED <<task, waiting, pc, result, done>>
    BY <1>1 DEF SummaryDue, vars
  <2>8. \A t \in done : task[t].state \in Ended
                        \/ (Returned(t)' /\ result \in {"complete", "failed"})
    BY <1>1, <1>9 DEF Looks, Returned, vars
  <2>9. Looks'
    BY <1>1, <1>5, <2>2, <2>4, <2>6, <2>7, <2>8 DEF Looks
  <2> QED BY <1>3, <1>4, <2>9
<1> QED BY <1>8, <1>9

(* print_summary_if_needed leaves no summary due.                          *)
LEMMA PrintTInv ==
  ASSUME TInv, NEW c \in Clients, PrintSummary(c), Bounded'
  PROVE  TInv'
<1> USE DEF TInv
<1>1. /\ UNCHANGED <<vars, turn, done, job, gone>> /\ Me' = Me
      /\ handler' = [handler EXCEPT ![c] = "recv"] /\ handler[c] = "idle_seen"
  BY DEF PrintSummary, Goto, vars, Me
<1>2. \/ UNCHANGED <<timeline, had_preemption, current_slice_start_time, torn, missed>>
         /\ ~SummaryDue
      \/ /\ timeline' = <<>> /\ had_preemption' = FALSE
         /\ current_slice_start_time' = 0
         /\ torn' \in BOOLEAN /\ (~torn' => turn.at # "append") /\ missed' = FALSE
  BY DEF PrintSummary, Reset, summary_vars, history_vars
<1>3. ~SummaryDue'
  BY <1>2 DEF SummaryDue
<1>4. Typed'
  <2>1. handler' \in [Clients -> {"recv", "left", "idle_seen"} \cup Pending]
    BY <1>1 DEF Typed
  <2>2. timeline' \in Seq(Slice) /\ current_slice_start_time' \in Nat
    <3>1. <<>> \in Seq(Slice)
      OBVIOUS
    <3>2. timeline \in Seq(Slice) /\ current_slice_start_time \in Nat
      BY DEF Typed
    <3>3. CASE timeline' = timeline /\ current_slice_start_time' = current_slice_start_time
      BY <3>2, <3>3
    <3>4. CASE timeline' = <<>> /\ current_slice_start_time' = 0
      <4>1. timeline' \in Seq(Slice)
        BY <3>1, <3>4, Zenon
      <4> QED BY <3>4, <4>1
    <3> QED BY <1>2, <3>3, <3>4
  <2>3. had_preemption' \in BOOLEAN /\ torn' \in BOOLEAN /\ missed' \in BOOLEAN
    BY <1>2 DEF Typed
  <2> QED BY <1>1, <2>1, <2>2, <2>3 DEF Typed
<1>5. Turns'
  BY <1>1 DEF Turns, Recording, vars, Me
<1>6. Lines'
  <2>1. CASE UNCHANGED <<timeline, current_slice_start_time, torn>>
    BY <1>1, <2>1 DEF Lines, EndsRise, TimelineWhole, LastEnd
  <2>2. CASE /\ timeline' = <<>> /\ current_slice_start_time' = 0
             /\ (~torn' => turn.at # "append")
    <3>1. LastEnd' = 0 /\ DOMAIN timeline' = {}
      BY <2>2 DEF LastEnd
    <3> QED BY <1>1, <2>2, <3>1 DEF Lines, EndsRise, TimelineWhole
  <2> QED BY <1>2, <2>1, <2>2
<1>7. handler'[c] = "recv" /\ \A d \in Clients \ {c} : handler'[d] = handler[d]
  BY <1>1 DEF Typed
<1>8. \A t : Awaited(t)' = Awaited(t)
  BY <1>1, <1>7 DEF Awaited, Pending
<1>9. \A d \in Clients : handler'[d] \in {"respond", "responded"} => job'[d] \in done'
  BY <1>1, <1>7 DEF Looks
<1>10. Looks'
  BY <1>1, <1>3, <1>8, <1>9 DEF Looks, Returned, vars
<1> QED BY <1>4, <1>5, <1>6, <1>10

-----------------------------------------------------------------------------
LEMMA NextTInv == TInv /\ [TimelineNext]_timeline_vars => TInv'
<1> SUFFICES ASSUME TInv, [TimelineNext]_timeline_vars PROVE TInv'
  OBVIOUS
<1>1. Bounded'
  BY NextBounded
<1>2. CASE ThreadStep
  BY <1>1, <1>2, ThreadTInv
<1>3. CASE TurnStep
  BY <1>1, <1>3, PlayStep, AdvanceStep, AppendStep, ReturnStep DEF TurnStep
<1>4. ASSUME NEW c \in Clients, Handler(c) \/ HangUp(c)
      PROVE  TInv'
  BY <1>1, <1>4, GoneTInv, AnswerTInv, CheckIdleTInv, PrintTInv DEF Handler
<1>5. ASSUME NEW c \in Clients, NEW type \in Types, NEW burst \in Nat,
             RecvCommand(c, type, burst)
      PROVE  TInv'
  BY <1>1, <1>5, RecvCommandTInv
<1>6. "program" \in Types /\ "shell" \in Types /\ 1..MaxBurst \subseteq Nat /\ 0 \in Nat
  BY SchedulerAssumption DEF SchedulerAssumption, Types
<1>7. CASE UNCHANGED timeline_vars
  <2>1. UNCHANGED <<vars, timeline, had_preemption, current_slice_start_time, turn, done,
                    handler, job, gone, torn, missed>>
    BY <1>7 DEF timeline_vars, summary_vars, handler_vars, history_vars
  <2> QED BY <1>1, <2>1 DEF TInv, Typed, Turns, Lines, Looks, EndsRise, TimelineWhole,
          LastEnd, Awaited, Returned, SummaryDue, vars, Me
<1> QED BY <1>2, <1>3, <1>4, <1>5, <1>6, <1>7 DEF TimelineNext

LEMMA TimelineInvariance == TimelineSpec => []TInv
<1>1. TimelineInit => TInv
  BY InitTInv
<1>2. TInv /\ [TimelineNext]_timeline_vars => TInv'
  BY NextTInv
<1> QED BY <1>1, <1>2, PTL DEF TimelineSpec

(* The executor that records turns and the handlers that print them use    *)
(* the scheduler as its model allows: its theorems hold here.              *)
THEOREM TimelineIsUser == TimelineSpec => TimelineUsesScheduler
<1>1. TimelineInit => Init
  BY DEF TimelineInit
<1>2. TInv /\ [TimelineNext]_timeline_vars => [Next]_vars
  BY TimelineUses
<1> QED BY <1>1, <1>2, TimelineInvariance, PTL
        DEF TimelineSpec, TimelineUsesScheduler, Spec

(* Ends rise along the line and none lies ahead of the clock, for lines of *)
(* any length, unless a summary was printed between the two critical       *)
(* sections that record a turn.                                            *)
THEOREM LineRises == TimelineSpec => []EndsRise
<1>1. TInv => EndsRise
  BY DEF TInv, Lines
<1> QED BY <1>1, TimelineInvariance, PTL

(* No turn is missing from a line that has room, while no client has gone. *)
THEOREM LineIsWhole == TimelineSpec => []TimelineWhole
<1>1. TInv => TimelineWhole
  BY DEF TInv, Lines
<1> QED BY <1>1, TimelineInvariance, PTL

(* At rest a summary that was due has been printed, unless the last        *)
(* handler looked before its own task was finalized or a client has gone.  *)
THEOREM SummaryIsPrinted == TimelineSpec => []SummaryPrinted
<1>1. TInv => SummaryPrinted
  BY DEF TInv, Looks, SummaryPrinted, AtRest, Pending
<1> QED BY <1>1, TimelineInvariance, PTL
=============================================================================
