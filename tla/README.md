# UNIX-Shell-Clone in TLA+

A model of the scheduler-driven shell server of this repository, checked with
TLC and, where it can be, proved with TLAPS.  Paths are relative to the
repository root (`src/server.c` is the server program).

## 1. The system

| component | source | state | operations |
|---|---|---|---|
| scheduler core | `src/scheduler.c`, `include/scheduler.h` | waiting list, current task, task count, signal count, stop flag, task records | create, submit, cancel a client's tasks, poll preempt/cancel, request stop, join, destroy; the scheduler thread: wait, dispatch, re-queue, finalise, exit |
| test harness | `src/scheduler_test.c` | loop counter of the fake executor, position of main | fake executor, three submissions, wait until idle, stop |
| connection handlers | `src/server.c` 1329-1508 | position in `handle_client`, descriptor, the context it waits for | receive, submit, wait with time-out, respond, release, close |
| program executor, TaskContext | `src/server.c` 36-57, 555-843, 922-1243 | reference count, done flag and answer, child pid, running flag, pipe, socket | start, stop, continue, terminate, reap, drain, set done, release |
| timeline and summary | `src/server.c` 309-324, 1174-1202, 1386-1390 | slices, clock, had_preemption | append, print when idle |
| commands to argv | `src/server.c` 332-548 | none | classify, split |
| client | `src/client.c` | socket | one command, then packets up to the final one |
| demo program | `src/demo.c` | counter | print N+1 lines |
| local shell, capture | `src/main.c`, `src/shell_core.c` | none between lines | parse, execute, capture output through a pipe and a child |
| parser | `src/parser.c` | none between lines | tokenize, split at pipes, redirections, checks |
| pipelines, single commands | `src/pipes.c`, `src/exec.c` | descriptors, children | fork, dup2, close, exec, wait |

How they interact.  Each connection has a thread (`handle_client`).  It turns a
command into a `Task` with a `TaskContext`, submits it, and waits on the
context until `done`, waking every 100 ms to see whether its client has gone.
One scheduler thread dispatches one task at a time and calls the executor
outside the mutex.  The executor runs a shell command to its end, or lets a
child process run for a quantum of one-second units: it drains the child's pipe
to the client's socket, lowers `remaining_burst`, reaps, polls for cancellation
and preemption, and stops the child with SIGSTOP at the end of the round.
Handler and scheduler share the context by a reference count of two; the
cleanup callback of the scheduler gives back the second reference.

What is hard here: the condition variable with its own signal count;
cancellation racing with dispatch, re-queueing and completion; flags polled
without or with the mutex; a context that two threads release in any order;
children that must be stopped, continued and reaped in step with the rounds;
sockets that break, and descriptors whose numbers are reused, while the
executor streams.  `PROJECT.json` lists each hazard at its line.

What makes each part correct:

* scheduler: the list holds exactly the waiting tasks; counts are exact; no
  wake-up is lost; one task runs; shell commands go first and make a program
  give way; cancelled tasks do not come back; the thread ends drained;
* server: contexts are counted right, children never outlive their context,
  run only in their rounds, answers come after all output, every command is
  answered, a client that goes takes its programs with it and harms no other;
* timeline: ends that rise, no turn missing up to its bound, printed once the
  system is idle;
* session: every command gets the answer that belongs to it;
* parser: reads a line as its grammar says, rejects what is incomplete;
* pipelines and single commands: every descriptor closed, every child reaped,
  also on failure; lines run in order; a captured answer is complete; nobody
  waits on a pipe that somebody forgot to close.

## 2. The modules

| module | models | extends |
|---|---|---|
| `TaskPool` | what the scheduler promises: a set of tasks, one runs, chosen by the policy | |
| `Scheduler` | `scheduler.c`, one action per critical section | |
| `SchedulerProofs` | invariants of `Scheduler`, and that it implements `TaskPool`, proved | `Scheduler` |
| `WaitQueue` | the waiting list with its pointers and loops, as a refinement of `Scheduler` | `Scheduler` |
| `WaitQueueProofs` | that the pointers are the list and the loops implement `Scheduler`, proved | `WaitQueue`, `SchedulerProofs` |
| `SchedulerTest` | `scheduler_test.c` plugged into `Scheduler` | `Scheduler` |
| `SchedulerTestProofs` | invariants of `SchedulerTest`, proved | `SchedulerTest`, `SchedulerProofs` |
| `Server` | handlers, contexts, executor, children, sockets plugged into `Scheduler` | `Scheduler` |
| `ServerProofs` | invariants of `Server`, and that it uses `Scheduler` as modelled, proved | `Server`, `SchedulerProofs` |
| `Timeline` | the clock, the slices and the summary of `server.c`, with the executor's turns and the handlers that print, plugged into `Scheduler` | `Scheduler` |
| `TimelineProofs` | invariants of `Timeline`, proved | `Timeline`, `SchedulerProofs` |
| `Pipeline` | `pipes.c` and `exec.c`: forks, pipes, descriptors, children, waiting | |
| `Shell` | `main.c` and `shell_core.c` around it: the loop over lines, stdio's read-ahead, the capture of output | `Pipeline` |
| `ShellProofs` | invariants of `Shell`, proved | `Shell` |
| `Symbols` | what typed lines are made of | |
| `Parser` | `parser.c` as functions on sequences of symbols, and the grammar it is compared with | `Symbols` |
| `Session` | a client and its handler, from the typed line to the task | `Symbols` |
| `SessionProofs` | invariants of `Session`, proved | `Session` |
| `ShellCommand` | what the parser makes of the shell commands of a session | `Session`, `Parser` |
| `ParserProofs` | that the parser reads every line as the grammar does, proved | `ShellCommand`, `SessionProofs` |
| `MC...` | instances for TLC | |

**Scheduler.**  `task` is the array of records by `task_id`; `arrival_order`
advances with `next_task_id`, so the id stands for both.  `waiting` is the
linked list as a sequence.  `pc` says where the scheduler thread is: about to
lock, in `pthread_cond_wait`, inside the executor, or back from it and not yet
holding the mutex.  The other variables have the names of the fields.  Every
critical section is one action: `Submit`, `CancelClient` (with the cleanup of
what it unlinked, which nobody else can reach), `RequestStop`,
`JoinAndDestroy`; `WaitForSignal`, `SpuriousWakeup`, `Exit`,
`NothingToDispatch`, `Dispatch`, `Requeue`, `Finalize`.  A pass of the thread
from the lock to the unlock is one action, so `Dispatch` contains the check of
the count, its decrement, the choice, the unlinking and the flags.  The
executor is the most general one: it may lower the burst of a program and
return anything, so that whatever holds holds for every executor.  The record
of a task that is over is blanked, since the code frees it.
`rounds_completed` is kept as 0 or 1, all the code asks of it.

The choice among programs is written as what `choose_shortest_program_locked`
returns (`Shortest`, `ShortestProgram`), unlinking as what the list is
afterwards (`Unlink`).

**WaitQueue** keeps the list as the code does: `waiting_head`, `waiting_tail`,
a `next` pointer per task, and `walk`, the local variables of whichever loop
holds the mutex.  A dispatch is the search for a shell task and, if there is
none, the search for the best and the second-best program, one pass of the loop
per step, then the cut; a cancellation moves tasks to `to_free` one by one and
then frees them; the tear-down frees from the head.  While a loop runs nobody
else may take the mutex.  No choice in the module looks at the sequence
`waiting`, which is only carried along as what the pointers should represent:
`ListIsQueue` and `CancelPartitions` say that they do, and
`ImplementsScheduler` that every behaviour is one of `Scheduler`, so that the
loops pick, remove and free what the operators of `Scheduler` say.

**Server.**  `handler` is the place of each thread in `handle_client`; `job`
the task whose context it holds; `ctx` the contexts; `proc` the children as the
kernel sees them, with what is in their pipe; `conn` and `fd_conn` the
connections and the descriptor table.  `executor_at` and `slice` are where
`execute_program_task` is.  Each handler action lies between two calls that
other threads can interleave with.  `CheckDone`, `WaitAgain` and `WaitClosed`
are the three ways through the loop of `wait_for_task`; note that `done` is not
looked at again after the socket is found closed.  `SubmitReturns` models the
read of `task->task_id` after the mutex has been unlocked: if the task has been
freed meanwhile, the value is arbitrary, and negative ones make the handler
hang up on a client that may still be there (place `hanging_up`).  `Sends` says what a send to a connection can do: succeed, fail, or
raise SIGPIPE, which ends the process (`up`); a peer that closed in good order
takes one packet before that.  `Connect` may hand out any free descriptor.
The scheduler's actions are those of `Scheduler`, conjoined with what they do
to the contexts (`Finalize` and `CancelClient` release); `ServerUsesScheduler`
checks that what results is a behaviour of `Scheduler`, so the theorems about
it apply to the server.

**SchedulerTest** uses the three tasks, bursts and quanta of the harness.  The
sleeps that order its submissions are dropped, every timing is allowed.

**Timeline** has the three variables under `counter_mutex`, and of the server
what decides when they are touched: `turn` walks through
`execute_program_task` with its two critical sections (clock, then slice), and
`handler` through waiting, responding, `scheduler_has_active_work` and
`print_summary_if_needed`, which are two more.  All the ways a turn can end
(cancelled, completed, preempted, failed drains) set the clock, the slice and
`had_preemption` as the code does.  A handler that hangs up after
`scheduler_submit_task` (see `Server`) is taken for one whose client went, which
the properties except: its task is over and it does not look at the summary.  Two history variables name the windows in
which the summary comes out wrong or not at all: `torn`, when a summary was
printed between clock and slice of a turn, and `missed`, when the last handler
looked before its own task was finalised.  The properties hold outside these.

**Pipeline and Shell.**  `sh` is the process that runs the shell's code and
where it is: forking a single command, waiting, forking the stages of a
pipeline, closing the parent's ends, reaping.  `proc` are its children with
their standard streams and the descriptors they have inherited, `pipe` how full
each pipe is.  A child first connects its streams, applies redirections and
closes, in the order of the code, then is its program, which reads to the end
or not at all and writes some chunks.  A reader sees the end of a pipe only when
no process holds the write end, a writer without readers is killed, a full
pipe blocks.  fork, pipe, open, read and exec fail.  In `Shell` the local shell
reads its lines from a file, a pipe or a terminal; stdio's read-ahead is
`unread` and the shared position of the file is `script.offset`, since a child
that leaves with `exit` moves it.  `caller` is the server's executor in
`shell_execute_line_capture`, with the process it forks as `sh`.

**Parser and Session.**  A line is a sequence of symbols: blank, bar, the three
operators' characters, the two quotes, the backslash, the digits 0 and 2, and letters or whole
words that need not be told apart.  `ParseLine` follows `parse_line`: the cut at
bars, the tokenizer with its quote states, the checks and the ones that are
deferred to later parts.  `Documented` is the grammar the comments describe,
written without a scanner: which quoting mode each symbol is in, where words
begin and end, which words are files.  `Session` sends typed lines through
`client.c`'s main loop, the terminated frames of `recv_command` with its buffer
of 1024 (here `BufferSize`), the tests for `exit`, demo and program, `strtol` with its greatest value,
the cut to int and the choice of burst, and the packets back through
`receive_response`.  `DemoLines` is what `demo.c` does with the arguments it is
given: it refuses all but one, and counts from 0 through it.  `handler` walks
through `handle_client`: the result of `scheduler_submit_task` is read after the
task was submitted (`SubmitReturns`), and if the task is over by then it may be
negative, so that the handler hangs up (place `hung_up`).  A task may end
with its context done, or be lost as in finding 1, or never end: when it is done
is a matter of `Server`.

Definitions named `...Faulty` (and `ParentClosesLeaky`) are slips that could be
made at that place of the code; each property is checked to be violated when
one of them takes the place of the definition after it.

## 3. The runs

| run | instance | states | what it shows |
|---|---|---|---|
| `scheduler` | 2 clients, 3 tasks, bursts 1 and 2 | 619 thousand | all safety properties of the scheduler and of its list; `ExitDrained`; `ShellIsDispatched`; the pointers refine `Scheduler`, and that `TaskPool` with its fairness |
| `harness` | 3 tasks of the harness, quanta 3 and 7 | 1254 | the shell command waits for at most one more unit, everything finishes, main returns |
| `server` | 2 connections, 2 tasks, bursts 1-2, quanta 1 and 2, 2 descriptors, at most one chunk of output in a pipe of one | 1.3 million up to symmetry | contexts, children, answers, restarts; the server is a user of `Scheduler` |
| `server_live` | one client with programs, one with shell commands, bursts 1-2, quanta 1, at most one chunk of output, drains that fail | 463 thousand | `ShellAnswered`, `ChildrenOfTheGoneEnd` |
| `timeline` | 2 clients, 2 tasks, bursts 1-2, quanta 1 and 2, 2 slices, clock up to 5 | 1.2 million up to symmetry | ends rise, no turn is missing, the summary is printed, outside the windows named above |
| `shell` | 12 kinds of line, alone under capture, or among up to three lines from a file, a pipe or a terminal; 3 processes, 3 pipes of one chunk, 2 failing calls | 53 thousand | the prompt is clean, pipelines reap their own, lines run in order, captured answers are complete, nothing blocks for ever |
| `session` | every line of up to 5 of 10 symbols and up to 6 of 5, programs and demos with arguments of up to 5, every session of up to 3 of 8 lines around the length of the buffer | 1.7 million | answers stay in step, every command is answered outside the named exceptions, lines parse as documented, bursts are what demos count to |
| `lost_done` | as `server` | | finding 1 |
| `stray_output` | as `server` | | finding 2 |
| `sigpipe` | as `server` | | finding 3 |
| `blocked_child` | as `server`, two chunks of output | | finding 4 |
| `rerun` | as `shell` | | finding 5 |

Bounds.  Named constants bound what is unbounded: `MaxTasks`, `MaxBurst`,
`MaxOutput`, `PipeSize`, `MaxClock`, `MaxFailures`, and in the MC modules
`MaxLine`, `MaxPlain`.  Three tasks are the least with which the fairness rule
has a choice, the list has a middle, and a client can have a task running and
one queued or two queued.  Bursts matter by comparison only; the two
are 1 and the default of 2.  In the server a client has one task at a
time; two tasks give a program and a shell command, two programs that
alternate, and a program that is resumed in its second round (burst 2, first
quantum 1).  Two descriptors are enough to reuse one.  Two slices are enough to
fill the line and to have one before another, a clock of 5 to restart it after
a summary.  A pipeline of three has a first, a middle and a last stage; a pipe
that holds one chunk fills when a program prints two; two failures are enough
to give up one pipeline and disturb the next line.  A buffer of nine symbols
has lines below, at and above its limit; integers of six bits overflow with
the numbers that can be typed in it; four tokens are more than a line of five
symbols needs.  `server_live` restricts only what clients do, never what the
server does.  `CHECK_DEADLOCK FALSE` stands where a system may stop: after the
tear-down, when all connections have come and gone, when a script or a session
has come to its end.

Fairness.  The scheduler thread runs whenever mutex and condition variable let
it (weak fairness of its actions together, since it is one thread), and an
executor returns.  In the server the executor's steps are part of that thread;
each handler thread runs; a child that is not stopped runs and ends.  Clients
owe nothing: they may stay silent or leave.  A handler that sits in `recv` or
`wait_for_task` is woken by the end of its connection or by the time-out.
In `WaitQueue` the mutex is taken for several steps, so that "whenever the
mutex lets it" is strong fairness.  In `Shell` the shell, the executor and each
child run; a user at a terminal need not type, and commands that wait for one
are excepted.  In `Session` the client and the handler run; the user need not
type, and no task need ever be done.  That a shell command's is, is
`ShellAnswered`; a program's need not be (finding 1), so `LineAnswered` says of
its client that it waits as long as its handler does.
Programs that never end, or that block on a full pipe (finding 4), would hold
the scheduler thread for ever, so the liveness run has programs that end and
fit into the pipe.

Findings (runs that end in a violation):

1. `FinishedIsDone`: a preemption request in the last unit of a burst
   (`server.c:1075`) makes the executor return REQUEUE with no burst left; the
   scheduler finalises the task as finished and nobody is told.  The client
   waits until it gives up.
2. `OutputGoesToItsClient`: after the handler closed its descriptor
   (`server.c:1505`) the executor may still stream to its number.
3. `SurvivesDisconnection`: SIGPIPE is neither ignored nor blocked.
4. `NoWaitOnBlockedChild`: the blocking `waitpid` after the burst
   (`server.c:1136`) can wait for a child that waits for the pipe to be read.
5. `EachLineOnce`: a child of `run_command_basic` that cannot start its program
   leaves with `exit` (`exec.c:170`), which sets the shared read position back
   to what the child's copy of stdio has not consumed: a local shell that reads
   its commands from a file runs lines again.

Observations on the way, which hold of the model and are exceptions named in a
property:

* a drain that fails in the loop kills the child, sets `done` and returns
  REQUEUE (`server.c:1024-1038`): the task is answered and queued at once, and
  its program is started from the beginning in the next round, unless the
  handler has cancelled it by then (`RestartsOnlyForTheGone`);
* `demo N` prints N+1 lines in N+1 seconds, not the N of `README.md:77` that
  the server takes for its burst (`BurstIsCount`); the last second is spent in the
  blocking `waitpid` of finding 4, where no request is polled for;
* a handler that reads the result of `scheduler_submit_task` from a freed record
  may hang up on a client that is there (`ShellAnswered`, `LineAnswered`);
* `demo N x` keeps its third word, gets the burst N, and the demo ends with its
  usage; an N whose int is not positive counts to 0 at most but gets the default
  burst, and is not streamed if it is 0 or negative (`BurstIsCount`);
* an empty line ends a remote session (`server.c:1406`: `recv_command` returns
  0), although `client.c` goes on after it and the parser would prompt again
  (`LineAnswered`);
* a command that fills the buffer leaves its terminator in the stream, which
  then reads as an empty command (`LineAnswered`);
* a summary can be missed because the last task is finalised only after its
  client was answered, or torn by a turn that is being recorded
  (`SummaryPrinted`, `EndsRise`);
* operators need blanks around them, are operators in quotes too, and bars
  separate commands also inside quotes, in the code as in `Documented`:
  `ParsesAsDocumented` compares everything but these two, on which the documents
  are silent, and cannot object to either;
* the comment over `shell_execute_line_capture` speaks of a temporary file;
  the code uses a pipe that it reads while the command runs, which
  `CommandReturns` shows to be enough.

## 4. What is proved

`SchedulerProofs` proves, for every set of clients, every number of tasks, every
burst and every pair of quanta allowed by `SchedulerAssumption`, the invariants
of the scheduler (those about the pointers of the list follow below) and
`ExitDrained`.

The argument.  None of the invariants is inductive alone.  `SignalsCoverQueue`
survives the exit of the thread only because `ActiveCountExact` makes the list
empty then; `ActiveCountExact` needs that each task is linked once
(`QueueHoldsWaitingTasks`), since it counts list positions; that needs
`OneTaskRuns`, so that a re-queued task is not on the list already; submitting
needs `Bookkeeping`, by which the next id names an unused record.  `IInv` is
their conjunction.  `InitIInv` and `NextIInv` show it inductive, with one lemma
per action or group of actions (`PlaceStep`, `SubmitStep`, `CancelStep`,
`DispatchStep`, `ExecutorStep`, `RequeueStep`, `FinalizeStep`, `DestroyStep`).
Under them lie three facts about lists: `InjectiveLength` (a list without
repetitions is as long as its set), `UnlinkLeaves` and `UnlinkOne` (what
unlinking leaves), `AppendLeaves`.

Its second half proves `SchedulerIsPool`: under the mapping `Pool` every
behaviour of `Scheduler` is one of `TaskPool`, so the policy, the promise that a
cancelled task never waits again and the promise that the pool stops only when
it is empty hold for all values of the constants.  The mapping needs three facts
that `IInv` does not give (`RInv`): a shell task has no burst left, or the
thread could re-queue one, which `Yield` followed by `Start` would then order by
id and the list by position; a cancellation is pending only on the running task,
which is what `doomed` means; and shell tasks are listed in the order of their
ids, so that the first of the list is the oldest of the set (`DispatchIsBest`).
One `...Simulation` lemma per action says which step of the pool it is;
`NextSimulation` combines them.

`WaitQueueProofs` proves the same of the list as the code keeps it, for lists of
any length: the pointers are the list (`PointersAreTheList`), a cancellation
loses and doubles no task (`CancellationPartitions`), and every behaviour of the
loops is one of `Scheduler` (`ListIsScheduler`), so that all of the above holds
of them.

The argument.  The properties speak of the list between loops or of the sum of
its parts; what the loops maintain is where they are.  `WInv` adds to `IInv`,
for each loop, that its cursor and the task behind it are neighbours at some
position k, and what is known of the positions before k: they hold no shell task
(`Searching`); `best` and `best_alt` are the least two of the programs there,
each with its predecessor (`Ranking`); they were kept, while what was removed was
linked earlier than all that is still to be looked at and hangs on `to_free`
(`Cancelling`); they are freed (`Destroying`).  Without the predecessors the cut
could unlink a neighbour; without the order of removal the list at the end would
be a permutation of what `Unlink` says.  Since `Scheduler` says what unlinking
leaves by its properties, the refinement also needs that only one list has them
(`UnlinkUnique`): two such lists would differ at a first position, where one of
the two would have its tasks out of order.  `CutLinks` and `LinkLinks` are the
two surgeries, removing at a position and linking at the tail.

`ShellProofs` proves, for all scripts, any number of processes and pipes and
any number of failing calls, the four invariants of the `shell` run and
`LinesInOrder`.

The argument.  `PromptIsClean` speaks of the prompt only; what makes it true is
`Clean`, which says at each place of the shell which ends it holds (the read end
from the previous stage, both ends of the next pipe) and that unreaped children
are among the process ids it still has to wait for, as long as no pipeline was
given up.  `PipelineReaped` needs in `Placed` that the stages waited for so far
are gone.  `CaptureComplete` is the hard one: at the end of the output nobody
holds a write end, and it must stay so although children that outlive the
captured shell may still be between fork and exec.  `NobodyWrites` says that
none of them can come to write to the capture pipe: neither its output nor any
descriptor it holds leads there, and since the shell has ended no child will be
forked.  A forked child whose output will be the next pipe already holds its
write end (`ForkedHasEnds`), which is why looking at the descriptors is enough,
and `Captured` ties the pipe that is read to the shell's standard output.
`IInv` is the conjunction; one lemma per action of the shell and its caller
shows it kept, and the children share one (`ChildFrame`, `ChildStep`), since
what all their steps leave alone is most of the invariant.  `LinesInOrder`
follows from `InPosition`: until a child moves it, the read position is just
behind the line that runs, or everything was read ahead and `unread` counts the
rest.

`ServerProofs` proves, for every set of connections and descriptors, every
number of tasks and chunks of output and every size of a pipe, the safety
properties of the `server` run.  `ServerIsUser` comes first: each step of the
server is a step of `Scheduler` or changes nothing there, so what is proved of
the scheduler holds inside the server.  It needs a bound on `remaining_burst`
(`Bounded`), because `Scheduler` lets its executor leave only burst up to the
largest a caller can ask for.

The argument.  `ContextCounted` follows from `Counted`, which counts owners
instead of summing over connections: the scheduler while the task is alive, and
a handler.  At most one handler holds a task, and only between its submission
and its answer (`Jobs`); a release therefore meets a count of one or two, never
zero (`ReleaseFacts`), whichever thread comes first.  `PidNamesChild` survives
the release by the scheduler's cleanup and by a handler that hangs up because a
freed context has no child (the second part of `Counted`); and a child that is
started must be the task's first, which `Children` says.  `ChildRunsInItsRound`
needs the place of the executor: a child runs only while it is inside
`execute_program_task` and before its end (`Rounds`), so that each `Return` has
to prove that it left no running child, and `Finish` that the child was reaped
with nothing left to print.  `AnswerFollowsOutput` needs `Outputs`: once `done`
is set with output the round is over and nobody can start another child for the
task, since a re-queued task never has it.  `SInv` is the conjunction.  Steps
that leave tasks, contexts and children alone are one lemma (`QuietStep`), as
are the two hang-ups (`HangUpStep`) and the two ways to give a reference back
(`GiveBackStep`); the eleven steps of a round share `RoundStep`, which says what
a context and a child must look like after any of them.

`TimelineProofs` proves, for every set of clients, every number of tasks, every
burst and length of the line, the safety properties of the `timeline` run.  As
for the server, `TimelineIsUser` comes first.

The argument.  `EndsRise` and `TimelineWhole` need what the thread carries
between its two critical sections (`Lines`): the slice about to be appended ends
at the clock and behind every other, unless a summary reset the clock in between
(`torn`).  `SummaryPrinted` speaks of rest; what leads there is `Looks`: while no
client has gone, each live task has a handler that will still look whether the
scheduler is idle, except the task whose handler looked in the gap between its
answer and `finalize_task`; then something else is queued, whose handler will
look, or the summary is one of the missed.

`SchedulerTestProofs` proves, for every pair of quanta and every timing of the
harness's threads, the safety properties of the `harness` run;
`HarnessIsUser` makes what is proved of the scheduler hold in it.

The argument.  `ShellRunsNext` counts the units that run while the shell command
waits.  The count is at most one because of `OnlyOneUnit`: a unit that begins
while it waits is the unit that was already under way, since from its submission
on the running program is asked to give way and the fake executor looks after
each unit; `InRound` says where in its loop the executor can be, and `InOrder`
which tasks main has submitted by then.  `NothingLeftUndone` needs `NothingFails`:
no task ends but by having used up its burst, for nobody cancels.

`SessionProofs` proves, for every size of the buffer, every width of an int and
whatever is typed, that answers stay in step with commands, that a client gives
up only for one of the three named reasons (`FailsForAReason`, the safety half of
`LineAnswered`), that the two sides never both wait (`NeverBothWait`), and that
the burst of a demo is what it counts to.

The argument.  `AnswersInStep` looks at the moment of receiving; what keeps the
sides in step is what can be on the wire, place by place (`SInv`).  A client
that is not waiting has nothing on the way but the terminator a command that
filled the buffer left (`Quiet`, `Rest`); one that waits has its command on the
wire, behind such a terminator or not (`OnTheWire`), or in the hands of the
server (`InHand`); the packets on the way are all about it, progress first and
one final answer, after which the handler receives again (`Replies`).  What is
received is then either the whole last command or nothing (`ReceivedFacts`), and
nothing ends the session (`Closing`).  A handler has a task just while it is
`Busy` or has hung up, and then the task is over (`Engaged`): so a client that is
hung up on has lost the race with its own task.  `BurstIsCount` follows from what
`Split`, `Counted` and `Cast` return (`WordsOfText`, `DemoCounts`, `CastKeeps`)
and from the value of a text of digits being a number (`NumberRead`), which is a
loop and needs the induction of `Passes`.

`ParserProofs` proves `ParsesAsDocumented` for lines of any length over any
symbols: whatever shell command reaches the server, if it is in scope (its quotes
match), `ParseLine` answers what `Documented` does.

The argument.  The code reads from left to right with three nested loops;
`Documented` says of the whole line at once which symbols are quoted, where
words begin and end, and which words are arguments and files.  Each loop gets the
invariant that relates the two.  In a word (`Scanning`) the scan is in the mode of
the line and has in its buffer what the symbols so far amount to, but for two
places: in double quotes it keeps a backslash before it has looked at what the
backslash escapes (`Ahead`), and at the end of the line it drops one that escapes
nothing (`Cut`).  So it ends just behind the word, with the word (`ScanWord`), and
the next token is the next word (`TokenAt`).  In a segment the command so far is
the command of the words so far, none of which is an operator that still waits for
its file (`AfterWords`, `Closed`): otherwise the word to come could be taken for an
argument (`ArgumentAdded`, `FileAdded`).  Over the segments, a deferred check
remembers that one of them is not well-formed (`ParseSegmentsFacts`).  Since every
pass takes at least a symbol or a word, as many passes as there are symbols are
enough.  Under them lie three facts the library lacks: `Passes` (a loop of n passes
has a run, by induction over the passes), `AscendingFacts` (a set of numbers,
listed) and `FlattenFacts`.

Only model-checked: `RestartsOnlyForTheGone`, which would need an invariant on
descriptors; the fairness half of `ImplementsPool`; and all liveness
(`ShellIsDispatched`, `HarnessCompletes`, `ShellAnswered`, `ChildrenOfTheGoneEnd`,
`CommandReturns`, `LineAnswered`), which needs ENABLED and is out of the prover's
reach.

## 5. What is not modelled

* running out of memory, failures of `fcntl`, `dup2`, `pthread_*` and `kill`;
* the overflow of `next_task_id` and of the signal count;
* several commands sent ahead by one client: `client.c` never does it;
* partial sends and set-up of the sockets;
* logging, the text of the summary (cut at 1024 bytes) and of messages;
* in the parser, parts with more arguments than `MAX_TOKENS`, where the code
  writes beyond its array, and what a part with an unmatched quote should mean;
* in the shell, standard error, lines longer than the buffer of `fgets`, and
  what commands print (only how much, and to where);
* that a child inherits the server's descriptors other than its pipes.

## 6. Plan

Done: `TaskPool`, `Scheduler`, `WaitQueue`, `SchedulerTest`, `Server`,
`Timeline`, `Pipeline`, `Shell`, `Parser`, `Session`, and the proofs listed
above.  What is left:

* an abstract specification of the server, one answer per command, which
  `Server` and `Session` both implement;
* a client that sends several commands ahead, for clients other than `client.c`;
* the writes of the parser beyond `MAX_TOKENS` arguments.
