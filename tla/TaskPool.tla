------------------------------- MODULE TaskPool -------------------------------
(***************************************************************************)
(* What the scheduler promises to those who submit tasks, without its list, *)
(* its counters and its condition variable: tasks wait in a set, one at a   *)
(* time runs, chosen by the policy the comments of src/src/scheduler.c      *)
(* state, and a task that is cancelled never waits again.                   *)
(***************************************************************************)
EXTENDS Integers

CONSTANTS
  Clients,    \* who submits
  MaxTasks,   \* bound: how many tasks are submitted
  Bursts,     \* what a program can be submitted with
  NoClient    \* whose the tasks are that are not in the pool

VARIABLES
  status,   \* where each task is in its life
  owner,    \* the client that submitted it
  kind,     \* "shell" or "program"
  left,     \* the burst that is left
  doomed,   \* running tasks whose client has cancelled them
  last,     \* the task selected last
  open      \* FALSE once the pool has stopped for good

vars == <<status, owner, kind, left, doomed, last, open>>

Tasks   == 1..MaxTasks
Waiting == { t \in Tasks : status[t] = "waiting" }
Running == { t \in Tasks : status[t] = "running" }

Init ==
  /\ status = [t \in Tasks |-> "unsubmitted"]
  /\ owner = [t \in Tasks |-> NoClient]
  /\ kind = [t \in Tasks |-> "shell"]
  /\ left = [t \in Tasks |-> -1]
  /\ doomed = {}
  /\ last = -1
  /\ open = TRUE

(* Tasks are numbered in the order of their submission.                    *)
Submit(t) ==
  /\ status[t] = "unsubmitted"
  /\ \A u \in Tasks : u < t => status[u] # "unsubmitted"
  /\ status' = [status EXCEPT ![t] = "waiting"]
  /\ \E c \in Clients : owner' = [owner EXCEPT ![t] = c]
  /\ \/ /\ kind' = [kind EXCEPT ![t] = "shell"]
        /\ left' = [left EXCEPT ![t] = -1]
     \/ /\ kind' = [kind EXCEPT ![t] = "program"]
        /\ \E burst \in Bursts : left' = [left EXCEPT ![t] = burst]
  /\ UNCHANGED <<doomed, last, open>>

(* Shell commands first, in the order they came; then the program with the *)
(* least burst left, the older of two equals, but not the one that was     *)
(* selected last as long as another one waits.                             *)
Shells == { t \in Waiting : kind[t] = "shell" }

Candidates ==
  IF Shells # {} THEN Shells
  ELSE IF Waiting = {last} THEN Waiting ELSE Waiting \ {last}

Better(t, u) ==
  IF kind[t] = "shell" THEN t < u
  ELSE left[t] < left[u] \/ (left[t] = left[u] /\ t < u)

Start(t) ==
  /\ open
  /\ Running = {}
  /\ t \in Candidates
  /\ \A u \in Candidates \ {t} : Better(t, u)
  /\ status' = [status EXCEPT ![t] = "running"]
  /\ last' = t
  /\ UNCHANGED <<owner, kind, left, doomed, open>>

Work(t) ==
  /\ t \in Running
  /\ kind[t] = "program"
  /\ \E burst \in 0..left[t] : left' = [left EXCEPT ![t] = burst]
  /\ UNCHANGED <<status, owner, kind, doomed, last, open>>

(* Only a program with burst left goes back to wait.                       *)
Yield(t) ==
  /\ t \in Running \ doomed
  /\ left[t] > 0
  /\ status' = [status EXCEPT ![t] = "waiting"]
  /\ UNCHANGED <<owner, kind, left, doomed, last, open>>

(* The tasks of S are over.                                                *)
Remove(S, how) ==
  /\ status' = [t \in Tasks |-> IF t \in S THEN how ELSE status[t]]
  /\ owner'  = [t \in Tasks |-> IF t \in S THEN NoClient ELSE owner[t]]
  /\ kind'   = [t \in Tasks |-> IF t \in S THEN "shell" ELSE kind[t]]
  /\ left'   = [t \in Tasks |-> IF t \in S THEN -1 ELSE left[t]]

End(t, how) ==
  /\ t \in Running
  /\ t \in doomed => how = "cancelled"
  /\ Remove({t}, how)
  /\ doomed' = doomed \ {t}
  /\ UNCHANGED <<last, open>>

(* A client takes back everything it has in the pool.                      *)
Cancel(c) ==
  /\ Remove({ t \in Waiting : owner[t] = c }, "cancelled")
  /\ doomed' = doomed \cup { t \in Running : owner[t] = c }
  /\ UNCHANGED <<last, open>>

Stop ==
  /\ open /\ Waiting = {} /\ Running = {}
  /\ open' = FALSE
  /\ UNCHANGED <<status, owner, kind, left, doomed, last>>

(* What was submitted to a stopped pool is never run.                      *)
Discard ==
  /\ ~open
  /\ Remove(Waiting, "cancelled")
  /\ UNCHANGED <<doomed, last, open>>

Next ==
  \/ \E t \in Tasks : \/ Submit(t) \/ Start(t) \/ Work(t) \/ Yield(t)
                      \/ End(t, "finished") \/ End(t, "cancelled")
  \/ \E c \in Clients : Cancel(c)
  \/ Stop \/ Discard

Spec == Init /\ [][Next]_vars

(* As long as tasks wait and none runs, one is eventually started.         *)
FairSpec == Spec /\ WF_vars(\E t \in Tasks : Start(t))
=============================================================================
