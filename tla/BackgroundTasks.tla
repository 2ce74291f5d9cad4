---------------------------- MODULE BackgroundTasks ----------------------------
(***************************************************************************)
(* Background tasks: a request stores a Task document and spawns a runner  *)
(* in its worker process (routers/platform.py); the runner executes the    *)
(* tool and its chain and reports through the document                     *)
(* (ChatService.run_background_task); a worker that starts marks what its  *)
(* predecessor left unfinished (task_service.reconcile_interrupted).       *)
(*                                                                         *)
(* The document is shared by the worker processes and only ever read and   *)
(* written whole, without a version: an update is a read and a write, the  *)
(* reconciliation a scan of the keys and then a read and a write per key.  *)
(* Within a worker an update runs without a suspension, so what comes      *)
(* between its two halves is another worker, or the worker's own end.      *)
(***************************************************************************)
EXTENDS Naturals

CONSTANTS
  Processes,   \* the worker processes
  Tasks,       \* the tasks of one behaviour, each started once
  ChainLength, \* the most progress reports one task makes
  MaxEnds,     \* bound: how often a worker process ends
  Faults,      \* which of "read_fails", "write_fails", "keys_capped" may happen
  Absent       \* no document, task or process

Active   == {"queued", "running"}
Terminal == {"succeeded", "failed", "interrupted"}

ASSUME TasksAssumption ==
  /\ ChainLength \in Nat
  /\ MaxEnds \in Nat
  /\ Faults \subseteq {"read_fails", "write_fails", "keys_capped"}
  /\ Absent \notin Tasks \cup Processes \cup Active \cup Terminal

VARIABLES
  up,       \* a worker is down, starting (create_app), or up
  scan,     \* the task keys a starting worker has still to look at
  held,     \* the task whose document a starting worker is about to overwrite
  ends,     \* how many worker processes have ended
  status,   \* the status in a task's document, or Absent: no document
  owner,    \* the worker a task's runner lives in
  stage,    \* where the runner stands
  doc,      \* the status in the document the runner is about to write
  left      \* progress reports the runner may still make

taskVars == <<up, scan, held, ends, status, owner, stage, doc, left>>
workers == <<up, scan, held, ends>>
runners == <<owner, stage, doc, left>>

\* "begun", "reporting", "finishing", "closing": a document is read and not yet written.
Writing == {"begun", "reporting", "finishing", "closing"}
Alive   == {"spawned", "working", "failing"} \cup Writing

TasksTypeOK ==
  /\ up \in [Processes -> {"down", "starting", "up"}]
  /\ scan \in [Processes -> SUBSET Tasks]
  /\ held \in [Processes -> Tasks \cup {Absent}]
  /\ ends \in 0..MaxEnds
  /\ status \in [Tasks -> {Absent} \cup Active \cup Terminal]
  /\ owner \in [Tasks -> Processes \cup {Absent}]
  /\ stage \in [Tasks -> Alive \cup {"none", "dead", "ended"}]
  /\ doc \in [Tasks -> {Absent} \cup Active \cup Terminal]
  /\ left \in [Tasks -> 0..ChainLength]

TasksInit ==
  /\ up = [w \in Processes |-> "down"]
  /\ scan = [w \in Processes |-> {}]
  /\ held = [w \in Processes |-> Absent]
  /\ ends = 0
  /\ status = [t \in Tasks |-> Absent]
  /\ owner = [t \in Tasks |-> Absent]
  /\ stage = [t \in Tasks |-> "none"]
  /\ doc = [t \in Tasks |-> Absent]
  /\ left = [t \in Tasks |-> ChainLength]

\* A read of a task's document; the store's client answers "none" to any error.
Reads(t) == {status[t]} \cup (IF "read_fails" \in Faults THEN {Absent} ELSE {})

-----------------------------------------------------------------------------
(* A request, and the runner it spawns.                                    *)

\* _start_task_if_async: the document is stored and the runner spawned.
Start(w, t) ==
  /\ up[w] = "up"
  /\ stage[t] = "none"
  /\ status' = [status EXCEPT ![t] = "queued"]
  /\ owner' = [owner EXCEPT ![t] = w]
  /\ stage' = [stage EXCEPT ![t] = "spawned"]
  /\ UNCHANGED <<workers, doc, left>>

\* create raises, the document being stored or not: no runner is spawned.
StartFails(w, t) ==
  /\ "write_fails" \in Faults
  /\ up[w] = "up"
  /\ stage[t] = "none"
  /\ \E s \in {Absent, "queued"} : status' = [status EXCEPT ![t] = s]
  /\ owner' = [owner EXCEPT ![t] = w]
  /\ stage' = [stage EXCEPT ![t] = "dead"]
  /\ UNCHANGED <<workers, doc, left>>

\* The first half of update(t, ...): d is the document that was read, s the status to
\* write with it; without a document nothing is written and the runner goes on.
Update(t, d, s, writing, next) ==
  /\ stage' = [stage EXCEPT ![t] = IF d = Absent THEN next ELSE writing]
  /\ doc' = [doc EXCEPT ![t] = IF d = Absent THEN Absent ELSE s]
  /\ UNCHANGED <<workers, status, owner>>

Begin(t) ==
  /\ stage[t] = "spawned"
  /\ \E d \in Reads(t) : Update(t, d, "running", "begun", "working")
  /\ UNCHANGED left

\* A step of the chain: only the progress is new, the status is written as it was read.
Report(t) ==
  /\ stage[t] = "working"
  /\ left[t] > 0
  /\ \E d \in Reads(t) : Update(t, d, d, "reporting", "working")
  /\ left' = [left EXCEPT ![t] = @ - 1]

\* The tool, or its chain, is done: its result or its failure is stored.
Finish(t) ==
  /\ stage[t] = "working"
  /\ \E d \in Reads(t), s \in {"succeeded", "failed"} : Update(t, d, s, "finishing", "ended")
  /\ UNCHANGED left

\* The tool raised.
Raise(t) ==
  /\ stage[t] = "working"
  /\ stage' = [stage EXCEPT ![t] = "failing"]
  /\ UNCHANGED <<workers, status, owner, doc, left>>

\* Mutant of Fail: the except clause logs and stores nothing.
FailSilently(t) ==
  /\ stage[t] = "failing"
  /\ stage' = [stage EXCEPT ![t] = "ended"]
  /\ UNCHANGED <<workers, status, owner, doc, left>>

\* The except clause: the failure is stored.
Fail(t) ==
  /\ stage[t] = "failing"
  /\ \E d \in Reads(t) : Update(t, d, "failed", "closing", "ended")
  /\ UNCHANGED left

\* The second half of an update.
Write(t) ==
  /\ stage[t] \in Writing
  /\ status' = [status EXCEPT ![t] = doc[t]]
  /\ stage' = [stage EXCEPT ![t] = IF @ \in {"finishing", "closing"} THEN "ended" ELSE "working"]
  /\ doc' = [doc EXCEPT ![t] = Absent]
  /\ UNCHANGED <<workers, owner, left>>

\* The write raises: the store refused it, or it was made and its answer was late.  The
\* try block catches that, but neither the update before it nor the one in its except
\* clause.
WriteFails(t) ==
  /\ "write_fails" \in Faults
  /\ stage[t] \in Writing
  /\ \E s \in {status[t], doc[t]} : status' = [status EXCEPT ![t] = s]
  /\ stage' = [stage EXCEPT ![t] = IF @ \in {"begun", "closing"} THEN "ended" ELSE "failing"]
  /\ doc' = [doc EXCEPT ![t] = Absent]
  /\ UNCHANGED <<workers, owner, left>>

-----------------------------------------------------------------------------
(* A worker's end and start.                                               *)

\* The process ends, and every runner in it.
Die(w) ==
  /\ up[w] # "down"
  /\ ends < MaxEnds
  /\ ends' = ends + 1
  /\ up' = [up EXCEPT ![w] = "down"]
  /\ scan' = [scan EXCEPT ![w] = {}]
  /\ held' = [held EXCEPT ![w] = Absent]
  /\ stage' = [t \in Tasks |-> IF owner[t] = w /\ stage[t] \in Alive THEN "dead" ELSE stage[t]]
  /\ doc' = [t \in Tasks |-> IF owner[t] = w THEN Absent ELSE doc[t]]
  /\ UNCHANGED <<status, owner, left>>

\* Mutant of Restart: nothing is reconciled.
RestartUnreconciled(w) ==
  /\ up[w] = "down"
  /\ up' = [up EXCEPT ![w] = "starting"]
  /\ UNCHANGED <<scan, held, ends, status, runners>>

\* create_app: reconcile_interrupted lists the keys.  The store returns no more than its
\* page of 10000 documents of every kind, and none when the search fails.
Restart(w) ==
  /\ up[w] = "down"
  /\ up' = [up EXCEPT ![w] = "starting"]
  /\ LET stored == {t \in Tasks : status[t] # Absent} IN
     \E keys \in IF "keys_capped" \in Faults THEN SUBSET stored ELSE {stored} :
       scan' = [scan EXCEPT ![w] = keys]
  /\ UNCHANGED <<held, ends, status, runners>>

\* Mutant of Inspect: a finished task is marked too.
InspectAll(w) ==
  /\ up[w] = "starting"
  /\ held[w] = Absent
  /\ \E t \in scan[w] : \E d \in Reads(t) :
       /\ scan' = [scan EXCEPT ![w] = @ \ {t}]
       /\ held' = [held EXCEPT ![w] = IF d # Absent THEN t ELSE Absent]
  /\ UNCHANGED <<up, ends, status, runners>>

\* One key: a document that is not finished is about to be marked.
Inspect(w) ==
  /\ up[w] = "starting"
  /\ held[w] = Absent
  /\ \E t \in scan[w] : \E d \in Reads(t) :
       /\ scan' = [scan EXCEPT ![w] = @ \ {t}]
       /\ held' = [held EXCEPT ![w] = IF d \in Active THEN t ELSE Absent]
  /\ UNCHANGED <<up, ends, status, runners>>

Interrupt(w) ==
  /\ held[w] # Absent
  /\ status' = [status EXCEPT ![held[w]] = "interrupted"]
  /\ held' = [held EXCEPT ![w] = Absent]
  /\ UNCHANGED <<up, scan, ends, runners>>

\* The write raises, made or not: create_app passes over it, and over the keys that remain.
InterruptFails(w) ==
  /\ "write_fails" \in Faults
  /\ held[w] # Absent
  /\ \E s \in {status[held[w]], "interrupted"} : status' = [status EXCEPT ![held[w]] = s]
  /\ held' = [held EXCEPT ![w] = Absent]
  /\ scan' = [scan EXCEPT ![w] = {}]
  /\ UNCHANGED <<up, ends, runners>>

\* Mutant of Ready: requests are taken while keys remain.
ReadyEarly(w) ==
  /\ up[w] = "starting"
  /\ held[w] = Absent
  /\ up' = [up EXCEPT ![w] = "up"]
  /\ scan' = [scan EXCEPT ![w] = {}]
  /\ UNCHANGED <<held, ends, status, runners>>

\* Every key was looked at: the worker takes requests.
Ready(w) ==
  /\ up[w] = "starting"
  /\ scan[w] = {}
  /\ held[w] = Absent
  /\ up' = [up EXCEPT ![w] = "up"]
  /\ UNCHANGED <<scan, held, ends, status, runners>>

-----------------------------------------------------------------------------
Runner(t)    == Begin(t) \/ Report(t) \/ Finish(t) \/ Raise(t) \/ Fail(t) \/ Write(t) \/ WriteFails(t)
Reconcile(w) == Restart(w) \/ Inspect(w) \/ Interrupt(w) \/ InterruptFails(w) \/ Ready(w)

TasksNext ==
  \/ \E w \in Processes, t \in Tasks : Start(w, t) \/ StartFails(w, t)
  \/ \E t \in Tasks : Runner(t)
  \/ \E w \in Processes : Reconcile(w) \/ Die(w)

TasksSpec == TasksInit /\ [][TasksNext]_taskVars

\* A runner's tool calls have timeouts, and uvicorn's supervisor replaces a worker that
\* ended: both go on.  Nobody has to start a task, and no worker has to end.
TasksFairness ==
  /\ \A t \in Tasks : WF_taskVars(Runner(t))
  /\ \A w \in Processes : WF_taskVars(Reconcile(w))

TasksFairSpec == TasksSpec /\ TasksFairness

-----------------------------------------------------------------------------
(* Properties.                                                             *)

\* "On startup, mark tasks stuck in queued/running as interrupted": when a worker takes
\* requests again, none of its unfinished tasks is without its runner.
NoOrphans ==
  \A t \in Tasks :
    status[t] \in Active /\ up[owner[t]] = "up" => stage[t] \in Alive

\* "updating the durable Task with progress and the final result": a runner that came to
\* its end has left a final status, so that whoever polls the task stops waiting.
EndIsRecorded ==
  \A t \in Tasks : stage[t] = "ended" => status[t] \in Terminal

\* "their in-process runner died with the previous process": an interrupted task is one
\* whose runner is gone, so "please re-run" does not run it beside the first.
InterruptedIsDead ==
  \A t \in Tasks : status[t] = "interrupted" => stage[t] \notin Alive

\* What a poll has shown as final is final.
TerminalIsFinal ==
  [][\A t \in Tasks : status[t] \in Terminal => status'[t] = status[t]]_taskVars

\* What holds of it with a single worker: only a success is ever taken back, for a
\* failure and by the runner that reported it, when the answer to its report was lost.
OnlySuccessIsTakenBack ==
  [][\A t \in Tasks :
       status[t] \in Terminal /\ status'[t] # status[t] =>
         /\ status[t] = "succeeded" /\ status'[t] = "failed"
         /\ stage[t] = "closing" /\ stage'[t] = "ended"]_taskVars

\* A task that was stored comes to a final status, whichever workers end on the way.
EveryTaskSettles ==
  \A t \in Tasks : status[t] # Absent ~> status[t] \in Terminal
====
