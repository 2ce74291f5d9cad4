------------------------------ MODULE AuditTrail ------------------------------
(***************************************************************************)
(* The audit trail of commons/logger.py and its readers in routers/admin.py.*)
(*                                                                         *)
(* Each worker process keeps its newest log records in a ring.  The records*)
(* that tell of turns are also appended to a file both workers share, which*)
(* a worker that finds it too long renames to an archive, and put into a   *)
(* queue in memory, which a background task of the worker drains into an   *)
(* OpenSearch index.  A worker that starts fills its ring from the file or,*)
(* when there is none, from the index.  The console shows what the ring of *)
(* the worker that answers it holds.                                       *)
(*                                                                         *)
(* A record is a turn and the number of the record in it; the last one of  *)
(* a turn is its answer.  An archive is named by the second it is made in: *)
(* a second rotation within it takes the name of the first.                *)
(***************************************************************************)
EXTENDS Naturals, Sequences, FiniteSets, SequencesExt

CONSTANTS
  Processes,
  TurnLength,   \* records of a turn
  RingMax,      \* maxlen of _LOG_RING
  LineMax,      \* 2 * _METRICS_MAXLINES: a longer file is rotated
  CheckEvery,   \* records a worker persists between two looks at the file
  Rotations,    \* _METRICS_ROTATIONS: archives that are kept
  QueueMax,     \* maxlen of _AUDIT_Q
  Batch,        \* records the drain sends at a time
  Sinks,        \* what the index may be: "up", "failing" or "none"
  MaxTurns,     \* bound: turns that are served
  MaxCrashes,   \* bound: workers that die
  Absent

ASSUME TrailAssumption ==
  /\ \A n \in {TurnLength, RingMax, CheckEvery, Rotations, QueueMax, Batch} : n \in Nat \ {0}
  /\ LineMax \in Nat /\ MaxTurns \in Nat /\ MaxCrashes \in Nat
  /\ Sinks \subseteq {"up", "failing", "none"}

\* A log record that tells of a turn, and the turn a worker is serving.
Record  == [turn : Nat, n : Nat, server : Processes]
Serving == [id : Nat, next : Nat, server : Processes]

ASSUME AbsentAssumption ==
  /\ Absent \notin Record
  /\ Absent \notin Seq(Record)
  /\ Absent \notin Serving

VARIABLES
  sink,        \* what the index is in this behaviour
  live,        \* the lines of the shared file; Absent: there is no file
  archives,    \* the archives in the order of their names, the oldest first
  sameSecond,  \* the newest archive was made in the current second
  ring,        \* _LOG_RING of each worker
  filled,      \* what a worker's ring was filled from when it started
  queue,       \* _AUDIT_Q of each worker
  persisted,   \* _persist_n of each worker
  serving,     \* the record a worker emits next, or Absent between turns
  at,          \* where in _persist_record a worker is
  held,        \* the record it is persisting, or Absent
  indexed,     \* the records of the index
  twice,       \* those that were indexed again
  written, pruned,         \* records: appended, removed with an old archive,
  overwritten,             \* with one whose name was taken again,
  lost,                    \* taken from a queue and not indexed
  turns, crashes           \* counters of the bounds

files   == <<live, archives, sameSecond, persisted>>
history == <<written, pruned, overwritten, lost>>
index   == <<indexed, twice>>
trailVars == <<sink, files, ring, filled, queue, serving, at, held, index, history, turns, crashes>>

\* Lines of a file: reading one that is not there finds none.
Lines(f) == IF f = Absent THEN <<>> ELSE f

\* deque(maxlen = n): appending to a full one drops the oldest.
Newest(s, n) == IF Len(s) > n THEN SubSeq(s, Len(s) - n + 1, Len(s)) ELSE s

TrailInit ==
  /\ sink \in Sinks
  /\ live = Absent /\ archives = <<>> /\ sameSecond = FALSE
  /\ ring = [w \in Processes |-> <<>>]
  /\ filled = [w \in Processes |-> "file"]
  /\ queue = [w \in Processes |-> <<>>]
  /\ persisted = [w \in Processes |-> 0]
  /\ serving = [w \in Processes |-> Absent]
  /\ at = [w \in Processes |-> "idle"]
  /\ held = [w \in Processes |-> Absent]
  /\ indexed = {} /\ twice = {}
  /\ written = {} /\ pruned = {} /\ overwritten = {} /\ lost = {}
  /\ turns = 0 /\ crashes = 0

-----------------------------------------------------------------------------
(* A turn and its records.                                                 *)

BeginTurn(w) ==
  /\ serving[w] = Absent /\ at[w] = "idle" /\ turns < MaxTurns
  /\ turns' = turns + 1
  /\ serving' = [serving EXCEPT ![w] = [id |-> turns', next |-> 1, server |-> w]]
  /\ UNCHANGED <<sink, files, ring, filled, queue, at, held, index, history, crashes>>

\* The client leaves a streamed turn: what was to be logged after is not.
AbandonTurn(w) ==
  /\ serving[w] # Absent /\ at[w] = "idle"
  /\ serving' = [serving EXCEPT ![w] = Absent]
  /\ UNCHANGED <<sink, files, ring, filled, queue, at, held, index, history, turns, crashes>>

\* emit, and _persist_record up to the append.
Emit(w) ==
  /\ serving[w] # Absent /\ at[w] = "idle"
  /\ LET rec == [turn |-> serving[w].id, n |-> serving[w].next, server |-> w]
     IN /\ ring' = [ring EXCEPT ![w] = Newest(Append(@, rec), RingMax)]
        /\ live' = Append(Lines(live), rec)
        /\ written' = written \cup {rec}
        /\ held' = [held EXCEPT ![w] = rec]
  /\ serving' = [serving EXCEPT ![w] = IF @.next = TurnLength THEN Absent
                                 ELSE [@ EXCEPT !.next = serving[w].next + 1]]
  /\ persisted' = [persisted EXCEPT ![w] = (@ + 1) % CheckEvery]
  /\ at' = [at EXCEPT ![w] = IF persisted'[w] = 0 THEN "count" ELSE "enqueue"]
  /\ UNCHANGED <<sink, archives, sameSecond, filled, queue, index, pruned, overwritten, lost,
                 turns, crashes>>

-----------------------------------------------------------------------------
(* _trim_metrics_file: the other worker writes and rotates between its steps.*)

Count(w) ==
  /\ at[w] = "count"
  /\ at' = [at EXCEPT ![w] = IF Len(Lines(live)) > LineMax THEN "replace" ELSE "enqueue"]
  /\ UNCHANGED <<sink, files, ring, filled, queue, serving, held, index, history, turns, crashes>>

\* Mutant of Replace: the file is started afresh in place.
ReplaceDrops(w) ==
  /\ at[w] = "replace"
  /\ live' = Absent
  /\ at' = [at EXCEPT ![w] = "prune"]
  /\ UNCHANGED <<sink, archives, sameSecond, persisted, ring, filled, queue, serving, held, index,
                 history, turns, crashes>>

\* os.replace: whatever the file holds by now becomes the archive of this second, in
\* place of one that another rotation has just made.  When the other worker took the
\* file away the call raises, and the trim ends.
Replace(w) ==
  /\ at[w] = "replace"
  /\ live' = Absent
  /\ IF live = Absent
     THEN UNCHANGED <<archives, sameSecond, overwritten>>
     ELSE /\ sameSecond' = TRUE
          /\ archives' = Append(IF sameSecond THEN Front(archives) ELSE archives, live)
          /\ overwritten' = overwritten \cup (IF sameSecond THEN ToSet(Last(archives)) ELSE {})
  /\ at' = [at EXCEPT ![w] = IF live = Absent THEN "enqueue" ELSE "prune"]
  /\ UNCHANGED <<sink, persisted, ring, filled, queue, serving, held, index, written, pruned, lost,
                 turns, crashes>>

\* The clock, int(time.time()).
NextSecond ==
  /\ sameSecond
  /\ sameSecond' = FALSE
  /\ UNCHANGED <<sink, live, archives, persisted, ring, filled, queue, serving, at, held, index,
                 history, turns, crashes>>

\* All but the newest archives are removed.
Prune(w) ==
  /\ at[w] = "prune"
  /\ archives' = Newest(archives, Rotations)
  /\ pruned' = pruned \cup UNION {ToSet(archives[i]) : i \in 1 .. (Len(archives) - Len(archives'))}
  /\ at' = [at EXCEPT ![w] = "enqueue"]
  /\ UNCHANGED <<sink, live, sameSecond, persisted, ring, filled, queue, serving, held, index, written,
                 overwritten, lost, turns, crashes>>

Enqueue(w) ==
  /\ at[w] = "enqueue"
  /\ LET all == Append(queue[w], held[w])
     IN /\ queue' = [queue EXCEPT ![w] = Newest(all, QueueMax)]
        /\ lost' = lost \cup (ToSet(all) \ ToSet(queue'[w]))
  /\ at' = [at EXCEPT ![w] = "idle"]
  /\ held' = [held EXCEPT ![w] = Absent]
  /\ UNCHANGED <<sink, files, ring, filled, serving, index, written, pruned, overwritten, turns,
                 crashes>>

-----------------------------------------------------------------------------
(* flush_audit_sink: one pass of the loop, which blocks its worker.         *)

\* The batch is indexed under new ids.
Index(records) ==
  /\ indexed' = indexed \cup records
  /\ twice' = twice \cup (records \cap indexed)

\* Mutant of Drain: a batch is sent only when it is full.
DrainFullBatches(w) ==
  /\ at[w] = "idle" /\ Len(queue[w]) > Batch
  /\ Index(ToSet(SubSeq(queue[w], 1, Batch)))
  /\ queue' = [queue EXCEPT ![w] = SubSeq(@, Batch + 1, Len(@))]
  /\ UNCHANGED <<sink, files, ring, filled, serving, at, held, history, turns, crashes>>

\* Up to Batch records are taken; when the call fails they are not put back,
\* although it may have been carried out.  Without an index the queue is cleared.
Drain(w) ==
  /\ at[w] = "idle" /\ queue[w] # <<>>
  /\ LET batch == SubSeq(queue[w], 1, IF Len(queue[w]) < Batch THEN Len(queue[w]) ELSE Batch)
         taken == IF sink = "none" THEN queue[w] ELSE batch
     IN /\ queue' = [queue EXCEPT ![w] = SubSeq(@, Len(taken) + 1, Len(@))]
        /\ \/ /\ sink # "none"
              /\ Index(ToSet(batch))
              /\ UNCHANGED lost
           \/ /\ sink # "up"
              /\ lost' = lost \cup ToSet(taken)
              /\ UNCHANGED index
  /\ UNCHANGED <<sink, files, ring, filled, serving, at, held, written, pruned, overwritten, turns,
                 crashes>>

-----------------------------------------------------------------------------
(* A worker dies and starts again.                                         *)

\* Mutant of Tail: the first lines of the file.
Head_(s, n) == IF Len(s) > n THEN SubSeq(s, 1, n) ELSE s

\* readlines()[-limit:]; the limit is the size of the ring.
Tail_(s, n) == Newest(s, n)

\* load_persisted_metrics: the last lines of the file or, without any, the newest
\* records of the index, whose time stamps do not order those of one second.
Rehydrated(w) ==
  IF Lines(live) # <<>> THEN {Tail_(live, RingMax)}
  ELSE IF sink = "none" THEN {<<>>}
  ELSE LET n == IF Cardinality(indexed) < RingMax THEN Cardinality(indexed) ELSE RingMax
       IN {SetToSeq(S) : S \in {T \in SUBSET indexed : Cardinality(T) = n}}
          \cup (IF sink = "failing" THEN {<<>>} ELSE {})

Crash(w) ==
  /\ crashes < MaxCrashes
  /\ crashes' = crashes + 1
  /\ lost' = lost \cup ToSet(queue[w]) \cup (IF held[w] = Absent THEN {} ELSE {held[w]})
  /\ queue' = [queue EXCEPT ![w] = <<>>]
  /\ held' = [held EXCEPT ![w] = Absent]
  /\ at' = [at EXCEPT ![w] = "idle"]
  /\ serving' = [serving EXCEPT ![w] = Absent]
  /\ persisted' = [persisted EXCEPT ![w] = 0]
  /\ \E found \in Rehydrated(w) : ring' = [ring EXCEPT ![w] = found]
  /\ filled' = [filled EXCEPT ![w] = IF Lines(live) = <<>> THEN "index" ELSE "file"]
  /\ UNCHANGED <<sink, live, archives, sameSecond, index, written, pruned, overwritten, turns>>

-----------------------------------------------------------------------------
(* What the console shows.                                                 *)

\* _recent_turns, admin_audit: the turns with a prompt or an answer in the ring.
Listed(w) == {r.turn : r \in {x \in ToSet(ring[w]) : x.n \in {1, TurnLength}}}

\* _turn_timeline: the turn is done when its answer is in the ring.
ShownDone(w, t) == \E r \in ToSet(ring[w]) : r.turn = t /\ r.n = TurnLength

-----------------------------------------------------------------------------
Persist(w) == Count(w) \/ Replace(w) \/ Prune(w) \/ Enqueue(w)

TrailNext ==
  \/ NextSecond
  \/ \E w \in Processes : BeginTurn(w) \/ AbandonTurn(w) \/ Emit(w) \/ Persist(w)
                         \/ Drain(w) \/ Crash(w)

TrailSpec == TrailInit /\ [][TrailNext]_trailVars

\* The records of a turn are persisted within the call that logs them, and the
\* drain wakes up every few seconds for the life of the process.
TrailFairSpec == TrailSpec /\ \A w \in Processes : WF_trailVars(Persist(w)) /\ WF_trailVars(Drain(w))

-----------------------------------------------------------------------------
(* Properties.                                                             *)

OnFile == ToSet(Lines(live)) \cup UNION {ToSet(archives[i]) : i \in 1 .. Len(archives)}
OnItsWay == (UNION {ToSet(queue[w]) : w \in Processes}) \cup ({held[w] : w \in Processes} \ {Absent})

\* "ROTATE (never drop)", _trim_metrics_file.
NeverDropped == \A r \in written : r \in OnFile \cup pruned

\* What holds of it, whatever two workers do to the shared file at once: a record leaves
\* the files only with an archive, which was one too many or whose name another rotation
\* took within the same second; and the sink has it on its way
\* or in the index unless the sink itself lost it.
TrailIsKept ==
  \A r \in written : /\ r \in OnFile \cup pruned \cup overwritten
                     /\ r \in OnItsWay \cup indexed \cup lost

\* "auto-id, indexed once": no record is in the index twice, be a bulk call
\* reported failed that was carried out, or a worker restarted.
IndexedOnce == twice = {}

\* _trim_metrics_file and flush_audit_sink: no record is lost without cause, and none is
\* indexed twice.
EveryRecordOnce == TrailIsKept /\ IndexedOnce

\* The console of the worker that served a turn does not show as running a turn
\* that has its answer, however much the ring has dropped and whatever a restart
\* filled it with from the file.
AnsweredIsShownDone ==
  \A w \in Processes : filled[w] = "file" =>
    \A r \in written :
      (r.server = w /\ r.n = TurnLength /\ r.turn \in Listed(w)) => ShownDone(w, r.turn)

\* No record waits in a queue for ever: between turns the drains catch up.
RecordsAreDrained == []<>(\A w \in Processes : queue[w] = <<>>)
=============================================================================
