------------------------ MODULE TrailAndWorkflowProofs ------------------------
(***************************************************************************)
(* The proofs about two components that share nothing but the process they *)
(* run in: the audit trail and the workflow engine.                        *)
(*                                                                         *)
(* The audit trail keeps what two workers append to it, and its readers are*)
(* told the truth, for any number of workers and any limits: the ring, the *)
(* rotation, the archives, the queue and the batches may have any size.    *)
(* The argument: a record is new when it is logged (Fresh), so a queue     *)
(* holds no record twice and none that is in the index (Waiting), and the  *)
(* records of a turn stay in the order they were logged in, in the file and*)
(* in every ring that was filled from it (InOrder).                        *)
(*                                                                         *)
(* The workflow engine writes what the user agreed to, what fits the       *)
(* answers, and reports only what was read back, for any definitions that  *)
(* are guarded, certified and identify their records.  The argument: a flow*)
(* or a turn that waits where a write may follow has shown its summary     *)
(* (ConfirmOK), the lists and choices a certificate calls current or safe  *)
(* at a node are of the answers held there (FitsOK), and the record of a   *)
(* write is remembered until the read-back finds it (ReadBackOK).          *)
(***************************************************************************)
EXTENDS AuditTrail, Workflow, TLAPS

TrailTypeOK ==
  /\ sink \in Sinks
  /\ live \in Seq(Record) \cup {Absent}
  /\ archives \in Seq(Seq(Record))
  /\ sameSecond \in BOOLEAN /\ (sameSecond => Len(archives) # 0)
  /\ DOMAIN ring = Processes
  /\ \A w \in Processes : filled[w] = "file" => ring[w] \in Seq(Record)
  /\ filled \in [Processes -> {"file", "index"}]
  /\ queue \in [Processes -> Seq(Record)]
  /\ serving \in [Processes -> Serving \cup {Absent}]
  /\ at \in [Processes -> {"idle", "count", "replace", "prune", "enqueue"}]
  /\ held \in [Processes -> Record \cup {Absent}]
  /\ written \subseteq Record
  /\ indexed \subseteq written
  /\ turns \in Nat

\* A worker persists a record exactly while it holds one.
Holding == \A w \in Processes : at[w] = "idle" <=> held[w] = Absent

\* The turns being served are different ones, and their next record was not logged yet.
Fresh ==
  /\ \A r \in written : r.turn <= turns
  /\ \A w \in Processes : serving[w] # Absent =>
       /\ serving[w].id <= turns
       /\ \A r \in written : r.turn = serving[w].id => r.server = w /\ r.n < serving[w].next
       /\ \A v \in Processes \ {w} : serving[v] # Absent => serving[v].id # serving[w].id

\* What a worker has queued, or holds to queue it, it logged itself; it is there once
\* and not in the index yet.
Waiting ==
  \A w \in Processes :
    /\ \A i \in 1 .. Len(queue[w]) :
         /\ queue[w][i] \in written \ indexed /\ queue[w][i].server = w
         /\ queue[w][i] # held[w]
         /\ \A j \in 1 .. Len(queue[w]) : queue[w][i] = queue[w][j] => i = j
    /\ held[w] # Absent => held[w] \in written \ indexed /\ held[w].server = w

\* A turn is served by one worker.
OneServer == \A r, q \in written : r.turn = q.turn => r.server = q.server

\* Behind each record of worker w in s there are all records of recs that continue its turn.
Ordered(s, w, recs) ==
  \A i \in 1 .. Len(s) : s[i].server = w =>
    \A r \in recs : r.turn = s[i].turn /\ r.n > s[i].n => \E j \in (i + 1) .. Len(s) : s[j] = r

InOrder ==
  /\ \A i \in 1 .. Len(Lines(live)) : Lines(live)[i] \in written
  /\ \A w \in Processes : Ordered(Lines(live), w, written)
  /\ \A w \in Processes : filled[w] = "file" =>
       /\ \A i \in 1 .. Len(ring[w]) : ring[w][i] \in written
       /\ Ordered(ring[w], w, written)

Inv == TrailTypeOK /\ Holding /\ Fresh /\ Waiting /\ OneServer /\ InOrder /\ TrailIsKept /\ IndexedOnce

-----------------------------------------------------------------------------
(* Sequences.                                                              *)

\* How many elements a deque of length n drops from the front of s.
Excess(s, n) == IF Len(s) > n THEN Len(s) - n ELSE 0

\* A deque keeps the end of the sequence.
LEMMA NewestShape ==
  ASSUME NEW T, NEW s \in Seq(T), NEW n \in Nat
  PROVE  /\ Newest(s, n) \in Seq(T)
         /\ Excess(s, n) \in 0 .. Len(s)
         /\ Len(Newest(s, n)) = Len(s) - Excess(s, n)
         /\ \A k \in 1 .. Len(Newest(s, n)) : Newest(s, n)[k] = s[k + Excess(s, n)]
<1>1. CASE Len(s) > n
  BY <1>1 DEF Newest, Excess
<1>2. CASE ~(Len(s) > n)
  BY <1>2 DEF Newest, Excess
<1> QED
  BY <1>1, <1>2

\* Appending puts the new element behind the others.
LEMMA AppendShape ==
  ASSUME NEW T, NEW s \in Seq(T), NEW x \in T
  PROVE  /\ Append(s, x) \in Seq(T)
         /\ Len(Append(s, x)) = Len(s) + 1
         /\ \A k \in 1 .. Len(s) : Append(s, x)[k] = s[k]
         /\ Append(s, x)[Len(s) + 1] = x
OBVIOUS

\* The records of a sequence, by their places.
LEMMA ToSetShape ==
  ASSUME NEW T, NEW s \in Seq(T)
  PROVE  /\ \A x \in ToSet(s) : x \in T /\ \E i \in 1 .. Len(s) : s[i] = x
         /\ \A i \in 1 .. Len(s) : s[i] \in ToSet(s)
BY DEF ToSet

\* The front of a sequence, and what is left behind it.
LEMMA FrontShape ==
  ASSUME NEW T, NEW s \in Seq(T), NEW k \in 1 .. Len(s)
  PROVE  /\ SubSeq(s, k + 1, Len(s)) \in Seq(T)
         /\ Len(SubSeq(s, k + 1, Len(s))) = Len(s) - k
         /\ \A i \in 1 .. (Len(s) - k) : SubSeq(s, k + 1, Len(s))[i] = s[i + k]
         /\ \A x \in ToSet(SubSeq(s, 1, k)) : \E i \in 1 .. k : s[i] = x
         /\ \A i \in 1 .. k : s[i] \in ToSet(SubSeq(s, 1, k))
<1>1. /\ SubSeq(s, 1, k) \in Seq(T) /\ Len(SubSeq(s, 1, k)) = k
      /\ \A i \in 1 .. k : SubSeq(s, 1, k)[i] = s[i]
  OBVIOUS
<1>2. /\ \A x \in ToSet(SubSeq(s, 1, k)) : \E i \in 1 .. k : s[i] = x
      /\ \A i \in 1 .. k : s[i] \in ToSet(SubSeq(s, 1, k))
  <2> DEFINE u == SubSeq(s, 1, k)
  <2>1. DOMAIN u = 1 .. k
    BY <1>1
  <2> QED
    BY <1>1, <2>1 DEF ToSet
<1>3. /\ SubSeq(s, k + 1, Len(s)) \in Seq(T)
      /\ Len(SubSeq(s, k + 1, Len(s))) = Len(s) - k
      /\ \A i \in 1 .. (Len(s) - k) : SubSeq(s, k + 1, Len(s))[i] = s[i + k]
  OBVIOUS
<1> QED
  BY <1>2, <1>3

\* A sequence without its last element.
LEMMA WithoutLast ==
  ASSUME NEW T, NEW s \in Seq(T), Len(s) # 0
  PROVE  /\ Front(s) \in Seq(T) /\ Len(Front(s)) = Len(s) - 1
         /\ \A i \in 1 .. Len(Front(s)) : Front(s)[i] = s[i]
         /\ Last(s) = s[Len(s)] /\ Len(s) \in Nat \ {0}
<1> DEFINE k == Len(s) - 1
<1>1. Len(s) \in Nat \ {0}
  OBVIOUS
<1>2. k \in 0 .. Len(s)
  BY <1>1
<1>3. Front(s) = SubSeq(s, 1, k) /\ Last(s) = s[Len(s)]
  BY DEF Front, Last
<1> HIDE DEF k
<1>4. SubSeq(s, 1, k) \in Seq(T) /\ Len(SubSeq(s, 1, k)) = k
      /\ \A i \in 1 .. k : SubSeq(s, 1, k)[i] = s[i]
  BY <1>2
<1> QED
  BY <1>1, <1>3, <1>4 DEF k

\* Every record of a file's lines is a record.
LEMMA LinesShape ==
  ASSUME TrailTypeOK
  PROVE  Lines(live) \in Seq(Record)
BY DEF TrailTypeOK, Lines

\* Dropping the oldest keeps the order of what is left.
LEMMA OrderedNewest ==
  ASSUME NEW s \in Seq(Record), NEW n \in Nat, NEW w, NEW recs, Ordered(s, w, recs)
  PROVE  Ordered(Newest(s, n), w, recs)
<1> DEFINE d == Excess(s, n)
           t == Newest(s, n)
<1>1. /\ d \in 0 .. Len(s) /\ Len(t) = Len(s) - d /\ Len(s) \in Nat
      /\ \A k \in 1 .. Len(t) : t[k] = s[k + d]
  BY NewestShape
<1> HIDE DEF d, t
<1> SUFFICES ASSUME NEW i \in 1 .. Len(t), t[i].server = w, NEW r \in recs,
                    r.turn = t[i].turn, r.n > t[i].n
             PROVE  \E j \in (i + 1) .. Len(t) : t[j] = r
  BY DEF Ordered, t
<1>2. i + d \in 1 .. Len(s) /\ t[i] = s[i + d]
  BY <1>1
<1>3. PICK j \in (i + d + 1) .. Len(s) : s[j] = r
  BY <1>2 DEF Ordered
<1>4. j - d \in (i + 1) .. Len(t) /\ t[j - d] = s[j]
  <2>1. j - d \in (i + 1) .. Len(t)
    BY <1>1, <1>2, <1>3
  <2>2. j - d \in 1 .. Len(t) /\ (j - d) + d = j
    BY <1>1, <1>2, <1>3
  <2> QED
    BY <1>1, <2>1, <2>2
<1> QED
  BY <1>3, <1>4

\* Appending the next record of a turn keeps the order.
LEMMA OrderedAppend ==
  ASSUME NEW s \in Seq(Record), NEW recs \in SUBSET Record, NEW rec \in Record, NEW w,
         Ordered(s, w, recs), \A r \in recs : r.turn = rec.turn => r.n < rec.n
  PROVE  Ordered(Append(s, rec), w, recs \cup {rec})
<1> DEFINE t == Append(s, rec)
<1>1. /\ Len(t) = Len(s) + 1 /\ Len(s) \in Nat /\ t[Len(s) + 1] = rec
      /\ \A k \in 1 .. Len(s) : t[k] = s[k]
  OBVIOUS
<1> HIDE DEF t
<1> SUFFICES ASSUME NEW i \in 1 .. Len(t), t[i].server = w, NEW r \in recs \cup {rec},
                    r.turn = t[i].turn, r.n > t[i].n
             PROVE  \E j \in (i + 1) .. Len(t) : t[j] = r
  BY DEF Ordered, t
<1>2. CASE i = Len(s) + 1
  <2>1. t[i] = rec /\ rec.n \in Nat /\ r.n \in Nat
    BY <1>1, <1>2 DEF Record
  <2> QED
    BY <2>1
<1>3. CASE i \in 1 .. Len(s) /\ r = rec
  <2>1. Len(t) \in (i + 1) .. Len(t)
    BY <1>1, <1>3
  <2> QED
    BY <1>1, <1>3, <2>1
<1>4. CASE i \in 1 .. Len(s) /\ r \in recs
  <2>1. PICK j \in (i + 1) .. Len(s) : s[j] = r
    BY <1>1, <1>4 DEF Ordered
  <2>2. j \in (i + 1) .. Len(t) /\ t[j] = s[j]
    BY <1>1, <1>4, <2>1
  <2> QED
    BY <2>1, <2>2
<1> QED
  BY <1>1, <1>2, <1>3, <1>4

-----------------------------------------------------------------------------
(* The types.                                                              *)

\* The record worker w logs next.
Next_(w) == [turn |-> serving[w].id, n |-> serving[w].next, server |-> w]

\* A record that is logged is a new one, and the newest of its turn.
LEMMA EmitIsNew ==
  ASSUME Inv, NEW w \in Processes, serving[w] # Absent
  PROVE  /\ Next_(w) \in Record /\ Next_(w).server = w
         /\ Next_(w).turn = serving[w].id /\ Next_(w).turn <= turns
         /\ Next_(w) \notin written
         /\ \A r \in written : r.turn = Next_(w).turn => r.server = w /\ r.n < Next_(w).n
<1>1. serving[w] \in Serving
  BY DEF Inv, TrailTypeOK
<1>2. Next_(w) \in Record /\ Next_(w).turn = serving[w].id /\ Next_(w).n = serving[w].next
      /\ Next_(w).server = w
  BY <1>1 DEF Next_, Record, Serving
<1>3. \A r \in written : r.turn = Next_(w).turn => r.server = w /\ r.n < Next_(w).n
  BY <1>2 DEF Inv, Fresh
<1>4. Next_(w) \notin written
  BY <1>2, <1>3 DEF Record
<1> QED
  BY <1>2, <1>3, <1>4 DEF Inv, Fresh

\* Logging a record writes it to the file and into the worker's ring.
LEMMA EmitEffects ==
  ASSUME Inv, NEW w \in Processes, Emit(w)
  PROVE  /\ serving[w] # Absent /\ at[w] = "idle" /\ held[w] = Absent
         /\ ring' = [ring EXCEPT ![w] = Newest(Append(ring[w], Next_(w)), RingMax)]
         /\ live' = Append(Lines(live), Next_(w)) /\ Lines(live') = live'
         /\ written' = written \cup {Next_(w)}
         /\ held' = [held EXCEPT ![w] = Next_(w)]
         /\ serving' = [serving EXCEPT ![w] = IF serving[w].next = TurnLength THEN Absent
                                        ELSE [serving[w] EXCEPT !.next = serving[w].next + 1]]
         /\ \E a \in {"count", "enqueue"} : at' = [at EXCEPT ![w] = a]
         /\ UNCHANGED <<sink, archives, sameSecond, filled, queue, index, pruned, overwritten, lost,
                        turns, crashes>>
<1>1. live' = Append(Lines(live), Next_(w)) /\ serving[w] # Absent
  BY DEF Emit, Next_
<1>2. Next_(w) \in Record /\ Lines(live) \in Seq(Record)
  BY <1>1, EmitIsNew, LinesShape DEF Inv
<1>3. live' \in Seq(Record)
  BY <1>1, <1>2
<1>4. Lines(live') = live'
  BY <1>3, AbsentAssumption DEF Lines
<1>5. at[w] = "idle" /\ held[w] = Absent
  BY DEF Emit, Inv, Holding
<1>6. /\ ring' = [ring EXCEPT ![w] = Newest(Append(ring[w], Next_(w)), RingMax)]
      /\ written' = written \cup {Next_(w)}
      /\ held' = [held EXCEPT ![w] = Next_(w)]
  BY DEF Emit, Next_
<1>7. serving' = [serving EXCEPT ![w] = IF serving[w].next = TurnLength THEN Absent
                                  ELSE [serving[w] EXCEPT !.next = serving[w].next + 1]]
  BY DEF Emit
<1>8. \E a \in {"count", "enqueue"} : at' = [at EXCEPT ![w] = a]
  BY DEF Emit
<1>9. UNCHANGED <<sink, archives, sameSecond, filled, queue, index, pruned, overwritten, lost,
                  turns, crashes>>
  BY DEF Emit
<1> QED
  BY <1>1, <1>4, <1>5, <1>6, <1>7, <1>8, <1>9

\* A rotation puts the file's lines at the end of the archives: in a new one, or in the place
\* of one that was made in the same second.
LEMMA ReplaceEffects ==
  ASSUME TrailTypeOK, NEW w \in Processes, Replace(w)
  PROVE  /\ live' = Absent /\ archives' \in Seq(Seq(Record))
         /\ sameSecond' \in BOOLEAN /\ (sameSecond' => Len(archives') # 0)
         /\ overwritten \subseteq overwritten'
         /\ \A r \in ToSet(Lines(live)) : \E i \in 1 .. Len(archives') : r \in ToSet(archives'[i])
         /\ \A i \in 1 .. Len(archives) : \A r \in ToSet(archives[i]) :
              r \in overwritten' \/ \E j \in 1 .. Len(archives') : r \in ToSet(archives'[j])
         /\ UNCHANGED <<sink, persisted, ring, filled, queue, serving, held, index, written,
                        pruned, lost, turns, crashes>>
<1>1. /\ live' = Absent
      /\ UNCHANGED <<sink, persisted, ring, filled, queue, serving, held, index, written,
                     pruned, lost, turns, crashes>>
      /\ IF live = Absent
         THEN UNCHANGED <<archives, sameSecond, overwritten>>
         ELSE /\ sameSecond' = TRUE
              /\ archives' = Append(IF sameSecond THEN Front(archives) ELSE archives, live)
              /\ overwritten' = overwritten \cup (IF sameSecond THEN ToSet(Last(archives)) ELSE {})
  BY DEF Replace
<1>2. archives \in Seq(Seq(Record)) /\ Len(archives) \in Nat
  BY DEF TrailTypeOK
<1>3. CASE live = Absent
  <2>1. ToSet(Lines(live)) = {}
    <3>1. DOMAIN <<>> = {}
      OBVIOUS
    <3> QED
      BY <1>3, <3>1 DEF Lines, ToSet
  <2> QED
    BY <1>1, <1>3, <2>1 DEF TrailTypeOK
<1>4. CASE live # Absent
  <2> DEFINE kept == IF sameSecond THEN Front(archives) ELSE archives
  <2>1. live \in Seq(Record) /\ Lines(live) = live
    BY <1>4 DEF TrailTypeOK, Lines
  <2>2. /\ kept \in Seq(Seq(Record)) /\ Len(kept) \in Nat
        /\ \A i \in 1 .. Len(kept) : kept[i] = archives[i]
        /\ \A i \in 1 .. Len(archives) :
             i \in 1 .. Len(kept) \/ (sameSecond /\ archives[i] = Last(archives))
    <3>1. CASE sameSecond
      <4>1. /\ kept \in Seq(Seq(Record)) /\ Len(kept) = Len(archives) - 1
            /\ \A i \in 1 .. Len(kept) : kept[i] = archives[i]
            /\ Last(archives) = archives[Len(archives)] /\ Len(archives) \in Nat \ {0}
        BY <1>2, <3>1, WithoutLast DEF TrailTypeOK
      <4>2. \A i \in 1 .. Len(archives) : i \in 1 .. Len(kept) \/ i = Len(archives)
        BY <4>1
      <4> QED
        BY <3>1, <4>1, <4>2
    <3>2. CASE ~sameSecond
      BY <1>2, <3>2
    <3> QED
      BY <3>1, <3>2
  <2>3. archives' = Append(kept, live)
    BY <1>1, <1>4
  <2>a. overwritten \subseteq overwritten' /\ (sameSecond => ToSet(Last(archives)) \subseteq overwritten')
    BY <1>1, <1>4
  <2>b. sameSecond' = TRUE
    BY <1>1, <1>4
  <2> HIDE DEF kept
  <2>4. /\ archives' \in Seq(Seq(Record)) /\ Len(archives') = Len(kept) + 1
        /\ archives'[Len(kept) + 1] = live
        /\ \A i \in 1 .. Len(kept) : archives'[i] = kept[i]
    <3> DEFINE T == Seq(Record)
    <3>1. kept \in Seq(T) /\ live \in T
      BY <2>1, <2>2
    <3> HIDE DEF T
    <3>2. /\ Append(kept, live) \in Seq(T) /\ Len(Append(kept, live)) = Len(kept) + 1
          /\ Append(kept, live)[Len(kept) + 1] = live
          /\ \A i \in 1 .. Len(kept) : Append(kept, live)[i] = kept[i]
      BY <3>1, AppendShape
    <3> QED
      BY <2>3, <3>2 DEF T
  <2>5. /\ Len(kept) + 1 \in 1 .. Len(archives') /\ Len(archives') # 0
        /\ \A i \in 1 .. Len(kept) : i \in 1 .. Len(archives') /\ archives'[i] = archives[i]
    <3>1. Len(kept) \in Nat /\ Len(archives') = Len(kept) + 1
      BY <2>2, <2>4
    <3>2. \A i \in 1 .. Len(kept) : archives'[i] = archives[i]
      BY <2>2, <2>4
    <3> QED
      BY <3>1, <3>2
  <2>6. \A r \in ToSet(Lines(live)) : \E i \in 1 .. Len(archives') : r \in ToSet(archives'[i])
    BY <2>1, <2>4, <2>5
  <2>7. \A i \in 1 .. Len(archives) : \A r \in ToSet(archives[i]) :
          r \in overwritten' \/ \E j \in 1 .. Len(archives') : r \in ToSet(archives'[j])
    <3> SUFFICES ASSUME NEW i \in 1 .. Len(archives), NEW r \in ToSet(archives[i])
                 PROVE  r \in overwritten' \/ \E j \in 1 .. Len(archives') : r \in ToSet(archives'[j])
      OBVIOUS
    <3>1. CASE i \in 1 .. Len(kept)
      <4>1. i \in 1 .. Len(archives') /\ archives'[i] = archives[i]
        BY <2>5, <3>1
      <4> QED
        BY <4>1
    <3>2. CASE sameSecond /\ archives[i] = Last(archives)
      BY <2>a, <3>2
    <3> QED
      BY <2>2, <3>1, <3>2
  <2>8. archives' \in Seq(Seq(Record)) /\ sameSecond' \in BOOLEAN
        /\ (sameSecond' => Len(archives') # 0)
    BY <2>b, <2>4, <2>5
  <2> QED
    BY <1>1, <2>a, <2>6, <2>7, <2>8, Zenon
<1> QED
  BY <1>3, <1>4

\* A drain takes records from the front of a queue; those it indexes are some of them.
LEMMA DrainTakes ==
  ASSUME TrailTypeOK, NEW w \in Processes, Drain(w)
  PROVE  \E k \in 1 .. Len(queue[w]) :
           /\ queue' = [queue EXCEPT ![w] = SubSeq(queue[w], k + 1, Len(queue[w]))]
           /\ LET taken == ToSet(SubSeq(queue[w], 1, k))
              IN \/ /\ indexed' = indexed \cup taken /\ twice' = twice \cup (taken \cap indexed)
                    /\ lost' = lost
                 \/ lost' = lost \cup taken /\ UNCHANGED index
<1> DEFINE q == queue[w]
           b == IF Len(q) < Batch THEN Len(q) ELSE Batch
           k == IF sink = "none" THEN Len(q) ELSE b
<1>1. q \in Seq(Record) /\ q # <<>> /\ Len(q) \in Nat \ {0} /\ Batch \in Nat \ {0}
  BY TrailAssumption DEF Drain, TrailTypeOK
<1>2. b \in 1 .. Len(q) /\ k \in 1 .. Len(q)
  BY <1>1
<1>3. Len(SubSeq(q, 1, b)) = b /\ SubSeq(q, 1, Len(q)) = q
  BY <1>1, <1>2
<1>4. queue' = [queue EXCEPT ![w] = SubSeq(queue[w], k + 1, Len(queue[w]))]
  BY <1>3 DEF Drain
<1>5. CASE sink # "none" /\ Index(ToSet(SubSeq(q, 1, b))) /\ UNCHANGED lost
  BY <1>2, <1>4, <1>5 DEF Index
<1>6. CASE sink # "none" /\ lost' = lost \cup ToSet(SubSeq(q, 1, b)) /\ UNCHANGED index
  BY <1>2, <1>4, <1>6
<1>7. CASE sink = "none" /\ lost' = lost \cup ToSet(q) /\ UNCHANGED index
  BY <1>2, <1>3, <1>4, <1>7
<1> QED
  BY <1>5, <1>6, <1>7 DEF Drain

\* Every step keeps the types, and holds a record exactly while it is persisted.
LEMMA NextType == Inv /\ [TrailNext]_trailVars => TrailTypeOK' /\ Holding'
<1> SUFFICES ASSUME Inv, [TrailNext]_trailVars PROVE TrailTypeOK' /\ Holding'
  OBVIOUS
<1> USE TrailAssumption, AbsentAssumption
<1>a. TrailTypeOK /\ Holding
  BY DEF Inv
<1>1. ASSUME NEW w \in Processes, BeginTurn(w) PROVE TrailTypeOK' /\ Holding'
  <2>1. [id |-> turns + 1, next |-> 1, server |-> w] \in Serving /\ turns + 1 \in Nat
    BY <1>a DEF Serving, TrailTypeOK
  <2> QED
    BY <1>1, <1>a, <2>1 DEF BeginTurn, TrailTypeOK, Holding, files, history, index
<1>2. ASSUME NEW w \in Processes, AbandonTurn(w) PROVE TrailTypeOK' /\ Holding'
  BY <1>2, <1>a DEF AbandonTurn, TrailTypeOK, Holding, files, history, index
<1>3. ASSUME NEW w \in Processes, Emit(w) PROVE TrailTypeOK' /\ Holding'
  <2>1. serving[w] # Absent /\ Lines(live) \in Seq(Record)
    BY <1>3, <1>a, EmitEffects, LinesShape
  <2>2. Next_(w) \in Record /\ Next_(w) # Absent
    BY <2>1, EmitIsNew
  <2>3. live' \in Seq(Record)
    <3>1. live' = Append(Lines(live), Next_(w))
      BY <1>3, EmitEffects
    <3> QED
      BY <2>1, <2>2, <3>1
  <2>4. filled[w] = "file" => Newest(Append(ring[w], Next_(w)), RingMax) \in Seq(Record)
    <3> SUFFICES ASSUME filled[w] = "file"
                 PROVE  Newest(Append(ring[w], Next_(w)), RingMax) \in Seq(Record)
      OBVIOUS
    <3>1. Append(ring[w], Next_(w)) \in Seq(Record)
      BY <2>2, <1>a, AppendShape DEF TrailTypeOK
    <3> QED
      BY <3>1, NewestShape
  <2>5. DOMAIN ring' = Processes /\ \A v \in Processes : filled'[v] = "file" => ring'[v] \in Seq(Record)
    <3>1. /\ ring' = [ring EXCEPT ![w] = Newest(Append(ring[w], Next_(w)), RingMax)]
          /\ filled' = filled
      BY <1>3, EmitEffects
    <3> QED
      BY <3>1, <2>4, <1>a DEF TrailTypeOK
  <2>6. serving' \in [Processes -> Serving \cup {Absent}]
    <3>1. serving[w] \in Serving
      BY <2>1, <1>a DEF TrailTypeOK
    <3>2. [serving[w] EXCEPT !.next = serving[w].next + 1] \in Serving
      BY <3>1 DEF Serving
    <3>3. serving' = [serving EXCEPT ![w] = IF serving[w].next = TurnLength THEN Absent
                                      ELSE [serving[w] EXCEPT !.next = serving[w].next + 1]]
      BY <1>3, EmitEffects
    <3> QED
      BY <1>a, <3>2, <3>3 DEF TrailTypeOK
  <2>7. /\ sink' \in Sinks /\ archives' \in Seq(Seq(Record)) /\ turns' \in Nat
        /\ sameSecond' \in BOOLEAN /\ (sameSecond' => Len(archives') # 0)
        /\ filled' \in [Processes -> {"file", "index"}]
        /\ queue' \in [Processes -> Seq(Record)]
    BY <1>3, <1>a DEF Emit, TrailTypeOK
  <2>8. PICK a \in {"count", "enqueue"} : at' = [at EXCEPT ![w] = a]
    BY <1>3, EmitEffects
  <2>9. held' = [held EXCEPT ![w] = Next_(w)] /\ written' = written \cup {Next_(w)} /\ indexed' = indexed
    BY <1>3, EmitEffects DEF index
  <2>10. /\ at' \in [Processes -> {"idle", "count", "replace", "prune", "enqueue"}]
         /\ held' \in [Processes -> Record \cup {Absent}]
         /\ written' \subseteq Record /\ indexed' \subseteq written'
    BY <1>a, <2>2, <2>8, <2>9 DEF TrailTypeOK
  <2>11. Holding'
    BY <1>a, <2>2, <2>8, <2>9 DEF Holding, TrailTypeOK
  <2> QED
    BY <2>3, <2>5, <2>6, <2>7, <2>10, <2>11 DEF TrailTypeOK
<1>4. ASSUME NEW w \in Processes, Count(w) PROVE TrailTypeOK' /\ Holding'
  BY <1>4, <1>a DEF Count, TrailTypeOK, Holding, files, history, index
<1>5. ASSUME NEW w \in Processes, Replace(w) PROVE TrailTypeOK' /\ Holding'
  <2>1. /\ live' = Absent /\ archives' \in Seq(Seq(Record))
        /\ sameSecond' \in BOOLEAN /\ (sameSecond' => Len(archives') # 0)
        /\ UNCHANGED <<sink, ring, filled, queue, serving, held, indexed, written, turns>>
    BY <1>5, <1>a, ReplaceEffects DEF index
  <2> QED
    BY <1>5, <1>a, <2>1 DEF Replace, TrailTypeOK, Holding
<1>6. ASSUME NEW w \in Processes, Prune(w) PROVE TrailTypeOK' /\ Holding'
  <2>1. Newest(archives, Rotations) \in Seq(Seq(Record))
    BY <1>a, NewestShape DEF TrailTypeOK
  <2>2. Len(archives) # 0 => Len(Newest(archives, Rotations)) # 0
    <3>1. archives \in Seq(Seq(Record)) /\ Rotations \in Nat \ {0} /\ Len(archives) \in Nat
      BY <1>a DEF TrailTypeOK
    <3>2. Len(Newest(archives, Rotations)) = Len(archives) - Excess(archives, Rotations)
      BY <3>1, NewestShape
    <3> QED
      BY <3>1, <3>2 DEF Excess
  <2> QED
    BY <1>6, <1>a, <2>1, <2>2 DEF Prune, TrailTypeOK, Holding, index
<1>7. ASSUME NEW w \in Processes, Enqueue(w) PROVE TrailTypeOK' /\ Holding'
  <2>1. held[w] \in Record
    BY <1>7, <1>a DEF Enqueue, Holding, TrailTypeOK
  <2>2. Append(queue[w], held[w]) \in Seq(Record)
    BY <1>a, <2>1, AppendShape DEF TrailTypeOK
  <2>3. Newest(Append(queue[w], held[w]), QueueMax) \in Seq(Record)
    BY <2>2, NewestShape
  <2> QED
    BY <1>7, <1>a, <2>3 DEF Enqueue, TrailTypeOK, Holding, files, index
<1>8. ASSUME NEW w \in Processes, Drain(w) PROVE TrailTypeOK' /\ Holding'
  <2>1. PICK k \in 1 .. Len(queue[w]) :
          /\ queue' = [queue EXCEPT ![w] = SubSeq(queue[w], k + 1, Len(queue[w]))]
          /\ indexed' \subseteq indexed \cup ToSet(SubSeq(queue[w], 1, k))
    BY <1>8, <1>a, DrainTakes DEF index
  <2>2. SubSeq(queue[w], k + 1, Len(queue[w])) \in Seq(Record)
    BY <1>a DEF TrailTypeOK
  <2>3. indexed' \subseteq written
    <3>1. \A x \in ToSet(SubSeq(queue[w], 1, k)) : x \in written
      <4>1. \A x \in ToSet(SubSeq(queue[w], 1, k)) : \E i \in 1 .. k : queue[w][i] = x
        BY <1>a, FrontShape DEF TrailTypeOK
      <4>2. \A i \in 1 .. Len(queue[w]) : queue[w][i] \in written
        BY DEF Inv, Waiting
      <4> QED
        BY <4>1, <4>2
    <3> QED
      BY <2>1, <3>1, <1>a DEF TrailTypeOK
  <2>4. UNCHANGED <<sink, live, archives, sameSecond, ring, filled, serving, at, held, written, turns>>
    BY <1>8 DEF Drain, files
  <2>5. queue' \in [Processes -> Seq(Record)]
    BY <1>a, <2>1, <2>2 DEF TrailTypeOK
  <2> QED
    BY <1>a, <2>3, <2>4, <2>5 DEF TrailTypeOK, Holding
<1>9. ASSUME NEW w \in Processes, Crash(w) PROVE TrailTypeOK' /\ Holding'
  <2>1. PICK found \in Rehydrated(w) : ring' = [ring EXCEPT ![w] = found]
    BY <1>9 DEF Crash
  <2>2. Lines(live) # <<>> => found \in Seq(Record)
    <3>1. Lines(live) # <<>> => found = Newest(Lines(live), RingMax)
      <4>1. Lines(live) # <<>> => found = Newest(live, RingMax) /\ live # Absent
        BY <2>1 DEF Rehydrated, Tail_, Lines
      <4> QED
        BY <4>1 DEF Lines
    <3>2. Newest(Lines(live), RingMax) \in Seq(Record)
      BY <1>a, LinesShape, NewestShape
    <3> QED
      BY <3>1, <3>2
  <2>3. \A v \in Processes : filled'[v] = "file" => ring'[v] \in Seq(Record)
    BY <1>9, <1>a, <2>1, <2>2 DEF Crash, TrailTypeOK
  <2>4. <<>> \in Seq(Record)
    OBVIOUS
  <2> QED
    BY <1>9, <1>a, <2>1, <2>3, <2>4 DEF Crash, TrailTypeOK, Holding, index
<1>10. CASE NextSecond
  BY <1>10, <1>a DEF NextSecond, TrailTypeOK, Holding, history, index
<1>11. CASE UNCHANGED trailVars
  BY <1>11, <1>a DEF trailVars, TrailTypeOK, Holding, files, history, index
<1> QED
  BY <1>1, <1>2, <1>3, <1>4, <1>5, <1>6, <1>7, <1>8, <1>9, <1>10, <1>11 DEF TrailNext, Persist

-----------------------------------------------------------------------------
(* Turns: a record that is logged is new, and the newest of its turn.      *)

\* A step that starts no turn and logs nothing keeps the turns being served fresh.
LEMMA FreshStays ==
  ASSUME Fresh, UNCHANGED <<written, turns>>, \A v \in Processes : serving'[v] \in {serving[v], Absent}
  PROVE  Fresh'
BY DEF Fresh

\* A turn gets a number no turn had, and its records are numbered one after the other.
LEMMA NextFresh == Inv /\ [TrailNext]_trailVars => Fresh' /\ OneServer'
<1> SUFFICES ASSUME Inv, [TrailNext]_trailVars PROVE Fresh' /\ OneServer'
  OBVIOUS
<1>a. TrailTypeOK /\ Fresh /\ OneServer
  BY DEF Inv
<1>1. ASSUME NEW w \in Processes, BeginTurn(w) PROVE Fresh' /\ OneServer'
  <2>1. /\ turns' = turns + 1 /\ written' = written /\ turns \in Nat
        /\ serving' = [serving EXCEPT ![w] = [id |-> turns + 1, next |-> 1, server |-> w]]
    BY <1>1, <1>a DEF BeginTurn, history, TrailTypeOK
  <2>2. /\ \A v \in Processes : v # w => serving'[v] = serving[v]
        /\ serving'[w].id = turns + 1
    BY <2>1, <1>a DEF TrailTypeOK
  <2>3. \A r \in written : r.turn <= turns /\ r.turn \in Nat
    BY <1>a DEF Fresh, TrailTypeOK, Record
  <2>4. \A v \in Processes : serving[v] # Absent => serving[v].id <= turns /\ serving[v].id \in Nat
    BY <1>a DEF Fresh, TrailTypeOK, Serving
  <2>5. \A r \in written' : r.turn <= turns'
    BY <2>1, <2>3
  <2>6. ASSUME NEW v \in Processes, serving'[v] # Absent
        PROVE  /\ serving'[v].id <= turns'
               /\ \A r \in written' : r.turn = serving'[v].id => r.server = v /\ r.n < serving'[v].next
               /\ \A u \in Processes \ {v} : serving'[u] # Absent => serving'[u].id # serving'[v].id
    <3>1. CASE v = w
      BY <2>1, <2>2, <2>3, <2>4, <3>1
    <3>2. CASE v # w
      BY <2>1, <2>2, <2>4, <2>6, <3>2, <1>a DEF Fresh
    <3> QED
      BY <3>1, <3>2
  <2> QED
    BY <2>1, <2>5, <2>6, <1>a DEF Fresh, OneServer
<1>2. ASSUME NEW w \in Processes, Emit(w) PROVE Fresh' /\ OneServer'
  <2>1. /\ serving[w] # Absent /\ turns' = turns /\ written' = written \cup {Next_(w)}
        /\ serving' = [serving EXCEPT ![w] = IF serving[w].next = TurnLength THEN Absent
                                       ELSE [serving[w] EXCEPT !.next = serving[w].next + 1]]
    BY <1>2, EmitEffects
  <2>2. /\ Next_(w) \in Record /\ Next_(w).server = w /\ Next_(w).turn = serving[w].id
        /\ Next_(w).turn <= turns /\ Next_(w).n = serving[w].next
        /\ \A r \in written : r.turn = serving[w].id => r.server = w /\ r.n < serving[w].next
    BY <2>1, EmitIsNew DEF Next_
  <2>3. /\ \A v \in Processes : v # w => serving'[v] = serving[v]
        /\ serving'[w] # Absent => serving'[w].id = serving[w].id /\ serving'[w].next = serving[w].next + 1
        /\ serving[w].next \in Nat
    BY <2>1, <1>a DEF TrailTypeOK, Serving
  <2>4. OneServer'
    BY <2>1, <2>2, <1>a DEF OneServer
  <2>5. \A r \in written' : r.turn <= turns'
    BY <2>1, <2>2, <1>a DEF Fresh
  <2>6. ASSUME NEW v \in Processes, serving'[v] # Absent
        PROVE  /\ serving'[v].id <= turns'
               /\ \A r \in written' : r.turn = serving'[v].id => r.server = v /\ r.n < serving'[v].next
               /\ \A u \in Processes \ {v} : serving'[u] # Absent => serving'[u].id # serving'[v].id
    <3>0. \A r \in written : r.n \in Nat
      BY <1>a DEF TrailTypeOK, Record
    <3>1. CASE v = w
      BY <2>1, <2>2, <2>3, <2>6, <3>0, <3>1, <1>a DEF Fresh
    <3>2. CASE v # w
      BY <2>1, <2>2, <2>3, <2>6, <3>2, <1>a DEF Fresh
    <3> QED
      BY <3>1, <3>2
  <2> QED
    BY <2>4, <2>5, <2>6 DEF Fresh
<1>3. ASSUME NEW w \in Processes, AbandonTurn(w) \/ Crash(w) PROVE Fresh' /\ OneServer'
  <2>1. UNCHANGED <<written, turns>> /\ serving' = [serving EXCEPT ![w] = Absent]
    BY <1>3 DEF AbandonTurn, Crash, history
  <2>2. \A v \in Processes : serving'[v] \in {serving[v], Absent}
    BY <2>1, <1>a DEF TrailTypeOK
  <2> QED
    BY <2>1, <2>2, <1>a, FreshStays DEF OneServer
<1>4. ASSUME NEW w \in Processes, Persist(w) \/ Drain(w) PROVE Fresh' /\ OneServer'
  <2>1. UNCHANGED <<written, turns, serving>>
    BY <1>4 DEF Persist, Count, Replace, Prune, Enqueue, Drain, history
  <2> QED
    BY <2>1, <1>a, FreshStays DEF OneServer
<1>5. CASE NextSecond
  BY <1>5, <1>a, FreshStays DEF NextSecond, history, OneServer
<1>6. CASE UNCHANGED trailVars
  BY <1>6, <1>a, FreshStays DEF trailVars, history, OneServer
<1> QED
  BY <1>1, <1>2, <1>3, <1>4, <1>5, <1>6 DEF TrailNext

-----------------------------------------------------------------------------
(* The queue: each record waits once, and is indexed once.                 *)

\* What Waiting says of one worker.
InLine(w) ==
  /\ \A i \in 1 .. Len(queue[w]) :
       /\ queue[w][i] \in written \ indexed /\ queue[w][i].server = w
       /\ queue[w][i] # held[w]
       /\ \A j \in 1 .. Len(queue[w]) : queue[w][i] = queue[w][j] => i = j
  /\ held[w] # Absent => held[w] \in written \ indexed /\ held[w].server = w

\* A step that leaves a worker's queue and hand alone disturbs it only by indexing its records.
LEMMA WaitsStays ==
  ASSUME NEW v \in Processes, InLine(v), queue'[v] = queue[v], held'[v] = held[v],
         written \subseteq written', \A r \in indexed' \ indexed : r.server # v
  PROVE  InLine(v)'
BY DEF InLine

\* Queues hold new records once, whatever overflows, is drained, or dies.
LEMMA NextWaiting == Inv /\ [TrailNext]_trailVars => Waiting' /\ IndexedOnce'
<1> SUFFICES ASSUME Inv, [TrailNext]_trailVars PROVE Waiting' /\ IndexedOnce'
  OBVIOUS
<1> USE TrailAssumption
<1>a. TrailTypeOK /\ Holding /\ IndexedOnce /\ \A v \in Processes : InLine(v)
  BY DEF Inv, Waiting, InLine
<1>w. (\A v \in Processes : InLine(v)') => Waiting'
  BY DEF Waiting, InLine
<1>1. ASSUME NEW w \in Processes, Emit(w) PROVE Waiting' /\ IndexedOnce'
  <2>1. /\ serving[w] # Absent /\ held[w] = Absent
        /\ written' = written \cup {Next_(w)} /\ held' = [held EXCEPT ![w] = Next_(w)]
        /\ UNCHANGED <<queue, indexed, twice>>
    BY <1>1, EmitEffects DEF index
  <2>2. Next_(w) \notin written /\ Next_(w).server = w
    BY <2>1, EmitIsNew
  <2>3. InLine(w)'
    BY <2>1, <2>2, <1>a DEF InLine, TrailTypeOK
  <2>4. \A v \in Processes : v # w => InLine(v)'
    BY <2>1, <1>a, WaitsStays DEF TrailTypeOK
  <2> QED
    BY <1>w, <2>1, <2>3, <2>4, <1>a DEF IndexedOnce
<1>2. ASSUME NEW w \in Processes, Enqueue(w) PROVE Waiting' /\ IndexedOnce'
  <2> DEFINE all == Append(queue[w], held[w])
             d == Excess(all, QueueMax)
  <2>1. /\ held[w] # Absent /\ held[w] \in Record /\ queue[w] \in Seq(Record)
        /\ queue' = [queue EXCEPT ![w] = Newest(all, QueueMax)]
        /\ held' = [held EXCEPT ![w] = Absent]
        /\ UNCHANGED <<written, indexed, twice>>
    BY <1>2, <1>a DEF Enqueue, Holding, TrailTypeOK, index
  <2>2. /\ all \in Seq(Record) /\ Len(all) = Len(queue[w]) + 1
        /\ all[Len(queue[w]) + 1] = held[w]
        /\ \A k \in 1 .. Len(queue[w]) : all[k] = queue[w][k]
    BY <2>1
  <2>3. /\ Len(queue'[w]) = Len(all) - d /\ d \in 0 .. Len(all)
        /\ \A k \in 1 .. Len(queue'[w]) : queue'[w][k] = all[k + d]
    <3>1. queue'[w] = Newest(all, QueueMax) /\ QueueMax \in Nat
      BY <2>1, <1>a DEF TrailTypeOK
    <3>2. all \in Seq(Record)
      BY <2>2
    <3> HIDE DEF all
    <3>3. /\ Excess(all, QueueMax) \in 0 .. Len(all)
          /\ Len(Newest(all, QueueMax)) = Len(all) - Excess(all, QueueMax)
          /\ \A k \in 1 .. Len(Newest(all, QueueMax)) :
               Newest(all, QueueMax)[k] = all[k + Excess(all, QueueMax)]
      BY <3>1, <3>2, NewestShape
    <3> QED
      BY <3>1, <3>3
  <2>n. Len(all) \in Nat /\ d \in Nat
    BY <2>2, <2>3
  <2> HIDE DEF all, d
  <2>4. \A i \in 1 .. Len(all) :
          /\ all[i] \in written \ indexed /\ all[i].server = w
          /\ \A j \in 1 .. Len(all) : all[i] = all[j] => i = j
    <3> SUFFICES ASSUME NEW i \in 1 .. Len(all)
                 PROVE  /\ all[i] \in written \ indexed /\ all[i].server = w
                        /\ \A j \in 1 .. Len(all) : all[i] = all[j] => i = j
      OBVIOUS
    <3>1. \A j \in 1 .. Len(all) : j \in 1 .. Len(queue[w]) \/ j = Len(queue[w]) + 1
      BY <2>1, <2>2
    <3>2. InLine(w)
      BY <1>a
    <3> QED
      BY <2>1, <2>2, <3>1, <3>2 DEF InLine
  <2>5. InLine(w)'
    <3>1. held'[w] = Absent
      BY <2>1, <1>a DEF TrailTypeOK
    <3>2. \A k \in 1 .. Len(queue'[w]) : k + d \in 1 .. Len(all) /\ queue'[w][k] = all[k + d]
      BY <2>n, <2>3
    <3>3. \A k \in 1 .. Len(queue'[w]) : /\ queue'[w][k] \in written' \ indexed'
                                         /\ queue'[w][k].server = w
                                         /\ queue'[w][k] # held'[w]
      <4>1. \A r \in written : r # Absent
        BY AbsentAssumption, <1>a DEF TrailTypeOK
      <4> QED
        BY <2>1, <2>4, <3>1, <3>2, <4>1
    <3>4. \A k, j \in 1 .. Len(queue'[w]) : queue'[w][k] = queue'[w][j] => k = j
      <4> SUFFICES ASSUME NEW k \in 1 .. Len(queue'[w]), NEW j \in 1 .. Len(queue'[w]),
                          queue'[w][k] = queue'[w][j]
                   PROVE  k = j
        OBVIOUS
      <4>1. k + d = j + d
        BY <2>4, <3>2
      <4> QED
        BY <4>1, <2>n
    <3> QED
      BY <3>1, <3>3, <3>4 DEF InLine
  <2>6. \A v \in Processes : v # w => InLine(v)'
    BY <2>1, <1>a, WaitsStays DEF TrailTypeOK
  <2> QED
    BY <1>w, <2>1, <2>5, <2>6, <1>a DEF IndexedOnce
<1>3. ASSUME NEW w \in Processes, Drain(w) PROVE Waiting' /\ IndexedOnce'
  <2>1. PICK k \in 1 .. Len(queue[w]) :
          /\ queue' = [queue EXCEPT ![w] = SubSeq(queue[w], k + 1, Len(queue[w]))]
          /\ LET taken == ToSet(SubSeq(queue[w], 1, k))
             IN \/ /\ indexed' = indexed \cup taken /\ twice' = twice \cup (taken \cap indexed)
                   /\ lost' = lost
                \/ lost' = lost \cup taken /\ UNCHANGED index
    BY <1>3, <1>a, DrainTakes
  <2>2. held[w] = Absent /\ UNCHANGED <<held, written>>
    BY <1>3, <1>a DEF Drain, Holding
  <2>3. /\ queue[w] \in Seq(Record)
        /\ queue'[w] = SubSeq(queue[w], k + 1, Len(queue[w]))
        /\ \A v \in Processes : v # w => queue'[v] = queue[v]
    BY <2>1, <1>a DEF TrailTypeOK
  <2>4. /\ Len(queue'[w]) = Len(queue[w]) - k
        /\ \A i \in 1 .. (Len(queue[w]) - k) : queue'[w][i] = queue[w][i + k]
        /\ \A x \in ToSet(SubSeq(queue[w], 1, k)) : \E i \in 1 .. k : queue[w][i] = x
    <3> DEFINE q == queue[w]
    <3>1. q \in Seq(Record) /\ k \in 1 .. Len(q)
      BY <2>1, <2>3
    <3>2. queue'[w] = SubSeq(q, k + 1, Len(q))
      BY <2>3
    <3> HIDE DEF q
    <3>3. /\ Len(SubSeq(q, k + 1, Len(q))) = Len(q) - k
          /\ \A i \in 1 .. (Len(q) - k) : SubSeq(q, k + 1, Len(q))[i] = q[i + k]
          /\ \A x \in ToSet(SubSeq(q, 1, k)) : \E i \in 1 .. k : q[i] = x
      BY <3>1, FrontShape
    <3> QED
      BY <3>2, <3>3 DEF q
  <2>5. indexed' \subseteq indexed \cup ToSet(SubSeq(queue[w], 1, k))
    BY <2>1 DEF index
  <2>6. Len(queue[w]) \in Nat
    BY <2>3
  <2>7. \A x \in ToSet(SubSeq(queue[w], 1, k)) : x \notin indexed /\ x.server = w
    BY <2>4, <2>6, <1>a DEF InLine
  <2>8. IndexedOnce'
    <3>1. twice' = twice \/ twice' = twice \cup (ToSet(SubSeq(queue[w], 1, k)) \cap indexed)
      BY <2>1 DEF index
    <3> QED
      BY <3>1, <2>7, <1>a DEF IndexedOnce
  <2>9. InLine(w)'
    <3>1. \A i \in 1 .. Len(queue'[w]) : i + k \in 1 .. Len(queue[w]) /\ queue'[w][i] = queue[w][i + k]
      <4> SUFFICES ASSUME NEW i \in 1 .. Len(queue'[w])
                   PROVE  i + k \in 1 .. Len(queue[w]) /\ queue'[w][i] = queue[w][i + k]
        OBVIOUS
      <4>1. i \in 1 .. (Len(queue[w]) - k)
        BY <2>4
      <4>2. queue'[w][i] = queue[w][i + k]
        BY <2>4, <4>1
      <4>3. i + k \in 1 .. Len(queue[w])
        BY <2>6, <4>1
      <4> QED
        BY <4>2, <4>3
    <3>2. InLine(w)
      BY <1>a
    <3>3. ASSUME NEW i \in 1 .. Len(queue'[w]) PROVE queue'[w][i] \notin indexed'
      <4>1. \A j \in 1 .. k : queue[w][j] # queue[w][i + k]
        BY <3>1, <3>2, <2>4, <2>6 DEF InLine
      <4>2. queue'[w][i] \notin ToSet(SubSeq(queue[w], 1, k))
        BY <2>4, <3>1, <4>1
      <4>3. queue'[w][i] \notin indexed
        BY <3>1, <3>2 DEF InLine
      <4> QED
        BY <2>5, <4>2, <4>3
    <3>4. \A i, j \in 1 .. Len(queue'[w]) : queue'[w][i] = queue'[w][j] => i = j
      <4> SUFFICES ASSUME NEW i \in 1 .. Len(queue'[w]), NEW j \in 1 .. Len(queue'[w]),
                          queue'[w][i] = queue'[w][j]
                   PROVE  i = j
        OBVIOUS
      <4>1. i + k = j + k
        BY <3>1, <3>2 DEF InLine
      <4>2. i \in Nat /\ j \in Nat /\ k \in Nat
        BY <2>6, <2>4
      <4> QED
        BY <4>1, <4>2
    <3>5. \A i \in 1 .. Len(queue'[w]) :
            queue'[w][i] \in written' /\ queue'[w][i].server = w /\ queue'[w][i] # held'[w]
      BY <2>2, <3>1, <3>2 DEF InLine
    <3> QED
      BY <2>2, <3>3, <3>4, <3>5 DEF InLine
  <2>10. \A v \in Processes : v # w => InLine(v)'
    BY <2>2, <2>3, <2>5, <2>7, <1>a, WaitsStays
  <2> QED
    BY <1>w, <2>8, <2>9, <2>10
<1>4. ASSUME NEW w \in Processes, Crash(w) PROVE Waiting' /\ IndexedOnce'
  <2>1. /\ queue' = [queue EXCEPT ![w] = <<>>] /\ held' = [held EXCEPT ![w] = Absent]
        /\ UNCHANGED <<written, indexed, twice>>
    BY <1>4 DEF Crash, index
  <2>2. InLine(w)'
    <3>1. queue'[w] = <<>> /\ held'[w] = Absent
      BY <2>1, <1>a DEF TrailTypeOK
    <3>2. Len(queue'[w]) = 0
      BY <3>1
    <3> QED
      BY <3>1, <3>2 DEF InLine
  <2>3. \A v \in Processes : v # w => InLine(v)'
    BY <2>1, <1>a, WaitsStays DEF TrailTypeOK
  <2> QED
    BY <1>w, <2>1, <2>2, <2>3, <1>a DEF IndexedOnce
<1>5. ASSUME NEW w \in Processes, BeginTurn(w) \/ AbandonTurn(w) \/ Count(w) \/ Replace(w) \/ Prune(w)
      PROVE  Waiting' /\ IndexedOnce'
  <2>1. UNCHANGED <<queue, held, written, indexed, twice>>
    BY <1>5 DEF BeginTurn, AbandonTurn, Count, Replace, Prune, history, index
  <2> QED
    BY <1>w, <2>1, <1>a, WaitsStays DEF IndexedOnce
<1>6. CASE NextSecond \/ UNCHANGED trailVars
  <2>1. UNCHANGED <<queue, held, written, indexed, twice>>
    BY <1>6 DEF NextSecond, trailVars, history, index
  <2> QED
    BY <1>w, <2>1, <1>a, WaitsStays DEF IndexedOnce
<1> QED
  BY <1>1, <1>2, <1>3, <1>4, <1>5, <1>6 DEF TrailNext, Persist

-----------------------------------------------------------------------------
(* The order of a turn's records, in the file and in the rings.            *)

\* A worker's records in s stay in order when another worker logs a record of its own turn.
LEMMA OrderedOther ==
  ASSUME NEW s, NEW w, NEW recs, NEW rec, Ordered(s, w, recs),
         \A i \in 1 .. Len(s) : s[i] \in recs,
         \A r \in recs : r.turn = rec.turn => r.server # w
  PROVE  Ordered(s, w, recs \cup {rec})
BY DEF Ordered

\* Logging adds to the end of the file and of one ring, and a restart fills a ring from the
\* end of the file: neither gets a record of a turn before an earlier one of it.
LEMMA NextInOrder == Inv /\ [TrailNext]_trailVars => InOrder'
<1> SUFFICES ASSUME Inv, [TrailNext]_trailVars PROVE InOrder'
  OBVIOUS
<1> DEFINE RingInOrder(v) == filled[v] = "file" =>
             /\ \A i \in 1 .. Len(ring[v]) : ring[v][i] \in written
             /\ Ordered(ring[v], v, written)
           FileInOrder == /\ \A i \in 1 .. Len(Lines(live)) : Lines(live)[i] \in written
                          /\ \A v \in Processes : Ordered(Lines(live), v, written)
<1>a. TrailTypeOK /\ InOrder /\ FileInOrder /\ \A v \in Processes : RingInOrder(v)
  BY DEF Inv, InOrder
<1>b. RingMax \in Nat /\ Lines(live) \in Seq(Record) /\ written \in SUBSET Record
  BY <1>a, LinesShape, TrailAssumption DEF TrailTypeOK
<1>c. FileInOrder' /\ (\A v \in Processes : RingInOrder(v)') => InOrder'
  BY DEF InOrder
<1>d. \A v \in Processes : UNCHANGED <<ring[v], filled[v], written>> => RingInOrder(v)'
  BY <1>a
<1>e. UNCHANGED <<live, written>> => FileInOrder'
  BY <1>a
<1>1. ASSUME NEW w \in Processes, Emit(w) PROVE InOrder'
  <2> DEFINE rec == Next_(w)
  <2>1. /\ serving[w] # Absent
        /\ ring' = [ring EXCEPT ![w] = Newest(Append(ring[w], rec), RingMax)]
        /\ live' = Append(Lines(live), rec) /\ Lines(live') = live'
        /\ written' = written \cup {rec}
        /\ filled' = filled
    BY <1>1, EmitEffects
  <2>2. rec \in Record /\ \A r \in written : r.turn = rec.turn => r.server = w /\ r.n < rec.n
    BY <2>1, EmitIsNew
  <2> HIDE DEF rec
  <2>3. FileInOrder'
    <3> DEFINE file == Lines(live)
    <3>1. /\ Len(Append(file, rec)) = Len(file) + 1 /\ Append(file, rec)[Len(file) + 1] = rec
          /\ \A k \in 1 .. Len(file) : Append(file, rec)[k] = file[k]
      BY <1>b, <2>2, AppendShape
    <3>2. \A v \in Processes : Ordered(Append(file, rec), v, written \cup {rec})
      BY <1>a, <1>b, <2>2, OrderedAppend
    <3>3. \A i \in 1 .. Len(Append(file, rec)) : Append(file, rec)[i] \in written \cup {rec}
      <4>1. Len(file) \in Nat /\ \A k \in 1 .. Len(file) : file[k] \in written
        BY <1>a, <1>b
      <4> QED
        BY <3>1, <4>1
    <3> QED
      BY <2>1, <3>2, <3>3
  <2>4. ASSUME NEW v \in Processes, v # w PROVE RingInOrder(v)'
    <3>1. ring'[v] = ring[v]
      BY <2>1, <2>4, <1>a DEF TrailTypeOK
    <3>2. filled[v] = "file" => Ordered(ring[v], v, written \cup {rec})
      BY <1>a, <2>2, <2>4, OrderedOther
    <3> QED
      BY <1>a, <2>1, <3>1, <3>2
  <2>5. RingInOrder(w)'
    <3> SUFFICES ASSUME filled[w] = "file"
                 PROVE  /\ \A i \in 1 .. Len(ring'[w]) : ring'[w][i] \in written'
                        /\ Ordered(ring'[w], w, written')
      BY <2>1
    <3> DEFINE old == ring[w]
               s == Append(old, rec)
    <3>1. old \in Seq(Record) /\ Ordered(old, w, written)
          /\ \A i \in 1 .. Len(old) : old[i] \in written
      BY <1>a DEF TrailTypeOK
    <3>2. ring'[w] = Newest(s, RingMax)
      BY <2>1, <1>a DEF TrailTypeOK
    <3> HIDE DEF old
    <3>3. /\ s \in Seq(Record) /\ Len(s) = Len(old) + 1 /\ s[Len(old) + 1] = rec
          /\ \A k \in 1 .. Len(old) : s[k] = old[k]
      BY <3>1, <2>2, AppendShape
    <3>4. Ordered(s, w, written')
      BY <3>1, <2>1, <2>2, <1>b, OrderedAppend
    <3>5. Len(old) \in Nat
      BY <3>1
    <3> HIDE DEF s
    <3>6. \A k \in 1 .. Len(s) : s[k] \in written'
      BY <3>1, <3>3, <3>5, <2>1
    <3>7. Ordered(ring'[w], w, written')
      BY <3>2, <3>3, <3>4, <1>b, OrderedNewest
    <3>8. /\ Excess(s, RingMax) \in 0 .. Len(s) /\ Len(s) \in Nat
          /\ Len(ring'[w]) = Len(s) - Excess(s, RingMax)
          /\ \A k \in 1 .. Len(ring'[w]) : ring'[w][k] = s[k + Excess(s, RingMax)]
      BY <3>2, <3>3, <1>b, NewestShape
    <3>9. \A k \in 1 .. Len(ring'[w]) : k + Excess(s, RingMax) \in 1 .. Len(s)
      BY <3>8
    <3> QED
      BY <3>6, <3>7, <3>8, <3>9
  <2> QED
    BY <1>c, <2>3, <2>4, <2>5
<1>2. ASSUME NEW w \in Processes, Crash(w) PROVE InOrder'
  <2>1. PICK found \in Rehydrated(w) : ring' = [ring EXCEPT ![w] = found]
    BY <1>2 DEF Crash
  <2>2. /\ UNCHANGED <<live, written>>
        /\ filled' = [filled EXCEPT ![w] = IF Lines(live) = <<>> THEN "index" ELSE "file"]
    BY <1>2 DEF Crash
  <2>3. \A v \in Processes : v # w => RingInOrder(v)'
    BY <1>d, <2>1, <2>2, <1>a DEF TrailTypeOK
  <2>4. RingInOrder(w)'
    <3> SUFFICES ASSUME filled'[w] = "file"
                 PROVE  /\ \A i \in 1 .. Len(ring'[w]) : ring'[w][i] \in written
                        /\ Ordered(ring'[w], w, written)
      BY <2>2
    <3> DEFINE file == Lines(live)
    <3>1. file # <<>>
      BY <2>2, <1>a DEF TrailTypeOK
    <3>2. ring'[w] = Newest(file, RingMax)
      <4>1. found = Newest(live, RingMax) /\ live # Absent
        BY <2>1, <3>1 DEF Rehydrated, Tail_, Lines
      <4> QED
        BY <2>1, <4>1, <1>a DEF Lines, TrailTypeOK
    <3>3. file \in Seq(Record) /\ Ordered(file, w, written)
          /\ \A i \in 1 .. Len(file) : file[i] \in written
      BY <1>a, <1>b
    <3> HIDE DEF file
    <3>4. Ordered(ring'[w], w, written)
      BY <3>2, <3>3, <1>b, OrderedNewest
    <3>5. /\ Excess(file, RingMax) \in 0 .. Len(file) /\ Len(file) \in Nat
          /\ Len(ring'[w]) = Len(file) - Excess(file, RingMax)
          /\ \A k \in 1 .. Len(ring'[w]) : ring'[w][k] = file[k + Excess(file, RingMax)]
      BY <3>2, <3>3, <1>b, NewestShape
    <3>6. \A k \in 1 .. Len(ring'[w]) : k + Excess(file, RingMax) \in 1 .. Len(file)
      BY <3>5
    <3> QED
      BY <3>3, <3>4, <3>5, <3>6
  <2> QED
    BY <1>c, <1>e, <2>2, <2>3, <2>4
<1>3. ASSUME NEW w \in Processes, Replace(w) PROVE InOrder'
  <2>1. live' = Absent /\ UNCHANGED <<written, ring, filled>>
    BY <1>3 DEF Replace
  <2>2. Len(Lines(live')) = 0
    BY <2>1 DEF Lines
  <2>3. FileInOrder'
    BY <2>2 DEF Ordered
  <2> QED
    BY <1>c, <1>d, <2>1, <2>3
<1>4. ASSUME NEW w \in Processes,
             BeginTurn(w) \/ AbandonTurn(w) \/ Count(w) \/ Prune(w) \/ Enqueue(w) \/ Drain(w)
      PROVE  InOrder'
  <2>1. UNCHANGED <<live, written, ring, filled>>
    BY <1>4 DEF BeginTurn, AbandonTurn, Count, Prune, Enqueue, Drain, files, history
  <2> QED
    BY <1>c, <1>d, <1>e, <2>1
<1>5. CASE NextSecond \/ UNCHANGED trailVars
  <2>1. UNCHANGED <<live, written, ring, filled>>
    BY <1>5 DEF trailVars, files, history, NextSecond
  <2> QED
    BY <1>c, <1>d, <1>e, <2>1
<1> QED
  BY <1>1, <1>2, <1>3, <1>4, <1>5 DEF TrailNext, Persist

-----------------------------------------------------------------------------
(* Records leave the files only with an archive.                           *)

\* Where a record of the trail may be.
InTrail(r) == \/ r \in ToSet(Lines(live))
              \/ \E i \in 1 .. Len(archives) : r \in ToSet(archives[i])
              \/ r \in pruned \cup overwritten
OnWay(r)   == \/ \E w \in Processes : r \in ToSet(queue[w]) \/ r = held[w]
              \/ r \in indexed \/ r \in lost

\* The property, record by record.
LEMMA KeptShape ==
  /\ TrailTypeOK => (TrailIsKept <=> \A r \in written : InTrail(r) /\ OnWay(r))
  /\ TrailTypeOK' => (TrailIsKept' <=> \A r \in written' : InTrail(r)' /\ OnWay(r)')
<1>1. TrailTypeOK => \A r \in written : r # Absent
  BY AbsentAssumption DEF TrailTypeOK
<1>2. TrailTypeOK' => \A r \in written' : r # Absent
  BY AbsentAssumption DEF TrailTypeOK
<1>3. \A r : r \in OnFile \cup pruned \cup overwritten <=> InTrail(r)
  BY DEF OnFile, InTrail
<1>4. \A r : (r \in OnFile \cup pruned \cup overwritten)' <=> InTrail(r)'
  BY DEF OnFile, InTrail
<1>5. \A r : r # Absent => (r \in OnItsWay \cup indexed \cup lost <=> OnWay(r))
  <2>1. ASSUME NEW r, r # Absent PROVE r \in OnItsWay <=> \E w \in Processes : r \in ToSet(queue[w]) \/ r = held[w]
    <3> DEFINE Q == UNION {ToSet(queue[w]) : w \in Processes}
               H == {held[w] : w \in Processes}
    <3>1. r \in Q <=> \E w \in Processes : r \in ToSet(queue[w])
      OBVIOUS
    <3>2. r \in H <=> \E w \in Processes : r = held[w]
      OBVIOUS
    <3>3. OnItsWay = Q \cup (H \ {Absent})
      BY DEF OnItsWay
    <3> HIDE DEF Q, H
    <3>4. r \in OnItsWay <=> r \in Q \/ r \in H
      BY <2>1, <3>3
    <3> QED
      BY <3>1, <3>2, <3>4
  <2> QED
    BY <2>1 DEF OnWay
<1>6. \A r : r # Absent => ((r \in OnItsWay \cup indexed \cup lost)' <=> OnWay(r)')
  <2>1. ASSUME NEW r, r # Absent PROVE r \in OnItsWay' <=> \E w \in Processes : r \in ToSet(queue'[w]) \/ r = held'[w]
    <3> DEFINE Q == UNION {ToSet(queue'[w]) : w \in Processes}
               H == {held'[w] : w \in Processes}
    <3>1. r \in Q <=> \E w \in Processes : r \in ToSet(queue'[w])
      OBVIOUS
    <3>2. r \in H <=> \E w \in Processes : r = held'[w]
      OBVIOUS
    <3>3. OnItsWay' = Q \cup (H \ {Absent})
      BY DEF OnItsWay
    <3> HIDE DEF Q, H
    <3>4. r \in OnItsWay' <=> r \in Q \/ r \in H
      BY <2>1, <3>3
    <3> QED
      BY <3>1, <3>2, <3>4
  <2> QED
    BY <2>1 DEF OnWay
<1>7. TrailTypeOK => (TrailIsKept <=> \A r \in written : InTrail(r) /\ OnWay(r))
  BY <1>1, <1>3, <1>5 DEF TrailIsKept
<1>8. TrailTypeOK' => (TrailIsKept' <=> \A r \in written' : InTrail(r)' /\ OnWay(r)')
  BY <1>2, <1>4, <1>6 DEF TrailIsKept
<1> QED
  BY <1>7, <1>8

\* No rotation, and no two at once, takes a record from the file that is not in an archive,
\* unless it overwrites the archive of its second.
LEMMA NextInTrail ==
  Inv /\ [TrailNext]_trailVars => \A r \in written' : InTrail(r)'
<1> SUFFICES ASSUME Inv, [TrailNext]_trailVars, NEW r \in written' PROVE InTrail(r)'
  OBVIOUS
<1>a. TrailTypeOK /\ \A q \in written : InTrail(q)
  BY KeptShape DEF Inv
<1>b. Lines(live) \in Seq(Record) /\ archives \in Seq(Seq(Record)) /\ Rotations \in Nat
  BY <1>a, LinesShape, TrailAssumption DEF TrailTypeOK
<1>1. ASSUME NEW w \in Processes, Emit(w) PROVE InTrail(r)'
  <2> DEFINE rec == Next_(w)
             file == Lines(live)
  <2>1. /\ serving[w] # Absent /\ Lines(live') = Append(file, rec)
        /\ written' = written \cup {rec} /\ UNCHANGED <<archives, pruned, overwritten>>
    BY <1>1, EmitEffects
  <2>2. rec \in Record
    BY <2>1, EmitIsNew
  <2>3. ToSet(Append(file, rec)) = ToSet(file) \cup {rec}
    <3> HIDE DEF rec, file
    <3>1. file \in Seq(Record)
      BY <1>b DEF file
    <3>2. /\ Append(file, rec) \in Seq(Record) /\ Len(Append(file, rec)) = Len(file) + 1
          /\ Append(file, rec)[Len(file) + 1] = rec /\ Len(file) \in Nat
          /\ \A k \in 1 .. Len(file) : Append(file, rec)[k] = file[k]
      BY <2>2, <3>1, AppendShape
    <3>3. DOMAIN Append(file, rec) = 1 .. (Len(file) + 1) /\ DOMAIN file = 1 .. Len(file)
      BY <3>1, <3>2
    <3>4. 1 .. (Len(file) + 1) = 1 .. Len(file) \cup {Len(file) + 1}
      BY <3>2
    <3> QED
      BY <3>2, <3>3, <3>4 DEF ToSet
  <2> QED
    BY <2>1, <2>3, <1>a DEF InTrail
<1>2. ASSUME NEW w \in Processes, Replace(w) PROVE InTrail(r)'
  <2>1. r \in written /\ pruned' = pruned
    BY <1>2 DEF Replace
  <2> QED
    BY <1>2, <2>1, <1>a, ReplaceEffects DEF InTrail
<1>3. ASSUME NEW w \in Processes, Prune(w) PROVE InTrail(r)'
  <2> DEFINE d == Excess(archives, Rotations)
  <2>1. /\ UNCHANGED <<live, written>> /\ archives' = Newest(archives, Rotations)
        /\ pruned' = pruned \cup UNION {ToSet(archives[i]) : i \in 1 .. (Len(archives) - Len(archives'))}
        /\ overwritten' = overwritten
    BY <1>3 DEF Prune
  <2>2. /\ d \in 0 .. Len(archives) /\ Len(archives') = Len(archives) - d
        /\ \A k \in 1 .. Len(archives') : archives'[k] = archives[k + d]
        /\ Len(archives) \in Nat
    BY <2>1, <1>b, NewestShape
  <2> HIDE DEF d
  <2>3. CASE \E i \in 1 .. Len(archives) : r \in ToSet(archives[i])
    <3>1. PICK i \in 1 .. Len(archives) : r \in ToSet(archives[i])
      BY <2>3
    <3>2. CASE i <= d
      <4>1. i \in 1 .. (Len(archives) - Len(archives'))
        BY <2>2, <3>2
      <4> QED
        BY <2>1, <3>1, <4>1 DEF InTrail
    <3>3. CASE i > d
      <4>1. i - d \in 1 .. Len(archives') /\ (i - d) + d = i
        BY <2>2, <3>3
      <4>2. archives'[i - d] = archives[i]
        BY <2>2, <4>1
      <4> QED
        BY <3>1, <4>1, <4>2 DEF InTrail
    <3> QED
      BY <2>2, <3>2, <3>3
  <2>4. CASE r \in ToSet(Lines(live)) \/ r \in pruned \cup overwritten
    BY <2>1, <2>4 DEF InTrail
  <2> QED
    BY <2>1, <2>3, <2>4, <1>a DEF InTrail
<1>4. ASSUME NEW w \in Processes, BeginTurn(w) \/ AbandonTurn(w) \/ Count(w) \/ Enqueue(w)
                                \/ Drain(w) \/ Crash(w)
      PROVE  InTrail(r)'
  <2>1. UNCHANGED <<live, archives, pruned, overwritten, written>>
    BY <1>4 DEF BeginTurn, AbandonTurn, Count, Enqueue, Drain, Crash, files, history
  <2> QED
    BY <2>1, <1>a DEF InTrail
<1>5. CASE NextSecond
  BY <1>5, <1>a DEF NextSecond, history, InTrail
<1>6. CASE UNCHANGED trailVars
  BY <1>6, <1>a DEF trailVars, files, history, InTrail
<1> QED
  BY <1>1, <1>2, <1>3, <1>4, <1>5, <1>6 DEF TrailNext, Persist

\* What leaves a worker's hand or queue is indexed or counted as lost.
LEMMA NextOnWay ==
  Inv /\ [TrailNext]_trailVars => \A r \in written' : OnWay(r)'
<1> SUFFICES ASSUME Inv, [TrailNext]_trailVars, NEW r \in written' PROVE OnWay(r)'
  OBVIOUS
<1>a. TrailTypeOK /\ Holding /\ \A q \in written : OnWay(q)
  BY KeptShape DEF Inv
<1>1. ASSUME NEW w \in Processes, Emit(w) PROVE OnWay(r)'
  <2>1. /\ held[w] = Absent /\ written' = written \cup {Next_(w)}
        /\ held' = [held EXCEPT ![w] = Next_(w)] /\ UNCHANGED <<queue, indexed, lost>>
    BY <1>1, EmitEffects DEF index
  <2>2. \A q \in written : q # Absent
    BY AbsentAssumption, <1>a DEF TrailTypeOK
  <2> QED
    BY <2>1, <2>2, <1>a DEF OnWay, TrailTypeOK
<1>2. ASSUME NEW w \in Processes, Enqueue(w) PROVE OnWay(r)'
  <2> DEFINE all == Append(queue[w], held[w])
  <2>1. /\ held[w] \in Record /\ queue[w] \in Seq(Record)
        /\ UNCHANGED <<written, indexed>>
        /\ lost' = lost \cup (ToSet(all) \ ToSet(queue'[w]))
        /\ \A v \in Processes : v # w => queue'[v] = queue[v] /\ held'[v] = held[v]
    BY <1>2, <1>a DEF Enqueue, Holding, TrailTypeOK, index
  <2>2. /\ all \in Seq(Record) /\ Len(all) = Len(queue[w]) + 1
        /\ all[Len(queue[w]) + 1] = held[w]
        /\ \A k \in 1 .. Len(queue[w]) : all[k] = queue[w][k]
        /\ Len(queue[w]) \in Nat
    BY <2>1
  <2> HIDE DEF all
  <2>3. ASSUME r \in ToSet(queue[w]) \/ r = held[w] PROVE r \in ToSet(all)
    <3>1. \A i \in 1 .. Len(all) : all[i] \in ToSet(all)
      BY <2>2, ToSetShape
    <3>2. r \in ToSet(queue[w]) => \E i \in 1 .. Len(queue[w]) : queue[w][i] = r
      BY <2>1, ToSetShape
    <3>3. Len(queue[w]) + 1 \in 1 .. Len(all) /\ \A k \in 1 .. Len(queue[w]) : k \in 1 .. Len(all)
      BY <2>2
    <3> QED
      BY <2>2, <2>3, <3>1, <3>2, <3>3
  <2> QED
    BY <2>1, <2>3, <1>a DEF OnWay
<1>3. ASSUME NEW w \in Processes, Drain(w) PROVE OnWay(r)'
  <2>1. PICK k \in 1 .. Len(queue[w]) :
          /\ queue' = [queue EXCEPT ![w] = SubSeq(queue[w], k + 1, Len(queue[w]))]
          /\ LET taken == ToSet(SubSeq(queue[w], 1, k))
             IN \/ /\ indexed' = indexed \cup taken /\ twice' = twice \cup (taken \cap indexed)
                   /\ lost' = lost
                \/ lost' = lost \cup taken /\ UNCHANGED index
    BY <1>3, <1>a, DrainTakes
  <2>2. /\ UNCHANGED <<held, written>> /\ queue[w] \in Seq(Record)
        /\ \A v \in Processes : v # w => queue'[v] = queue[v]
        /\ queue'[w] = SubSeq(queue[w], k + 1, Len(queue[w]))
    BY <1>3, <2>1, <1>a DEF Drain, TrailTypeOK
  <2>3. /\ indexed \subseteq indexed' /\ lost \subseteq lost'
        /\ ToSet(SubSeq(queue[w], 1, k)) \subseteq indexed' \cup lost'
    BY <2>1 DEF index
  <2>4. ASSUME r \in ToSet(queue[w])
        PROVE  r \in ToSet(queue'[w]) \/ r \in ToSet(SubSeq(queue[w], 1, k))
    <3> DEFINE q == queue[w]
    <3>1. q \in Seq(Record) /\ k \in 1 .. Len(q) /\ Len(q) \in Nat
      BY <2>1, <2>2
    <3>2. queue'[w] = SubSeq(q, k + 1, Len(q)) /\ r \in ToSet(q)
      BY <2>2, <2>4
    <3> HIDE DEF q
    <3>3. PICK i \in 1 .. Len(q) : q[i] = r
      BY <3>1, <3>2, ToSetShape
    <3>4. CASE i \in 1 .. k
      BY <3>1, <3>3, <3>4, FrontShape DEF q
    <3>5. CASE i - k \in 1 .. (Len(q) - k)
      <4>1. /\ SubSeq(q, k + 1, Len(q)) \in Seq(Record)
            /\ Len(SubSeq(q, k + 1, Len(q))) = Len(q) - k
            /\ \A j \in 1 .. (Len(q) - k) : SubSeq(q, k + 1, Len(q))[j] = q[j + k]
        BY <3>1, FrontShape
      <4>2. (i - k) + k = i
        BY <3>1
      <4>3. SubSeq(q, k + 1, Len(q))[i - k] = r
        BY <4>1, <4>2, <3>3, <3>5
      <4>4. \A j \in 1 .. (Len(q) - k) : SubSeq(q, k + 1, Len(q))[j] \in ToSet(SubSeq(q, k + 1, Len(q)))
        BY <4>1, ToSetShape
      <4> QED
        BY <3>2, <3>5, <4>3, <4>4
    <3> QED
      BY <3>1, <3>4, <3>5
  <2> QED
    BY <2>2, <2>3, <2>4, <1>a DEF OnWay
<1>4. ASSUME NEW w \in Processes, Crash(w) PROVE OnWay(r)'
  <2>1. /\ UNCHANGED <<written, indexed>>
        /\ lost \subseteq lost' /\ ToSet(queue[w]) \subseteq lost'
        /\ held[w] # Absent => held[w] \in lost'
        /\ \A v \in Processes : v # w => queue'[v] = queue[v] /\ held'[v] = held[v]
    BY <1>4, <1>a DEF Crash, TrailTypeOK, index
  <2>2. r # Absent
    BY <2>1, AbsentAssumption, <1>a DEF TrailTypeOK
  <2> QED
    BY <2>1, <2>2, <1>a DEF OnWay
<1>5. ASSUME NEW w \in Processes, BeginTurn(w) \/ AbandonTurn(w) \/ Count(w) \/ Replace(w) \/ Prune(w)
      PROVE  OnWay(r)'
  <2>1. UNCHANGED <<queue, held, indexed, lost, written>>
    BY <1>5 DEF BeginTurn, AbandonTurn, Count, Replace, Prune, history, index
  <2> QED
    BY <2>1, <1>a DEF OnWay
<1>6. CASE NextSecond \/ UNCHANGED trailVars
  BY <1>6, <1>a DEF NextSecond, trailVars, history, index, OnWay
<1> QED
  BY <1>1, <1>2, <1>3, <1>4, <1>5, <1>6 DEF TrailNext, Persist

-----------------------------------------------------------------------------
(* The theorems.                                                           *)

\* The audit trail keeps its invariant from the start, whatever the index is.
LEMMA TrailInvariant == TrailSpec => []Inv
<1>1. TrailInit => Inv
  <2> SUFFICES ASSUME TrailInit PROVE Inv
    OBVIOUS
  <2>1. Lines(live) = <<>> /\ Len(<<>>) = 0
    BY DEF TrailInit, Lines
  <2>2. TrailTypeOK
    <3>1. <<>> \in Seq(Record) /\ <<>> \in Seq(Seq(Record))
      OBVIOUS
    <3> QED
      BY <3>1 DEF TrailInit, TrailTypeOK
  <2>3. Holding /\ Fresh /\ OneServer /\ TrailIsKept /\ IndexedOnce
    BY DEF TrailInit, Holding, Fresh, OneServer, TrailIsKept, IndexedOnce
  <2>4. Waiting
    BY <2>1 DEF TrailInit, Waiting
  <2>5. InOrder
    BY <2>1 DEF TrailInit, InOrder, Ordered
  <2> QED
    BY <2>2, <2>3, <2>4, <2>5 DEF Inv
<1>2. Inv /\ [TrailNext]_trailVars => Inv'
  <2> SUFFICES ASSUME Inv, [TrailNext]_trailVars PROVE Inv'
    OBVIOUS
  <2>1. TrailTypeOK' /\ Holding' /\ Fresh' /\ OneServer' /\ Waiting' /\ IndexedOnce' /\ InOrder'
    BY NextType, NextFresh, NextWaiting, NextInOrder
  <2>2. TrailIsKept'
    BY <2>1, NextInTrail, NextOnWay, KeptShape
  <2> QED
    BY <2>1, <2>2 DEF Inv
<1> QED
  BY <1>1, <1>2, PTL DEF TrailSpec

\* Whatever two workers do to the shared file at once, and whenever they die, a record is in
\* the file or an archive unless its archive was pruned or was overwritten by a rotation within
\* the same second, it is on its way to the index, in it
\* or lost for a named cause, and no record is indexed twice (_persist_record,
\* _trim_metrics_file, flush_audit_sink).
THEOREM TrailKeepsRecords == TrailSpec => []EveryRecordOnce
<1>1. Inv => EveryRecordOnce
  BY DEF Inv, EveryRecordOnce
<1> QED
  BY <1>1, TrailInvariant, PTL

\* The console of the worker that served a turn never shows it as running when it has its
\* answer, unless the worker's ring was filled from the index (_recent_turns, _turn_timeline,
\* load_persisted_metrics).
THEOREM ConsoleShowsAnswers == TrailSpec => []AnsweredIsShownDone
<1>1. Inv => AnsweredIsShownDone
  <2> SUFFICES ASSUME Inv, NEW w \in Processes, filled[w] = "file",
                      NEW r \in written, r.server = w, r.n = TurnLength, r.turn \in Listed(w)
               PROVE  ShownDone(w, r.turn)
    BY DEF AnsweredIsShownDone
  <2>1. /\ ring[w] \in Seq(Record) /\ OneServer /\ written \subseteq Record
        /\ \A i \in 1 .. Len(ring[w]) : ring[w][i] \in written
        /\ Ordered(ring[w], w, written)
    BY DEF Inv, TrailTypeOK, InOrder
  <2>2. PICK x \in ToSet(ring[w]) : x.turn = r.turn /\ x.n \in {1, TurnLength}
    BY DEF Listed
  <2>3. PICK i \in 1 .. Len(ring[w]) : ring[w][i] = x
    BY <2>1, <2>2, ToSetShape
  <2>4. x.server = w
    BY <2>1, <2>2, <2>3 DEF OneServer
  <2>5. CASE x.n = TurnLength
    BY <2>2, <2>5 DEF ShownDone
  <2>6. CASE x.n = 1 /\ TurnLength # 1
    <3>1. r.n > x.n
      BY <2>6, TrailAssumption
    <3>2. PICK j \in (i + 1) .. Len(ring[w]) : ring[w][j] = r
      BY <2>1, <2>2, <2>3, <2>4, <3>1 DEF Ordered
    <3>3. j \in 1 .. Len(ring[w])
      BY <2>3, <3>2
    <3>4. r \in ToSet(ring[w])
      BY <2>1, <3>2, <3>3, ToSetShape
    <3> QED
      BY <3>4 DEF ShownDone
  <2> QED
    BY <2>2, <2>5, <2>6
<1> QED
  BY <1>1, TrailInvariant, PTL

-----------------------------------------------------------------------------
(* The workflow engine.                                                    *)

-----------------------------------------------------------------------------
(* Flows and turns by their fields, and what an action makes of them.      *)

FlowOf(wf, node, bag, lists, switch, shown, basis, under) ==
  [wf |-> wf, node |-> node, bag |-> bag, lists |-> lists, switch |-> switch,
   shown |-> shown, basis |-> basis, under |-> under]
TurnOf(worker, version, f, approved, wrote, found, verifying) ==
  [worker |-> worker, version |-> version, flow |-> f, approved |-> approved,
   wrote |-> wrote, found |-> found, verifying |-> verifying]

IsFlow(f) == f = FlowOf(f.wf, f.node, f.bag, f.lists, f.switch, f.shown, f.basis, f.under)
IsTurn(t) ==
  /\ t = TurnOf(t.worker, t.version, t.flow, t.approved, t.wrote, t.found, t.verifying)
  /\ IsFlow(t.flow)

Shaped == (flow # None => IsFlow(flow)) /\ (turn # None => IsTurn(turn))

\* The fields of a flow, and of a turn.
LEMMA FlowFields ==
  ASSUME NEW a, NEW b, NEW c, NEW d, NEW e, NEW h, NEW i, NEW j,
         NEW f, f = FlowOf(a, b, c, d, e, h, i, j)
  PROVE  /\ f.wf = a /\ f.node = b /\ f.bag = c /\ f.lists = d
         /\ f.switch = e /\ f.shown = h /\ f.basis = i /\ f.under = j
         /\ IsFlow(f)
<1>1. /\ f.wf = a /\ f.node = b /\ f.bag = c /\ f.lists = d
      /\ f.switch = e /\ f.shown = h /\ f.basis = i /\ f.under = j
  BY DEF FlowOf
<1> QED
  BY <1>1 DEF IsFlow

LEMMA TurnFields ==
  ASSUME NEW a, NEW b, NEW f, NEW c, NEW d, NEW e, NEW h,
         NEW t, t = TurnOf(a, b, f, c, d, e, h)
  PROVE  /\ t.worker = a /\ t.version = b /\ t.flow = f /\ t.approved = c
         /\ t.wrote = d /\ t.found = e /\ t.verifying = h
         /\ IsFlow(f) => IsTurn(t)
<1>1. /\ t.worker = a /\ t.version = b /\ t.flow = f /\ t.approved = c
      /\ t.wrote = d /\ t.found = e /\ t.verifying = h
  BY DEF TurnOf
<1> QED
  BY <1>1 DEF IsTurn

\* The flow is kept but for the offer to switch.
Stays(s) == flow' = FlowOf(flow.wf, flow.node, flow.bag, flow.lists, s,
                           flow.shown, flow.basis, flow.under)

\* A turn begins in worker w, at a node, with a bag and what its choices are based on.
Begins(w, node, bag, basis, approved) ==
  turn' = TurnOf(w, Current(w),
                 FlowOf(flow.wf, node, bag, flow.lists, None, flow.shown, basis,
                        flow.under \cup {Current(w)}),
                 approved, None, FALSE, FALSE)

\* The turn goes on at a node.
GoesOn(node, bag, lists, approved, wrote, found, verifying) ==
  turn' = TurnOf(turn.worker, turn.version,
                 FlowOf(turn.flow.wf, node, bag, lists, turn.flow.switch,
                        turn.flow.shown, turn.flow.basis, turn.flow.under),
                 approved, wrote, found, verifying)

\* What replacing some fields of a flow makes of it.
LEMMA SwitchUpdate ==
  ASSUME NEW f, IsFlow(f), NEW x
  PROVE  [f EXCEPT !.switch = x]
           = FlowOf(f.wf, f.node, f.bag, f.lists, x, f.shown, f.basis, f.under)
<1>1. PICK a, b, c, d, e, h, i, j : f = FlowOf(a, b, c, d, e, h, i, j)
  BY DEF IsFlow
<1>2. /\ f.wf = a /\ f.node = b /\ f.bag = c /\ f.lists = d
      /\ f.switch = e /\ f.shown = h /\ f.basis = i /\ f.under = j
  BY <1>1, FlowFields
<1>3. [f EXCEPT !.switch = x] = FlowOf(a, b, c, d, x, h, i, j)
  BY <1>1 DEF FlowOf
<1> QED
  BY <1>2, <1>3

\* What setting fields makes of a flow, in the order the actions set them.
LEMMA ShownUpdate ==
  ASSUME NEW f, IsFlow(f), NEW x
  PROVE  [f EXCEPT !.shown = x]
           = FlowOf(f.wf, f.node, f.bag, f.lists, f.switch, x, f.basis, f.under)
<1>1. PICK a, b, c, d, e, h, i, j : f = FlowOf(a, b, c, d, e, h, i, j)
  BY DEF IsFlow
<1>2. /\ f.wf = a /\ f.node = b /\ f.bag = c /\ f.lists = d
      /\ f.switch = e /\ f.shown = h /\ f.basis = i /\ f.under = j
  BY <1>1, FlowFields
<1>3. [f EXCEPT !.shown = x] = FlowOf(a, b, c, d, e, x, i, j)
  BY <1>1 DEF FlowOf
<1> QED
  BY <1>2, <1>3

LEMMA NodeUpdate ==
  ASSUME NEW f, IsFlow(f), NEW x
  PROVE  [f EXCEPT !.node = x]
           = FlowOf(f.wf, x, f.bag, f.lists, f.switch, f.shown, f.basis, f.under)
<1>1. PICK a, b, c, d, e, h, i, j : f = FlowOf(a, b, c, d, e, h, i, j)
  BY DEF IsFlow
<1>2. /\ f.wf = a /\ f.node = b /\ f.bag = c /\ f.lists = d
      /\ f.switch = e /\ f.shown = h /\ f.basis = i /\ f.under = j
  BY <1>1, FlowFields
<1>3. [f EXCEPT !.node = x] = FlowOf(a, x, c, d, e, h, i, j)
  BY <1>1 DEF FlowOf
<1> QED
  BY <1>2, <1>3

LEMMA UnderUpdate ==
  ASSUME NEW f, IsFlow(f), NEW x, NEW y
  PROVE  [f EXCEPT !.switch = x, !.under = y]
           = FlowOf(f.wf, f.node, f.bag, f.lists, x, f.shown, f.basis, y)
<1>1. PICK a, b, c, d, e, h, i, j : f = FlowOf(a, b, c, d, e, h, i, j)
  BY DEF IsFlow
<1>2. /\ f.wf = a /\ f.node = b /\ f.bag = c /\ f.lists = d
      /\ f.switch = e /\ f.shown = h /\ f.basis = i /\ f.under = j
  BY <1>1, FlowFields
<1>3. [f EXCEPT !.switch = x, !.under = y]
        = FlowOf(a, b, c, d, x, h, i, y)
  <2>1. PICK g1 : g1 = [f EXCEPT !.switch = x]
    OBVIOUS
  <2>2. g1 = FlowOf(a, b, c, d, x, h, i, j)
    BY <1>1, <2>1 DEF FlowOf
  <2>3. [g1 EXCEPT !.under = y] = FlowOf(a, b, c, d, x, h, i, y)
    BY <2>2 DEF FlowOf
  <2>4. [f EXCEPT !.switch = x, !.under = y]
          = [[f EXCEPT !.switch = x] EXCEPT !.under = y]
    BY Zenon
  <2> QED
    BY <2>1, <2>3, <2>4, Zenon
<1> QED
  BY <1>2, <1>3

LEMMA NodeBagUpdate ==
  ASSUME NEW f, IsFlow(f), NEW x, NEW y
  PROVE  [f EXCEPT !.node = x, !.bag = y]
           = FlowOf(f.wf, x, y, f.lists, f.switch, f.shown, f.basis, f.under)
<1>1. PICK a, b, c, d, e, h, i, j : f = FlowOf(a, b, c, d, e, h, i, j)
  BY DEF IsFlow
<1>2. /\ f.wf = a /\ f.node = b /\ f.bag = c /\ f.lists = d
      /\ f.switch = e /\ f.shown = h /\ f.basis = i /\ f.under = j
  BY <1>1, FlowFields
<1>3. [f EXCEPT !.node = x, !.bag = y]
        = FlowOf(a, x, y, d, e, h, i, j)
  <2>1. PICK g1 : g1 = [f EXCEPT !.node = x]
    OBVIOUS
  <2>2. g1 = FlowOf(a, x, c, d, e, h, i, j)
    BY <1>1, <2>1 DEF FlowOf
  <2>3. [g1 EXCEPT !.bag = y] = FlowOf(a, x, y, d, e, h, i, j)
    BY <2>2 DEF FlowOf
  <2>4. [f EXCEPT !.node = x, !.bag = y]
          = [[f EXCEPT !.node = x] EXCEPT !.bag = y]
    BY Zenon
  <2> QED
    BY <2>1, <2>3, <2>4, Zenon
<1> QED
  BY <1>2, <1>3

LEMMA BagUpdate ==
  ASSUME NEW f, IsFlow(f), NEW y, NEW x
  PROVE  [f EXCEPT !.bag = y, !.node = x]
           = FlowOf(f.wf, x, y, f.lists, f.switch, f.shown, f.basis, f.under)
<1>1. PICK a, b, c, d, e, h, i, j : f = FlowOf(a, b, c, d, e, h, i, j)
  BY DEF IsFlow
<1>2. /\ f.wf = a /\ f.node = b /\ f.bag = c /\ f.lists = d
      /\ f.switch = e /\ f.shown = h /\ f.basis = i /\ f.under = j
  BY <1>1, FlowFields
<1>3. [f EXCEPT !.bag = y, !.node = x]
        = FlowOf(a, x, y, d, e, h, i, j)
  <2>1. PICK g1 : g1 = [f EXCEPT !.bag = y]
    OBVIOUS
  <2>2. g1 = FlowOf(a, b, y, d, e, h, i, j)
    BY <1>1, <2>1 DEF FlowOf
  <2>3. [g1 EXCEPT !.node = x] = FlowOf(a, x, y, d, e, h, i, j)
    BY <2>2 DEF FlowOf
  <2>4. [f EXCEPT !.bag = y, !.node = x]
          = [[f EXCEPT !.bag = y] EXCEPT !.node = x]
    BY Zenon
  <2> QED
    BY <2>1, <2>3, <2>4, Zenon
<1> QED
  BY <1>2, <1>3

LEMMA ChoiceUpdate ==
  ASSUME NEW f, IsFlow(f), NEW y, NEW x, NEW z
  PROVE  [f EXCEPT !.bag = y, !.node = x, !.basis = z]
           = FlowOf(f.wf, x, y, f.lists, f.switch, f.shown, z, f.under)
<1>1. PICK a, b, c, d, e, h, i, j : f = FlowOf(a, b, c, d, e, h, i, j)
  BY DEF IsFlow
<1>2. /\ f.wf = a /\ f.node = b /\ f.bag = c /\ f.lists = d
      /\ f.switch = e /\ f.shown = h /\ f.basis = i /\ f.under = j
  BY <1>1, FlowFields
<1>3. [f EXCEPT !.bag = y, !.node = x, !.basis = z]
        = FlowOf(a, x, y, d, e, h, z, j)
  <2>1. PICK g1 : g1 = [f EXCEPT !.bag = y]
    OBVIOUS
  <2>2. g1 = FlowOf(a, b, y, d, e, h, i, j)
    BY <1>1, <2>1 DEF FlowOf
  <2>3. PICK g2 : g2 = [g1 EXCEPT !.node = x]
    OBVIOUS
  <2>4. g2 = FlowOf(a, x, y, d, e, h, i, j)
    BY <2>2, <2>3 DEF FlowOf
  <2>5. [g2 EXCEPT !.basis = z] = FlowOf(a, x, y, d, e, h, z, j)
    BY <2>4 DEF FlowOf
  <2>6. [f EXCEPT !.bag = y, !.node = x, !.basis = z]
          = [[[f EXCEPT !.bag = y] EXCEPT !.node = x] EXCEPT !.basis = z]
    BY Zenon
  <2> QED
    BY <2>1, <2>3, <2>5, <2>6, Zenon
<1> QED
  BY <1>2, <1>3

LEMMA BasisUpdate ==
  ASSUME NEW f, IsFlow(f), NEW y, NEW x
  PROVE  [f EXCEPT !.bag = y, !.basis = x]
           = FlowOf(f.wf, f.node, y, f.lists, f.switch, f.shown, x, f.under)
<1>1. PICK a, b, c, d, e, h, i, j : f = FlowOf(a, b, c, d, e, h, i, j)
  BY DEF IsFlow
<1>2. /\ f.wf = a /\ f.node = b /\ f.bag = c /\ f.lists = d
      /\ f.switch = e /\ f.shown = h /\ f.basis = i /\ f.under = j
  BY <1>1, FlowFields
<1>3. [f EXCEPT !.bag = y, !.basis = x]
        = FlowOf(a, b, y, d, e, h, x, j)
  <2>1. PICK g1 : g1 = [f EXCEPT !.bag = y]
    OBVIOUS
  <2>2. g1 = FlowOf(a, b, y, d, e, h, i, j)
    BY <1>1, <2>1 DEF FlowOf
  <2>3. [g1 EXCEPT !.basis = x] = FlowOf(a, b, y, d, e, h, x, j)
    BY <2>2 DEF FlowOf
  <2>4. [f EXCEPT !.bag = y, !.basis = x]
          = [[f EXCEPT !.bag = y] EXCEPT !.basis = x]
    BY Zenon
  <2> QED
    BY <2>1, <2>3, <2>4, Zenon
<1> QED
  BY <1>2, <1>3

LEMMA WalkUpdate ==
  ASSUME NEW f, IsFlow(f), NEW w
  PROVE  [f EXCEPT !.switch = None, !.under = @ \cup {Current(w)}]
          = FlowOf(f.wf, f.node, f.bag, f.lists, None, f.shown, f.basis, f.under \cup {Current(w)})
<1>1. PICK x, u : x = None /\ u = f.under \cup {Current(w)}
  OBVIOUS
<1>2. [f EXCEPT !.switch = x, !.under = u]
          = FlowOf(f.wf, f.node, f.bag, f.lists, x, f.shown, f.basis, u)
  BY UnderUpdate, Zenon
<1>3. [f EXCEPT !.switch = x, !.under = u] = [f EXCEPT !.switch = None, !.under = @ \cup {Current(w)}]
  BY <1>1, Zenon
<1> QED BY <1>1, <1>2, <1>3, Zenon
LEMMA PickUpdate ==
  ASSUME NEW f, IsFlow(f), NEW w, NEW y, NEW z
  PROVE  [f EXCEPT !.switch = None, !.under = @ \cup {Current(w)}, !.bag = y, !.basis = z]
           = FlowOf(f.wf, f.node, y, f.lists, None, f.shown, z, f.under \cup {Current(w)})
<1>1. PICK g : g = [f EXCEPT !.switch = None, !.under = @ \cup {Current(w)}]
  OBVIOUS
<1>2. g = FlowOf(f.wf, f.node, f.bag, f.lists, None, f.shown, f.basis, f.under \cup {Current(w)})
  BY <1>1, WalkUpdate
<1>3. /\ IsFlow(g) /\ g.wf = f.wf /\ g.node = f.node /\ g.lists = f.lists
      /\ g.switch = None /\ g.shown = f.shown /\ g.under = f.under \cup {Current(w)}
  BY <1>2, FlowFields
<1>4. [g EXCEPT !.bag = y, !.basis = z]
        = FlowOf(g.wf, g.node, y, g.lists, g.switch, g.shown, z, g.under)
  BY <1>3, BasisUpdate
<1>5. [f EXCEPT !.switch = None, !.under = @ \cup {Current(w)}, !.bag = y, !.basis = z]
        = [g EXCEPT !.bag = y, !.basis = z]
  BY <1>1, Zenon
<1> QED
  BY <1>3, <1>4, <1>5, Zenon

\* What the walk makes of the fields of a turn.
LEMMA NodeGoes ==
  ASSUME NEW t, IsTurn(t), NEW n
  PROVE  [t EXCEPT !.flow.node = n]
           = TurnOf(t.worker, t.version,
                    FlowOf(t.flow.wf, n, t.flow.bag, t.flow.lists,
                           t.flow.switch, t.flow.shown, t.flow.basis, t.flow.under),
                    t.approved, t.wrote, t.found, t.verifying)
<1>1. PICK a, v, f, p, w, o, z : t = TurnOf(a, v, f, p, w, o, z) /\ IsFlow(f)
  BY DEF IsTurn
<1>2. /\ t.worker = a /\ t.version = v /\ t.flow = f /\ t.approved = p
      /\ t.wrote = w /\ t.found = o /\ t.verifying = z
  BY <1>1, TurnFields
<1>3. PICK fa, fb, fc, fd, fe, fh, fi, fj : f = FlowOf(fa, fb, fc, fd, fe, fh, fi, fj)
  BY <1>1 DEF IsFlow
<1>4. /\ f.wf = fa /\ f.node = fb /\ f.bag = fc /\ f.lists = fd
      /\ f.switch = fe /\ f.shown = fh /\ f.basis = fi /\ f.under = fj
  BY <1>3, FlowFields
<1>5. [t EXCEPT !.flow.node = n]
        = TurnOf(a, v, FlowOf(fa, n, fc, fd, fe, fh, fi, fj), p, w, o, z)
  <2>1. PICK g1 : g1 = [f EXCEPT !.node = n]
    OBVIOUS
  <2>2. g1 = FlowOf(fa, n, fc, fd, fe, fh, fi, fj)
    BY <1>3, <2>1 DEF FlowOf
  <2>3. [t EXCEPT !.flow.node = n] = [t EXCEPT !.flow = g1]
    BY <1>2, <2>1, Zenon
  <2>4. PICK r1 : r1 = [t EXCEPT !.flow.node = n]
    OBVIOUS
  <2>5. r1 = TurnOf(a, v, g1, p, w, o, z)
    BY <1>1, <2>3, <2>4 DEF TurnOf
  <2>6. r1 = TurnOf(a, v, FlowOf(fa, n, fc, fd, fe, fh, fi, fj), p, w, o, z)
    BY <2>5, <2>2
  <2> QED
    BY <2>4, <2>6, Zenon
<1> QED
  BY <1>2, <1>4, <1>5

LEMMA ListsGoes ==
  ASSUME NEW t, IsTurn(t), NEW x, NEW n
  PROVE  [t EXCEPT !.flow.lists = x, !.flow.node = n]
           = TurnOf(t.worker, t.version,
                    FlowOf(t.flow.wf, n, t.flow.bag, x,
                           t.flow.switch, t.flow.shown, t.flow.basis, t.flow.under),
                    t.approved, t.wrote, t.found, t.verifying)
<1>1. PICK a, v, f, p, w, o, z : t = TurnOf(a, v, f, p, w, o, z) /\ IsFlow(f)
  BY DEF IsTurn
<1>2. /\ t.worker = a /\ t.version = v /\ t.flow = f /\ t.approved = p
      /\ t.wrote = w /\ t.found = o /\ t.verifying = z
  BY <1>1, TurnFields
<1>3. PICK fa, fb, fc, fd, fe, fh, fi, fj : f = FlowOf(fa, fb, fc, fd, fe, fh, fi, fj)
  BY <1>1 DEF IsFlow
<1>4. /\ f.wf = fa /\ f.node = fb /\ f.bag = fc /\ f.lists = fd
      /\ f.switch = fe /\ f.shown = fh /\ f.basis = fi /\ f.under = fj
  BY <1>3, FlowFields
<1>5. [t EXCEPT !.flow.lists = x, !.flow.node = n]
        = TurnOf(a, v, FlowOf(fa, n, fc, x, fe, fh, fi, fj), p, w, o, z)
  <2>1. PICK g1 : g1 = [f EXCEPT !.lists = x]
    OBVIOUS
  <2>2. g1 = FlowOf(fa, fb, fc, x, fe, fh, fi, fj)
    BY <1>3, <2>1 DEF FlowOf
  <2>3. PICK g2 : g2 = [g1 EXCEPT !.node = n]
    OBVIOUS
  <2>4. g2 = FlowOf(fa, n, fc, x, fe, fh, fi, fj)
    BY <2>2, <2>3 DEF FlowOf
  <2>5. [t EXCEPT !.flow.lists = x, !.flow.node = n] = [t EXCEPT !.flow = g2]
    BY <1>2, <2>1, <2>3, Zenon
  <2>6. PICK r1 : r1 = [t EXCEPT !.flow.lists = x, !.flow.node = n]
    OBVIOUS
  <2>7. r1 = TurnOf(a, v, g2, p, w, o, z)
    BY <1>1, <2>5, <2>6 DEF TurnOf
  <2>8. r1 = TurnOf(a, v, FlowOf(fa, n, fc, x, fe, fh, fi, fj), p, w, o, z)
    BY <2>7, <2>4
  <2> QED
    BY <2>6, <2>8, Zenon
<1> QED
  BY <1>2, <1>4, <1>5

LEMMA VerifyGoes ==
  ASSUME NEW t, IsTurn(t), NEW k, NEW n, NEW g
  PROVE  [t EXCEPT !.verifying = k, !.flow.node = n, !.found = g]
           = TurnOf(t.worker, t.version,
                    FlowOf(t.flow.wf, n, t.flow.bag, t.flow.lists,
                           t.flow.switch, t.flow.shown, t.flow.basis, t.flow.under),
                    t.approved, t.wrote, g, k)
<1>1. PICK a, v, f, p, w, o, z : t = TurnOf(a, v, f, p, w, o, z) /\ IsFlow(f)
  BY DEF IsTurn
<1>2. /\ t.worker = a /\ t.version = v /\ t.flow = f /\ t.approved = p
      /\ t.wrote = w /\ t.found = o /\ t.verifying = z
  BY <1>1, TurnFields
<1>3. PICK fa, fb, fc, fd, fe, fh, fi, fj : f = FlowOf(fa, fb, fc, fd, fe, fh, fi, fj)
  BY <1>1 DEF IsFlow
<1>4. /\ f.wf = fa /\ f.node = fb /\ f.bag = fc /\ f.lists = fd
      /\ f.switch = fe /\ f.shown = fh /\ f.basis = fi /\ f.under = fj
  BY <1>3, FlowFields
<1>5. [t EXCEPT !.verifying = k, !.flow.node = n, !.found = g]
        = TurnOf(a, v, FlowOf(fa, n, fc, fd, fe, fh, fi, fj), p, w, g, k)
  <2>1. PICK s1 : s1 = [t EXCEPT !.verifying = k]
    OBVIOUS
  <2>2. s1 = TurnOf(a, v, f, p, w, o, k)
    BY <1>1, <2>1 DEF TurnOf
  <2>3. PICK g1 : g1 = [f EXCEPT !.node = n]
    OBVIOUS
  <2>4. g1 = FlowOf(fa, n, fc, fd, fe, fh, fi, fj)
    BY <1>3, <2>3 DEF FlowOf
  <2>5. s1.flow = f
    BY <2>2 DEF TurnOf
  <2>6. [s1 EXCEPT !.flow.node = n] = [s1 EXCEPT !.flow = g1]
    BY <2>5, <2>3, Zenon
  <2>7. PICK r1 : r1 = [s1 EXCEPT !.flow.node = n]
    OBVIOUS
  <2>8. r1 = TurnOf(a, v, g1, p, w, o, k)
    BY <2>2, <2>6, <2>7 DEF TurnOf
  <2>9. r1 = TurnOf(a, v, FlowOf(fa, n, fc, fd, fe, fh, fi, fj), p, w, o, k)
    BY <2>8, <2>4
  <2>10. [r1 EXCEPT !.found = g] = TurnOf(a, v, FlowOf(fa, n, fc, fd, fe, fh, fi, fj), p, w, g, k)
    BY <2>9 DEF TurnOf
  <2>11. [t EXCEPT !.verifying = k, !.flow.node = n, !.found = g]
          = [[[t EXCEPT !.verifying = k] EXCEPT !.flow.node = n] EXCEPT !.found = g]
    BY Zenon
  <2> QED
    BY <2>1, <2>7, <2>10, <2>11, Zenon
<1> QED
  BY <1>2, <1>4, <1>5

-----------------------------------------------------------------------------
(* What the user's messages begin.                                         *)

\* The console, the platform and what is said of it stay as they are.
Quiet == UNCHANGED <<registry, owned, saved, admin, facts, sent, told>>

\* The flow with another node, bag and basis.
With(f, node, bag, basis) ==
  f = FlowOf(flow.wf, node, bag, flow.lists, flow.switch, flow.shown, basis, flow.under)

\* The messages that begin a turn: what the turn holds then.  A walk, for a start.
LEMMA WalkBegins ==
  ASSUME NEW w, NEW p, NEW node, NEW bag, NEW basis, NEW f, Walk(w, f, p),
         With(f, node, bag, basis)
  PROVE  Begins(w, node, bag, basis, p)
<1>1. /\ IsFlow(f) /\ f.wf = flow.wf /\ f.node = node /\ f.bag = bag /\ f.lists = flow.lists
      /\ f.shown = flow.shown /\ f.basis = basis /\ f.under = flow.under
  BY FlowFields DEF With
<1>2. [f EXCEPT !.switch = None, !.under = @ \cup {Current(w)}]
        = FlowOf(f.wf, f.node, f.bag, f.lists, None, f.shown, f.basis, f.under \cup {Current(w)})
  BY <1>1, WalkUpdate
<1> QED
  BY <1>1, <1>2, Zenon DEF Walk, Begins, TurnOf

\* What every answer finds: a node of the current version that waits for it.
Answered(w, type) ==
  /\ flow # None /\ turn = None /\ registry[w][flow.wf] # None
  /\ flow.node \in NodeIds(Current(w)) /\ Node(Current(w), flow.node).type = type

\* "change <step>": the node it names, with its field cleared.
LEMMA EditBegins ==
  ASSUME IsFlow(flow), NEW w, NEW m, EditStep(w, m)
  PROVE  /\ Quiet /\ flow' = flow
         /\ Answered(w, "confirm") \/ (EditAnywhere /\ Answered(w, "ask"))
         /\ \E t \in NodeIds(Current(w)) :
              /\ Node(Current(w), t).type = "ask"
              /\ Begins(w, t, Drop(flow.bag, Node(Current(w), t).field), flow.basis, None)
<1>1. PICK t : t = _edit_target(Current(w), m)
  OBVIOUS
<1>2. t \in NodeIds(Current(w)) /\ Node(Current(w), t).type = "ask"
  BY <1>1 DEF EditStep, IsEdit, _edit_target
<1>3. PICK b : b = Drop(flow.bag, Node(Current(w), t).field)
  OBVIOUS
<1>4. Walk(w, [flow EXCEPT !.node = t, !.bag = b], None)
  BY <1>1, <1>3 DEF EditStep
<1>5. [flow EXCEPT !.node = t, !.bag = b]
        = FlowOf(flow.wf, t, b, flow.lists, flow.switch, flow.shown, flow.basis, flow.under)
  BY NodeBagUpdate
<1>6. Begins(w, t, b, flow.basis, None)
  BY <1>4, <1>5, WalkBegins DEF With
<1>7. /\ Quiet /\ flow' = flow
      /\ Answered(w, "confirm") \/ (EditAnywhere /\ Answered(w, "ask"))
  BY DEF EditStep, Answers, Handles, Answered, Quiet, consoleVars, ghosts
<1> QED
  BY <1>2, <1>3, <1>6, <1>7

\* A step that is passed over keeps what it holds.
LEMMA SkipBegins ==
  ASSUME IsFlow(flow), NEW w, NEW m, SkipAsk(w, m), NEW d, d = Node(Current(w), flow.node)
  PROVE  /\ Quiet /\ flow' = flow /\ Answered(w, "ask") /\ d.optional
         /\ Begins(w, d.next, Default(flow.bag, d.field), flow.basis, None)
<1>1. PICK b : b = Default(flow.bag, d.field)
  OBVIOUS
<1>2. Walk(w, [flow EXCEPT !.bag = b, !.node = d.next], None) /\ d.optional
  BY <1>1 DEF SkipAsk, Skips
<1>3. [flow EXCEPT !.bag = b, !.node = d.next]
        = FlowOf(flow.wf, d.next, b, flow.lists, flow.switch, flow.shown, flow.basis, flow.under)
  BY BagUpdate
<1>4. Begins(w, d.next, b, flow.basis, None)
  BY <1>2, <1>3, WalkBegins DEF With
<1>5. Quiet /\ flow' = flow /\ Answered(w, "ask")
  BY DEF SkipAsk, Answers, Handles, Answered, Quiet, consoleVars, ghosts
<1> QED
  BY <1>1, <1>2, <1>4, <1>5

\* A step without options takes a text.
LEMMA TypeBegins ==
  ASSUME IsFlow(flow), NEW w, NEW m, TypeAnswer(w, m), NEW d, d = Node(Current(w), flow.node)
  PROVE  /\ Quiet /\ flow' = flow /\ Answered(w, "ask") /\ d.options_from = ""
         /\ \E x \in Texts : Begins(w, d.next, Put(flow.bag, d.field, <<x>>), flow.basis, None)
<1>1. PICK x \in Texts : Walk(w, [flow EXCEPT !.bag = Put(@, d.field, <<x>>), !.node = d.next], None)
  BY DEF TypeAnswer
<1>2. PICK b : b = Put(flow.bag, d.field, <<x>>)
  OBVIOUS
<1>3. [flow EXCEPT !.bag = Put(@, d.field, <<x>>), !.node = d.next]
        = [flow EXCEPT !.bag = b, !.node = d.next]
  BY <1>2, Zenon DEF IsFlow, FlowOf
<1>4. [flow EXCEPT !.bag = b, !.node = d.next]
        = FlowOf(flow.wf, d.next, b, flow.lists, flow.switch, flow.shown, flow.basis, flow.under)
  BY BagUpdate
<1>5. Begins(w, d.next, b, flow.basis, None)
  BY <1>1, <1>3, <1>4, WalkBegins DEF With
<1>6. Quiet /\ flow' = flow /\ Answered(w, "ask") /\ d.options_from = ""
  BY DEF TypeAnswer, Answers, Handles, Answered, Quiet, consoleVars, ghosts
<1> QED
  BY <1>2, <1>5, <1>6

\* One of the options: added where there may be several, else taken.
LEMMA ChoiceBegins ==
  ASSUME IsFlow(flow), NEW w, NEW m, ChooseOption(w, m), NEW d, d = Node(Current(w), flow.node)
  PROVE  /\ Quiet /\ Answered(w, "ask") /\ d.options_from # ""
         /\ LET basis == Put(flow.basis, d.field, Grounds(flow, d.options_from))
            IN \/ /\ d.multi /\ turn' = turn
                  /\ flow' = FlowOf(flow.wf, flow.node,
                               Put(flow.bag, d.field, Append(Value(flow.bag, d.field), m[2])),
                               flow.lists, None, flow.shown, basis, flow.under \cup {Current(w)})
               \/ /\ ~d.multi /\ flow' = flow
                  /\ Begins(w, d.next, Put(flow.bag, d.field, <<m[2]>>), basis, None)
<1> DEFINE basis == Put(flow.basis, d.field, Grounds(flow, d.options_from))
           more  == Put(flow.bag, d.field, Append(Value(flow.bag, d.field), m[2]))
           one   == Put(flow.bag, d.field, <<m[2]>>)
<1>1. Quiet /\ Answered(w, "ask") /\ d.options_from # ""
  BY DEF ChooseOption, Answers, Handles, Answered, Quiet, consoleVars
<1>2. CASE d.multi
  <2>1. /\ turn' = turn
        /\ flow' = [flow EXCEPT !.switch = None, !.under = @ \cup {Current(w)},
                      !.bag = Put(@, d.field, Append(Value(@, d.field), m[2])),
                      !.basis = Put(@, d.field, Grounds(flow, d.options_from))]
    BY <1>2 DEF ChooseOption
  <2> HIDE DEF more, basis
  <2>2. flow' = [flow EXCEPT !.switch = None, !.under = @ \cup {Current(w)},
                   !.bag = more, !.basis = basis]
    BY <2>1, Zenon DEF more, basis
  <2>3. flow' = FlowOf(flow.wf, flow.node, more, flow.lists, None, flow.shown, basis,
                       flow.under \cup {Current(w)})
    BY <2>2, PickUpdate
  <2> QED
    BY <1>1, <1>2, <2>1, <2>3 DEF more, basis
<1>3. CASE ~d.multi
  <2>1. /\ flow' = flow
        /\ Walk(w, [flow EXCEPT !.bag = Put(@, d.field, <<m[2]>>), !.node = d.next,
                      !.basis = Put(@, d.field, Grounds(flow, d.options_from))], None)
    BY <1>3 DEF ChooseOption
  <2>2. Walk(w, [flow EXCEPT !.bag = one, !.node = d.next, !.basis = basis], None)
    BY <2>1, Zenon
  <2> HIDE DEF one, basis
  <2>3. [flow EXCEPT !.bag = one, !.node = d.next, !.basis = basis]
          = FlowOf(flow.wf, d.next, one, flow.lists, flow.switch, flow.shown, basis, flow.under)
    <3>1. PICK y, x, z : y = one /\ x = d.next /\ z = basis
      OBVIOUS
    <3>2. [flow EXCEPT !.bag = y, !.node = x, !.basis = z]
            = FlowOf(flow.wf, x, y, flow.lists, flow.switch, flow.shown, z, flow.under)
      BY ChoiceUpdate, Zenon
    <3> QED
      BY <3>1, <3>2, Zenon
  <2>4. Begins(w, d.next, one, basis, None)
    BY <2>2, <2>3, WalkBegins DEF With
  <2> QED
    BY <1>1, <1>3, <2>1, <2>4 DEF one, basis
<1> QED
  BY <1>2, <1>3

\* A yes goes on to the next node and approves the summary shown.
LEMMA ConfirmBegins ==
  ASSUME IsFlow(flow), NEW w, NEW m, ConfirmIt(w, m), NEW d, d = Node(Current(w), flow.node)
  PROVE  /\ Quiet /\ flow' = flow /\ Answered(w, "confirm")
         /\ Begins(w, d.next, flow.bag, flow.basis, flow.shown)
<1>1. Walk(w, [flow EXCEPT !.node = d.next], flow.shown)
  BY DEF ConfirmIt, Confirms
<1>2. [flow EXCEPT !.node = d.next]
        = FlowOf(flow.wf, d.next, flow.bag, flow.lists, flow.switch, flow.shown, flow.basis, flow.under)
  BY NodeUpdate
<1>3. Begins(w, d.next, flow.bag, flow.basis, flow.shown)
  BY <1>1, <1>2, WalkBegins DEF With
<1> QED
  BY <1>3 DEF ConfirmIt, Answers, Handles, Answered, Quiet, consoleVars, ghosts

\* A node that does not wait is walked as it is.
LEMMA ResumeBegins ==
  ASSUME IsFlow(flow), NEW w, NEW m, ResumeElsewhere(w, m)
  PROVE  /\ Quiet /\ flow' = flow
         /\ \E type \in {"fetch", "filter", "branch", "mutate", "say"} : Answered(w, type)
         /\ Begins(w, flow.node, flow.bag, flow.basis, None)
<1>1. Begins(w, flow.node, flow.bag, flow.basis, None)
  BY WalkBegins DEF With, ResumeElsewhere, IsFlow
<1> QED
  BY <1>1 DEF ResumeElsewhere, Answers, Handles, Answered, Quiet, consoleVars, ghosts

\* The messages that are no answer: the flow stays, but for the offer to switch.
LEMMA MessageStays ==
  ASSUME IsFlow(flow), NEW w, NEW m,
         OfferSwitch(w, m) \/ StayHere(w, m) \/ NotAnOption(w, m) \/ HoldAtConfirm(w, m)
  PROVE  /\ Quiet /\ turn' = turn /\ flow # None
         /\ \E s : Stays(s)
<1>1. \A s : [flow EXCEPT !.switch = s] = FlowOf(flow.wf, flow.node, flow.bag, flow.lists, s,
                                             flow.shown, flow.basis, flow.under)
  BY SwitchUpdate
<1>2. /\ flow # None /\ turn' = turn /\ Quiet
      /\ flow' = [flow EXCEPT !.switch = m] \/ flow' = [flow EXCEPT !.switch = None]
  BY DEF OfferSwitch, StayHere, NotAnOption, HoldAtConfirm, Handles, Answers, Quiet,
         consoleVars, ghosts
<1> QED
  BY <1>1, <1>2 DEF Stays
-----------------------------------------------------------------------------
(* What the walk makes of the turn.                                        *)

Still == UNCHANGED <<registry, owned, saved, admin>>

\* A fetch keeps the answers it was made for.
LEMMA FetchGoes ==
  ASSUME turn # None => IsTurn(turn), WalkFetch, NEW d, d = Here
  PROVE  /\ Still /\ UNCHANGED <<flow, facts, sent, told>> /\ AtNode("fetch")
         /\ \E rows : GoesOn(d.next, turn.flow.bag,
                             Put(turn.flow.lists, d.as_key,
                                 [rows |-> rows, grounds |-> Ground(d.args, turn.flow.bag)]),
                             turn.approved, turn.wrote, turn.found, turn.verifying)
<1>1. IsTurn(turn) /\ AtNode("fetch")
  BY DEF WalkFetch, AtNode
<1>2. PICK rows : turn' = [turn EXCEPT !.flow.lists = Put(@, d.as_key,
                             [rows |-> rows, grounds |-> Ground(d.args, turn.flow.bag)]),
                                       !.flow.node = d.next]
  BY DEF WalkFetch
<1>3. PICK x, n : /\ x = Put(turn.flow.lists, d.as_key,
                             [rows |-> rows, grounds |-> Ground(d.args, turn.flow.bag)])
                  /\ n = d.next
  OBVIOUS
<1>4. turn' = [turn EXCEPT !.flow.lists = x, !.flow.node = n]
  BY <1>2, <1>3, Zenon
<1>5. GoesOn(n, turn.flow.bag, x, turn.approved, turn.wrote, turn.found, turn.verifying)
  BY <1>1, <1>4, ListsGoes DEF GoesOn
<1>6. Still /\ UNCHANGED <<flow, facts, sent, told>>
  BY DEF WalkFetch, Still, consoleVars, ghosts
<1> QED
  BY <1>1, <1>3, <1>5, <1>6

\* A filter keeps those of its sources and its own, and flags an empty list.
LEMMA FilterWalks ==
  ASSUME turn # None => IsTurn(turn), WalkFilter, NEW d, d = Here
  PROVE  /\ Still /\ UNCHANGED <<flow, facts, sent, told>> /\ AtNode("filter")
         /\ \E rows : \E flag \in {"Y", "N"} :
              GoesOn(d.next, Put(turn.flow.bag, d.empty_key, <<flag>>),
                     Put(turn.flow.lists, d.as_key,
                         [rows |-> rows,
                          grounds |-> Grounds(turn.flow, d.source) \cup Ground(d.keep, turn.flow.bag)
                                      \cup Grounds(turn.flow, d.exclude_source)]),
                     turn.approved, turn.wrote, turn.found, turn.verifying)
<1>1. IsTurn(turn) /\ AtNode("filter")
  BY DEF WalkFilter, AtNode
<1>2. PICK rows, flag : /\ rows = Kept(d, turn.flow)
                        /\ flag = IF Kept(d, turn.flow) = {} THEN "Y" ELSE "N"
  OBVIOUS
<1>3. flag \in {"Y", "N"}
  BY <1>2
<1>4. turn' = [turn EXCEPT !.flow.lists = Put(@, d.as_key,
                 [rows |-> rows,
                  grounds |-> Grounds(turn.flow, d.source) \cup Ground(d.keep, turn.flow.bag)
                              \cup Grounds(turn.flow, d.exclude_source)]),
                           !.flow.bag = Put(@, d.empty_key, <<flag>>),
                           !.flow.node = d.next]
  BY <1>2, Zenon DEF WalkFilter
<1>5. PICK x, b, n :
        /\ x = Put(turn.flow.lists, d.as_key,
                   [rows |-> rows,
                    grounds |-> Grounds(turn.flow, d.source) \cup Ground(d.keep, turn.flow.bag)
                                \cup Grounds(turn.flow, d.exclude_source)])
        /\ b = Put(turn.flow.bag, d.empty_key, <<flag>>)
        /\ n = d.next
  OBVIOUS
<1>6. turn' = [turn EXCEPT !.flow.lists = x, !.flow.bag = b, !.flow.node = n]
  BY <1>4, <1>5, Zenon
<1>7. GoesOn(n, b, x, turn.approved, turn.wrote, turn.found, turn.verifying)
  <2>1. PICK t : t = turn /\ IsTurn(t)
    BY <1>1
  <2>2. [t EXCEPT !.flow.lists = x, !.flow.bag = b, !.flow.node = n]
          = TurnOf(t.worker, t.version,
                   FlowOf(t.flow.wf, n, b, x, t.flow.switch, t.flow.shown, t.flow.basis, t.flow.under),
                   t.approved, t.wrote, t.found, t.verifying)
    <3>1. PICK a, v, f, p, w, o, z : t = TurnOf(a, v, f, p, w, o, z) /\ IsFlow(f)
      BY <2>1 DEF IsTurn
    <3>2. /\ t.worker = a /\ t.version = v /\ t.flow = f /\ t.approved = p
          /\ t.wrote = w /\ t.found = o /\ t.verifying = z
      BY <3>1, TurnFields
    <3>3. PICK fa, fb, fc, fd, fe, fh, fi, fj : f = FlowOf(fa, fb, fc, fd, fe, fh, fi, fj)
      BY <3>1 DEF IsFlow
    <3>4. /\ f.wf = fa /\ f.node = fb /\ f.bag = fc /\ f.lists = fd
          /\ f.switch = fe /\ f.shown = fh /\ f.basis = fi /\ f.under = fj
      BY <3>3, FlowFields
    <3>5. [t EXCEPT !.flow.lists = x, !.flow.bag = b, !.flow.node = n]
            = TurnOf(a, v, FlowOf(fa, n, b, x, fe, fh, fi, fj), p, w, o, z)
      <4>1. PICK g1 : g1 = [f EXCEPT !.lists = x]
        OBVIOUS
      <4>2. g1 = FlowOf(fa, fb, fc, x, fe, fh, fi, fj)
        BY <3>3, <4>1 DEF FlowOf
      <4>3. PICK g2 : g2 = [g1 EXCEPT !.bag = b]
        OBVIOUS
      <4>4. g2 = FlowOf(fa, fb, b, x, fe, fh, fi, fj)
        BY <4>2, <4>3 DEF FlowOf
      <4>5. PICK g3 : g3 = [g2 EXCEPT !.node = n]
        OBVIOUS
      <4>6. g3 = FlowOf(fa, n, b, x, fe, fh, fi, fj)
        BY <4>4, <4>5 DEF FlowOf
      <4>7. [t EXCEPT !.flow.lists = x, !.flow.bag = b, !.flow.node = n] = [t EXCEPT !.flow = g3]
        BY <3>2, <4>1, <4>3, <4>5, Zenon
      <4>8. PICK r1 : r1 = [t EXCEPT !.flow.lists = x, !.flow.bag = b, !.flow.node = n]
        OBVIOUS
      <4>9. r1 = TurnOf(a, v, g3, p, w, o, z)
        BY <3>1, <4>7, <4>8 DEF TurnOf
      <4>10. r1 = TurnOf(a, v, FlowOf(fa, n, b, x, fe, fh, fi, fj), p, w, o, z)
        BY <4>9, <4>6
      <4> QED
        BY <4>8, <4>10, Zenon
    <3> QED
      BY <3>2, <3>4, <3>5
  <2> QED
    BY <1>6, <2>1, <2>2, Zenon DEF GoesOn
<1>8. Still /\ UNCHANGED <<flow, facts, sent, told>>
  BY DEF WalkFilter, Still, consoleVars, ghosts
<1>9. GoesOn(d.next, Put(turn.flow.bag, d.empty_key, <<flag>>),
             Put(turn.flow.lists, d.as_key,
                 [rows |-> rows,
                  grounds |-> Grounds(turn.flow, d.source) \cup Ground(d.keep, turn.flow.bag)
                              \cup Grounds(turn.flow, d.exclude_source)]),
             turn.approved, turn.wrote, turn.found, turn.verifying)
  BY <1>5, <1>7, Zenon
<1> QED
  BY <1>1, <1>3, <1>8, <1>9

\* A branch goes to one of its targets.
LEMMA BranchGoes ==
  ASSUME turn # None => IsTurn(turn), WalkBranch, NEW d, d = Here
  PROVE  /\ Still /\ UNCHANGED <<flow, facts, sent, told>> /\ AtNode("branch")
         /\ \E n \in Targets(d) :
              GoesOn(n, turn.flow.bag, turn.flow.lists, turn.approved, turn.wrote, turn.found,
                     turn.verifying)
<1>1. IsTurn(turn) /\ AtNode("branch")
  BY DEF WalkBranch, AtNode
<1>2. d.type = "branch"
  BY <1>1 DEF AtNode, Here
<1>3. PICK n : /\ turn' = [turn EXCEPT !.flow.node = n]
               /\ n = d.default \/ \E c \in DOMAIN d.cases : n = d.cases[c]
  BY DEF WalkBranch
<1>4. n \in Targets(d)
  BY <1>2, <1>3 DEF Targets
<1>5. GoesOn(n, turn.flow.bag, turn.flow.lists, turn.approved, turn.wrote, turn.found, turn.verifying)
  BY <1>1, <1>3, NodeGoes DEF GoesOn
<1>6. Still /\ UNCHANGED <<flow, facts, sent, told>>
  BY DEF WalkBranch, Still, consoleVars, ghosts
<1> QED
  BY <1>1, <1>4, <1>5, <1>6

\* A mutate node ends the run, goes on, or reads back the record it wrote.
LEMMA MutateWalks ==
  ASSUME turn # None => IsTurn(turn), WalkMutate, NEW d, d = Here
  PROVE  LET record == Written(d.tool, _resolve_args(d.arg_map, turn.flow.bag))
         IN /\ Still /\ told' = told /\ AtNode("mutate") /\ sent' = Sent(d)
            /\ facts' \in {facts, facts \cup {record}}
            /\ \/ turn' = None /\ flow' = None
               \/ /\ flow' = flow
                  /\ d.verify = None
                  /\ GoesOn(d.next, turn.flow.bag, turn.flow.lists, None, None, turn.found, FALSE)
               \/ /\ flow' = flow
                  /\ d.verify # None
                  /\ GoesOn(turn.flow.node, turn.flow.bag, turn.flow.lists, None, record,
                            turn.found, TRUE)
<1> DEFINE record == Written(d.tool, _resolve_args(d.arg_map, turn.flow.bag))
<1>1. /\ IsTurn(turn) /\ AtNode("mutate") /\ sent' = Sent(d) /\ told' = told /\ Still
      /\ Written(d.tool, Sent(d).args) = record
  BY DEF WalkMutate, AtNode, Still, consoleVars, Sent
<1>2. /\ facts' \in {facts, facts \cup {record}}
      /\ \/ turn' = None /\ flow' = None
         \/ /\ flow' = flow
            /\ turn' = [turn EXCEPT !.approved = None,
                          !.wrote = IF d.verify = None THEN None ELSE record,
                          !.verifying = d.verify # None,
                          !.flow.node = IF d.verify = None THEN d.next ELSE @]
  BY <1>1, Zenon DEF WalkMutate
<1> HIDE DEF record
<1>3. CASE turn' = None /\ flow' = None
  BY <1>1, <1>2, <1>3 DEF record
<1>4. CASE /\ flow' = flow
           /\ turn' = [turn EXCEPT !.approved = None,
                         !.wrote = IF d.verify = None THEN None ELSE record,
                         !.verifying = d.verify # None,
                         !.flow.node = IF d.verify = None THEN d.next ELSE @]
  <2>1. PICK q, r, k, n : /\ q = None
                          /\ r = IF d.verify = None THEN None ELSE record
                          /\ k = (d.verify # None)
                          /\ n = IF d.verify = None THEN d.next ELSE turn.flow.node
    OBVIOUS
  <2>2. turn' = [turn EXCEPT !.approved = q, !.wrote = r, !.verifying = k, !.flow.node = n]
    BY <1>4, <2>1, Zenon
  <2>3. GoesOn(n, turn.flow.bag, turn.flow.lists, q, r, turn.found, k)
    <3>1. PICK t : t = turn /\ IsTurn(t)
      BY <1>1
    <3>2. [t EXCEPT !.approved = q, !.wrote = r, !.verifying = k, !.flow.node = n]
            = TurnOf(t.worker, t.version,
                     FlowOf(t.flow.wf, n, t.flow.bag, t.flow.lists, t.flow.switch,
                            t.flow.shown, t.flow.basis, t.flow.under),
                     q, r, t.found, k)
      <4>1. PICK a, v, f, p, w, o, z : t = TurnOf(a, v, f, p, w, o, z) /\ IsFlow(f)
        BY <3>1 DEF IsTurn
      <4>2. /\ t.worker = a /\ t.version = v /\ t.flow = f /\ t.approved = p
            /\ t.wrote = w /\ t.found = o /\ t.verifying = z
        BY <4>1, TurnFields
      <4>3. PICK fa, fb, fc, fd, fe, fh, fi, fj : f = FlowOf(fa, fb, fc, fd, fe, fh, fi, fj)
        BY <4>1 DEF IsFlow
      <4>4. /\ f.wf = fa /\ f.node = fb /\ f.bag = fc /\ f.lists = fd
            /\ f.switch = fe /\ f.shown = fh /\ f.basis = fi /\ f.under = fj
        BY <4>3, FlowFields
      <4>5. [t EXCEPT !.approved = q, !.wrote = r, !.verifying = k, !.flow.node = n]
              = TurnOf(a, v, FlowOf(fa, n, fc, fd, fe, fh, fi, fj), q, r, o, k)
        <5>1. PICK s1 : s1 = [t EXCEPT !.approved = q]
          OBVIOUS
        <5>2. s1 = TurnOf(a, v, f, q, w, o, z)
          BY <4>1, <5>1 DEF TurnOf
        <5>3. PICK s2 : s2 = [s1 EXCEPT !.wrote = r]
          OBVIOUS
        <5>4. s2 = TurnOf(a, v, f, q, r, o, z)
          BY <5>2, <5>3 DEF TurnOf
        <5>5. PICK s3 : s3 = [s2 EXCEPT !.verifying = k]
          OBVIOUS
        <5>6. s3 = TurnOf(a, v, f, q, r, o, k)
          BY <5>4, <5>5 DEF TurnOf
        <5>7. PICK g1 : g1 = [f EXCEPT !.node = n]
          OBVIOUS
        <5>8. g1 = FlowOf(fa, n, fc, fd, fe, fh, fi, fj)
          BY <4>3, <5>7 DEF FlowOf
        <5>9. s3.flow = f
          BY <5>6 DEF TurnOf
        <5>10. [s3 EXCEPT !.flow.node = n] = [s3 EXCEPT !.flow = g1]
          BY <5>9, <5>7, Zenon
        <5>11. PICK r1 : r1 = [s3 EXCEPT !.flow.node = n]
          OBVIOUS
        <5>12. r1 = TurnOf(a, v, g1, q, r, o, k)
          BY <5>6, <5>10, <5>11 DEF TurnOf
        <5>13. r1 = TurnOf(a, v, FlowOf(fa, n, fc, fd, fe, fh, fi, fj), q, r, o, k)
          BY <5>12, <5>8
        <5>14. [t EXCEPT !.approved = q, !.wrote = r, !.verifying = k, !.flow.node = n]
                = [[[[t EXCEPT !.approved = q] EXCEPT !.wrote = r] EXCEPT !.verifying = k] EXCEPT !.flow.node = n]
          BY Zenon
        <5> QED
          BY <5>1, <5>3, <5>5, <5>11, <5>13, <5>14, Zenon
      <4> QED
        BY <4>2, <4>4, <4>5
    <3> QED
      BY <2>2, <3>1, <3>2, Zenon DEF GoesOn
  <2>4. CASE d.verify = None
    <3>1. q = None /\ r = None /\ k = FALSE /\ n = d.next
      BY <2>1, <2>4
    <3>2. GoesOn(d.next, turn.flow.bag, turn.flow.lists, None, None, turn.found, FALSE)
      BY <2>3, <3>1
    <3> QED
      BY <1>1, <1>2, <1>4, <2>4, <3>2 DEF record
  <2>5. CASE d.verify # None
    <3>1. q = None /\ r = record /\ k = TRUE /\ n = turn.flow.node
      BY <2>1, <2>5
    <3>2. GoesOn(turn.flow.node, turn.flow.bag, turn.flow.lists, None, record, turn.found, TRUE)
      BY <2>3, <3>1
    <3> QED
      BY <1>1, <1>2, <1>4, <2>5, <3>2 DEF record
  <2> QED
    BY <2>4, <2>5
<1> QED
  BY <1>2, <1>3, <1>4

\* A read-back ends the run, or has found a row that matches.
LEMMA VerifyWalks ==
  ASSUME turn # None => IsTurn(turn), WalkVerify, NEW d, d = Here
  PROVE  /\ Still /\ UNCHANGED <<facts, sent, told>> /\ turn # None /\ turn.verifying
         /\ \/ turn' = None /\ flow' = None
            \/ /\ flow' = flow
               /\ \E row \in Reply(d.verify.tool, _resolve_args(d.verify.args, turn.flow.bag), facts) :
                    Matches(row, d.verify.match, turn.flow.bag)
               /\ GoesOn(d.next, turn.flow.bag, turn.flow.lists, turn.approved, turn.wrote,
                         turn.wrote \in facts, FALSE)
<1>1. /\ turn # None /\ turn.verifying /\ IsTurn(turn)
      /\ Still /\ UNCHANGED <<facts, sent, told>>
  BY DEF WalkVerify, Still, consoleVars, ghosts
<1>2. \/ turn' = None /\ flow' = None
      \/ /\ flow' = flow
         /\ TRUE \in ReadBack(d)
         /\ turn' = [turn EXCEPT !.verifying = FALSE, !.flow.node = d.next,
                                 !.found = turn.wrote \in facts]
  BY DEF WalkVerify, ReadBack
<1>3. CASE turn' = None /\ flow' = None
  BY <1>1, <1>3
<1>4. CASE /\ flow' = flow
           /\ TRUE \in ReadBack(d)
           /\ turn' = [turn EXCEPT !.verifying = FALSE, !.flow.node = d.next,
                                   !.found = turn.wrote \in facts]
  <2>1. PICK k, n, g : k = FALSE /\ n = d.next /\ g = (turn.wrote \in facts)
    OBVIOUS
  <2>2. turn' = [turn EXCEPT !.verifying = k, !.flow.node = n, !.found = g]
    BY <1>4, <2>1, Zenon
  <2>3. GoesOn(n, turn.flow.bag, turn.flow.lists, turn.approved, turn.wrote, g, k)
    BY <1>1, <2>2, VerifyGoes DEF GoesOn
  <2>4. \E row \in Reply(d.verify.tool, _resolve_args(d.verify.args, turn.flow.bag), facts) :
          Matches(row, d.verify.match, turn.flow.bag)
    BY <1>4 DEF ReadBack
  <2> QED
    BY <1>1, <1>4, <2>1, <2>3, <2>4
<1> QED
  BY <1>2, <1>3, <1>4

\* A confirm node saves the flow with its summary.
LEMMA ConfirmWalks ==
  ASSUME turn # None => IsTurn(turn), WalkConfirm, NEW d, d = Here
  PROVE  /\ Still /\ UNCHANGED <<facts, sent, told>> /\ AtNode("confirm") /\ turn' = None
         /\ flow' = FlowOf(turn.flow.wf, turn.flow.node, turn.flow.bag, turn.flow.lists,
                           turn.flow.switch, Summary(turn.flow, d), turn.flow.basis,
                           turn.flow.under)
<1>1. /\ AtNode("confirm") /\ turn' = None /\ Still /\ UNCHANGED <<facts, sent, told>>
      /\ IsTurn(turn)
      /\ flow' = [turn.flow EXCEPT !.shown = Summary(turn.flow, d)]
  BY DEF WalkConfirm, AtNode, Still, consoleVars
<1>2. PICK x : x = Summary(turn.flow, d)
  OBVIOUS
<1>3. [turn.flow EXCEPT !.shown = x]
        = FlowOf(turn.flow.wf, turn.flow.node, turn.flow.bag, turn.flow.lists,
                 turn.flow.switch, x, turn.flow.basis, turn.flow.under)
  BY <1>1, ShownUpdate DEF IsTurn
<1> QED
  BY <1>1, <1>2, <1>3
-----------------------------------------------------------------------------
(* What the registries, the flow and the turn always are.                  *)

Registered ==
  /\ registry \in [Workers -> [Ids -> Versions \cup {None}]]
  /\ saved \in [Ids -> Versions \cup {None}]
  /\ \A w \in Workers, i \in Ids : registry[w][i] # None => IdOf[registry[w][i]] = i
  /\ \A i \in Ids : saved[i] # None => IdOf[saved[i]] = i

FlowOK(f) == IsFlow(f) /\ f.wf \in Ids /\ f.bag \in Bags
TurnOK(t) ==
  /\ IsTurn(t) /\ FlowOK(t.flow) /\ t.worker \in Workers
  /\ t.version \in Versions /\ t.flow.wf = IdOf[t.version]
  /\ t.flow.node \in NodeIds(t.version) \cup {""}
  /\ t.verifying \in BOOLEAN
  /\ t.verifying => IsA(t.version, t.flow.node, "mutate")

Base == Registered /\ (flow # None => FlowOK(flow)) /\ (turn # None => TurnOK(turn))

\* The flow and the turn are made of theirs.
LEMMA BaseShape ==
  ASSUME Base
  PROVE  /\ flow # None => IsFlow(flow) /\ FlowOK(flow)
         /\ turn # None => IsTurn(turn) /\ TurnOK(turn)
BY DEF Base, FlowOK, TurnOK

\* A bag keeps being one.
LEMMA PutBag ==
  ASSUME NEW bag \in Bags, NEW g \in Fields, NEW x \in Seq(Values)
  PROVE  Put(bag, g, x) \in Bags
<1>1. PICK S \in SUBSET Fields : bag \in [S -> Seq(Values)]
  BY DEF Bags
<1>2. Put(bag, g, x) \in [S \cup {g} -> Seq(Values)]
  BY <1>1 DEF Put
<1> QED
  BY <1>1, <1>2 DEF Bags

\* Clearing a field, and a default, leave a bag.
LEMMA DropBag ==
  ASSUME NEW bag \in Bags, NEW g
  PROVE  Drop(bag, g) \in Bags
<1>1. PICK S \in SUBSET Fields : bag \in [S -> Seq(Values)]
  BY DEF Bags
<1>2. Drop(bag, g) \in [S \ {g} -> Seq(Values)]
  BY <1>1 DEF Drop
<1> QED
  BY <1>1, <1>2 DEF Bags

LEMMA DefaultBag ==
  ASSUME NEW bag \in Bags, NEW g \in Fields
  PROVE  Default(bag, g) \in Bags
<1>1. <<>> \in Seq(Values)
  OBVIOUS
<1> QED
  BY <1>1, PutBag DEF Default

\* The value of a field is a list of values.
LEMMA ValueList ==
  ASSUME NEW bag \in Bags, NEW g
  PROVE  Value(bag, g) \in Seq(Values)
BY DEF Bags, Value

\* The fields of a node are those of a bag, and its edges lead to nodes.
LEMMA FieldIn ==
  ASSUME NEW v \in Versions, NEW n
  PROVE  /\ IsA(v, n, "ask") => Node(v, n).field \in Fields
         /\ IsA(v, n, "filter") => Node(v, n).empty_key \in Fields
BY DEF IsA, Fields

\* The edges of a node lead to nodes or end the run.
LEMMA TargetIn ==
  ASSUME NEW v \in Versions, NEW n \in NodeIds(v)
  PROVE  \A t \in Targets(Node(v, n)) : t \in NodeIds(v) \cup {""}
<1>1. from_dict(Graph[v])
  BY GraphAssumption
<1>2. \A t \in Targets(Node(v, n)) : t \in Edges(Graph[v])
  BY DEF Edges, Node, NodeIds
<1> QED
  BY <1>1, <1>2 DEF from_dict, NodeIds

\* So does its next node.
LEMMA NextIn ==
  ASSUME NEW v \in Versions, NEW n \in NodeIds(v),
         Node(v, n).type \in {"ask", "fetch", "filter", "confirm", "mutate"}
  PROVE  /\ Node(v, n).next \in Targets(Node(v, n))
         /\ Node(v, n).next \in NodeIds(v) \cup {""}
<1>1. Node(v, n).next \in Targets(Node(v, n))
  BY DEF Targets
<1> QED
  BY <1>1, TargetIn

\* The version a worker knows for the flow.
LEMMA CurrentIs ==
  ASSUME Base, NEW w \in Workers, flow # None, registry[w][flow.wf] # None
  PROVE  Current(w) \in Versions /\ IdOf[Current(w)] = flow.wf /\ flow.wf \in Ids
BY DEF Base, Registered, FlowOK, Current

\* The node a turn stands at.
LEMMA TurnHere ==
  ASSUME Base, NEW type, AtNode(type)
  PROVE  /\ turn # None /\ TurnOK(turn) /\ turn.verifying = FALSE
         /\ turn.version \in Versions /\ turn.flow.node \in NodeIds(turn.version)
         /\ IsA(turn.version, turn.flow.node, type)
         /\ Here = Node(turn.version, turn.flow.node) /\ Here.type = type
<1>1. turn # None /\ TurnOK(turn) /\ turn.verifying = FALSE
  BY DEF AtNode, Base, TurnOK
<1>2. turn.flow.node \in NodeIds(turn.version)
  BY <1>1 DEF TurnOK, AtNode
<1> QED
  BY <1>1, <1>2 DEF TurnOK, AtNode, Here, IsA

\* The node an answer is for.
LEMMA AnsweredHere ==
  ASSUME Base, NEW w \in Workers, NEW type, Answered(w, type)
  PROVE  /\ flow # None /\ FlowOK(flow)
         /\ Current(w) \in Versions /\ IdOf[Current(w)] = flow.wf
         /\ flow.node \in NodeIds(Current(w)) /\ IsA(Current(w), flow.node, type)
<1>1. flow # None /\ registry[w][flow.wf] # None /\ FlowOK(flow)
  BY DEF Answered, Base
<1> QED
  BY <1>1, CurrentIs DEF Answered, IsA

\* What a turn is that has begun, and one that went on.
LEMMA BegunTurn ==
  ASSUME Base, NEW w \in Workers, NEW node, NEW bag \in Bags, NEW basis, NEW p,
         flow # None, registry[w][flow.wf] # None, node \in NodeIds(Current(w)) \cup {""},
         Begins(w, node, bag, basis, p)
  PROVE  /\ turn' # None => TurnOK(turn')
         /\ turn'.version = Current(w) /\ turn'.flow.node = node /\ turn'.flow.bag = bag
         /\ turn'.flow.basis = basis /\ turn'.flow.lists = flow.lists
         /\ turn'.flow.wf = flow.wf /\ turn'.flow.shown = flow.shown
         /\ turn'.flow.under = flow.under \cup {Current(w)}
         /\ turn'.approved = p /\ turn'.wrote = None /\ turn'.found = FALSE
         /\ turn'.verifying = FALSE
<1>1. PICK f : f = FlowOf(flow.wf, node, bag, flow.lists, None, flow.shown, basis,
                          flow.under \cup {Current(w)})
  OBVIOUS
<1>2. turn' = TurnOf(w, Current(w), f, p, None, FALSE, FALSE)
  BY <1>1 DEF Begins
<1>3. /\ IsFlow(f) /\ f.wf = flow.wf /\ f.node = node /\ f.bag = bag /\ f.lists = flow.lists
      /\ f.shown = flow.shown /\ f.basis = basis /\ f.under = flow.under \cup {Current(w)}
  <2>1. /\ f.wf = flow.wf /\ f.node = node /\ f.bag = bag /\ f.lists = flow.lists
        /\ f.switch = None /\ f.shown = flow.shown /\ f.basis = basis
        /\ f.under = flow.under \cup {Current(w)}
    BY <1>1 DEF FlowOf
  <2> QED
    BY <1>1, <2>1, Zenon DEF IsFlow
<1>4. /\ turn'.version = Current(w) /\ turn'.flow = f /\ turn'.approved = p
      /\ turn'.wrote = None /\ turn'.found = FALSE /\ turn'.verifying = FALSE
      /\ turn'.worker = w /\ IsTurn(turn')
  <2>1. /\ turn'.worker = w /\ turn'.version = Current(w) /\ turn'.flow = f /\ turn'.approved = p
        /\ turn'.wrote = None /\ turn'.found = FALSE /\ turn'.verifying = FALSE
    BY <1>2 DEF TurnOf
  <2> QED
    BY <1>2, <1>3, <2>1, Zenon DEF IsTurn
<1>5. Current(w) \in Versions /\ IdOf[Current(w)] = flow.wf /\ flow.wf \in Ids
  BY CurrentIs
<1>6. TurnOK(turn')
  BY <1>3, <1>4, <1>5 DEF TurnOK, FlowOK
<1> QED
  BY <1>3, <1>4, <1>6

WentOn(node, bag, lists, p, wrote, found, k) ==
  /\ turn'.version = turn.version /\ turn'.flow.node = node /\ turn'.flow.bag = bag
  /\ turn'.flow.basis = turn.flow.basis /\ turn'.flow.lists = lists
  /\ turn'.flow.wf = turn.flow.wf /\ turn'.flow.shown = turn.flow.shown
  /\ turn'.flow.under = turn.flow.under
  /\ turn'.approved = p /\ turn'.wrote = wrote /\ turn'.found = found
  /\ turn'.verifying <=> k

\* A turn that goes on is one.
LEMMA GoneOn ==
  ASSUME NEW node, NEW bag \in Bags, NEW lists, NEW p, NEW wrote, NEW found, NEW k \in BOOLEAN,
         turn # None, TurnOK(turn), node \in NodeIds(turn.version) \cup {""},
         k => IsA(turn.version, node, "mutate"),
         GoesOn(node, bag, lists, p, wrote, found, k)
  PROVE  /\ turn' # None => TurnOK(turn')
         /\ WentOn(node, bag, lists, p, wrote, found, k)
<1>1. PICK f : f = FlowOf(turn.flow.wf, node, bag, lists, turn.flow.switch,
                          turn.flow.shown, turn.flow.basis, turn.flow.under)
  OBVIOUS
<1>2. turn' = TurnOf(turn.worker, turn.version, f, p, wrote, found, k)
  BY <1>1 DEF GoesOn
<1>3. /\ IsFlow(f) /\ f.wf = turn.flow.wf /\ f.node = node /\ f.bag = bag /\ f.lists = lists
      /\ f.shown = turn.flow.shown /\ f.basis = turn.flow.basis /\ f.under = turn.flow.under
  <2>1. /\ f.wf = turn.flow.wf /\ f.node = node /\ f.bag = bag /\ f.lists = lists
        /\ f.switch = turn.flow.switch /\ f.shown = turn.flow.shown
        /\ f.basis = turn.flow.basis /\ f.under = turn.flow.under
    BY <1>1 DEF FlowOf
  <2> QED
    BY <1>1, <2>1, Zenon DEF IsFlow
<1>4. /\ turn'.version = turn.version /\ turn'.flow = f /\ turn'.approved = p
      /\ turn'.wrote = wrote /\ turn'.found = found /\ turn'.verifying = k
      /\ turn'.worker = turn.worker /\ IsTurn(turn')
  <2>1. /\ turn'.worker = turn.worker /\ turn'.version = turn.version /\ turn'.flow = f
        /\ turn'.approved = p /\ turn'.wrote = wrote /\ turn'.found = found
        /\ turn'.verifying = k
    BY <1>2 DEF TurnOf
  <2> QED
    BY <1>2, <1>3, <2>1, Zenon DEF IsTurn
<1>5. TurnOK(turn')
  BY <1>3, <1>4 DEF TurnOK, FlowOK
<1> QED
  BY <1>3, <1>4, <1>5 DEF WentOn
\* The console changes the registries; a restart may end the turn.
LEMMA ConsoleStep ==
  ASSUME Base, AdminStep
  PROVE  Registered' /\ UNCHANGED <<flow, facts, sent, told>> /\ turn' \in {turn, None}
<1>1. /\ registry \in [Workers -> [Ids -> Versions \cup {None}]]
      /\ saved \in [Ids -> Versions \cup {None}]
      /\ \A w \in Workers, i \in Ids : registry[w][i] # None => IdOf[registry[w][i]] = i
      /\ \A i \in Ids : saved[i] # None => IdOf[saved[i]] = i
  BY DEF Base, Registered
<1>2. PICK w \in Workers : \/ \E v \in Drafts : SaveWorkflow(w, v)
                           \/ \E i \in Ids : DeleteWorkflow(w, i)
                           \/ Restart(w)
  BY DEF AdminStep
<1>3. CASE \E v \in Drafts : SaveWorkflow(w, v)
  <2>1. PICK v \in Drafts : SaveWorkflow(w, v)
    BY <1>3
  <2>2. v \in Versions /\ IdOf[v] \in Ids
    BY GraphAssumption
  <2>3. PICK i : i = IdOf[v] /\ i \in Ids
    BY <2>2
  <2>4. /\ registry' = [registry EXCEPT ![w][i] = v] /\ saved' = [saved EXCEPT ![i] = v]
        /\ UNCHANGED <<flow, turn, facts, sent, told>>
    BY <2>1, <2>3 DEF SaveWorkflow, ghosts
  <2>5. registry' \in [Workers -> [Ids -> Versions \cup {None}]]
    BY <1>1, <2>2, <2>3, <2>4
  <2>6. saved' \in [Ids -> Versions \cup {None}]
    BY <1>1, <2>2, <2>3, <2>4
  <2>7. \A x \in Workers, j \in Ids :
          registry'[x][j] = IF x = w /\ j = i THEN v ELSE registry[x][j]
    BY <1>1, <2>3, <2>4
  <2>8. \A j \in Ids : saved'[j] = IF j = i THEN v ELSE saved[j]
    BY <1>1, <2>3, <2>4
  <2> QED
    BY <1>1, <2>3, <2>4, <2>5, <2>6, <2>7, <2>8 DEF Registered
<1>4. CASE \E i \in Ids : DeleteWorkflow(w, i)
  <2>1. PICK i \in Ids : DeleteWorkflow(w, i)
    BY <1>4
  <2>2. /\ registry' = [registry EXCEPT ![w][i] = None] /\ saved' = [saved EXCEPT ![i] = None]
        /\ UNCHANGED <<flow, turn, facts, sent, told>>
    BY <2>1 DEF DeleteWorkflow, ghosts
  <2>3. /\ registry' \in [Workers -> [Ids -> Versions \cup {None}]]
        /\ saved' \in [Ids -> Versions \cup {None}]
    BY <1>1, <2>2
  <2>4. /\ \A x \in Workers, j \in Ids : registry'[x][j] # None => registry'[x][j] = registry[x][j]
        /\ \A j \in Ids : saved'[j] # None => saved'[j] = saved[j]
    BY <1>1, <2>2
  <2> QED
    BY <1>1, <2>2, <2>3, <2>4 DEF Registered
<1>5. CASE Restart(w)
  <2>1. /\ registry' = [registry EXCEPT ![w] = Loaded(saved)] /\ saved' = saved
        /\ UNCHANGED <<flow, facts, sent, told>> /\ turn' \in {turn, None}
    BY <1>5 DEF Restart, ghosts
  <2>2. /\ Loaded(saved) \in [Ids -> Versions \cup {None}]
        /\ \A i \in Ids : Loaded(saved)[i] # None => IdOf[Loaded(saved)[i]] = i
    BY <1>1, GraphAssumption DEF Loaded
  <2>3. registry' \in [Workers -> [Ids -> Versions \cup {None}]]
    BY <1>1, <2>1, <2>2
  <2>4. \A x \in Workers, j \in Ids :
          registry'[x][j] = IF x = w THEN Loaded(saved)[j] ELSE registry[x][j]
    BY <1>1, <2>1
  <2> QED
    BY <1>1, <2>1, <2>2, <2>3, <2>4 DEF Registered
<1> QED
  BY <1>2, <1>3, <1>4, <1>5

\* The same, spelled out.
LEMMA GoneTurn ==
  ASSUME NEW node, NEW bag \in Bags, NEW lists, NEW p, NEW wrote, NEW found, NEW k \in BOOLEAN,
         turn # None, TurnOK(turn), node \in NodeIds(turn.version) \cup {""},
         k => IsA(turn.version, node, "mutate"),
         GoesOn(node, bag, lists, p, wrote, found, k)
  PROVE  /\ turn' # None => TurnOK(turn')
         /\ turn'.version = turn.version /\ turn'.flow.node = node /\ turn'.flow.bag = bag
         /\ turn'.flow.basis = turn.flow.basis /\ turn'.flow.lists = lists
         /\ turn'.flow.wf = turn.flow.wf /\ turn'.flow.shown = turn.flow.shown
         /\ turn'.flow.under = turn.flow.under
         /\ turn'.approved = p /\ turn'.wrote = wrote /\ turn'.found = found
         /\ turn'.verifying <=> k
<1>1. (turn' # None => TurnOK(turn')) /\ WentOn(node, bag, lists, p, wrote, found, k)
  BY GoneOn
<1> QED
  BY <1>1 DEF WentOn

\* A flow that begins.
LEMMA FreshFlow ==
  ASSUME NEW v \in Versions, NEW f, f = NewFlow(v)
  PROVE  /\ FlowOK(f) /\ f.wf = IdOf[v] /\ f.node = Graph[v].start /\ f.bag = <<>>
         /\ f.lists = <<>> /\ f.shown = None /\ f.basis = <<>> /\ f.under = {v}
<1>1. /\ f.wf = IdOf[v] /\ f.node = Graph[v].start /\ f.bag = <<>> /\ f.lists = <<>>
      /\ f.switch = None /\ f.shown = None /\ f.basis = <<>> /\ f.under = {v}
  BY DEF NewFlow
<1>2. IsFlow(f)
  BY <1>1, Zenon DEF IsFlow, FlowOf, NewFlow
<1>3. IdOf[v] \in Ids
  BY GraphAssumption
<1>4. <<>> \in Bags
  <2>1. <<>> \in [{} -> Seq(Values)]
    OBVIOUS
  <2> QED
    BY <2>1 DEF Bags
<1> QED
  BY <1>1, <1>2, <1>3, <1>4 DEF FlowOK

\* The steps that open, leave or cancel a flow.
Turns ==
  /\ Quiet /\ turn' = turn
  /\ \/ flow' = None
     \/ \E v \in Versions : IsA(v, Graph[v].start, "ask") /\ flow' = NewFlow(v)

\* Opening, leaving and cancelling are such steps.
LEMMA OpenStep ==
  ASSUME Base, Cancel \/ \E w \in Workers : \/ \E i \in Ids : Open(w, i)
                                            \/ \E m \in Messages : SwitchAway(w, m)
  PROVE  Turns
<1>1. \A w \in Workers, i \in Ids :
        CanOpen(w, i) => registry[w][i] \in Versions
                         /\ IsA(registry[w][i], Graph[registry[w][i]].start, "ask")
  <2> SUFFICES ASSUME NEW w \in Workers, NEW i \in Ids, CanOpen(w, i)
               PROVE  registry[w][i] \in Versions
                      /\ IsA(registry[w][i], Graph[registry[w][i]].start, "ask")
    OBVIOUS
  <2>1. registry[w][i] \in Versions
    BY DEF Base, Registered, CanOpen
  <2>2. from_dict(Graph[registry[w][i]])
    BY <2>1, GraphAssumption
  <2> QED
    BY <2>1, <2>2 DEF CanOpen, IsA, from_dict, NodeIds
<1>2. CASE Cancel
  BY <1>2 DEF Cancel, Turns, Quiet, consoleVars, ghosts
<1>3. ASSUME NEW w \in Workers, NEW i \in Ids, Open(w, i) PROVE Turns
  BY <1>1, <1>3 DEF Open, Turns, Quiet, consoleVars
<1>4. ASSUME NEW w \in Workers, NEW m \in Messages, SwitchAway(w, m) PROVE Turns
  <2>1. /\ Quiet /\ turn' = turn
        /\ flow' = IF flow.switch[2] \in Ids /\ CanOpen(w, flow.switch[2])
                     THEN NewFlow(registry[w][flow.switch[2]]) ELSE None
    BY <1>4 DEF SwitchAway, Quiet, consoleVars, ghosts
  <2>2. PICK i : i = flow.switch[2]
    OBVIOUS
  <2>3. flow' = None \/ (i \in Ids /\ CanOpen(w, i) /\ flow' = NewFlow(registry[w][i]))
    BY <2>1, <2>2
  <2> QED
    BY <1>1, <2>1, <2>3 DEF Turns
<1> QED
  BY <1>2, <1>3, <1>4

\* The messages that begin a turn, and the choice that does not.
Started(w) ==
  /\ flow' = flow /\ flow # None /\ registry[w][flow.wf] # None
  /\ \E node \in NodeIds(Current(w)) \cup {""}, bag \in Bags : \E basis, p :
       Begins(w, node, bag, basis, p)

Picked(w) ==
  /\ turn' = turn /\ Answered(w, "ask")
  /\ Node(Current(w), flow.node).multi /\ Node(Current(w), flow.node).options_from # ""
  /\ \E bag \in Bags, x \in Seq(Values) :
       /\ bag = Put(flow.bag, Node(Current(w), flow.node).field, x)
       /\ flow' = FlowOf(flow.wf, flow.node, bag, flow.lists, None, flow.shown,
                         Put(flow.basis, Node(Current(w), flow.node).field,
                             Grounds(flow, Node(Current(w), flow.node).options_from)),
                         flow.under \cup {Current(w)})

\* A step with several options picks.
LEMMA MultiPicks ==
  ASSUME Base, NEW w \in Workers, NEW m \in Messages, ChooseOption(w, m),
         Node(Current(w), flow.node).multi
  PROVE  Quiet /\ Picked(w)
<1>1. flow # None /\ IsFlow(flow) /\ flow.bag \in Bags
  BY DEF ChooseOption, Answers, Handles, Base, FlowOK
<1>2. PICK d : d = Node(Current(w), flow.node)
  OBVIOUS
<1>3. PICK basis : basis = Put(flow.basis, d.field, Grounds(flow, d.options_from))
  OBVIOUS
<1>4. /\ Quiet /\ Answered(w, "ask") /\ d.options_from # "" /\ d.multi /\ turn' = turn
      /\ flow' = FlowOf(flow.wf, flow.node,
                        Put(flow.bag, d.field, Append(Value(flow.bag, d.field), m[2])),
                        flow.lists, None, flow.shown, basis, flow.under \cup {Current(w)})
  BY <1>1, <1>2, <1>3, ChoiceBegins
<1>5. d.field \in Fields
  BY <1>2, <1>4, AnsweredHere, FieldIn
<1>6. Append(Value(flow.bag, d.field), m[2]) \in Seq(Values)
  <2>1. Value(flow.bag, d.field) \in Seq(Values) /\ m[2] \in Values
    BY <1>1, ValueList DEF Values
  <2> QED
    BY <2>1
<1>7. Put(flow.bag, d.field, Append(Value(flow.bag, d.field), m[2])) \in Bags
  BY <1>1, <1>5, <1>6, PutBag
<1> QED
  BY <1>2, <1>3, <1>4, <1>6, <1>7 DEF Picked

\* Every answer begins a turn or picks.
LEMMA AnswerStep ==
  ASSUME Base, NEW w \in Workers, NEW m \in Messages,
         \/ EditStep(w, m) \/ SkipAsk(w, m) \/ ChooseOption(w, m) \/ TypeAnswer(w, m)
         \/ ConfirmIt(w, m) \/ ResumeElsewhere(w, m)
  PROVE  Quiet /\ (Started(w) \/ Picked(w))
<1>1. flow # None /\ IsFlow(flow) /\ flow.bag \in Bags /\ registry[w][flow.wf] # None
      /\ Current(w) \in Versions
  <2>1. flow # None /\ registry[w][flow.wf] # None
    BY DEF EditStep, SkipAsk, ChooseOption, TypeAnswer, ConfirmIt, ResumeElsewhere, Answers, Handles
  <2> QED
    BY <2>1, CurrentIs DEF Base, FlowOK
<1>2. PICK d : d = Node(Current(w), flow.node)
  OBVIOUS
<1>3. \A type : Answered(w, type) => /\ flow.node \in NodeIds(Current(w)) /\ d.type = type
                                     /\ IsA(Current(w), flow.node, type)
  BY <1>2, AnsweredHere DEF IsA
<1>4. \A x \in Texts \cup {m[2]} : <<x>> \in Seq(Values)
  BY DEF Values
<1>5. CASE EditStep(w, m)
  <2>1. PICK t \in NodeIds(Current(w)) :
          Begins(w, t, Drop(flow.bag, Node(Current(w), t).field), flow.basis, None)
    BY <1>1, <1>5, EditBegins
  <2>2. Drop(flow.bag, Node(Current(w), t).field) \in Bags
    BY <1>1, DropBag
  <2>3. Quiet /\ flow' = flow
    BY <1>1, <1>5, EditBegins
  <2> QED
    BY <1>1, <2>1, <2>2, <2>3 DEF Started
<1>6. CASE SkipAsk(w, m)
  <2>1. /\ Quiet /\ flow' = flow /\ Answered(w, "ask")
        /\ Begins(w, d.next, Default(flow.bag, d.field), flow.basis, None)
    BY <1>1, <1>2, <1>6, SkipBegins
  <2>2. Default(flow.bag, d.field) \in Bags
    BY <1>1, <1>2, <1>3, <2>1, FieldIn, DefaultBag
  <2>3. d.next \in NodeIds(Current(w)) \cup {""}
    BY <1>1, <1>2, <1>3, <2>1, NextIn
  <2> QED
    BY <1>1, <2>1, <2>2, <2>3 DEF Started
<1>7. CASE TypeAnswer(w, m)
  <2>1. /\ Quiet /\ flow' = flow /\ Answered(w, "ask")
    BY <1>1, <1>2, <1>7, TypeBegins
  <2>2. PICK x \in Texts : Begins(w, d.next, Put(flow.bag, d.field, <<x>>), flow.basis, None)
    BY <1>1, <1>2, <1>7, TypeBegins
  <2>3. Put(flow.bag, d.field, <<x>>) \in Bags
    BY <1>1, <1>2, <1>3, <1>4, <2>1, FieldIn, PutBag
  <2>4. d.next \in NodeIds(Current(w)) \cup {""}
    BY <1>1, <1>2, <1>3, <2>1, NextIn
  <2> QED
    BY <1>1, <2>1, <2>2, <2>3, <2>4 DEF Started
<1>8. CASE ConfirmIt(w, m)
  <2>1. /\ Quiet /\ flow' = flow /\ Answered(w, "confirm")
        /\ Begins(w, d.next, flow.bag, flow.basis, flow.shown)
    BY <1>1, <1>2, <1>8, ConfirmBegins
  <2>2. d.next \in NodeIds(Current(w)) \cup {""}
    BY <1>1, <1>2, <1>3, <2>1, NextIn
  <2> QED
    BY <1>1, <2>1, <2>2 DEF Started
<1>9. CASE ResumeElsewhere(w, m)
  <2>1. /\ Quiet /\ flow' = flow /\ flow.node \in NodeIds(Current(w))
        /\ Begins(w, flow.node, flow.bag, flow.basis, None)
    BY <1>1, <1>9, ResumeBegins DEF Answered
  <2> QED
    BY <1>1, <2>1 DEF Started
<1>10. CASE ChooseOption(w, m)
  <2>1. PICK basis : basis = Put(flow.basis, d.field, Grounds(flow, d.options_from))
    OBVIOUS
  <2>2. CASE d.multi
    BY <1>2, <1>10, <2>2, MultiPicks
  <2>3. CASE ~d.multi
    <3>1. /\ Quiet /\ Answered(w, "ask") /\ flow' = flow
          /\ Begins(w, d.next, Put(flow.bag, d.field, <<m[2]>>), basis, None)
      BY <1>1, <1>2, <1>10, <2>1, <2>3, ChoiceBegins
    <3>2. d.field \in Fields /\ d.next \in NodeIds(Current(w)) \cup {""}
      BY <1>1, <1>2, <1>3, <3>1, FieldIn, NextIn
    <3>3. Put(flow.bag, d.field, <<m[2]>>) \in Bags
      BY <1>1, <1>4, <3>2, PutBag
    <3> QED
      BY <1>1, <3>1, <3>2, <3>3 DEF Started
  <2> QED
    BY <2>2, <2>3
<1> QED
  BY <1>5, <1>6, <1>7, <1>8, <1>9, <1>10
\* The registries stay what they are when nobody touches them.
LEMMA QuietRegistered ==
  ASSUME Base, UNCHANGED <<registry, saved>>
  PROVE  Registered'
BY DEF Base, Registered

\* The flow after a pick.
LEMMA PickedFlow ==
  ASSUME Base, NEW w \in Workers, Picked(w)
  PROVE  /\ flow # None /\ FlowOK(flow) /\ FlowOK(flow') /\ Current(w) \in Versions
         /\ IdOf[Current(w)] = flow.wf /\ IsA(Current(w), flow.node, "ask")
         /\ flow'.wf = flow.wf /\ flow'.node = flow.node /\ flow'.lists = flow.lists
         /\ flow'.under = flow.under \cup {Current(w)} /\ flow'.shown = flow.shown
         /\ flow'.basis = Put(flow.basis, Node(Current(w), flow.node).field,
                              Grounds(flow, Node(Current(w), flow.node).options_from))
         /\ \E x \in Seq(Values) : flow'.bag = Put(flow.bag, Node(Current(w), flow.node).field, x)
<1>1. PICK basis, under :
        /\ basis = Put(flow.basis, Node(Current(w), flow.node).field,
                       Grounds(flow, Node(Current(w), flow.node).options_from))
        /\ under = flow.under \cup {Current(w)}
  OBVIOUS
<1>2. PICK bag \in Bags, x \in Seq(Values) :
        /\ bag = Put(flow.bag, Node(Current(w), flow.node).field, x)
        /\ flow' = FlowOf(flow.wf, flow.node, bag, flow.lists, None, flow.shown, basis, under)
  BY <1>1 DEF Picked
<1>3. /\ flow'.wf = flow.wf /\ flow'.node = flow.node /\ flow'.bag = bag
      /\ flow'.lists = flow.lists /\ flow'.switch = None /\ flow'.shown = flow.shown
      /\ flow'.basis = basis /\ flow'.under = under
  BY <1>2 DEF FlowOf
<1>4. IsFlow(flow')
  BY <1>2, <1>3, Zenon DEF IsFlow
<1>5. /\ flow # None /\ FlowOK(flow) /\ Current(w) \in Versions
      /\ IdOf[Current(w)] = flow.wf /\ IsA(Current(w), flow.node, "ask")
  BY AnsweredHere DEF Picked
<1> QED
  BY <1>1, <1>2, <1>3, <1>4, <1>5 DEF FlowOK

\* The flow after a message that is no answer.
LEMMA StaysFlow ==
  ASSUME Base, flow # None, \E s : Stays(s)
  PROVE  /\ FlowOK(flow') /\ flow'.wf = flow.wf /\ flow'.node = flow.node
         /\ flow'.bag = flow.bag /\ flow'.lists = flow.lists /\ flow'.shown = flow.shown
         /\ flow'.basis = flow.basis /\ flow'.under = flow.under
<1>1. PICK s : flow' = FlowOf(flow.wf, flow.node, flow.bag, flow.lists, s, flow.shown,
                              flow.basis, flow.under)
  BY DEF Stays
<1>2. /\ flow'.wf = flow.wf /\ flow'.node = flow.node /\ flow'.bag = flow.bag
      /\ flow'.lists = flow.lists /\ flow'.switch = s /\ flow'.shown = flow.shown
      /\ flow'.basis = flow.basis /\ flow'.under = flow.under
  BY <1>1 DEF FlowOf
<1>3. IsFlow(flow')
  BY <1>1, <1>2, Zenon DEF IsFlow
<1> QED
  BY <1>2, <1>3 DEF Base, FlowOK

\* The flow a confirm node saves.
LEMMA ConfirmedFlow ==
  ASSUME Base, WalkConfirm
  PROVE  /\ FlowOK(flow') /\ flow'.wf = turn.flow.wf /\ flow'.node = turn.flow.node
         /\ flow'.bag = turn.flow.bag /\ flow'.lists = turn.flow.lists
         /\ flow'.shown = Summary(turn.flow, Here)
         /\ flow'.basis = turn.flow.basis /\ flow'.under = turn.flow.under
<1>1. PICK x : x = Summary(turn.flow, Here)
  OBVIOUS
<1>2. flow' = FlowOf(turn.flow.wf, turn.flow.node, turn.flow.bag, turn.flow.lists,
                     turn.flow.switch, x, turn.flow.basis, turn.flow.under)
  BY <1>1, BaseShape, ConfirmWalks
<1>3. /\ flow'.wf = turn.flow.wf /\ flow'.node = turn.flow.node /\ flow'.bag = turn.flow.bag
      /\ flow'.lists = turn.flow.lists /\ flow'.switch = turn.flow.switch /\ flow'.shown = x
      /\ flow'.basis = turn.flow.basis /\ flow'.under = turn.flow.under
  BY <1>2 DEF FlowOf
<1>4. IsFlow(flow')
  BY <1>2, <1>3, Zenon DEF IsFlow
<1>5. FlowOK(turn.flow)
  BY TurnHere DEF WalkConfirm, TurnOK
<1> QED
  BY <1>1, <1>3, <1>4, <1>5 DEF FlowOK

\* What the walk leaves: a turn that went on, or none.
LEMMA WalkedTurn ==
  ASSUME Base, WalkFetch \/ WalkFilter \/ WalkBranch \/ WalkMutate \/ WalkVerify
  PROVE  (flow' = flow \/ flow' = None) /\ (turn' # None => TurnOK(turn')) /\ Still
<1>1. /\ turn # None /\ IsTurn(turn) /\ TurnOK(turn) /\ turn.flow.bag \in Bags
      /\ turn.version \in Versions
  <2>1. turn # None
    BY DEF WalkFetch, WalkFilter, WalkBranch, WalkMutate, WalkVerify, AtNode
  <2> QED
    BY <2>1, BaseShape DEF TurnOK, FlowOK
<1>2. PICK d : d = Here
  OBVIOUS
<1>3. \A type : AtNode(type) => /\ turn.flow.node \in NodeIds(turn.version)
                                /\ IsA(turn.version, turn.flow.node, type)
                                /\ d = Node(turn.version, turn.flow.node) /\ d.type = type
                                /\ turn.verifying = FALSE
  BY <1>2, TurnHere
<1>4. d.type \in {"fetch", "filter", "mutate"} /\ turn.flow.node \in NodeIds(turn.version)
      /\ d = Node(turn.version, turn.flow.node)
        => d.next \in NodeIds(turn.version) \cup {""}
  BY <1>1, NextIn
<1>5. CASE WalkFetch
  <2>1. AtNode("fetch") /\ flow' = flow /\ Still
    BY <1>1, <1>2, <1>5, FetchGoes
  <2>2. PICK lists : GoesOn(d.next, turn.flow.bag, lists, turn.approved, turn.wrote, turn.found,
                            FALSE)
    BY <1>1, <1>2, <1>3, <1>5, <2>1, FetchGoes
  <2>3. turn' # None => TurnOK(turn')
    BY <1>1, <1>3, <1>4, <2>1, <2>2, GoneTurn
  <2> QED
    BY <2>1, <2>3
<1>6. CASE WalkFilter
  <2>1. AtNode("filter") /\ flow' = flow /\ Still
    BY <1>1, <1>2, <1>6, FilterWalks
  <2>2. PICK flag \in {"Y", "N"} : \E lists :
          GoesOn(d.next, Put(turn.flow.bag, d.empty_key, <<flag>>), lists, turn.approved,
                 turn.wrote, turn.found, FALSE)
    BY <1>1, <1>2, <1>3, <1>6, <2>1, FilterWalks
  <2>3. <<flag>> \in Seq(Values)
    BY DEF Values
  <2>4. Put(turn.flow.bag, d.empty_key, <<flag>>) \in Bags
    BY <1>1, <1>3, <2>1, <2>3, FieldIn, PutBag
  <2>5. turn' # None => TurnOK(turn')
    BY <1>1, <1>3, <1>4, <2>1, <2>2, <2>4, GoneTurn
  <2> QED
    BY <2>1, <2>5
<1>7. CASE WalkBranch
  <2>1. AtNode("branch") /\ flow' = flow /\ Still
    BY <1>1, <1>2, <1>7, BranchGoes
  <2>2. PICK n \in Targets(d) :
          GoesOn(n, turn.flow.bag, turn.flow.lists, turn.approved, turn.wrote, turn.found,
                 FALSE)
    BY <1>1, <1>2, <1>3, <1>7, <2>1, BranchGoes
  <2>3. n \in NodeIds(turn.version) \cup {""}
    BY <1>1, <1>3, <2>1, <2>2, TargetIn
  <2>4. turn' # None => TurnOK(turn')
    BY <1>1, <1>3, <2>1, <2>2, <2>3, GoneTurn
  <2> QED
    BY <2>1, <2>4
<1>8. CASE WalkMutate
  <2>1. AtNode("mutate") /\ Still
    BY <1>1, <1>2, <1>8, MutateWalks
  <2>2. PICK record :
          \/ turn' = None /\ flow' = None
          \/ /\ flow' = flow
             /\ GoesOn(d.next, turn.flow.bag, turn.flow.lists, None, None, turn.found, FALSE)
          \/ /\ flow' = flow
             /\ GoesOn(turn.flow.node, turn.flow.bag, turn.flow.lists, None, record,
                       turn.found, TRUE)
    BY <1>1, <1>2, <1>8, MutateWalks
  <2>3. turn' # None => TurnOK(turn')
    BY <1>1, <1>3, <1>4, <2>1, <2>2, GoneTurn
  <2> QED
    BY <2>1, <2>2, <2>3
<1>9. CASE WalkVerify
  <2>1. /\ Still /\ IsA(turn.version, turn.flow.node, "mutate")
        /\ d = Node(turn.version, turn.flow.node)
    BY <1>1, <1>2, <1>9, VerifyWalks DEF TurnOK, Here
  <2>2. PICK g : \/ turn' = None /\ flow' = None
                 \/ /\ flow' = flow
                    /\ GoesOn(d.next, turn.flow.bag, turn.flow.lists, turn.approved, turn.wrote,
                              g, FALSE)
    BY <1>1, <1>2, <1>9, VerifyWalks
  <2>3. d.next \in NodeIds(turn.version) \cup {""}
    BY <1>4, <2>1 DEF IsA
  <2>4. turn' # None => TurnOK(turn')
    BY <1>1, <2>2, <2>3, GoneTurn
  <2> QED
    BY <2>1, <2>2, <2>4
<1> QED
  BY <1>5, <1>6, <1>7, <1>8, <1>9

\* All of it holds at the start, and every step keeps it.
LEMMA BaseInit == Init => Base
<1> SUFFICES ASSUME Init PROVE Base
  OBVIOUS
<1>1. /\ Loaded(Stored) \in [Ids -> Versions \cup {None}]
      /\ \A i \in Ids : Loaded(Stored)[i] # None => IdOf[Loaded(Stored)[i]] = i
  BY GraphAssumption DEF Loaded
<1> QED
  BY <1>1, GraphAssumption DEF Init, Base, Registered

LEMMA BaseNext == Base /\ [Next]_vars => Base'
<1> SUFFICES ASSUME Base, [Next]_vars PROVE Base'
  OBVIOUS
<1>1. CASE UNCHANGED vars
  BY <1>1 DEF Base, Registered, vars, consoleVars
<1>2. CASE AdminStep
  BY <1>2, ConsoleStep DEF Base
<1>3. CASE Others
  <2>1. UNCHANGED <<registry, saved, flow, turn>>
    BY <1>3 DEF Others, consoleVars
  <2> QED
    BY <2>1, QuietRegistered DEF Base
<1>4. CASE Interrupted
  <2>1. UNCHANGED <<registry, saved, flow>> /\ turn' = None
    BY <1>4 DEF Interrupted, consoleVars
  <2> QED
    BY <2>1, QuietRegistered DEF Base
<1>5. CASE Cancel \/ \E w \in Workers : \/ \E i \in Ids : Open(w, i)
                                        \/ \E m \in Messages : SwitchAway(w, m)
  <2>1. Turns
    BY <1>5, OpenStep
  <2>2. Registered' /\ (turn' # None => TurnOK(turn'))
    BY <2>1, QuietRegistered DEF Turns, Quiet, Base
  <2>3. flow' # None => FlowOK(flow')
    BY <2>1, FreshFlow DEF Turns
  <2> QED
    BY <2>2, <2>3 DEF Base
<1>6. ASSUME NEW w \in Workers, NEW m \in Messages,
             OfferSwitch(w, m) \/ StayHere(w, m) \/ NotAnOption(w, m) \/ HoldAtConfirm(w, m)
      PROVE  Base'
  <2>1. flow # None
    BY <1>6 DEF OfferSwitch, StayHere, NotAnOption, HoldAtConfirm, Answers, Handles
  <2>2. Quiet /\ turn' = turn /\ \E s : Stays(s)
    BY <1>6, <2>1, BaseShape, MessageStays
  <2>3. FlowOK(flow')
    BY <2>1, <2>2, StaysFlow
  <2> QED
    BY <2>2, <2>3, QuietRegistered DEF Base, Quiet
<1>7. ASSUME NEW w \in Workers, NEW m \in Messages,
             \/ EditStep(w, m) \/ SkipAsk(w, m) \/ ChooseOption(w, m) \/ TypeAnswer(w, m)
             \/ ConfirmIt(w, m) \/ ResumeElsewhere(w, m)
      PROVE  Base'
  <2>1. Quiet /\ (Started(w) \/ Picked(w))
    BY <1>7, AnswerStep
  <2>2. Registered'
    BY <2>1, QuietRegistered DEF Quiet
  <2>3. CASE Started(w)
    <3>1. turn' # None => TurnOK(turn')
      BY <2>3, BegunTurn DEF Started
    <3> QED
      BY <2>2, <2>3, <3>1 DEF Base, Started
  <2>4. CASE Picked(w)
    <3>1. FlowOK(flow')
      BY <2>4, PickedFlow
    <3> QED
      BY <2>2, <2>4, <3>1 DEF Base, Picked
  <2> QED
    BY <2>1, <2>3, <2>4
<1>8. CASE WalkFetch \/ WalkFilter \/ WalkBranch \/ WalkMutate \/ WalkVerify
  <2>1. (flow' = flow \/ flow' = None) /\ (turn' # None => TurnOK(turn')) /\ Still
    BY <1>8, WalkedTurn
  <2> QED
    BY <2>1, QuietRegistered DEF Base, Still
<1>9. CASE WalkAsk
  <2>1. UNCHANGED <<registry, saved>> /\ flow' = turn.flow /\ turn' = None /\ turn # None
    BY <1>9 DEF WalkAsk, consoleVars, AtNode
  <2> QED
    BY <2>1, QuietRegistered DEF Base, TurnOK
<1>10. CASE WalkConfirm
  <2>1. UNCHANGED <<registry, saved>> /\ turn' = None
    BY <1>10 DEF WalkConfirm, consoleVars
  <2> QED
    BY <1>10, <2>1, QuietRegistered, ConfirmedFlow DEF Base
<1>11. CASE WalkEnd
  <2>1. UNCHANGED <<registry, saved>> /\ turn' = None /\ flow' = None
    BY <1>11 DEF WalkEnd, consoleVars
  <2> QED
    BY <2>1, QuietRegistered DEF Base
<1> QED
  BY <1>1, <1>2, <1>3, <1>4, <1>5, <1>6, <1>7, <1>8, <1>9, <1>10, <1>11
     DEF Next, WalkStep, UserStep
-----------------------------------------------------------------------------
(* No false success.                                                       *)

\* The record of a write is known until the read-back has confirmed it, and a run that
\* goes on after a write that is read back has found it on the platform.
ReadsBack(t) ==
  /\ t.verifying =>
       /\ Node(t.version, t.flow.node).verify # None
       /\ t.wrote = Written(Node(t.version, t.flow.node).tool,
                            _resolve_args(Node(t.version, t.flow.node).arg_map, t.flow.bag))
  /\ ~t.verifying /\ t.wrote # None => t.found = TRUE

ReadBackOK ==
  /\ facts \subseteq Records
  /\ turn # None => ReadsBack(turn)
  /\ told # None => told.inForce = TRUE

\* What a write leaves is one of the records.
LEMMA WrittenIn ==
  ASSUME NEW v \in Versions, NEW n, IsA(v, n, "mutate"), NEW bag \in Bags
  PROVE  /\ Node(v, n) \in Writes
         /\ Written(Node(v, n).tool, _resolve_args(Node(v, n).arg_map, bag)) \in Records
<1>1. Node(v, n) \in Writes
  BY DEF IsA, Writes
<1>2. PICK d : d = Node(v, n) /\ d \in Writes
  BY <1>1
<1>3. Written(d.tool, _resolve_args(d.arg_map, bag)) \in Records
  BY <1>2 DEF Records
<1> QED
  BY <1>1, <1>2, <1>3

\* It holds at the start.
LEMMA ReadBackInit == Init => ReadBackOK
BY DEF Init, ReadBackOK, Records

\* Every step keeps it, if the read-backs identify their records.
LEMMA ReadBackNext ==
  ASSUME Identifies(Bags, SUBSET Records)
  PROVE  Base /\ ReadBackOK /\ [Next]_vars => ReadBackOK'
<1> SUFFICES ASSUME Base, ReadBackOK, [Next]_vars PROVE ReadBackOK'
  OBVIOUS
<1>1. CASE UNCHANGED vars
  BY <1>1 DEF ReadBackOK, vars, ghosts
<1>2. CASE AdminStep
  BY <1>2, ConsoleStep DEF ReadBackOK
<1>3. CASE Others
  <2>1. UNCHANGED <<turn, told>> /\ facts' \subseteq facts \cup UNION InitialFacts
    BY <1>3 DEF Others, ghosts
  <2> QED
    BY <2>1 DEF ReadBackOK, Records
<1>4. CASE Interrupted
  BY <1>4 DEF Interrupted, ReadBackOK, ghosts
<1>5. CASE Cancel \/ \E w \in Workers : \/ \E i \in Ids : Open(w, i)
                                        \/ \E m \in Messages : SwitchAway(w, m)
  BY <1>5, OpenStep DEF Turns, Quiet, ReadBackOK
<1>6. ASSUME NEW w \in Workers, NEW m \in Messages,
             OfferSwitch(w, m) \/ StayHere(w, m) \/ NotAnOption(w, m) \/ HoldAtConfirm(w, m)
      PROVE  ReadBackOK'
  <2>1. flow # None
    BY <1>6 DEF OfferSwitch, StayHere, NotAnOption, HoldAtConfirm, Answers, Handles
  <2>2. Quiet /\ turn' = turn
    BY <1>6, <2>1, BaseShape, MessageStays
  <2> QED
    BY <2>2 DEF ReadBackOK, Quiet
<1>7. ASSUME NEW w \in Workers, NEW m \in Messages,
             \/ EditStep(w, m) \/ SkipAsk(w, m) \/ ChooseOption(w, m) \/ TypeAnswer(w, m)
             \/ ConfirmIt(w, m) \/ ResumeElsewhere(w, m)
      PROVE  ReadBackOK'
  <2>1. Quiet /\ (Started(w) \/ Picked(w))
    BY <1>7, AnswerStep
  <2>2. CASE Started(w)
    <3>1. turn'.wrote = None /\ turn'.verifying = FALSE
      BY <2>2, BegunTurn DEF Started
    <3> QED
      BY <2>1, <3>1 DEF ReadBackOK, ReadsBack, Quiet
  <2>3. CASE Picked(w)
    BY <2>1, <2>3 DEF ReadBackOK, Quiet, Picked
  <2> QED
    BY <2>1, <2>2, <2>3
<1>8. ASSUME NEW type, AtNode(type), UNCHANGED <<facts, told>>,
             NEW node \in NodeIds(turn.version) \cup {""}, NEW bag \in Bags, NEW lists,
             GoesOn(node, bag, lists, turn.approved, turn.wrote, turn.found, FALSE)
      PROVE  ReadBackOK'
  <2>1. turn # None /\ TurnOK(turn) /\ turn.verifying = FALSE
    BY <1>8, TurnHere
  <2>2. PICK g, r, q : g = turn.found /\ r = turn.wrote /\ q = turn.approved
    OBVIOUS
  <2>3. GoesOn(node, bag, lists, q, r, g, FALSE)
    BY <1>8, <2>2
  <2>4. turn'.found = g /\ turn'.wrote = r /\ ~turn'.verifying
    BY <1>8, <2>1, <2>3, GoneTurn
  <2> QED
    BY <1>8, <2>1, <2>2, <2>4 DEF ReadBackOK, ReadsBack
<1>9. PICK d : d = Here
  OBVIOUS
<1>10. \A type : AtNode(type) =>
         /\ turn # None /\ TurnOK(turn) /\ IsTurn(turn) /\ turn.verifying = FALSE
         /\ turn.flow.bag \in Bags
         /\ turn.version \in Versions /\ turn.flow.node \in NodeIds(turn.version)
         /\ IsA(turn.version, turn.flow.node, type) /\ d.type = type
         /\ d = Node(turn.version, turn.flow.node)
  BY <1>9, TurnHere DEF TurnOK, FlowOK
<1>11. \A type \in {"fetch", "filter", "mutate"} :
         AtNode(type) => d.next \in NodeIds(turn.version) \cup {""}
  BY <1>10, NextIn
<1>12. CASE WalkFetch
  <2>1. AtNode("fetch") /\ UNCHANGED <<facts, told>>
    BY <1>9, <1>12, BaseShape, FetchGoes
  <2>2. PICK lists : GoesOn(d.next, turn.flow.bag, lists, turn.approved, turn.wrote, turn.found,
                            FALSE)
    BY <1>9, <1>10, <1>12, <2>1, BaseShape, FetchGoes
  <2> QED
    BY <1>8, <1>10, <1>11, <2>1, <2>2
<1>13. CASE WalkFilter
  <2>1. AtNode("filter") /\ UNCHANGED <<facts, told>>
    BY <1>9, <1>13, BaseShape, FilterWalks
  <2>2. PICK flag \in {"Y", "N"} : \E lists :
          GoesOn(d.next, Put(turn.flow.bag, d.empty_key, <<flag>>), lists, turn.approved,
                 turn.wrote, turn.found, FALSE)
    BY <1>9, <1>10, <1>13, <2>1, BaseShape, FilterWalks
  <2>3. <<flag>> \in Seq(Values)
    BY DEF Values
  <2>4. Put(turn.flow.bag, d.empty_key, <<flag>>) \in Bags
    BY <1>10, <2>1, <2>3, FieldIn, PutBag
  <2> QED
    BY <1>8, <1>11, <2>1, <2>2, <2>4
<1>14. CASE WalkBranch
  <2>1. AtNode("branch") /\ UNCHANGED <<facts, told>>
    BY <1>9, <1>14, BaseShape, BranchGoes
  <2>2. PICK n \in Targets(d) :
          GoesOn(n, turn.flow.bag, turn.flow.lists, turn.approved, turn.wrote, turn.found, FALSE)
    BY <1>9, <1>10, <1>14, <2>1, BaseShape, BranchGoes
  <2>3. n \in NodeIds(turn.version) \cup {""}
    BY <1>10, <2>1, <2>2, TargetIn
  <2> QED
    BY <1>8, <1>10, <2>1, <2>2, <2>3
<1>15. CASE WalkMutate
  <2>1. PICK record : record = Written(d.tool, _resolve_args(d.arg_map, turn.flow.bag))
    OBVIOUS
  <2>2. /\ AtNode("mutate") /\ told' = told /\ facts' \in {facts, facts \cup {record}}
        /\ \/ turn' = None
           \/ GoesOn(d.next, turn.flow.bag, turn.flow.lists, None, None, turn.found, FALSE)
           \/ /\ d.verify # None
              /\ GoesOn(turn.flow.node, turn.flow.bag, turn.flow.lists, None, record,
                        turn.found, TRUE)
    BY <1>9, <1>15, <2>1, BaseShape, MutateWalks
  <2>3. record \in Records
    BY <1>10, <2>1, <2>2, WrittenIn
  <2>4. facts' \subseteq Records /\ (told' # None => told'.inForce = TRUE)
    BY <2>2, <2>3 DEF ReadBackOK
  <2>5. CASE turn' = None
    BY <2>4, <2>5 DEF ReadBackOK
  <2>6. CASE GoesOn(d.next, turn.flow.bag, turn.flow.lists, None, None, turn.found, FALSE)
    <3>1. PICK g, q, bag, lists, n : /\ g = turn.found /\ q = None /\ bag = turn.flow.bag
                                     /\ lists = turn.flow.lists /\ n = d.next
      OBVIOUS
    <3>2. GoesOn(n, bag, lists, q, q, g, FALSE)
      BY <2>6, <3>1
    <3>3. bag \in Bags /\ n \in NodeIds(turn.version) \cup {""}
      BY <1>10, <1>11, <2>2, <3>1
    <3>4. turn'.wrote = q /\ ~turn'.verifying
      BY <1>10, <2>2, <3>2, <3>3, GoneTurn
    <3> QED
      BY <2>4, <3>1, <3>4 DEF ReadBackOK, ReadsBack
  <2>7. CASE /\ d.verify # None
             /\ GoesOn(turn.flow.node, turn.flow.bag, turn.flow.lists, None, record,
                       turn.found, TRUE)
    <3>1. PICK g, q, bag, lists, n : /\ g = turn.found /\ q = None /\ bag = turn.flow.bag
                                     /\ lists = turn.flow.lists /\ n = turn.flow.node
      OBVIOUS
    <3>2. GoesOn(n, bag, lists, q, record, g, TRUE)
      BY <2>7, <3>1
    <3>3. /\ n \in NodeIds(turn.version) \cup {""} /\ IsA(turn.version, n, "mutate")
          /\ bag \in Bags
      BY <1>10, <2>2, <3>1
    <3>4. /\ turn'.wrote = record /\ turn'.verifying /\ turn'.version = turn.version
          /\ turn'.flow.node = n /\ turn'.flow.bag = bag
      BY <1>10, <2>2, <3>2, <3>3, GoneTurn
    <3> QED
      BY <1>10, <2>1, <2>2, <2>4, <2>7, <3>1, <3>4 DEF ReadBackOK, ReadsBack
  <2> QED
    BY <2>2, <2>5, <2>6, <2>7
<1>16. CASE WalkVerify
  <2>1. /\ turn # None /\ turn.verifying /\ TurnOK(turn) /\ IsTurn(turn)
        /\ UNCHANGED <<facts, told>>
    BY <1>16, BaseShape, VerifyWalks
  <2>2. /\ turn.version \in Versions /\ turn.flow.bag \in Bags
        /\ IsA(turn.version, turn.flow.node, "mutate")
        /\ d = Node(turn.version, turn.flow.node)
    BY <1>9, <2>1 DEF TurnOK, FlowOK, Here
  <2>3. /\ d.verify # None
        /\ turn.wrote = Written(d.tool, _resolve_args(d.arg_map, turn.flow.bag))
    BY <2>1, <2>2 DEF ReadBackOK, ReadsBack
  <2>4. CASE turn' = None
    BY <2>1, <2>4 DEF ReadBackOK
  <2>5. CASE turn' # None
    <3>1. PICK g : /\ g = (turn.wrote \in facts)
                   /\ GoesOn(d.next, turn.flow.bag, turn.flow.lists, turn.approved, turn.wrote,
                             g, FALSE)
      BY <1>9, <1>16, <2>1, <2>5, VerifyWalks
    <3>2. \E row \in Reply(d.verify.tool, _resolve_args(d.verify.args, turn.flow.bag), facts) :
            Matches(row, d.verify.match, turn.flow.bag)
      BY <1>9, <1>16, <2>1, <2>5, VerifyWalks
    <3>3. d \in Writes /\ facts \in SUBSET Records
      BY <2>2, WrittenIn DEF ReadBackOK
    <3>4. turn.wrote \in facts
      BY <2>2, <2>3, <3>2, <3>3 DEF Identifies
    <3>5. d.next \in NodeIds(turn.version) \cup {""}
      BY <2>2, NextIn DEF IsA
    <3>6. PICK n, q, r, bag, lists : /\ n = d.next /\ q = turn.approved /\ r = turn.wrote
                                     /\ bag = turn.flow.bag /\ lists = turn.flow.lists
      OBVIOUS
    <3>7. GoesOn(n, bag, lists, q, r, g, FALSE)
      BY <3>1, <3>6
    <3>8. n \in NodeIds(turn.version) \cup {""} /\ bag \in Bags
      BY <2>2, <3>5, <3>6
    <3>9. turn'.found = g /\ ~turn'.verifying
      BY <2>1, <2>2, <3>7, <3>8, GoneTurn
    <3>10. turn'.found = TRUE
      BY <3>1, <3>4, <3>9
    <3> QED
      BY <2>1, <3>9, <3>10 DEF ReadBackOK, ReadsBack
  <2> QED
    BY <2>4, <2>5
<1>17. CASE WalkAsk \/ WalkConfirm
  BY <1>17 DEF WalkAsk, WalkConfirm, ReadBackOK
<1>18. CASE WalkEnd
  <2>1. /\ turn # None /\ ~turn.verifying /\ turn' = None /\ facts' = facts
        /\ told' = IF turn.wrote = None THEN told
                   ELSE [record |-> turn.wrote, inForce |-> turn.found]
    BY <1>18 DEF WalkEnd
  <2>2. turn.wrote # None => turn.found = TRUE
    BY <2>1 DEF ReadBackOK, ReadsBack
  <2>3. told' # None => told'.inForce = TRUE
    BY <2>1, <2>2 DEF ReadBackOK
  <2> QED
    BY <2>1, <2>3 DEF ReadBackOK
<1> QED
  BY <1>1, <1>2, <1>3, <1>4, <1>5, <1>6, <1>7, <1>12, <1>13, <1>14, <1>15, <1>16, <1>17, <1>18
     DEF Next, WalkStep, UserStep

\* What the workers own, and the counters.
Counted ==
  /\ owned \in [Workers -> SUBSET Ids]
  /\ runs \in 0 .. MaxRuns /\ confirms \in 0 .. MaxConfirms
  /\ admin \in 0 .. MaxAdmin /\ others \in 0 .. MaxOthers

\* It holds at the start, and every step keeps it.
LEMMA CountedInit == Init => Counted
BY BoundsAssumption DEF Init, Counted

LEMMA CountedNext == Counted /\ [Next]_vars => Counted'
<1> SUFFICES ASSUME Counted, [Next]_vars PROVE Counted'
  OBVIOUS
<1>1. CASE UNCHANGED vars
  BY <1>1 DEF Counted, vars, consoleVars, bounds
<1>2. ASSUME NEW w \in Workers, NEW v \in Drafts, SaveWorkflow(w, v) PROVE Counted'
  <2>1. PICK i \in Ids : i = IdOf[v]
    BY GraphAssumption
  <2>2. owned' = [owned EXCEPT ![w] = @ \cup {i}]
    BY <1>2, <2>1 DEF SaveWorkflow
  <2>3. owned' \in [Workers -> SUBSET Ids]
    BY <2>2 DEF Counted
  <2> QED
    BY <1>2, <2>3, BoundsAssumption DEF SaveWorkflow, Counted, bounds
<1>3. ASSUME NEW w \in Workers, NEW i \in Ids, DeleteWorkflow(w, i) PROVE Counted'
  <2>1. owned' \in [Workers -> SUBSET Ids]
    BY <1>3 DEF DeleteWorkflow, Counted
  <2> QED
    BY <1>3, <2>1, BoundsAssumption DEF DeleteWorkflow, Counted, bounds
<1>4. ASSUME NEW w \in Workers, Restart(w) PROVE Counted'
  <2>1. owned' \in [Workers -> SUBSET Ids]
    BY <1>4 DEF Restart, Counted
  <2> QED
    BY <1>4, <2>1, BoundsAssumption DEF Restart, Counted, bounds
<1>5. CASE Others
  BY <1>5, BoundsAssumption DEF Others, Counted, consoleVars
<1>6. CASE Interrupted
  BY <1>6 DEF Interrupted, Counted, consoleVars, bounds
<1>7. CASE WalkStep
  BY <1>7 DEF WalkStep, WalkFetch, WalkFilter, WalkBranch, WalkMutate, WalkVerify, WalkAsk,
     WalkConfirm, WalkEnd, Counted, consoleVars, bounds
<1>8. CASE Cancel
  BY <1>8 DEF Cancel, Counted, consoleVars, bounds
<1>9. ASSUME NEW w \in Workers, NEW i \in Ids, Open(w, i) PROVE Counted'
  BY <1>9, BoundsAssumption DEF Open, Counted, consoleVars
<1>10. ASSUME NEW w \in Workers, NEW m \in Messages, ConfirmIt(w, m) PROVE Counted'
  BY <1>10, BoundsAssumption DEF ConfirmIt, Counted, consoleVars
<1>11. ASSUME NEW w \in Workers, NEW m \in Messages,
              \/ OfferSwitch(w, m) \/ SwitchAway(w, m) \/ StayHere(w, m) \/ EditStep(w, m)
              \/ SkipAsk(w, m) \/ NotAnOption(w, m) \/ ChooseOption(w, m) \/ TypeAnswer(w, m)
              \/ HoldAtConfirm(w, m) \/ ResumeElsewhere(w, m)
       PROVE  Counted'
  BY <1>11 DEF OfferSwitch, SwitchAway, StayHere, EditStep, SkipAsk, NotAnOption, ChooseOption,
     TypeAnswer, HoldAtConfirm, ResumeElsewhere, Counted, consoleVars, bounds
<1> QED
  BY <1>1, <1>2, <1>3, <1>4, <1>5, <1>6, <1>7, <1>8, <1>9, <1>10, <1>11
     DEF Next, UserStep, AdminStep

\* The registries, the flow and the turn have the shape the code gives them, for any
\* definitions whose edges lead to their nodes (from_dict).
THEOREM RunsAreTyped == Spec => []TypeOK
<1>1. Base /\ Counted => TypeOK
  BY DEF Base, Registered, Counted, FlowOK, TurnOK, TypeOK
<1> QED
  BY BaseInit, BaseNext, CountedInit, CountedNext, <1>1, PTL DEF Spec

\* "Access granted" is said only of a record that the read-back after the write found on
\* the platform (_verify_write), for every set of definitions whose read-backs identify the
\* record they look for, whatever is lost, retried, interrupted or changed by others.
THEOREM SuccessIsReadBack ==
  ASSUME Identifies(Bags, SUBSET Records)
  PROVE  Spec => []NoFalseSuccess
<1>1. ReadBackOK => NoFalseSuccess
  BY DEF ReadBackOK, NoFalseSuccess
<1>2. Base /\ ReadBackOK /\ [Next]_vars => ReadBackOK'
  BY ReadBackNext
<1> QED
  BY BaseInit, BaseNext, ReadBackInit, <1>1, <1>2, PTL DEF Spec
-----------------------------------------------------------------------------
(* Every write was confirmed.                                              *)

\* A run that stands at a write holds what the user approved of it.
AtWrite(v, node, bag, p) ==
  IsA(v, node, "mutate") =>
    \E S : /\ p = [g \in S |-> Value(bag, g)] /\ p # None
           /\ Refs(Node(v, node).arg_map) \subseteq S

\* A flow waits in some version of its definition, and where it is at a summary the one
\* shown was made of the answers it holds.
Shown(f) ==
  /\ \E v \in Versions : IdOf[v] = f.wf /\ Waits(v, f.node)
  /\ (\E v \in Versions : IdOf[v] = f.wf /\ IsA(v, f.node, "confirm")) =>
       \E u \in Versions : /\ IdOf[u] = f.wf /\ IsA(u, f.node, "confirm")
                           /\ f.shown = Summary(f, Node(u, f.node))

ConfirmOK ==
  /\ flow # None => Shown(flow)
  /\ turn # None /\ ~turn.verifying =>
       AtWrite(turn.version, turn.flow.node, turn.flow.bag, turn.approved)
  /\ WriteWasConfirmed

\* The clauses of Guarded.
LEMMA NoWriteNext ==
  ASSUME Guarded, NEW v \in Versions, NEW n \in NodeIds(v), Node(v, n).type # "confirm",
         NEW t \in Targets(Node(v, n)), NEW bag, NEW p
  PROVE  AtWrite(v, t, bag, p)
BY DEF Guarded, AtWrite

\* Nor does a node that waits write in another version.
LEMMA NoWriteWaits ==
  ASSUME Guarded, NEW v \in Versions, NEW u \in Versions, IdOf[u] = IdOf[v], NEW n,
         Waits(v, n), NEW bag, NEW p
  PROVE  AtWrite(u, n, bag, p)
<1>1. n \in NodeIds(v)
  BY DEF Waits
<1> QED
  BY <1>1 DEF Guarded, AtWrite

\* At an ask node no summary is asked for.
LEMMA AskIsNoSummary ==
  ASSUME Guarded, NEW f, NEW v \in Versions, IdOf[v] = f.wf, IsA(v, f.node, "ask")
  PROVE  Shown(f)
<1>1. f.node \in NodeIds(v) /\ Waits(v, f.node)
  BY DEF IsA, Waits
<1>2. \A u \in Versions : IdOf[u] = f.wf => ~IsA(u, f.node, "confirm")
  BY <1>1 DEF Guarded
<1> QED
  BY <1>1, <1>2 DEF Shown

\* The summary a confirm node saves is shown.
LEMMA SummaryShown ==
  ASSUME NEW f, NEW v \in Versions, IdOf[v] = f.wf, IsA(v, f.node, "confirm"),
         f.shown = Summary(f, Node(v, f.node))
  PROVE  Shown(f)
BY DEF Shown, Waits, IsA

\* A flow that is where it was, with the same bag and summary, has shown what it had.
LEMMA SameShown ==
  ASSUME NEW f, NEW h, Shown(f), h.wf = f.wf, h.node = f.node, h.bag = f.bag, h.shown = f.shown
  PROVE  Shown(h)
<1>1. \A n : Summary(h, n) = Summary(f, n)
  BY DEF Summary
<1> QED
  BY <1>1 DEF Shown

\* What the user said yes to is what the write that follows carries.
LEMMA YesIsApproval ==
  ASSUME Guarded, NEW f, FlowOK(f), Shown(f), NEW v \in Versions, IdOf[v] = f.wf,
         IsA(v, f.node, "confirm")
  PROVE  AtWrite(v, Node(v, f.node).next, f.bag, f.shown)
<1> SUFFICES ASSUME IsA(v, Node(v, f.node).next, "mutate")
             PROVE  \E S : /\ f.shown = [g \in S |-> Value(f.bag, g)] /\ f.shown # None
                           /\ Refs(Node(v, Node(v, f.node).next).arg_map) \subseteq S
  BY DEF AtWrite
<1>1. PICK u \in Versions : /\ IdOf[u] = f.wf /\ IsA(u, f.node, "confirm")
                            /\ f.shown = Summary(f, Node(u, f.node))
  BY DEF Shown
<1>2. PICK S : S = Node(u, f.node).summary
  OBVIOUS
<1>3. f.shown = [g \in S |-> Value(f.bag, g)]
  BY <1>1, <1>2 DEF Summary
<1>4. f.shown # None
  <2>1. f.node \in NodeIds(u) /\ Node(u, f.node).type = "confirm"
    BY <1>1 DEF IsA
  <2>2. None \notin [S -> Seq(Values)]
    BY <1>2, <2>1, NoneAssumption
  <2>3. \A g : Value(f.bag, g) \in Seq(Values)
    BY ValueList DEF FlowOK
  <2> QED
    BY <1>3, <2>2, <2>3
<1>5. Covers(v, u, f.node)
  BY <1>1 DEF Guarded, IsA
<1>6. Refs(Node(v, Node(v, f.node).next).arg_map) \subseteq S
  BY <1>2, <1>5 DEF Covers
<1> QED
  BY <1>3, <1>4, <1>6

\* A call carries what was approved.
LEMMA CallIsApproved ==
  ASSUME NEW v, NEW n, NEW d, d = Node(v, n), IsA(v, n, "mutate"), NEW bag, NEW p,
         AtWrite(v, n, bag, p), NEW call,
         call.approved = p, call.fields = d.arg_map, call.args = _resolve_args(d.arg_map, bag)
  PROVE  /\ call.approved # None
         /\ \A a \in DOMAIN call.args : /\ call.fields[a] \in DOMAIN call.approved
                                        /\ call.args[a] = call.approved[call.fields[a]]
<1>1. PICK S : /\ p = [g \in S |-> Value(bag, g)] /\ p # None
               /\ Refs(d.arg_map) \subseteq S
  BY DEF AtWrite
<1>2. /\ DOMAIN call.args = DOMAIN d.arg_map
      /\ \A a \in DOMAIN d.arg_map : call.args[a] = Value(bag, d.arg_map[a])
  BY DEF _resolve_args
<1>3. \A a \in DOMAIN d.arg_map : d.arg_map[a] \in S
  BY <1>1 DEF Refs
<1> QED
  BY <1>1, <1>2, <1>3

\* A turn that begins, or goes on, at a node.
LEMMA BegunAtWrite ==
  ASSUME Base, NEW w \in Workers, NEW node, NEW bag \in Bags, NEW basis, NEW p,
         flow # None, registry[w][flow.wf] # None, node \in NodeIds(Current(w)) \cup {""},
         Begins(w, node, bag, basis, p), AtWrite(Current(w), node, bag, p)
  PROVE  AtWrite(turn'.version, turn'.flow.node, turn'.flow.bag, turn'.approved)
BY BegunTurn

\* The same of a turn that goes on.
LEMMA GoneAtWrite ==
  ASSUME NEW node, NEW bag \in Bags, NEW lists, NEW p, NEW wrote, NEW found,
         turn # None, TurnOK(turn), node \in NodeIds(turn.version) \cup {""},
         GoesOn(node, bag, lists, p, wrote, found, FALSE), AtWrite(turn.version, node, bag, p)
  PROVE  AtWrite(turn'.version, turn'.flow.node, turn'.flow.bag, turn'.approved)
BY GoneTurn
\* It holds at the start.
LEMMA ConfirmInit == Init => ConfirmOK
BY DEF Init, ConfirmOK, WriteWasConfirmed

\* The messages that begin a turn, one by one.
LEMMA AnswerAtWrite ==
  ASSUME Guarded, Base, ConfirmOK, NEW w \in Workers, NEW m \in Messages,
         \/ EditStep(w, m) \/ SkipAsk(w, m) \/ ChooseOption(w, m) \/ TypeAnswer(w, m)
         \/ ConfirmIt(w, m) \/ ResumeElsewhere(w, m)
  PROVE  Picked(w) \/ AtWrite(turn'.version, turn'.flow.node, turn'.flow.bag, turn'.approved)
<1>1. /\ flow # None /\ IsFlow(flow) /\ FlowOK(flow) /\ flow.bag \in Bags
      /\ registry[w][flow.wf] # None /\ Current(w) \in Versions /\ IdOf[Current(w)] = flow.wf
      /\ Shown(flow)
  <2>1. flow # None /\ registry[w][flow.wf] # None
    BY DEF EditStep, SkipAsk, ChooseOption, TypeAnswer, ConfirmIt, ResumeElsewhere, Answers, Handles
  <2> QED
    BY <2>1, CurrentIs DEF Base, FlowOK, ConfirmOK
<1>2. PICK c, n, d : c = Current(w) /\ n = flow.node /\ d = Node(c, n)
  OBVIOUS
<1>3. \A type : Answered(w, type) => /\ n \in NodeIds(c) /\ d.type = type /\ IsA(c, n, type)
  BY <1>2, AnsweredHere DEF IsA
<1>4. c \in Versions /\ d = Node(Current(w), flow.node)
  BY <1>1, <1>2
<1>5. ASSUME NEW node \in NodeIds(c) \cup {""}, NEW bag \in Bags, NEW basis, NEW p,
             Begins(w, node, bag, basis, p), AtWrite(c, node, bag, p)
      PROVE  AtWrite(turn'.version, turn'.flow.node, turn'.flow.bag, turn'.approved)
  BY <1>1, <1>2, <1>5, BegunAtWrite
<1>6. ASSUME Answered(w, "ask")
      PROVE  /\ d.next \in NodeIds(c) \cup {""} /\ d.field \in Fields
             /\ \A bag, p : AtWrite(c, d.next, bag, p)
  <2>1. n \in NodeIds(c) /\ d.type = "ask" /\ d = Node(c, n)
    BY <1>2, <1>3, <1>6
  <2>2. d.next \in Targets(d) /\ d.next \in NodeIds(c) \cup {""}
    BY <1>4, <2>1, NextIn
  <2>3. \A bag, p : AtWrite(c, d.next, bag, p)
    BY <1>4, <2>1, <2>2, NoWriteNext
  <2> QED
    BY <1>2, <1>3, <1>4, <1>6, <2>2, <2>3, FieldIn
<1>7. CASE EditStep(w, m)
  <2>1. PICK t \in NodeIds(c) :
          /\ Node(c, t).type = "ask"
          /\ Begins(w, t, Drop(flow.bag, Node(c, t).field), flow.basis, None)
    BY <1>1, <1>2, <1>7, EditBegins
  <2>2. PICK bag, basis, p : /\ bag = Drop(flow.bag, Node(c, t).field)
                             /\ basis = flow.basis /\ p = None
    OBVIOUS
  <2>3. bag \in Bags
    BY <1>1, <2>2, DropBag
  <2>4. Begins(w, t, bag, basis, p)
    BY <2>1, <2>2
  <2>5. AtWrite(c, t, bag, p)
    BY <2>1 DEF AtWrite, IsA
  <2> QED
    BY <1>5, <2>3, <2>4, <2>5
<1>8. CASE SkipAsk(w, m)
  <2>1. /\ Answered(w, "ask")
        /\ Begins(w, d.next, Default(flow.bag, d.field), flow.basis, None)
    BY <1>1, <1>4, <1>8, SkipBegins
  <2>2. PICK node, bag, basis, p : /\ node = d.next /\ bag = Default(flow.bag, d.field)
                                   /\ basis = flow.basis /\ p = None
    OBVIOUS
  <2>3. bag \in Bags /\ node \in NodeIds(c) \cup {""} /\ AtWrite(c, node, bag, p)
    BY <1>1, <1>6, <2>1, <2>2, DefaultBag
  <2>4. Begins(w, node, bag, basis, p)
    BY <2>1, <2>2
  <2> QED
    BY <1>5, <2>3, <2>4
<1>9. CASE TypeAnswer(w, m)
  <2>1. PICK x \in Texts : /\ Answered(w, "ask")
                           /\ Begins(w, d.next, Put(flow.bag, d.field, <<x>>), flow.basis, None)
    BY <1>1, <1>4, <1>9, TypeBegins
  <2>2. PICK node, bag, basis, p : /\ node = d.next /\ bag = Put(flow.bag, d.field, <<x>>)
                                   /\ basis = flow.basis /\ p = None
    OBVIOUS
  <2>3. <<x>> \in Seq(Values)
    BY DEF Values
  <2>4. bag \in Bags /\ node \in NodeIds(c) \cup {""} /\ AtWrite(c, node, bag, p)
    BY <1>1, <1>6, <2>1, <2>2, <2>3, PutBag
  <2>5. Begins(w, node, bag, basis, p)
    BY <2>1, <2>2
  <2> QED
    BY <1>5, <2>4, <2>5
<1>10. CASE ChooseOption(w, m)
  <2>1. CASE d.multi
    BY <1>4, <1>10, <2>1, MultiPicks
  <2>2. CASE ~d.multi
    <3>1. PICK node, bag, basis, p :
            /\ node = d.next /\ bag = Put(flow.bag, d.field, <<m[2]>>) /\ p = None
            /\ basis = Put(flow.basis, d.field, Grounds(flow, d.options_from))
      OBVIOUS
    <3>2. Answered(w, "ask") /\ Begins(w, node, bag, basis, p)
      BY <1>1, <1>4, <1>10, <2>2, <3>1, ChoiceBegins
    <3>3. <<m[2]>> \in Seq(Values)
      BY DEF Values
    <3>4. bag \in Bags /\ node \in NodeIds(c) \cup {""} /\ AtWrite(c, node, bag, p)
      BY <1>1, <1>6, <3>1, <3>2, <3>3, PutBag
    <3> QED
      BY <1>5, <3>2, <3>4
  <2> QED
    BY <2>1, <2>2
<1>11. CASE ConfirmIt(w, m)
  <2>1. /\ Answered(w, "confirm")
        /\ Begins(w, d.next, flow.bag, flow.basis, flow.shown)
    BY <1>1, <1>4, <1>11, ConfirmBegins
  <2>2. PICK node, bag, basis, p : /\ node = d.next /\ bag = flow.bag
                                   /\ basis = flow.basis /\ p = flow.shown
    OBVIOUS
  <2>3. IsA(c, flow.node, "confirm") /\ d = Node(c, flow.node) /\ flow.node \in NodeIds(c)
        /\ d.type = "confirm"
    BY <1>2, <1>3, <2>1
  <2>4. AtWrite(c, node, bag, p)
    BY <1>1, <1>2, <2>2, <2>3, YesIsApproval
  <2>5. node \in NodeIds(c) \cup {""}
    BY <1>4, <2>2, <2>3, NextIn
  <2>6. Begins(w, node, bag, basis, p) /\ bag \in Bags
    BY <1>1, <2>1, <2>2
  <2> QED
    BY <1>5, <2>4, <2>5, <2>6
<1>12. CASE ResumeElsewhere(w, m)
  <2>1. /\ n \in NodeIds(c) /\ Begins(w, flow.node, flow.bag, flow.basis, None)
    BY <1>1, <1>2, <1>12, ResumeBegins DEF Answered
  <2>2. PICK bag, basis, p : bag = flow.bag /\ basis = flow.basis /\ p = None
    OBVIOUS
  <2>3. PICK v \in Versions : IdOf[v] = flow.wf /\ Waits(v, n)
    BY <1>1, <1>2 DEF Shown
  <2>4. AtWrite(c, n, bag, p)
    BY <1>1, <1>2, <1>4, <2>3, NoWriteWaits
  <2>5. Begins(w, n, bag, basis, p) /\ bag \in Bags
    BY <1>1, <1>2, <2>1, <2>2
  <2> QED
    BY <1>5, <2>1, <2>4, <2>5
<1> QED
  BY <1>7, <1>8, <1>9, <1>10, <1>11, <1>12

\* Every step keeps it, if the definitions are guarded.
LEMMA ConfirmNext ==
  ASSUME Guarded
  PROVE  Base /\ ConfirmOK /\ [Next]_vars => ConfirmOK'
<1> SUFFICES ASSUME Base, ConfirmOK, [Next]_vars PROVE ConfirmOK'
  OBVIOUS
<1>1. CASE UNCHANGED vars
  BY <1>1 DEF ConfirmOK, WriteWasConfirmed, Shown, vars, ghosts
<1>2. CASE AdminStep
  BY <1>2, ConsoleStep DEF ConfirmOK, WriteWasConfirmed, Shown
<1>3. CASE Others
  BY <1>3 DEF Others, ConfirmOK, WriteWasConfirmed, Shown, ghosts
<1>4. CASE Interrupted
  BY <1>4 DEF Interrupted, ConfirmOK, WriteWasConfirmed, Shown, ghosts
<1>5. CASE Cancel \/ \E w \in Workers : \/ \E i \in Ids : Open(w, i)
                                        \/ \E m \in Messages : SwitchAway(w, m)
  <2>1. Turns
    BY <1>5, OpenStep
  <2>2. ASSUME flow' # None PROVE Shown(flow')
    <3>1. PICK v \in Versions : IsA(v, Graph[v].start, "ask") /\ flow' = NewFlow(v)
      BY <2>1, <2>2 DEF Turns
    <3>2. flow'.wf = IdOf[v] /\ flow'.node = Graph[v].start
      BY <3>1, FreshFlow
    <3> QED
      BY <3>1, <3>2, AskIsNoSummary
  <2> QED
    BY <2>1, <2>2 DEF Turns, Quiet, ConfirmOK, WriteWasConfirmed
<1>6. ASSUME NEW w \in Workers, NEW m \in Messages,
             OfferSwitch(w, m) \/ StayHere(w, m) \/ NotAnOption(w, m) \/ HoldAtConfirm(w, m)
      PROVE  ConfirmOK'
  <2>1. flow # None
    BY <1>6 DEF OfferSwitch, StayHere, NotAnOption, HoldAtConfirm, Answers, Handles
  <2>2. Quiet /\ turn' = turn /\ \E s : Stays(s)
    BY <1>6, <2>1, BaseShape, MessageStays
  <2>3. Shown(flow')
    BY <2>1, <2>2, StaysFlow, SameShown DEF ConfirmOK
  <2> QED
    BY <2>2, <2>3 DEF Quiet, ConfirmOK, WriteWasConfirmed
<1>7. ASSUME NEW w \in Workers, NEW m \in Messages,
             \/ EditStep(w, m) \/ SkipAsk(w, m) \/ ChooseOption(w, m) \/ TypeAnswer(w, m)
             \/ ConfirmIt(w, m) \/ ResumeElsewhere(w, m)
      PROVE  ConfirmOK'
  <2>1. Quiet /\ (Started(w) \/ Picked(w))
    BY <1>7, AnswerStep
  <2>2. Picked(w) \/ AtWrite(turn'.version, turn'.flow.node, turn'.flow.bag, turn'.approved)
    BY <1>7, AnswerAtWrite
  <2>3. CASE Picked(w)
    <3>1. Shown(flow')
      BY <2>3, PickedFlow, AskIsNoSummary
    <3> QED
      BY <2>1, <2>3, <3>1 DEF Quiet, Picked, ConfirmOK, WriteWasConfirmed
  <2>4. CASE ~Picked(w)
    <3>1. flow' = flow
      BY <2>1, <2>4 DEF Started
    <3>2. Shown(flow) => Shown(flow)'
      BY <3>1 DEF Shown
    <3> QED
      BY <2>1, <2>2, <2>4, <3>1, <3>2 DEF Quiet, ConfirmOK, WriteWasConfirmed
  <2> QED
    BY <2>3, <2>4
<1>8. ASSUME NEW type, AtNode(type), flow' = flow \/ flow' = None, sent' = sent,
             NEW node \in NodeIds(turn.version) \cup {""}, NEW bag \in Bags, NEW lists,
             NEW p, NEW wrote, NEW found,
             GoesOn(node, bag, lists, p, wrote, found, FALSE),
             AtWrite(turn.version, node, bag, p)
      PROVE  ConfirmOK'
  <2>1. turn # None /\ TurnOK(turn)
    BY <1>8, TurnHere
  <2>2. AtWrite(turn'.version, turn'.flow.node, turn'.flow.bag, turn'.approved)
    BY <1>8, <2>1, GoneAtWrite
  <2> QED
    BY <1>8, <2>2 DEF ConfirmOK, WriteWasConfirmed
<1>9. PICK d : d = Here
  OBVIOUS
<1>10. \A type : AtNode(type) =>
         /\ turn # None /\ TurnOK(turn) /\ IsTurn(turn) /\ turn.verifying = FALSE
         /\ turn.flow.bag \in Bags
         /\ turn.version \in Versions /\ turn.flow.node \in NodeIds(turn.version)
         /\ IsA(turn.version, turn.flow.node, type) /\ d.type = type
         /\ d = Node(turn.version, turn.flow.node)
  BY <1>9, TurnHere DEF TurnOK, FlowOK
<1>11. ASSUME NEW v \in Versions, NEW n \in NodeIds(v), d = Node(v, n), d.type # "confirm",
              NEW x \in Targets(d)
       PROVE  /\ x \in NodeIds(v) \cup {""}
              /\ \A bag, p : AtWrite(v, x, bag, p)
  BY <1>11, NoWriteNext, TargetIn
<1>12. ASSUME NEW type \in {"fetch", "filter", "mutate"}, AtNode(type)
       PROVE  /\ d.next \in NodeIds(turn.version) \cup {""}
              /\ \A bag, p : AtWrite(turn.version, d.next, bag, p)
  <2>1. PICK v, n :
          /\ v \in Versions /\ n \in NodeIds(v)
          /\ v = turn.version /\ n = turn.flow.node /\ d = Node(v, n) /\ d.type = type
    BY <1>10, <1>12
  <2>2. d.next \in Targets(d)
    BY <1>12, <2>1, NextIn
  <2>3. d.type # "confirm"
    BY <1>12, <2>1
  <2> QED
    BY <1>11, <2>1, <2>2, <2>3
<1>13. CASE WalkFetch
  <2>1. AtNode("fetch") /\ flow' = flow /\ sent' = sent
    BY <1>9, <1>13, BaseShape, FetchGoes
  <2>2. PICK bag, p, r, g, n : /\ bag = turn.flow.bag /\ p = turn.approved /\ r = turn.wrote
                               /\ g = turn.found /\ n = d.next
    OBVIOUS
  <2>3. PICK lists : GoesOn(n, bag, lists, p, r, g, FALSE)
    BY <1>9, <1>10, <1>13, <2>1, <2>2, BaseShape, FetchGoes
  <2>4. n \in NodeIds(turn.version) \cup {""} /\ AtWrite(turn.version, n, bag, p)
    BY <1>12, <2>1, <2>2
  <2> QED
    BY <1>8, <1>10, <2>1, <2>2, <2>3, <2>4
<1>14. CASE WalkFilter
  <2>1. AtNode("filter") /\ flow' = flow /\ sent' = sent
    BY <1>9, <1>14, BaseShape, FilterWalks
  <2>2. PICK p, r, g, n : /\ p = turn.approved /\ r = turn.wrote /\ g = turn.found /\ n = d.next
    OBVIOUS
  <2>3. PICK flag \in {"Y", "N"} : \E lists :
          GoesOn(n, Put(turn.flow.bag, d.empty_key, <<flag>>), lists, p, r, g, FALSE)
    BY <1>9, <1>10, <1>14, <2>1, <2>2, BaseShape, FilterWalks
  <2>4. PICK bag : bag = Put(turn.flow.bag, d.empty_key, <<flag>>)
    OBVIOUS
  <2>5. <<flag>> \in Seq(Values)
    BY DEF Values
  <2>6. bag \in Bags
    BY <1>10, <2>1, <2>4, <2>5, FieldIn, PutBag
  <2>7. n \in NodeIds(turn.version) \cup {""} /\ AtWrite(turn.version, n, bag, p)
    BY <1>12, <2>1, <2>2
  <2> QED
    BY <1>8, <2>1, <2>3, <2>4, <2>6, <2>7
<1>15. CASE WalkBranch
  <2>1. AtNode("branch") /\ flow' = flow /\ sent' = sent
    BY <1>9, <1>15, BaseShape, BranchGoes
  <2>2. PICK bag, p, r, g, lists : /\ bag = turn.flow.bag /\ p = turn.approved /\ r = turn.wrote
                                   /\ g = turn.found /\ lists = turn.flow.lists
    OBVIOUS
  <2>3. PICK n \in Targets(d) : GoesOn(n, bag, lists, p, r, g, FALSE)
    BY <1>9, <1>10, <1>15, <2>1, <2>2, BaseShape, BranchGoes
  <2>4. n \in NodeIds(turn.version) \cup {""} /\ AtWrite(turn.version, n, bag, p)
    <3>1. PICK v, here :
            /\ v \in Versions /\ here \in NodeIds(v)
            /\ v = turn.version /\ here = turn.flow.node /\ d = Node(v, here) /\ d.type = "branch"
      BY <1>10, <2>1
    <3> QED
      BY <1>11, <3>1
  <2> QED
    BY <1>8, <1>10, <2>1, <2>2, <2>3, <2>4
<1>16. CASE WalkMutate
  <2>1. PICK bag, g, n, lists, record, q, here :
          /\ bag = turn.flow.bag /\ g = turn.found /\ n = d.next /\ lists = turn.flow.lists
          /\ record = Written(d.tool, _resolve_args(d.arg_map, turn.flow.bag)) /\ q = None
          /\ here = turn.flow.node
    OBVIOUS
  <2>2. /\ AtNode("mutate") /\ sent' = Sent(d)
        /\ \/ turn' = None /\ flow' = None
           \/ flow' = flow /\ GoesOn(n, bag, lists, q, q, g, FALSE)
           \/ flow' = flow /\ GoesOn(here, bag, lists, q, record, g, TRUE)
    BY <1>9, <1>16, <2>1, BaseShape, MutateWalks
  <2>3. /\ turn # None /\ TurnOK(turn) /\ ~turn.verifying /\ bag \in Bags
        /\ here \in NodeIds(turn.version) /\ IsA(turn.version, here, "mutate")
        /\ d = Node(turn.version, here)
    BY <1>10, <2>1, <2>2
  <2>4. AtWrite(turn.version, here, bag, turn.approved)
    BY <2>1, <2>3 DEF ConfirmOK
  <2>5. /\ sent'.approved = turn.approved /\ sent'.fields = d.arg_map
        /\ sent'.args = _resolve_args(d.arg_map, bag)
    BY <2>1, <2>2 DEF Sent
  <2>6. WriteWasConfirmed'
    BY <2>3, <2>4, <2>5, CallIsApproved DEF WriteWasConfirmed
  <2>7. CASE turn' = None /\ flow' = None
    BY <2>6, <2>7 DEF ConfirmOK
  <2>8. CASE flow' = flow /\ GoesOn(n, bag, lists, q, q, g, FALSE)
    <3>1. n \in NodeIds(turn.version) \cup {""} /\ AtWrite(turn.version, n, bag, q)
      BY <1>12, <2>1, <2>2
    <3>2. AtWrite(turn'.version, turn'.flow.node, turn'.flow.bag, turn'.approved)
      BY <2>3, <2>8, <3>1, GoneAtWrite
    <3> QED
      BY <2>6, <2>8, <3>2 DEF ConfirmOK
  <2>9. CASE flow' = flow /\ GoesOn(here, bag, lists, q, record, g, TRUE)
    <3>1. turn'.verifying
      BY <2>3, <2>9, GoneTurn
    <3> QED
      BY <2>6, <2>9, <3>1 DEF ConfirmOK
  <2> QED
    BY <2>2, <2>7, <2>8, <2>9
<1>17. CASE WalkVerify
  <2>1. PICK bag, p, r, g, n, lists : /\ bag = turn.flow.bag /\ p = turn.approved
                                      /\ r = turn.wrote /\ g = (turn.wrote \in facts)
                                      /\ n = d.next /\ lists = turn.flow.lists
    OBVIOUS
  <2>2. /\ turn # None /\ turn.verifying /\ sent' = sent
        /\ \/ turn' = None /\ flow' = None
           \/ flow' = flow /\ GoesOn(n, bag, lists, p, r, g, FALSE)
    BY <1>9, <1>17, <2>1, BaseShape, VerifyWalks
  <2>3. /\ TurnOK(turn) /\ bag \in Bags /\ turn.version \in Versions
        /\ IsA(turn.version, turn.flow.node, "mutate")
        /\ d = Node(turn.version, turn.flow.node)
    BY <1>9, <2>1, <2>2, BaseShape DEF TurnOK, FlowOK, Here
  <2>4. n \in Targets(d) /\ turn.flow.node \in NodeIds(turn.version) /\ d.type = "mutate"
    BY <2>1, <2>3, NextIn DEF IsA
  <2>5. n \in NodeIds(turn.version) \cup {""} /\ AtWrite(turn.version, n, bag, p)
    <3>1. PICK v, here :
            /\ v \in Versions /\ here \in NodeIds(v)
            /\ v = turn.version /\ here = turn.flow.node /\ d = Node(v, here) /\ d.type = "mutate"
      BY <2>3, <2>4
    <3> QED
      BY <1>11, <2>4, <3>1
  <2>6. CASE flow' = flow /\ GoesOn(n, bag, lists, p, r, g, FALSE)
    <3>1. AtWrite(turn'.version, turn'.flow.node, turn'.flow.bag, turn'.approved)
      BY <2>2, <2>3, <2>5, <2>6, GoneAtWrite
    <3> QED
      BY <2>2, <2>6, <3>1 DEF ConfirmOK, WriteWasConfirmed
  <2> QED
    BY <2>2, <2>6 DEF ConfirmOK, WriteWasConfirmed
<1>18. CASE WalkAsk
  <2>1. AtNode("ask") /\ flow' = turn.flow /\ turn' = None /\ sent' = sent
    BY <1>18 DEF WalkAsk
  <2>2. Shown(turn.flow)
    <3>1. turn.version \in Versions /\ IdOf[turn.version] = turn.flow.wf
          /\ IsA(turn.version, turn.flow.node, "ask")
      BY <1>10, <2>1 DEF TurnOK
    <3> QED
      BY <3>1, AskIsNoSummary
  <2> QED
    BY <2>1, <2>2 DEF ConfirmOK, WriteWasConfirmed
<1>19. CASE WalkConfirm
  <2>1. AtNode("confirm") /\ turn' = None /\ sent' = sent
    BY <1>19 DEF WalkConfirm
  <2>2. /\ turn.version \in Versions /\ IdOf[turn.version] = turn.flow.wf
        /\ IsA(turn.version, turn.flow.node, "confirm")
        /\ d = Node(turn.version, turn.flow.node)
    BY <1>10, <2>1 DEF TurnOK
  <2>3. PICK f : f = flow'
    OBVIOUS
  <2>4. /\ f.wf = turn.flow.wf /\ f.node = turn.flow.node /\ f.bag = turn.flow.bag
        /\ f.shown = Summary(turn.flow, d)
    BY <1>9, <1>19, <2>3, ConfirmedFlow
  <2>5. Summary(turn.flow, d) = Summary(f, d)
    BY <2>4 DEF Summary
  <2>6. Shown(f)
    BY <2>2, <2>4, <2>5, SummaryShown
  <2> QED
    BY <2>1, <2>3, <2>6 DEF ConfirmOK, WriteWasConfirmed
<1>20. CASE WalkEnd
  BY <1>20 DEF WalkEnd, ConfirmOK, WriteWasConfirmed
<1> QED
  BY <1>1, <1>2, <1>3, <1>4, <1>5, <1>6, <1>7, <1>13, <1>14, <1>15, <1>16, <1>17, <1>18, <1>19, <1>20
     DEF Next, WalkStep, UserStep

\* Every write call carries exactly the values of the summary that the user said yes to in
\* that turn (advance, _walk), for every set of definitions that are guarded, whatever
\* edits, interrupted turns, restarts and changes of the definition came before it.
THEOREM WritesAreConfirmed ==
  ASSUME Guarded
  PROVE  Spec => []WriteWasConfirmed
<1>1. ConfirmOK => WriteWasConfirmed
  BY DEF ConfirmOK
<1>2. Base /\ ConfirmOK /\ [Next]_vars => ConfirmOK'
  BY ConfirmNext
<1> QED
  BY BaseInit, BaseNext, ConfirmInit, <1>1, <1>2, PTL DEF Spec
-----------------------------------------------------------------------------
(* A write fits the answers.                                               *)

\* The answers a list was made for, and whether a bag still holds answers.
GroundsOf(lists, k) == IF k \in DOMAIN lists THEN lists[k].grounds ELSE {}
Holds(bag, g) == Value(bag, g[1]) = g[2]

\* What the certificate c promises of a run that stands at node.
ListsWithin(c, lists) == \A k : \A g \in GroundsOf(lists, k) : g[1] \in c.grounds[k]
BasisWithin(c, basis) == \A e \in DOMAIN basis : \A g \in basis[e] : g[1] \in c.basis[e]
ListsHold(c, node, bag, lists) ==
  \A k \in c.current[node] : \A g \in GroundsOf(lists, k) : Holds(bag, g)
BasisHolds(c, node, bag, basis) ==
  \A e \in c.safe[node] : e \in DOMAIN basis => \A g \in basis[e] : Holds(bag, g)
Sound(c, node, bag, lists, basis) ==
  /\ ListsWithin(c, lists) /\ BasisWithin(c, basis)
  /\ ListsHold(c, node, bag, lists) /\ BasisHolds(c, node, bag, basis)

\* Two bags that agree on every field but one, or on every field.
Apart(bag, bag2, e) == \A g : g # e => Value(bag2, g) = Value(bag, g)
Alike(bag, bag2) == \A g : Value(bag2, g) = Value(bag, g)

\* Setting or clearing a field changes that field only; a default changes none.
LEMMA PutApart ==
  ASSUME NEW bag, NEW e, NEW x
  PROVE  Apart(bag, Put(bag, e, x), e)
BY DEF Apart, Put, Value

LEMMA DropApart ==
  ASSUME NEW bag, NEW e
  PROVE  Apart(bag, Drop(bag, e), e)
BY DEF Apart, Drop, Value

LEMMA DefaultAlike ==
  ASSUME NEW bag, NEW e
  PROVE  Alike(bag, Default(bag, e))
BY DEF Alike, Default, Put, Value

\* A run that has fetched nothing and chosen nothing is sound.
LEMMA SoundFresh ==
  ASSUME NEW c, NEW n
  PROVE  Sound(c, n, <<>>, <<>>, <<>>)
BY DEF Sound, ListsWithin, BasisWithin, ListsHold, BasisHolds, GroundsOf

\* The certificate carries soundness over an edge: no answer changed,
LEMMA SoundCarries ==
  ASSUME NEW c, NEW n, NEW t, NEW bag, NEW bag2, NEW lists, NEW basis,
         Sound(c, n, bag, lists, basis), Carries(c, n, t), Alike(bag, bag2)
  PROVE  Sound(c, t, bag2, lists, basis)
<1>1. \A g : Holds(bag2, g) <=> Holds(bag, g)
  BY DEF Alike, Holds
<1>2. ListsHold(c, t, bag2, lists)
  BY <1>1 DEF Sound, ListsHold, Carries
<1>3. BasisHolds(c, t, bag2, basis)
  BY <1>1 DEF Sound, BasisHolds, Carries
<1> QED
  BY <1>2, <1>3 DEF Sound

\* one changed that nothing depends on,
LEMMA SoundOver ==
  ASSUME NEW c, NEW n, NEW t, NEW e, NEW bag, NEW bag2, NEW lists, NEW basis,
         Sound(c, n, bag, lists, basis), CarriesOver(c, n, t, e), Apart(bag, bag2, e)
  PROVE  Sound(c, t, bag2, lists, basis)
<1>1. \A g : g[1] # e /\ Holds(bag, g) => Holds(bag2, g)
  BY DEF Apart, Holds
<1>2. ListsHold(c, t, bag2, lists)
  <2> SUFFICES ASSUME NEW k \in c.current[t], NEW g \in GroundsOf(lists, k)
               PROVE  Holds(bag2, g)
    BY DEF ListsHold
  <2>1. g[1] \in c.grounds[k] /\ e \notin c.grounds[k] /\ k \in c.current[n]
    BY DEF Sound, ListsWithin, CarriesOver, Carries
  <2> QED
    BY <1>1, <2>1 DEF Sound, ListsHold
<1>3. BasisHolds(c, t, bag2, basis)
  <2> SUFFICES ASSUME NEW h \in c.safe[t], h \in DOMAIN basis, NEW g \in basis[h]
               PROVE  Holds(bag2, g)
    BY DEF BasisHolds
  <2>1. g[1] \in c.basis[h] /\ e \notin c.basis[h] /\ h \in c.safe[n]
    BY DEF Sound, BasisWithin, CarriesOver, Carries
  <2> QED
    BY <1>1, <2>1 DEF Sound, BasisHolds
<1> QED
  BY <1>2, <1>3 DEF Sound

\* one was chosen from a list,
LEMMA SoundChoice ==
  ASSUME NEW c, NEW n, NEW t, NEW e, NEW list, NEW bag, NEW bag2, NEW lists, NEW basis,
         Sound(c, n, bag, lists, basis), CarriesChoice(c, n, t, e, list), Apart(bag, bag2, e)
  PROVE  Sound(c, t, bag2, lists, Put(basis, e, GroundsOf(lists, list)))
<1>1. \A g : g[1] # e /\ Holds(bag, g) => Holds(bag2, g)
  BY DEF Apart, Holds
<1>2. PICK basis2 : basis2 = Put(basis, e, GroundsOf(lists, list))
  OBVIOUS
<1>3. /\ DOMAIN basis2 = DOMAIN basis \cup {e} /\ basis2[e] = GroundsOf(lists, list)
      /\ \A h \in DOMAIN basis : h # e => basis2[h] = basis[h]
  BY <1>2 DEF Put
<1>4. BasisWithin(c, basis2)
  <2> SUFFICES ASSUME NEW h \in DOMAIN basis2, NEW g \in basis2[h]
               PROVE  g[1] \in c.basis[h]
    BY DEF BasisWithin
  <2>1. CASE h = e
    <3>1. g[1] \in c.grounds[list] /\ c.grounds[list] \subseteq c.basis[e]
      BY <1>3, <2>1 DEF Sound, ListsWithin, CarriesChoice
    <3> QED
      BY <2>1, <3>1
  <2>2. CASE h # e
    BY <1>3, <2>2 DEF Sound, BasisWithin
  <2> QED
    BY <2>1, <2>2
<1>5. ListsHold(c, t, bag2, lists)
  <2> SUFFICES ASSUME NEW k \in c.current[t], NEW g \in GroundsOf(lists, k)
               PROVE  Holds(bag2, g)
    BY DEF ListsHold
  <2>1. g[1] \in c.grounds[k] /\ e \notin c.grounds[k] /\ k \in c.current[n]
    BY DEF Sound, ListsWithin, CarriesChoice
  <2> QED
    BY <1>1, <2>1 DEF Sound, ListsHold
<1>6. BasisHolds(c, t, bag2, basis2)
  <2> SUFFICES ASSUME NEW h \in c.safe[t], h \in DOMAIN basis2, NEW g \in basis2[h]
               PROVE  Holds(bag2, g)
    BY DEF BasisHolds
  <2>1. CASE h = e
    <3>1. list \in c.current[n] /\ e \notin c.grounds[list] /\ g \in GroundsOf(lists, list)
      BY <1>3, <2>1 DEF CarriesChoice
    <3>2. g[1] \in c.grounds[list] /\ Holds(bag, g)
      BY <3>1 DEF Sound, ListsWithin, ListsHold
    <3> QED
      BY <1>1, <3>1, <3>2
  <2>2. CASE h # e
    <3>1. h \in c.safe[n] /\ e \notin c.basis[h] /\ h \in DOMAIN basis /\ g \in basis[h]
      BY <1>3, <2>2 DEF CarriesChoice
    <3>2. g[1] \in c.basis[h] /\ Holds(bag, g)
      BY <3>1 DEF Sound, BasisWithin, BasisHolds
    <3> QED
      BY <1>1, <3>1, <3>2
  <2> QED
    BY <2>1, <2>2
<1>7. ListsWithin(c, lists)
  BY DEF Sound
<1> QED
  BY <1>2, <1>4, <1>5, <1>6, <1>7 DEF Sound

\* What a new list does to the lists.
LEMMA PutList ==
  ASSUME NEW lists, NEW key, NEW rows, NEW made, NEW lists2,
         lists2 = Put(lists, key, [rows |-> rows, grounds |-> made])
  PROVE  \A k : GroundsOf(lists2, k) = IF k = key THEN made ELSE GroundsOf(lists, k)
<1>1. PICK entry : entry = [rows |-> rows, grounds |-> made]
  OBVIOUS
<1>2. entry.grounds = made
  BY <1>1
<1>3. lists2 = Put(lists, key, entry)
  BY <1>1
<1> QED
  BY <1>2, <1>3 DEF GroundsOf, Put

\* a list was fetched,
LEMMA SoundFetch ==
  ASSUME NEW c, NEW n, NEW d, NEW bag, NEW lists, NEW basis, NEW lists2, NEW rows,
         Sound(c, n, bag, lists, basis), CertifiesFetch(c, n, d),
         lists2 = Put(lists, d.as_key, [rows |-> rows, grounds |-> Ground(d.args, bag)])
  PROVE  Sound(c, d.next, bag, lists2, basis)
<1>1. PICK made : made = Ground(d.args, bag)
  OBVIOUS
<1>2. \A k : GroundsOf(lists2, k) = IF k = d.as_key THEN made ELSE GroundsOf(lists, k)
  BY <1>1, PutList
<1>3. \A g \in made : g[1] \in Refs(d.args) /\ Holds(bag, g)
  BY <1>1 DEF Ground, Refs, Holds
<1>4. ListsWithin(c, lists2)
  BY <1>2, <1>3 DEF Sound, ListsWithin, CertifiesFetch
<1>5. ListsHold(c, d.next, bag, lists2)
  BY <1>2, <1>3 DEF Sound, ListsHold, CertifiesFetch, CarriesList
<1>6. BasisWithin(c, basis) /\ BasisHolds(c, d.next, bag, basis)
  BY DEF Sound, BasisHolds, CertifiesFetch, CarriesList
<1> QED
  BY <1>4, <1>5, <1>6 DEF Sound

\* or filtered.
LEMMA SoundFilter ==
  ASSUME NEW c, NEW n, NEW d, NEW bag, NEW bag2, NEW lists, NEW basis, NEW lists2, NEW rows,
         Sound(c, n, bag, lists, basis), CertifiesFilter(c, n, d), Apart(bag, bag2, d.empty_key),
         lists2 = Put(lists, d.as_key,
                      [rows |-> rows,
                       grounds |-> GroundsOf(lists, d.source) \cup Ground(d.keep, bag)
                                   \cup GroundsOf(lists, d.exclude_source)])
  PROVE  Sound(c, d.next, bag2, lists2, basis)
<1>1. PICK made : made = GroundsOf(lists, d.source) \cup Ground(d.keep, bag)
                         \cup GroundsOf(lists, d.exclude_source)
  OBVIOUS
<1>2. \A k : GroundsOf(lists2, k) = IF k = d.as_key THEN made ELSE GroundsOf(lists, k)
  BY <1>1, PutList
<1>3. \A g \in Ground(d.keep, bag) : g[1] \in Refs(d.keep) /\ Holds(bag, g)
  BY DEF Ground, Refs, Holds
<1>4. \A g : g[1] # d.empty_key /\ Holds(bag, g) => Holds(bag2, g)
  BY DEF Apart, Holds
<1>5. \A g \in made : g[1] \in c.grounds[d.as_key]
  BY <1>1, <1>3 DEF Sound, ListsWithin, CertifiesFilter
<1>6. ListsWithin(c, lists2)
  BY <1>2, <1>5 DEF Sound, ListsWithin
<1>7. ListsHold(c, d.next, bag2, lists2)
  <2> SUFFICES ASSUME NEW k \in c.current[d.next], NEW g \in GroundsOf(lists2, k)
               PROVE  Holds(bag2, g)
    BY DEF ListsHold
  <2>1. g[1] \in c.grounds[k] /\ d.empty_key \notin c.grounds[k]
    BY <1>6 DEF ListsWithin, CertifiesFilter
  <2>2. CASE k = d.as_key
    <3>1. d.source \in c.current[n] /\ d.exclude_source \in c.current[n]
      BY <2>2 DEF CertifiesFilter, CarriesList
    <3>2. g \in made
      BY <1>2, <2>2
    <3>3. Holds(bag, g)
      BY <1>1, <1>3, <3>1, <3>2 DEF Sound, ListsHold
    <3> QED
      BY <1>4, <2>1, <3>3
  <2>3. CASE k # d.as_key
    <3>1. k \in c.current[n] /\ g \in GroundsOf(lists, k)
      BY <1>2, <2>3 DEF CertifiesFilter, CarriesList
    <3>2. Holds(bag, g)
      BY <3>1 DEF Sound, ListsHold
    <3> QED
      BY <1>4, <2>1, <3>2
  <2> QED
    BY <2>2, <2>3
<1>8. BasisHolds(c, d.next, bag2, basis)
  <2> SUFFICES ASSUME NEW h \in c.safe[d.next], h \in DOMAIN basis, NEW g \in basis[h]
               PROVE  Holds(bag2, g)
    BY DEF BasisHolds
  <2>1. h \in c.safe[n] /\ d.empty_key \notin c.basis[h]
    BY DEF CertifiesFilter, CarriesList
  <2>2. g[1] \in c.basis[h] /\ Holds(bag, g)
    BY <2>1 DEF Sound, BasisWithin, BasisHolds
  <2> QED
    BY <1>4, <2>1, <2>2
<1>9. BasisWithin(c, basis)
  BY DEF Sound
<1> QED
  BY <1>6, <1>7, <1>8, <1>9 DEF Sound
\* What a flow is by the certificates, if one version served its run.
FlowFits(Cert, f) ==
  \A v \in Versions :
    f.under \subseteq {v} => Sound(Cert[v], f.node, f.bag, f.lists, f.basis)

FitsOK(Cert) ==
  /\ flow # None => FlowFits(Cert, flow)
  /\ turn # None => turn.version \in turn.flow.under /\ FlowFits(Cert, turn.flow)
  /\ WriteFitsAnswers

\* What a certificate says of a node.
LEMMA CertAt ==
  ASSUME NEW v, NEW c, Certifies(v, c), NEW n \in NodeIds(v), NEW d, d = Node(v, n)
  PROVE  /\ d.type = "ask"     => CertifiesAsk(c, n, d)
         /\ d.type = "fetch"   => CertifiesFetch(c, n, d)
         /\ d.type = "filter"  => CertifiesFilter(c, n, d)
         /\ d.type = "mutate"  => Refs(d.arg_map) \subseteq c.safe[n]
         /\ d.type \in {"branch", "confirm", "mutate"} => \A t \in Targets(d) : Carries(c, n, t)
         /\ d.type = "confirm" \/ (EditAnywhere /\ d.type = "ask") => CertifiesEdits(v, c, n)
BY DEF Certifies

\* A turn that begins fits if it stands where the flow is sound; and one that goes on.
LEMMA BegunFits ==
  ASSUME NEW Cert, Base, NEW w \in Workers, NEW node, NEW bag \in Bags, NEW basis, NEW p,
         flow # None, registry[w][flow.wf] # None, node \in NodeIds(Current(w)) \cup {""},
         Begins(w, node, bag, basis, p), NEW c, c = Current(w),
         flow.under \subseteq {c} => Sound(Cert[c], node, bag, flow.lists, basis)
  PROVE  turn'.version \in turn'.flow.under /\ FlowFits(Cert, turn'.flow)
<1>1. /\ turn'.version = c /\ turn'.flow.node = node /\ turn'.flow.bag = bag
      /\ turn'.flow.basis = basis /\ turn'.flow.lists = flow.lists
      /\ turn'.flow.under = flow.under \cup {c}
  BY BegunTurn
<1>2. \A v : flow.under \cup {c} \subseteq {v} => v = c /\ flow.under \subseteq {c}
  OBVIOUS
<1> QED
  BY <1>1, <1>2 DEF FlowFits

LEMMA GoneFits ==
  ASSUME NEW Cert, NEW node, NEW bag \in Bags, NEW lists, NEW p, NEW wrote, NEW found,
         NEW k \in BOOLEAN, turn # None, TurnOK(turn),
         node \in NodeIds(turn.version) \cup {""}, k => IsA(turn.version, node, "mutate"),
         GoesOn(node, bag, lists, p, wrote, found, k)
  PROVE  /\ turn.version \in turn.flow.under
         /\ turn.flow.under \subseteq {turn.version} =>
              Sound(Cert[turn.version], node, bag, lists, turn.flow.basis)
         => turn'.version \in turn'.flow.under /\ FlowFits(Cert, turn'.flow)
<1>1. /\ turn'.version = turn.version /\ turn'.flow.node = node /\ turn'.flow.bag = bag
      /\ turn'.flow.basis = turn.flow.basis /\ turn'.flow.lists = lists
      /\ turn'.flow.under = turn.flow.under
  <2>1. WentOn(node, bag, lists, p, wrote, found, k)
    BY GoneOn
  <2> QED
    BY <2>1 DEF WentOn
<1> HAVE /\ turn.version \in turn.flow.under
         /\ turn.flow.under \subseteq {turn.version} =>
              Sound(Cert[turn.version], node, bag, lists, turn.flow.basis)
<1>2. \A v : turn.flow.under \subseteq {v} => v = turn.version
  OBVIOUS
<1> QED
  BY <1>1, <1>2 DEF FlowFits

\* The messages that begin a turn, one by one.
LEMMA AnswerFits ==
  ASSUME NEW Cert, \A v \in Versions : Certifies(v, Cert[v]), Base, FitsOK(Cert),
         NEW w \in Workers, NEW m \in Messages,
         \/ EditStep(w, m) \/ SkipAsk(w, m) \/ ChooseOption(w, m) \/ TypeAnswer(w, m)
         \/ ConfirmIt(w, m) \/ ResumeElsewhere(w, m)
  PROVE  Picked(w) \/ (turn'.version \in turn'.flow.under /\ FlowFits(Cert, turn'.flow))
<1>1. /\ flow # None /\ IsFlow(flow) /\ FlowOK(flow) /\ flow.bag \in Bags
      /\ registry[w][flow.wf] # None /\ Current(w) \in Versions
      /\ FlowFits(Cert, flow)
  <2>1. flow # None /\ registry[w][flow.wf] # None
    BY DEF EditStep, SkipAsk, ChooseOption, TypeAnswer, ConfirmIt, ResumeElsewhere, Answers, Handles
  <2> QED
    BY <2>1, CurrentIs DEF Base, FlowOK, FitsOK
<1>2. PICK c, n, d, k : /\ c = Current(w) /\ n = flow.node /\ d = Node(c, n) /\ k = Cert[c]
  OBVIOUS
<1>3. \A type : Answered(w, type) => /\ n \in NodeIds(c) /\ d.type = type /\ IsA(c, n, type)
  BY <1>2, AnsweredHere DEF IsA
<1>4. c \in Versions /\ d = Node(Current(w), flow.node) /\ Certifies(c, k)
  BY <1>1, <1>2
<1>5. PICK bag, lists, basis : bag = flow.bag /\ lists = flow.lists /\ basis = flow.basis
  OBVIOUS
<1>6. flow.under \subseteq {c} => Sound(k, n, bag, lists, basis)
  BY <1>1, <1>2, <1>4, <1>5 DEF FlowFits
<1>7. ASSUME NEW t \in NodeIds(c) \cup {""}, NEW bag2 \in Bags, NEW basis2, NEW p,
             Begins(w, t, bag2, basis2, p),
             Sound(k, n, bag, lists, basis) => Sound(k, t, bag2, lists, basis2)
      PROVE  turn'.version \in turn'.flow.under /\ FlowFits(Cert, turn'.flow)
  <2>1. flow.under \subseteq {c} => Sound(Cert[c], t, bag2, flow.lists, basis2)
    BY <1>2, <1>5, <1>6, <1>7
  <2> QED
    BY <1>1, <1>2, <1>7, <2>1, BegunFits
<1>8. ASSUME Answered(w, "ask")
      PROVE  /\ d.next \in NodeIds(c) \cup {""} /\ d.field \in Fields
             /\ CertifiesAsk(k, n, d)
  <2>1. n \in NodeIds(c) /\ d.type = "ask" /\ d = Node(c, n)
    BY <1>2, <1>3, <1>8
  <2>2. d.next \in NodeIds(c) \cup {""}
    BY <1>4, <2>1, NextIn
  <2>3. CertifiesAsk(k, n, d)
    BY <1>4, <2>1, CertAt
  <2> QED
    BY <1>2, <1>3, <1>4, <1>8, <2>2, <2>3, FieldIn
<1>9. CASE EditStep(w, m)
  <2>1. PICK t \in NodeIds(c) :
          /\ Node(c, t).type = "ask"
          /\ Begins(w, t, Drop(flow.bag, Node(c, t).field), flow.basis, None)
    BY <1>1, <1>2, <1>9, EditBegins
  <2>2. PICK e, bag2, p : e = Node(c, t).field /\ bag2 = Drop(bag, e) /\ p = None
    OBVIOUS
  <2>3. bag2 \in Bags
    BY <1>1, <1>5, <2>2, DropBag
  <2>4. Begins(w, t, bag2, basis, p)
    BY <1>5, <2>1, <2>2
  <2>5. Answered(w, "confirm") \/ (EditAnywhere /\ Answered(w, "ask"))
    BY <1>1, <1>9, EditBegins
  <2>6. CertifiesEdits(c, k, n)
    BY <1>2, <1>3, <1>4, <2>5, CertAt
  <2>7. CarriesOver(k, n, t, e)
    BY <2>1, <2>2, <2>6 DEF CertifiesEdits
  <2>8. Sound(k, n, bag, lists, basis) => Sound(k, t, bag2, lists, basis)
    BY <2>2, <2>7, DropApart, SoundOver
  <2> QED
    BY <1>7, <2>3, <2>4, <2>8
<1>10. CASE SkipAsk(w, m)
  <2>1. /\ Answered(w, "ask") /\ d.optional
        /\ Begins(w, d.next, Default(flow.bag, d.field), flow.basis, None)
    BY <1>1, <1>4, <1>10, SkipBegins
  <2>2. PICK t, e, bag2, p : /\ t = d.next /\ e = d.field /\ bag2 = Default(bag, e) /\ p = None
    OBVIOUS
  <2>3. bag2 \in Bags /\ t \in NodeIds(c) \cup {""} /\ Carries(k, n, t)
    BY <1>1, <1>5, <1>8, <2>1, <2>2, DefaultBag DEF CertifiesAsk
  <2>4. Begins(w, t, bag2, basis, p)
    BY <1>5, <2>1, <2>2
  <2>5. Sound(k, n, bag, lists, basis) => Sound(k, t, bag2, lists, basis)
    BY <2>2, <2>3, DefaultAlike, SoundCarries
  <2> QED
    BY <1>7, <2>3, <2>4, <2>5
<1>11. CASE TypeAnswer(w, m)
  <2>1. PICK x \in Texts : /\ Answered(w, "ask") /\ d.options_from = ""
                           /\ Begins(w, d.next, Put(flow.bag, d.field, <<x>>), flow.basis, None)
    BY <1>1, <1>4, <1>11, TypeBegins
  <2>2. PICK t, e, bag2, p : /\ t = d.next /\ e = d.field /\ bag2 = Put(bag, e, <<x>>)
                             /\ p = None
    OBVIOUS
  <2>3. <<x>> \in Seq(Values)
    BY DEF Values
  <2>4. bag2 \in Bags /\ t \in NodeIds(c) \cup {""} /\ CarriesOver(k, n, t, e)
    BY <1>1, <1>5, <1>8, <2>1, <2>2, <2>3, PutBag DEF CertifiesAsk
  <2>5. Begins(w, t, bag2, basis, p)
    BY <1>5, <2>1, <2>2
  <2>6. Apart(bag, bag2, e)
    BY <2>2, PutApart
  <2>7. Sound(k, n, bag, lists, basis) => Sound(k, t, bag2, lists, basis)
    BY <2>4, <2>6, SoundOver
  <2> QED
    BY <1>7, <2>4, <2>5, <2>7
<1>12. CASE ChooseOption(w, m)
  <2>1. CASE d.multi
    BY <1>4, <1>12, <2>1, MultiPicks
  <2>2. CASE ~d.multi
    <3>1. PICK t, e, list, bag2, basis2, p :
            /\ t = d.next /\ e = d.field /\ list = d.options_from
            /\ bag2 = Put(flow.bag, d.field, <<m[2]>>) /\ p = None
            /\ basis2 = Put(flow.basis, d.field, Grounds(flow, d.options_from))
      OBVIOUS
    <3>2. /\ Answered(w, "ask") /\ d.options_from # "" /\ Begins(w, t, bag2, basis2, p)
      BY <1>1, <1>4, <1>12, <2>2, <3>1, ChoiceBegins
    <3>3. <<m[2]>> \in Seq(Values)
      BY DEF Values
    <3>4. bag2 \in Bags /\ t \in NodeIds(c) \cup {""}
      BY <1>1, <1>8, <3>1, <3>2, <3>3, PutBag
    <3>5. CarriesChoice(k, n, t, e, list)
      BY <1>8, <3>1, <3>2 DEF CertifiesAsk
    <3>6. Apart(bag, bag2, e)
      BY <1>5, <3>1, PutApart
    <3>7. basis2 = Put(basis, e, GroundsOf(lists, list))
      BY <1>5, <3>1 DEF Grounds, GroundsOf
    <3>8. Sound(k, n, bag, lists, basis) => Sound(k, t, bag2, lists, basis2)
      BY <3>5, <3>6, <3>7, SoundChoice
    <3> QED
      BY <1>7, <3>2, <3>4, <3>8
  <2> QED
    BY <2>1, <2>2
<1>13. CASE ConfirmIt(w, m)
  <2>1. /\ Answered(w, "confirm")
        /\ Begins(w, d.next, flow.bag, flow.basis, flow.shown)
    BY <1>1, <1>4, <1>13, ConfirmBegins
  <2>2. PICK t, p : t = d.next /\ p = flow.shown
    OBVIOUS
  <2>3. n \in NodeIds(c) /\ d.type = "confirm" /\ d = Node(c, n)
    BY <1>2, <1>3, <2>1
  <2>4. t \in Targets(d) /\ t \in NodeIds(c) \cup {""}
    BY <1>4, <2>2, <2>3, NextIn
  <2>5. Carries(k, n, t)
    BY <1>4, <2>3, <2>4, CertAt
  <2>6. Begins(w, t, bag, basis, p) /\ bag \in Bags
    BY <1>1, <1>5, <2>1, <2>2
  <2>7. Alike(bag, bag)
    BY DEF Alike
  <2>8. Sound(k, n, bag, lists, basis) => Sound(k, t, bag, lists, basis)
    BY <2>5, <2>7, SoundCarries
  <2> QED
    BY <1>7, <2>4, <2>6, <2>8
<1>14. CASE ResumeElsewhere(w, m)
  <2>1. n \in NodeIds(c) /\ Begins(w, flow.node, flow.bag, flow.basis, None)
    BY <1>1, <1>2, <1>14, ResumeBegins DEF Answered
  <2>2. PICK p : p = None
    OBVIOUS
  <2>3. Begins(w, n, bag, basis, p) /\ bag \in Bags
    BY <1>1, <1>2, <1>5, <2>1, <2>2
  <2> QED
    BY <1>7, <2>1, <2>3
<1> QED
  BY <1>9, <1>10, <1>11, <1>12, <1>13, <1>14

\* Whether a flow fits depends on where it is and what it holds.
LEMMA SameFits ==
  ASSUME NEW Cert, NEW f, NEW f2, FlowFits(Cert, f), f2.node = f.node, f2.bag = f.bag,
         f2.lists = f.lists, f2.basis = f.basis, f2.under = f.under
  PROVE  FlowFits(Cert, f2)
BY DEF FlowFits

\* A step with several options takes one more.
LEMMA PickFits ==
  ASSUME NEW Cert, \A v \in Versions : Certifies(v, Cert[v]), Base, FitsOK(Cert),
         NEW w \in Workers, Picked(w)
  PROVE  FlowFits(Cert, flow')
<1>1. PICK c, n, d, k : /\ c = Current(w) /\ n = flow.node /\ d = Node(c, n) /\ k = Cert[c]
  OBVIOUS
<1>2. /\ flow # None /\ c \in Versions /\ IsA(c, n, "ask") /\ flow'.node = n
      /\ flow'.lists = flow.lists /\ flow'.under = flow.under \cup {c}
      /\ flow'.basis = Put(flow.basis, d.field, Grounds(flow, d.options_from))
      /\ \E x \in Seq(Values) : flow'.bag = Put(flow.bag, d.field, x)
  BY <1>1, PickedFlow
<1>3. d.multi /\ d.options_from # ""
  BY <1>1 DEF Picked
<1>4. Certifies(c, k) /\ n \in NodeIds(c) /\ d.type = "ask"
  BY <1>1, <1>2 DEF IsA
<1>5. CertifiesAsk(k, n, d)
  BY <1>1, <1>4, CertAt
<1>6. PICK e, list, bag, lists, basis :
        /\ e = d.field /\ list = d.options_from
        /\ bag = flow.bag /\ lists = flow.lists /\ basis = flow.basis
  OBVIOUS
<1>7. CarriesChoice(k, n, n, e, list)
  BY <1>3, <1>5, <1>6 DEF CertifiesAsk
<1>8. PICK bag2 : bag2 = flow'.bag /\ Apart(bag, bag2, e)
  BY <1>2, <1>6, PutApart
<1>9. flow'.basis = Put(basis, e, GroundsOf(lists, list))
  BY <1>2, <1>6 DEF Grounds, GroundsOf
<1>10. Sound(k, n, bag, lists, basis) => Sound(k, n, bag2, lists, Put(basis, e, GroundsOf(lists, list)))
  BY <1>7, <1>8, SoundChoice
<1>11. flow.under \subseteq {c} => Sound(k, n, bag, lists, basis)
  BY <1>1, <1>2, <1>6 DEF FitsOK, FlowFits
<1>12. \A v : flow.under \cup {c} \subseteq {v} => v = c /\ flow.under \subseteq {c}
  OBVIOUS
<1>13. flow.under \subseteq {c} => Sound(Cert[c], flow'.node, flow'.bag, flow'.lists, flow'.basis)
  BY <1>1, <1>2, <1>6, <1>8, <1>9, <1>10, <1>11
<1> QED
  BY <1>2, <1>12, <1>13 DEF FlowFits

\* A write of safe arguments fits.
LEMMA CallFits ==
  ASSUME NEW c, NEW n, NEW d, NEW f, Sound(c, n, f.bag, f.lists, f.basis),
         Refs(d.arg_map) \subseteq c.safe[n]
  PROVE  Fits(f, d)
BY DEF Fits, Sound, BasisHolds, Holds, Refs

\* It holds at the start, and every step keeps it, if every version has a certificate.
LEMMA FitsInit ==
  ASSUME NEW Cert
  PROVE  Init => FitsOK(Cert)
BY DEF Init, FitsOK, WriteFitsAnswers

LEMMA FitsNext ==
  ASSUME NEW Cert, \A v \in Versions : Certifies(v, Cert[v])
  PROVE  Base /\ FitsOK(Cert) /\ [Next]_vars => FitsOK(Cert)'
<1> SUFFICES ASSUME Base, FitsOK(Cert), [Next]_vars PROVE FitsOK(Cert)'
  OBVIOUS
<1>1. CASE UNCHANGED vars
  BY <1>1 DEF FitsOK, WriteFitsAnswers, FlowFits, vars, ghosts
<1>2. CASE AdminStep
  BY <1>2, ConsoleStep DEF FitsOK, WriteFitsAnswers, FlowFits
<1>3. CASE Others
  BY <1>3 DEF Others, FitsOK, WriteFitsAnswers, FlowFits, ghosts
<1>4. CASE Interrupted
  BY <1>4 DEF Interrupted, FitsOK, WriteFitsAnswers, FlowFits, ghosts
<1>5. CASE Cancel \/ \E w \in Workers : \/ \E i \in Ids : Open(w, i)
                                        \/ \E m \in Messages : SwitchAway(w, m)
  <2>1. Turns
    BY <1>5, OpenStep
  <2>2. ASSUME flow' # None PROVE FlowFits(Cert, flow')
    <3>1. PICK v \in Versions : flow' = NewFlow(v)
      BY <2>1, <2>2 DEF Turns
    <3>2. flow'.bag = <<>> /\ flow'.lists = <<>> /\ flow'.basis = <<>>
      BY <3>1, FreshFlow
    <3> QED
      BY <3>2, SoundFresh DEF FlowFits
  <2> QED
    BY <2>1, <2>2 DEF Turns, Quiet, FitsOK, WriteFitsAnswers
<1>6. ASSUME NEW w \in Workers, NEW m \in Messages,
             OfferSwitch(w, m) \/ StayHere(w, m) \/ NotAnOption(w, m) \/ HoldAtConfirm(w, m)
      PROVE  FitsOK(Cert)'
  <2>1. flow # None
    BY <1>6 DEF OfferSwitch, StayHere, NotAnOption, HoldAtConfirm, Answers, Handles
  <2>2. Quiet /\ turn' = turn /\ \E s : Stays(s)
    BY <1>6, <2>1, BaseShape, MessageStays
  <2>3. FlowFits(Cert, flow')
    BY <2>1, <2>2, StaysFlow, SameFits DEF FitsOK
  <2> QED
    BY <2>2, <2>3 DEF Quiet, FitsOK, WriteFitsAnswers
<1>7. ASSUME NEW w \in Workers, NEW m \in Messages,
             \/ EditStep(w, m) \/ SkipAsk(w, m) \/ ChooseOption(w, m) \/ TypeAnswer(w, m)
             \/ ConfirmIt(w, m) \/ ResumeElsewhere(w, m)
      PROVE  FitsOK(Cert)'
  <2>1. Quiet /\ (Started(w) \/ Picked(w))
    BY <1>7, AnswerStep
  <2>2. Picked(w) \/ (turn'.version \in turn'.flow.under /\ FlowFits(Cert, turn'.flow))
    BY <1>7, AnswerFits
  <2>3. CASE Picked(w)
    <3>1. FlowFits(Cert, flow')
      BY <2>3, PickFits
    <3> QED
      BY <2>1, <2>3, <3>1 DEF Quiet, Picked, FitsOK, WriteFitsAnswers
  <2>4. CASE ~Picked(w)
    <3>1. flow' = flow
      BY <2>1, <2>4 DEF Started
    <3>2. flow # None => FlowFits(Cert, flow')
      BY <3>1 DEF FitsOK
    <3> QED
      BY <2>1, <2>2, <2>4, <3>1, <3>2 DEF Quiet, FitsOK, WriteFitsAnswers
  <2> QED
    BY <2>3, <2>4
<1>8. PICK d, v, n, c : d = Here /\ v = turn.version /\ n = turn.flow.node /\ c = Cert[v]
  OBVIOUS
<1>9. PICK bag, lists, basis, p, r, g :
        /\ bag = turn.flow.bag /\ lists = turn.flow.lists /\ basis = turn.flow.basis
        /\ p = turn.approved /\ r = turn.wrote /\ g = turn.found
  OBVIOUS
<1>10. ASSUME turn # None
       PROVE  /\ TurnOK(turn) /\ bag \in Bags /\ v \in Versions /\ Certifies(v, c)
              /\ v \in turn.flow.under
              /\ turn.flow.under \subseteq {v} => Sound(c, n, bag, lists, basis)
  BY <1>8, <1>9, <1>10 DEF Base, TurnOK, FlowOK, FitsOK, FlowFits
<1>11. ASSUME turn # None, flow' = flow \/ flow' = None, WriteFitsAnswers',
              NEW t \in NodeIds(v) \cup {""}, NEW bag2 \in Bags, NEW lists2,
              NEW q, NEW wrote, NEW found, NEW k \in BOOLEAN, k => IsA(v, t, "mutate"),
              GoesOn(t, bag2, lists2, q, wrote, found, k),
              Sound(c, n, bag, lists, basis) => Sound(c, t, bag2, lists2, basis)
       PROVE  FitsOK(Cert)'
  <2>1. turn.flow.under \subseteq {turn.version} =>
          Sound(Cert[turn.version], t, bag2, lists2, turn.flow.basis)
    BY <1>8, <1>9, <1>10, <1>11
  <2>2. turn.version \in turn.flow.under /\ TurnOK(turn)
    BY <1>8, <1>10, <1>11
  <2>3. t \in NodeIds(turn.version) \cup {""} /\ (k => IsA(turn.version, t, "mutate"))
    BY <1>8, <1>11
  <2>4. turn'.version \in turn'.flow.under /\ FlowFits(Cert, turn'.flow)
    BY <1>11, <2>1, <2>2, <2>3, GoneFits
  <2>5. flow' # None => FlowFits(Cert, flow')
    BY <1>11 DEF FitsOK
  <2> QED
    BY <1>11, <2>4, <2>5 DEF FitsOK
<1>12. ASSUME sent' = sent PROVE WriteFitsAnswers'
  BY <1>12 DEF FitsOK, WriteFitsAnswers
<1>13. \A type : AtNode(type) =>
         /\ turn # None /\ n \in NodeIds(v) /\ d = Node(v, n) /\ d.type = type
         /\ IsA(v, n, type) /\ turn.verifying = FALSE
  BY <1>8, TurnHere
<1>14. ASSUME turn # None, n \in NodeIds(v), d = Node(v, n)
       PROVE  /\ Targets(d) \subseteq NodeIds(v) \cup {""}
              /\ d.type \notin {"branch", "say"} => d.next \in Targets(d)
  BY <1>10, <1>14, TargetIn DEF Targets
<1>15. ASSUME NEW x, Carries(c, n, x)
       PROVE  Sound(c, n, bag, lists, basis) => Sound(c, x, bag, lists, basis)
  <2>1. Alike(bag, bag)
    BY DEF Alike
  <2> QED
    BY <1>15, <2>1, SoundCarries
<1>16. CASE WalkFetch
  <2>1. AtNode("fetch") /\ flow' = flow /\ sent' = sent
    BY <1>8, <1>16, BaseShape, FetchGoes
  <2>2. PICK t, key, made : t = d.next /\ key = d.as_key /\ made = Ground(d.args, bag)
    OBVIOUS
  <2>3. PICK rows, lists2 :
          /\ lists2 = Put(lists, key, [rows |-> rows, grounds |-> made])
          /\ GoesOn(t, bag, lists2, p, r, g, turn.verifying)
    BY <1>8, <1>9, <1>16, <2>2, BaseShape, FetchGoes
  <2>4. turn # None /\ n \in NodeIds(v) /\ d = Node(v, n) /\ d.type = "fetch"
        /\ turn.verifying = FALSE
    BY <1>13, <2>1
  <2>5. GoesOn(t, bag, lists2, p, r, g, FALSE)
    BY <2>3, <2>4
  <2>6. CertifiesFetch(c, n, d)
    BY <1>10, <2>4, CertAt
  <2>7. t \in NodeIds(v) \cup {""}
    BY <1>14, <2>2, <2>4
  <2>8. Sound(c, n, bag, lists, basis) => Sound(c, t, bag, lists2, basis)
    BY <2>2, <2>3, <2>6, SoundFetch
  <2> QED
    BY <1>10, <1>11, <1>12, <2>1, <2>4, <2>5, <2>7, <2>8
<1>17. CASE WalkFilter
  <2>1. AtNode("filter") /\ flow' = flow /\ sent' = sent
    BY <1>8, <1>17, BaseShape, FilterWalks
  <2>2. PICK t, key, e, made :
          /\ t = d.next /\ key = d.as_key /\ e = d.empty_key
          /\ made = GroundsOf(lists, d.source) \cup Ground(d.keep, bag)
                    \cup GroundsOf(lists, d.exclude_source)
    OBVIOUS
  <2>3. made = Grounds(turn.flow, d.source) \cup Ground(d.keep, turn.flow.bag)
               \cup Grounds(turn.flow, d.exclude_source)
    BY <1>9, <2>2 DEF Grounds, GroundsOf
  <2>4. PICK flag, rows, bag2, lists2 :
          /\ flag \in {"Y", "N"} /\ bag2 = Put(bag, e, <<flag>>)
          /\ lists2 = Put(lists, key, [rows |-> rows, grounds |-> made])
          /\ GoesOn(t, bag2, lists2, p, r, g, turn.verifying)
    BY <1>8, <1>9, <1>17, <2>2, <2>3, BaseShape, FilterWalks
  <2>5. turn # None /\ n \in NodeIds(v) /\ d = Node(v, n) /\ d.type = "filter"
        /\ IsA(v, n, "filter") /\ turn.verifying = FALSE
    BY <1>13, <2>1
  <2>6. GoesOn(t, bag2, lists2, p, r, g, FALSE)
    BY <2>4, <2>5
  <2>7. CertifiesFilter(c, n, d)
    BY <1>10, <2>5, CertAt
  <2>8. t \in NodeIds(v) \cup {""}
    BY <1>14, <2>2, <2>5
  <2>9. <<flag>> \in Seq(Values)
    BY <2>4 DEF Values
  <2>10. bag2 \in Bags
    BY <1>10, <2>2, <2>4, <2>5, <2>9, FieldIn, PutBag
  <2>11. Apart(bag, bag2, e)
    BY <2>4, PutApart
  <2>12. Sound(c, n, bag, lists, basis) => Sound(c, t, bag2, lists2, basis)
    BY <2>2, <2>4, <2>7, <2>11, SoundFilter
  <2> QED
    BY <1>11, <1>12, <2>1, <2>5, <2>6, <2>8, <2>10, <2>12
<1>18. CASE WalkBranch
  <2>1. AtNode("branch") /\ flow' = flow /\ sent' = sent
    BY <1>8, <1>18, BaseShape, BranchGoes
  <2>2. PICK t \in Targets(d) : GoesOn(t, bag, lists, p, r, g, turn.verifying)
    BY <1>8, <1>9, <1>18, BaseShape, BranchGoes
  <2>3. turn # None /\ n \in NodeIds(v) /\ d = Node(v, n) /\ d.type = "branch"
        /\ turn.verifying = FALSE
    BY <1>13, <2>1
  <2>4. GoesOn(t, bag, lists, p, r, g, FALSE)
    BY <2>2, <2>3
  <2>5. t \in NodeIds(v) \cup {""} /\ Carries(c, n, t)
    BY <1>10, <1>14, <2>2, <2>3, CertAt
  <2>6. Sound(c, n, bag, lists, basis) => Sound(c, t, bag, lists, basis)
    BY <1>15, <2>5
  <2> QED
    BY <1>10, <1>11, <1>12, <2>1, <2>3, <2>4, <2>5, <2>6
<1>19. CASE WalkMutate
  <2>1. PICK t, record, q :
          /\ t = d.next /\ q = None
          /\ record = Written(d.tool, _resolve_args(d.arg_map, turn.flow.bag))
    OBVIOUS
  <2>2. /\ AtNode("mutate") /\ sent' = Sent(d)
        /\ \/ turn' = None /\ flow' = None
           \/ flow' = flow /\ GoesOn(t, bag, lists, q, q, g, FALSE)
           \/ flow' = flow /\ GoesOn(n, bag, lists, q, record, g, TRUE)
    BY <1>8, <1>9, <1>19, <2>1, BaseShape, MutateWalks
  <2>3. /\ turn # None /\ n \in NodeIds(v) /\ d = Node(v, n) /\ d.type = "mutate"
        /\ IsA(v, n, "mutate")
    BY <1>13, <2>2
  <2>4. t \in Targets(d) /\ t \in NodeIds(v) \cup {""}
    BY <1>14, <2>1, <2>3
  <2>5. Refs(d.arg_map) \subseteq c.safe[n] /\ Carries(c, n, t)
    BY <1>10, <2>3, <2>4, CertAt
  <2>6. sent'.fits = Fits(turn.flow, d) /\ sent'.under = turn.flow.under
    BY <2>2 DEF Sent
  <2>7. WriteFitsAnswers'
    <3>1. SUFFICES ASSUME NEW u \in Versions, turn.flow.under = {u} PROVE Fits(turn.flow, d)
      BY <2>6 DEF WriteFitsAnswers
    <3>2. turn.flow.under \subseteq {v}
      BY <1>10, <2>3, <3>1
    <3>3. Sound(c, n, turn.flow.bag, turn.flow.lists, turn.flow.basis)
      BY <1>9, <1>10, <2>3, <3>2
    <3> QED
      BY <2>5, <3>3, CallFits
  <2>8. CASE turn' = None /\ flow' = None
    BY <2>7, <2>8 DEF FitsOK
  <2>9. CASE flow' = flow /\ GoesOn(t, bag, lists, q, q, g, FALSE)
    <3>1. Sound(c, n, bag, lists, basis) => Sound(c, t, bag, lists, basis)
      BY <1>15, <2>5
    <3> QED
      BY <1>10, <1>11, <2>3, <2>4, <2>7, <2>9, <3>1
  <2>10. CASE flow' = flow /\ GoesOn(n, bag, lists, q, record, g, TRUE)
    BY <1>10, <1>11, <2>3, <2>7, <2>10
  <2> QED
    BY <2>2, <2>8, <2>9, <2>10
<1>20. CASE WalkVerify
  <2>1. PICK t, found : t = d.next /\ found = (turn.wrote \in facts)
    OBVIOUS
  <2>2. /\ turn # None /\ turn.verifying /\ sent' = sent
        /\ \/ turn' = None /\ flow' = None
           \/ flow' = flow /\ GoesOn(t, bag, lists, p, r, found, FALSE)
    BY <1>8, <1>9, <1>20, <2>1, BaseShape, VerifyWalks
  <2>3. IsA(v, n, "mutate") /\ n \in NodeIds(v) /\ d = Node(v, n) /\ d.type = "mutate"
    BY <1>8, <1>10, <2>2 DEF TurnOK, IsA, Here
  <2>4. t \in Targets(d) /\ t \in NodeIds(v) \cup {""}
    BY <1>14, <2>1, <2>2, <2>3
  <2>5. Carries(c, n, t)
    BY <1>10, <2>2, <2>3, <2>4, CertAt
  <2>6. Sound(c, n, bag, lists, basis) => Sound(c, t, bag, lists, basis)
    BY <1>15, <2>5
  <2>7. CASE turn' = None /\ flow' = None
    BY <1>12, <2>2, <2>7 DEF FitsOK
  <2>8. CASE flow' = flow /\ GoesOn(t, bag, lists, p, r, found, FALSE)
    BY <1>10, <1>11, <1>12, <2>2, <2>4, <2>6, <2>8
  <2> QED
    BY <2>2, <2>7, <2>8
<1>21. CASE WalkAsk
  <2>1. turn # None /\ flow' = turn.flow /\ turn' = None /\ sent' = sent
    BY <1>21 DEF WalkAsk, AtNode
  <2>2. FlowFits(Cert, flow')
    BY <2>1 DEF FitsOK
  <2> QED
    BY <1>12, <2>1, <2>2 DEF FitsOK
<1>22. CASE WalkConfirm
  <2>1. turn # None /\ turn' = None /\ sent' = sent
    BY <1>22 DEF WalkConfirm, AtNode
  <2>2. PICK f, f2 : f = turn.flow /\ f2 = flow'
    OBVIOUS
  <2>3. /\ f2.node = f.node /\ f2.bag = f.bag /\ f2.lists = f.lists
        /\ f2.basis = f.basis /\ f2.under = f.under
    BY <1>22, <2>2, ConfirmedFlow
  <2>4. FlowFits(Cert, f)
    BY <2>1, <2>2 DEF FitsOK
  <2>5. FlowFits(Cert, flow')
    BY <2>2, <2>3, <2>4, SameFits
  <2> QED
    BY <1>12, <2>1, <2>5 DEF FitsOK
<1>23. CASE WalkEnd
  <2>1. turn' = None /\ flow' = None /\ sent' = sent
    BY <1>23 DEF WalkEnd
  <2> QED
    BY <1>12, <2>1 DEF FitsOK
<1> QED
  BY <1>1, <1>2, <1>3, <1>4, <1>5, <1>6, <1>7, <1>16, <1>17, <1>18, <1>19, <1>20, <1>21, <1>22, <1>23
     DEF Next, WalkStep, UserStep

\* Where one version of a definition served a run, the choices in the call it writes with
\* were made from lists fetched and filtered for the answers it holds then (advance,
\* _walk: an edit clears the field and the dependent steps run again): for every set of
\* definitions that have a certificate.
THEOREM WritesFitAnswers ==
  ASSUME NEW CONSTANT Cert, \A v \in Versions : Certifies(v, Cert[v])
  PROVE  Spec => []WriteFitsAnswers
<1>1. Init => FitsOK(Cert)
  BY FitsInit
<1>2. Base /\ FitsOK(Cert) /\ [Next]_vars => FitsOK(Cert)'
  BY FitsNext
<1>3. FitsOK(Cert) => WriteFitsAnswers
  BY DEF FitsOK
<1> QED
  BY BaseInit, BaseNext, <1>1, <1>2, <1>3, PTL DEF Spec
=============================================================================
