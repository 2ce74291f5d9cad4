------------------------- MODULE SessionHistoryProofs -------------------------
(***************************************************************************)
(* With one request at a time, no crash and no expiry loses an answered    *)
(* turn, for any number of requests: only a write that was to keep it, or  *)
(* the read of what was to be written, can lose it by failing.             *)
(*                                                                         *)
(* The argument: what the mirror holds is always also in the live session  *)
(* or in an archive (Backed), and a request about to overwrite either has  *)
(* what it overwrites in its copy or in an archive (Covered), because it   *)
(* archives BEFORE it writes; where a call of the store failed, the turns  *)
(* are in `missed`.                                                        *)
(***************************************************************************)
EXTENDS Histories, Sequences, FiniteSetTheorems, WellFoundedInduction, TLAPS

\* One request is open at a time.
Alone == \A r, q \in Requests : Open(r) /\ Open(q) => r = q

\* The mirror of an existing session is in it or in an archive.
Backed == live # None => TurnsIn(mirror) \subseteq live \cup (UNION archives) \cup missed

\* A request about to write, or about to archive first, covers what the mirror holds.
Covered ==
  \A r \in Requests :
    /\ pc[r] \in {"live", "mirror"} => TurnsIn(mirror) \subseteq copy[r] \cup (UNION archives) \cup missed
    /\ pc[r] = "archive" => TurnsIn(mirror) \subseteq held[r] \cup (UNION archives) \cup missed

\* Between the two writes of a save the live document is the saved one, or expired.
HalfSaved == \A r \in Requests : pc[r] = "mirror" => live \in {None, copy[r]}

\* A turn saves its own message.
OwnMessage ==
  \A r \in Requests :
    pc[r] \in {"live", "mirror"} /\ job[r] \in {"message", "reply"} => r \in copy[r]

\* What a write to be done is about is one of the four saves; a created session is empty.
Saving ==
  \A r \in Requests :
    /\ pc[r] = "archive" => job[r] \in {"create", "clear"}
    /\ pc[r] \in {"live", "mirror"} => job[r] \in {"create", "clear", "message", "reply"}
    /\ pc[r] \in {"live", "mirror"} /\ job[r] = "create" => copy[r] = {}

Inv ==
  /\ TypeOK /\ Alone /\ Backed /\ Covered /\ HalfSaved /\ OwnMessage /\ Saving
  /\ NothingLost

\* Before any request there is no document to lose.
LEMMA InitInv == Init => Inv
  BY HistoryAssumption DEF Init, Inv, TypeOK, Alone, Backed, Covered, HalfSaved, OwnMessage,
     Saving, NothingLost, TurnsIn, Open, Stages, Jobs

\* No step of a request, and no expiry, loses what a durable document holds.
LEMMA StepKeepsDurable ==
  ASSUME Inv, [Next]_vars
  PROVE  Durable \subseteq Durable' \cup missed'
<1>1. CASE UNCHANGED <<mirror, archives>>
  BY <1>1 DEF Durable
<1>2. ASSUME NEW r \in Requests, Archive(r) PROVE Durable \subseteq Durable' \cup missed'
  BY <1>2 DEF Archive, SetArchive, Durable
<1>3. ASSUME NEW r \in Requests, SetMirror(r) PROVE Durable \subseteq Durable' \cup missed'
  <2>1. /\ pc[r] = "mirror" /\ archives' = archives /\ copy[r] # None
        /\ \/ mirror' = copy[r] /\ missed' = missed \ copy[r]
           \/ mirror' = mirror
    BY <1>3, HistoryAssumption DEF SetMirror, Inv, TypeOK
  <2>2. TurnsIn(mirror) \subseteq copy[r] \cup (UNION archives) \cup missed
    BY <2>1 DEF Inv, Covered
  <2>3. TurnsIn(mirror') = IF mirror' = None THEN {} ELSE mirror'
    BY DEF TurnsIn
  <2>4. CASE mirror' = copy[r] /\ missed' = missed \ copy[r]
    <3>1. TurnsIn(mirror') = copy[r]
      BY <2>1, <2>3, <2>4
    <3>2. Durable' = copy[r] \cup (UNION archives)
      BY <2>1, <3>1 DEF Durable
    <3> QED
      BY <2>2, <2>4, <3>2 DEF Durable
  <2>5. CASE mirror' = mirror
    BY <2>1, <2>5 DEF Durable
  <2> QED
    BY <2>1, <2>4, <2>5
<1> QED
  BY <1>1, <1>2, <1>3 DEF Next, Expire, Send, GetForTurn, GetForClear, Peek, SetLive, Crash,
     store, vars

\* Every step, of a request or of the clock, keeps the invariant.
LEMMA NextInv == Serial /\ Inv /\ [Next]_vars => Inv'
<1> SUFFICES ASSUME Serial, Inv, [Next]_vars PROVE Inv'
  OBVIOUS
<1> USE HistoryAssumption
<1>1. Reads(live) \subseteq {live, None} /\ Reads(mirror) \subseteq {mirror, None}
  BY DEF Reads
<1>2. \A r, q \in Requests : Open(r) /\ q # r => ~Open(q)
  BY DEF Inv, Alone
<1>3. CASE Expire
  BY <1>3 DEF Expire, Inv, TypeOK, Alone, Backed, Covered, HalfSaved, OwnMessage, Saving,
     NothingLost, Durable, Open, TurnsIn, ghosts, failures
<1>4. ASSUME NEW r \in Requests, Send(r) PROVE Inv'
  BY <1>4 DEF Send, Go, Inv, TypeOK, Alone, Backed, Covered, HalfSaved, OwnMessage, Saving,
     NothingLost, Durable, Open, TurnsIn, ghosts, failures, store, Stages, Jobs
<1>5. ASSUME NEW r \in Requests, GetForTurn(r) PROVE Inv'
  BY <1>5, <1>1, <1>2 DEF GetForTurn, Go, Inv, TypeOK, Alone, Backed, Covered, HalfSaved,
     OwnMessage, Saving, NothingLost, Durable, Open, TurnsIn, ghosts, failures, store, Stages, Jobs
<1>6. ASSUME NEW r \in Requests, GetForClear(r) PROVE Inv'
  BY <1>6, <1>1, <1>2 DEF GetForClear, Done, Go, Inv, TypeOK, Alone, Backed, Covered, HalfSaved,
     OwnMessage, Saving, NothingLost, Durable, Open, TurnsIn, ghosts, failures, store, Stages, Jobs
<1>7. ASSUME NEW r \in Requests, Peek(r) PROVE Inv'
  <2>1. PICK m \in Reads(mirror) :
          /\ IF m \in {None, {}} THEN Go(r, "live", "create", {}, {})
                                 ELSE Go(r, "archive", "create", {}, m)
          /\ missed' = IF m = None THEN missed \cup TurnsIn(mirror) ELSE missed
    BY <1>7 DEF Peek
  <2>2. /\ m = mirror \/ m = None
        /\ pc[r] = "peek" /\ Open(r)
        /\ UNCHANGED <<live, mirror, archives, answered, cleared, behind>>
        /\ missed \subseteq missed' /\ TurnsIn(mirror) \subseteq Requests
    BY <1>1, <1>7, <2>1 DEF Peek, Open, store, ghosts, Inv, TypeOK, TurnsIn
  <2>3. TypeOK'
    <3>1. m \notin {None, {}} => m \in SUBSET Requests
      BY <2>2 DEF Inv, TypeOK
    <3>2. missed' \subseteq Requests
      BY <2>1, <2>2 DEF Inv, TypeOK
    <3> QED
      BY <2>1, <2>2, <3>1, <3>2 DEF Go, Inv, TypeOK, Stages, Jobs
  <2>4. Alone'
    BY <2>1, <2>2, <1>2 DEF Go, Inv, TypeOK, Alone, Open
  <2>5. TurnsIn(mirror)' = TurnsIn(mirror)
    BY <2>2 DEF TurnsIn
  <2>6. Backed'
    BY <2>2, <2>5 DEF Inv, Backed
  <2>7. Covered'
    <3>1. CASE m \in {None, {}}
      <4>1. TurnsIn(mirror) \subseteq missed'
        BY <2>1, <2>2, <3>1 DEF TurnsIn
      <4>2. TurnsIn(mirror)' \subseteq missed'
        BY <4>1, <2>5
      <4> QED
        BY <4>2 DEF Covered
    <3>2. CASE m \notin {None, {}}
      <4>1. TurnsIn(mirror) = m
        BY <2>2, <3>2 DEF TurnsIn
      <4>2. pc' = [pc EXCEPT ![r] = "archive"] /\ held' = [held EXCEPT ![r] = m]
        BY <2>1, <3>2 DEF Go
      <4>3. pc'[r] = "archive" /\ held'[r] = m
        BY <4>2 DEF Inv, TypeOK
      <4>4. \A q \in Requests : q # r => pc'[q] \notin {"live", "mirror", "archive"}
        BY <2>2, <4>2, <1>2 DEF Inv, TypeOK, Open
      <4> QED
        BY <4>1, <4>3, <4>4, <2>5 DEF Covered
    <3> QED
      BY <3>1, <3>2
  <2>8. HalfSaved' /\ OwnMessage' /\ Saving'
    BY <2>1, <2>2, <1>2 DEF Go, Inv, TypeOK, HalfSaved, OwnMessage, Saving, Open
  <2>9. NothingLost'
    BY <2>2, <2>5 DEF Inv, NothingLost, Durable
  <2> QED
    BY <2>3, <2>4, <2>6, <2>7, <2>8, <2>9 DEF Inv
<1>8. ASSUME NEW r \in Requests, Archive(r) PROVE Inv'
  <2>1. /\ (UNION archives) \subseteq (UNION archives')
        /\ missed \cup held[r] \subseteq missed' \cup (UNION archives')
    BY <1>8 DEF Archive, SetArchive
  <2>2. TypeOK'
    <3>1. archives' \subseteq SUBSET Requests /\ missed' \subseteq Requests
      BY <1>8 DEF Archive, SetArchive, Inv, TypeOK
    <3> QED
      BY <1>8, <3>1 DEF Archive, Go, Inv, TypeOK, ghosts, Stages, Jobs
  <2>3. Alone'
    BY <1>8, <1>2 DEF Archive, Go, Inv, TypeOK, Alone, Open
  <2>4. Backed'
    <3>1. live' = live /\ TurnsIn(mirror)' = TurnsIn(mirror)
      BY <1>8 DEF Archive, TurnsIn
    <3>2. \A t \in (UNION archives) \cup missed : t \in (UNION archives') \cup missed'
      BY <2>1
    <3> QED
      BY <3>1, <3>2 DEF Inv, Backed
  <2>5. Covered'
    <3>1. TurnsIn(mirror)' = TurnsIn(mirror)
      BY <1>8 DEF Archive, TurnsIn
    <3>2. TurnsIn(mirror) \subseteq held[r] \cup (UNION archives) \cup missed
      BY <1>8 DEF Archive, Inv, Covered
    <3>3. TurnsIn(mirror)' \subseteq (UNION archives') \cup missed'
      BY <2>1, <3>1, <3>2
    <3>4. \A q \in Requests : q # r => pc'[q] \notin {"live", "mirror", "archive"}
      BY <1>8, <1>2 DEF Archive, Go, Inv, TypeOK, Open
    <3>5. pc'[r] = "live"
      BY <1>8 DEF Archive, Go, Inv, TypeOK
    <3> QED
      BY <3>3, <3>4, <3>5 DEF Covered
  <2>6. HalfSaved' /\ OwnMessage' /\ Saving'
    BY <1>8, <1>2 DEF Archive, Go, Inv, TypeOK, HalfSaved, OwnMessage, Saving, Open
  <2>7. NothingLost'
    BY <1>8, <2>1 DEF Archive, Inv, NothingLost, Durable, ghosts
  <2> QED
    BY <2>2, <2>3, <2>4, <2>5, <2>6, <2>7 DEF Inv
<1>9. ASSUME NEW r \in Requests, SetLive(r) PROVE Inv'
  BY <1>9, <1>2 DEF SetLive, Go, Inv, TypeOK, Alone, Backed, Covered, HalfSaved,
     OwnMessage, Saving, NothingLost, Durable, Open, TurnsIn, ghosts, failures, Stages, Jobs
<1>10. ASSUME NEW r \in Requests, SetMirror(r) PROVE Inv'
  <2>1. /\ pc[r] = "mirror" /\ UNCHANGED <<live, archives>>
        /\ copy[r] # None /\ Open(r) /\ copy[r] \subseteq Requests
        /\ missed' \subseteq Requests /\ behind' \in BOOLEAN
        /\ mirror' \in {None} \cup SUBSET Requests
        /\ copy[r] \subseteq TurnsIn(mirror)' \cup missed'
        /\ \A q \in Requests : q # r => ~Open(q)
    BY <1>10, <1>2 DEF SetMirror, Inv, TypeOK, Open, TurnsIn
  <2>2. Durable \subseteq Durable' \cup missed'
    BY <1>10, StepKeepsDurable DEF Next
  <2>3. /\ TurnsIn(mirror)' \subseteq copy[r] \cup (UNION archives) \cup missed'
        /\ Backed'
    <3>1. CASE mirror' = copy[r]
      BY <2>1, <3>1 DEF Inv, HalfSaved, Backed, TurnsIn
    <3>2. CASE mirror' = mirror /\ missed \subseteq missed'
      <4>1. TurnsIn(mirror) \subseteq copy[r] \cup (UNION archives) \cup missed
        BY <2>1 DEF Inv, Covered
      <4> QED
        BY <2>1, <3>2, <4>1 DEF Inv, Backed, TurnsIn
    <3> QED
      BY <1>10, <3>1, <3>2 DEF SetMirror
  <2>12. missed \ missed' \subseteq Durable'
    BY <1>10, <2>1 DEF SetMirror, Durable, TurnsIn
  <2>4. ASSUME NEW j \in Jobs, NEW c \in SUBSET Requests, copy[r] \subseteq c,
               j \in {"message", "reply"} /\ r \in c,
               Go(r, "live", j, c, {}), UNCHANGED ghosts
        PROVE  Inv'
    <3>1. TypeOK' /\ Alone'
      BY <2>1, <2>4 DEF Go, Inv, TypeOK, Alone, Open, ghosts, failures, Stages
    <3>2. Covered' /\ HalfSaved' /\ OwnMessage' /\ Saving'
      BY <2>1, <2>3, <2>4 DEF Go, Inv, TypeOK, Covered, HalfSaved, OwnMessage, Saving, Open
    <3>3. NothingLost'
      BY <2>2, <2>12, <2>4 DEF Inv, NothingLost, ghosts
    <3> QED
      BY <3>1, <3>2, <3>3, <2>3 DEF Inv
  <2>5. ASSUME Done(r) PROVE (Alone /\ Covered /\ HalfSaved /\ OwnMessage /\ Saving)'
    BY <2>1, <2>5 DEF Done, Go, Inv, TypeOK, Alone, Covered, HalfSaved, OwnMessage, Saving, Open
  <2>6. CASE job[r] = "create"
    <3>1. Go(r, "live", "message", {r}, {}) /\ UNCHANGED ghosts /\ copy[r] \subseteq {r}
      BY <1>10, <2>6, <2>1 DEF SetMirror, Inv, Saving
    <3> QED
      BY <3>1, <2>4 DEF Jobs
  <2>7. CASE job[r] = "message"
    <3>1. Go(r, "live", "reply", copy[r], {}) /\ UNCHANGED ghosts /\ r \in copy[r]
      BY <1>10, <2>7, <2>1 DEF SetMirror, Inv, OwnMessage
    <3> QED
      BY <3>1, <2>4 DEF Jobs, Inv, TypeOK
  <2>8. CASE job[r] = "reply"
    <3>1. Done(r) /\ answered' = answered \cup {r} /\ UNCHANGED cleared /\ r \in copy[r]
      BY <1>10, <2>8, <2>1 DEF SetMirror, Inv, OwnMessage
    <3>2. TypeOK'
      BY <3>1, <2>1 DEF Done, Go, Inv, TypeOK, Stages
    <3>3. NothingLost'
      BY <3>1, <2>1, <2>2, <2>12 DEF Inv, NothingLost, Durable
    <3> QED
      BY <3>1, <3>2, <3>3, <2>3, <2>5 DEF Inv
  <2>9. CASE job[r] = "clear"
    <3>1. Done(r) /\ cleared' = cleared \cup held[r] /\ UNCHANGED answered
      BY <1>10, <2>9, <2>1 DEF SetMirror
    <3>2. TypeOK'
      BY <3>1, <2>1 DEF Done, Go, Inv, TypeOK, Stages
    <3>3. NothingLost'
      BY <3>1, <2>2, <2>12 DEF Inv, NothingLost
    <3> QED
      BY <3>1, <3>2, <3>3, <2>3, <2>5 DEF Inv
  <2> QED
    BY <2>1, <2>6, <2>7, <2>8, <2>9 DEF Inv, Saving
<1>11. ASSUME NEW r \in Requests, Crash(r) PROVE Inv'
  BY <1>11, <1>2 DEF Crash, Done, Go, Inv, TypeOK, Alone, Backed, Covered, HalfSaved,
     OwnMessage, Saving, NothingLost, Durable, Open, TurnsIn, ghosts, failures, store, Stages, Jobs
<1>12. CASE UNCHANGED vars
  BY <1>12 DEF vars, Inv, TypeOK, Alone, Backed, Covered, HalfSaved, OwnMessage, Saving,
     NothingLost, Durable, Open, TurnsIn
<1> QED
  BY <1>3, <1>4, <1>5, <1>6, <1>7, <1>8, <1>9, <1>10, <1>11, <1>12 DEF Next

\* The inductive invariant holds in every behaviour.
LEMMA InvHolds ==
  ASSUME Serial
  PROVE  Spec => []Inv
  BY InitInv, NextInv, PTL DEF Spec

\* The session service keeps every answered turn in a document that does not expire:
\* whatever expires, is cleared, or dies between two writes, get_or_create and
\* clear_messages archive before they overwrite (session_service.py 79-144).
THEOREM HistoryIsKept ==
  ASSUME Serial
  PROVE  Spec => []NothingLost
<1>1. Inv => NothingLost
  BY DEF Inv
<1> QED
  BY <1>1, InvHolds, PTL

\* Not even between the writes of one save do the mirror and the archives, together,
\* lose a turn they held: no write of save or of an archive drops what is kept.
THEOREM HistoryOnlyGrows ==
  ASSUME Serial
  PROVE  Spec => DurableGrows
<1>1. Inv /\ [Next]_vars => [Durable \subseteq Durable' \cup missed']_vars
  BY StepKeepsDurable
<1> QED
  BY <1>1, InvHolds, PTL DEF Spec, DurableGrows

-----------------------------------------------------------------------------
(* The mirror keeps up, and what was put away stays away.                  *)
(*                                                                         *)
(* MirrorIsLatest holds between two saves because it fails only between the*)
(* two writes of one (InStep).  ClearedStaysCleared needs that a turn is in*)
(* no document before it is sent (Unseen), that it cannot be cleared while *)
(* it is being answered (OwnOpen), and that a clear saves the empty        *)
(* conversation (ClearsAll).                                               *)

\* The mirror is the live session, but between the two writes of a save.
InStep == live # None /\ ~behind /\ (\A r \in Requests : pc[r] # "mirror") => mirror = live

\* A request that was not sent has put its message nowhere.
Unseen ==
  \A r \in Requests : pc[r] = "idle" =>
    /\ r \notin cleared \cup TurnsIn(live) \cup TurnsIn(mirror)
    /\ \A q \in Requests : r \notin copy[q] \cup held[q]

\* A turn that is still being answered has not been put away.
OwnOpen == \A r \in Requests : Open(r) /\ job[r] # "clear" => r \notin cleared

\* Only a session that is being created looks at the mirror first.
Peeking == \A r \in Requests : pc[r] = "peek" => job[r] = "create"

\* What is about to be saved holds nothing that was put away; a clear saves nothing.
CopyClean == \A r \in Requests : pc[r] \in {"live", "mirror"} => copy[r] \cap cleared = {}
ClearsAll == \A r \in Requests : pc[r] \in {"live", "mirror"} /\ job[r] = "clear" => copy[r] = {}

MirrorInv ==
  /\ InStep /\ Unseen /\ OwnOpen /\ Peeking /\ CopyClean /\ ClearsAll
  /\ ClearedStaysCleared

\* Before any request there is nothing to keep up with.
LEMMA InitMirror == Init => MirrorInv
  BY DEF Init, MirrorInv, InStep, Unseen, OwnOpen, Peeking, CopyClean, ClearsAll, ClearedStaysCleared,
     TurnsIn, Open

\* Every step keeps the mirror up with the live session, and the cleared turns away.
LEMMA NextMirror == Serial /\ Inv /\ MirrorInv /\ [Next]_vars => MirrorInv'
<1> SUFFICES ASSUME Serial, Inv, MirrorInv, [Next]_vars PROVE MirrorInv'
  OBVIOUS
<1> USE HistoryAssumption
<1>1. Reads(live) \subseteq {live, None} /\ Reads(mirror) \subseteq {mirror, None}
  BY DEF Reads
<1>2. TypeOK /\ \A r, q \in Requests : Open(r) /\ q # r => ~Open(q)
  BY DEF Inv, Alone
<1>3. CASE Expire
  BY <1>3 DEF Expire, ghosts, MirrorInv, InStep, Unseen, OwnOpen, Peeking, CopyClean, ClearsAll,
     ClearedStaysCleared, TurnsIn, Open
<1>4. ASSUME NEW r \in Requests, Send(r) PROVE MirrorInv'
  BY <1>4, <1>2 DEF Send, Go, TypeOK, MirrorInv, InStep, Unseen, OwnOpen, Peeking, CopyClean, ClearsAll,
     ClearedStaysCleared, TurnsIn, Open, ghosts, failures, store
<1>5. ASSUME NEW r \in Requests, GetForTurn(r) PROVE MirrorInv'
  BY <1>5, <1>1, <1>2 DEF GetForTurn, Go, TypeOK, MirrorInv, InStep, Unseen, OwnOpen, Peeking, CopyClean,
     ClearsAll, ClearedStaysCleared, TurnsIn, Open, ghosts, failures, store
<1>6. ASSUME NEW r \in Requests, GetForClear(r) PROVE MirrorInv'
  BY <1>6, <1>1, <1>2 DEF GetForClear, Done, Go, TypeOK, MirrorInv, InStep, Unseen, OwnOpen, Peeking,
     CopyClean, ClearsAll, ClearedStaysCleared, TurnsIn, Open, ghosts, failures, store
<1>7. ASSUME NEW r \in Requests, Peek(r) PROVE MirrorInv'
  BY <1>7, <1>1, <1>2 DEF Peek, Go, TypeOK, MirrorInv, InStep, Unseen, OwnOpen, Peeking, CopyClean,
     ClearsAll, ClearedStaysCleared, TurnsIn, Open, ghosts, failures, store
<1>8. ASSUME NEW r \in Requests, Archive(r) PROVE MirrorInv'
  BY <1>8, <1>2 DEF Archive, Go, TypeOK, MirrorInv, InStep, Unseen, OwnOpen, Peeking, CopyClean,
     ClearsAll, ClearedStaysCleared, TurnsIn, Open, ghosts
<1>9. ASSUME NEW r \in Requests, SetLive(r) PROVE MirrorInv'
  BY <1>9, <1>2 DEF SetLive, Go, TypeOK, MirrorInv, InStep, Unseen, OwnOpen, Peeking, CopyClean,
     ClearsAll, ClearedStaysCleared, TurnsIn, Open, ghosts
<1>10. ASSUME NEW r \in Requests, SetMirror(r) PROVE MirrorInv'
  <2>1. /\ pc[r] = "mirror" /\ live' = live /\ live \in {None, copy[r]}
        /\ mirror' = copy[r] \/ (mirror' = mirror /\ behind')
        /\ copy[r] # None /\ Open(r)
        /\ \A q \in Requests : q # r => ~Open(q)
    BY <1>10, <1>2 DEF SetMirror, Inv, HalfSaved, TypeOK, Open
  <2>2. InStep'
    BY <2>1 DEF InStep
  <2>3. job[r] \in {"create", "message", "reply", "clear"}
    BY <2>1 DEF Inv, Saving
  <2>4. CASE job[r] = "create"
    <3>1. Go(r, "live", "message", {r}, {}) /\ UNCHANGED ghosts /\ copy[r] = {}
      BY <1>10, <2>1, <2>4 DEF SetMirror, Inv, Saving
    <3> QED
      BY <2>1, <2>2, <2>4, <3>1, <1>2 DEF Go, TypeOK, MirrorInv, Unseen, OwnOpen, Peeking, CopyClean,
         ClearsAll, ClearedStaysCleared, TurnsIn, Open, ghosts
  <2>5. CASE job[r] = "message"
    <3>1. Go(r, "live", "reply", copy[r], {}) /\ UNCHANGED ghosts
      BY <1>10, <2>5 DEF SetMirror
    <3> QED
      BY <2>1, <2>2, <2>5, <3>1, <1>2 DEF Go, TypeOK, MirrorInv, Unseen, OwnOpen, Peeking, CopyClean,
         ClearsAll, ClearedStaysCleared, TurnsIn, Open, ghosts
  <2>6. CASE job[r] = "reply"
    <3>1. Done(r) /\ UNCHANGED cleared
      BY <1>10, <2>6 DEF SetMirror
    <3> QED
      BY <2>1, <2>2, <2>6, <3>1, <1>2 DEF Done, Go, TypeOK, MirrorInv, Unseen, OwnOpen, Peeking, CopyClean,
         ClearsAll, ClearedStaysCleared, TurnsIn, Open
  <2>7. CASE job[r] = "clear"
    <3>1. Done(r) /\ cleared' = cleared \cup held[r]
      BY <1>10, <2>7 DEF SetMirror
    <3>2. copy[r] = {}
      BY <2>1, <2>7 DEF MirrorInv, ClearsAll
    <3>3. Unseen' /\ ClearedStaysCleared'
      BY <2>1, <2>7, <3>1, <3>2, <1>2 DEF Done, Go, TypeOK, MirrorInv, Unseen, ClearedStaysCleared, TurnsIn
    <3>4. OwnOpen' /\ Peeking' /\ CopyClean' /\ ClearsAll'
      BY <2>1, <2>7, <3>1, <3>2, <1>2 DEF Done, Go, TypeOK, MirrorInv, OwnOpen, Peeking, CopyClean, ClearsAll, Open
    <3> QED
      BY <2>2, <3>3, <3>4 DEF MirrorInv
  <2> QED
    BY <2>3, <2>4, <2>5, <2>6, <2>7
<1>11. ASSUME NEW r \in Requests, Crash(r) PROVE MirrorInv'
  BY <1>11, <1>2 DEF Crash, Go, TypeOK, MirrorInv, InStep, Unseen, OwnOpen, Peeking, CopyClean, ClearsAll,
     ClearedStaysCleared, TurnsIn, Open, ghosts, failures, store
<1>12. CASE UNCHANGED vars
  BY <1>12 DEF vars, MirrorInv, InStep, Unseen, OwnOpen, Peeking, CopyClean, ClearsAll,
     ClearedStaysCleared, TurnsIn, Open
<1> QED
  BY <1>3, <1>4, <1>5, <1>6, <1>7, <1>8, <1>9, <1>10, <1>11, <1>12 DEF Next

\* The two documents of a session id agree whenever no request is at work or has died over
\* them, and a conversation that a completed new chat put away does not come back into the
\* live session, through any expiry and any crash (session_service.save, clear_messages).
THEOREM MirrorFollowsLive ==
  ASSUME Serial
  PROVE  Spec => []MirrorKeepsUp
<1>1. MirrorInv => MirrorKeepsUp
  BY DEF MirrorInv, InStep, MirrorKeepsUp, MirrorIsLatest, Open
<1> QED
  BY <1>1, InitMirror, NextMirror, InvHolds, PTL DEF Spec

-----------------------------------------------------------------------------
(* The histories of a user (Conversations), for any applications, turns    *)
(* and days.  The argument: the mirror is the live session where there is  *)
(* one (Mirrored), a turn is in one document and no other (HeldOnce), which *)
(* is of its application when it was sent to agent_reply (OfItsApp).       *)

Current(id, n) == mirrors[id] # None /\ n \in mirrors[id].turns

DialogueOK ==
  /\ screen \in User!Ids
  /\ echo \in User!Ids \cup {None}
  /\ today \in Nat
  /\ asked \in Seq(Askings)
  /\ lives \in [User!Ids -> Dialogues \cup {None}]
  /\ mirrors \in [User!Ids -> Dialogues \cup {None}]
  /\ archived \subseteq [id : User!Ids, turns : SUBSET Nat]

Mirrored == \A id \in User!Ids : lives[id] # None => mirrors[id] = lives[id]

HeldOnce ==
  /\ \A n \in 1 .. Len(asked) :
       (\E id \in User!Ids : Current(id, n)) \/ \E a \in archived : n \in a.turns
  /\ \A n : \A id, other \in User!Ids : Current(id, n) /\ Current(other, n) => id = other
  /\ \A n : \A id \in User!Ids, a \in archived : ~ (Current(id, n) /\ n \in a.turns)
  /\ \A n : \A a, b \in archived : n \in a.turns /\ n \in b.turns => a = b

OnlyAsked ==
  /\ \A id \in User!Ids : mirrors[id] # None => mirrors[id].turns \subseteq 1 .. Len(asked)
  /\ \A a \in archived : a.turns \subseteq 1 .. Len(asked)

OfItsApp ==
  \A n \in 1 .. Len(asked) : asked[n].via = "reply" /\ asked[n].app # Unknown =>
    /\ \A id \in User!Ids : Current(id, n) => id = asked[n].app
    /\ \A a \in archived : n \in a.turns => a.id = asked[n].app

\* The newest question of a live session was asked where it was last used.
LastUsed ==
  \A id \in User!Ids : lives[id] # None =>
    \A n \in lives[id].turns :
      (\A k \in lives[id].turns : k <= n) => asked[n].app \in {lives[id].app, Unknown}

MirrorTurns(id) == IF mirrors[id] = None THEN {} ELSE mirrors[id].turns

DialogueInv == DialogueOK /\ Mirrored /\ HeldOnce /\ OnlyAsked /\ OfItsApp /\ LastUsed

LEMMA DialogueInit == User!Init => DialogueInv
  BY ConversationsAssumption
  DEF User!Init, DialogueInv, DialogueOK, Mirrored, HeldOnce, OnlyAsked, OfItsApp, LastUsed,
      Current, User!Ids, Askings

\* A turn goes to a session id, which is its application's if it is sent to agent_reply from one.
LEMMA WhereATurnGoes ==
  ASSUME DialogueOK, NEW via \in {"reply", "stream"}
  PROVE  /\ User!SessionOf(via) \in User!Ids
         /\ via = "reply" /\ screen # Unknown => User!SessionOf(via) = screen
  BY DEF User!SessionOf, DialogueOK, User!Ids

\* A request that saves a document: what the mirror held is in it, or goes to the archives.
LEMMA SaveKeeps ==
  ASSUME DialogueInv, NEW id \in User!Ids, NEW doc \in Dialogues, User!Save(id, doc),
         \/ archived' = archived /\ MirrorTurns(id) \subseteq doc.turns
         \/ archived' = archived \cup {[id |-> id, turns |-> MirrorTurns(id)]} /\ doc.turns \cap MirrorTurns(id) = {},
         asked' \in Seq(Askings), Len(asked) <= Len(asked'),
         doc.turns \ MirrorTurns(id) = 1 .. Len(asked') \ 1 .. Len(asked),
         \A n \in 1 .. Len(asked) : asked'[n] = asked[n],
         \A n \in doc.turns \ MirrorTurns(id) :
           asked'[n].via = "reply" /\ asked'[n].app # Unknown => asked'[n].app = id
  PROVE  Mirrored' /\ HeldOnce' /\ OnlyAsked' /\ OfItsApp'
<1> USE ConversationsAssumption
<1> DEFINE kept == MirrorTurns(id)
<1>1. /\ lives' = [lives EXCEPT ![id] = doc] /\ mirrors' = [mirrors EXCEPT ![id] = doc]
      /\ doc # None /\ DialogueOK
  BY DEF User!Save, DialogueInv
<1>2. ASSUME NEW x \in User!Ids, NEW n
      PROVE  /\ Current(x, n)' <=> IF x = id THEN n \in doc.turns ELSE Current(x, n)
             /\ Current(id, n) <=> n \in kept
  BY <1>1 DEF Current, DialogueOK, MirrorTurns
<1>3. kept \subseteq 1 .. Len(asked)
  BY DEF DialogueInv, OnlyAsked, MirrorTurns
<1>4. Len(asked) \in Nat /\ Len(asked') \in Nat
  BY <1>1 DEF DialogueOK
<1>5. Mirrored'
  BY <1>1 DEF Mirrored, DialogueInv, DialogueOK
<1>6. OnlyAsked'
  <2>1. 1 .. Len(asked) \subseteq 1 .. Len(asked')
    BY <1>4
  <2>2. doc.turns \subseteq 1 .. Len(asked')
    BY <1>3, <2>1
  <2>3. \A x \in User!Ids : mirrors'[x] # None => mirrors'[x].turns \subseteq 1 .. Len(asked')
    BY <1>1, <2>1, <2>2 DEF DialogueInv, OnlyAsked, DialogueOK
  <2>4. \A a \in archived' : a.turns \subseteq 1 .. Len(asked')
    BY <1>3, <2>1 DEF DialogueInv, OnlyAsked
  <2> QED
    BY <2>3, <2>4 DEF OnlyAsked
<1>7. \A a \in archived' : \/ a \in archived
                           \/ a = [id |-> id, turns |-> kept] /\ doc.turns \cap kept = {}
  OBVIOUS
<1>10. kept \subseteq doc.turns \/ [id |-> id, turns |-> kept] \in archived'
  OBVIOUS
<1>8. HeldOnce'
  <2> USE DEF HeldOnce
  <2>0. HeldOnce /\ OnlyAsked
    BY DEF DialogueInv
  <2>1. ASSUME NEW n \in 1 .. Len(asked')
        PROVE  (\E x \in User!Ids : Current(x, n)') \/ \E a \in archived' : n \in a.turns
    <3>1. CASE n \in doc.turns
      BY <1>2, <3>1
    <3>2. CASE n \notin doc.turns
      <4>1. n \in 1 .. Len(asked)
        BY <1>3, <1>4, <3>2
      <4>2. CASE n \in kept
        <5> DEFINE a == [id |-> id, turns |-> kept]
        <5>1. a \in archived' /\ a.turns = kept
          BY <1>10, <3>2, <4>2
        <5> HIDE DEF a
        <5> QED
          BY <4>2, <5>1
      <4>3. CASE n \notin kept
        BY <1>2, <2>0, <4>1, <4>3
      <4> QED
        BY <4>2, <4>3
    <3> QED
      BY <3>1, <3>2
  <2>2. ASSUME NEW n, NEW x \in User!Ids, NEW y \in User!Ids, Current(x, n)', Current(y, n)'
        PROVE  x = y
    <3>1. \A z \in User!Ids : z # id /\ n \in doc.turns => ~Current(z, n)
      <4> SUFFICES ASSUME NEW z \in User!Ids, z # id, n \in doc.turns, Current(z, n) PROVE FALSE
        OBVIOUS
      <4>1. n \in 1 .. Len(asked)
        BY <2>0 DEF OnlyAsked, Current
      <4>2. n \in kept
        BY <4>1
      <4> QED
        BY <1>2, <2>0, <4>2
    <3> QED
      BY <1>2, <2>0, <2>2, <3>1
  <2>3. ASSUME NEW n, NEW x \in User!Ids, NEW a \in archived', Current(x, n)', n \in a.turns
        PROVE  FALSE
    <3>1. CASE a \in archived
      <4>1. n \in 1 .. Len(asked)
        BY <2>0, <2>3, <3>1 DEF OnlyAsked
      <4>2. x = id => n \in kept
        BY <1>2, <2>3, <4>1
      <4> QED
        BY <1>2, <2>0, <2>3, <3>1, <4>2
    <3>2. CASE a \notin archived
      BY <1>2, <1>7, <2>0, <2>3, <3>2
    <3> QED
      BY <3>1, <3>2
  <2>4. ASSUME NEW n, NEW a \in archived', NEW b \in archived', n \in a.turns, n \in b.turns
        PROVE  a = b
    <3>1. \A c \in archived : ~ (n \in c.turns /\ n \in kept)
      BY <1>2, <2>0
    <3> QED
      BY <1>7, <2>0, <2>4, <3>1
  <2> QED
    BY <2>1, <2>2, <2>3, <2>4
<1>9. OfItsApp'
  <2> SUFFICES ASSUME NEW n \in 1 .. Len(asked'), asked'[n].via = "reply", asked'[n].app # Unknown
               PROVE  /\ \A x \in User!Ids : Current(x, n)' => x = asked'[n].app
                      /\ \A a \in archived' : n \in a.turns => a.id = asked'[n].app
    BY DEF OfItsApp
  <2>1. CASE n \in 1 .. Len(asked)
    <3>1. /\ \A x \in User!Ids : Current(x, n) => x = asked[n].app
          /\ \A a \in archived : n \in a.turns => a.id = asked[n].app
          /\ asked'[n] = asked[n]
      BY <2>1 DEF DialogueInv, OfItsApp
    <3>2. n \in doc.turns => n \in kept
      BY <2>1
    <3> QED
      BY <1>2, <1>7, <3>1, <3>2
  <2>2. CASE n \notin 1 .. Len(asked)
    <3>1. n \in doc.turns \ kept /\ asked'[n].app = id
      BY <2>2
    <3>2. \A x \in User!Ids : Current(x, n)' => x = id
      BY <1>2, <2>2 DEF DialogueInv, OnlyAsked, Current
    <3>3. \A a \in archived' : n \notin a.turns
      BY <1>3, <1>7, <2>2 DEF DialogueInv, OnlyAsked
    <3> QED
      BY <3>1, <3>2, <3>3
  <2> QED
    BY <2>1, <2>2
<1> QED
  BY <1>5, <1>6, <1>8, <1>9

\* The largest of finitely many numbers is one of them.
LEMMA LargestIsLargest ==
  ASSUME NEW k \in Nat, NEW S \in SUBSET (1 .. k), S # {}
  PROVE  User!Max(S) \in S /\ \A y \in S : y <= User!Max(S)
<1> DEFINE T == {i \in 0 .. k : k - i \in S}
<1>1. T \subseteq Nat /\ T # {}
  <2>1. PICK x \in S : TRUE
    OBVIOUS
  <2>2. k - (k - x) = x /\ k - x \in 0 .. k
    OBVIOUS
  <2>3. k - x \in T
    BY <2>2
  <2>4. T \subseteq Nat
    OBVIOUS
  <2> QED
    BY <2>3, <2>4
<1>2. PICK i \in T : \A j \in T : <<j, i>> \notin OpToRel(<, Nat)
  BY <1>1, NatLessThanWellFounded, WFMin
<1>3. \A j \in T : i <= j
  <2> TAKE j \in T
  <2>1. i \in Nat /\ j \in Nat
    BY <1>1
  <2>2. ~ (j < i)
    BY <1>2, <2>1 DEF OpToRel
  <2> QED
    BY <2>1, <2>2
<1>4. k - i \in S /\ \A y \in S : y <= k - i
  <2>1. ASSUME NEW y \in S PROVE y <= k - i
    <3>1. k - (k - y) = y /\ k - y \in 0 .. k
      OBVIOUS
    <3>2. i <= k - y
      BY <1>3, <3>1
    <3> QED
      BY <3>2
  <2> QED
    BY <2>1
<1> QED
  BY <1>4 DEF User!Max

\* A turn, on whichever endpoint and in whichever session it goes to.
LEMMA AskKeeps ==
  ASSUME DialogueInv, NEW via \in {"reply", "stream"}, User!Ask(via)
  PROVE  DialogueInv'
<1> USE ConversationsAssumption
<1> DEFINE id   == User!SessionOf(via)
           old  == IF lives[id] = None THEN {} ELSE lives[id].turns
           n    == Len(asked) + 1
           doc  == User!Document(old \cup {n}, User!Used(lives[id]))
           kept == MirrorTurns(id)
<1>1. id \in User!Ids /\ (via = "reply" /\ screen # Unknown => id = screen) /\ DialogueOK
  BY WhereATurnGoes DEF DialogueInv
<1>2. /\ asked' = Append(asked, [app |-> screen, day |-> today, via |-> via])
      /\ archived' = IF lives[id] = None THEN User!Preserved(id) ELSE archived
      /\ User!Save(id, doc)
      /\ echo' = id /\ screen' = screen /\ today' = today
  BY DEF User!Ask
<1>a. lives[id] \in Dialogues \cup {None} /\ mirrors[id] \in Dialogues \cup {None}
  BY <1>1 DEF DialogueOK
<1>b. Len(asked) \in Nat
  BY <1>1 DEF DialogueOK
<1>c. User!Used(lives[id]) \in User!Ids
  BY <1>1, <1>a DEF User!Used, DialogueOK, Dialogues, User!Ids
<1>d. old \subseteq Nat
  BY <1>a DEF Dialogues
<1>3. doc \in Dialogues /\ doc.turns = old \cup {n} /\ doc.app = User!Used(lives[id])
  BY <1>b, <1>c, <1>d DEF User!Document, Dialogues
<1>4. /\ asked' \in Seq(Askings) /\ Len(asked') = n
      /\ \A i \in 1 .. Len(asked) : asked'[i] = asked[i]
      /\ asked'[n] = [app |-> screen, day |-> today, via |-> via]
  BY <1>1, <1>2 DEF DialogueOK, Askings
<1>5. lives[id] # None => old = kept
  BY <1>1 DEF DialogueInv, Mirrored, MirrorTurns
<1>6. kept \subseteq 1 .. Len(asked)
  BY <1>1 DEF DialogueInv, OnlyAsked, MirrorTurns
<1> HIDE DEF id, n, doc
<1>7. \/ archived' = archived /\ kept \subseteq doc.turns
      \/ archived' = archived \cup {[id |-> id, turns |-> kept]} /\ doc.turns \cap kept = {}
  <2>1. CASE lives[id] # None
    BY <1>2, <1>3, <1>5, <2>1
  <2>2. CASE lives[id] = None
    <3>1. doc.turns \cap kept = {}
      BY <1>3, <1>6, <1>b, <2>2 DEF n
    <3>2. archived' = User!Preserved(id)
      BY <1>2, <2>2
    <3>3. CASE kept = {}
      BY <3>2, <3>3 DEF User!Preserved, MirrorTurns
    <3>4. CASE kept # {}
      BY <3>1, <3>2, <3>4 DEF User!Preserved, MirrorTurns
    <3> QED
      BY <3>3, <3>4
  <2> QED
    BY <2>1, <2>2
<1>8. doc.turns \ kept = {n} /\ {n} = 1 .. Len(asked') \ 1 .. Len(asked)
  BY <1>3, <1>4, <1>5, <1>6, <1>b DEF n
<1>9. Mirrored' /\ HeldOnce' /\ OnlyAsked' /\ OfItsApp'
  <2>1. \A i \in doc.turns \ kept : asked'[i].via = "reply" /\ asked'[i].app # Unknown => asked'[i].app = id
    BY <1>1, <1>4, <1>8
  <2>2. Len(asked) <= Len(asked')
    BY <1>4, <1>b DEF n
  <2>4. doc.turns \ kept = 1 .. Len(asked') \ 1 .. Len(asked)
    BY <1>8
  <2>5. id \in User!Ids /\ doc \in Dialogues /\ User!Save(id, doc) /\ asked' \in Seq(Askings)
    BY <1>1, <1>2, <1>3, <1>4
  <2>6. \A i \in 1 .. Len(asked) : asked'[i] = asked[i]
    BY <1>4
  <2> HIDE DEF old
  <2> QED
    BY <1>7, <2>1, <2>2, <2>4, <2>5, <2>6, SaveKeeps
<1>10. lives' = [lives EXCEPT ![id] = doc] /\ mirrors' = [mirrors EXCEPT ![id] = doc]
  BY <1>2 DEF User!Save
<1>11. DialogueOK'
  <2>1. kept \subseteq Nat
    BY <1>6
  <2>2. archived' \subseteq [id : User!Ids, turns : SUBSET Nat]
    <3>1. [id |-> id, turns |-> kept] \in [id : User!Ids, turns : SUBSET Nat]
      BY <1>1, <2>1
    <3>2. archived \subseteq [id : User!Ids, turns : SUBSET Nat]
      BY <1>1 DEF DialogueOK
    <3> QED
      BY <1>7, <3>1, <3>2
  <2> QED
    BY <1>1, <1>2, <1>3, <1>4, <1>10, <2>2 DEF DialogueOK
<1>12. LastUsed'
  <2> SUFFICES ASSUME NEW x \in User!Ids, lives'[x] # None, NEW i \in lives'[x].turns,
                      \A k \in lives'[x].turns : k <= i
               PROVE  asked'[i].app \in {lives'[x].app, Unknown}
    BY DEF LastUsed
  <2>1. CASE x = id
    <3>1. lives'[x] = doc
      BY <1>1, <1>10, <2>1 DEF DialogueOK
    <3>2. i = n
      <4>1. n \in doc.turns /\ n <= i
        BY <1>3, <3>1
      <4>2. i = n \/ i \in 1 .. Len(asked)
        BY <1>3, <1>5, <1>6, <3>1
      <4> QED
        BY <1>b, <4>1, <4>2 DEF n
    <3>3. screen = Unknown \/ screen = doc.app
      BY <1>3 DEF User!Used
    <3> QED
      BY <1>4, <3>1, <3>2, <3>3
  <2>2. CASE x # id
    <3>1. lives'[x] = lives[x] /\ lives[x] # None
      BY <1>10, <2>2
    <3>2. i \in 1 .. Len(asked)
      BY <3>1 DEF DialogueInv, OnlyAsked, Mirrored
    <3> QED
      BY <1>4, <3>1, <3>2 DEF DialogueInv, LastUsed
  <2> QED
    BY <2>1, <2>2
<1> QED
  BY <1>9, <1>11, <1>12 DEF DialogueInv

LEMMA NewChatKeeps == ASSUME DialogueInv, User!NewChat PROVE DialogueInv'
<1> USE ConversationsAssumption
<1> DEFINE doc == User!Document({}, lives[echo].app)
<1>1. /\ echo # None /\ lives[echo] # None /\ User!Save(echo, doc)
      /\ UNCHANGED <<screen, echo, today, asked>> /\ DialogueOK
      /\ archived' = IF lives[echo].turns = {} THEN archived
                     ELSE archived \cup {[id |-> echo, turns |-> lives[echo].turns]}
  BY DEF User!NewChat, DialogueInv
<1>2. /\ echo \in User!Ids /\ lives[echo] \in Dialogues
      /\ MirrorTurns(echo) = lives[echo].turns
  BY <1>1 DEF DialogueOK, DialogueInv, Mirrored, MirrorTurns
<1>3. doc \in Dialogues /\ doc.turns = {}
  BY <1>2 DEF User!Document, Dialogues
<1> HIDE DEF doc
<1>4. \/ archived' = archived /\ MirrorTurns(echo) \subseteq doc.turns
      \/ archived' = archived \cup {[id |-> echo, turns |-> MirrorTurns(echo)]}
         /\ doc.turns \cap MirrorTurns(echo) = {}
  BY <1>1, <1>2, <1>3
<1>5. Mirrored' /\ HeldOnce' /\ OnlyAsked' /\ OfItsApp'
  <2>1. /\ asked' \in Seq(Askings) /\ Len(asked) <= Len(asked')
        /\ \A n \in 1 .. Len(asked) : asked'[n] = asked[n]
    BY <1>1 DEF DialogueOK
  <2>2. doc.turns \ MirrorTurns(echo) = 1 .. Len(asked') \ 1 .. Len(asked)
    BY <1>1, <1>3
  <2>3. \A n \in doc.turns \ MirrorTurns(echo) :
          asked'[n].via = "reply" /\ asked'[n].app # Unknown => asked'[n].app = echo
    BY <1>3
  <2> QED
    BY <1>1, <1>2, <1>3, <1>4, <2>1, <2>2, <2>3, SaveKeeps
<1>6. lives' = [lives EXCEPT ![echo] = doc] /\ mirrors' = [mirrors EXCEPT ![echo] = doc]
  BY <1>1 DEF User!Save
<1>7. DialogueOK'
  <2>1. [id |-> echo, turns |-> lives[echo].turns] \in [id : User!Ids, turns : SUBSET Nat]
    BY <1>2 DEF Dialogues
  <2>2. archived' \subseteq [id : User!Ids, turns : SUBSET Nat]
    BY <1>1, <2>1 DEF DialogueOK
  <2> QED
    BY <1>1, <1>3, <1>6, <2>2 DEF DialogueOK
<1>8. LastUsed'
  BY <1>1, <1>3, <1>6 DEF DialogueInv, LastUsed
<1> QED
  BY <1>5, <1>7, <1>8 DEF DialogueInv

LEMMA DialogueNext == DialogueInv /\ [User!Next]_User!vars => DialogueInv'
<1> SUFFICES ASSUME DialogueInv, [User!Next]_User!vars PROVE DialogueInv'
  OBVIOUS
<1> USE ConversationsAssumption
<1>1. CASE User!Reply
  BY <1>1, AskKeeps DEF User!Reply
<1>2. CASE User!Stream
  BY <1>2, AskKeeps DEF User!Stream
<1>3. CASE User!NewChat
  BY <1>3, NewChatKeeps
<1>4. CASE User!Expire
  <2>1. PICK id \in User!Ids : lives' = [lives EXCEPT ![id] = None]
    BY <1>4 DEF User!Expire
  <2>2. UNCHANGED <<screen, echo, today, asked, mirrors, archived>>
    BY <1>4 DEF User!Expire
  <2> QED
    BY <2>1, <2>2 DEF DialogueInv, DialogueOK, Mirrored, HeldOnce, OnlyAsked, OfItsApp, LastUsed, Current
<1>5. CASE User!Switch \/ User!NextDay \/ UNCHANGED User!vars
  <2>1. /\ UNCHANGED <<asked, lives, mirrors, archived>>
        /\ screen' \in User!Ids /\ echo' \in User!Ids \cup {None} /\ today' \in Nat
    BY <1>5 DEF User!Switch, User!NextDay, User!vars, User!documents, DialogueInv, DialogueOK
  <2> QED
    BY <2>1 DEF DialogueInv, DialogueOK, Mirrored, HeldOnce, OnlyAsked, OfItsApp, LastUsed, Current
<1> QED
  BY <1>1, <1>2, <1>3, <1>4, <1>5 DEF User!Next

\* Counted by Conversations' own instance of FiniteSets.
LEMMA OneIsOne == ASSUME NEW x PROVE User!Cardinality({x}) = 1
<1>1. User!Cardinality({x}) = Cardinality({x})
  BY DEF User!Cardinality, Cardinality, User!IsFiniteSet, IsFiniteSet
<1> QED
  BY <1>1, FS_Singleton

\* A turn is in one record, whose key is its own.
LEMMA OneRecord ==
  ASSUME DialogueInv
  PROVE  /\ \A n \in 1 .. Len(asked) : \E r \in User!Records : n \in r.turns
         /\ \A r, s \in User!Records : (\E n : n \in r.turns /\ n \in s.turns) \/ r.key = s.key => r = s
         /\ \A r \in User!Records : r.turns \subseteq 1 .. Len(asked)
         /\ \A n \in 1 .. Len(asked), r \in User!Records :
              n \in r.turns /\ asked[n].via = "reply" /\ asked[n].app # Unknown => r.id = asked[n].app
<1> DEFINE cur(id) == [key |-> <<"current", id>>, id |-> id, turns |-> mirrors[id].turns]
           arc(a)  == [key |-> <<"archive", a>>, id |-> a.id, turns |-> a.turns]
<1>1. /\ \A id \in User!Ids : mirrors[id] # None => cur(id) \in User!Records
      /\ \A a \in archived : arc(a) \in User!Records
      /\ \A r \in User!Records : \/ \E id \in User!Ids : mirrors[id] # None /\ r = cur(id)
                                 \/ \E a \in archived : r = arc(a)
  BY DEF User!Records
<1>2. /\ \A id \in User!Ids : cur(id).key = <<"current", id>> /\ cur(id).id = id /\ cur(id).turns = mirrors[id].turns
      /\ \A a \in archived : arc(a).key = <<"archive", a>> /\ arc(a).id = a.id /\ arc(a).turns = a.turns
  OBVIOUS
<1>3. \A id, a : <<"current", id>> # <<"archive", a>>
  OBVIOUS
<1> HIDE DEF cur, arc
<1>4. \A n \in 1 .. Len(asked) : \E r \in User!Records : n \in r.turns
  BY <1>1, <1>2 DEF DialogueInv, HeldOnce, Current
<1>5. ASSUME NEW r \in User!Records, NEW s \in User!Records,
             (\E n : n \in r.turns /\ n \in s.turns) \/ r.key = s.key
      PROVE  r = s
  <2>1. CASE \E x, y \in User!Ids : /\ mirrors[x] # None /\ r = cur(x)
                                    /\ mirrors[y] # None /\ s = cur(y)
    BY <1>2, <1>5, <2>1 DEF DialogueInv, HeldOnce, Current
  <2>2. CASE \E a, b \in archived : r = arc(a) /\ s = arc(b)
    BY <1>2, <1>5, <2>2 DEF DialogueInv, HeldOnce
  <2>3. CASE \E x \in User!Ids, a \in archived :
               mirrors[x] # None /\ {r, s} = {cur(x), arc(a)}
    <3>1. PICK x \in User!Ids, a \in archived : mirrors[x] # None /\ {r, s} = {cur(x), arc(a)}
      BY <2>3
    <3>2. \/ r = s
          \/ r = cur(x) /\ s = arc(a)
          \/ r = arc(a) /\ s = cur(x)
      BY <3>1
    <3>3. cur(x).key # arc(a).key /\ \A n : ~ (n \in cur(x).turns /\ n \in arc(a).turns)
      BY <1>2, <1>3, <3>1 DEF DialogueInv, HeldOnce, Current
    <3> QED
      BY <1>5, <3>2, <3>3
  <2> QED
    BY <1>1, <2>1, <2>2, <2>3
<1>6. \A r \in User!Records : r.turns \subseteq 1 .. Len(asked)
  BY <1>1, <1>2 DEF DialogueInv, OnlyAsked
<1>7. \A n \in 1 .. Len(asked), r \in User!Records :
        n \in r.turns /\ asked[n].via = "reply" /\ asked[n].app # Unknown => r.id = asked[n].app
  BY <1>1, <1>2 DEF DialogueInv, OfItsApp, Current
<1> QED
  BY <1>4, <1>5, <1>6, <1>7

\* An entry of a record holds the record's turns of one day, under the record's key.
LEMMA EntryShape ==
  ASSUME NEW r, NEW e \in User!Entries(r)
  PROVE  /\ e.key = r.key /\ e.turns = User!OfDay(r.turns, e.day)
         /\ \A n \in e.turns :
              /\ n \in r.turns
              /\ e = [key |-> r.key, day |-> asked[n].day, turns |-> User!OfDay(r.turns, asked[n].day)]
<1>1. CASE r.turns = {}
  <2>1. e = [key |-> r.key, day |-> today, turns |-> {}]
    BY <1>1 DEF User!Entries
  <2>2. User!OfDay(r.turns, e.day) = {}
    BY <1>1 DEF User!OfDay
  <2> QED
    BY <2>1, <2>2
<1>2. CASE r.turns # {}
  <2>1. PICK d : e = [key |-> r.key, day |-> d, turns |-> User!OfDay(r.turns, d)]
    BY <1>2 DEF User!Entries
  <2>2. \A n \in e.turns : n \in r.turns /\ asked[n].day = d
    BY <2>1 DEF User!OfDay
  <2> QED
    BY <2>1, <2>2
<1> QED
  BY <1>1, <1>2

LEMMA ListedOnce ==
  ASSUME DialogueInv, NEW n \in 1 .. Len(asked)
  PROVE  \E e : {x \in User!ListHistory("all") : n \in x.turns} = {e}
<1>1. PICK r \in User!Records : n \in r.turns
  BY OneRecord
<1> DEFINE e == [key |-> r.key, day |-> asked[n].day, turns |-> User!OfDay(r.turns, asked[n].day)]
<1>2. e \in User!Entries(r) /\ n \in e.turns
  BY <1>1 DEF User!Entries, User!OfDay
<1>3. e \in User!ListHistory("all")
  BY <1>2 DEF User!ListHistory
<1>4. ASSUME NEW x \in User!ListHistory("all"), n \in x.turns PROVE x = e
  <2>1. PICK s \in User!Records : x \in User!Entries(s)
    BY DEF User!ListHistory
  <2>2. n \in s.turns /\ x = [key |-> s.key, day |-> asked[n].day, turns |-> User!OfDay(s.turns, asked[n].day)]
    BY <1>4, <2>1, EntryShape
  <2>3. s = r
    BY <1>1, <2>2, OneRecord
  <2> QED
    BY <2>2, <2>3
<1> HIDE DEF e
<1> QED
  BY <1>2, <1>3, <1>4

LEMMA HistoryExact == DialogueInv => User!HistoryIsExact
<1> SUFFICES ASSUME DialogueInv PROVE User!HistoryIsExact
  OBVIOUS
<1>1. User!Turns = 1 .. Len(asked)
  BY DEF User!Turns, DialogueInv, DialogueOK
<1>2. \A n \in 1 .. Len(asked) : User!Cardinality({e \in User!ListHistory("all") : n \in e.turns}) = 1
  BY ListedOnce, OneIsOne
<1>3. ASSUME NEW n \in 1 .. Len(asked), asked[n].via = "reply"
      PROVE  \E e \in User!History(asked[n].app) : n \in e.turns
  <2>1. PICK r \in User!Records : n \in r.turns
    BY OneRecord
  <2> DEFINE e == [key |-> r.key, day |-> asked[n].day, turns |-> User!OfDay(r.turns, asked[n].day)]
  <2>2. e \in User!Entries(r) /\ n \in e.turns
    BY <2>1 DEF User!Entries, User!OfDay
  <2>3. asked[n].app # Unknown => r.id = asked[n].app
    BY <1>3, <2>1, OneRecord
  <2>4. e \in User!History(asked[n].app)
    BY <2>2, <2>3 DEF User!History, User!ListHistory
  <2> QED
    BY <2>2, <2>4
<1>4. ASSUME NEW e \in User!ListHistory("all") PROVE User!Detail(e) = e.turns
  <2>1. PICK r \in User!Records : e \in User!Entries(r)
    BY DEF User!ListHistory
  <2>2. e.key = r.key /\ e.turns = User!OfDay(r.turns, e.day)
    BY <2>1, EntryShape
  <2>3. (CHOOSE s \in User!Records : s.key = e.key) = r
    BY <2>2, OneRecord
  <2> QED
    BY <2>2, <2>3 DEF User!Detail
<1> QED
  BY <1>1, <1>2, <1>3, <1>4 DEF User!HistoryIsExact

LEMMA HintStays == DialogueInv => User!ResumeStaysInApp
<1> SUFFICES ASSUME DialogueInv, NEW a \in Apps, User!Hint(a) # None
             PROVE  asked[User!Hint(a)].app \in {a, Unknown}
  BY DEF User!ResumeStaysInApp
<1> DEFINE offered == {id \in User!Ids : lives[id] # None /\ lives[id].turns # {}
                                      /\ (a = Unknown \/ lives[id].app = a)}
           newest == {User!Max(lives[id].turns) : id \in offered}
<1>1. offered # {} /\ User!Hint(a) = User!Max(newest)
  BY DEF User!Hint
<1>2. Len(asked) \in Nat
  BY DEF DialogueInv, DialogueOK
<1>3. ASSUME NEW id \in offered
      PROVE  /\ User!Max(lives[id].turns) \in 1 .. Len(asked)
             /\ asked[User!Max(lives[id].turns)].app \in {a, Unknown}
  <2>1. /\ id \in User!Ids /\ lives[id] # None /\ lives[id].turns # {}
        /\ lives[id].app = a /\ lives[id].turns \subseteq 1 .. Len(asked)
    BY ConversationsAssumption DEF DialogueInv, OnlyAsked, Mirrored
  <2>2. /\ User!Max(lives[id].turns) \in lives[id].turns
        /\ \A y \in lives[id].turns : y <= User!Max(lives[id].turns)
    BY <1>2, <2>1, LargestIsLargest
  <2> QED
    BY <2>1, <2>2 DEF DialogueInv, LastUsed
<1> HIDE DEF offered
<1>4. newest \subseteq 1 .. Len(asked) /\ newest # {}
  BY <1>1, <1>3
<1>5. User!Max(newest) \in newest
  BY <1>2, <1>4, LargestIsLargest
<1> QED
  BY <1>1, <1>3, <1>5

\* agent_history lists each answered turn once, of its own application, as it opens; and
\* _resume_hint offers what was asked in the module the user is in.
THEOREM HistoriesAreTrue == User!Spec => []HistoryIsOfItsApp
<1>1. DialogueInv => HistoryIsOfItsApp
  BY HistoryExact, HintStays DEF HistoryIsOfItsApp
<1> QED
  BY <1>1, DialogueInit, DialogueNext, PTL DEF User!Spec
====
