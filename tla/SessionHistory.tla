---------------------------- MODULE SessionHistory ----------------------------
(***************************************************************************)
(* The durability of conversations (services/session_service.py over the   *)
(* store of connections.py): the LIVE session with its time to live, the   *)
(* mirror of it that is kept for good, and the append-only archives of the *)
(* conversations that a new chat or an expiry replaced.                    *)
(*                                                                         *)
(* One session id, at the grain of single store operations: a save is two  *)
(* writes, a new session up to five operations, and workers interleave     *)
(* between them.  A conversation is the set of turns its messages belong   *)
(* to; ChatSession has the rest of the session.  A failed write of the     *)
(* mirror or of an archive is logged and passed over; a failed write of    *)
(* the live document ends the request (Crash).                             *)
(***************************************************************************)
EXTENDS Naturals

CONSTANTS
  Requests,   \* the requests of one behaviour, each used once
  Serial,     \* TRUE: a request is sent only when none is open
  Faults,     \* which of "crash", "read_fails", "write_fails" may happen
  None        \* absence: no such document

ASSUME HistoryAssumption ==
  /\ Serial \in BOOLEAN
  /\ Faults \subseteq {"crash", "read_fails", "write_fails"}
  /\ \A c \in SUBSET Requests : c # None

VARIABLES
  live,      \* session:<id>, with a time to live
  mirror,    \* history:<id>
  archives,  \* the documents history:<id>:<ms>
  pc, job,   \* where a request stands, and what it is doing
  copy,      \* the conversation a request is about to save
  held,      \* the conversation a request is about to archive
  answered,  \* turns whose reply was saved
  cleared,   \* turns a completed new chat has put away
  missed,    \* turns of which the last write to keep them, or the read it is of, failed
  behind     \* a save was cut off before its mirror, and none has completed since

vars == <<live, mirror, archives, pc, job, copy, held, answered, cleared, missed, behind>>

-----------------------------------------------------------------------------
Stages == {"idle", "get", "peek", "archive", "live", "mirror", "done", "dead"}
Jobs   == {"turn", "clear", "create", "message", "reply"}

TypeOK ==
  /\ live \in {None} \cup SUBSET Requests
  /\ mirror \in {None} \cup SUBSET Requests
  /\ archives \subseteq SUBSET Requests
  /\ pc \in [Requests -> Stages]
  /\ job \in [Requests -> Jobs]
  /\ copy \in [Requests -> SUBSET Requests]
  /\ held \in [Requests -> SUBSET Requests]
  /\ answered \subseteq Requests
  /\ cleared \subseteq Requests
  /\ missed \subseteq Requests
  /\ behind \in BOOLEAN

Init ==
  /\ live = None
  /\ mirror = None
  /\ archives = {}
  /\ pc = [r \in Requests |-> "idle"]
  /\ job = [r \in Requests |-> "turn"]
  /\ copy = [r \in Requests |-> {}]
  /\ held = [r \in Requests |-> {}]
  /\ answered = {}
  /\ cleared = {}
  /\ missed = {}
  /\ behind = FALSE

Open(r)  == pc[r] \notin {"idle", "done", "dead"}
store    == <<live, mirror, archives>>
ghosts   == <<answered, cleared>>
failures == <<missed, behind>>

\* Request r goes to a stage with job j, conversation c to save and h to archive.
Go(r, stage, j, c, h) ==
  /\ pc' = [pc EXCEPT ![r] = stage]
  /\ job' = [job EXCEPT ![r] = j]
  /\ copy' = [copy EXCEPT ![r] = c]
  /\ held' = [held EXCEPT ![r] = h]

Done(r) == Go(r, "done", job[r], {}, {})

TurnsIn(document) == IF document = None THEN {} ELSE document

\* A read of a document; the store's client answers "no such document" to any error.
Reads(document) == {document} \cup (IF "read_fails" \in Faults THEN {None} ELSE {})

-----------------------------------------------------------------------------
Send(r) ==
  /\ pc[r] = "idle"
  /\ Serial => \A q \in Requests : ~Open(q)
  /\ \E j \in {"turn", "clear"} : Go(r, "get", j, {}, {})
  /\ UNCHANGED <<store, ghosts, failures>>

\* get_or_create of a turn: a session that exists is extended and saved.
GetForTurn(r) ==
  /\ pc[r] = "get"
  /\ job[r] = "turn"
  /\ \E s \in Reads(live) :
       IF s = None THEN Go(r, "peek", "create", {}, {})
                   ELSE Go(r, "live", "message", s \cup {r}, {})
  /\ UNCHANGED <<store, ghosts, failures>>

\* Mutant of Peek: a new session overwrites the mirror unseen.
PeekNothing(r) ==
  /\ pc[r] = "peek"
  /\ Go(r, "live", "create", {}, {})
  /\ UNCHANGED <<store, ghosts, failures>>

\* _archive_live_history: what the mirror holds will be overwritten, so it is archived.
Peek(r) ==
  /\ pc[r] = "peek"
  /\ \E m \in Reads(mirror) :
       /\ IF m \in {None, {}} THEN Go(r, "live", "create", {}, {})
                              ELSE Go(r, "archive", "create", {}, m)
       /\ missed' = IF m = None THEN missed \cup TurnsIn(mirror) ELSE missed
  /\ UNCHANGED <<store, ghosts, behind>>

\* Mutant of GetForClear: the conversation is cleared in place.
ClearInPlace(r) ==
  /\ pc[r] = "get"
  /\ job[r] = "clear"
  /\ \E s \in Reads(live) :
       IF s = None THEN Done(r) ELSE Go(r, "live", "clear", {}, s)
  /\ UNCHANGED <<store, ghosts, failures>>

\* clear_messages: nothing to clear, nothing to archive, or the conversation is archived.
GetForClear(r) ==
  /\ pc[r] = "get"
  /\ job[r] = "clear"
  /\ \E s \in Reads(live) :
       CASE s = None -> Done(r)
         [] s = {}   -> Go(r, "live", "clear", {}, {})
         [] OTHER    -> Go(r, "archive", "clear", {}, s)
  /\ UNCHANGED <<store, ghosts, failures>>

\* The archive is written, or the write fails.
SetArchive(r) ==
  \/ archives' = archives \cup {held[r]} /\ missed' = missed \ held[r]
  \/ "write_fails" \in Faults /\ UNCHANGED archives /\ missed' = missed \cup held[r]

\* Mutant of Archive: what was archived is saved again.
ArchiveOnly(r) ==
  /\ pc[r] = "archive"
  /\ SetArchive(r)
  /\ Go(r, "live", job[r], held[r], held[r])
  /\ UNCHANGED <<live, mirror, ghosts, behind>>

\* The request goes on whether its archive was written or not.
Archive(r) ==
  /\ pc[r] = "archive"
  /\ SetArchive(r)
  /\ Go(r, "live", job[r], {}, held[r])
  /\ UNCHANGED <<live, mirror, ghosts, behind>>

\* save: the live document first ...
SetLive(r) ==
  /\ pc[r] = "live"
  /\ live' = copy[r]
  /\ Go(r, "mirror", job[r], copy[r], held[r])
  /\ UNCHANGED <<mirror, archives, ghosts, failures>>

\* ... then the mirror, of which a failure is passed over.  A created session takes the message, a message its reply.
SetMirror(r) ==
  /\ pc[r] = "mirror"
  /\ \/ mirror' = copy[r] /\ missed' = missed \ copy[r] /\ behind' = FALSE
     \/ "write_fails" \in Faults /\ UNCHANGED mirror /\ missed' = missed \cup copy[r] /\ behind' = TRUE
  /\ CASE job[r] = "create"  -> Go(r, "live", "message", {r}, {}) /\ UNCHANGED ghosts
       [] job[r] = "message" -> Go(r, "live", "reply", copy[r], {}) /\ UNCHANGED ghosts
       [] job[r] = "reply"   -> Done(r) /\ answered' = answered \cup {r} /\ UNCHANGED cleared
       [] job[r] = "clear"   -> Done(r) /\ cleared' = cleared \cup held[r] /\ UNCHANGED answered
  /\ UNCHANGED <<live, archives>>

\* The time to live runs out, or session_service.delete is called: only the live document goes.
Expire ==
  /\ live # None
  /\ live' = None
  /\ UNCHANGED <<mirror, archives, pc, job, copy, held, ghosts, failures>>

\* The worker dies, or the store raises, between two store operations.
Crash(r) ==
  /\ "crash" \in Faults
  /\ Open(r)
  /\ Go(r, "dead", job[r], {}, {})
  /\ behind' = (behind \/ pc[r] = "mirror")
  /\ UNCHANGED <<store, ghosts, missed>>

Next ==
  \/ Expire
  \/ \E r \in Requests :
       \/ Send(r) \/ GetForTurn(r) \/ GetForClear(r) \/ Peek(r) \/ Archive(r)
       \/ SetLive(r) \/ SetMirror(r) \/ Crash(r)

Spec == Init /\ [][Next]_vars

-----------------------------------------------------------------------------
(* Properties.                                                             *)

Durable == TurnsIn(mirror) \cup UNION archives

\* "so prior conversations are never lost": an answered turn is in a document without a
\* time to live, whatever expired, was cleared or died since, unless the last write that was
\* to keep it there failed, or the read of what was to be written.
NothingLost == answered \ missed \subseteq Durable

\* What the durable documents hold together never shrinks: no single write may drop a
\* turn, not even for the moment until the next one, but one it failed to archive before.
DurableGrows == [][Durable \subseteq Durable' \cup missed']_vars

\* history:<id> is "the latest state of the CURRENT conversation (refreshed each save)":
\* it is the live session's, but between the two writes of a save and after one that was cut
\* off there, until the next completes.
MirrorIsLatest ==
  live # None /\ mirror # live => behind \/ \E r \in Requests : pc[r] = "mirror"

\* New chat "clear[s] the live session, so each chat becomes a distinct, reopenable
\* entry": what it put away does not come back into the live session.
ClearedStaysCleared == live # None => cleared \cap live = {}

\* save and clear_messages: the mirror is the live session unless a save was cut off, and a
\* conversation that was put away does not come back.
MirrorKeepsUp == MirrorIsLatest /\ ClearedStaysCleared
====
