---------------------------- MODULE Conversations ----------------------------
(***************************************************************************)
(* One user's conversations over the applications of the platform: which   *)
(* session a turn goes to (routers/platform.py), what the recent history   *)
(* lists and reopens, and what the widget offers to resume (with           *)
(* services/session_service.py).                                           *)
(*                                                                         *)
(* A request is one step (SessionHistory has a save's interleavings) and   *)
(* ends answered on the day it was sent.  A conversation is the set of the *)
(* turns it holds, which are numbered in the order they were asked.        *)
(***************************************************************************)
EXTENDS Naturals, Sequences, FiniteSetsExt

CONSTANTS
  Apps,       \* application codes, none of which starts with another
  Unknown,    \* the application of a request that names none
  MaxAsks,    \* bound: turns of one behaviour
  MaxDay,     \* bound: days of one behaviour
  None        \* absence: no document, no session id

VARIABLES
  screen,    \* the application the widget is open in
  echo,      \* the session id the widget sends back
  today,
  asked,     \* each turn's application, day and endpoint
  live,      \* session:<id>, with a time to live
  mirror,    \* history:<id>
  archives   \* the documents history:<id>:<ms>

documents == <<live, mirror, archives>>
vars      == <<screen, echo, today, asked, documents>>

-----------------------------------------------------------------------------
\* _session_base: <agent>:<user>:<app>, without the last part where it is unknown.
Ids   == Apps \cup {Unknown}
Turns == DOMAIN asked

\* Messages, and the application the session was last used in (metadata["app"]).
Document(turns, app) == [turns |-> turns, app |-> app]

Init ==
  /\ screen \in Ids
  /\ echo = None
  /\ today = 1
  /\ asked = <<>>
  /\ live = [id \in Ids |-> None]
  /\ mirror = [id \in Ids |-> None]
  /\ archives = {}

\* SessionService.save
Save(id, document) ==
  /\ live' = [live EXCEPT ![id] = document]
  /\ mirror' = [mirror EXCEPT ![id] = document]

\* Mutant of Preserved: the mirror is overwritten unseen.
PreservedNothing(id) == archives

\* The archives once a session id has a new, empty session (_archive_live_history).
Preserved(id) ==
  IF mirror[id] # None /\ mirror[id].turns # {}
  THEN archives \cup {[id |-> id, turns |-> mirror[id].turns]} ELSE archives

-----------------------------------------------------------------------------
(* Requests.                                                               *)

\* The session of a turn.  agent_reply honours the echoed id "only when it belongs to THIS
\* (user, app) base", which every id of the user does when the application is unknown;
\* agent_reply_stream takes it as it is, and knows no application.
SessionOf(via) ==
  CASE via = "stream" -> IF echo # None THEN echo ELSE Unknown
    [] via = "reply"  -> IF echo # None /\ screen \in {echo, Unknown} THEN echo ELSE screen

\* metadata["app"] after a turn: the application of the request, if it names one.
Used(document) ==
  IF screen # Unknown THEN screen ELSE IF document = None THEN Unknown ELSE document.app

Ask(via) ==
  /\ Len(asked) < MaxAsks
  /\ asked' = Append(asked, [app |-> screen, day |-> today, via |-> via])
  /\ LET id  == SessionOf(via)
         old == IF live[id] = None THEN {} ELSE live[id].turns
     IN  /\ archives' = IF live[id] = None THEN Preserved(id) ELSE archives
         /\ Save(id, Document(old \cup {Len(asked) + 1}, Used(live[id])))
         /\ echo' = id
  /\ UNCHANGED <<screen, today>>

Reply  == Ask("reply")    \* agent_reply
Stream == Ask("stream")   \* agent_reply_stream

\* agent_history_new: the named session, if it is live, is archived and emptied.
NewChat ==
  /\ echo # None
  /\ live[echo] # None
  /\ archives' = IF live[echo].turns = {} THEN archives
                 ELSE archives \cup {[id |-> echo, turns |-> live[echo].turns]}
  /\ Save(echo, Document({}, live[echo].app))
  /\ UNCHANGED <<screen, echo, today, asked>>

\* The user goes to another application; the widget may keep its session id.
Switch ==
  /\ \E a \in Ids \ {screen} : screen' = a
  /\ echo' \in {echo, None}
  /\ UNCHANGED <<today, asked, documents>>

\* The time to live runs out, or the session is deleted.
Expire ==
  /\ \E id \in Ids : live[id] # None /\ live' = [live EXCEPT ![id] = None]
  /\ UNCHANGED <<screen, echo, today, asked, mirror, archives>>

NextDay ==
  /\ today < MaxDay
  /\ today' = today + 1
  /\ UNCHANGED <<screen, echo, asked, documents>>

Next == Reply \/ Stream \/ NewChat \/ Switch \/ Expire \/ NextDay

Spec == Init /\ [][Next]_vars

-----------------------------------------------------------------------------
(* Reads, answered from the documents of the moment.                       *)

\* Every history:* document under its key.
Records ==
  {[key |-> <<"current", id>>, id |-> id, turns |-> mirror[id].turns] :
     id \in {i \in Ids : mirror[i] # None}}
  \cup {[key |-> <<"archive", a>>, id |-> a.id, turns |-> a.turns] : a \in archives}

OfDay(turns, day) == {n \in turns : asked[n].day = day}

\* A record's entries: one for each day it has messages of, one when it is empty.
Entries(record) ==
  IF record.turns = {} THEN {[key |-> record.key, day |-> today, turns |-> {}]}
  ELSE {[key |-> record.key, day |-> d, turns |-> OfDay(record.turns, d)] :
          d \in {asked[n].day : n \in record.turns}}

\* list_history, of one conversation base or of all of them (agent_history, its scope).
ListHistory(scope) == UNION {Entries(r) : r \in {x \in Records : scope = "all" \/ x.id = scope}}

\* agent_history is scoped to the application where it is known.
History(app) == ListHistory(IF app = Unknown THEN "all" ELSE app)

\* get_history_detail: the record of the key, that day's messages of it.
Detail(entry) ==
  OfDay((CHOOSE r \in Records : r.key = entry.key).turns, entry.day)

\* _resume_hint: the last question of the newest live session that was last used in the
\* module and holds a question; of any module where it is unknown.
Hint(module) ==
  LET held == {id \in Ids : live[id] # None /\ live[id].turns # {}
                            /\ (module = Unknown \/ live[id].app = module)}
  IN  IF held = {} THEN None ELSE Max({Max(live[id].turns) : id \in held})

-----------------------------------------------------------------------------
(* Properties.                                                             *)

\* agent_history: "Durable conversation history ... persists across page reloads and the
\* live-session TTL".  Whatever was switched, cleared and expired, each turn is in exactly
\* one entry of the cross-application history, a turn sent to agent_reply from a known
\* application in that application's own, and an entry opens as it was listed.
HistoryIsExact ==
  /\ \A n \in Turns : Cardinality({e \in ListHistory("all") : n \in e.turns}) = 1
  /\ \A n \in Turns : asked[n].via = "reply" =>
       \E e \in History(asked[n].app) : n \in e.turns
  /\ \A e \in ListHistory("all") : Detail(e) = e.turns

\* _resume_hint: "the hint never surfaces a Formulation topic while the caller is in Smart
\* Hub", also from a session that was used in both.
ResumeStaysInApp ==
  \A a \in Apps : Hint(a) # None => asked[Hint(a)].app \in {a, Unknown}
====
