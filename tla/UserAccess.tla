------------------------------ MODULE UserAccess ------------------------------
(***************************************************************************)
(* What a confirmed card about a user's access does: the skills of         *)
(* services/skills.py that assign, change, edit and remove application     *)
(* roles, the name-to-row resolution of mcp/tool_registry.py, and the      *)
(* chain of services/chat_service.py that removes a whole application.     *)
(*                                                                         *)
(* A card holds names, and may hold ids of rows too.  Names are resolved   *)
(* to rows of the platform when the card's tool is executed, with a read   *)
(* of the user's assignments, and ids are taken as they are; the call that *)
(* follows acts on what was found.  Several confirms, of one user *)
(* or of several, may be between their read and their call at a time.      *)
(***************************************************************************)
EXTENDS Naturals, Sequences, FiniteSets, Functions

CONSTANTS
  Users, Apps,
  Roles,       \* what the platform calls the roles; every application offers them all
  Words,       \* what users call them
  RoleNamed,   \* the role each word is the name of
  Covers,      \* <<word, role>>: one contains the other (_norm_label and "in")
  Ids,         \* ids of rows that the model may put on a card
  Requests,    \* confirms, each used once
  Granted,     \* the rows at first
  Locks,       \* whether the platform refuses a row whose versionNumber is old
  Faults,      \* which of "read_fails", "refused", "leaves" may happen
  None         \* absence: no row, no card, nothing identified, a field of a row not set

\* Of the flags of a row there are two that default differently (isFavourite is as isDefault).
Row == [user : Users, app : Apps, role : Roles, enabled : {"Y", "N", None}, default : {"Y", "N", None}]

ASSUME AccessAssumption ==
  /\ Ids \subseteq Nat
  /\ RoleNamed \in [Words -> Roles]
  /\ Covers \subseteq Words \X Roles
  /\ \A w \in Words : <<w, RoleNamed[w]>> \in Covers
  /\ Granted \in Seq(Row)
  /\ Locks \in BOOLEAN
  /\ Faults \subseteq {"read_fails", "refused", "leaves"}

VARIABLES
  rows,    \* the platform's user-application-roles by userApplicationRoleId; None: deleted
  held,    \* its user-applications: <<user, application>>
  card,    \* the card each request confirmed
  pc,      \* "idle", "sending", "chain", then "done", "refused" or "left"
  body,    \* what the request's next call asks for
  clean    \* history: neither a fault nor another request has come in the way

platform == <<rows, held>>
vars     == <<platform, card, pc, body, clean>>

-----------------------------------------------------------------------------
Flags == {"make_default", "enable", "disable"}

NewRow(u, a, role) == [user |-> u, app |-> a, role |-> role, enabled |-> "Y", default |-> "N"]

\* The arguments the model collected; from, action and ids only where the tool knows them.
Card(skills, words, froms, actions, ids) ==
  [skill : skills, user : Users, app : Apps, role : words, from : froms, action : actions, ids : ids]

\* The names are required.  change_role's schema does not show the action and edit_access's
\* does, and the schemas of the removals show no ids; nothing of that is enforced, by_tool
\* finds change_role's required fields for both, and the tools take what they are given.
Cards ==
  Card({"assign_access"}, Words, {None}, {None}, {{}})
  \cup Card({"remove_access"}, Words, {None}, {None}, {{}} \cup {{i} : i \in Ids})
  \cup Card({"remove_application"}, {None}, {None}, {None}, SUBSET Ids)
  \cup Card({"change_role"}, Words, Words \cup {None}, {"change_role", None}, {{}})
  \cup Card({"edit_access"}, Words, {None}, Flags \cup {None}, {{}})

\* What a request asks of the platform.
Calls == [op : {"create"}, role : Roles] \cup [op : {"delete"}, ids : SUBSET Nat]
         \cup [op : {"put"}, id : Nat, was : Row, row : Row] \cup [op : {"parent"}]

ASSUME NoneAssumption == None \notin Row \cup Cards \cup Calls

Init ==
  /\ rows = Granted
  /\ held = {<<g.user, g.app>> : g \in Range(Granted)}
  /\ card = [r \in Requests |-> None]
  /\ pc = [r \in Requests |-> "idle"]
  /\ body = [r \in Requests |-> None]
  /\ clean = [r \in Requests |-> TRUE]

Here(r) == <<card[r].user, card[r].app>>

RowsOf(u, a) == {i \in DOMAIN rows : rows[i] # None /\ rows[i].user = u /\ rows[i].app = a}

\* Mutant of Views: an application that is not resolved matches any.
ViewsUnscoped(u, a) ==
  {[ids |-> RowsOf(u, a), ok |-> TRUE]}
  \cup {[ids |-> UNION {RowsOf(u, b) : b \in Apps}, ok |-> FALSE] : f \in Faults \cap {"read_fails"}}

\* What a request may read of the user's rows in the application: when the assignments, or
\* the map of applications, cannot be read, none matches.
Views(u, a) ==
  {[ids |-> RowsOf(u, a), ok |-> TRUE]}
  \cup {[ids |-> {}, ok |-> FALSE] : f \in Faults \cap {"read_fails"}}

Covered(ids, word) == {i \in ids : <<word, rows[i].role>> \in Covers}

\* The first that matches, in an order that is the platform's: one of them, or none.
FirstOf(S) == IF S = {} THEN {None} ELSE S

\* _resolve_role_id: a role of the application; none when the application is not resolved.
RoleIds(word, ok) == IF ok THEN FirstOf({role \in Roles : <<word, role>> \in Covers}) ELSE {None}

-----------------------------------------------------------------------------
(* Confirm: the card's names are resolved.  The call that follows asks for  *)
(* a row to be created, rows to be deleted, a row to be replaced (of which  *)
(* the version read goes along), or, when nothing was identified, nothing.  *)

Create(role)     == [op |-> "create", role |-> role]
Delete(ids)      == [op |-> "delete", ids |-> ids]
Put(i, new)      == [op |-> "put", id |-> i, was |-> rows[i], row |-> new]
DeleteParent     == [op |-> "parent"]

Resolved(r, c, b, ok) ==
  /\ pc' = [pc EXCEPT ![r] = "sending"]
  /\ card' = [card EXCEPT ![r] = c]
  /\ body' = [body EXCEPT ![r] = b]
  /\ clean' = [clean EXCEPT ![r] = ok]
  /\ UNCHANGED platform

\* _resolve_user_id, _resolve_role_id
Assign(r, c) ==
  /\ c.skill = "assign_access"
  /\ \E v \in Views(c.user, c.app) : \E role \in RoleIds(c.role, v.ok) :
       Resolved(r, c, IF role = None THEN None ELSE Create(role), v.ok)

\* An id of no row is refused by the platform, as that of a row that is gone is.
ById(r, c) ==
  /\ c.ids # {} /\ c.ids \subseteq DOMAIN rows
  /\ Resolved(r, c, Delete(c.ids), TRUE)

\* _resolve_user_app_role_id
Unassign(r, c) ==
  /\ c.skill = "remove_access"
  /\ c.ids = {}
  /\ \E v \in Views(c.user, c.app) : \E i \in FirstOf(Covered(v.ids, c.role)) :
       Resolved(r, c, IF i = None THEN None ELSE Delete({i}), v.ok)

\* Mutant of RemoveApplication: the application first.
RemoveParentFirst(r, c) ==
  /\ c.skill = "remove_application"
  /\ c.ids = {}
  /\ \E v \in Views(c.user, c.app) : Resolved(r, c, DeleteParent, v.ok)

\* _resolve_user_application_role_ids: all of them, perhaps none.
RemoveApplication(r, c) ==
  /\ c.skill = "remove_application"
  /\ c.ids = {}
  /\ \E v \in Views(c.user, c.app) : Resolved(r, c, Delete(v.ids), v.ok)

\* A PUT replaces the whole row: the resolvers copy what they read, and send a default for a
\* flag that is not set.
Unset == [enabled |-> "Y", default |-> "N"]

Copied(row) ==
  [row EXCEPT !.enabled = IF @ = None THEN Unset.enabled ELSE @,
              !.default = IF @ = None THEN Unset.default ELSE @]

\* _resolve_change_role: the user's only row there, or the only one covered by the role it
\* is to be changed from.  It is reached by the action the model gave; the skill's default
\* for the action is filled in after it.
ChangeRole(r, c) ==
  /\ c.skill = "change_role"
  /\ \E v \in Views(c.user, c.app) : \E role \in RoleIds(c.role, v.ok) :
       LET found == IF c.from # None /\ Cardinality(v.ids) > 1 THEN Covered(v.ids, c.from) ELSE v.ids
       IN  IF c.action = "change_role" /\ Cardinality(found) = 1 /\ role # None
           THEN \E i \in found : Resolved(r, c, Put(i, [Copied(rows[i]) EXCEPT !.role = role]), v.ok)
           ELSE Resolved(r, c, None, v.ok)

Flagged(row, action) ==
  CASE action = "make_default" -> [row EXCEPT !.default = "Y"]
    [] action = "enable"       -> [row EXCEPT !.enabled = "Y"]
    [] action = "disable"      -> [row EXCEPT !.enabled = "N"]

\* _resolve_edit_user_app_role
EditAccess(r, c) ==
  /\ c.skill = "edit_access"
  /\ \E v \in Views(c.user, c.app) : \E i \in FirstOf(Covered(v.ids, c.role)) :
       Resolved(r, c, IF i = None \/ c.action = None THEN None
                      ELSE Put(i, Flagged(Copied(rows[i]), c.action)), v.ok)

-----------------------------------------------------------------------------
(* The call, and the platform's answer.                                    *)

\* What the platform can do: a row that is there, in the version that was read if it
\* locks; an application only without roles; nothing for a call that names no row.
Possible(r) ==
  /\ body[r] # None
  /\ CASE body[r].op = "create" -> TRUE
       [] body[r].op = "delete" -> \A i \in body[r].ids : rows[i] # None
       [] body[r].op = "put" ->
            rows[body[r].id] # None /\ (Locks => rows[body[r].id] = body[r].was)
       [] body[r].op = "parent" ->
            Here(r) \in held /\ RowsOf(card[r].user, card[r].app) = {}

Effect(r) ==
  LET b == body[r]
      here == Here(r)
  IN  /\ rows' = CASE b.op = "create" -> Append(rows, NewRow(here[1], here[2], b.role))
                   [] b.op = "delete" -> [i \in DOMAIN rows |-> IF i \in b.ids THEN None ELSE rows[i]]
                   [] b.op = "put"    -> [rows EXCEPT ![b.id] = b.row]
                   [] b.op = "parent" -> rows
      /\ held' = CASE b.op = "create" -> held \cup {here}
                   [] b.op = "parent" -> held \ {here}
                   [] OTHER -> held

\* The platform has changed under every other request that has read it.
Disturb(r) == clean' = [q \in Requests |-> clean[q] /\ (q = r \/ pc[q] = "idle")]

\* Accepted: a skill with a chain goes on with it, once.
Accepted(r) ==
  /\ pc[r] = "sending"
  /\ Possible(r)
  /\ Effect(r)
  /\ Disturb(r)
  /\ pc' = [pc EXCEPT ![r] = IF card[r].skill = "remove_application" /\ body[r].op = "delete"
                             THEN "chain" ELSE "done"]
  /\ body' = [body EXCEPT ![r] = None]
  /\ UNCHANGED card

\* Refused: an error, or an envelope that says so; no chain, no flow goes on.
Refused(r) ==
  /\ pc[r] = "sending"
  /\ Possible(r) => "refused" \in Faults
  /\ pc' = [pc EXCEPT ![r] = "refused"]
  /\ clean' = [clean EXCEPT ![r] = @ /\ ~Possible(r)]
  /\ body' = [body EXCEPT ![r] = None]
  /\ UNCHANGED <<platform, card>>

\* The chain's step, with the card's names once more and no id (_resolve_user_application_id).
ChainParent(r) ==
  /\ pc[r] = "chain"
  /\ pc' = [pc EXCEPT ![r] = "sending"]
  /\ \E found \in IF "read_fails" \in Faults THEN {(Here(r) \in held), FALSE} ELSE {(Here(r) \in held)} :
       /\ body' = [body EXCEPT ![r] = IF found THEN DeleteParent ELSE None]
       /\ clean' = [clean EXCEPT ![r] = @ /\ (found <=> Here(r) \in held)]
  /\ UNCHANGED <<platform, card>>

\* The client leaves before a call is made.
Leave(r) ==
  /\ "leaves" \in Faults
  /\ pc[r] \in {"sending", "chain"}
  /\ pc' = [pc EXCEPT ![r] = "left"]
  /\ clean' = [clean EXCEPT ![r] = FALSE]
  /\ body' = [body EXCEPT ![r] = None]
  /\ UNCHANGED <<platform, card>>

Confirm(r) ==
  /\ pc[r] = "idle"
  /\ \E c \in Cards : \/ Assign(r, c) \/ Unassign(r, c) \/ RemoveApplication(r, c) \/ ById(r, c)
                      \/ ChangeRole(r, c) \/ EditAccess(r, c)

Next == \E r \in Requests : Confirm(r) \/ Accepted(r) \/ Refused(r) \/ ChainParent(r) \/ Leave(r)

Spec == Init /\ [][Next]_vars

-----------------------------------------------------------------------------
(* Properties.                                                             *)

\* The rows a call names are rows there are or were.
KnownRows(b) ==
  /\ b.op = "delete" => b.ids \subseteq DOMAIN rows
  /\ b.op = "put" => b.id \in DOMAIN rows

TypeOK ==
  /\ rows \in Seq(Row \cup {None})
  /\ held \subseteq Users \X Apps
  /\ card \in [Requests -> Cards \cup {None}]
  /\ pc \in [Requests -> {"idle", "sending", "chain", "done", "refused", "left"}]
  /\ body \in [Requests -> Calls \cup {None}]
  /\ \A r \in Requests : body[r] # None => KnownRows(body[r])
  /\ clean \in [Requests -> BOOLEAN]

\* What may differ between two versions of a row: one field of what a card may change, and
\* flags that were not set and now have their defaults.
DiffersInOne(old, new) ==
  \E k \in {"role", "enabled", "default"} :
    \A f \in {"user", "app", "role", "enabled", "default"} \ {k} :
      new[f] = old[f] \/ (f \in DOMAIN Unset /\ old[f] = None /\ new[f] = Unset[f])

\* Whatever overlaps and whatever fails, a confirm touches only rows of the user and the
\* application its card names, or that the card has the ids of, and replaces a row with one
\* field changed: the full-row PUT drops nobody else's change ("copy all its fields, flip only
\* the flag"), but that it sets the flags that were not.
OnlyWhatIsNamed ==
  [][\A i \in DOMAIN rows : rows'[i] # rows[i] =>
       \E r \in Requests :
         /\ pc'[r] # pc[r]
         /\ \/ card[r].ids = {} /\ rows[i].user = card[r].user /\ rows[i].app = card[r].app
            \/ i \in card[r].ids
         /\ rows'[i] # None => DiffersInOne(rows[i], rows'[i])]_vars

Ended(r, skill) == pc[r] \in {"done", "refused"} /\ clean[r] /\ card[r].skill = skill

\* "First clears all their roles for that application, then removes the application": when
\* nothing comes in the way, no role is left and no application either, of a card that goes by
\* names (one that has ids deletes those rows, and the application only if none is left).
RemovalIsComplete ==
  \A r \in Requests : Ended(r, "remove_application") /\ card[r].ids = {} =>
    /\ RowsOf(card[r].user, card[r].app) = {}
    /\ Here(r) \notin held

\* "action pins the change-role resolver": when nothing comes in the way, a confirmed
\* change of role leaves a user who has one role there with the role it asks for.
ChangeRoleTakesEffect ==
  \A r \in Requests : Ended(r, "change_role") =>
    \A i \in RowsOf(card[r].user, card[r].app) :
      Cardinality(RowsOf(card[r].user, card[r].app)) = 1 => <<card[r].role, rows[i].role>> \in Covers

\* "Find that exact row": whatever ids the card has, the row that is removed is of the user and
\* the application the card names.
RemovesItsOwn ==
  [][\A r \in Requests : pc[r] = "sending" /\ pc'[r] # "sending" =>
       \A i \in DOMAIN rows : rows'[i] # rows[i] => rows[i].user = card[r].user /\ rows[i].app = card[r].app]_vars

\* "Find that exact row": of a user's rows in the application, the one whose role has the
\* name the card gives is the one removed, when there is one.
UnassignsExactRow ==
  [][\A r \in Requests : pc[r] = "sending" /\ pc'[r] = "done" /\ card[r].skill = "remove_access" /\ card[r].ids = {} =>
       \A i \in RowsOf(card[r].user, card[r].app) :
         rows'[i] = None /\ rows[i].role # RoleNamed[card[r].role] =>
           \A j \in RowsOf(card[r].user, card[r].app) : rows[j].role # RoleNamed[card[r].role]]_vars

\* "change X's <fromRole> role to <newRole>": the row that is changed has the role the card
\* says it is changed from.
ChangesTheRoleItNames ==
  \A r \in Requests :
    pc[r] = "sending" /\ card[r].skill = "change_role" /\ body[r] # None /\ card[r].from # None =>
      <<card[r].from, body[r].was.role>> \in Covers
====
