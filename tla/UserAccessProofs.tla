--------------------------- MODULE UserAccessProofs ---------------------------
(***************************************************************************)
(* Confirmed cards about a user's access touch what they name, for any     *)
(* users, applications, roles, words and any number of confirms that       *)
(* overlap, whatever fails; and the skills of users say and do what is     *)
(* true (the second part).                                                 *)
(*                                                                         *)
(* The argument: the user and the application of a row never change, so    *)
(* the rows a call names are still those of its card when the call is made *)
(* (Named); and while nothing has come in the way of a removal, what it has*)
(* read or done is still true of the platform (Removals).  A card that has *)
(* ids of rows touches those rows and no others.                           *)
(***************************************************************************)
EXTENDS AccessAndSkills, FiniteSetTheorems, TLAPS

\* The row i, if it is still there, is one of the user and application of r's card.
OfCard(r, i) == rows[i] # None => rows[i].user = card[r].user /\ rows[i].app = card[r].app

\* The version new of a row is a copy of old with one field changed, not the user or the application.
OneField(old, new) ==
  \/ \E x \in Roles : new = [Copied(old) EXCEPT !.role = x]
  \/ new = [Copied(old) EXCEPT !.default = "Y"]
  \/ \E x \in {"Y", "N"} : new = [Copied(old) EXCEPT !.enabled = x]

\* The rows the call of r names are of its card.
CallNames(r) ==
  /\ body[r].op = "delete" => \/ card[r].ids = {} /\ \A i \in body[r].ids : OfCard(r, i)
                              \/ body[r].ids = card[r].ids
  /\ body[r].op = "put" => /\ card[r].ids = {}
                           /\ OfCard(r, body[r].id) /\ OneField(body[r].was, body[r].row)
                           /\ body[r].was.user = card[r].user /\ body[r].was.app = card[r].app

NamedBy(r) ==
  /\ pc[r] # "idle" => card[r] \in Cards
  /\ body[r] # None => pc[r] = "sending" /\ CallNames(r)

Named == \A r \in Requests : NamedBy(r)

Gone(r) == RowsOf(card[r].user, card[r].app) = {}

\* What is true of the platform while a removal goes on undisturbed.
Removing(r) ==
  /\ pc[r] = "sending" =>
       \/ body[r] # None /\ body[r].op = "delete" /\ body[r].ids = RowsOf(card[r].user, card[r].app)
       \/ body[r] # None /\ body[r].op = "parent" /\ Gone(r) /\ Here(r) \in held
       \/ body[r] = None /\ Gone(r) /\ Here(r) \notin held
  /\ pc[r] = "chain" => Gone(r)
  /\ pc[r] \in {"done", "refused"} => Gone(r) /\ Here(r) \notin held

RemovalOf(r) ==
  clean[r] /\ pc[r] # "idle" /\ card[r].skill = "remove_application" /\ card[r].ids = {} => Removing(r)

Removals == \A r \in Requests : RemovalOf(r)

Inv == TypeOK /\ Named /\ Removals

-----------------------------------------------------------------------------
(* Cards, rows and calls.                                                  *)

\* Every card names a user and an application.
LEMMA CardShape ==
  ASSUME NEW c \in Cards
  PROVE  c.user \in Users /\ c.app \in Apps /\ c # None
BY NoneAssumption DEF Cards, Card

\* A call is one of the four kinds.
LEMMA CallShape ==
  ASSUME NEW b \in Calls
  PROVE  /\ b.op \in {"create", "delete", "put", "parent"}
         /\ b.op = "create" => b.role \in Roles
         /\ b.op = "delete" => b.ids \in SUBSET Nat
         /\ b.op = "put" => b.id \in Nat /\ b.was \in Row /\ b.row \in Row
BY DEF Calls

\* The calls a confirm asks for.
LEMMA CallsAre ==
  /\ \A role \in Roles : Create(role) \in Calls /\ Create(role).op = "create"
  /\ \A S \in SUBSET Nat : Delete(S) \in Calls /\ Delete(S).op = "delete" /\ Delete(S).ids = S
  /\ DeleteParent \in Calls /\ DeleteParent.op = "parent"
  /\ \A i \in Nat, new \in Row : rows[i] \in Row =>
       /\ Put(i, new) \in Calls /\ Put(i, new).op = "put" /\ Put(i, new).id = i
       /\ Put(i, new).was = rows[i] /\ Put(i, new).row = new
<1>1. \A role \in Roles : Create(role) \in Calls /\ Create(role).op = "create"
  BY DEF Create, Calls
<1>2. \A S \in SUBSET Nat : Delete(S) \in Calls /\ Delete(S).op = "delete" /\ Delete(S).ids = S
  BY DEF Delete, Calls
<1>3. DeleteParent \in Calls /\ DeleteParent.op = "parent"
  BY DEF DeleteParent, Calls
<1>4. \A i \in Nat, new \in Row : rows[i] \in Row =>
        /\ Put(i, new) \in Calls /\ Put(i, new).op = "put" /\ Put(i, new).id = i
        /\ Put(i, new).was = rows[i] /\ Put(i, new).row = new
  BY DEF Put, Calls
<1> QED
  BY <1>1, <1>2, <1>3, <1>4

\* The rows by their places.
LEMMA RowShape ==
  ASSUME TypeOK
  PROVE  /\ DOMAIN rows = 1 .. Len(rows) /\ Len(rows) \in Nat
         /\ DOMAIN rows \subseteq Nat
         /\ \A i \in DOMAIN rows : rows[i] \in Row \cup {None}
BY DEF TypeOK

\* A copy of a row with one field changed differs from it in one field, and in flags that were
\* not set.
LEMMA OneFieldDiffers ==
  ASSUME NEW old \in Row, NEW new, OneField(old, new)
  PROVE  /\ new \in Row /\ new.user = old.user /\ new.app = old.app
         /\ DiffersInOne(old, new)
<1> DEFINE Same(f) == new[f] = old[f] \/ (f \in DOMAIN Unset /\ old[f] = None /\ new[f] = Unset[f])
           All == {"user", "app", "role", "enabled", "default"}
<1>0. ASSUME NEW k \in {"role", "enabled", "default"}, \A f \in All \ {k} : Same(f)
      PROVE  DiffersInOne(old, new)
  BY <1>0 DEF DiffersInOne
<1>1. /\ Copied(old) \in Row /\ Copied(old).user = old.user /\ Copied(old).app = old.app
      /\ Copied(old).role = old.role
      /\ Copied(old).enabled = IF old.enabled = None THEN "Y" ELSE old.enabled
      /\ Copied(old).default = IF old.default = None THEN "N" ELSE old.default
  BY DEF Copied, Unset, Row
<1>u. DOMAIN Unset = {"enabled", "default"} /\ Unset["enabled"] = "Y" /\ Unset["default"] = "N"
  BY DEF Unset
<1>2. CASE \E x \in Roles : new = [Copied(old) EXCEPT !.role = x]
  <2>1. /\ new \in Row /\ new.user = old.user /\ new.app = old.app
        /\ new.enabled = Copied(old).enabled /\ new.default = Copied(old).default
    BY <1>1, <1>2 DEF Row
  <2>2. \A f \in All \ {"role"} : Same(f)
    BY <1>1, <1>u, <2>1
  <2> QED
    BY <1>0, <2>1, <2>2
<1>3. CASE new = [Copied(old) EXCEPT !.default = "Y"]
  <2>1. /\ new \in Row /\ new.user = old.user /\ new.app = old.app
        /\ new.enabled = Copied(old).enabled /\ new.role = old.role
    BY <1>1, <1>3 DEF Row
  <2>2. \A f \in All \ {"default"} : Same(f)
    BY <1>1, <1>u, <2>1
  <2> QED
    BY <1>0, <2>1, <2>2
<1>4. CASE \E x \in {"Y", "N"} : new = [Copied(old) EXCEPT !.enabled = x]
  <2>1. /\ new \in Row /\ new.user = old.user /\ new.app = old.app
        /\ new.role = old.role /\ new.default = Copied(old).default
    BY <1>1, <1>4 DEF Row
  <2>2. \A f \in All \ {"enabled"} : Same(f)
    BY <1>1, <1>u, <2>1
  <2> QED
    BY <1>0, <2>1, <2>2
<1> QED
  BY <1>2, <1>3, <1>4 DEF OneField

-----------------------------------------------------------------------------
(* Confirm.                                                                *)

\* What a request reads is of the user and the application it asks for, and all of it when
\* the read succeeds.
LEMMA ViewShape ==
  ASSUME NEW u, NEW a, NEW v \in Views(u, a)
  PROVE  v.ids \subseteq RowsOf(u, a) /\ v.ok \in BOOLEAN /\ (v.ok => v.ids = RowsOf(u, a))
<1>1. CASE v = [ids |-> RowsOf(u, a), ok |-> TRUE]
  BY <1>1
<1>2. CASE v = [ids |-> {}, ok |-> FALSE]
  BY <1>2
<1> QED
  BY <1>1, <1>2 DEF Views

\* A card whose names are resolved to a call on rows of its user and application.
LEMMA ResolvedKeeps ==
  ASSUME Inv, NEW r \in Requests, NEW c \in Cards, NEW b \in Calls \cup {None}, NEW ok \in BOOLEAN,
         Resolved(r, c, b, ok),
         b # None =>
           /\ KnownRows(b)
           /\ b.op = "delete" =>
                \/ c.ids = {} /\ \A i \in b.ids : rows[i] # None => rows[i].user = c.user /\ rows[i].app = c.app
                \/ b.ids = c.ids
           /\ b.op = "put" => /\ c.ids = {}
                              /\ rows[b.id] # None => rows[b.id].user = c.user /\ rows[b.id].app = c.app
                              /\ OneField(b.was, b.row) /\ b.was.user = c.user /\ b.was.app = c.app,
         pc[r] = "idle",
         ok /\ c.skill = "remove_application" /\ c.ids = {} =>
           b # None /\ b.op = "delete" /\ b.ids = RowsOf(c.user, c.app)
  PROVE  Inv'
<1>1. /\ pc' = [pc EXCEPT ![r] = "sending"] /\ card' = [card EXCEPT ![r] = c]
      /\ body' = [body EXCEPT ![r] = b] /\ clean' = [clean EXCEPT ![r] = ok]
      /\ rows' = rows /\ held' = held
  BY DEF Resolved, platform
<1>2. TypeOK /\ Named /\ Removals
  BY DEF Inv
<1>3. /\ pc'[r] = "sending" /\ card'[r] = c /\ body'[r] = b /\ clean'[r] = ok
      /\ \A q \in Requests : q # r =>
           pc'[q] = pc[q] /\ card'[q] = card[q] /\ body'[q] = body[q] /\ clean'[q] = clean[q]
  BY <1>1, <1>2 DEF TypeOK
<1>4. TypeOK'
  <2>1. /\ pc' \in [Requests -> {"idle", "sending", "chain", "done", "refused", "left"}]
        /\ card' \in [Requests -> Cards \cup {None}] /\ clean' \in [Requests -> BOOLEAN]
        /\ body' \in [Requests -> Calls \cup {None}]
        /\ rows' \in Seq(Row \cup {None}) /\ held' \subseteq Users \X Apps
    BY <1>1, <1>2 DEF TypeOK
  <2>2. \A q \in Requests : body'[q] # None => KnownRows(body[q])'
    BY <1>1, <1>2, <1>3 DEF TypeOK, KnownRows
  <2> QED
    BY <2>1, <2>2 DEF TypeOK
<1>5. NamedBy(r)'
  BY <1>1, <1>3 DEF NamedBy, CallNames, OfCard
<1>6. \A q \in Requests : q # r => NamedBy(q)'
  BY <1>1, <1>2, <1>3 DEF Named, NamedBy, CallNames, OfCard
<1>7. RemovalOf(r)'
  BY <1>1, <1>3 DEF RemovalOf, Removing, RowsOf
<1>8. \A q \in Requests : q # r => RemovalOf(q)'
  BY <1>1, <1>2, <1>3 DEF Removals, RemovalOf, Removing, Gone, Here, RowsOf
<1> QED
  BY <1>4, <1>5, <1>6, <1>7, <1>8 DEF Inv, Named, Removals

\* Whatever a card's names are resolved to, it is of the card's user and application.
LEMMA ConfirmKeeps ==
  ASSUME Inv, NEW r \in Requests, Confirm(r)
  PROVE  Inv'
<1> PICK c \in Cards : \/ Assign(r, c) \/ Unassign(r, c) \/ RemoveApplication(r, c) \/ ById(r, c)
                       \/ ChangeRole(r, c) \/ EditAccess(r, c)
  BY DEF Confirm
<1>i. pc[r] = "idle"
  BY DEF Confirm
<1>n. c.skill \in {"assign_access", "change_role", "edit_access"} => c.ids = {}
  BY DEF Cards, Card
<1>a. /\ DOMAIN rows \subseteq Nat
      /\ \A i \in RowsOf(c.user, c.app) :
           i \in DOMAIN rows /\ rows[i] # None /\ rows[i] \in Row /\ rows[i].user = c.user /\ rows[i].app = c.app
  BY RowShape DEF Inv, RowsOf
<1>b. ASSUME NEW ok \in BOOLEAN, Resolved(r, c, None, ok), c.skill # "remove_application" PROVE Inv'
  BY <1>b, <1>i, ResolvedKeeps
<1>c. ASSUME NEW ok \in BOOLEAN, NEW role \in Roles, Resolved(r, c, Create(role), ok),
             c.skill # "remove_application"
      PROVE  Inv'
  <2> DEFINE b == Create(role)
  <2>1. b \in Calls /\ b.op = "create"
    BY CallsAre
  <2>2. Resolved(r, c, b, ok)
    BY <1>c
  <2> HIDE DEF b
  <2>3. KnownRows(b)
    BY <2>1 DEF KnownRows
  <2> QED
    BY <1>c, <1>i, <2>1, <2>2, <2>3, ResolvedKeeps
<1>d. ASSUME NEW ok \in BOOLEAN, NEW S, S \subseteq RowsOf(c.user, c.app), Resolved(r, c, Delete(S), ok),
             c.ids = {}, ok /\ c.skill = "remove_application" => S = RowsOf(c.user, c.app)
      PROVE  Inv'
  <2> DEFINE b == Delete(S)
  <2>0. S \in SUBSET Nat
    BY <1>a, <1>d
  <2>1. b \in Calls /\ b.op = "delete" /\ b.ids = S
    BY <2>0, CallsAre
  <2>2. Resolved(r, c, b, ok)
    BY <1>d
  <2> HIDE DEF b
  <2>3. b # None
    BY <2>1, NoneAssumption
  <2>4. KnownRows(b) /\ \A i \in b.ids : rows[i].user = c.user /\ rows[i].app = c.app
    BY <2>1, <1>a, <1>d DEF KnownRows
  <2> QED
    BY <1>d, <1>i, <2>1, <2>2, <2>3, <2>4, ResolvedKeeps
<1>e. ASSUME NEW ok \in BOOLEAN, NEW i \in RowsOf(c.user, c.app), NEW new, OneField(rows[i], new),
             Resolved(r, c, Put(i, new), ok), c.skill \in {"change_role", "edit_access"}
      PROVE  Inv'
  <2> DEFINE b == Put(i, new)
  <2>0. i \in Nat /\ i \in DOMAIN rows /\ rows[i] \in Row /\ rows[i].user = c.user /\ rows[i].app = c.app
    BY <1>a
  <2>1. new \in Row
    BY <2>0, <1>e, OneFieldDiffers
  <2>2. b \in Calls /\ b.op = "put" /\ b.id = i /\ b.was = rows[i] /\ b.row = new
    BY <2>0, <2>1, CallsAre
  <2>3. Resolved(r, c, b, ok)
    BY <1>e
  <2> HIDE DEF b
  <2>4. KnownRows(b)
    BY <2>0, <2>2 DEF KnownRows
  <2>5. OneField(b.was, b.row) /\ b.was.user = c.user /\ b.was.app = c.app
    BY <2>0, <2>2, <1>e
  <2> QED
    BY <1>e, <1>i, <1>n, <2>0, <2>2, <2>3, <2>4, <2>5, ResolvedKeeps
<1>1. ASSUME Assign(r, c) PROVE Inv'
  <2>1. PICK v \in Views(c.user, c.app) : \E role \in RoleIds(c.role, v.ok) :
          Resolved(r, c, IF role = None THEN None ELSE Create(role), v.ok)
    BY <1>1 DEF Assign
  <2>p. PICK role \in RoleIds(c.role, v.ok) :
          Resolved(r, c, IF role = None THEN None ELSE Create(role), v.ok)
    BY <2>1
  <2>2. v.ok \in BOOLEAN /\ c.skill # "remove_application"
    BY <1>1, ViewShape DEF Assign
  <2>3. role = None \/ role \in Roles
    BY DEF RoleIds, FirstOf
  <2> QED
    BY <1>b, <1>c, <2>p, <2>2, <2>3
<1>2. ASSUME Unassign(r, c) PROVE Inv'
  <2>1. PICK v \in Views(c.user, c.app) : \E i \in FirstOf(Covered(v.ids, c.role)) :
          Resolved(r, c, IF i = None THEN None ELSE Delete({i}), v.ok)
    BY <1>2 DEF Unassign
  <2>p. PICK i \in FirstOf(Covered(v.ids, c.role)) :
          Resolved(r, c, IF i = None THEN None ELSE Delete({i}), v.ok)
    BY <2>1
  <2>2. v.ok \in BOOLEAN /\ v.ids \subseteq RowsOf(c.user, c.app) /\ c.skill # "remove_application" /\ c.ids = {}
    BY <1>2, ViewShape DEF Unassign
  <2>3. CASE i = None
    BY <1>b, <2>p, <2>2, <2>3
  <2>4. CASE i # None
    <3>1. i \in v.ids
      BY <2>4 DEF FirstOf, Covered
    <3> QED
      BY <1>d, <2>p, <2>2, <2>4, <3>1
  <2> QED
    BY <2>3, <2>4
<1>3. ASSUME RemoveApplication(r, c) PROVE Inv'
  <2>1. PICK v \in Views(c.user, c.app) : Resolved(r, c, Delete(v.ids), v.ok)
    BY <1>3 DEF RemoveApplication
  <2>2. /\ v.ok \in BOOLEAN /\ v.ids \subseteq RowsOf(c.user, c.app)
        /\ v.ok => v.ids = RowsOf(c.user, c.app)
        /\ c.ids = {}
    BY <1>3, ViewShape DEF RemoveApplication
  <2> QED
    BY <1>d, <2>1, <2>2
<1>6. ASSUME ById(r, c) PROVE Inv'
  <2> DEFINE b == Delete(c.ids)
  <2>1. c.ids # {} /\ c.ids \subseteq DOMAIN rows /\ Resolved(r, c, b, TRUE)
    BY <1>6 DEF ById
  <2>2. b \in Calls /\ b.op = "delete" /\ b.ids = c.ids
    BY <1>a, <2>1, CallsAre
  <2> HIDE DEF b
  <2>3. KnownRows(b)
    BY <2>1, <2>2 DEF KnownRows
  <2> QED
    BY <1>i, <2>1, <2>2, <2>3, ResolvedKeeps
<1>4. ASSUME ChangeRole(r, c) PROVE Inv'
  <2>1. PICK v \in Views(c.user, c.app) : \E role \in RoleIds(c.role, v.ok) :
          LET found == IF c.from # None /\ Cardinality(v.ids) > 1 THEN Covered(v.ids, c.from) ELSE v.ids
          IN  IF c.action = "change_role" /\ Cardinality(found) = 1 /\ role # None
              THEN \E i \in found : Resolved(r, c, Put(i, [Copied(rows[i]) EXCEPT !.role = role]), v.ok)
              ELSE Resolved(r, c, None, v.ok)
    BY <1>4 DEF ChangeRole
  <2>p. PICK role \in RoleIds(c.role, v.ok) :
          LET found == IF c.from # None /\ Cardinality(v.ids) > 1 THEN Covered(v.ids, c.from) ELSE v.ids
          IN  IF c.action = "change_role" /\ Cardinality(found) = 1 /\ role # None
              THEN \E i \in found : Resolved(r, c, Put(i, [Copied(rows[i]) EXCEPT !.role = role]), v.ok)
              ELSE Resolved(r, c, None, v.ok)
    BY <2>1
  <2>2. v.ok \in BOOLEAN /\ v.ids \subseteq RowsOf(c.user, c.app) /\ c.skill = "change_role"
    BY <1>4, ViewShape DEF ChangeRole
  <2>3. role = None \/ role \in Roles
    BY DEF RoleIds, FirstOf
  <2>4. CASE Resolved(r, c, None, v.ok)
    BY <1>b, <2>2, <2>4
  <2>5. CASE role # None /\ \E i \in v.ids : Resolved(r, c, Put(i, [Copied(rows[i]) EXCEPT !.role = role]), v.ok)
    <3>1. PICK i \in v.ids : Resolved(r, c, Put(i, [Copied(rows[i]) EXCEPT !.role = role]), v.ok)
      BY <2>5
    <3>2. i \in RowsOf(c.user, c.app) /\ role \in Roles
      BY <2>2, <2>3, <2>5
    <3>3. OneField(rows[i], [Copied(rows[i]) EXCEPT !.role = role])
      BY <3>2 DEF OneField
    <3> QED
      BY <1>e, <2>2, <3>1, <3>2, <3>3
  <2> QED
    BY <2>p, <2>4, <2>5 DEF Covered
<1>5. ASSUME EditAccess(r, c) PROVE Inv'
  <2>1. PICK v \in Views(c.user, c.app) : \E i \in FirstOf(Covered(v.ids, c.role)) :
          Resolved(r, c, IF i = None \/ c.action = None THEN None
                         ELSE Put(i, Flagged(Copied(rows[i]), c.action)), v.ok)
    BY <1>5 DEF EditAccess
  <2>p. PICK i \in FirstOf(Covered(v.ids, c.role)) :
          Resolved(r, c, IF i = None \/ c.action = None THEN None
                         ELSE Put(i, Flagged(Copied(rows[i]), c.action)), v.ok)
    BY <2>1
  <2>2. v.ok \in BOOLEAN /\ v.ids \subseteq RowsOf(c.user, c.app) /\ c.skill = "edit_access"
    BY <1>5, ViewShape DEF EditAccess
  <2>3. CASE i = None \/ c.action = None
    BY <1>b, <2>p, <2>2, <2>3
  <2>4. CASE ~(i = None \/ c.action = None)
    <3>1. i \in RowsOf(c.user, c.app)
      BY <2>2, <2>4 DEF FirstOf, Covered
    <3>2. c.action \in Flags
      BY <2>2, <2>4 DEF Cards, Card
    <3>3. OneField(rows[i], Flagged(Copied(rows[i]), c.action))
      BY <3>2 DEF OneField, Flagged, Flags
    <3>4. Resolved(r, c, Put(i, Flagged(Copied(rows[i]), c.action)), v.ok)
      BY <2>p, <2>4
    <3> QED
      BY <1>e, <2>2, <3>1, <3>3, <3>4
  <2> QED
    BY <2>3, <2>4
<1> QED
  BY <1>1, <1>2, <1>3, <1>4, <1>5, <1>6

-----------------------------------------------------------------------------
(* The call.                                                               *)

\* A call that the platform accepts deletes the rows it names or replaces one of them, and
\* with locking it replaces the version that was read.
LEMMA AcceptedRows ==
  ASSUME Inv, NEW r \in Requests, Accepted(r)
  PROVE  /\ body[r] \in Calls /\ body[r] # None
         /\ DOMAIN rows \subseteq DOMAIN rows'
         /\ \A i \in DOMAIN rows : rows'[i] # rows[i] =>
              /\ rows[i] # None
              /\ \/ body[r].op = "delete" /\ i \in body[r].ids /\ rows'[i] = None
                 \/ /\ body[r].op = "put" /\ i = body[r].id /\ rows'[i] = body[r].row
                    /\ Locks => rows[i] = body[r].was
<1> DEFINE b == body[r]
<1>1. b \in Calls /\ b # None /\ KnownRows(b) /\ Possible(r) /\ Effect(r)
  BY DEF Accepted, Possible, Inv, TypeOK
<1>2. /\ DOMAIN rows = 1 .. Len(rows) /\ Len(rows) \in Nat /\ rows \in Seq(Row \cup {None})
      /\ \A i \in DOMAIN rows : rows[i] \in Row \cup {None}
  BY RowShape DEF Inv, TypeOK
<1>3. CASE b.op = "create"
  <2>1. PICK x : rows' = Append(rows, x)
    BY <1>1, <1>3 DEF Effect
  <2>2. DOMAIN rows \subseteq DOMAIN rows' /\ \A i \in DOMAIN rows : rows'[i] = rows[i]
    BY <1>2, <2>1
  <2> QED
    BY <1>1, <2>2
<1>4. CASE b.op = "delete"
  <2>1. rows' = [i \in DOMAIN rows |-> IF i \in b.ids THEN None ELSE rows[i]]
    BY <1>1, <1>4 DEF Effect
  <2>2. \A i \in b.ids : rows[i] # None
    BY <1>1, <1>4 DEF Possible
  <2> QED
    BY <1>1, <1>4, <2>1, <2>2
<1>5. CASE b.op = "put"
  <2>1. rows' = [rows EXCEPT ![b.id] = b.row]
    BY <1>1, <1>5 DEF Effect
  <2>2. rows[b.id] # None /\ (Locks => rows[b.id] = b.was)
    BY <1>1, <1>5 DEF Possible
  <2>3. DOMAIN rows' = DOMAIN rows
    BY <2>1
  <2> QED
    BY <1>1, <1>5, <2>1, <2>2, <2>3
<1>6. CASE b.op = "parent"
  <2>1. rows' = rows
    BY <1>1, <1>6 DEF Effect
  <2> QED
    BY <1>1, <2>1
<1> QED
  BY <1>1, <1>3, <1>4, <1>5, <1>6, CallShape

\* A row stays one of its user and application for as long as it is there.
LEMMA OwnersStay ==
  ASSUME Inv, NEW r \in Requests, Accepted(r), NEW i \in DOMAIN rows, rows'[i] # None
  PROVE  rows[i] # None /\ rows'[i].user = rows[i].user /\ rows'[i].app = rows[i].app
<1>1. CASE rows'[i] = rows[i]
  BY <1>1
<1>2. CASE rows'[i] # rows[i]
  <2>1. /\ rows[i] # None /\ body[r] \in Calls /\ body[r] # None
        /\ body[r].op = "put" /\ i = body[r].id /\ rows'[i] = body[r].row
    BY <1>2, AcceptedRows
  <2>2. NamedBy(r)
    BY DEF Inv, Named
  <2>3. /\ OfCard(r, i) /\ OneField(body[r].was, body[r].row)
        /\ body[r].was.user = card[r].user /\ body[r].was.app = card[r].app
    BY <2>1, <2>2 DEF NamedBy, CallNames
  <2>4. body[r].row.user = body[r].was.user /\ body[r].row.app = body[r].was.app
    BY <2>1, <2>3, CallShape, OneFieldDiffers
  <2> QED
    BY <2>1, <2>3, <2>4 DEF OfCard
<1> QED
  BY <1>1, <1>2

\* An accepted call keeps the invariant: of the requests it comes in the way of, nothing is
\* claimed any more.
LEMMA AcceptedKeeps ==
  ASSUME Inv, NEW r \in Requests, Accepted(r)
  PROVE  Inv'
<1> DEFINE b == body[r]
           next == IF card[r].skill = "remove_application" /\ b.op = "delete" THEN "chain" ELSE "done"
<1>1. /\ pc[r] = "sending" /\ Possible(r) /\ Effect(r) /\ card' = card
      /\ pc' = [pc EXCEPT ![r] = next] /\ body' = [body EXCEPT ![r] = None]
      /\ clean' = [q \in Requests |-> clean[q] /\ (q = r \/ pc[q] = "idle")]
  BY DEF Accepted, Disturb
<1>2. TypeOK /\ Named /\ Removals /\ card[r] \in Cards /\ NamedBy(r) /\ RemovalOf(r)
  BY <1>1 DEF Inv, Named, NamedBy, Removals
<1>3. /\ b \in Calls /\ b # None /\ DOMAIN rows \subseteq DOMAIN rows'
      /\ b.op \in {"create", "delete", "put", "parent"}
  BY AcceptedRows, CallShape
<1>4. /\ pc'[r] = next /\ body'[r] = None
      /\ \A q \in Requests : q # r => pc'[q] = pc[q] /\ body'[q] = body[q]
                                      /\ (clean'[q] => pc[q] = "idle")
      /\ clean'[r] => clean[r]
  BY <1>1, <1>2 DEF TypeOK
<1>5. Here(r) = <<card[r].user, card[r].app>> /\ Here(r) \in Users \X Apps /\ Here(r)' = Here(r)
  BY <1>1, <1>2, CardShape DEF Here
<1>6. rows' \in Seq(Row \cup {None}) /\ held' \subseteq Users \X Apps
  <2>1. DOMAIN rows = 1 .. Len(rows) /\ Len(rows) \in Nat /\ rows \in Seq(Row \cup {None})
        /\ held \subseteq Users \X Apps /\ \A i \in DOMAIN rows : rows[i] \in Row \cup {None}
    BY <1>2, RowShape DEF TypeOK
  <2>2. held' \subseteq Users \X Apps
    BY <1>1, <1>3, <1>5, <2>1 DEF Effect
  <2>3. CASE b.op = "create"
    <3>1. rows' = Append(rows, NewRow(card[r].user, card[r].app, b.role))
      BY <1>1, <1>5, <2>3 DEF Effect
    <3>2. NewRow(card[r].user, card[r].app, b.role) \in Row
      BY <1>2, <1>3, <2>3, CardShape, CallShape DEF NewRow, Row
    <3> QED
      BY <2>1, <2>2, <3>1, <3>2
  <2>4. CASE b.op = "delete"
    <3>1. rows' = [i \in 1 .. Len(rows) |-> IF i \in b.ids THEN None ELSE rows[i]]
      BY <1>1, <2>1, <2>4 DEF Effect
    <3>2. \A i \in 1 .. Len(rows) : (IF i \in b.ids THEN None ELSE rows[i]) \in Row \cup {None}
      BY <2>1
    <3>3. rows' \in [1 .. Len(rows) -> Row \cup {None}]
      BY <3>1, <3>2
    <3> QED
      BY <2>1, <2>2, <3>3
  <2>5. CASE b.op = "put"
    <3>1. rows' = [rows EXCEPT ![b.id] = b.row]
      BY <1>1, <2>5 DEF Effect
    <3>2. b.row \in Row
      BY <1>3, <2>5, CallShape
    <3>3. rows' \in [1 .. Len(rows) -> Row \cup {None}]
      BY <2>1, <3>1, <3>2
    <3> QED
      BY <2>1, <2>2, <3>3
  <2>6. CASE b.op = "parent"
    BY <1>1, <2>1, <2>2, <2>6 DEF Effect
  <2> QED
    BY <1>3, <2>3, <2>4, <2>5, <2>6
<1>7. TypeOK'
  <2>1. /\ pc' \in [Requests -> {"idle", "sending", "chain", "done", "refused", "left"}]
        /\ card' \in [Requests -> Cards \cup {None}] /\ clean' \in [Requests -> BOOLEAN]
        /\ body' \in [Requests -> Calls \cup {None}]
    BY <1>1, <1>2 DEF TypeOK
  <2>2. \A q \in Requests : body'[q] # None => KnownRows(body[q])'
    BY <1>2, <1>3, <1>4 DEF TypeOK, KnownRows
  <2> QED
    BY <1>6, <2>1, <2>2 DEF TypeOK
<1>8. Named'
  <2>1. NamedBy(r)'
    BY <1>1, <1>2, <1>4 DEF NamedBy
  <2>2. ASSUME NEW q \in Requests, q # r PROVE NamedBy(q)'
    <3>1. /\ pc'[q] = pc[q] /\ body'[q] = body[q] /\ card'[q] = card[q]
          /\ body[q] # None => KnownRows(body[q])
          /\ NamedBy(q)
      BY <1>1, <1>2, <1>4, <2>2 DEF TypeOK, Named
    <3>2. \A i \in DOMAIN rows : OfCard(q, i) => OfCard(q, i)'
      BY <3>1, OwnersStay DEF OfCard
    <3> QED
      BY <3>1, <3>2 DEF NamedBy, CallNames, KnownRows
  <2> QED
    BY <2>1, <2>2 DEF Named
<1>9. Removals'
  <2>1. \A q \in Requests : q # r => RemovalOf(q)'
    BY <1>4 DEF RemovalOf
  <2>2. ASSUME clean'[r], card[r].skill = "remove_application", card[r].ids = {} PROVE Removing(r)'
    <3>1. clean[r] /\ Removing(r)
      BY <1>1, <1>2, <1>4, <2>2 DEF RemovalOf
    <3>2. CASE b.op = "delete" /\ b.ids = RowsOf(card[r].user, card[r].app)
      <4>1. rows' = [i \in DOMAIN rows |-> IF i \in b.ids THEN None ELSE rows[i]]
        BY <1>1, <3>2 DEF Effect
      <4>2. Gone(r)'
        BY <1>1, <3>2, <4>1 DEF Gone, RowsOf
      <4>3. pc'[r] = "chain"
        BY <1>4, <2>2, <3>2
      <4> QED
        BY <4>2, <4>3 DEF Removing
    <3>3. CASE b.op = "parent" /\ Gone(r) /\ Here(r) \in held
      <4>1. rows' = rows /\ held' = held \ {Here(r)}
        BY <1>1, <3>3 DEF Effect
      <4>2. Gone(r)' /\ (Here(r) \notin held)'
        BY <1>1, <1>5, <3>3, <4>1 DEF Gone, RowsOf
      <4>3. pc'[r] = "done"
        BY <1>4, <3>3
      <4> QED
        BY <4>2, <4>3 DEF Removing
    <3> QED
      BY <1>1, <1>3, <3>1, <3>2, <3>3 DEF Removing
  <2>3. RemovalOf(r)'
    BY <1>1, <2>2 DEF RemovalOf
  <2> QED
    BY <2>1, <2>3 DEF Removals
<1> QED
  BY <1>7, <1>8, <1>9 DEF Inv

-----------------------------------------------------------------------------
(* The other steps leave the platform alone.                               *)

\* A step of r that leaves the platform and the cards alone, ends or sends a call that names
\* no row, and keeps what is claimed of r's removal.
LEMMA QuietKeeps ==
  ASSUME Inv, NEW r \in Requests, NEW p \in {"sending", "refused", "left"},
         NEW b \in {None, DeleteParent}, NEW ok \in BOOLEAN,
         pc[r] # "idle", pc' = [pc EXCEPT ![r] = p], body' = [body EXCEPT ![r] = b],
         clean' = [clean EXCEPT ![r] = ok], UNCHANGED <<platform, card>>,
         b # None => p = "sending", RemovalOf(r)'
  PROVE  Inv'
<1>1. TypeOK /\ Named /\ Removals /\ rows' = rows /\ held' = held /\ card' = card
  BY DEF Inv, platform
<1>2. /\ pc'[r] = p /\ body'[r] = b
      /\ \A q \in Requests : q # r => pc'[q] = pc[q] /\ body'[q] = body[q] /\ clean'[q] = clean[q]
  BY <1>1 DEF TypeOK
<1>3. b = None \/ (b \in Calls /\ b.op = "parent")
  BY CallsAre
<1>4. TypeOK'
  <2>1. /\ pc' \in [Requests -> {"idle", "sending", "chain", "done", "refused", "left"}]
        /\ card' \in [Requests -> Cards \cup {None}] /\ clean' \in [Requests -> BOOLEAN]
        /\ body' \in [Requests -> Calls \cup {None}]
        /\ rows' \in Seq(Row \cup {None}) /\ held' \subseteq Users \X Apps
    BY <1>1, <1>3 DEF TypeOK
  <2>2. \A q \in Requests : body'[q] # None => KnownRows(body[q])'
    BY <1>1, <1>2, <1>3 DEF TypeOK, KnownRows
  <2> QED
    BY <2>1, <2>2 DEF TypeOK
<1>5. NamedBy(r)'
  BY <1>1, <1>2, <1>3 DEF Named, NamedBy, CallNames
<1>6. \A q \in Requests : q # r => NamedBy(q)'
  BY <1>1, <1>2 DEF Named, NamedBy, CallNames, OfCard
<1>7. \A q \in Requests : q # r => RemovalOf(q)'
  BY <1>1, <1>2 DEF Removals, RemovalOf, Removing, Gone, Here, RowsOf
<1> QED
  BY <1>4, <1>5, <1>6, <1>7 DEF Inv, Named, Removals

\* Every step keeps the invariant.
LEMMA NextKeeps == Inv /\ [Next]_vars => Inv'
<1> SUFFICES ASSUME Inv, [Next]_vars PROVE Inv'
  OBVIOUS
<1>a. TypeOK /\ Named /\ Removals
  BY DEF Inv
<1>1. ASSUME NEW r \in Requests, Refused(r) PROVE Inv'
  <2>1. /\ pc[r] = "sending" /\ pc' = [pc EXCEPT ![r] = "refused"]
        /\ clean' = [clean EXCEPT ![r] = clean[r] /\ ~Possible(r)]
        /\ body' = [body EXCEPT ![r] = None]
        /\ rows' = rows /\ held' = held /\ card' = card /\ UNCHANGED <<platform, card>>
    BY <1>1 DEF Refused, platform
  <2>2. pc'[r] = "refused" /\ (clean'[r] => clean[r] /\ ~Possible(r)) /\ (clean[r] /\ ~Possible(r)) \in BOOLEAN
    BY <2>1, <1>a DEF TypeOK
  <2>3. ASSUME clean'[r], card[r].skill = "remove_application", card[r].ids = {} PROVE Removing(r)'
    <3>1. clean[r] /\ ~Possible(r) /\ Removing(r)
      BY <2>1, <2>2, <2>3, <1>a DEF Removals, RemovalOf
    <3>2. ~(body[r] # None /\ body[r].op = "delete" /\ body[r].ids = RowsOf(card[r].user, card[r].app))
      BY <3>1 DEF Possible, RowsOf
    <3>3. ~(body[r] # None /\ body[r].op = "parent" /\ Gone(r) /\ Here(r) \in held)
      BY <3>1 DEF Possible, Gone
    <3>4. Gone(r) /\ Here(r) \notin held
      BY <2>1, <3>1, <3>2, <3>3 DEF Removing
    <3>5. Gone(r)' /\ (Here(r) \notin held)'
      BY <2>1, <3>4 DEF Gone, RowsOf, Here
    <3> QED
      BY <2>2, <3>5 DEF Removing
  <2>4. RemovalOf(r)'
    BY <2>1, <2>3 DEF RemovalOf
  <2> QED
    BY <2>1, <2>2, <2>4, QuietKeeps
<1>2. ASSUME NEW r \in Requests, ChainParent(r) PROVE Inv'
  <2>1. PICK found \in BOOLEAN :
          /\ body' = [body EXCEPT ![r] = IF found THEN DeleteParent ELSE None]
          /\ clean' = [clean EXCEPT ![r] = clean[r] /\ (found <=> Here(r) \in held)]
    BY <1>2 DEF ChainParent
  <2>2. /\ pc[r] = "chain" /\ pc' = [pc EXCEPT ![r] = "sending"]
        /\ rows' = rows /\ held' = held /\ card' = card /\ UNCHANGED <<platform, card>>
    BY <1>2 DEF ChainParent, platform
  <2> DEFINE b == IF found THEN DeleteParent ELSE None
             ok == clean[r] /\ (found <=> Here(r) \in held)
  <2>3. /\ pc'[r] = "sending" /\ body'[r] = b /\ clean'[r] = ok
        /\ b \in {None, DeleteParent} /\ ok \in BOOLEAN
    BY <2>1, <2>2, <1>a DEF TypeOK
  <2>4. ASSUME clean'[r], card[r].skill = "remove_application", card[r].ids = {} PROVE Removing(r)'
    <3>1. clean[r] /\ (found <=> Here(r) \in held) /\ Removing(r)
      BY <2>2, <2>3, <2>4, <1>a DEF Removals, RemovalOf
    <3>2. Gone(r) /\ Gone(r)' /\ Here(r)' = Here(r)
      BY <2>2, <3>1 DEF Removing, Gone, RowsOf, Here
    <3>3. CASE found
      <4>1. body'[r] = DeleteParent /\ DeleteParent # None /\ DeleteParent.op = "parent"
        BY <2>3, <3>3, CallsAre, NoneAssumption
      <4> QED
        BY <2>2, <2>3, <3>1, <3>2, <3>3, <4>1 DEF Removing
    <3>4. CASE ~found
      BY <2>2, <2>3, <3>1, <3>2, <3>4 DEF Removing
    <3> QED
      BY <3>3, <3>4
  <2>5. RemovalOf(r)'
    BY <2>2, <2>4 DEF RemovalOf
  <2>6. body' = [body EXCEPT ![r] = b] /\ clean' = [clean EXCEPT ![r] = ok]
    BY <2>1
  <2> HIDE DEF b, ok
  <2> QED
    BY <2>2, <2>3, <2>5, <2>6, QuietKeeps
<1>3. ASSUME NEW r \in Requests, Leave(r) PROVE Inv'
  <2>1. /\ pc[r] # "idle" /\ pc' = [pc EXCEPT ![r] = "left"]
        /\ clean' = [clean EXCEPT ![r] = FALSE]
        /\ body' = [body EXCEPT ![r] = None] /\ UNCHANGED <<platform, card>>
    BY <1>3 DEF Leave
  <2>2. RemovalOf(r)'
    BY <2>1, <1>a DEF RemovalOf, TypeOK
  <2> QED
    BY <2>1, <2>2, QuietKeeps
<1>4. CASE UNCHANGED vars
  <2>1. UNCHANGED <<rows, held, card, pc, body, clean>>
    BY <1>4 DEF vars, platform
  <2> QED
    BY <2>1, <1>a DEF Inv, TypeOK, KnownRows, Named, NamedBy, CallNames, OfCard,
                      Removals, RemovalOf, Removing, Gone, Here, RowsOf
<1> QED
  BY <1>1, <1>2, <1>3, <1>4, ConfirmKeeps, AcceptedKeeps DEF Next

-----------------------------------------------------------------------------
(* The theorems.                                                           *)

\* The access of users keeps its invariant from the start.
LEMMA AccessInvariant == Spec => []Inv
<1>1. Init => Inv
  <2> SUFFICES ASSUME Init PROVE Inv
    OBVIOUS
  <2>1. rows \in Seq(Row) /\ \A i \in 1 .. Len(rows) : rows[i] \in Row
    BY AccessAssumption DEF Init
  <2>3. rows \in Seq(Row \cup {None})
    <3>1. rows \in [1 .. Len(rows) -> Row \cup {None}] /\ Len(rows) \in Nat
      BY <2>1
    <3> QED
      BY <3>1
  <2>4. held \subseteq Users \X Apps
    <3>1. held = {<<g.user, g.app>> : g \in Range(rows)}
      BY DEF Init
    <3>2. \A g \in Range(rows) : g \in Row
      BY <2>1 DEF Range
    <3> QED
      BY <3>1, <3>2 DEF Row
  <2>5. TypeOK
    BY <2>3, <2>4 DEF Init, TypeOK
  <2>6. Named /\ Removals
    BY DEF Init, Named, NamedBy, Removals, RemovalOf
  <2> QED
    BY <2>5, <2>6 DEF Inv
<1> QED
  BY <1>1, NextKeeps, PTL DEF Spec

\* The two-step removal of an application (remove_application and its chain): when it has
\* ended and nothing came in the way, the user has no role in the application and no longer
\* the application either.
THEOREM RemovalCompletes == Spec => []RemovalIsComplete
<1>1. Inv => RemovalIsComplete
  BY DEF Inv, Removals, RemovalOf, Removing, Gone, RemovalIsComplete, Ended
<1> QED
  BY <1>1, AccessInvariant, PTL

\* The row i is one the card of r names, or has the id of.
OnCard(r, i) ==
  \/ card[r].ids = {} /\ rows[i].user = card[r].user /\ rows[i].app = card[r].app
  \/ i \in card[r].ids

\* What a step does to the rows that are there: those it changes are on the card of one
\* request, which has come to an end of its call.
RowsOfCards ==
  \A i \in DOMAIN rows : rows'[i] # rows[i] =>
    \E r \in Requests : pc'[r] # pc[r] /\ pc[r] = "sending" /\ OnCard(r, i)

\* A step that changes a row is the call of a request, on a row of its card.
LEMMA ChangesAreCalls ==
  ASSUME Inv, [Next]_vars, NEW i \in DOMAIN rows, rows'[i] # rows[i]
  PROVE  \E r \in Requests :
           Accepted(r) /\ pc[r] = "sending" /\ pc'[r] # pc[r] /\ OnCard(r, i)
<1>1. PICK r \in Requests : Accepted(r)
  <2>1. ASSUME NEW r \in Requests, Confirm(r) \/ Refused(r) \/ ChainParent(r) \/ Leave(r)
        PROVE  rows' = rows
    <3>1. ASSUME NEW c, NEW b, NEW ok, Resolved(r, c, b, ok) PROVE rows' = rows
      BY <3>1 DEF Resolved, platform
    <3>2. ASSUME NEW c PROVE /\ Assign(r, c) => rows' = rows
                             /\ Unassign(r, c) => rows' = rows
                             /\ RemoveApplication(r, c) => rows' = rows
                             /\ ById(r, c) => rows' = rows
      BY <3>1 DEF Assign, Unassign, RemoveApplication, ById
    <3>3. ASSUME NEW c PROVE ChangeRole(r, c) => rows' = rows
      BY <3>1 DEF ChangeRole
    <3>4. ASSUME NEW c PROVE EditAccess(r, c) => rows' = rows
      BY <3>1 DEF EditAccess
    <3>5. Refused(r) \/ ChainParent(r) \/ Leave(r) => rows' = rows
      BY DEF Refused, ChainParent, Leave, platform
    <3> QED
      BY <2>1, <3>2, <3>3, <3>4, <3>5 DEF Confirm
  <2>2. UNCHANGED vars => rows' = rows
    BY DEF vars, platform
  <2> QED
    BY <2>1, <2>2 DEF Next
<1>2. pc[r] = "sending" /\ pc'[r] # pc[r]
  BY <1>1 DEF Accepted, Inv, TypeOK
<1>3. /\ rows[i] # None /\ body[r] # None
      /\ (body[r].op = "delete" /\ i \in body[r].ids) \/ (body[r].op = "put" /\ i = body[r].id)
  BY <1>1, AcceptedRows
<1>4. (card[r].ids = {} /\ OfCard(r, i)) \/ i \in card[r].ids
  BY <1>3 DEF Inv, Named, NamedBy, CallNames
<1> QED
  BY <1>1, <1>2, <1>3, <1>4 DEF OfCard, OnCard

\* Whatever overlaps and whatever fails, with a platform that locks rows or one that does
\* not, a confirm touches only rows of the user and the application of its card, or rows the
\* card has the ids of (the resolvers of mcp/tool_registry.py read first and call later).
THEOREM TouchesOnlyItsCard == Spec => [][RowsOfCards]_vars
<1>1. Inv /\ [Next]_vars => [RowsOfCards]_vars
  <2> SUFFICES ASSUME Inv, [Next]_vars PROVE RowsOfCards
    OBVIOUS
  <2> QED
    BY ChangesAreCalls DEF RowsOfCards
<1> QED
  BY <1>1, AccessInvariant, PTL DEF Spec

\* On a platform that refuses a row whose version is old, a row is replaced with one field
\* changed besides: the full-row PUT that change_role and edit_access send drops nobody
\* else's change.
THEOREM ChangesOnlyWhatIsNamed ==
  ASSUME Locks PROVE Spec => OnlyWhatIsNamed
<1>1. Inv /\ [Next]_vars =>
        [\A i \in DOMAIN rows : rows'[i] # rows[i] =>
           \E r \in Requests :
             /\ pc'[r] # pc[r]
             /\ \/ card[r].ids = {} /\ rows[i].user = card[r].user /\ rows[i].app = card[r].app
                \/ i \in card[r].ids
             /\ rows'[i] # None => DiffersInOne(rows[i], rows'[i])]_vars
  <2> SUFFICES ASSUME Inv, [Next]_vars, NEW i \in DOMAIN rows, rows'[i] # rows[i]
               PROVE  \E r \in Requests :
                        /\ pc'[r] # pc[r]
                        /\ \/ card[r].ids = {} /\ rows[i].user = card[r].user /\ rows[i].app = card[r].app
                           \/ i \in card[r].ids
                        /\ rows'[i] # None => DiffersInOne(rows[i], rows'[i])
    OBVIOUS
  <2>1. PICK r \in Requests : Accepted(r) /\ pc[r] = "sending" /\ pc'[r] # pc[r] /\ OnCard(r, i)
    BY ChangesAreCalls
  <2>2. ASSUME rows'[i] # None PROVE DiffersInOne(rows[i], rows'[i])
    <3>1. /\ body[r] \in Calls /\ body[r] # None /\ body[r].op = "put"
          /\ rows'[i] = body[r].row /\ rows[i] = body[r].was
      BY <2>1, <2>2, AcceptedRows
    <3>2. OneField(body[r].was, body[r].row) /\ body[r].was \in Row
      BY <3>1, CallShape DEF Inv, Named, NamedBy, CallNames
    <3> QED
      BY <3>1, <3>2, OneFieldDiffers
  <2> QED
    BY <2>1, <2>2 DEF OnCard
<1> QED
  BY <1>1, AccessInvariant, PTL DEF Spec, OnlyWhatIsNamed

-----------------------------------------------------------------------------
(* The skills of users (SkillRun), for any callers, names, words and lists *)
(* of types.  The argument: an account is never changed once it is there,  *)
(* so what a run found or created still is when it is told (RunHolds); the *)
(* number an account was created under is one caller's (Numbered); and a   *)
(* list that is served is one the platform has had (ListsHold), so that a  *)
(* code that goes out is one that some list had for the word.              *)

Runs ==
  [stage : {"idle", "check", "card", "lookup", "post", "follow", "read", "shown"},
   number : Nat, args : Cardable, sent : [Skill!Fields -> Values],
   outs : [Names -> {"unread", "asked", "empty", "found", "failed"}],
   answer : Answers \cup {None}, cards : SUBSET [name : Names, of : Names]]

ListsHold ==
  /\ types \in had /\ had \subseteq Lists
  /\ lookups \in had \cup {None, Skill!NoList}

SkillTypeOK ==
  /\ users \in [Names -> Accounts \cup {None}]
  /\ ListsHold
  /\ run \in [Callers -> Runs]
  /\ count \in Nat

\* A card that lacks no required field.
Whole(args) ==
  /\ args \in Skill!CreateArgs
  /\ args["userName"] \in Names /\ args["accountType"] \in TypeWords

\* The word itself, or a code a list has had for it.
Coded(word, code) == code = word \/ \E l \in had : Skill!Means(word, code, l)

\* What was sent completes the card.
AsCarded(args, sent) ==
  /\ Coded(args["accountType"], sent["accountType"])
  /\ \A f \in Skill!Fields \ {"accountType"} :
       IF args[f] # None THEN sent[f] = args[f] ELSE sent[f] # None

\* The account of r's card is r's own.
CreatedBy(r) ==
  /\ r.number > 0 /\ r.args["userName"] \in Names
  /\ users[r.args["userName"]] # None
  /\ users[r.args["userName"]].by = r.number

RunHolds(r) ==
  /\ r.stage \in {"check", "card", "lookup", "post", "follow"} =>
       r.number > 0 /\ Whole(r.args)
  /\ r.stage \in {"check", "card", "lookup", "post", "follow", "read"} =>
       r.answer = None /\ r.cards = {}
  /\ r.stage = "post" => r.sent["userName"] = r.args["userName"] /\ AsCarded(r.args, r.sent)
  /\ r.stage = "follow" \/ r.answer = "created" => CreatedBy(r)
  /\ \A n \in Names : r.outs[n] = "found" => users[n] # None
  /\ \A k \in r.cards : /\ k.of = k.name /\ users[k.name] # None
                        /\ k.name = r.args["userName"] \/ r.outs[k.name] = "found"

\* A call has its number to itself.
Numbered ==
  \A c \in Callers :
    /\ run[c].number <= count
    /\ \A d \in Callers : run[c].number = run[d].number /\ run[c].number > 0 => c = d

AccountsHold ==
  \A n \in Names : users[n] # None /\ users[n].by # 0 =>
    users[n].card["userName"] = n /\ AsCarded(users[n].card, users[n].sent)

SkillInv ==
  /\ SkillTypeOK
  /\ \A c \in Callers : RunHolds(run[c])
  /\ Numbered
  /\ AccountsHold

\* An account that is there is never changed, and no list is forgotten.
AccountsStay ==
  /\ users' \in [Names -> Accounts \cup {None}]
  /\ ListsHold' /\ had \subseteq had'
  /\ \A n \in Names : users[n] # None => users'[n] = users[n]

\* What completes a card still does when lists are added.
LEMMA AsCardedOn ==
  ASSUME AccountsStay, NEW args, NEW sent, AsCarded(args, sent)
  PROVE  AsCarded(args, sent)'
<1>1. \A word, code : Coded(word, code) => Coded(word, code)'
  BY DEF Coded, AccountsStay, Skill!Means
<1> QED
  BY <1>1 DEF AsCarded

\* A run still holds when accounts are added.
LEMMA RunHoldsOn ==
  ASSUME NEW r \in Runs, RunHolds(r), AccountsStay
  PROVE  RunHolds(r)'
<1>1. CreatedBy(r) => CreatedBy(r)'
  BY DEF CreatedBy, AccountsStay
<1>2. \A k \in r.cards : k.name \in Names
  BY DEF Runs
<1>3. AsCarded(r.args, r.sent) => AsCarded(r.args, r.sent)'
  BY AsCardedOn
<1> QED
  BY <1>1, <1>2, <1>3 DEF RunHolds, AccountsStay, Whole, Runs

\* A step of one caller: its run goes on to r, and no account is changed.
LEMMA CallerKeeps ==
  ASSUME SkillInv, NEW c \in Callers, NEW r \in Runs,
         run' = [run EXCEPT ![c] = r], AccountsStay, count' = count,
         RunHolds(r)', r.number = run[c].number, AccountsHold'
  PROVE  SkillInv'
<1>1. SkillTypeOK'
  BY DEF SkillInv, SkillTypeOK, AccountsStay
<1>2. ASSUME NEW d \in Callers PROVE RunHolds(run[d])'
  <2>1. run'[c] = r /\ (d # c => run'[d] = run[d])
    BY DEF SkillInv, SkillTypeOK
  <2>2. CASE d = c
    BY <2>1, <2>2 DEF RunHolds, CreatedBy
  <2>3. CASE d # c
    <3>1. run[d] \in Runs /\ RunHolds(run[d])
      BY DEF SkillInv, SkillTypeOK
    <3>2. RunHolds(run[d]) => \A q \in {run[d]} : RunHolds(q)'
      BY <3>1, RunHoldsOn
    <3> QED
      BY <2>1, <2>3, <3>1, <3>2 DEF RunHolds, CreatedBy
  <2> QED
    BY <2>2, <2>3
<1>3. Numbered'
  BY DEF SkillInv, SkillTypeOK, Numbered
<1> QED
  BY <1>1, <1>2, <1>3 DEF SkillInv


LEMMA IdleShape ==
  /\ Skill!Idle \in Runs /\ Skill!Idle.answer = None /\ Skill!Idle.cards = {}
  /\ Skill!Idle.outs = [n \in Names |-> "unread"]
<1>1. Skill!NoArgs \in [Skill!Fields -> Values] /\ Skill!NoArgs \in Cardable
  BY DEF Skill!NoArgs, Values, Cardable
<1> HIDE DEF Values, Cardable
<1> QED
  BY <1>1 DEF Skill!Idle, Runs

\* A new call: its number is the next, and it has found, created and shown nothing.
LEMMA CalledKeeps ==
  ASSUME SkillInv, NEW c \in Callers, NEW lacks \in BOOLEAN, NEW r \in Runs,
         Skill!Called(c, lacks, r), r.number = count + 1, r.answer = None, r.cards = {},
         ~lacks => \/ r.stage = "check" /\ Whole(r.args)
                   \/ r.stage = "read",
         \A n \in Names : r.outs[n] # "found"
  PROVE  SkillInv'
<1> DEFINE asked == [Skill!Idle EXCEPT !.stage = "shown", !.answer = "asked"]
<1>1. asked \in Runs /\ asked.number = 0 /\ RunHolds(asked)
  BY DEF Skill!Idle, Skill!NoArgs, Runs, RunHolds, Cardable, Values, Answers
<1>2. RunHolds(r) \/ lacks
  BY NoneIsApart DEF RunHolds, Answers, SkillInv, SkillTypeOK
<1>3. AccountsStay /\ AccountsHold' /\ count' = count + 1
  BY DEF Skill!Called, Skill!platform, SkillInv, SkillTypeOK, ListsHold, AccountsStay, AccountsHold, AsCarded, Coded
<1>4. PICK q \in Runs : run' = [run EXCEPT ![c] = q] /\ RunHolds(q) /\ q.number \in {0, count + 1}
  <2>1. run' = [run EXCEPT ![c] = IF lacks THEN asked ELSE r]
    BY DEF Skill!Called, Skill!Advance
  <2> QED
    BY <2>1, <1>1, <1>2
<1>5. SkillTypeOK'
  BY <1>3, <1>4 DEF SkillInv, SkillTypeOK, AccountsStay
<1>6. ASSUME NEW d \in Callers PROVE RunHolds(run[d])'
  <2>1. PICK s \in Runs : run'[d] = s /\ RunHolds(s)
    BY <1>4 DEF SkillInv, SkillTypeOK
  <2>2. RunHolds(s)'
    BY <2>1, <1>3, RunHoldsOn
  <2> QED
    BY <2>1, <2>2 DEF RunHolds, CreatedBy
<1>7. Numbered'
  BY <1>3, <1>4 DEF SkillInv, SkillTypeOK, Numbered, Runs
<1> QED
  BY <1>3, <1>5, <1>6, <1>7 DEF SkillInv

\* A call of create_user or of user_lookup.
LEMMA CallsKeep ==
  ASSUME SkillInv, NEW c \in Callers, Skill!CallCreate(c) \/ Skill!CallLookup(c)
  PROVE  SkillInv'
<1>1. CASE Skill!CallCreate(c)
  <2> DEFINE R(args) == [Skill!Idle EXCEPT !.stage = "check", !.number = count + 1, !.args = args]
  <2>1. PICK args \in Skill!CreateArgs : Skill!Called(c, Skill!Missing(args) # {}, R(args))
    BY <1>1 DEF Skill!CallCreate
  <2>2. /\ R(args) \in Runs /\ R(args).number = count + 1 /\ R(args).answer = None
        /\ R(args).cards = {} /\ R(args).stage = "check" /\ R(args).args = args
        /\ R(args).outs = [n \in Names |-> "unread"]
    <3>1. args \in Cardable /\ count + 1 \in Nat
      BY DEF Cardable, SkillInv, SkillTypeOK
    <3> QED
      BY <3>1, IdleShape DEF Runs
  <2>3. Skill!Missing(args) = {} => Whole(args)
    <3>1. /\ args["userName"] \in Names \cup {None}
          /\ args["accountType"] \in TypeWords \cup {None}
      BY DEF Skill!CreateArgs
    <3>2. Skill!Missing(args) = {} => args["userName"] # None /\ args["accountType"] # None
      BY DEF Skill!Missing, Skill!Required
    <3> QED
      BY <3>1, <3>2 DEF Whole
  <2> HIDE DEF R
  <2> QED
    BY <2>1, <2>2, <2>3, CalledKeeps
<1>2. CASE Skill!CallLookup(c)
  <2> DEFINE R(asked) == [Skill!Idle EXCEPT !.stage = "read", !.number = count + 1,
                            !.outs = [n \in Names |-> IF n \in asked THEN "asked" ELSE "unread"]]
  <2>1. PICK asked \in SUBSET Names : Skill!Called(c, asked = {}, R(asked))
    BY <1>2 DEF Skill!CallLookup
  <2>2. /\ R(asked) \in Runs /\ R(asked).number = count + 1 /\ R(asked).answer = None
        /\ R(asked).cards = {} /\ R(asked).stage = "read"
        /\ \A n \in Names : R(asked).outs[n] # "found"
    <3> DEFINE outs == [n \in Names |-> IF n \in asked THEN "asked" ELSE "unread"]
    <3>1. /\ count + 1 \in Nat
          /\ outs \in [Names -> {"unread", "asked", "empty", "found", "failed"}]
          /\ \A n \in Names : outs[n] # "found"
      BY DEF SkillInv, SkillTypeOK
    <3> HIDE DEF outs
    <3>2. R(asked) = [Skill!Idle EXCEPT !.stage = "read", !.number = count + 1, !.outs = outs]
      BY DEF outs
    <3> HIDE DEF R
    <3> QED
      BY <3>1, <3>2, IdleShape DEF Runs
  <2> HIDE DEF R
  <2> QED
    BY <2>1, <2>2, CalledKeeps
<1> QED
  BY <1>1, <1>2

\* What a stage, an answer and cards make of a run.
LEMMA ShowRun ==
  ASSUME NEW r \in Runs, NEW answer \in Answers, NEW cards \in SUBSET [name : Names, of : Names]
  PROVE  LET s == [[r EXCEPT !.stage = "shown"] EXCEPT !.answer = answer, !.cards = cards]
         IN  /\ s \in Runs /\ s.number = r.number /\ s.args = r.args /\ s.outs = r.outs
             /\ s.stage = "shown" /\ s.answer = answer /\ s.cards = cards
BY DEF Runs

\* A turn ends without an account created and without cards.
LEMMA EndKeeps ==
  ASSUME SkillInv, NEW c \in Callers, NEW answer \in Answers \ {"created"},
         Skill!Show(c, answer, {}), AccountsStay, AccountsHold', count' = count
  PROVE  SkillInv'
<1> DEFINE s == [[run[c] EXCEPT !.stage = "shown"] EXCEPT !.answer = answer, !.cards = {}]
<1>1. run[c] \in Runs /\ RunHolds(run[c])
  BY DEF SkillInv, SkillTypeOK
<1>2. s \in Runs /\ s.number = run[c].number /\ s.stage = "shown" /\ s.answer = answer /\ s.cards = {}
      /\ s.outs = run[c].outs
  BY <1>1 DEF Runs
<1>3. run' = [run EXCEPT ![c] = s]
  BY DEF Skill!Show, Skill!Advance, Skill!To
<1> HIDE DEF s
<1>4. RunHolds(s)
  BY <1>1, <1>2 DEF RunHolds
<1>5. \A q \in {s} : RunHolds(q)'
  BY <1>2, <1>4, RunHoldsOn
<1>6. \E q \in Runs : q = s
  BY <1>2
<1> QED
  BY <1>2, <1>3, <1>5, CallerKeeps


LEMMA QuietUsers ==
  ASSUME SkillInv, UNCHANGED <<Skill!platform, lookups>>
  PROVE  AccountsStay /\ AccountsHold'
BY DEF SkillInv, SkillTypeOK, ListsHold, AccountsStay, AccountsHold, AsCarded, Coded, Skill!platform

\* A run goes on before its tool is called.
LEMMA GoOnKeeps ==
  ASSUME SkillInv, NEW c \in Callers, NEW stage \in {"card", "lookup"},
         run[c].stage \in {"check", "card"}, Skill!Advance(c, Skill!To(c, stage)),
         UNCHANGED <<Skill!platform, lookups, count>>
  PROVE  SkillInv'
<1> DEFINE s == [run[c] EXCEPT !.stage = stage]
<1>1. run[c] \in Runs /\ RunHolds(run[c]) /\ AccountsStay /\ AccountsHold'
  BY QuietUsers DEF SkillInv, SkillTypeOK
<1>2. /\ s \in Runs /\ s.number = run[c].number /\ s.stage = stage /\ s.answer = run[c].answer
      /\ s.cards = run[c].cards /\ s.outs = run[c].outs /\ s.args = run[c].args
  BY <1>1 DEF Runs
<1>3. run' = [run EXCEPT ![c] = s]
  BY DEF Skill!Advance, Skill!To
<1> HIDE DEF s
<1>4. RunHolds(s)
  BY <1>1, <1>2 DEF RunHolds, CreatedBy
<1>5. \A q \in {s} : RunHolds(q)'
  BY <1>1, <1>2, <1>4, RunHoldsOn
<1> QED
  BY <1>1, <1>2, <1>3, <1>5, CallerKeeps

\* What apply_defaults makes of a whole card.
LEMMA FilledCompletes ==
  ASSUME NEW args, Whole(args), NEW type \in TypeWords \cup Codes, Coded(args["accountType"], type),
         NEW sent, sent = [Skill!Filled(args) EXCEPT !["accountType"] = type]
  PROVE  /\ sent \in [Skill!Fields -> Values]
         /\ sent["userName"] = args["userName"] /\ AsCarded(args, sent)
<1>1. /\ args["userName"] \in Names /\ args["accountType"] \in TypeWords
      /\ args["emailFlag"] \in {"Y", None} /\ args["ssoUserName"] = None
  BY DEF Whole, Skill!CreateArgs
<1>2. /\ args["userName"] # None /\ args["accountType"] # None
      /\ None \notin {"Y", "N", "L"} /\ type \in Values
  BY <1>1, NoneIsApart DEF Values
<1>3. /\ Skill!Filled(args) = [f \in Skill!Fields |-> Skill!Filled(args)[f]]
      /\ Skill!Filled(args)["userName"] = args["userName"]
      /\ Skill!Filled(args)["ssoUserName"] = args["userName"]
      /\ Skill!Filled(args)["emailFlag"] = IF args["emailFlag"] = None THEN "N" ELSE args["emailFlag"]
      /\ Skill!Filled(args)["accountType"] = args["accountType"]
  <2>1. DOMAIN Skill!Defaults = {"accountType", "emailFlag"}
    BY DEF Skill!Defaults
  <2>2. Skill!Defaults["emailFlag"] = "N"
    BY DEF Skill!Defaults
  <2>3. Skill!Filled(args)["userName"] = args["userName"]
    BY <1>2, <2>1 DEF Skill!Filled, Skill!Fields
  <2>4. Skill!Filled(args)["accountType"] = args["accountType"]
    BY <1>2, <2>1 DEF Skill!Filled, Skill!Fields
  <2>5. Skill!Filled(args)["ssoUserName"] = args["userName"]
    BY <1>1, <2>1 DEF Skill!Filled, Skill!Fields
  <2>6. Skill!Filled(args)["emailFlag"] = IF args["emailFlag"] = None THEN "N" ELSE args["emailFlag"]
    BY <2>1, <2>2 DEF Skill!Filled, Skill!Fields
  <2>7. Skill!Filled(args) = [f \in Skill!Fields |-> Skill!Filled(args)[f]]
    BY DEF Skill!Filled
  <2> QED
    BY <2>3, <2>4, <2>5, <2>6, <2>7
<1>4. /\ sent = [f \in Skill!Fields |-> IF f = "accountType" THEN type ELSE Skill!Filled(args)[f]]
  BY <1>3
<1>5. /\ sent["userName"] = args["userName"] /\ sent["ssoUserName"] = args["userName"]
      /\ sent["emailFlag"] = IF args["emailFlag"] = None THEN "N" ELSE args["emailFlag"]
      /\ sent["accountType"] = type
  BY <1>3, <1>4 DEF Skill!Fields
<1>6. sent \in [Skill!Fields -> Values]
  BY <1>1, <1>2, <1>4, <1>5 DEF Skill!Fields, Values
<1>7. AsCarded(args, sent)
  BY <1>1, <1>2, <1>5 DEF AsCarded, Skill!Fields
<1> QED
  BY <1>5, <1>6, <1>7

\* What a word is resolved to, by a list that is served.
LEMMA ResolvedShape ==
  ASSUME NEW l, l \in Lists \cup {Skill!NoList}, NEW word \in TypeWords, NEW code \in Skill!Resolved(word, l)
  PROVE  /\ code \in TypeWords \cup Codes
         /\ code = word \/ (l \in Lists /\ Skill!Means(word, code, l))
<1>1. CASE code = word
  BY <1>1
<1>2. CASE code # word
  <2>1. PICK a \in DOMAIN l : code = l[a] /\ (a = word \/ (<<word, a>> \in Within /\ word \notin DOMAIN l))
    BY <1>2 DEF Skill!Resolved
  <2>2. l \in Lists
    BY <2>1 DEF Skill!NoList
  <2> QED
    BY <2>1, <2>2 DEF Codes, Skill!Means
<1> QED
  BY <1>1, <1>2

\* The lookups: the card is completed.
LEMMA LookupKeeps ==
  ASSUME SkillInv, NEW c \in Callers, Skill!Lookup(c)
  PROVE  SkillInv'
<1> DEFINE args == run[c].args
<1>0. /\ run[c] \in Runs /\ RunHolds(run[c]) /\ run[c].stage = "lookup"
      /\ users' = users /\ types' = types /\ had' = had /\ count' = count
  BY DEF SkillInv, SkillTypeOK, Skill!Lookup, Skill!At, Skill!platform
<1>2. run[c].number > 0 /\ Whole(args) /\ run[c].answer = None /\ run[c].cards = {}
  BY <1>0 DEF RunHolds
<1>l. lookups' \in had \cup {Skill!NoList}
  BY NoneIsApart DEF Skill!Lookup, Skill!Reads, SkillInv, SkillTypeOK, ListsHold
<1>1. AccountsStay /\ AccountsHold'
  BY <1>0, <1>l DEF SkillInv, SkillTypeOK, ListsHold, AccountsStay, AccountsHold, AsCarded, Coded
<1>a. PICK type \in Skill!Resolved(Skill!Filled(args)["accountType"], lookups') :
        run' = [run EXCEPT ![c] = [[run[c] EXCEPT !.stage = "post"]
                  EXCEPT !.sent = [Skill!Filled(args) EXCEPT !["accountType"] = type]]]
  BY DEF Skill!Lookup, Skill!Advance, Skill!To
<1> DEFINE sent == [Skill!Filled(args) EXCEPT !["accountType"] = type]
           s    == [[run[c] EXCEPT !.stage = "post"] EXCEPT !.sent = sent]
<1>3. run' = [run EXCEPT ![c] = s]
  BY <1>a
<1>4. sent \in [Skill!Fields -> Values] /\ sent["userName"] = args["userName"] /\ AsCarded(args, sent)
  <2>1. Skill!Filled(args)["accountType"] = args["accountType"]
    BY <1>2, NoneIsApart DEF Skill!Filled, Skill!Fields, Whole
  <2>2. args["accountType"] \in TypeWords /\ lookups' \in Lists \cup {Skill!NoList}
    BY <1>2, <1>l DEF Whole, SkillInv, SkillTypeOK, ListsHold
  <2>3. /\ type \in TypeWords \cup Codes
        /\ type = args["accountType"] \/ (lookups' \in Lists /\ Skill!Means(args["accountType"], type, lookups'))
    BY <1>a, <2>1, <2>2, ResolvedShape
  <2>4. Coded(args["accountType"], type)
    <3>1. lookups' = Skill!NoList => ~Skill!Means(args["accountType"], type, lookups')
      BY DEF Skill!Means, Skill!NoList
    <3> QED
      BY <1>l, <2>3, <3>1 DEF Coded
  <2> HIDE DEF args
  <2> QED
    BY <1>2, <2>3, <2>4, FilledCompletes
<1> HIDE DEF sent
<1>5. /\ s \in Runs /\ s.number = run[c].number /\ s.stage = "post" /\ s.answer = run[c].answer
      /\ s.cards = {} /\ s.outs = run[c].outs /\ s.args = args /\ s.sent = sent
  BY <1>0, <1>2, <1>4 DEF Runs
<1> HIDE DEF s
<1>6. RunHolds(s)
  BY <1>0, <1>2, <1>4, <1>5 DEF RunHolds, CreatedBy
<1>7. \A q \in {s} : RunHolds(q)'
  BY <1>1, <1>5, <1>6, RunHoldsOn
<1> QED
  BY <1>0, <1>1, <1>3, <1>5, <1>7, CallerKeeps


\* The steps up to the confirm: the check, and what the caller says to the card.
LEMMA CardKeeps ==
  ASSUME SkillInv, NEW c \in Callers,
         Skill!Check(c) \/ Skill!Decline(c) \/ Skill!Confirm(c)
  PROVE  SkillInv'
<1>1. AccountsStay /\ AccountsHold' /\ UNCHANGED <<Skill!platform, lookups, count>>
  BY QuietUsers DEF Skill!Check, Skill!Decline, Skill!Confirm
<1>2. run[c].stage \in {"check", "card"}
  BY DEF Skill!Check, Skill!Decline, Skill!Confirm, Skill!At
<1>3. \/ \E answer \in {"exists", "declined", "denied"} : Skill!Show(c, answer, {})
      \/ \E stage \in {"card", "lookup"} : Skill!Advance(c, Skill!To(c, stage))
  BY DEF Skill!Check, Skill!Decline, Skill!Confirm
<1>4. {"exists", "declined", "denied"} \subseteq Answers \ {"created"}
  BY DEF Answers
<1> QED
  BY <1>1, <1>2, <1>3, <1>4, EndKeeps, GoOnKeeps

\* The platform's answer to the creation, which is lost, refused or makes one new account.
LEMMA PostKeeps ==
  ASSUME SkillInv, NEW c \in Callers, Skill!Post(c)
  PROVE  SkillInv'
<1> DEFINE name    == run[c].args["userName"]
           account == [by |-> run[c].number, card |-> run[c].args, sent |-> run[c].sent]
           s       == [run[c] EXCEPT !.stage = "follow"]
<1>1. run[c] \in Runs /\ RunHolds(run[c]) /\ run[c].stage = "post" /\ run[c].answer = None
  BY DEF SkillInv, SkillTypeOK, Skill!Post, Skill!At, RunHolds
<1>2. /\ run[c].number > 0 /\ Whole(run[c].args) /\ run[c].sent["userName"] = name
      /\ AsCarded(run[c].args, run[c].sent) /\ run[c].cards = {} /\ name \in Names
  BY <1>1 DEF RunHolds, Whole
<1>3. account \in Accounts /\ account # None
  BY <1>1, NoneIsApart DEF Runs, Accounts
<1>4. PICK out \in {"done", "rejected", "failed"}, creates \in BOOLEAN :
        /\ Skill!Outcome(out, creates, users[name] = None)
        /\ users' = IF creates THEN [users EXCEPT ![name] = account] ELSE users
        /\ IF Skill!Accepted(out) THEN Skill!Advance(c, Skill!To(c, "follow"))
                                  ELSE Skill!Show(c, out, {})
  BY <1>2 DEF Skill!Post, Skill!Account
<1> HIDE DEF account
<1>5. creates => users[name] = None
  BY <1>4 DEF Skill!Outcome
<1>6. AccountsStay
  <2>1. types' = types /\ had' = had /\ lookups' = lookups
    BY DEF Skill!Post
  <2> QED
    BY <2>1, <1>2, <1>3, <1>4, <1>5 DEF AccountsStay, SkillInv, SkillTypeOK, ListsHold
<1>7. AccountsHold'
  <2> SUFFICES ASSUME NEW n \in Names, users'[n] # None, users'[n].by # 0
               PROVE  users'[n].card["userName"] = n /\ AsCarded(users'[n].card, users'[n].sent)
    <3>1. had' = had
      BY DEF Skill!Post
    <3> QED
      BY <3>1 DEF AccountsHold, AsCarded, Coded
  <2>1. CASE users'[n] = users[n]
    BY <2>1 DEF SkillInv, AccountsHold
  <2>2. CASE users'[n] # users[n]
    <3>1. n = name /\ users'[n] = account
      BY <1>2, <1>4, <2>2 DEF SkillInv, SkillTypeOK
    <3> QED
      BY <1>2, <3>1 DEF account
  <2> QED
    BY <2>1, <2>2
<1>8. count' = count
  BY DEF Skill!Post
<1>9. CASE ~Skill!Accepted(out)
  <2>1. out \in Answers \ {"created"} /\ Skill!Show(c, out, {})
    BY <1>4, <1>9 DEF Answers, Skill!Accepted
  <2> QED
    BY <2>1, <1>6, <1>7, <1>8, EndKeeps
<1>10. CASE Skill!Accepted(out)
  <2>1. users'[name] = account /\ account.by = run[c].number
    BY <1>2, <1>4, <1>10 DEF Skill!Accepted, Skill!Outcome, SkillInv, SkillTypeOK, account
  <2>2. run' = [run EXCEPT ![c] = s]
    BY <1>4, <1>10 DEF Skill!Advance, Skill!To
  <2>3. /\ s \in Runs /\ s.number = run[c].number /\ s.stage = "follow" /\ s.answer = None
        /\ s.cards = {} /\ s.outs = run[c].outs /\ s.args = run[c].args
    BY <1>1, <1>2 DEF Runs
  <2> HIDE DEF s
  <2>4. \A q \in {s} : CreatedBy(q)'
    BY <1>2, <1>3, <2>1, <2>3 DEF CreatedBy
  <2>5. \A n \in Names : run[c].outs[n] = "found" => users'[n] # None
    BY <1>1, <1>6 DEF RunHolds, AccountsStay
  <2>6. \A q \in {s} : RunHolds(q)'
    BY <1>2, <2>3, <2>4, <2>5 DEF RunHolds, Whole
  <2> QED
    BY <2>2, <2>3, <2>6, <1>6, <1>7, <1>8, CallerKeeps
<1> QED
  BY <1>9, <1>10


\* The account is read back, and shown with the news.
LEMMA FollowKeeps ==
  ASSUME SkillInv, NEW c \in Callers, Skill!Follow(c)
  PROVE  SkillInv'
<1> DEFINE name == run[c].args["userName"]
<1>1. /\ run[c] \in Runs /\ RunHolds(run[c]) /\ run[c].stage = "follow"
      /\ AccountsStay /\ AccountsHold' /\ count' = count
  BY QuietUsers DEF SkillInv, SkillTypeOK, Skill!Follow, Skill!At
<1>2. CreatedBy(run[c]) /\ name \in Names /\ users[name] # None
  BY <1>1 DEF RunHolds, CreatedBy
<1>3. PICK seen \in Skill!Reads(IF users[name] = None THEN "empty" ELSE "found") :
        Skill!Show(c, "created", {Skill!Card(name, name) : x \in {"found"} \cap {seen}})
  BY DEF Skill!Follow
<1> DEFINE cards == {Skill!Card(name, name) : x \in {"found"} \cap {seen}}
           s     == [[run[c] EXCEPT !.stage = "shown"] EXCEPT !.answer = "created", !.cards = cards]
<1>4. cards \in SUBSET [name : Names, of : Names]
  BY <1>2 DEF Skill!Card
<1>5. \A k \in cards : k.name = name /\ k.of = name
  BY DEF Skill!Card
<1>6. run' = [run EXCEPT ![c] = s]
  BY <1>3 DEF Skill!Show, Skill!Advance, Skill!To
<1> HIDE DEF cards
<1>7. /\ s \in Runs /\ s.number = run[c].number /\ s.args = run[c].args /\ s.outs = run[c].outs
      /\ s.stage = "shown" /\ s.answer = "created" /\ s.cards = cards
  BY <1>1, <1>4 DEF Runs, Answers
<1> HIDE DEF s
<1>8. RunHolds(s)
  BY <1>1, <1>2, <1>5, <1>7 DEF RunHolds, CreatedBy
<1>9. \A q \in {s} : RunHolds(q)'
  BY <1>1, <1>7, <1>8, RunHoldsOn
<1> QED
  BY <1>1, <1>6, <1>7, <1>9, CallerKeeps

\* One of the reads of a round.
LEMMA ReadKeeps ==
  ASSUME SkillInv, NEW c \in Callers, NEW n \in Names, Skill!Read(c, n)
  PROVE  SkillInv'
<1>1. /\ run[c] \in Runs /\ RunHolds(run[c]) /\ run[c].stage = "read"
      /\ AccountsStay /\ AccountsHold' /\ count' = count
  BY QuietUsers DEF SkillInv, SkillTypeOK, Skill!Read, Skill!At
<1>2. PICK seen \in Skill!Reads(IF users[n] = None THEN "empty" ELSE "found") :
        run' = [run EXCEPT ![c] = [run[c] EXCEPT !.outs[n] = seen]]
  BY DEF Skill!Read, Skill!Advance
<1>3. seen \in {"failed", "empty", "found"} /\ (seen = "found" => users[n] # None)
  BY <1>2 DEF Skill!Reads
<1> DEFINE s == [run[c] EXCEPT !.outs[n] = seen]
<1>s. run' = [run EXCEPT ![c] = s]
  BY <1>2
<1>4. /\ s \in Runs /\ s.number = run[c].number /\ s.args = run[c].args /\ s.stage = "read"
      /\ s.answer = run[c].answer /\ s.cards = run[c].cards
      /\ \A m \in Names : s.outs[m] = IF m = n THEN seen ELSE run[c].outs[m]
  BY <1>1, <1>3 DEF Runs
<1> HIDE DEF s
<1>5. s.answer = None /\ s.cards = {} /\ \A m \in Names : s.outs[m] = "found" => users[m] # None
  BY <1>1, <1>3, <1>4 DEF RunHolds
<1>6. RunHolds(s)
  BY <1>4, <1>5, NoneIsApart DEF RunHolds, Answers
<1>7. \A q \in {s} : RunHolds(q)'
  BY <1>1, <1>4, <1>6, RunHoldsOn
<1> QED
  BY <1>1, <1>s, <1>4, <1>7, CallerKeeps

\* The answer to a round, with the records and the extras of the users that were found.
LEMMA AnswerKeeps ==
  ASSUME SkillInv, NEW c \in Callers, Skill!Answer(c)
  PROVE  SkillInv'
<1> DEFINE found == {n \in Names : run[c].outs[n] = "found"}
<1>1. /\ run[c] \in Runs /\ RunHolds(run[c]) /\ run[c].stage = "read"
      /\ AccountsStay /\ AccountsHold' /\ count' = count
  BY QuietUsers DEF SkillInv, SkillTypeOK, Skill!Answer, Skill!At
<1>2. PICK answer \in {"failed", "answered"}, cards \in SUBSET {Skill!Card(n, n) : n \in found} :
        Skill!Show(c, answer, cards)
  <2>1. Skill!Related(c) = {Skill!Card(n, n) : n \in found}
    BY NoneIsApart DEF Skill!Related, Skill!Scoped
  <2> DEFINE outs    == {run[c].outs[n] : n \in Names} \ {"unread"}
             records == {Skill!Card(n, n) : n \in found}
  <2>2. PICK cards \in {{}, records} \cup {records \cup extras : extras \in SUBSET Skill!Related(c)} :
          Skill!Show(c, IF outs = {"failed"} THEN "failed" ELSE "answered", cards)
    BY DEF Skill!Answer
  <2> HIDE DEF outs, records
  <2>3. cards \in SUBSET records
    BY <2>1, <2>2 DEF records
  <2> QED
    BY <2>2, <2>3 DEF records
<1> DEFINE s == [[run[c] EXCEPT !.stage = "shown"] EXCEPT !.answer = answer, !.cards = cards]
<1>3. cards \in SUBSET [name : Names, of : Names]
  BY DEF Skill!Card
<1>4. \A k \in cards : k.of = k.name /\ k.name \in Names /\ run[c].outs[k.name] = "found"
  BY DEF Skill!Card
<1>5. run' = [run EXCEPT ![c] = s]
  BY <1>2 DEF Skill!Show, Skill!Advance, Skill!To
<1>6. /\ s \in Runs /\ s.number = run[c].number /\ s.args = run[c].args /\ s.outs = run[c].outs
      /\ s.stage = "shown" /\ s.answer = answer /\ s.cards = cards
  BY <1>1, <1>3 DEF Runs, Answers
<1> HIDE DEF s
<1>7. RunHolds(s)
  BY <1>1, <1>4, <1>6 DEF RunHolds
<1>8. \A q \in {s} : RunHolds(q)'
  BY <1>1, <1>6, <1>7, RunHoldsOn
<1> QED
  BY <1>1, <1>5, <1>6, <1>8, CallerKeeps


LEMMA SkillNextKeeps == SkillInv /\ [Skill!Next]_(Skill!vars) => SkillInv'
<1> SUFFICES ASSUME SkillInv, [Skill!Next]_(Skill!vars) PROVE SkillInv'
  OBVIOUS
<1>1. ASSUME NEW c \in Callers, Skill!CallCreate(c) \/ Skill!CallLookup(c) PROVE SkillInv'
  BY <1>1, CallsKeep
<1>2. ASSUME NEW c \in Callers, Skill!Check(c) \/ Skill!Decline(c) \/ Skill!Confirm(c) PROVE SkillInv'
  BY <1>2, CardKeeps
<1>3. ASSUME NEW c \in Callers, Skill!Lookup(c) PROVE SkillInv'
  BY <1>3, LookupKeeps
<1>4. ASSUME NEW c \in Callers, Skill!Post(c) PROVE SkillInv'
  BY <1>4, PostKeeps
<1>5. ASSUME NEW c \in Callers, Skill!Follow(c) PROVE SkillInv'
  BY <1>5, FollowKeeps
<1>6. ASSUME NEW c \in Callers, NEW n \in Names, Skill!Read(c, n) PROVE SkillInv'
  BY <1>6, ReadKeeps
<1>7. ASSUME NEW c \in Callers, Skill!Answer(c) PROVE SkillInv'
  BY <1>7, AnswerKeeps
<1>8. ASSUME UNCHANGED <<users, run, count>>, ListsHold', had \subseteq had' PROVE SkillInv'
  <2>1. AccountsStay
    BY <1>8 DEF AccountsStay, SkillInv, SkillTypeOK
  <2>2. SkillTypeOK' /\ Numbered'
    BY <1>8 DEF SkillInv, SkillTypeOK, Numbered
  <2>3. ASSUME NEW c \in Callers PROVE RunHolds(run[c])'
    <3>1. \A q \in {run[c]} : RunHolds(q)'
      BY <2>1, RunHoldsOn DEF SkillInv, SkillTypeOK
    <3> QED
      BY <1>8, <3>1 DEF RunHolds, CreatedBy, AsCarded, Coded
  <2>4. AccountsHold'
    BY <1>8, <2>1, AsCardedOn DEF SkillInv, AccountsHold, AsCarded, Coded
  <2> QED
    BY <2>2, <2>3, <2>4 DEF SkillInv
<1>9. ASSUME Skill!Expire \/ UNCHANGED Skill!vars PROVE SkillInv'
  <2>1. ListsHold' /\ had \subseteq had' /\ UNCHANGED <<users, run, count>>
    BY <1>9 DEF Skill!Expire, Skill!vars, Skill!platform, ListsHold, SkillInv, SkillTypeOK
  <2> QED
    BY <2>1, <1>8
<1>10. ASSUME Skill!Relist PROVE SkillInv'
  <2>1. ListsHold' /\ had \subseteq had' /\ UNCHANGED <<users, run, count>>
    BY <1>10 DEF Skill!Relist, ListsHold, SkillInv, SkillTypeOK
  <2> QED
    BY <2>1, <1>8
<1> QED
  BY <1>1, <1>2, <1>3, <1>4, <1>5, <1>6, <1>7, <1>9, <1>10 DEF Skill!Next

LEMMA SkillInitHolds == Skill!Init => SkillInv
<1> SUFFICES ASSUME Skill!Init PROVE SkillInv
  OBVIOUS
<1> DEFINE account == Skill!Account(0, Skill!NoArgs, Skill!NoArgs)
<1>1. account \in Accounts /\ account.by = 0
  BY DEF Skill!Account, Skill!NoArgs, Accounts, Cardable, Values
<1>2. users = [n \in Names |-> IF n \in Callers THEN account ELSE None]
  BY DEF Skill!Init
<1> HIDE DEF account
<1>3. users \in [Names -> Accounts \cup {None}] /\ AccountsHold
  BY <1>1, <1>2 DEF AccountsHold
<1>4. run = [c \in Callers |-> Skill!Idle] /\ count = 0
  BY DEF Skill!Init
<1>5. Skill!Idle \in Runs /\ Skill!Idle.number = 0 /\ RunHolds(Skill!Idle)
  <2>1. Skill!Idle.stage = "idle" /\ Skill!Idle.number = 0
    BY DEF Skill!Idle
  <2> QED
    BY <2>1, IdleShape, NoneIsApart DEF RunHolds, Answers
<1>6. SkillTypeOK /\ Numbered
  <2>1. ListsHold
    BY DEF Skill!Init, ListsHold
  <2> QED
    BY <1>3, <1>4, <1>5, <2>1 DEF SkillTypeOK, Numbered
<1>7. \A c \in Callers : RunHolds(run[c])
  BY <1>4, <1>5
<1> QED
  BY <1>3, <1>6, <1>7 DEF SkillInv

LEMMA SkillInvariant == Skill!Spec => []SkillInv
BY SkillInitHolds, SkillNextKeeps, PTL DEF Skill!Spec

\* confirm_stream and _detailed_extras: "created" is said to a caller whose own call created
\* the account, which is still there, and what is shown is of the user it is shown for.
THEOREM TruthIsTold ==
  Skill!Spec => []ToldAndShownTruly
<1>1. SkillInv => ToldAndShownTruly
  BY DEF SkillInv, RunHolds, CreatedBy,
         ToldAndShownTruly, Skill!SuccessIsOwn, Skill!ShownIsAskedFor
<1> QED
  BY <1>1, SkillInvariant, PTL

\* The platform's refusal of a name that is taken reaches the caller: of all who were given a
\* card for one name while it was free, one at most is told that the user was created.
OneIsTold ==
  \A c, d \in Callers :
    run[c].answer = "created" /\ run[d].answer = "created"
    /\ run[c].args["userName"] = run[d].args["userName"] => c = d

THEOREM OneCallerIsTold == Skill!Spec => []OneIsTold
<1>1. SkillInv => OneIsTold
  <2> SUFFICES ASSUME SkillInv, NEW c \in Callers, NEW d \in Callers,
                      run[c].answer = "created", run[d].answer = "created",
                      run[c].args["userName"] = run[d].args["userName"]
               PROVE  c = d
    BY DEF OneIsTold
  <2>1. CreatedBy(run[c]) /\ CreatedBy(run[d])
    BY DEF SkillInv, RunHolds
  <2>2. run[c].number = run[d].number /\ run[c].number > 0
    BY <2>1 DEF CreatedBy
  <2> QED
    BY <2>2 DEF SkillInv, Numbered
<1> QED
  BY <1>1, SkillInvariant, PTL

\* apply_defaults and lookups.resolve: whatever a list says, however old it is and whether or
\* not it could be read, an account a card created has the name and the fields of the card; its
\* type is the card's word, a code a list of the platform has had for that word, or, of a list
\* without the word, for a label the word is a part of; and only open fields were filled in.
THEOREM CardIsCreated ==
  Skill!Spec => []CreatedAsConfirmed
<1>1. SkillInv => CreatedAsConfirmed
  BY DEF SkillInv, AccountsHold, AsCarded, Coded, CreatedAsConfirmed,
         Skill!CreatedAsConfirmed
<1> QED
  BY <1>1, SkillInvariant, PTL

=============================================================================
