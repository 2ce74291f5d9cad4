------------------------------ MODULE EntityFlow ------------------------------
(***************************************************************************)
(* The guided flows that create an application, a role, a menu or a        *)
(* privilege, the menu flow a role flow suspends itself for, and the flow  *)
(* that removes a role (services/flows.py), in one session.                *)
(*                                                                         *)
(* As in UserOnboarding a turn and a confirm are one step each, and any    *)
(* card that waits in the session may be answered at any point of any flow.*)
(* What a flow has collected was true of the platform when it was given;   *)
(* the cards confirmed since then may have changed the platform.           *)
(***************************************************************************)
EXTENDS Naturals, Sequences, FiniteSetsExt

CONSTANTS
  Apps,        \* the applications the pickers offer
  Names,       \* what one may call a role, a menu or a new application
  CodeOf,      \* the code derived from a name (_codeify): not injective
  Seeded,      \* <<application, name>> of the roles the platform protects
  Disabled,    \* code and order of the applications that are disabled
  MaxCards,    \* bound: cards armed in one behaviour
  Faults,      \* which of "lists_fail", "index_fails", "times_out" may happen
  None         \* absence: no flow, no card

AllEntities == {"application", "role", "menu", "privilege"}

VARIABLES
  flow,    \* session.metadata["flow"]
  pend,    \* session.metadata["pending_actions"], by the order they were armed in
  cur,     \* session.pending_action_id
  armed,   \* cards armed so far
  roles,   \* the platform's roles
  menus,   \* its menus, never deleted here
  apps     \* the disabled applications and those created here

session  == <<flow, pend, cur, armed>>
platform == <<roles, menus, apps>>
vars     == <<session, platform>>

-----------------------------------------------------------------------------
Cards == 1 .. MaxCards

\* A code is its base and the number that makes it unique (_2, _3, ...).
Codes == Names \X Nat

\* A role carries the number of the card that created it as its id; 0: a seeded one.
Role == [id : 0 .. MaxCards, app : Apps, name : Names, code : Codes]

Menu == [app : Apps, name : Names, code : Names]

Application == [code : Names, order : Nat, enabled : BOOLEAN]

\* _ENTITY_CREATE: what is asked for, in order.  "details" stands for the fields
\* nothing else depends on: descriptions, flags, types, links.
Fields(entity) ==
  CASE entity = "application" -> <<"applicationName", "applicationCode", "details">>
    [] entity = "role"      -> <<"applicationId", "roleName", "role", "details", "menuId">>
    [] entity = "menu"      -> <<"applicationId", "menuName", "menuCode", "details">>
    [] entity = "privilege" -> <<"applicationRoleId", "details">>

Tool(entity) ==
  CASE entity = "application" -> "addApplication_post"
    [] entity = "role"        -> "addApplicationRole_post"
    [] entity = "menu"        -> "addMenu_post"
    [] entity = "privilege"   -> "addAppRolePrivilege_post"

\* What a field may hold.
ValueOf(key) ==
  CASE key = "applicationId" -> Apps
    [] key \in {"roleName", "menuName", "menuCode", "menuId"} -> Names
    [] key \in {"applicationName", "applicationCode"} -> Names
    [] key = "role"              -> Codes
    [] key = "applicationRoleId" -> Role
    [] key = "details"           -> {"given"}

\* The fields before position i, all of them at the end.
Before(entity, i) == {Fields(entity)[j] : j \in 1 .. i - 1}

IsData(data, keys) == DOMAIN data = keys /\ \A k \in keys : data[k] \in ValueOf(k)

Empty == [k \in {} |-> None]

Keys   == UNION {Before(e, Len(Fields(e)) + 1) : e \in AllEntities}
Values == UNION {ValueOf(k) : k \in Keys}

\* What a card asks for.
CardArgs ==
  [tool : {Tool(e) : e \in AllEntities} \cup {"deleteApplicationRoleById_delete"},
   data : UNION {[keys -> Values] : keys \in SUBSET Keys}, order : Nat]

\* What an instance of the module is checked for: absence is no card.
EntityAssumption ==
  /\ CodeOf \in [Names -> Names]
  /\ Seeded \subseteq Apps \X Names /\ IsFiniteSet(Seeded)
  /\ Disabled \subseteq [code : Names, order : Nat] /\ IsFiniteSet(Disabled)
  /\ MaxCards \in Nat
  /\ Faults \subseteq {"lists_fail", "index_fails", "times_out"}
  /\ None \notin CardArgs

-----------------------------------------------------------------------------
(* State.                                                                  *)

\* entity_create at field idx; index is _opts["_role_idx"], picking is _menu_stage = "pick"
\* or a chosen _role_app, options is _opts["role"], resume the suspended role flow.
EntityFlow(entity, data, resume) ==
  [name |-> "entity_create", entity |-> entity, stage |-> "collect", idx |-> 1,
   data |-> data, index |-> None, picking |-> FALSE, options |-> {}, resume |-> resume]

\* "Onboard what?"
Asking == [name |-> "entity_create", stage |-> "disambiguate"]

\* remove_role; list is _roles, what the chosen application had when it was chosen.
RemoveFlow(stage, list, role) ==
  [name |-> "remove_role", stage |-> stage, list |-> list, role |-> role]

AtStage(name, stage)  == flow # None /\ flow.name = name /\ flow.stage = stage
AtField(entity, key) ==
  /\ AtStage("entity_create", "collect")
  /\ flow.entity = entity
  /\ Fields(entity)[flow.idx] = key

\* What is put to the user: for an application, with the order it is to take.
Args(entity, data, order) == [tool |-> Tool(entity), data |-> data, order |-> order]
DeleteArgs(role) ==
  [tool |-> "deleteApplicationRoleById_delete", data |-> [applicationRoleId |-> role], order |-> 0]

SeededRoles == {[id |-> 0, app |-> s[1], name |-> s[2], code |-> <<CodeOf[s[2]], 1>>] : s \in Seeded}

DisabledApps == {[code |-> d.code, order |-> d.order, enabled |-> FALSE] : d \in Disabled}

Init ==
  /\ flow = None
  /\ pend = [c \in Cards |-> None]
  /\ cur = None
  /\ armed = 0
  /\ roles = SeededRoles
  /\ menus = {}
  /\ apps = DisabledApps

\* A turn that only moves the flow.
Step(f) == flow' = f /\ UNCHANGED <<pend, cur, armed, platform>>

\* The cards after one more for args, which becomes current (_arm_flow_pending).
Arm(cards, args, f) ==
  /\ armed < MaxCards
  /\ armed' = armed + 1
  /\ pend' = [cards EXCEPT ![armed + 1] = args]
  /\ cur' = armed + 1
  /\ flow' = f

-----------------------------------------------------------------------------
(* What the platform answers to the pickers and the uniqueness guards.     *)

RolesOf(a)        == {r \in roles : r.app = a}
MenusOf(known, a) == {m.name : m \in {k \in known : k.app = a}}
MenuCodes(a)      == {m.code : m \in {k \in menus : k.app = a}}

\* _apps passes over what is disabled, in the pickers and in _taken_values.
Enabled == {a \in apps : a.enabled}

\* A list the platform does not deliver reads as an empty one.
Lists(list) == {list} \cup (IF "lists_fail" \in Faults THEN {{}} ELSE {})
Taken(used) == {used} \cup (IF "index_fails" \in Faults THEN {{}} ELSE {})

\* _role_index: names and codes of one read, kept on the flow.
RoleIndex(f) ==
  IF f.index # None THEN {f.index}
  ELSE {[names |-> {r.name : r \in used}, codes |-> {r.code : r \in used}] :
          used \in Taken(RolesOf(f.data["applicationId"]))}

\* _unique_code: the base with the first number that is not taken.
UniqueCode(name, used) ==
  <<CodeOf[name], CHOOSE i \in 1 .. Cardinality(used) + 1 :
                    /\ <<CodeOf[name], i>> \notin used
                    /\ \A j \in 1 .. i - 1 : <<CodeOf[name], j>> \in used>>

\* _next_app_order, counted in tens, of all applications: one more than the largest, a high one when the list
\* cannot be read, and nothing for the other entities.
Orders(entity) ==
  IF entity # "application" THEN {0}
  ELSE {1 + Max({a.order : a \in apps} \cup {0})}
       \cup (IF "index_fails" \in Faults THEN {MaxCards + 1} ELSE {})

-----------------------------------------------------------------------------
(* Turns outside the flows: a command opens one, from within another flow   *)
(* after it broke out; a question or the model's turn ends it.             *)

OpenEntity   == \E e \in AllEntities : Step(EntityFlow(e, Empty, None))
OpenAsking   == Step(Asking)
OpenRemove   == Step(RemoveFlow("pick_app", {}, None))
AnswerDirect == flow # None /\ Step(None)

\* A card the model collected itself, of the tools other flows' answers depend on.
SkillCard ==
  /\ \E args \in {Args("menu", [applicationId |-> a, menuName |-> n, menuCode |-> m,
                                    details |-> "given"], 0) : a \in Apps, n \in Names, m \in Names}
                 \cup {DeleteArgs(r) : r \in roles} : Arm(pend, args, None)
  /\ UNCHANGED platform

\* _cancel_flow
Cancel ==
  /\ flow # None
  /\ flow' = None
  /\ cur' = None
  /\ pend' = [c \in Cards |-> None]
  /\ UNCHANGED <<armed, platform>>

\* The entity is named; the user intake is UserOnboarding's.
NameEntity ==
  /\ AtStage("entity_create", "disambiguate")
  /\ Step(None) \/ OpenEntity

-----------------------------------------------------------------------------
(* Turns of entity_create.  At its confirm stage every message is answered  *)
(* "Please use Confirm or Cancel above".                                   *)

Put(data, key, value) == [k \in DOMAIN data \cup {key} |-> IF k = key THEN value ELSE data[k]]

\* data[key] = value, and on to the next field (_advance_entity).
Given(f, key, value) ==
  [f EXCEPT !.data = Put(@, key, value), !.idx = @ + 1, !.picking = FALSE]

\* Ask the next field, or arm the confirm when there is none (_entity_finalize).
Proceed(cards, f) ==
  IF f.idx <= Len(Fields(f.entity))
  THEN flow' = f /\ pend' = cards /\ cur' = cur /\ armed' = armed
  ELSE \E o \in Orders(f.entity) :
         Arm(cards, Args(f.entity, f.data, o), [f EXCEPT !.stage = "confirm"])

Answer(key, value) == Proceed(pend, Given(flow, key, value)) /\ UNCHANGED platform

\* Any field that is free of the platform.
GiveDetails ==
  /\ \E e \in AllEntities : AtField(e, "details")
  /\ Answer("details", "given")

ChooseApp ==
  /\ \E e \in {"role", "menu"} : AtField(e, "applicationId")
  /\ \E a \in Apps : Answer("applicationId", a)

\* The role's name; its code is made from it on the spot.
NameRole ==
  /\ AtField("role", "roleName")
  /\ \E n \in Names, index \in RoleIndex(flow) :
       /\ n \notin index.names
       /\ LET named == Given([flow EXCEPT !.index = index], "roleName", n)
          IN  Step(Given(named, "role", UniqueCode(n, index.codes)))

\* A name that is taken is refused; the index that says so stays on the flow.
RefuseRoleName ==
  /\ AtField("role", "roleName")
  /\ \E index \in RoleIndex(flow) :
       /\ index.names # {}
       /\ Step([flow EXCEPT !.index = index])

NameMenu ==
  /\ AtField("menu", "menuName")
  /\ \E used \in Taken(MenusOf(menus, flow.data["applicationId"])) :
       \E n \in Names \ used : Answer("menuName", n)

CodeMenu ==
  /\ AtField("menu", "menuCode")
  /\ \E used \in Taken(MenuCodes(flow.data["applicationId"])) :
       \E m \in Names \ used : Answer("menuCode", m)

NameApplication ==
  /\ AtField("application", "applicationName")
  /\ \E n \in Names : Answer("applicationName", n)

\* Given, or taken from the name as suggested; the guard knows the enabled applications.
CodeApplication ==
  /\ AtField("application", "applicationCode")
  /\ \E used \in Taken({a.code : a \in Enabled}) :
       \E n \in Names \ used : Answer("applicationCode", n)

\* The application of the role a privilege is for, then the role, from the list shown.
ChooseRoleApp ==
  /\ AtField("privilege", "applicationRoleId")
  /\ ~flow.picking
  /\ \E a \in Apps : \E list \in Lists(RolesOf(a)) :
       Step([flow EXCEPT !.picking = TRUE, !.options = list])

ChooseRole ==
  /\ AtField("privilege", "applicationRoleId")
  /\ flow.picking
  /\ \E r \in flow.options : Answer("applicationRoleId", r)

\* "Pick an existing menu"
PickMenu ==
  /\ AtField("role", "menuId")
  /\ ~flow.picking
  /\ Step([flow EXCEPT !.picking = TRUE])

\* The list shown may be older than this, never longer: menus are not deleted.
ChooseMenu ==
  /\ AtField("role", "menuId")
  /\ flow.picking
  /\ \E n \in MenusOf(menus, flow.data["applicationId"]) : Answer("menuId", n)

\* _start_menu_subflow: the role flow is suspended and its application inherited.
NewMenu ==
  /\ AtField("role", "menuId")
  /\ Step(Given(EntityFlow("menu", Empty, flow), "applicationId", flow.data["applicationId"]))

-----------------------------------------------------------------------------
(* Turns of remove_role.                                                   *)

\* No roles, or none that could be read, ends it.
RemoveFrom ==
  /\ AtStage("remove_role", "pick_app")
  /\ \E a \in Apps : \E list \in Lists(RolesOf(a)) :
       Step(IF list = {} THEN None ELSE RemoveFlow("pick_role", list, None))

\* A seeded role ends it; any other is put to the user with what depends on it.
RemoveThis ==
  /\ AtStage("remove_role", "pick_role")
  /\ \E r \in flow.list :
       IF r.id = 0 THEN Step(None)
       ELSE Arm(pend, DeleteArgs(r), RemoveFlow("confirm", flow.list, r))
  /\ UNCHANGED platform

-----------------------------------------------------------------------------
(* Confirm requests.  The user may answer any card still in the session.   *)

Without(c) == [pend EXCEPT ![c] = None]

\* The card leaves the session and the flow becomes f.
Settle(c, f) == pend' = Without(c) /\ cur' = None /\ flow' = f /\ UNCHANGED armed

\* on_decline; for remove_role it raises before anything is saved, a stutter.
Decline(c) ==
  /\ pend[c] # None
  /\ flow # None => flow.name = "entity_create"
  /\ Settle(c, None)
  /\ UNCHANGED platform

\* The caller's authority is not proven: the card is dropped, the flow stays.
Deny(c) ==
  /\ pend[c] # None
  /\ Settle(c, flow)
  /\ UNCHANGED platform

\* What the platform would accept if known were all its applications: its columns are
\* unique and its references exist.
Possible(args, known) ==
  LET d == args.data
  IN  CASE args.tool = "addApplication_post" ->
             /\ \A a \in known : a.code # d["applicationCode"]
             /\ \A a \in apps : a.order # args.order
        [] args.tool = "addApplicationRole_post" ->
             /\ \A r \in RolesOf(d["applicationId"]) : r.name # d["roleName"] /\ r.code # d["role"]
             /\ \E m \in menus : m.name = d["menuId"]
        [] args.tool = "addMenu_post" ->
             \A m \in menus : m.app = d["applicationId"] => m.name # d["menuName"] /\ m.code # d["menuCode"]
        [] args.tool = "addAppRolePrivilege_post" -> d["applicationRoleId"] \in roles
        [] args.tool = "deleteApplicationRoleById_delete" ->
             d["applicationRoleId"] \in roles /\ d["applicationRoleId"].id # 0

Feasible(args) == Possible(args, apps)

\* What card c does to the platform.
Effect(c) ==
  LET args == pend[c]
      d    == args.data
  IN  /\ apps' = IF args.tool = "addApplication_post"
                 THEN apps \cup {[code |-> d["applicationCode"], order |-> args.order, enabled |-> TRUE]}
                 ELSE apps
      /\ menus' = IF args.tool = "addMenu_post"
                  THEN menus \cup {[app |-> d["applicationId"], name |-> d["menuName"],
                                 code |-> d["menuCode"]]} ELSE menus
      /\ roles' = CASE args.tool = "addApplicationRole_post" ->
                         roles \cup {[id |-> c, app |-> d["applicationId"],
                                     name |-> d["roleName"], code |-> d["role"]]}
                   [] args.tool = "deleteApplicationRoleById_delete" ->
                         roles \ {d["applicationRoleId"]}
                   [] OTHER -> roles

\* The answer is an error: the platform refused, or it timed out after taking effect.
Reject(c) ==
  /\ pend[c] # None
  /\ Settle(c, flow)
  /\ \/ UNCHANGED platform
     \/ "times_out" \in Faults /\ Feasible(pend[c]) /\ Effect(c)

Suspended == flow # None /\ flow.name = "entity_create" /\ flow.stage # "disambiguate"
                        /\ flow.resume # None

\* resume_role_after_menu: the new menu is looked up by name in the role's application;
\* if it is not there, the user picks one.
ResumeRole(c) ==
  LET role == flow.resume
      made == pend[c].data
  IN  \E list \in Lists(MenusOf(menus', role.data["applicationId"])) :
        IF made["menuName"] \in list
        THEN Proceed(Without(c), Given(role, "menuId", made["menuName"]))
        ELSE Settle(c, [role EXCEPT !.picking = TRUE])

\* Mutant of Accept: a create leaves the flow it finds.
AcceptInFlow(c) ==
  /\ pend[c] # None
  /\ Feasible(pend[c])
  /\ Effect(c)
  /\ IF pend[c].tool = "addMenu_post" /\ Suspended THEN ResumeRole(c) ELSE Settle(c, flow)

\* A menu resumes the role flow that waits for one; everything else ends the flow.
Accept(c) ==
  /\ pend[c] # None
  /\ Feasible(pend[c])
  /\ Effect(c)
  /\ IF pend[c].tool = "addMenu_post" /\ Suspended THEN ResumeRole(c) ELSE Settle(c, None)

Next ==
  \/ OpenEntity \/ OpenAsking \/ OpenRemove \/ AnswerDirect \/ SkillCard \/ Cancel \/ NameEntity
  \/ GiveDetails \/ ChooseApp \/ NameRole \/ RefuseRoleName \/ NameMenu \/ CodeMenu
  \/ NameApplication \/ CodeApplication \/ ChooseRoleApp \/ ChooseRole
  \/ PickMenu \/ ChooseMenu \/ NewMenu \/ RemoveFrom \/ RemoveThis
  \/ \E c \in Cards : Decline(c) \/ Deny(c) \/ Reject(c) \/ Accept(c)

Spec == Init /\ [][Next]_vars

-----------------------------------------------------------------------------
(* Properties.                                                             *)

Creating == flow # None /\ flow.name = "entity_create" /\ flow.stage # "disambiguate"

\* The create flows of the session: the active one and the one it suspended.
Creations == IF ~Creating THEN {} ELSE {flow} \cup ({flow.resume} \ {None})

CreationOK(f) ==
  /\ f.entity \in AllEntities
  /\ f.stage \in {"collect", "confirm"}
  /\ f.idx \in 1 .. Len(Fields(f.entity)) + 1
  /\ f.picking \in BOOLEAN
  /\ f.options \subseteq Role
  /\ f.index # None => f.index \in [names : SUBSET Names, codes : SUBSET Codes]

ArgsOK(args) ==
  /\ args.order \in Nat
  /\ \/ \E e \in AllEntities :
           args.tool = Tool(e) /\ IsData(args.data, Before(e, Len(Fields(e)) + 1))
     \/ args.tool = "deleteApplicationRoleById_delete" /\ IsData(args.data, {"applicationRoleId"})

TypeOK ==
  /\ \A f \in Creations : CreationOK(f)
  /\ flow # None /\ ~Creating =>
       \/ flow = Asking
       \/ /\ flow.name = "remove_role"
          /\ flow.stage \in {"pick_app", "pick_role", "confirm"}
          /\ flow.list \subseteq Role
          /\ flow.role \in Role \cup {None}
  /\ DOMAIN pend = Cards
  /\ \A c \in Cards : pend[c] # None => ArgsOK(pend[c])
  /\ cur \in Cards \cup {None}
  /\ armed \in 0 .. MaxCards
  /\ roles \subseteq Role
  /\ menus \subseteq Menu
  /\ apps \subseteq Application

\* Fields are asked in order and none is passed over, also in a role flow that was
\* suspended for a menu and resumed: a flow at field i holds exactly the fields before
\* it, so a card never goes out with a NOT-NULL column missing.
FieldsInOrder ==
  \A f \in Creations :
    /\ IsData(f.data, Before(f.entity, f.idx))
    /\ f.stage = "confirm" <=> f.idx = Len(Fields(f.entity)) + 1

\* At a confirm step the current card, when there is one, asks for what the flow has
\* collected, the card a resumed role flow arms in the middle of another confirm too.
CurrentCardIsTheFlows ==
  cur # None /\ flow # None /\ flow.stage = "confirm" =>
    /\ pend[cur] # None
    /\ IF Creating THEN pend[cur].tool = Tool(flow.entity) /\ pend[cur].data = flow.data
                   ELSE pend[cur] = DeleteArgs(flow.role)

\* "it can't match an existing role", "a new app must not collide": what the current
\* card of a confirm step asks for is still possible, whatever was confirmed meanwhile; but
\* the code of a disabled application passes for a new one.
CurrentCardIsFeasible ==
  cur # None /\ flow # None /\ flow.stage = "confirm" => Possible(pend[cur], Enabled)

\* A role flow attaches a menu of its own application, however the menu was found.
MenuOfRolesApp ==
  \A f \in Creations :
    "menuId" \in DOMAIN f.data => f.data["menuId"] \in MenusOf(menus, f.data["applicationId"])
====
