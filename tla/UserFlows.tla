------------------------------ MODULE UserFlows ------------------------------
(***************************************************************************)
(* UserOnboarding, EntityFlow and FlowRouting side by side.  The first two *)
(* are flows in detail, of which a session holds one at a time; the third  *)
(* is which flow answers, and nothing of what it collects.  They share no  *)
(* state, and a behaviour follows one of them.                             *)
(***************************************************************************)
EXTENDS UserOnboarding

CONSTANTS
  Names, CodeOf, Seeded, Disabled,     \* EntityFlow
  Entities, Workflows, MaxFeatures     \* FlowRouting

VARIABLES
  which,   \* the module this behaviour follows
  creation, waiting, current, drawn, roles, menus, created,
  active, admin, turn

\* A list may be read as an empty one; a read of what must be unique succeeds, and an error
\* of the platform means that nothing was done.
Entity == INSTANCE EntityFlow WITH
  flow <- creation, pend <- waiting, cur <- current, armed <- drawn, apps <- created,
  Faults <- {"lists_fail"}

Routing == INSTANCE FlowRouting WITH flow <- active, last <- turn

ASSUME EntityConstants == Entity!EntityAssumption

\* The flows there are, and what one is about.
FlowNames == {"create_user", "onboard", "entity_create", "remove_role", "create_skill",
              "formulation_baseline", "data_call", "workflow"}
Stages    == {"mode", "collect", "review"}

ActiveFlows ==
  [name : FlowNames, entity : Entities \cup Workflows \cup {None}, stage : Stages, offered : BOOLEAN]

\* Entities have names of their own, and absence is none of them and no flow.
ASSUME RoutingAssumption ==
  /\ "user" \in Entities /\ "role" \in Entities /\ "AMBIGUOUS" \notin Entities
  /\ None \notin Entities \cup Workflows \cup Routing!Skills \cup {"AMBIGUOUS"}
  /\ None \notin ActiveFlows \cup {Routing!Read}

entityVars == <<creation, waiting, current, drawn, roles, menus, created>>
routed     == <<active, admin, turn>>
bothVars   == <<vars, which, entityVars, routed>>

BothInit ==
  /\ which \in {"onboarding", "entity", "routing"}
  /\ Init /\ Entity!Init /\ Routing!Init

BothNext ==
  \/ which = "onboarding" /\ Next         /\ UNCHANGED <<which, entityVars, routed>>
  \/ which = "entity"     /\ Entity!Next  /\ UNCHANGED <<which, vars, routed>>
  \/ which = "routing"    /\ Routing!Next /\ UNCHANGED <<which, vars, entityVars>>

BothSpec == BothInit /\ [][BothNext]_bothVars

-----------------------------------------------------------------------------
\* maybe_start and _should_break_out: no question opens a flow of answers, no flow swallows a
\* command that is another's, and an answer does not start the flow it answers again.
MessagesReachTheirFlow ==
  /\ Routing!QuestionsOpenNothing
  /\ Routing!CommandsLand
  /\ Routing!ReopenedOnPurpose

\* _advance_entity, resume_role_after_menu and _entity_finalize: no field is passed over, a
\* role's menu is one of its own application, and the current card is the flow's and asks for
\* what is still possible, if the code it may give is not a disabled application's.
EntityCardHolds ==
  /\ Entity!FieldsInOrder /\ Entity!MenuOfRolesApp
  /\ Entity!CurrentCardIsTheFlows /\ Entity!CurrentCardIsFeasible

\* "A unique application code?": the card of a confirm step asks for what the platform accepts,
\* the codes of the applications it has disabled included.
CardWouldPass ==
  current # None /\ creation # None /\ creation.stage = "confirm" => Entity!Feasible(waiting[current])
====
