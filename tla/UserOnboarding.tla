---------------------------- MODULE UserOnboarding ----------------------------
(***************************************************************************)
(* The guided intake that creates a user, and the onboarding flow a created*)
(* user starts (services/flows.py), in one session.                        *)
(*                                                                         *)
(* Here a turn and a confirm are one step each: the session is used by one *)
(* request at a time and every save succeeds (ChatSession drops both       *)
(* assumptions).  What is left is hard enough: several cards can be waiting*)
(* in the session, and each may be answered at any point of any flow.      *)
(* Messages that only make the agent repeat its question are stutters.     *)
(***************************************************************************)
EXTENDS Naturals, Sequences

CONSTANTS
  Users,         \* the user names one may choose
  Apps, Roles,   \* what access may be assigned
  MaxCards,      \* bound: cards armed in one behaviour
  LookupFails,   \* TRUE: getUserByUserName may fail, and _user_exists fails open
  None           \* absence: no flow, no card, no value

ASSUME OnboardingAssumption ==
  /\ MaxCards \in Nat
  /\ LookupFails \in BOOLEAN
  /\ None \notin Users \cup Apps \cup Roles

VARIABLES
  flow,      \* session.metadata["flow"]
  pend,      \* session.metadata["pending_actions"], by the order they were armed in
  cur,       \* session.pending_action_id
  armed,     \* cards armed so far
  accounts,  \* the users that exist on the platform
  access     \* the access the platform has granted

session == <<flow, pend, cur, armed>>
vars    == <<session, accounts, access>>

-----------------------------------------------------------------------------
Cards == 1 .. MaxCards

\* _CREATE_GUIDED: the questions of the intake, in order.
Guided == <<"first", "last", "username", "email", "type", "category">>

Questions  == {Guided[i] : i \in 1 .. 6}
Before(i)  == {Guided[j] : j \in 1 .. (i - 1)}

\* The arguments of the two mutations; the answers other than the user name are alike.
CreateArgs == [tool : {"createUser_post"}, user : Users]
AssignArgs == [tool : {"createUserApplicationAndRole_post"}, user : Users, app : Apps, role : Roles]

CreateCard(u)       == [tool |-> "createUser_post", user |-> u]
AssignCard(u, a, r) == [tool |-> "createUserApplicationAndRole_post",
                        user |-> u, app |-> a, role |-> r]

Intake  == [name : {"create_user"}, stage : {"mode", "bulk_wait", "confirm"} \cup Questions,
            user : Users \cup {None}, filled : SUBSET Questions]

Onboard == [name : {"onboard"}, stage : {"offer_apps", "pick_app", "pick_role", "confirm_assign"},
            user : Users, app : Apps \cup {None}, role : Roles \cup {None},
            assigned : SUBSET (Apps \X Roles)]

ASSUME RecordsAssumption == None \notin Intake \cup Onboard \cup CreateArgs \cup AssignArgs

TypeOK ==
  /\ flow \in Intake \cup Onboard \cup {None}
  /\ armed \in 0 .. MaxCards
  /\ pend \in [Cards -> CreateArgs \cup AssignArgs \cup {None}]
  /\ cur \in Cards \cup {None}
  /\ accounts \subseteq Users
  /\ access \subseteq Users \X Apps \X Roles

Init ==
  /\ flow = None
  /\ armed = 0
  /\ pend = [c \in Cards |-> None]
  /\ cur = None
  /\ accounts = {}
  /\ access = {}

InFlow(name)  == flow # None /\ flow.name = name
At(name, stage) == InFlow(name) /\ flow.stage = stage
platform      == <<accounts, access>>

\* A turn that only moves the flow.
Step(f) == flow' = f /\ UNCHANGED <<pend, cur, armed, platform>>

\* Mutant of Arm: a card that is already current stays so.
ArmBehindCurrent(args, f) ==
  /\ armed < MaxCards
  /\ armed' = armed + 1
  /\ pend' = [pend EXCEPT ![armed + 1] = args]
  /\ cur' = IF cur = None THEN armed + 1 ELSE cur
  /\ flow' = f
  /\ UNCHANGED platform

\* _arm_flow_pending, with the flow left at f.
Arm(args, f) ==
  /\ armed < MaxCards
  /\ armed' = armed + 1
  /\ pend' = [pend EXCEPT ![armed + 1] = args]
  /\ cur' = armed + 1
  /\ flow' = f
  /\ UNCHANGED platform

-----------------------------------------------------------------------------
(* Turns outside any flow: there is none, the message broke out of it (a    *)
(* question, a command, another known task), or it answers "all at once".  *)

\* start_create
NewIntake == [name |-> "create_user", stage |-> "mode", user |-> None, filled |-> {}]

OpenIntake == Step(NewIntake)

\* Answered without a flow, or _gate_onboarding refused the flow and dropped it.
AnswerDirect == flow # None /\ Step(None)

\* The skill path: the model collected the arguments itself and the card is armed.
SkillCard == \E args \in CreateArgs \cup AssignArgs : Arm(args, None)

\* _cancel_flow, at any stage of either flow.
Cancel ==
  /\ flow # None
  /\ flow' = None
  /\ cur' = None
  /\ pend' = [c \in Cards |-> None]
  /\ UNCHANGED <<armed, platform>>

-----------------------------------------------------------------------------
(* Turns of the intake.                                                    *)

ChooseMode ==
  /\ At("create_user", "mode")
  /\ \E s \in {"first", "bulk_wait"} : Step([flow EXCEPT !.stage = s])

\* A user name is refused when the platform already has it, if that can be read.
FreeNames == IF LookupFails THEN Users ELSE Users \ accounts

\* A valid answer to question i; the last one hands the mutation to the confirm step.
Answer(i) ==
  /\ At("create_user", Guided[i])
  /\ \E u \in IF Guided[i] = "username" THEN FreeNames ELSE {flow.user} :
       LET f(stage) == [flow EXCEPT !.user = u, !.filled = @ \cup {Guided[i]}, !.stage = stage]
       IN  IF i < 6 THEN Step(f(Guided[i + 1])) ELSE Arm(CreateCard(u), f("confirm"))

\* Mutant of GoBack: the answer of the question gone back to is kept.
GoBackKeepsAnswer(i) ==
  /\ At("create_user", Guided[i])
  /\ i > 1
  /\ Step([flow EXCEPT !.stage = Guided[i - 1]])

\* Back to question i - 1, whose answer is forgotten.
GoBack(i) ==
  /\ At("create_user", Guided[i])
  /\ i > 1
  /\ Step([flow EXCEPT !.stage = Guided[i - 1],
                       !.filled = @ \ {Guided[i - 1]},
                       !.user = IF Guided[i - 1] = "username" THEN None ELSE @])

\* "restart" anywhere, and "go back" where there is nothing to go back to.
Restart ==
  /\ InFlow("create_user")
  /\ flow.stage \notin {"mode", "bulk_wait"}
  /\ Step(NewIntake)

-----------------------------------------------------------------------------
(* Turns of the onboarding.  At confirm_assign every message re-offers.    *)

WantApp ==
  /\ At("onboard", "offer_apps")
  /\ Step([flow EXCEPT !.stage = "pick_app"])

ChooseApp ==
  /\ At("onboard", "pick_app")
  /\ \E a \in Apps : Step([flow EXCEPT !.stage = "pick_role", !.app = a])

ChooseRole ==
  /\ At("onboard", "pick_role")
  /\ \E r \in Roles :
       Arm(AssignCard(flow.user, flow.app, r),
           [flow EXCEPT !.stage = "confirm_assign", !.role = r])

\* "No" at the roles backs out of this application only.
LeaveApp ==
  /\ At("onboard", "pick_role")
  /\ Step([flow EXCEPT !.stage = "offer_apps", !.app = None])

Finish ==
  /\ At("onboard", "offer_apps") \/ At("onboard", "pick_app")
  /\ Step(None)

-----------------------------------------------------------------------------
(* Confirm requests.  The user may answer any card still in the session.   *)

\* The card leaves the session and the flow becomes f.
Settle(c, f) ==
  /\ pend' = [pend EXCEPT ![c] = None]
  /\ cur' = None
  /\ flow' = f
  /\ UNCHANGED armed

\* on_decline; in the intake it raises before anything is saved, a stutter.
Decline(c) ==
  /\ pend[c] # None
  /\ ~InFlow("create_user")
  /\ Settle(c, IF flow = None THEN None
               ELSE [flow EXCEPT !.stage = "offer_apps", !.app = None, !.role = None])
  /\ UNCHANGED platform

\* The caller's authority is not proven: the card is dropped, the flow stays.
Deny(c) ==
  /\ pend[c] # None
  /\ Settle(c, flow)
  /\ UNCHANGED platform

\* The effect of a card on the platform.
Effect(args) ==
  IF args.tool = "createUser_post"
  THEN accounts' = accounts \cup {args.user} /\ UNCHANGED access
  ELSE access' = access \cup {<<args.user, args.app, args.role>>} /\ UNCHANGED accounts

\* The platform creates a name once and assigns to users it knows.
Feasible(args) ==
  (args.tool = "createUser_post") <=> (args.user \notin accounts)

\* The answer is an error: the platform refused, or it timed out after taking effect.
Reject(c) ==
  /\ pend[c] # None
  /\ Settle(c, flow)
  /\ \/ UNCHANGED platform
     \/ Feasible(pend[c]) /\ Effect(pend[c])

\* A created user starts her onboarding, whatever flow was active.
AcceptCreate(c) ==
  /\ pend[c] # None
  /\ pend[c].tool = "createUser_post"
  /\ Feasible(pend[c])
  /\ Effect(pend[c])
  /\ Settle(c, [name |-> "onboard", stage |-> "offer_apps", user |-> pend[c].user,
                app |-> None, role |-> None, assigned |-> {}])

\* after_assign records what the FLOW has chosen.
Recorded(f) ==
  [f EXCEPT !.assigned = IF f.app # None /\ f.role # None THEN @ \cup {<<f.app, f.role>>} ELSE @,
            !.app = None, !.role = None, !.stage = "offer_apps"]

AcceptAssign(c) ==
  /\ pend[c] # None
  /\ pend[c].tool = "createUserApplicationAndRole_post"
  /\ Feasible(pend[c])
  /\ Effect(pend[c])
  /\ IF InFlow("create_user")
     THEN UNCHANGED session          \* after_assign raises: the session is not saved
     ELSE Settle(c, IF flow = None THEN None ELSE Recorded(flow))

Next ==
  \/ OpenIntake \/ AnswerDirect \/ SkillCard \/ Cancel
  \/ ChooseMode \/ (\E i \in 1 .. 6 : Answer(i) \/ GoBack(i)) \/ Restart
  \/ WantApp \/ ChooseApp \/ ChooseRole \/ LeaveApp \/ Finish
  \/ \E c \in Cards :
       Decline(c) \/ Deny(c) \/ Reject(c) \/ AcceptCreate(c) \/ AcceptAssign(c)

Spec == Init /\ [][Next]_vars

-----------------------------------------------------------------------------
(* Properties.                                                             *)

\* Back, restart and new starts never leave a hole: at question i exactly the questions
\* before it are answered, and at the confirm step all six are, so createUser_post is
\* never put to the user with an answer missing (its six fields are mandatory).
IntakeInOrder ==
  InFlow("create_user") =>
    /\ flow.stage \in {"mode", "bulk_wait"} => flow.filled = {}
    /\ \A i \in 1 .. 6 : flow.stage = Guided[i] => flow.filled = Before(i)
    /\ flow.stage = "confirm" => flow.filled = Questions
    /\ "username" \in flow.filled <=> flow.user # None

\* "<user>'s account is ready": access is offered only for a user the platform has.
OnboardsRealUser == InFlow("onboard") => flow.user \in accounts

\* At a confirm step the session's current card, when there is one, asks for what the
\* flow has collected: what is confirmed is what the summary says.
CurrentCardIsTheFlows ==
  cur # None =>
    /\ At("create_user", "confirm")     => pend[cur] = CreateCard(flow.user)
    /\ At("onboard", "confirm_assign")  => pend[cur] = AssignCard(flow.user, flow.app, flow.role)

\* after_assign: "The in-flow assign succeeded": what an onboarding lists as assigned
\* ("Access granted: ...") has been granted to its user.
AssignedIsGranted ==
  InFlow("onboard") => \A p \in flow.assigned : <<flow.user, p[1], p[2]>> \in access

\* confirm_assign "is resolved by the confirm handler (after_assign / on_decline)": an
\* onboarding that waits for a confirm has the card it waits for.
AssignStepHasCard ==
  At("onboard", "confirm_assign") =>
    \E c \in Cards : pend[c] = AssignCard(flow.user, flow.app, flow.role)

\* "Please use Confirm or Cancel above": an intake that says so has the card above.
CreateStepHasCard ==
  At("create_user", "confirm") => \E c \in Cards : pend[c] = CreateCard(flow.user)
====
