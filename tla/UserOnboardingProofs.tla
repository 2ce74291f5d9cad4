------------------------- MODULE UserOnboardingProofs -------------------------
(***************************************************************************)
(* The intake, the onboarding and the cards they arm agree, for any number *)
(* of users, applications, roles and cards: the invariant is the           *)
(* conjunction of the three properties, as a stage never changes alone.    *)
(* Then, of the modules beside it in UserFlows: messages reach their flow  *)
(* (FlowRouting), and the cards of the flows that create entities or       *)
(* remove a role can be carried out (EntityFlow).                          *)
(***************************************************************************)
EXTENDS UserFlows, FiniteSetTheorems, WellFoundedInduction, TLAPS

\* The six questions are six different ones, none of them another stage of the intake.
LEMMA QuestionsDiffer ==
  /\ \A i \in 1 .. 6 : Guided[i] \in Questions
  /\ \A i, j \in 1 .. 6 : Guided[i] = Guided[j] => i = j
  /\ \A i \in 1 .. 6 : Guided[i] \notin {"mode", "bulk_wait", "confirm"}
  /\ Guided[3] = "username"
<1>1. /\ Guided[1] = "first" /\ Guided[2] = "last" /\ Guided[3] = "username"
      /\ Guided[4] = "email" /\ Guided[5] = "type" /\ Guided[6] = "category"
  BY DEF Guided
<1>2. \A i \in 1 .. 6 : i = 1 \/ i = 2 \/ i = 3 \/ i = 4 \/ i = 5 \/ i = 6
  OBVIOUS
<1> QED
  BY <1>1, <1>2 DEF Questions

\* What answering a question adds to the questions before it.
LEMMA BeforeGrows ==
  /\ \A i \in 1 .. 5 : Before(i + 1) = Before(i) \cup {Guided[i]}
  /\ Questions = Before(6) \cup {Guided[6]}
  /\ \A i \in 2 .. 6 : Before(i) \ {Guided[i - 1]} = Before(i - 1)
  /\ \A i \in 1 .. 6 : "username" \in Before(i) <=> i > 3
<1>1. \A i \in 1 .. 5 : 1 .. (i + 1) - 1 = (1 .. i - 1) \cup {i}
  OBVIOUS
<1>2. \A i \in 2 .. 6 : 1 .. i - 1 = (1 .. (i - 1) - 1) \cup {i - 1}
  OBVIOUS
<1>3. \A i \in 1 .. 5 : Before(i + 1) = Before(i) \cup {Guided[i]}
  BY <1>1 DEF Before
<1>4. Questions = Before(6) \cup {Guided[6]}
  BY DEF Questions, Before
<1>5. \A i \in 2 .. 6 : Before(i) \ {Guided[i - 1]} = Before(i - 1)
  BY <1>2, QuestionsDiffer DEF Before
<1>6. \A i \in 1 .. 6 : "username" \in Before(i) <=> i > 3
  BY QuestionsDiffer DEF Before
<1> QED
  BY <1>3, <1>4, <1>5, <1>6

\* The strengthening: a role is asked for, and put to the user, of a chosen application.
AppChosen ==
  InFlow("onboard") /\ flow.stage \in {"pick_role", "confirm_assign"} => flow.app \in Apps

Inv == TypeOK /\ IntakeInOrder /\ OnboardsRealUser /\ CurrentCardIsTheFlows /\ AppChosen

\* A new session has no flow, no card and no account of its own.
LEMMA InitInv == Init => Inv
  BY OnboardingAssumption DEF Init, Inv, TypeOK, IntakeInOrder, OnboardsRealUser,
     CurrentCardIsTheFlows, AppChosen, InFlow, At

\* A turn that moves the flow and arms nothing.
LEMMA StepKeeps ==
  ASSUME Inv, NEW f, Step(f),
         f \in Intake \cup Onboard \cup {None},
         f # None /\ f.name = "create_user" =>
           /\ \A i \in 1 .. 6 : f.stage = Guided[i] => f.filled = Before(i)
           /\ f.stage \in {"mode", "bulk_wait"} => f.filled = {}
           /\ f.stage # "confirm"
           /\ "username" \in f.filled <=> f.user # None,
         f # None /\ f.name = "onboard" => /\ f.user \in accounts
                                           /\ f.stage # "confirm_assign"
                                           /\ f.stage = "pick_role" => f.app \in Apps
  PROVE  Inv'
  BY DEF Inv, TypeOK, IntakeInOrder, OnboardsRealUser, CurrentCardIsTheFlows, AppChosen,
     InFlow, At, Step, platform

\* A turn that arms a card: its flow is at no confirm step, or at that card's.
LEMMA ArmKeeps ==
  ASSUME Inv, NEW args, NEW f, Arm(args, f),
         args \in CreateArgs \cup AssignArgs,
         f \in Intake \cup Onboard \cup {None},
         f # None /\ f.name = "create_user" =>
           f.stage = "confirm" /\ f.filled = Questions /\ f.user # None
                               /\ args = CreateCard(f.user),
         f # None /\ f.name = "onboard" =>
           f.user \in accounts /\ f.app \in Apps /\ args = AssignCard(f.user, f.app, f.role)
  PROVE  Inv'
<1>1. armed + 1 \in Cards
  BY OnboardingAssumption DEF Inv, TypeOK, Arm, Cards
<1>2. TypeOK'
  BY <1>1, OnboardingAssumption DEF Inv, TypeOK, Arm, Cards, platform
<1>3. pend'[cur'] = args
  BY <1>1 DEF Inv, TypeOK, Arm
<1>4. IntakeInOrder'
  BY QuestionsDiffer DEF IntakeInOrder, InFlow, Arm
<1>5. OnboardsRealUser'
  BY DEF OnboardsRealUser, InFlow, Arm, platform
<1>6. CurrentCardIsTheFlows'
  BY <1>3 DEF CurrentCardIsTheFlows, At, InFlow, Arm
<1>7. AppChosen'
  BY DEF AppChosen, InFlow, Arm
<1> QED
  BY <1>2, <1>4, <1>5, <1>6, <1>7 DEF Inv

\* A confirm that takes a card out of the session.
LEMMA SettleKeeps ==
  ASSUME Inv, NEW c \in Cards, NEW f, Settle(c, f),
         f \in Intake \cup Onboard \cup {None},
         f = flow \/ (f # None /\ f.name = "onboard" /\ f.stage = "offer_apps"
                               /\ f.user \in accounts'),
         accounts \subseteq accounts', accounts' \subseteq Users,
         access' \subseteq Users \X Apps \X Roles
  PROVE  Inv'
<1>1. TypeOK'
  BY DEF Inv, TypeOK, Settle
<1>2. IntakeInOrder'
  BY DEF Inv, IntakeInOrder, InFlow, Settle
<1>3. OnboardsRealUser'
  BY DEF Inv, OnboardsRealUser, InFlow, Settle
<1>4. CurrentCardIsTheFlows'
  BY DEF CurrentCardIsTheFlows, Settle
<1>5. AppChosen'
  BY DEF Inv, AppChosen, InFlow, Settle
<1> QED
  BY <1>1, <1>2, <1>3, <1>4, <1>5 DEF Inv

\* What the platform holds stays well typed and no account disappears.
LEMMA EffectKeeps ==
  ASSUME TypeOK, NEW args \in CreateArgs \cup AssignArgs, Effect(args)
  PROVE  /\ accounts \subseteq accounts' /\ accounts' \subseteq Users
         /\ access' \subseteq Users \X Apps \X Roles
         /\ args.tool = "createUser_post" => args.user \in accounts'
<1>1. args.tool = "createUser_post" => args \in CreateArgs
  BY DEF CreateArgs, AssignArgs
<1>2. args.tool # "createUser_post" => args \in AssignArgs
  BY DEF CreateArgs, AssignArgs
<1> QED
  BY <1>1, <1>2 DEF TypeOK, Effect, CreateArgs, AssignArgs

\* Every answer, card and fault keeps the invariant.
LEMMA NextInv == Inv /\ [Next]_vars => Inv'
<1> SUFFICES ASSUME Inv, [Next]_vars PROVE Inv'
  OBVIOUS
<1> USE OnboardingAssumption, RecordsAssumption
<1>a. flow # None => flow \in Intake \cup Onboard
  BY DEF Inv, TypeOK
<1>b. InFlow("create_user") => flow \in Intake
  BY <1>a DEF InFlow, Intake, Onboard
<1>c. InFlow("onboard") => flow \in Onboard /\ flow.user \in accounts
  BY <1>a DEF Inv, InFlow, Intake, Onboard, OnboardsRealUser
<1>d. \A c \in Cards : pend[c] # None => pend[c] \in CreateArgs \cup AssignArgs
  BY DEF Inv, TypeOK
<1>e. NewIntake \in Intake /\ NewIntake # None
  BY DEF NewIntake, Intake
<1>1. CASE OpenIntake
  BY <1>1, <1>e, StepKeeps, QuestionsDiffer DEF OpenIntake, NewIntake
<1>2. CASE AnswerDirect
  BY <1>2, StepKeeps DEF AnswerDirect
<1>3. CASE SkillCard
  BY <1>3, ArmKeeps DEF SkillCard
<1>4. CASE Cancel
  BY <1>4 DEF Cancel, Inv, TypeOK, IntakeInOrder, OnboardsRealUser, CurrentCardIsTheFlows,
     AppChosen, InFlow, platform
<1>5. CASE ChooseMode
  <2>1. PICK s \in {"first", "bulk_wait"} : Step([flow EXCEPT !.stage = s])
    BY <1>5 DEF ChooseMode
  <2> DEFINE f == [flow EXCEPT !.stage = s]
  <2>2. flow \in Intake /\ flow.stage = "mode"
    BY <1>5, <1>b DEF ChooseMode, At, InFlow
  <2>3. f \in Intake /\ f.name = "create_user" /\ f.filled = {} /\ f.user = None
    BY <2>2, <1>5 DEF Inv, IntakeInOrder, ChooseMode, At, Intake, Questions, Guided
  <2>4. Before(1) = {}
    BY DEF Before
  <2>5. \A i \in 1 .. 6 : f.stage = Guided[i] => i = 1
    BY <2>2, QuestionsDiffer, Guided[1] = "first" DEF Intake, Guided
  <2> QED
    BY <2>1, <2>2, <2>3, <2>4, <2>5, StepKeeps DEF Intake
<1>6. ASSUME NEW i \in 1 .. 6, Answer(i) PROVE Inv'
  <2> DEFINE g(u, stage) ==
        [flow EXCEPT !.user = u, !.filled = @ \cup {Guided[i]}, !.stage = stage]
  <2>1. flow \in Intake /\ flow.stage = Guided[i] /\ flow.filled = Before(i)
        /\ ("username" \in flow.filled <=> flow.user # None)
    BY <1>6, <1>b DEF Inv, IntakeInOrder, Answer, At, InFlow
  <2>2. PICK u \in IF Guided[i] = "username" THEN FreeNames ELSE {flow.user} :
          IF i < 6 THEN Step(g(u, Guided[i + 1])) ELSE Arm(CreateCard(u), g(u, "confirm"))
    BY <1>6 DEF Answer
  <2>3. u \in Users \cup {None} /\ (u # None <=> i >= 3)
    BY <2>1, <2>2, BeforeGrows, QuestionsDiffer DEF FreeNames, Intake
  <2>4. \A stage \in Questions \cup {"confirm"} :
          /\ g(u, stage) \in Intake /\ g(u, stage).name = "create_user"
          /\ g(u, stage).stage = stage /\ g(u, stage).user = u
          /\ g(u, stage).filled = Before(i) \cup {Guided[i]}
    BY <2>1, <2>3, QuestionsDiffer DEF Intake
  <2> HIDE DEF g
  <2>5. CASE i < 6
    <3>1. Guided[i + 1] \in Questions /\ i + 1 \in 1 .. 6 /\ Guided[i + 1] # "confirm"
      BY <2>5, QuestionsDiffer
    <3>2. g(u, Guided[i + 1]).filled = Before(i + 1)
      <4>1. i \in 1 .. 5
        BY <2>5
      <4>2. Before(i + 1) = Before(i) \cup {Guided[i]}
        BY <4>1, BeforeGrows
      <4> QED
        BY <2>4, <3>1, <4>2
    <3>3. "username" \in Before(i + 1) <=> u # None
      BY <2>3, <3>1, BeforeGrows
    <3> QED
      BY <2>2, <2>4, <2>5, <3>1, <3>2, <3>3, StepKeeps, QuestionsDiffer
  <2>6. CASE i = 6
    <3>1. u \in Users /\ CreateCard(u) \in CreateArgs
      BY <2>3, <2>6 DEF CreateCard, CreateArgs
    <3>2. g(u, "confirm").filled = Questions
      BY <2>4, <2>6, BeforeGrows
    <3> QED
      BY <2>2, <2>4, <2>6, <3>1, <3>2, ArmKeeps
  <2> QED
    BY <2>5, <2>6
<1>7. ASSUME NEW i \in 1 .. 6, GoBack(i) PROVE Inv'
  <2> DEFINE f == [flow EXCEPT !.stage = Guided[i - 1],
                               !.filled = @ \ {Guided[i - 1]},
                               !.user = IF Guided[i - 1] = "username" THEN None ELSE @]
  <2>1. flow \in Intake /\ flow.filled = Before(i)
        /\ ("username" \in flow.filled <=> flow.user # None)
    BY <1>7, <1>b DEF Inv, IntakeInOrder, GoBack, At, InFlow
  <2>2. i \in 2 .. 6 /\ i - 1 \in 1 .. 6 /\ Step(f)
    BY <1>7 DEF GoBack
  <2>3. /\ f \in Intake /\ f.name = "create_user" /\ f.stage = Guided[i - 1]
        /\ f.filled = Before(i - 1)
        /\ f.user = IF Guided[i - 1] = "username" THEN None ELSE flow.user
    BY <2>1, <2>2, BeforeGrows, QuestionsDiffer DEF Intake
  <2>4. "username" \in Before(i - 1) <=> f.user # None
    BY <2>1, <2>2, <2>3, BeforeGrows, QuestionsDiffer
  <2> QED
    BY <2>2, <2>3, <2>4, StepKeeps, QuestionsDiffer
<1>8. CASE Restart
  BY <1>8, <1>e, StepKeeps, QuestionsDiffer DEF Restart, NewIntake
<1>9. ASSUME NEW stage \in {"offer_apps", "pick_app", "pick_role"},
             NEW app \in Apps \cup {None},
             stage = "pick_role" => app \in Apps,
             InFlow("onboard"), Step([flow EXCEPT !.stage = stage, !.app = app])
      PROVE  Inv'
  <2> DEFINE f == [flow EXCEPT !.stage = stage, !.app = app]
  <2>1. f \in Onboard /\ f.name = "onboard" /\ f.user = flow.user /\ f.stage = stage
        /\ f.app = app
    BY <1>9, <1>c DEF Onboard
  <2> HIDE DEF f
  <2> QED
    BY <1>9, <1>c, <2>1, StepKeeps DEF f
<1>10. CASE WantApp \/ ChooseApp \/ LeaveApp
  <2>1. flow \in Onboard /\ InFlow("onboard")
    BY <1>10, <1>c DEF WantApp, ChooseApp, LeaveApp, At
  <2>2. CASE WantApp
    <3>1. [flow EXCEPT !.stage = "pick_app"]
            = [flow EXCEPT !.stage = "pick_app", !.app = flow.app] /\ flow.app \in Apps \cup {None}
      BY <2>1 DEF Onboard
    <3> QED
      BY <2>1, <2>2, <3>1, <1>9 DEF WantApp
  <2>3. CASE ChooseApp
    BY <2>1, <2>3, <1>9 DEF ChooseApp
  <2>4. CASE LeaveApp
    BY <2>1, <2>4, <1>9 DEF LeaveApp
  <2> QED
    BY <1>10, <2>2, <2>3, <2>4
<1>11. CASE ChooseRole
  <2>1. InFlow("onboard") /\ flow \in Onboard /\ flow.stage = "pick_role" /\ flow.user \in accounts
        /\ flow.app \in Apps
    BY <1>11, <1>c DEF Inv, AppChosen, ChooseRole, At
  <2>2. PICK r \in Roles : Arm(AssignCard(flow.user, flow.app, r),
                               [flow EXCEPT !.stage = "confirm_assign", !.role = r])
    BY <1>11 DEF ChooseRole
  <2> DEFINE f == [flow EXCEPT !.stage = "confirm_assign", !.role = r]
  <2>3. f \in Onboard /\ f.name = "onboard" /\ f.user = flow.user /\ f.app = flow.app /\ f.role = r
    BY <2>1 DEF Onboard
  <2>4. AssignCard(flow.user, flow.app, r) \in CreateArgs \cup AssignArgs
    BY <2>1 DEF AssignCard, AssignArgs, Onboard
  <2> HIDE DEF f
  <2> QED
    BY <2>1, <2>2, <2>3, <2>4, ArmKeeps DEF f
<1>12. CASE Finish
  BY <1>12, StepKeeps DEF Finish
<1>13. ASSUME NEW c \in Cards, Decline(c) \/ Deny(c) \/ Reject(c) PROVE Inv'
  <2> DEFINE back == [flow EXCEPT !.stage = "offer_apps", !.app = None, !.role = None]
  <2>1. PICK f \in {flow, back} :
          /\ Settle(c, f)
          /\ f = flow \/ InFlow("onboard")
          /\ UNCHANGED platform \/ Effect(pend[c])
    BY <1>13, <1>a DEF Decline, Deny, Reject, InFlow, Intake, Onboard
  <2>2. /\ accounts \subseteq accounts' /\ accounts' \subseteq Users
        /\ access' \subseteq Users \X Apps \X Roles
    BY <2>1, <1>13, <1>d, EffectKeeps DEF Inv, TypeOK, platform, Decline, Deny, Reject
  <2>3. InFlow("onboard") => /\ back \in Onboard /\ back.name = "onboard"
                             /\ back.stage = "offer_apps" /\ back.user = flow.user
    BY <1>c DEF Onboard
  <2>4. f \in Intake \cup Onboard \cup {None}
    BY <2>1, <2>3, <1>a
  <2>5. f = flow \/ (f # None /\ f.name = "onboard" /\ f.stage = "offer_apps"
                                /\ f.user \in accounts')
    BY <2>1, <2>2, <2>3, <1>c
  <2> QED
    BY <2>1, <2>2, <2>4, <2>5, SettleKeeps
<1>14. ASSUME NEW c \in Cards, AcceptCreate(c) PROVE Inv'
  <2> DEFINE f == [name |-> "onboard", stage |-> "offer_apps", user |-> pend[c].user,
                   app |-> None, role |-> None, assigned |-> {}]
  <2>1. pend[c] \in CreateArgs \cup AssignArgs /\ pend[c].tool = "createUser_post"
    BY <1>14, <1>d DEF AcceptCreate
  <2>2. pend[c].user \in Users
    BY <2>1 DEF CreateArgs, AssignArgs
  <2>3. /\ accounts \subseteq accounts' /\ accounts' \subseteq Users
        /\ access' \subseteq Users \X Apps \X Roles /\ pend[c].user \in accounts'
    BY <1>14, <2>1, EffectKeeps DEF Inv, AcceptCreate
  <2>4. f \in Onboard /\ f # None
    BY <2>2 DEF Onboard
  <2> QED
    BY <1>14, <2>3, <2>4, SettleKeeps DEF AcceptCreate
<1>15. ASSUME NEW c \in Cards, AcceptAssign(c) PROVE Inv'
  <2>1. pend[c] \in CreateArgs \cup AssignArgs /\ Effect(pend[c])
    BY <1>15, <1>d DEF AcceptAssign
  <2>2. /\ accounts \subseteq accounts' /\ accounts' \subseteq Users
        /\ access' \subseteq Users \X Apps \X Roles
    BY <2>1, EffectKeeps DEF Inv
  <2>3. CASE InFlow("create_user")
    <3>1. UNCHANGED session
      BY <1>15, <2>3 DEF AcceptAssign
    <3> QED
      BY <3>1, <2>2 DEF Inv, TypeOK, IntakeInOrder, OnboardsRealUser, CurrentCardIsTheFlows,
         AppChosen, InFlow, At, session
  <2>4. CASE flow = None
    BY <1>15, <2>2, <2>4, SettleKeeps DEF AcceptAssign, InFlow
  <2>5. CASE InFlow("onboard")
    <3>1. Settle(c, Recorded(flow))
      BY <1>15, <2>5 DEF AcceptAssign, InFlow
    <3> DEFINE done == IF flow.app # None /\ flow.role # None
                       THEN flow.assigned \cup {<<flow.app, flow.role>>} ELSE flow.assigned
    <3>a. done \subseteq Apps \X Roles
      BY <2>5, <1>c DEF Onboard
    <3>b. Recorded(flow) = [flow EXCEPT !.assigned = done, !.app = None, !.role = None,
                                        !.stage = "offer_apps"]
      BY <2>5, <1>c DEF Recorded, Onboard
    <3> HIDE DEF done
    <3>2. /\ Recorded(flow) \in Onboard /\ Recorded(flow).name = "onboard"
          /\ Recorded(flow).stage = "offer_apps" /\ Recorded(flow).user = flow.user
      BY <2>5, <1>c, <3>a, <3>b DEF Onboard
    <3> QED
      BY <3>1, <3>2, <2>2, <2>5, <1>c, SettleKeeps
  <2> QED
    BY <2>3, <2>4, <2>5, <1>a DEF InFlow, Intake, Onboard
<1>16. CASE UNCHANGED vars
  BY <1>16 DEF Inv, TypeOK, IntakeInOrder, OnboardsRealUser, CurrentCardIsTheFlows,
     AppChosen, InFlow, At, vars, session
<1> QED
  BY <1>1, <1>2, <1>3, <1>4, <1>5, <1>6, <1>7, <1>8, <1>10, <1>11, <1>12, <1>13, <1>14,
     <1>15, <1>16 DEF Next

\* The inductive invariant holds in every behaviour of the user flows.
THEOREM InvHolds == Spec => []Inv
  BY InitInv, NextInv, PTL DEF Spec

\* The types of the session and the platform.
THEOREM TypeCorrect == Spec => []TypeOK
  BY InvHolds, PTL DEF Inv

\* createUser_post is put to the user with every answer of the intake.
THEOREM IntakeHasNoHoles == Spec => []IntakeInOrder
  BY InvHolds, PTL DEF Inv

\* Access is offered only for a user the platform has.
THEOREM OnboardingHasAnAccount == Spec => []OnboardsRealUser
  BY InvHolds, PTL DEF Inv

\* What is confirmed at a confirm step is what the flow collected.
THEOREM ConfirmMatchesSummary == Spec => []CurrentCardIsTheFlows
  BY InvHolds, PTL DEF Inv

-----------------------------------------------------------------------------
(* Flow routing (FlowRouting), for messages of any number of cues and any  *)
(* entities and workflows.  The argument: what a message opens is the      *)
(* first of what it may open (FirstArm), which is what it names, if that   *)
(* is one thing (CommandStarts); and a flow that a message of its own kind *)
(* reaches does not step aside.                                            *)

\* A message: what its patterns find.
LEMMA MessageShape ==
  ASSUME NEW m \in Routing!Messages
  PROVE  /\ m.entity \in Entities \cup {"AMBIGUOUS", None} /\ m.trigger \in Workflows \cup {None}
         /\ m.skill \in Routing!Skills \cup {None}
         /\ Routing!Possible(m)
BY DEF Routing!Messages, Routing!Nouns

LEMMA LeastIsLeast ==
  ASSUME NEW S \in SUBSET Nat, S # {}
  PROVE  Routing!Min(S) \in S /\ \A y \in S : Routing!Min(S) <= y
<1>1. IsWellFoundedOn(OpToRel(<, Nat), Nat)
  BY NatLessThanWellFounded
<1>2. PICK x \in S : \A y \in S : <<y, x>> \notin OpToRel(<, Nat)
  BY <1>1, WFMin
<1>3. \A y \in S : x <= y
  <2> TAKE y \in S
  <2>1. ~ (y < x)
    BY <1>2 DEF OpToRel
  <2> QED
    BY <2>1
<1> QED
  BY <1>3 DEF Routing!Min

\* What a message opens is the first thing it may open, and nothing if there is none.
LEMMA FirstArm ==
  ASSUME NEW m
  PROVE  LET arms == Routing!Arms(m)
         IN  \/ Routing!MaybeStart(m) = None /\ \A i \in 1 .. 11 : arms[i] = {}
             \/ \E i \in 1 .. 11 : /\ Routing!MaybeStart(m) \in arms[i]
                                   /\ \A j \in 1 .. (i - 1) : arms[j] = {}
<1> DEFINE arms == Routing!Arms(m)
           hits == {i \in DOMAIN arms : arms[i] # {}}
<1>1. DOMAIN arms = 1 .. 11
  BY DEF Routing!Arms
<1>2. Routing!MaybeStart(m) = IF hits = {} THEN None ELSE CHOOSE f \in arms[Routing!Min(hits)] : TRUE
  BY DEF Routing!MaybeStart
<1> HIDE DEF arms
<1>3. hits # {} => Routing!Min(hits) \in hits /\ \A j \in hits : Routing!Min(hits) <= j
  <2>1. hits \in SUBSET Nat
    BY <1>1
  <2> HIDE DEF hits
  <2> QED
    BY <2>1, LeastIsLeast
<1>4. CASE hits = {}
  BY <1>1, <1>2, <1>4 DEF arms
<1>5. CASE hits # {}
  <2> DEFINE i == Routing!Min(hits)
  <2>1. i \in 1 .. 11 /\ arms[i] # {} /\ \A j \in hits : i <= j
    BY <1>1, <1>3, <1>5
  <2> HIDE DEF i
  <2>2. \A j \in 1 .. (i - 1) : arms[j] = {}
    BY <1>1, <2>1
  <2>3. Routing!MaybeStart(m) \in arms[i]
    BY <1>2, <1>5, <2>1 DEF i
  <2> QED
    BY <2>1, <2>2, <2>3 DEF arms
<1> QED
  BY <1>4, <1>5
\* A check that applies is not overtaken by a later one.
LEMMA NoLaterThan ==
  ASSUME NEW m, NEW k \in 1 .. 11, Routing!Arms(m)[k] # {}
  PROVE  \E i \in 1 .. k : Routing!MaybeStart(m) \in Routing!Arms(m)[i]
<1>1. PICK i \in 1 .. 11 : /\ Routing!MaybeStart(m) \in Routing!Arms(m)[i]
                          /\ \A j \in 1 .. (i - 1) : Routing!Arms(m)[j] = {}
  BY FirstArm
<1>2. i <= k
  BY <1>1
<1> QED
  BY <1>1, <1>2

\* Each check of maybe_start, by its place.
LEMMA ArmsAre ==
  ASSUME NEW m, NEW f
  PROVE  LET arms == Routing!Arms(m)
             asks == Routing!Has(m, "query")
         IN  /\ f \in arms[1] <=> m.trigger # None /\ f = Routing!Workflow(m.trigger)
             /\ f \in arms[2] \/ f \in arms[3] => f = Routing!Read
             /\ f \in arms[2] => Routing!Has(m, "details")
             /\ f \in arms[3] => Routing!Has(m, "list")
             /\ f \in arms[4] <=> Routing!Has(m, "skill") /\ ~asks /\ f = Routing!Opened("create_skill")
             /\ f \in arms[5] <=> /\ Routing!Has(m, "baseline") \/ m.skill = "baseline"
                                  /\ ~asks /\ f = Routing!Opened("formulation_baseline")
             /\ f \in arms[6] <=> Routing!Has(m, "remove") /\ ~asks /\ f = Routing!Opened("remove_role")
             /\ f \in arms[7] <=> /\ m.entity = "user" /\ ~asks /\ ~Routing!Has(m, "email")
                                  /\ f = Routing!Opened("create_user")
             /\ f \in arms[8] <=> /\ m.entity \in Entities \ {"user"} /\ ~asks
                                  /\ f = Routing!Creating(m.entity)
             /\ f \in arms[9] => m.entity = "AMBIGUOUS" /\ ~asks /\ f = Routing!Disambiguating
             /\ f \in arms[10] => m.skill = "create_user" /\ ~asks /\ f = Routing!Opened("create_user")
             /\ f \in arms[11] => m.skill = "role" /\ ~asks /\ f = Routing!Creating("role")
BY DEF Routing!Arms, Routing!When
\* Only the creation of a chosen entity, and a workflow, are about something.
FlowIsOf(f) ==
  /\ f \in ActiveFlows
  /\ f.name = "entity_create" => f.entity \in (Entities \ {"user"}) \cup {None}
  /\ f.name \notin {"entity_create", "workflow"} => f.entity = None

\* The flows that are started are such flows, and none of them is a read or no flow.
LEMMA StartedFlows ==
  /\ \A name \in FlowNames \ {"entity_create", "workflow"} :
       /\ FlowIsOf(Routing!Opened(name)) /\ Routing!Opened(name) \notin {None, Routing!Read}
       /\ Routing!Opened(name).name = name /\ Routing!Opened(name).entity = None
  /\ \A e \in Entities :
       /\ FlowIsOf(Routing!Creating(e)) /\ Routing!Creating(e) \notin {None, Routing!Read}
       /\ Routing!Creating(e).name = IF e = "user" THEN "create_user" ELSE "entity_create"
       /\ Routing!Creating(e).entity = IF e = "user" THEN None ELSE e
  /\ FlowIsOf(Routing!Disambiguating) /\ Routing!Disambiguating \notin {None, Routing!Read}
  /\ Routing!Disambiguating.name = "entity_create" /\ Routing!Disambiguating.entity = None
  /\ \A w \in Workflows : /\ FlowIsOf(Routing!Workflow(w))
                          /\ Routing!Workflow(w) \notin {None, Routing!Read}
                          /\ Routing!Workflow(w).name = "workflow"
<1> USE RoutingAssumption DEF FlowIsOf, ActiveFlows, FlowNames, Stages, Routing!Flow, Routing!Read
<1>1. ASSUME NEW name \in FlowNames \ {"entity_create", "workflow"}
      PROVE  /\ FlowIsOf(Routing!Opened(name)) /\ Routing!Opened(name) \notin {None, Routing!Read}
             /\ Routing!Opened(name).name = name /\ Routing!Opened(name).entity = None
  <2>1. Routing!Opened(name) \in ActiveFlows
    BY <1>1 DEF Routing!Opened
  <2> QED
    BY <2>1, <1>1 DEF Routing!Opened
<1>2. ASSUME NEW e \in Entities
      PROVE  /\ FlowIsOf(Routing!Creating(e)) /\ Routing!Creating(e) \notin {None, Routing!Read}
             /\ Routing!Creating(e).name = IF e = "user" THEN "create_user" ELSE "entity_create"
             /\ Routing!Creating(e).entity = IF e = "user" THEN None ELSE e
  <2>1. CASE e = "user"
    BY <2>1, <1>1 DEF Routing!Creating
  <2>2. CASE e # "user"
    <3> DEFINE f == [name |-> "entity_create", entity |-> e, stage |-> "collect", offered |-> FALSE]
    <3>1. f \in ActiveFlows /\ f.name = "entity_create" /\ f.entity = e
      BY <1>2
    <3>2. FlowIsOf(f) /\ f \notin {None, Routing!Read}
      BY <1>2, <2>2, <3>1
    <3>3. Routing!Creating(e) = f
      BY <2>2 DEF Routing!Creating
    <3> HIDE DEF f
    <3> QED
      BY <3>1, <3>2, <3>3, <2>2
  <2> QED
    BY <2>1, <2>2
<1>3. /\ FlowIsOf(Routing!Disambiguating) /\ Routing!Disambiguating \notin {None, Routing!Read}
      /\ Routing!Disambiguating.name = "entity_create" /\ Routing!Disambiguating.entity = None
  <2>1. Routing!Disambiguating \in ActiveFlows
    BY DEF Routing!Disambiguating
  <2> QED
    BY <2>1 DEF Routing!Disambiguating
<1>4. ASSUME NEW w \in Workflows
      PROVE  /\ FlowIsOf(Routing!Workflow(w)) /\ Routing!Workflow(w) \notin {None, Routing!Read}
             /\ Routing!Workflow(w).name = "workflow"
  <2>1. Routing!Workflow(w) \in ActiveFlows
    BY <1>4 DEF Routing!Workflow
  <2> QED
    BY <2>1 DEF Routing!Workflow
<1> QED
  BY <1>1, <1>2, <1>3, <1>4

\* What a message opens: a flow, which it names unless it is a workflow or asks which entity
\* is meant.
LEMMA WhatStarts ==
  ASSUME NEW m \in Routing!Messages
  PROVE  LET start == Routing!MaybeStart(m)
         IN  \/ start \in {None, Routing!Read}
             \/ FlowIsOf(start) /\ start.name = "workflow"
             \/ ~Routing!Has(m, "query") /\ m.entity = "AMBIGUOUS" /\ start = Routing!Disambiguating
             \/ /\ ~Routing!Has(m, "query") /\ FlowIsOf(start)
                /\ start \in Routing!Intents(m)
                /\ start.name \in {"create_skill", "formulation_baseline", "remove_role",
                                   "create_user", "entity_create"}
<1> DEFINE start == Routing!MaybeStart(m)
           arms  == Routing!Arms(m)
<1>1. start = None \/ \E i \in 1 .. 11 : start \in arms[i]
  BY FirstArm
<1>2. \A i \in 1 .. 11 : i = 1 \/ i = 2 \/ i = 3 \/ i = 4 \/ i = 5 \/ i = 6 \/ i = 7 \/ i = 8
                         \/ i = 9 \/ i = 10 \/ i = 11
  OBVIOUS
<1>3. /\ Routing!Has(m, "skill") => Routing!Opened("create_skill") \in Routing!Intents(m)
      /\ Routing!Has(m, "baseline") \/ m.skill = "baseline" =>
           Routing!Opened("formulation_baseline") \in Routing!Intents(m)
      /\ Routing!Has(m, "remove") => Routing!Opened("remove_role") \in Routing!Intents(m)
      /\ m.entity \in Entities => Routing!Creating(m.entity) \in Routing!Intents(m)
      /\ m.skill = "create_user" => Routing!Opened("create_user") \in Routing!Intents(m)
      /\ m.skill = "role" => Routing!Creating("role") \in Routing!Intents(m)
  BY DEF Routing!Intents, Routing!Has
<1>4. Routing!Creating("user") = Routing!Opened("create_user")
  BY DEF Routing!Creating
<1>5. /\ m.trigger # None => m.trigger \in Workflows
      /\ "user" \in Entities /\ "role" \in Entities
  BY MessageShape, RoutingAssumption
<1> HIDE DEF start, arms
<1>6. ASSUME NEW i \in 1 .. 11, start \in arms[i]
      PROVE  \/ start = Routing!Read
             \/ FlowIsOf(start) /\ start.name = "workflow"
             \/ ~Routing!Has(m, "query") /\ m.entity = "AMBIGUOUS" /\ start = Routing!Disambiguating
             \/ /\ ~Routing!Has(m, "query") /\ FlowIsOf(start)
                /\ start \in Routing!Intents(m)
                /\ start.name \in {"create_skill", "formulation_baseline", "remove_role",
                                   "create_user", "entity_create"}
  <2>1. CASE i = 1
    BY <2>1, <1>6, <1>5, ArmsAre, StartedFlows DEF arms
  <2>2. CASE i \in {2, 3}
    BY <2>2, <1>6, ArmsAre DEF arms
  <2>3. CASE i = 4
    BY <2>3, <1>6, <1>3, ArmsAre, StartedFlows DEF arms, FlowNames
  <2>4. CASE i = 5
    BY <2>4, <1>6, <1>3, ArmsAre, StartedFlows DEF arms, FlowNames
  <2>5. CASE i = 6
    BY <2>5, <1>6, <1>3, ArmsAre, StartedFlows DEF arms, FlowNames
  <2>6. CASE i = 7
    BY <2>6, <1>6, <1>3, <1>4, <1>5, ArmsAre, StartedFlows DEF arms, FlowNames
  <2>7. CASE i = 8
    BY <2>7, <1>6, <1>3, ArmsAre, StartedFlows DEF arms
  <2>8. CASE i = 9
    BY <2>8, <1>6, ArmsAre DEF arms
  <2>9. CASE i = 10
    BY <2>9, <1>6, <1>3, ArmsAre, StartedFlows DEF arms, FlowNames
  <2>10. CASE i = 11
    BY <2>10, <1>6, <1>3, <1>5, ArmsAre, StartedFlows DEF arms
  <2> QED
    BY <2>1, <2>2, <2>3, <2>4, <2>5, <2>6, <2>7, <2>8, <2>9, <2>10, <1>2
<1> QED
  BY <1>1, <1>6 DEF start
\* FlowRouting counts with an instance of its own of FiniteSets: it counts the same.
LEMMA SameCardinality == ASSUME NEW S PROVE Routing!Cardinality(S) = Cardinality(S)
  BY DEF Routing!Cardinality, Cardinality, Routing!IsFiniteSet, IsFiniteSet

\* A message names finitely many flows, so that two different ones are more than one.
LEMMA IntentsAreFinite == ASSUME NEW m PROVE IsFiniteSet(Routing!Intents(m))
<1> DEFINE commands == ({Routing!Opened("create_skill")} \cup {Routing!Opened("formulation_baseline")})
                         \cup {Routing!Opened("remove_role")}
           nouns    == (commands \cup {Routing!Creating(m.entity)}) \cup {Routing!Opened(m.skill)}
           all      == nouns \cup {Routing!Creating(m.skill)}
<1>1. Routing!Intents(m) \subseteq all
  BY DEF Routing!Intents
<1> HIDE DEF all
<1>2. IsFiniteSet(commands)
  <2>1. IsFiniteSet({Routing!Opened("create_skill")})
    BY FS_Singleton
  <2>2. IsFiniteSet({Routing!Opened("create_skill")} \cup {Routing!Opened("formulation_baseline")})
    BY <2>1, FS_AddElement
  <2> QED
    BY <2>2, FS_AddElement
<1> HIDE DEF commands
<1>3. IsFiniteSet(commands \cup {Routing!Creating(m.entity)})
  BY <1>2, FS_AddElement
<1>4. IsFiniteSet(nouns)
  BY <1>3, FS_AddElement
<1> HIDE DEF nouns
<1>5. IsFiniteSet(all)
  BY <1>4, FS_AddElement DEF all
<1> QED
  BY <1>1, <1>5, FS_Subset

LEMMA OneOrMore ==
  ASSUME NEW m, NEW f \in Routing!Intents(m), NEW g \in Routing!Intents(m), f # g
  PROVE  Routing!Cardinality(Routing!Intents(m)) > 1
<1>1. IsFiniteSet({f}) /\ Cardinality({f}) = 1
  BY FS_Singleton
<1>2. Cardinality({f} \cup {g}) = 2
  BY <1>1, FS_AddElement
<1>3. {f} \cup {g} \subseteq Routing!Intents(m)
  OBVIOUS
<1>4. /\ Cardinality({f} \cup {g}) <= Cardinality(Routing!Intents(m))
      /\ Cardinality(Routing!Intents(m)) \in Nat
  BY <1>3, IntentsAreFinite, FS_Subset, FS_CardinalityType
<1> QED
  BY <1>2, <1>4, SameCardinality

\* A command names one flow, and that is the flow it starts.
LEMMA CommandStarts ==
  ASSUME NEW m \in Routing!Messages, Routing!Command(m)
  PROVE  /\ Routing!MaybeStart(m) \in Routing!Intents(m)
         /\ Routing!Intents(m) = {Routing!MaybeStart(m)}
         /\ Routing!MaybeStart(m) \notin {None, Routing!Read}
<1> DEFINE start == Routing!MaybeStart(m)
           arms  == Routing!Arms(m)
<1>1. /\ m.cues \cap {"query", "details", "list", "email"} = {}
      /\ m.trigger = None /\ m.skill = None /\ m.entity # "AMBIGUOUS"
      /\ Cardinality(Routing!Intents(m)) = 1
  BY SameCardinality DEF Routing!Command
<1>2. PICK f : f \in Routing!Intents(m)
  BY <1>1, FS_EmptySet
<1>3. \/ Routing!Has(m, "skill") \/ Routing!Has(m, "baseline") \/ Routing!Has(m, "remove")
      \/ m.entity \in Entities
  BY <1>1, <1>2, MessageShape, RoutingAssumption DEF Routing!Intents, Routing!Has, Routing!Skills
<1>4. \E i \in {4, 5, 6, 7, 8} : arms[i] # {}
  <2>1. Routing!Has(m, "skill") => Routing!Opened("create_skill") \in arms[4]
    BY <1>1, ArmsAre DEF Routing!Has
  <2>2. Routing!Has(m, "baseline") => Routing!Opened("formulation_baseline") \in arms[5]
    BY <1>1, ArmsAre DEF Routing!Has
  <2>3. Routing!Has(m, "remove") => Routing!Opened("remove_role") \in arms[6]
    BY <1>1, ArmsAre DEF Routing!Has
  <2>4. m.entity = "user" => Routing!Opened("create_user") \in arms[7]
    BY <1>1, ArmsAre DEF Routing!Has
  <2>5. m.entity \in Entities \ {"user"} => Routing!Creating(m.entity) \in arms[8]
    BY <1>1, ArmsAre DEF Routing!Has
  <2> HIDE DEF arms
  <2> QED
    BY <1>3, <2>1, <2>2, <2>3, <2>4, <2>5
<1>5. /\ start \notin {None, Routing!Read}
      /\ start.name # "workflow"
  <2>1. PICK k \in {4, 5, 6, 7, 8} : arms[k] # {}
    BY <1>4
  <2>2. PICK i \in 1 .. k : start \in arms[i]
    BY <2>1, NoLaterThan
  <2>3. i \in 1 .. 8
    BY <2>1, <2>2
  <2>4. i \notin {1, 2, 3}
    BY <1>1, <2>2, ArmsAre DEF Routing!Has
  <2>5. \/ start \in {Routing!Opened("create_skill"), Routing!Opened("formulation_baseline"),
                      Routing!Opened("remove_role"), Routing!Opened("create_user")}
        \/ m.entity \in Entities /\ start = Routing!Creating(m.entity)
    <3>1. i = 4 \/ i = 5 \/ i = 6 \/ i = 7 \/ i = 8
      BY <2>3, <2>4
    <3> HIDE DEF start
    <3> QED
      BY <2>2, <3>1, ArmsAre
  <2> HIDE DEF start
  <2> QED
    BY <2>5, StartedFlows DEF FlowNames
<1>6. start \in Routing!Intents(m)
  BY <1>1, <1>5, WhatStarts
<1>7. \A g \in Routing!Intents(m) : g = start
  BY <1>1, <1>6, OneOrMore, SameCardinality
<1> QED
  BY <1>5, <1>6, <1>7

\* A message in which there is neither question, read nor standalone create, and that one
\* thing is asked for by, does not take a flow of that very thing away.
LEMMA StepsAsideOnPurpose ==
  ASSUME NEW m \in Routing!Messages, NEW f, f.name # "workflow", Routing!ShouldBreakOut(f, m),
         Routing!MaybeStart(m) \notin {None, Routing!Read},
         Routing!MaybeStart(m).name = f.name, Routing!MaybeStart(m).entity = f.entity,
         m.cues \cap {"standalone", "question", "read"} = {}
  PROVE  Routing!Cardinality(Routing!Intents(m)) > 1
<1> DEFINE start == Routing!MaybeStart(m)
           arms  == Routing!Arms(m)
<1>1. /\ ~Routing!Has(m, "read") /\ ~Routing!Has(m, "question") /\ ~Routing!Has(m, "standalone")
      /\ ~Routing!Has(m, "query")
  BY DEF Routing!Has, Routing!ShouldBreakOut
<1>2. \/ m.entity = "AMBIGUOUS" /\ start = Routing!Disambiguating
      \/ start \in Routing!Intents(m)
  BY WhatStarts
<1>3. start.name = f.name /\ start.entity = f.entity /\ start \notin {None, Routing!Read}
  OBVIOUS
<1>4. m.entity \in Entities => m.entity # "AMBIGUOUS"
  BY RoutingAssumption
<1> HIDE DEF start
<1>5. CASE Routing!Has(m, "remove")
  <2>1. Routing!Opened("remove_role") \in arms[6] /\ Routing!Opened("remove_role") \in Routing!Intents(m)
    BY <1>1, <1>5, ArmsAre DEF Routing!Intents, Routing!Has
  <2>2. PICK i \in 1 .. 6 : start \in arms[i]
    BY <2>1, NoLaterThan DEF start
  <2>3. f.name # "remove_role"
    BY <1>1, <1>5 DEF Routing!ShouldBreakOut
  <2>4. start # Routing!Opened("remove_role")
    BY <1>3, <2>3, StartedFlows DEF FlowNames
  <2>5. start # Routing!Disambiguating
    <3>1. i = 1 \/ i = 2 \/ i = 3 \/ i = 4 \/ i = 5 \/ i = 6
      OBVIOUS
    <3>2. /\ i # 1 => start \in {Routing!Read, Routing!Opened("create_skill"),
                               Routing!Opened("formulation_baseline"), Routing!Opened("remove_role")}
          /\ i = 1 => m.trigger # None /\ start = Routing!Workflow(m.trigger)
      BY <2>2, <3>1, ArmsAre
    <3> QED
      BY <3>2, StartedFlows, MessageShape DEF FlowNames
  <2> QED
    BY <1>2, <2>1, <2>4, <2>5, OneOrMore
<1>6. CASE ~Routing!Has(m, "remove") /\ m.entity \in Entities
  <2>1. Routing!Creating(m.entity) \in Routing!Intents(m)
    BY <1>6 DEF Routing!Intents
  <2>2. ~ \/ f.name = "entity_create" /\ f.entity = m.entity
          \/ f.name = "create_user" /\ m.entity = "user"
    BY <1>1, <1>6 DEF Routing!ShouldBreakOut
  <2>3. start # Routing!Creating(m.entity)
    BY <1>3, <1>6, <2>2, StartedFlows
  <2> QED
    BY <1>2, <1>4, <1>6, <2>1, <2>3, OneOrMore
<1>7. CASE ~Routing!Has(m, "remove") /\ m.entity \notin Entities
  <2>1. \/ Routing!Has(m, "skill") /\ f.name # "create_skill"
        \/ ~Routing!Has(m, "skill") /\ Routing!Has(m, "baseline") /\ f.name # "formulation_baseline"
    BY <1>1, <1>7 DEF Routing!ShouldBreakOut
  <2>2. start.name # "workflow"
    BY <1>3
  <2>3. CASE Routing!Has(m, "skill") /\ f.name # "create_skill"
    <3>1. Routing!Opened("create_skill") \in arms[4]
      BY <1>1, <2>3, ArmsAre
    <3>2. PICK i \in 1 .. 4 : start \in arms[i]
      BY <3>1, NoLaterThan DEF start
    <3>3. i = 1 \/ i = 2 \/ i = 3 \/ i = 4
      OBVIOUS
    <3>4. \/ start \in {Routing!Read, Routing!Opened("create_skill")}
          \/ m.trigger # None /\ start = Routing!Workflow(m.trigger)
      BY <3>2, <3>3, ArmsAre
    <3> QED
      BY <1>3, <2>2, <2>3, <3>4, StartedFlows, MessageShape DEF FlowNames
  <2>4. CASE ~Routing!Has(m, "skill") /\ Routing!Has(m, "baseline") /\ f.name # "formulation_baseline"
    <3>1. Routing!Opened("formulation_baseline") \in arms[5]
      BY <1>1, <2>4, ArmsAre
    <3>2. PICK i \in 1 .. 5 : start \in arms[i]
      BY <3>1, NoLaterThan DEF start
    <3>3. i = 1 \/ i = 2 \/ i = 3 \/ i = 4 \/ i = 5
      OBVIOUS
    <3>4. \/ start \in {Routing!Read, Routing!Opened("formulation_baseline")}
          \/ m.trigger # None /\ start = Routing!Workflow(m.trigger)
      BY <2>4, <3>2, <3>3, ArmsAre
    <3> QED
      BY <1>3, <2>2, <2>4, <3>4, StartedFlows, MessageShape DEF FlowNames
  <2> QED
    BY <2>1, <2>3, <2>4
<1> QED
  BY <1>5, <1>6, <1>7

\* A command that its flow keeps is that flow's: it names what the flow is about.
LEMMA KeptIfItsOwn ==
  ASSUME NEW m \in Routing!Messages, Routing!Command(m), NEW f, FlowIsOf(f),
         f.name # "workflow", ~Routing!ShouldBreakOut(f, m)
  PROVE  f.name = Routing!MaybeStart(m).name /\ f.entity = Routing!MaybeStart(m).entity
<1> DEFINE start == Routing!MaybeStart(m)
<1>1. Routing!Intents(m) = {start} /\ start \in Routing!Intents(m)
  BY CommandStarts
<1>2. ~Routing!Has(m, "query") /\ m.skill = None
  BY DEF Routing!Command, Routing!Has
<1>3. f.name \notin {"entity_create", "workflow"} => f.entity = None
  BY DEF FlowIsOf
<1> HIDE DEF start
<1>4. CASE Routing!Has(m, "remove")
  <2>1. start = Routing!Opened("remove_role") /\ f.name = "remove_role"
    BY <1>1, <1>2, <1>4 DEF Routing!Intents, Routing!Has, Routing!ShouldBreakOut
  <2> QED
    BY <1>3, <2>1, StartedFlows DEF FlowNames, start
<1>5. CASE ~Routing!Has(m, "remove") /\ m.entity \in Entities
  <2>1. start = Routing!Creating(m.entity)
    BY <1>1, <1>5 DEF Routing!Intents
  <2>2. \/ f.name = "entity_create" /\ f.entity = m.entity
        \/ f.name = "create_user" /\ m.entity = "user"
    BY <1>2, <1>5 DEF Routing!ShouldBreakOut
  <2>3. f.name = "entity_create" => f.entity \in (Entities \ {"user"}) \cup {None}
    BY DEF FlowIsOf
  <2>4. "user" # None
    BY RoutingAssumption
  <2> QED
    BY <1>3, <1>5, <2>1, <2>2, <2>3, <2>4, StartedFlows DEF start
<1>6. CASE ~Routing!Has(m, "remove") /\ m.entity \notin Entities
  <2>1. Routing!Has(m, "skill") \/ Routing!Has(m, "baseline")
    BY <1>1, <1>2, <1>6, RoutingAssumption DEF Routing!Intents, Routing!Has, Routing!Skills
  <2>2. CASE Routing!Has(m, "skill")
    <3>1. start = Routing!Opened("create_skill") /\ f.name = "create_skill"
      BY <1>1, <1>2, <1>6, <2>2 DEF Routing!Intents, Routing!Has, Routing!ShouldBreakOut
    <3> QED
      BY <1>3, <3>1, StartedFlows DEF FlowNames, start
  <2>3. CASE ~Routing!Has(m, "skill") /\ Routing!Has(m, "baseline")
    <3>1. start = Routing!Opened("formulation_baseline") /\ f.name = "formulation_baseline"
      BY <1>1, <1>2, <1>6, <2>3 DEF Routing!Intents, Routing!Has, Routing!ShouldBreakOut
    <3> QED
      BY <1>3, <3>1, StartedFlows DEF FlowNames, start
  <2> QED
    BY <2>1, <2>2, <2>3
<1> QED
  BY <1>4, <1>5, <1>6
\* The strengthening: what is active is a flow, and about what its kind is about.
RoutingInv == (active # None => FlowIsOf(active)) /\ MessagesReachTheirFlow

\* A turn that opens nothing: a command among them is met by its own flow or a workflow.
LEMMA AnsweredKeeps ==
  ASSUME NEW m \in Routing!Messages, NEW source, Routing!Answered(m, source, None),
         active' # None => FlowIsOf(active)',
         Routing!Command(m) =>
           /\ active # None /\ source = "flow"
           /\ \/ active.name = "workflow"
              \/ /\ active.name = Routing!MaybeStart(m).name
                 /\ active.entity = Routing!MaybeStart(m).entity
  PROVE  RoutingInv'
<1>1. turn' = [msg |-> m, met |-> active, opened |-> None, source |-> source]
  BY DEF Routing!Answered
<1>2. Routing!QuestionsOpenNothing'
  BY <1>1 DEF Routing!QuestionsOpenNothing
<1>3. Routing!CommandsLand'
  BY <1>1, CommandStarts DEF Routing!CommandsLand
<1>4. Routing!ReopenedOnPurpose'
  BY <1>1 DEF Routing!ReopenedOnPurpose
<1> QED
  BY <1>2, <1>3, <1>4 DEF RoutingInv, MessagesReachTheirFlow

\* A turn that routes its message afresh, after no flow, a flow that stepped aside, an
\* onboarding, which no message opens, or a workflow.
LEMMA FreshKeeps ==
  ASSUME NEW m \in Routing!Messages, Routing!Fresh(m),
         active # None => FlowIsOf(active),
         active = None \/ active.name \in {"onboard", "workflow"} \/ Routing!ShouldBreakOut(active, m)
  PROVE  RoutingInv'
<1> DEFINE start == Routing!MaybeStart(m)
<1>1. Routing!Command(m) => ~Routing!Has(m, "meta")
  BY DEF Routing!Command, Routing!Has
<1>2. CASE /\ active' = start /\ Routing!Answered(m, "flow", start)
           /\ start \notin {None, Routing!Read}
  <2>1. turn' = [msg |-> m, met |-> active, opened |-> start, source |-> "flow"]
    BY <1>2 DEF Routing!Answered
  <2>2. /\ FlowIsOf(start)
        /\ Routing!Has(m, "query") => start.name = "workflow"
        /\ start.name # "onboard"
    BY <1>2, WhatStarts, StartedFlows
  <2>3. FlowIsOf(active)'
    BY <1>2, <2>2 DEF FlowIsOf, ActiveFlows
  <2> HIDE DEF start
  <2>4. Routing!QuestionsOpenNothing'
    BY <2>1, <2>2 DEF Routing!QuestionsOpenNothing
  <2>5. Routing!CommandsLand'
    <3> SUFFICES ASSUME Routing!Command(m)
                 PROVE  (CHOOSE f \in Routing!Intents(m) : TRUE) = start
      BY <2>1 DEF Routing!CommandsLand
    <3> QED
      BY CommandStarts DEF start
  <2>6. Routing!ReopenedOnPurpose'
    <3> SUFFICES ASSUME active # None, active.name # "workflow",
                        active.name = start.name, active.entity = start.entity,
                        m.cues \cap {"standalone", "question", "read"} = {}
                 PROVE  Routing!Cardinality(Routing!Intents(m)) > 1
      BY <2>1 DEF Routing!ReopenedOnPurpose
    <3> QED
      BY <1>2, <2>2, StepsAsideOnPurpose DEF start
  <2> QED
    BY <2>3, <2>4, <2>5, <2>6 DEF RoutingInv, MessagesReachTheirFlow
<1>3. CASE active' = None /\ \E source : Routing!Answered(m, source, None)
  <2>1. PICK source : Routing!Answered(m, source, None)
    BY <1>3
  <2>2. CASE ~Routing!Command(m)
    BY <1>3, <2>1, <2>2, AnsweredKeeps
  <2>3. CASE Routing!Command(m)
    <3>1. start.name \in Routing!Onboarding /\ source = "denied"
      BY <1>1, <2>1, <2>3, CommandStarts DEF Routing!Fresh, Routing!Answered
    <3> QED
      BY <1>3, <2>1, <2>3, <3>1, CommandStarts
      DEF Routing!Answered, RoutingInv, MessagesReachTheirFlow, Routing!QuestionsOpenNothing,
          Routing!CommandsLand, Routing!ReopenedOnPurpose
  <2> QED
    BY <2>2, <2>3
<1> QED
  BY <1>2, <1>3 DEF Routing!Fresh

LEMMA RoutingInit == Routing!Init => RoutingInv
  BY DEF Routing!Init, RoutingInv, MessagesReachTheirFlow, Routing!QuestionsOpenNothing,
     Routing!CommandsLand, Routing!ReopenedOnPurpose

LEMMA RoutingNext == RoutingInv /\ [Routing!Next]_Routing!vars => RoutingInv'
<1> SUFFICES ASSUME RoutingInv, [Routing!Next]_Routing!vars PROVE RoutingInv'
  OBVIOUS
<1>a. active # None => FlowIsOf(active)
  BY DEF RoutingInv
<1>1. ASSUME NEW m \in Routing!Messages, Routing!Turn(m) PROVE RoutingInv'
  <2>0. Routing!Command(m) =>
          /\ ~Routing!Has(m, "secret") /\ ~Routing!Has(m, "cancel") /\ ~Routing!Has(m, "field")
          /\ ~Routing!Has(m, "restart")
    BY DEF Routing!Command, Routing!Has
  <2>1. CASE Routing!Refuse(m)
    BY <1>a, <2>0, <2>1, AnsweredKeeps DEF Routing!Refuse, FlowIsOf, ActiveFlows
  <2>2. CASE Routing!FreshTurn(m)
    BY <1>a, <2>2, FreshKeeps DEF Routing!FreshTurn
  <2>3. CASE Routing!Cancel(m)
    BY <2>0, <2>3, AnsweredKeeps DEF Routing!Cancel, Routing!Cancels
  <2>4. CASE Routing!BreakOut(m)
    BY <1>a, <2>4, FreshKeeps DEF Routing!BreakOut, Routing!BreaksOut
  <2>5. CASE Routing!Pivot(m)
    BY <1>a, <2>5, FreshKeeps DEF Routing!Pivot, Routing!Pivots
  <2>6. CASE Routing!Switch(m)
    BY <1>a, <2>6, FreshKeeps DEF Routing!Switch, Routing!InWorkflow
  <2>7. CASE Routing!OfferSwitch(m) \/ Routing!Stay(m) \/ Routing!Advance(m)
    <3>1. /\ active # None /\ active.name = "workflow" /\ Routing!Answered(m, "flow", None)
          /\ active' \in {None, [active EXCEPT !.offered = TRUE], [active EXCEPT !.offered = FALSE]}
      BY <2>7 DEF Routing!OfferSwitch, Routing!Stay, Routing!Advance, Routing!InWorkflow,
                  Routing!Active
    <3>2. active' # None => FlowIsOf(active)'
      BY <1>a, <3>1 DEF FlowIsOf, ActiveFlows
    <3> QED
      BY <3>1, <3>2, AnsweredKeeps
  <2>8. CASE Routing!Answer(m)
    <3>1. /\ active # None /\ active.name # "workflow" /\ Routing!Answered(m, "flow", None)
          /\ \/ active' = None
             \/ \E s \in {"collect", "review"} : active' = [active EXCEPT !.stage = s]
             \/ \E e \in Entities : active' = Routing!Creating(e)
      BY <2>8 DEF Routing!Answer, Routing!Active
    <3>2. active' # None => FlowIsOf(active)'
      <4>1. CASE \E s \in {"collect", "review"} : active' = [active EXCEPT !.stage = s]
        BY <1>a, <3>1, <4>1 DEF FlowIsOf, ActiveFlows, Stages
      <4>2. CASE \E e \in Entities : active' = Routing!Creating(e)
        BY <4>2, StartedFlows DEF FlowIsOf, ActiveFlows
      <4> QED
        BY <3>1, <4>1, <4>2
    <3>3. Routing!Command(m) => ~Routing!ShouldBreakOut(active, m)
      BY <2>0, <2>8 DEF Routing!Answer, Routing!BreaksOut, Routing!Owned
    <3>4. Routing!Command(m) => /\ active.name = Routing!MaybeStart(m).name
                                /\ active.entity = Routing!MaybeStart(m).entity
      BY <1>a, <3>1, <3>3, KeptIfItsOwn
    <3> QED
      BY <3>1, <3>2, <3>4, AnsweredKeeps
  <2> QED
    BY <1>1, <2>1, <2>2, <2>3, <2>4, <2>5, <2>6, <2>7, <2>8 DEF Routing!Turn
<1>2. CASE Routing!Shown
  BY <1>a, <1>2 DEF Routing!Shown, RoutingInv, MessagesReachTheirFlow, FlowIsOf, ActiveFlows,
     Routing!QuestionsOpenNothing, Routing!CommandsLand, Routing!ReopenedOnPurpose
<1>3. CASE Routing!Confirmed
  <2>1. active' # None => FlowIsOf(active)'
    BY <1>3, StartedFlows DEF Routing!Confirmed, FlowNames, FlowIsOf, ActiveFlows
  <2> QED
    BY <1>3, <2>1 DEF Routing!Confirmed, RoutingInv, MessagesReachTheirFlow,
       Routing!QuestionsOpenNothing, Routing!CommandsLand, Routing!ReopenedOnPurpose
<1>4. CASE Routing!RolesChange \/ UNCHANGED Routing!vars
  BY <1>a, <1>4 DEF Routing!RolesChange, Routing!vars, RoutingInv, MessagesReachTheirFlow, FlowIsOf,
     ActiveFlows, Routing!QuestionsOpenNothing, Routing!CommandsLand, Routing!ReopenedOnPurpose
<1> QED
  BY <1>1, <1>2, <1>3, <1>4 DEF Routing!Next

\* No question opens a flow of answers, no flow swallows another's command, and none is
\* opened over itself by an answer.
THEOREM MessagesLand == Routing!Spec => []MessagesReachTheirFlow
<1>1. RoutingInv => MessagesReachTheirFlow
  BY DEF RoutingInv
<1> QED
  BY <1>1, RoutingInit, RoutingNext, PTL DEF Routing!Spec
-----------------------------------------------------------------------------
(* The flows that create an entity or remove a role (EntityFlow).          *)

\* The names and codes an application's roles have.
IndexOf(a, rs) == [names |-> {r.name : r \in {s \in rs : s.app = a}},
                   codes |-> {r.code : r \in {s \in rs : s.app = a}}]

\* A menu of an application's, a name and a code for another one.
HasMenu(ms, a, n) == \E m \in ms : m.app = a /\ m.name = n
NewName(ms, a, n) == \A m \in ms : m.app = a => m.name # n
NewCode(ms, a, c) == \A m \in ms : m.app = a => m.code # c

\* A code that is not an enabled application's.
NewApplication(as, c) == \A a \in as : a.enabled => a.code # c

\* What a create flow has collected is true of a platform with these roles, menus and
\* applications.
StillTrue(f, rs, ms, as) ==
  LET d == f.data
  IN  /\ f.options \subseteq rs
      /\ f.index # None => "applicationId" \in DOMAIN d /\ f.index = IndexOf(d["applicationId"], rs)
      /\ "role" \in DOMAIN d =>
           \A r \in rs : r.app = d["applicationId"] => r.name # d["roleName"] /\ r.code # d["role"]
      /\ "menuId" \in DOMAIN d => HasMenu(ms, d["applicationId"], d["menuId"])
      /\ "menuName" \in DOMAIN d => NewName(ms, d["applicationId"], d["menuName"])
      /\ "menuCode" \in DOMAIN d => NewCode(ms, d["applicationId"], d["menuCode"])
      /\ "applicationCode" \in DOMAIN d => NewApplication(as, d["applicationCode"])
      /\ "applicationRoleId" \in DOMAIN d => d["applicationRoleId"] \in rs

CreationFields ==
  {"name", "entity", "stage", "idx", "data", "index", "picking", "options", "resume"}

\* A create flow that holds the fields before the one it is at, which may be past the last.
Collected(f) ==
  /\ DOMAIN f = CreationFields /\ f.name = "entity_create"
  /\ Entity!CreationOK(f)
  /\ f.data = [k \in DOMAIN f.data |-> f.data[k]]
  /\ Entity!IsData(f.data, Entity!Before(f.entity, f.idx))

\* It is at its confirm stage when it is past the last, and only then.
Formed(f) == Collected(f) /\ (f.stage = "confirm" <=> f.idx = Len(Entity!Fields(f.entity)) + 1)

\* A role flow that waits for its menu.
AtItsMenu(f) == f.entity = "role" /\ f.stage = "collect" /\ f.idx = 5 /\ f.resume = None

\* Only a menu flow suspends another, a role flow at its menu.
SuspendsRole(f, rs, ms, as) ==
  f.resume # None =>
    f.entity = "menu" /\ Formed(f.resume) /\ AtItsMenu(f.resume) /\ StillTrue(f.resume, rs, ms, as)

\* What an active flow may be on such a platform.
FlowHolds(f, rs, ms, as) ==
  \/ f \in {None, Entity!Asking}
  \/ Formed(f) /\ StillTrue(f, rs, ms, as) /\ SuspendsRole(f, rs, ms, as)
  \/ /\ f.name = "remove_role" /\ f.stage \in {"pick_app", "pick_role", "confirm"}
     /\ f.list \subseteq rs /\ f.role \in Entity!Role \cup {None}

PlatformHolds(rs, ms, as) ==
  /\ rs \subseteq Entity!Role /\ IsFiniteSet(rs)
  /\ ms \subseteq Entity!Menu
  /\ as \subseteq Entity!Application /\ \E n \in Nat : \A a \in as : a.order <= n

CardsHold(cards) ==
  DOMAIN cards = Cards /\ \A c \in Cards : cards[c] # None => Entity!ArgsOK(cards[c])

\* The strengthening: whatever cards were confirmed, what the active flow was told is true.
EntityInv ==
  /\ PlatformHolds(roles, menus, created)
  /\ CardsHold(waiting) /\ current \in Cards \cup {None} /\ drawn \in 0 .. MaxCards
  /\ FlowHolds(creation, roles, menus, created)
  /\ Entity!CurrentCardIsTheFlows /\ Entity!CurrentCardIsFeasible

\* What each entity is asked for.
LEMMA FieldsAre ==
  /\ Entity!Fields("application") = <<"applicationName", "applicationCode", "details">>
  /\ Entity!Fields("role") = <<"applicationId", "roleName", "role", "details", "menuId">>
  /\ Entity!Fields("menu") = <<"applicationId", "menuName", "menuCode", "details">>
  /\ Entity!Fields("privilege") = <<"applicationRoleId", "details">>
  BY DEF Entity!Fields

LEMMA LengthsAre ==
  /\ Len(Entity!Fields("application")) = 3 /\ Len(Entity!Fields("role")) = 5
  /\ Len(Entity!Fields("menu")) = 4 /\ Len(Entity!Fields("privilege")) = 2
  BY FieldsAre

\* The fields before each.
LEMMA BeforeIs ==
  /\ \A e \in Entity!AllEntities : Entity!Before(e, 1) = {}
  /\ Entity!Before("application", 2) = {"applicationName"}
  /\ Entity!Before("application", 3) = {"applicationName", "applicationCode"}
  /\ Entity!Before("application", 4) = {"applicationName", "applicationCode", "details"}
  /\ Entity!Before("role", 2) = {"applicationId"}
  /\ Entity!Before("role", 3) = {"applicationId", "roleName"}
  /\ Entity!Before("role", 4) = {"applicationId", "roleName", "role"}
  /\ Entity!Before("role", 5) = {"applicationId", "roleName", "role", "details"}
  /\ Entity!Before("role", 6) = {"applicationId", "roleName", "role", "details", "menuId"}
  /\ Entity!Before("menu", 2) = {"applicationId"}
  /\ Entity!Before("menu", 3) = {"applicationId", "menuName"}
  /\ Entity!Before("menu", 4) = {"applicationId", "menuName", "menuCode"}
  /\ Entity!Before("menu", 5) = {"applicationId", "menuName", "menuCode", "details"}
  /\ Entity!Before("privilege", 2) = {"applicationRoleId"}
  /\ Entity!Before("privilege", 3) = {"applicationRoleId", "details"}
<1>1. /\ 1 .. 1 - 1 = {} /\ 1 .. 2 - 1 = {1} /\ 1 .. 3 - 1 = {1, 2} /\ 1 .. 4 - 1 = {1, 2, 3}
      /\ 1 .. 5 - 1 = {1, 2, 3, 4} /\ 1 .. 6 - 1 = {1, 2, 3, 4, 5}
  OBVIOUS
<1>2. \A e \in Entity!AllEntities : Entity!Before(e, 1) = {}
  BY <1>1 DEF Entity!Before
<1>3. /\ Entity!Before("application", 2) = {"applicationName"}
      /\ Entity!Before("application", 3) = {"applicationName", "applicationCode"}
      /\ Entity!Before("application", 4) = {"applicationName", "applicationCode", "details"}
  BY <1>1, FieldsAre DEF Entity!Before
<1>4. /\ Entity!Before("role", 2) = {"applicationId"}
      /\ Entity!Before("role", 3) = {"applicationId", "roleName"}
      /\ Entity!Before("role", 4) = {"applicationId", "roleName", "role"}
  BY <1>1, FieldsAre DEF Entity!Before
<1>5. Entity!Before("role", 5) = {"applicationId", "roleName", "role", "details"}
  BY <1>1, FieldsAre DEF Entity!Before
<1>6. Entity!Before("role", 6) = {"applicationId", "roleName", "role", "details", "menuId"}
  BY <1>1, FieldsAre DEF Entity!Before
<1>7. /\ Entity!Before("menu", 2) = {"applicationId"}
      /\ Entity!Before("menu", 3) = {"applicationId", "menuName"}
      /\ Entity!Before("menu", 4) = {"applicationId", "menuName", "menuCode"}
      /\ Entity!Before("menu", 5) = {"applicationId", "menuName", "menuCode", "details"}
  BY <1>1, FieldsAre DEF Entity!Before
<1>8. /\ Entity!Before("privilege", 2) = {"applicationRoleId"}
      /\ Entity!Before("privilege", 3) = {"applicationRoleId", "details"}
  BY <1>1, FieldsAre DEF Entity!Before
<1> QED
  BY <1>2, <1>3, <1>4, <1>5, <1>6, <1>7, <1>8

\* All the fields.
LEMMA FieldsInAll ==
  /\ Entity!Before("application", Len(Entity!Fields("application")) + 1)
       = {"applicationName", "applicationCode", "details"}
  /\ Entity!Before("role", Len(Entity!Fields("role")) + 1)
       = {"applicationId", "roleName", "role", "details", "menuId"}
  /\ Entity!Before("menu", Len(Entity!Fields("menu")) + 1)
       = {"applicationId", "menuName", "menuCode", "details"}
  /\ Entity!Before("privilege", Len(Entity!Fields("privilege")) + 1) = {"applicationRoleId", "details"}
<1>1. /\ Len(Entity!Fields("application")) + 1 = 4 /\ Len(Entity!Fields("role")) + 1 = 6
      /\ Len(Entity!Fields("menu")) + 1 = 5 /\ Len(Entity!Fields("privilege")) + 1 = 3
  <2>1. 3 + 1 = 4 /\ 5 + 1 = 6 /\ 4 + 1 = 5 /\ 2 + 1 = 3
    OBVIOUS
  <2> QED
    BY <2>1, LengthsAre, Zenon
<1> QED
  BY <1>1, BeforeIs

LEMMA FieldsGrow ==
  ASSUME NEW e \in Entity!AllEntities, NEW i \in 1 .. Len(Entity!Fields(e))
  PROVE  /\ Entity!Before(e, i + 1) = Entity!Before(e, i) \cup {Entity!Fields(e)[i]}
         /\ i + 1 \in 1 .. Len(Entity!Fields(e)) + 1
<1>1. Len(Entity!Fields(e)) \in Nat
  BY FieldsAre DEF Entity!AllEntities
<1>2. 1 .. (i + 1) - 1 = (1 .. i - 1) \cup {i}
  BY <1>1
<1> QED
  BY <1>1, <1>2 DEF Entity!Before

\* Where a create flow is, by the field it asks for.
LEMMA FieldIsAt ==
  ASSUME NEW f, Formed(f), f.stage = "collect"
  PROVE  /\ f.idx \in 1 .. Len(Entity!Fields(f.entity))
         /\ Entity!Fields(f.entity)[f.idx] = "applicationId" => f.entity \in {"role", "menu"} /\ f.idx = 1
         /\ f.entity = "role" /\ Entity!Fields(f.entity)[f.idx] = "roleName" => f.idx = 2
         /\ f.entity = "role" /\ Entity!Fields(f.entity)[f.idx] = "menuId" => f.idx = 5
         /\ f.entity = "menu" /\ Entity!Fields(f.entity)[f.idx] = "menuName" => f.idx = 2
         /\ f.entity = "menu" /\ Entity!Fields(f.entity)[f.idx] = "menuCode" => f.idx = 3
         /\ f.entity = "application" /\ Entity!Fields(f.entity)[f.idx] = "applicationName" => f.idx = 1
         /\ f.entity = "application" /\ Entity!Fields(f.entity)[f.idx] = "applicationCode" => f.idx = 2
         /\ f.entity = "privilege" /\ Entity!Fields(f.entity)[f.idx] = "applicationRoleId" => f.idx = 1
<1>1. f.idx \in 1 .. Len(Entity!Fields(f.entity)) + 1 /\ f.entity \in Entity!AllEntities
  BY DEF Formed, Collected, Entity!CreationOK
<1>2. Len(Entity!Fields(f.entity)) \in Nat
  BY <1>1, FieldsAre DEF Entity!AllEntities
<1>3. f.idx \in 1 .. Len(Entity!Fields(f.entity))
  BY <1>1, <1>2 DEF Formed
<1>4. CASE f.entity = "application"
  <2>1. Len(Entity!Fields(f.entity)) = 3
    BY <1>4, LengthsAre
  <2>2. f.idx \in 1 .. 3
    BY <1>3, <2>1
  <2>3. f.idx = 1 \/ f.idx = 2 \/ f.idx = 3
    BY <2>2
  <2>4. Entity!Fields(f.entity) = Entity!Fields("application")
    BY <1>4
  <2> QED
    BY <1>4, <2>3, <2>4, FieldsAre
<1>5. CASE f.entity = "role"
  <2>1. Len(Entity!Fields(f.entity)) = 5
    BY <1>5, LengthsAre
  <2>2. f.idx \in 1 .. 5
    BY <1>3, <2>1
  <2>3. f.idx = 1 \/ f.idx = 2 \/ f.idx = 3 \/ f.idx = 4 \/ f.idx = 5
    BY <2>2
  <2>4. Entity!Fields(f.entity) = Entity!Fields("role")
    BY <1>5
  <2>5. /\ Entity!Fields("role")[1] = "applicationId" /\ Entity!Fields("role")[2] = "roleName"
        /\ Entity!Fields("role")[3] = "role" /\ Entity!Fields("role")[4] = "details"
        /\ Entity!Fields("role")[5] = "menuId"
    BY FieldsAre
  <2> QED
    BY <1>3, <1>5, <2>3, <2>4, <2>5, Zenon
<1>6. CASE f.entity = "menu"
  <2>1. Len(Entity!Fields(f.entity)) = 4
    BY <1>6, LengthsAre
  <2>2. f.idx \in 1 .. 4
    BY <1>3, <2>1
  <2>3. f.idx = 1 \/ f.idx = 2 \/ f.idx = 3 \/ f.idx = 4
    BY <2>2
  <2>4. Entity!Fields(f.entity) = Entity!Fields("menu")
    BY <1>6
  <2>5. /\ Entity!Fields("menu")[1] = "applicationId" /\ Entity!Fields("menu")[2] = "menuName"
        /\ Entity!Fields("menu")[3] = "menuCode" /\ Entity!Fields("menu")[4] = "details"
    BY FieldsAre
  <2> QED
    BY <1>3, <1>6, <2>3, <2>4, <2>5, Zenon
<1>7. CASE f.entity = "privilege"
  <2>1. Len(Entity!Fields(f.entity)) = 2
    BY <1>7, LengthsAre
  <2>2. f.idx \in 1 .. 2
    BY <1>3, <2>1
  <2>3. f.idx = 1 \/ f.idx = 2
    BY <2>2
  <2>4. Entity!Fields(f.entity) = Entity!Fields("privilege")
    BY <1>7
  <2>5. /\ Entity!Fields(f.entity)[f.idx] \in {"applicationRoleId", "details"}
        /\ Entity!Fields(f.entity)[f.idx] = "applicationRoleId" => f.idx = 1
    BY <2>3, <2>4, FieldsAre
  <2> QED
    BY <1>3, <1>7, <2>5
<1> QED
  BY <1>1, <1>3, <1>4, <1>5, <1>6, <1>7 DEF Entity!AllEntities

\* The flow asks for field k, and v may be its answer.
Asks(f, k, v) ==
  /\ Collected(f) /\ f.stage = "collect"
  /\ f.idx \in 1 .. Len(Entity!Fields(f.entity))
  /\ k = Entity!Fields(f.entity)[f.idx]
  /\ v \in Entity!ValueOf(k)

\* g is f with k answered.
Answered(f, k, v, g) ==
  /\ Collected(g)
  /\ g.stage = "collect" /\ g.idx = f.idx + 1 /\ g.entity = f.entity
  /\ g.index = f.index /\ g.options = f.options /\ g.resume = f.resume
  /\ DOMAIN g.data = DOMAIN f.data \cup {k}
  /\ g.data[k] = v /\ \A j \in DOMAIN f.data \ {k} : g.data[j] = f.data[j]

\* Answering a field: it is held, nothing else changes, and the flow is at the next.
LEMMA GivenIs ==
  ASSUME NEW f, NEW k, NEW v, Asks(f, k, v), NEW g, g = Entity!Given(f, k, v)
  PROVE  Answered(f, k, v, g)
<1>0. /\ Collected(f) /\ f.stage = "collect"
      /\ f.idx \in 1 .. Len(Entity!Fields(f.entity))
      /\ k = Entity!Fields(f.entity)[f.idx]
      /\ v \in Entity!ValueOf(k)
  BY DEF Asks
<1>1. /\ DOMAIN f = CreationFields /\ f.name = "entity_create" /\ f.entity \in Entity!AllEntities
      /\ Entity!CreationOK(f) /\ Entity!IsData(f.data, Entity!Before(f.entity, f.idx))
  BY <1>0 DEF Collected, Entity!CreationOK
<1>2. g = [f EXCEPT !.data = Entity!Put(f.data, k, v), !.idx = f.idx + 1, !.picking = FALSE]
  BY <1>1 DEF Entity!Given, CreationFields
<1>3. /\ DOMAIN g = CreationFields /\ g.name = "entity_create" /\ g.stage = "collect"
      /\ g.idx = f.idx + 1 /\ g.entity = f.entity /\ g.index = f.index /\ g.options = f.options
      /\ g.resume = f.resume /\ g.picking = FALSE /\ g.data = Entity!Put(f.data, k, v)
  BY <1>0, <1>1, <1>2 DEF CreationFields
<1>4. /\ DOMAIN g.data = DOMAIN f.data \cup {k} /\ g.data[k] = v
      /\ \A j \in DOMAIN f.data \ {k} : g.data[j] = f.data[j]
      /\ g.data = [j \in DOMAIN g.data |-> g.data[j]]
  BY <1>3 DEF Entity!Put
<1>5. /\ Entity!Before(f.entity, f.idx + 1) = Entity!Before(f.entity, f.idx) \cup {k}
      /\ f.idx + 1 \in 1 .. Len(Entity!Fields(f.entity)) + 1
  BY <1>0, <1>1, FieldsGrow
<1>6. Entity!IsData(g.data, Entity!Before(g.entity, g.idx))
  <2>1. DOMAIN g.data = Entity!Before(g.entity, g.idx)
    BY <1>1, <1>3, <1>4, <1>5 DEF Entity!IsData
  <2>2. ASSUME NEW j \in Entity!Before(g.entity, g.idx) PROVE g.data[j] \in Entity!ValueOf(j)
    BY <1>0, <1>1, <1>3, <1>4, <1>5, <2>1 DEF Entity!IsData
  <2> QED
    BY <2>1, <2>2 DEF Entity!IsData
<1>7. Entity!CreationOK(g)
  BY <1>0, <1>1, <1>3, <1>5 DEF Entity!CreationOK
<1> QED
  BY <1>3, <1>4, <1>6, <1>7 DEF Collected, Answered

\* What a field may hold.
LEMMA ValuesAre ==
  /\ Entity!ValueOf("applicationId") = Apps
  /\ \A k \in {"roleName", "menuName", "menuCode", "menuId", "applicationName", "applicationCode"} :
       Entity!ValueOf(k) = Names
  /\ Entity!ValueOf("role") = Entity!Codes
  /\ Entity!ValueOf("applicationRoleId") = Entity!Role
  /\ Entity!ValueOf("details") = {"given"}
  BY DEF Entity!ValueOf

\* What such a platform accepts, but for the codes of disabled applications (Possible).
PossibleOn(args, rs, ms, as) ==
  LET d == args.data
  IN  CASE args.tool = "addApplication_post" ->
             NewApplication(as, d["applicationCode"]) /\ \A a \in as : a.order # args.order
        [] args.tool = "addApplicationRole_post" ->
             /\ \A r \in {s \in rs : s.app = d["applicationId"]} :
                  r.name # d["roleName"] /\ r.code # d["role"]
             /\ \E m \in ms : m.name = d["menuId"]
        [] args.tool = "addMenu_post" ->
             NewName(ms, d["applicationId"], d["menuName"]) /\ NewCode(ms, d["applicationId"], d["menuCode"])
        [] args.tool = "addAppRolePrivilege_post" -> d["applicationRoleId"] \in rs
        [] args.tool = "deleteApplicationRoleById_delete" ->
             d["applicationRoleId"] \in rs /\ d["applicationRoleId"].id # 0

LEMMA PossibleIs ==
  ASSUME NEW args
  PROVE  /\ Entity!Possible(args, Entity!Enabled) <=> PossibleOn(args, roles, menus, created)
         /\ Entity!Possible(args, Entity!Enabled)' <=> PossibleOn(args, roles', menus', created')
<1>1. /\ (\A a \in Entity!Enabled : a.code # args.data["applicationCode"])
           <=> NewApplication(created, args.data["applicationCode"])
      /\ (\A a \in Entity!Enabled' : a.code # args.data["applicationCode"])
           <=> NewApplication(created', args.data["applicationCode"])
  BY DEF Entity!Enabled, NewApplication
<1>2. /\ (\A m \in menus : m.app = args.data["applicationId"] =>
              m.name # args.data["menuName"] /\ m.code # args.data["menuCode"])
           <=> /\ NewName(menus, args.data["applicationId"], args.data["menuName"])
               /\ NewCode(menus, args.data["applicationId"], args.data["menuCode"])
      /\ (\A m \in menus' : m.app = args.data["applicationId"] =>
              m.name # args.data["menuName"] /\ m.code # args.data["menuCode"])
           <=> /\ NewName(menus', args.data["applicationId"], args.data["menuName"])
               /\ NewCode(menus', args.data["applicationId"], args.data["menuCode"])
  BY DEF NewName, NewCode
<1>3. Entity!Possible(args, Entity!Enabled) <=> PossibleOn(args, roles, menus, created)
  BY <1>1, <1>2, Zenon DEF Entity!Possible, PossibleOn, Entity!RolesOf
<1>4. Entity!Possible(args, Entity!Enabled)' <=> PossibleOn(args, roles', menus', created')
  BY <1>1, <1>2, Zenon DEF Entity!Possible, PossibleOn, Entity!RolesOf
<1> QED
  BY <1>3, <1>4

\* Whatever is put to the user is a card, and not the absence of one.
LEMMA CardIsSome ==
  ASSUME NEW args, Entity!ArgsOK(args), args = [tool |-> args.tool, data |-> args.data, order |-> args.order],
         args.data = [k \in DOMAIN args.data |-> args.data[k]]
  PROVE  args # None
<1>1. args.order \in Nat
  BY DEF Entity!ArgsOK
<1>2. args.tool \in {Entity!Tool(e) : e \in Entity!AllEntities} \cup {"deleteApplicationRoleById_delete"}
  BY DEF Entity!ArgsOK
<1>3. PICK keys \in SUBSET Entity!Keys : Entity!IsData(args.data, keys)
  <2>1. \A e \in Entity!AllEntities : Entity!Before(e, Len(Entity!Fields(e)) + 1) \in SUBSET Entity!Keys
    BY DEF Entity!Keys
  <2>2. {"applicationRoleId"} \in SUBSET Entity!Keys
    <3>1. "privilege" \in Entity!AllEntities
      BY DEF Entity!AllEntities
    <3> QED
      BY <2>1, <3>1, FieldsInAll
  <2> QED
    BY <2>1, <2>2 DEF Entity!ArgsOK
<1>4. args.data \in [keys -> Entity!Values]
  <2>1. \A k \in keys : args.data[k] \in Entity!Values
    BY <1>3 DEF Entity!IsData, Entity!Values
  <2> QED
    BY <1>3, <2>1 DEF Entity!IsData
<1>5. args \in Entity!CardArgs
  BY <1>1, <1>2, <1>3, <1>4 DEF Entity!CardArgs
<1> QED
  BY <1>5, EntityConstants DEF Entity!EntityAssumption

\* A create flow that is past its last field, and was told what is true, asks for what is possible.
LEMMA CompleteIsPossible ==
  ASSUME NEW f, Collected(f), f.idx = Len(Entity!Fields(f.entity)) + 1,
         NEW rs, NEW ms, NEW as, StillTrue(f, rs, ms, as),
         NEW o \in Nat, f.entity = "application" => \A a \in as : a.order # o
  PROVE  LET args == Entity!Args(f.entity, f.data, o)
         IN  /\ Entity!ArgsOK(args) /\ args # None /\ PossibleOn(args, rs, ms, as)
             /\ args.tool = Entity!Tool(f.entity) /\ args.data = f.data
<1> DEFINE args == Entity!Args(f.entity, f.data, o)
<1>1. /\ f.entity \in Entity!AllEntities
      /\ Entity!IsData(f.data, Entity!Before(f.entity, Len(Entity!Fields(f.entity)) + 1))
      /\ f.data = [k \in DOMAIN f.data |-> f.data[k]]
  BY DEF Collected, Entity!CreationOK
<1>2. /\ args = [tool |-> args.tool, data |-> args.data, order |-> args.order]
      /\ args.tool = Entity!Tool(f.entity) /\ args.data = f.data /\ args.order = o
  BY DEF Entity!Args
<1> HIDE DEF args
<1>3. Entity!ArgsOK(args)
  BY <1>1, <1>2 DEF Entity!ArgsOK
<1>4. args # None
  BY <1>1, <1>2, <1>3, CardIsSome
<1>5. PossibleOn(args, rs, ms, as)
  <2>1. CASE f.entity = "application"
    <3>1. args.tool = "addApplication_post"
      BY <1>2, <2>1 DEF Entity!Tool
    <3>2. "applicationCode" \in DOMAIN f.data
      BY <1>1, <2>1, FieldsInAll DEF Entity!IsData
    <3>3. NewApplication(as, args.data["applicationCode"]) /\ \A a \in as : a.order # args.order
      BY <1>2, <2>1, <3>2 DEF StillTrue
    <3> QED
      BY <3>1, <3>3 DEF PossibleOn
  <2>2. CASE f.entity = "role"
    <3>1. args.tool = "addApplicationRole_post"
      BY <1>2, <2>2 DEF Entity!Tool
    <3>2. /\ "role" \in DOMAIN f.data /\ "menuId" \in DOMAIN f.data
      BY <1>1, <2>2, FieldsInAll DEF Entity!IsData
    <3>3. /\ \A r \in {s \in rs : s.app = args.data["applicationId"]} :
               r.name # args.data["roleName"] /\ r.code # args.data["role"]
          /\ \E m \in ms : m.name = args.data["menuId"]
      BY <1>2, <3>2 DEF StillTrue, HasMenu
    <3> QED
      BY <3>1, <3>3 DEF PossibleOn
  <2>3. CASE f.entity = "menu"
    <3>1. args.tool = "addMenu_post"
      BY <1>2, <2>3 DEF Entity!Tool
    <3>2. "menuName" \in DOMAIN f.data /\ "menuCode" \in DOMAIN f.data
      BY <1>1, <2>3, FieldsInAll DEF Entity!IsData
    <3>3. /\ NewName(ms, args.data["applicationId"], args.data["menuName"])
          /\ NewCode(ms, args.data["applicationId"], args.data["menuCode"])
      BY <1>2, <3>2 DEF StillTrue
    <3> QED
      BY <3>1, <3>3 DEF PossibleOn
  <2>4. CASE f.entity = "privilege"
    <3>1. args.tool = "addAppRolePrivilege_post"
      BY <1>2, <2>4 DEF Entity!Tool
    <3>2. "applicationRoleId" \in DOMAIN f.data
      BY <1>1, <2>4, FieldsInAll DEF Entity!IsData
    <3> QED
      BY <1>2, <3>1, <3>2 DEF PossibleOn, StillTrue
  <2> QED
    BY <1>1, <2>1, <2>2, <2>3, <2>4 DEF Entity!AllEntities
<1> QED
  BY <1>2, <1>3, <1>4, <1>5 DEF args

\* A turn that moves the flow and arms nothing.
LEMMA EntityStepKeeps ==
  ASSUME EntityInv, NEW f, Entity!Step(f), FlowHolds(f, roles, menus, created),
         f # None => f.stage # "confirm"
  PROVE  EntityInv'
<1>1. /\ creation' = f /\ waiting' = waiting /\ current' = current /\ drawn' = drawn
      /\ roles' = roles /\ menus' = menus /\ created' = created
  BY DEF Entity!Step, Entity!platform
<1>2. Entity!CurrentCardIsTheFlows' /\ Entity!CurrentCardIsFeasible'
  BY <1>1 DEF Entity!CurrentCardIsTheFlows, Entity!CurrentCardIsFeasible
<1>3. /\ PlatformHolds(roles', menus', created') /\ CardsHold(waiting')
      /\ current' \in Cards \cup {None} /\ drawn' \in 0 .. MaxCards
      /\ FlowHolds(creation', roles', menus', created')
  BY <1>1 DEF EntityInv
<1> QED
  BY <1>2, <1>3 DEF EntityInv

\* A card leaves the session, the flow becomes f.
LEMMA EntitySettleKeeps ==
  ASSUME EntityInv, NEW c \in Cards, NEW f, Entity!Settle(c, f),
         PlatformHolds(roles', menus', created'), FlowHolds(f, roles', menus', created')
  PROVE  EntityInv'
<1>1. creation' = f /\ waiting' = Entity!Without(c) /\ current' = None /\ drawn' = drawn
  BY DEF Entity!Settle
<1>2. CardsHold(waiting')
  BY <1>1 DEF EntityInv, CardsHold, Entity!Without
<1>3. Entity!CurrentCardIsTheFlows' /\ Entity!CurrentCardIsFeasible'
  BY <1>1 DEF Entity!CurrentCardIsTheFlows, Entity!CurrentCardIsFeasible
<1>4. FlowHolds(creation', roles', menus', created')
  BY <1>1
<1> QED
  BY <1>1, <1>2, <1>3, <1>4 DEF EntityInv

\* A card for args becomes current, next to the flow f that asked for it.
LEMMA EntityArmKeeps ==
  ASSUME EntityInv, NEW cards, NEW args, NEW f, Entity!Arm(cards, args, f),
         CardsHold(cards), Entity!ArgsOK(args), args # None,
         PlatformHolds(roles', menus', created'), FlowHolds(f, roles', menus', created'),
         f # None /\ f.stage = "confirm" =>
           /\ PossibleOn(args, roles', menus', created')
           /\ IF f.name = "entity_create" THEN args.tool = Entity!Tool(f.entity) /\ args.data = f.data
                                          ELSE args = Entity!DeleteArgs(f.role)
  PROVE  EntityInv'
<1>1. /\ creation' = f /\ waiting' = [cards EXCEPT ![drawn + 1] = args] /\ current' = drawn + 1
      /\ drawn' = drawn + 1 /\ drawn < MaxCards
  BY DEF Entity!Arm
<1>2. drawn' \in 0 .. MaxCards /\ current' \in Cards
  BY <1>1, EntityConstants DEF EntityInv, Cards, Entity!EntityAssumption
<1>3. CardsHold(waiting') /\ waiting'[current'] = args
  BY <1>1, <1>2 DEF CardsHold
<1>4. Entity!CurrentCardIsTheFlows'
  BY <1>1, <1>2, <1>3 DEF Entity!CurrentCardIsTheFlows, Entity!Creating
<1>5. Entity!CurrentCardIsFeasible'
  <2>1. CASE f # None /\ f.stage = "confirm"
    <3>1. PICK a : a = waiting'[current']
      OBVIOUS
    <3>2. Entity!Possible(a, Entity!Enabled)'
      BY <1>3, <2>1, <3>1, PossibleIs
    <3> QED
      BY <1>3, <2>1, <3>1, <3>2 DEF Entity!CurrentCardIsFeasible, Entity!Possible
  <2>2. CASE f = None \/ f.stage # "confirm"
    BY <1>1, <2>2 DEF Entity!CurrentCardIsFeasible
  <2> QED
    BY <2>1, <2>2
<1>6. FlowHolds(creation', roles', menus', created')
  BY <1>1
<1> QED
  BY <1>2, <1>3, <1>4, <1>5, <1>6 DEF EntityInv

\* The largest of some numbers that have a bound is the largest.
LEMMA LargestOrder ==
  ASSUME NEW S \in SUBSET Nat, S # {}, NEW n \in Nat, \A x \in S : x <= n
  PROVE  Entity!Max(S) \in S /\ \A x \in S : x <= Entity!Max(S)
<1> DEFINE T == {m \in Nat : \A x \in S : x <= m}
<1>1. T \subseteq Nat /\ n \in T
  OBVIOUS
<1>2. PICK m \in T : \A j \in T : <<j, m>> \notin OpToRel(<, Nat)
  BY <1>1, NatLessThanWellFounded, WFMin
<1>3. \A j \in T : ~ (j < m)
  BY <1>1, <1>2 DEF OpToRel
<1>4. m \in S
  <2> SUFFICES ASSUME m \notin S PROVE FALSE
    OBVIOUS
  <2>1. PICK x \in S : TRUE
    OBVIOUS
  <2>2. x \in Nat /\ x <= m /\ x # m
    OBVIOUS
  <2>3. m - 1 \in Nat /\ m - 1 < m
    BY <2>2
  <2>4. ASSUME NEW y \in S PROVE y <= m - 1
    <3>1. y \in Nat /\ y <= m /\ y # m
      OBVIOUS
    <3> QED
      BY <3>1
  <2>5. m - 1 \in T
    BY <2>3, <2>4
  <2> QED
    BY <1>3, <2>3, <2>5
<1>5. m \in S /\ \A x \in S : m >= x
  <2>1. \A x \in S : x <= m
    OBVIOUS
  <2>2. \A x \in S : x \in Nat /\ m \in Nat
    OBVIOUS
  <2> QED
    BY <1>4, <2>1, <2>2
<1>6. Entity!Max(S) \in S /\ \A x \in S : Entity!Max(S) >= x
  BY <1>5 DEF Entity!Max
<1>7. \A x \in S : x \in Nat /\ Entity!Max(S) \in Nat
  BY <1>6
<1> QED
  BY <1>6, <1>7

\* The order an application takes is that of no other.
LEMMA OrderIsFree ==
  ASSUME PlatformHolds(roles, menus, created), NEW e, NEW o \in Entity!Orders(e)
  PROVE  o \in Nat /\ (e = "application" => \A a \in created : a.order # o)
<1>1. CASE e # "application"
  BY <1>1 DEF Entity!Orders
<1>2. CASE e = "application"
  <2> DEFINE S == {a.order : a \in created} \cup {0}
  <2>1. o = 1 + Entity!Max(S)
    BY <1>2 DEF Entity!Orders
  <2>2. PICK n \in Nat : \A a \in created : a.order <= n
    BY DEF PlatformHolds
  <2>3. \A a \in created : a.order \in Nat
    BY DEF PlatformHolds, Entity!Application
  <2>4. S \in SUBSET Nat /\ S # {} /\ \A x \in S : x <= n
    BY <2>2, <2>3
  <2> HIDE DEF S
  <2>5. Entity!Max(S) \in S /\ \A x \in S : x <= Entity!Max(S)
    BY <2>2, <2>4, LargestOrder
  <2>6. Entity!Max(S) \in Nat
    BY <2>4, <2>5
  <2>7. ASSUME NEW a \in created PROVE a.order # o
    <3>1. a.order \in S
      BY DEF S
    <3>2. a.order \in Nat /\ a.order <= Entity!Max(S)
      BY <2>3, <2>5, <3>1
    <3> QED
      BY <2>1, <2>6, <3>2
  <2> QED
    BY <1>2, <2>1, <2>6, <2>7
<1> QED
  BY <1>1, <1>2

\* The next field is asked for, or the card is armed when there is none.
LEMMA ProceedKeeps ==
  ASSUME EntityInv, NEW cards, NEW f, Entity!Proceed(cards, f),
         CardsHold(cards), Collected(f), f.stage = "collect",
         PlatformHolds(roles', menus', created'), StillTrue(f, roles', menus', created'),
         SuspendsRole(f, roles', menus', created'),
         f.entity = "application" => created' = created
  PROVE  EntityInv'
<1>1. /\ f.idx \in 1 .. Len(Entity!Fields(f.entity)) + 1 /\ f.entity \in Entity!AllEntities
      /\ DOMAIN f = CreationFields /\ f.name = "entity_create"
  BY DEF Collected, Entity!CreationOK
<1>2. Len(Entity!Fields(f.entity)) \in Nat
  BY <1>1, FieldsAre DEF Entity!AllEntities
<1>3. CASE f.idx <= Len(Entity!Fields(f.entity))
  <2>1. creation' = f /\ waiting' = cards /\ current' = current /\ drawn' = drawn
    BY <1>3 DEF Entity!Proceed
  <2>2. Formed(f)
    BY <1>1, <1>2, <1>3 DEF Formed
  <2>3. FlowHolds(creation', roles', menus', created')
    BY <2>1, <2>2 DEF FlowHolds
  <2>4. Entity!CurrentCardIsTheFlows' /\ Entity!CurrentCardIsFeasible'
    BY <2>1 DEF Entity!CurrentCardIsTheFlows, Entity!CurrentCardIsFeasible
  <2> QED
    BY <2>1, <2>3, <2>4 DEF EntityInv
<1>4. CASE ~ (f.idx <= Len(Entity!Fields(f.entity)))
  <2>1. f.idx = Len(Entity!Fields(f.entity)) + 1
    BY <1>1, <1>2, <1>4
  <2>2. PICK o \in Entity!Orders(f.entity) :
          Entity!Arm(cards, Entity!Args(f.entity, f.data, o), [f EXCEPT !.stage = "confirm"])
    BY <1>4 DEF Entity!Proceed
  <2> DEFINE args == Entity!Args(f.entity, f.data, o)
             g == [f EXCEPT !.stage = "confirm"]
  <2>3. o \in Nat /\ (f.entity = "application" => \A a \in created' : a.order # o)
    <3>1. o \in Nat /\ (f.entity = "application" => \A a \in created : a.order # o)
      BY OrderIsFree DEF EntityInv
    <3> QED
      BY <3>1
  <2>4. /\ Entity!ArgsOK(args) /\ args # None
        /\ PossibleOn(args, roles', menus', created')
        /\ args.tool = Entity!Tool(f.entity) /\ args.data = f.data
    BY <2>1, <2>3, CompleteIsPossible
  <2>5. /\ DOMAIN g = CreationFields /\ g.name = "entity_create" /\ g.stage = "confirm"
        /\ g.entity = f.entity /\ g.idx = f.idx /\ g.data = f.data /\ g.index = f.index
        /\ g.picking = f.picking /\ g.options = f.options /\ g.resume = f.resume
    BY <1>1 DEF CreationFields
  <2>6. Entity!Arm(cards, args, g)
    BY <2>2
  <2> HIDE DEF args, g
  <2>7. Formed(g)
    BY <2>1, <2>5 DEF Formed, Collected, Entity!CreationOK
  <2>8. StillTrue(g, roles', menus', created') /\ SuspendsRole(g, roles', menus', created')
    BY <2>5 DEF StillTrue, SuspendsRole
  <2>9. FlowHolds(g, roles', menus', created')
    BY <2>7, <2>8 DEF FlowHolds
  <2> QED
    BY <2>4, <2>5, <2>6, <2>9, EntityArmKeeps
<1> QED
  BY <1>3, <1>4

\* There is a number that makes the code unique, and the first is taken.
LEMMA UniqueCodeIsFree ==
  ASSUME NEW name \in Names, NEW used, IsFiniteSet(used)
  PROVE  Entity!UniqueCode(name, used) \in Entity!Codes \ used
<1> DEFINE base == CodeOf[name]
           n    == Cardinality(used)
           free == {i \in 1 .. n + 1 : <<base, i>> \notin used}
<1>1. n \in Nat /\ base \in Names
  BY FS_CardinalityType, EntityConstants DEF Entity!EntityAssumption
<1>2. Entity!Cardinality(used) = n
  BY DEF Entity!Cardinality, Cardinality, Entity!IsFiniteSet, IsFiniteSet
<1> HIDE DEF n, base
<1>3. free # {}
  <2> SUFFICES ASSUME free = {} PROVE FALSE
    OBVIOUS
  <2> DEFINE S == 1 .. n + 1
             g == [i \in S |-> <<base, i>>]
  <2>1. g \in Injection(S, used)
    BY DEF Injection, IsInjective
  <2> HIDE DEF g, S
  <2>2. Cardinality(S) <= n
    BY <2>1, FS_Injection DEF n
  <2>3. Cardinality(S) = n + 1
    <3>1. Cardinality(1 .. n + 1) = IF 1 > n + 1 THEN 0 ELSE (n + 1) - 1 + 1
      BY <1>1, FS_Interval
    <3>2. ~ (1 > n + 1) /\ (n + 1) - 1 + 1 = n + 1
      BY <1>1
    <3> QED
      BY <3>1, <3>2 DEF S
  <2> QED
    BY <1>1, <2>2, <2>3
<1>4. free \subseteq Nat
  BY <1>1
<1>5. PICK i \in free : \A j \in free : <<j, i>> \notin OpToRel(<, Nat)
  BY <1>3, <1>4, NatLessThanWellFounded, WFMin
<1>6. \A j \in 1 .. i - 1 : <<base, j>> \in used
  <2> SUFFICES ASSUME NEW j \in 1 .. i - 1, <<base, j>> \notin used PROVE FALSE
    OBVIOUS
  <2>1. i \in 1 .. n + 1
    OBVIOUS
  <2>2. j \in 1 .. n + 1 /\ j < i /\ i \in Nat /\ j \in Nat
    BY <1>1, <2>1
  <2>3. j \in free
    BY <2>2
  <2> QED
    BY <1>5, <2>2, <2>3 DEF OpToRel
<1> DEFINE P(k) == <<base, k>> \notin used /\ \A j \in 1 .. k - 1 : <<base, j>> \in used
           first == CHOOSE k \in 1 .. n + 1 : P(k)
<1>7. i \in 1 .. n + 1 /\ P(i)
  BY <1>6
<1>8. first \in 1 .. n + 1 /\ P(first)
  BY <1>7
<1>9. Entity!UniqueCode(name, used) = <<base, first>>
  BY <1>2 DEF Entity!UniqueCode, base
<1>10. first \in Nat
  BY <1>1, <1>8
<1> QED
  BY <1>1, <1>8, <1>9, <1>10 DEF Entity!Codes

\* Each tool creates one kind of entity.
LEMMA ToolsDiffer ==
  ASSUME NEW args, Entity!ArgsOK(args)
  PROVE  /\ args.order \in Nat
         /\ args.tool = "addApplication_post" => args.data["applicationCode"] \in Names
         /\ args.tool = "addMenu_post" =>
              /\ args.data["applicationId"] \in Apps
              /\ args.data["menuName"] \in Names /\ args.data["menuCode"] \in Names
         /\ args.tool = "addApplicationRole_post" =>
              /\ args.data["applicationId"] \in Apps /\ args.data["roleName"] \in Names
              /\ args.data["role"] \in Entity!Codes
<1>1. /\ Entity!Tool("application") = "addApplication_post"
      /\ Entity!Tool("role") = "addApplicationRole_post"
      /\ Entity!Tool("menu") = "addMenu_post"
      /\ Entity!Tool("privilege") = "addAppRolePrivilege_post"
  BY DEF Entity!Tool
<1>2. args.order \in Nat
  BY DEF Entity!ArgsOK
<1>3. ASSUME NEW e \in Entity!AllEntities, args.tool = Entity!Tool(e)
      PROVE  Entity!IsData(args.data, Entity!Before(e, Len(Entity!Fields(e)) + 1))
  BY <1>1, <1>3 DEF Entity!ArgsOK, Entity!AllEntities
<1>4. CASE args.tool = "addApplication_post"
  <2>1. Entity!IsData(args.data, {"applicationName", "applicationCode", "details"})
    BY <1>1, <1>3, <1>4, FieldsInAll DEF Entity!AllEntities
  <2> QED
    BY <1>2, <1>4, <2>1, ValuesAre DEF Entity!IsData
<1>5. CASE args.tool = "addMenu_post"
  <2>1. Entity!IsData(args.data, {"applicationId", "menuName", "menuCode", "details"})
    BY <1>1, <1>3, <1>5, FieldsInAll DEF Entity!AllEntities
  <2> QED
    BY <1>2, <1>5, <2>1, ValuesAre DEF Entity!IsData
<1>6. CASE args.tool = "addApplicationRole_post"
  <2>1. Entity!IsData(args.data, {"applicationId", "roleName", "role", "details", "menuId"})
    BY <1>1, <1>3, <1>6, FieldsInAll DEF Entity!AllEntities
  <2> QED
    BY <1>2, <1>6, <2>1, ValuesAre DEF Entity!IsData
<1> QED
  BY <1>2, <1>4, <1>5, <1>6

\* What a confirmed card makes of the platform is again a platform; only a menu leaves its roles
\* and applications as they were.
LEMMA EntityEffectKeeps ==
  ASSUME EntityInv, NEW c \in Cards, waiting[c] # None, Entity!Effect(c)
  PROVE  /\ PlatformHolds(roles', menus', created')
         /\ waiting[c].tool = "addMenu_post" => roles' = roles /\ created' = created
<1> DEFINE args == waiting[c]
<1>1. Entity!ArgsOK(args) /\ PlatformHolds(roles, menus, created)
  BY DEF EntityInv, CardsHold
<1>2. c \in 0 .. MaxCards
  BY DEF Cards
<1> HIDE DEF args
<1>3. /\ created' = IF args.tool = "addApplication_post"
                    THEN created \cup {[code |-> args.data["applicationCode"], order |-> args.order,
                                      enabled |-> TRUE]}
                    ELSE created
      /\ menus' = IF args.tool = "addMenu_post"
                  THEN menus \cup {[app |-> args.data["applicationId"], name |-> args.data["menuName"],
                                 code |-> args.data["menuCode"]]} ELSE menus
      /\ args.tool = "addApplicationRole_post" =>
           roles' = roles \cup {[id |-> c, app |-> args.data["applicationId"],
                                 name |-> args.data["roleName"], code |-> args.data["role"]]}
      /\ args.tool = "deleteApplicationRoleById_delete" =>
           roles' = roles \ {args.data["applicationRoleId"]}
      /\ args.tool \notin {"addApplicationRole_post", "deleteApplicationRoleById_delete"} =>
           roles' = roles
  BY DEF Entity!Effect, args
<1>4. roles' \subseteq Entity!Role /\ IsFiniteSet(roles')
  <2>1. CASE args.tool = "addApplicationRole_post"
    <3>1. [id |-> c, app |-> args.data["applicationId"], name |-> args.data["roleName"],
           code |-> args.data["role"]] \in Entity!Role
      BY <1>1, <1>2, <2>1, ToolsDiffer DEF Entity!Role
    <3> QED
      BY <1>1, <1>3, <2>1, <3>1, FS_AddElement DEF PlatformHolds
  <2>2. CASE args.tool = "deleteApplicationRoleById_delete"
    BY <1>1, <1>3, <2>2, FS_RemoveElement DEF PlatformHolds
  <2>3. CASE args.tool \notin {"addApplicationRole_post", "deleteApplicationRoleById_delete"}
    BY <1>1, <1>3, <2>3 DEF PlatformHolds
  <2> QED
    BY <2>1, <2>2, <2>3
<1>5. menus' \subseteq Entity!Menu
  <2>1. CASE args.tool = "addMenu_post"
    <3>1. [app |-> args.data["applicationId"], name |-> args.data["menuName"],
           code |-> args.data["menuCode"]] \in Entity!Menu
      BY <1>1, <2>1, ToolsDiffer DEF Entity!Menu
    <3> QED
      BY <1>1, <1>3, <2>1, <3>1 DEF PlatformHolds
  <2>2. CASE args.tool # "addMenu_post"
    BY <1>1, <1>3, <2>2 DEF PlatformHolds
  <2> QED
    BY <2>1, <2>2
<1>6. created' \subseteq Entity!Application /\ \E n \in Nat : \A a \in created' : a.order <= n
  <2>1. CASE args.tool = "addApplication_post"
    <3>1. args.order \in Nat /\ args.data["applicationCode"] \in Names
      BY <1>1, <2>1, ToolsDiffer
    <3>2. created' \subseteq Entity!Application
      <4>1. [code |-> args.data["applicationCode"], order |-> args.order, enabled |-> TRUE]
              \in Entity!Application
        BY <3>1, Zenon DEF Entity!Application
      <4> QED
        BY <1>1, <1>3, <2>1, <4>1 DEF PlatformHolds
    <3>3. PICK n \in Nat : \A a \in created : a.order <= n
      BY <1>1 DEF PlatformHolds
    <3>4. n + args.order \in Nat
      BY <3>1
    <3>5. ASSUME NEW a \in created' PROVE a.order <= n + args.order
      <4>1. a \in created \/ a.order = args.order
        BY <1>3, <2>1
      <4>2. a.order \in Nat
        BY <3>2 DEF Entity!Application
      <4> QED
        BY <3>1, <3>3, <4>1, <4>2
    <3> QED
      BY <3>2, <3>4, <3>5
  <2>2. CASE args.tool # "addApplication_post"
    BY <1>1, <1>3, <2>2 DEF PlatformHolds
  <2> QED
    BY <2>1, <2>2
<1> QED
  BY <1>3, <1>4, <1>5, <1>6 DEF PlatformHolds, args

\* The active flow, when it collects the field named.
LEMMA ActiveCreation ==
  ASSUME EntityInv, NEW e, NEW key, Entity!AtField(e, key)
  PROVE  /\ Formed(creation) /\ StillTrue(creation, roles, menus, created)
         /\ SuspendsRole(creation, roles, menus, created)
         /\ creation.stage = "collect" /\ creation.entity = e /\ e \in Entity!AllEntities
         /\ creation.idx \in 1 .. Len(Entity!Fields(creation.entity))
         /\ Entity!Fields(creation.entity)[creation.idx] = key
         /\ DOMAIN creation = CreationFields
<1>1. creation # None /\ creation.name = "entity_create" /\ creation.stage = "collect"
      /\ creation.entity = e /\ Entity!Fields(creation.entity)[creation.idx] = key
  BY DEF Entity!AtField, Entity!AtStage
<1>2. creation # Entity!Asking
  BY <1>1 DEF Entity!Asking
<1>3. /\ Formed(creation) /\ StillTrue(creation, roles, menus, created)
      /\ SuspendsRole(creation, roles, menus, created)
  BY <1>1, <1>2 DEF EntityInv, FlowHolds
<1>4. creation.idx \in 1 .. Len(Entity!Fields(creation.entity))
  BY <1>1, <1>3, FieldIsAt
<1> QED
  BY <1>1, <1>3, <1>4 DEF Formed, Collected, Entity!CreationOK

\* What is collected in a create flow comes with what it depends on.
LEMMA KeysTogether ==
  ASSUME NEW f, Formed(f), f.stage = "collect"
  PROVE  /\ DOMAIN f.data \subseteq Entity!Before(f.entity, Len(Entity!Fields(f.entity)) + 1)
         /\ DOMAIN f.data \cap {"roleName", "role", "menuId", "menuName", "menuCode"} # {} =>
              "applicationId" \in DOMAIN f.data
         /\ "role" \in DOMAIN f.data => "roleName" \in DOMAIN f.data
         /\ Entity!Fields(f.entity)[f.idx] \notin DOMAIN f.data
         /\ \A k \in {"roleName", "role", "menuId", "menuName", "menuCode"} :
              Entity!Fields(f.entity)[f.idx] = k => "applicationId" \in DOMAIN f.data
<1>1. /\ f.idx \in 1 .. Len(Entity!Fields(f.entity)) /\ f.entity \in Entity!AllEntities
      /\ DOMAIN f.data = Entity!Before(f.entity, f.idx)
  BY FieldIsAt DEF Formed, Collected, Entity!CreationOK, Entity!IsData
<1>2. CASE f.entity = "application"
  <2>1. Len(Entity!Fields(f.entity)) = 3
    BY <1>2, LengthsAre
  <2>2. f.idx \in 1 .. 3
    BY <1>1, <2>1
  <2>3. f.idx = 1 \/ f.idx = 2 \/ f.idx = 3
    BY <2>2
  <2>4. /\ Entity!Fields(f.entity) = Entity!Fields("application")
        /\ \A i : Entity!Before(f.entity, i) = Entity!Before("application", i)
    BY <1>2
  <2>5. Entity!Before("application", 1) = {}
    BY <1>1, <1>2, BeforeIs
  <2> QED
    BY <1>1, <2>3, <2>4, <2>5, BeforeIs, FieldsInAll, FieldsAre
<1>3. CASE f.entity = "role"
  <2>1. Len(Entity!Fields(f.entity)) = 5
    BY <1>3, LengthsAre
  <2>2. f.idx \in 1 .. 5
    BY <1>1, <2>1
  <2>3. f.idx = 1 \/ f.idx = 2 \/ f.idx = 3 \/ f.idx = 4 \/ f.idx = 5
    BY <2>2
  <2>4. /\ Entity!Fields(f.entity) = Entity!Fields("role")
        /\ \A i : Entity!Before(f.entity, i) = Entity!Before("role", i)
    BY <1>3
  <2>5. Entity!Before("role", 1) = {}
    BY <1>1, <1>3, BeforeIs
  <2> QED
    BY <1>1, <2>3, <2>4, <2>5, BeforeIs, FieldsInAll, FieldsAre
<1>4. CASE f.entity = "menu"
  <2>1. Len(Entity!Fields(f.entity)) = 4
    BY <1>4, LengthsAre
  <2>2. f.idx \in 1 .. 4
    BY <1>1, <2>1
  <2>3. f.idx = 1 \/ f.idx = 2 \/ f.idx = 3 \/ f.idx = 4
    BY <2>2
  <2>4. /\ Entity!Fields(f.entity) = Entity!Fields("menu")
        /\ \A i : Entity!Before(f.entity, i) = Entity!Before("menu", i)
    BY <1>4
  <2>5. Entity!Before("menu", 1) = {}
    BY <1>1, <1>4, BeforeIs
  <2> QED
    BY <1>1, <2>3, <2>4, <2>5, BeforeIs, FieldsInAll, FieldsAre
<1>5. CASE f.entity = "privilege"
  <2>1. Len(Entity!Fields(f.entity)) = 2
    BY <1>5, LengthsAre
  <2>2. f.idx \in 1 .. 2
    BY <1>1, <2>1
  <2>3. f.idx = 1 \/ f.idx = 2
    BY <2>2
  <2>4. /\ Entity!Fields(f.entity) = Entity!Fields("privilege")
        /\ \A i : Entity!Before(f.entity, i) = Entity!Before("privilege", i)
    BY <1>5
  <2>5. Entity!Before("privilege", 1) = {}
    BY <1>1, <1>5, BeforeIs
  <2> QED
    BY <1>1, <2>3, <2>4, <2>5, BeforeIs, FieldsInAll, FieldsAre
<1> QED
  BY <1>1, <1>2, <1>3, <1>4, <1>5 DEF Entity!AllEntities

\* What was true stays so when a field is added, if what it says is.
LEMMA StillTrueOfMore ==
  ASSUME NEW f, Formed(f), f.stage = "collect", NEW rs, NEW ms, NEW as, StillTrue(f, rs, ms, as),
         NEW g, NEW k, k = Entity!Fields(f.entity)[f.idx], k # "roleName", k # "role",
         g.options \subseteq rs, g.index = f.index,
         DOMAIN g.data = DOMAIN f.data \cup {k}, \A j \in DOMAIN f.data \ {k} : g.data[j] = f.data[j],
         LET d == g.data
         IN  /\ k = "menuId" => HasMenu(ms, d["applicationId"], d[k])
             /\ k = "menuName" => NewName(ms, d["applicationId"], d[k])
             /\ k = "menuCode" => NewCode(ms, d["applicationId"], d[k])
             /\ k = "applicationCode" => NewApplication(as, d[k])
             /\ k = "applicationRoleId" => d[k] \in rs
  PROVE  StillTrue(g, rs, ms, as)
<1> DEFINE d == g.data
<1>1. /\ k \notin DOMAIN f.data
      /\ DOMAIN f.data \cap {"roleName", "role", "menuId", "menuName", "menuCode"} # {} =>
           "applicationId" \in DOMAIN f.data
      /\ "role" \in DOMAIN f.data => "roleName" \in DOMAIN f.data
  BY KeysTogether
<1>2. \A j \in DOMAIN f.data : d[j] = f.data[j]
  BY <1>1
<1>3. g.index # None => "applicationId" \in DOMAIN d /\ g.index = IndexOf(d["applicationId"], rs)
  BY <1>2 DEF StillTrue
<1>4. "role" \in DOMAIN d =>
        \A r \in rs : r.app = d["applicationId"] => r.name # d["roleName"] /\ r.code # d["role"]
  BY <1>1, <1>2 DEF StillTrue
<1>5. "menuId" \in DOMAIN d => HasMenu(ms, d["applicationId"], d["menuId"])
  BY <1>1, <1>2 DEF StillTrue
<1>6. /\ "menuName" \in DOMAIN d => NewName(ms, d["applicationId"], d["menuName"])
      /\ "menuCode" \in DOMAIN d => NewCode(ms, d["applicationId"], d["menuCode"])
  BY <1>1, <1>2 DEF StillTrue
<1>7. "applicationCode" \in DOMAIN d => NewApplication(as, d["applicationCode"])
  BY <1>2 DEF StillTrue
<1>8. "applicationRoleId" \in DOMAIN d => d["applicationRoleId"] \in rs
  BY <1>2 DEF StillTrue
<1> QED
  BY <1>3, <1>4, <1>5, <1>6, <1>7, <1>8 DEF StillTrue

\* What the platform allows as the answer to a field that is asked for on its own.
Allows(key, v) ==
  LET d == creation.data
  IN  /\ key \notin {"roleName", "role"} /\ v \in Entity!ValueOf(key)
      /\ key = "menuId" => HasMenu(menus, d["applicationId"], v)
      /\ key = "menuName" => NewName(menus, d["applicationId"], v)
      /\ key = "menuCode" => NewCode(menus, d["applicationId"], v)
      /\ key = "applicationCode" => NewApplication(created, v)
      /\ key = "applicationRoleId" => v \in roles

\* A turn that answers it.
LEMMA EntityAnswerKeeps ==
  ASSUME EntityInv, NEW e, NEW key, Entity!AtField(e, key), NEW v, Allows(key, v),
         Entity!Answer(key, v)
  PROVE  EntityInv'
<1>1. /\ Formed(creation) /\ StillTrue(creation, roles, menus, created)
      /\ SuspendsRole(creation, roles, menus, created)
      /\ creation.stage = "collect" /\ creation.entity = e
      /\ creation.idx \in 1 .. Len(Entity!Fields(creation.entity))
      /\ key = Entity!Fields(creation.entity)[creation.idx]
  BY ActiveCreation
<1>2. PICK g : g = Entity!Given(creation, key, v)
  OBVIOUS
<1>3. /\ Collected(g) /\ g.stage = "collect" /\ g.entity = creation.entity
      /\ g.index = creation.index /\ g.options = creation.options /\ g.resume = creation.resume
      /\ DOMAIN g.data = DOMAIN creation.data \cup {key}
      /\ g.data[key] = v /\ \A j \in DOMAIN creation.data \ {key} : g.data[j] = creation.data[j]
  <2>1. PICK f : f = creation
    OBVIOUS
  <2>2. Asks(f, key, v) /\ g = Entity!Given(f, key, v)
    BY <1>1, <1>2, <2>1 DEF Formed, Asks, Allows
  <2>3. Answered(f, key, v, g)
    BY <2>2, GivenIs
  <2> QED
    BY <2>1, <2>3 DEF Answered
<1>4. /\ Entity!Proceed(waiting, g)
      /\ roles' = roles /\ menus' = menus /\ created' = created
  BY <1>2 DEF Entity!Answer, Entity!platform
<1>5. key \in {"roleName", "role", "menuId", "menuName", "menuCode"} =>
        /\ "applicationId" \in DOMAIN creation.data
        /\ g.data["applicationId"] = creation.data["applicationId"]
  BY <1>1, <1>3, KeysTogether
<1>6. g.options \subseteq roles
  BY <1>1, <1>3 DEF StillTrue
<1>7. StillTrue(g, roles, menus, created)
  <2>1. /\ key # "roleName" /\ key # "role"
        /\ key = "menuId" => HasMenu(menus, g.data["applicationId"], g.data[key])
        /\ key = "menuName" => NewName(menus, g.data["applicationId"], g.data[key])
        /\ key = "menuCode" => NewCode(menus, g.data["applicationId"], g.data[key])
        /\ key = "applicationCode" => NewApplication(created, g.data[key])
        /\ key = "applicationRoleId" => g.data[key] \in roles
    BY <1>3, <1>5 DEF Allows
  <2> QED
    BY <1>1, <1>3, <1>6, <2>1, StillTrueOfMore
<1>8. SuspendsRole(g, roles, menus, created)
  BY <1>1, <1>3 DEF SuspendsRole
<1>9. CardsHold(waiting) /\ PlatformHolds(roles', menus', created')
  BY <1>4 DEF EntityInv
<1>10. StillTrue(g, roles', menus', created') /\ SuspendsRole(g, roles', menus', created')
  BY <1>4, <1>7, <1>8
<1> QED
  BY <1>3, <1>4, <1>9, <1>10, ProceedKeeps

\* A turn that changes what the flow was shown and nothing it has collected.
LEMMA EntityShowKeeps ==
  ASSUME EntityInv, NEW e, NEW key, Entity!AtField(e, key), NEW g, Entity!Step(g),
         DOMAIN g = CreationFields, g.name = "entity_create", g.entity = creation.entity,
         g.stage = creation.stage, g.idx = creation.idx, g.data = creation.data,
         g.picking \in BOOLEAN, g.options \subseteq roles, g.resume = creation.resume,
         g.index = creation.index \/
           /\ "applicationId" \in DOMAIN creation.data
           /\ g.index = IndexOf(creation.data["applicationId"], roles)
  PROVE  EntityInv'
<1>1. /\ Formed(creation) /\ StillTrue(creation, roles, menus, created)
      /\ SuspendsRole(creation, roles, menus, created) /\ creation.stage = "collect"
  BY ActiveCreation
<1>2. roles \subseteq Entity!Role
  BY DEF EntityInv, PlatformHolds
<1>3. g.index # None => g.index \in [names : SUBSET Names, codes : SUBSET Entity!Codes]
  <2>1. CASE g.index = creation.index
    BY <1>1, <2>1 DEF Formed, Collected, Entity!CreationOK
  <2>2. CASE g.index = IndexOf(creation.data["applicationId"], roles)
    BY <1>2, <2>2 DEF IndexOf, Entity!Role
  <2> QED
    BY <2>1, <2>2
<1>4. Formed(g)
  BY <1>1, <1>2, <1>3 DEF Formed, Collected, Entity!CreationOK
<1>5. StillTrue(g, roles, menus, created)
  BY <1>1 DEF StillTrue
<1>6. SuspendsRole(g, roles, menus, created)
  BY <1>1 DEF SuspendsRole
<1>7. FlowHolds(g, roles, menus, created) /\ g.stage # "confirm"
  BY <1>1, <1>4, <1>5, <1>6 DEF FlowHolds
<1> QED
  BY <1>7, EntityStepKeeps

\* A create flow that has just been opened.
LEMMA OpenedFlow ==
  ASSUME NEW e \in Entity!AllEntities, NEW r
  PROVE  LET g == Entity!EntityFlow(e, Entity!Empty, r)
         IN  /\ Formed(g) /\ g.stage = "collect" /\ g.entity = e /\ g.idx = 1
             /\ g.index = None /\ g.options = {} /\ g.resume = r /\ DOMAIN g.data = {}
             /\ \A rs, ms, as : StillTrue(g, rs, ms, as)
<1> DEFINE g == Entity!EntityFlow(e, Entity!Empty, r)
<1>1. /\ DOMAIN g = CreationFields /\ g.name = "entity_create" /\ g.entity = e
      /\ g.stage = "collect" /\ g.idx = 1 /\ g.data = Entity!Empty /\ g.index = None
      /\ g.picking = FALSE /\ g.options = {} /\ g.resume = r
  BY DEF Entity!EntityFlow, CreationFields
<1> HIDE DEF g
<1>2. DOMAIN g.data = {} /\ g.data = [k \in DOMAIN g.data |-> g.data[k]]
  BY <1>1 DEF Entity!Empty
<1>3. Entity!Before(g.entity, g.idx) = {}
  BY <1>1, BeforeIs
<1>4. Len(Entity!Fields(e)) \in {2, 3, 4, 5}
  BY LengthsAre, Zenon DEF Entity!AllEntities
<1>5. Entity!CreationOK(g)
  <2>1. 1 \in 1 .. Len(Entity!Fields(e)) + 1
    BY <1>4
  <2> QED
    BY <1>1, <2>1 DEF Entity!CreationOK
<1>6. Entity!IsData(g.data, Entity!Before(g.entity, g.idx))
  BY <1>2, <1>3 DEF Entity!IsData
<1>7. Formed(g)
  <2>1. g.idx # Len(Entity!Fields(g.entity)) + 1
    <3>1. \A n \in {2, 3, 4, 5} : 1 # n + 1
      OBVIOUS
    <3> QED
      BY <1>1, <1>4, <3>1, Zenon
  <2> QED
    BY <1>1, <1>2, <1>5, <1>6, <2>1 DEF Formed, Collected
<1>8. \A rs, ms, as : StillTrue(g, rs, ms, as)
  BY <1>1, <1>2 DEF StillTrue
<1> QED
  BY <1>1, <1>2, <1>7, <1>8 DEF g

\* What the role flow reads of an application's roles is what the application has.
LEMMA RoleIndexIs ==
  ASSUME EntityInv, Entity!AtField("role", "roleName"), NEW index \in Entity!RoleIndex(creation)
  PROVE  /\ "applicationId" \in DOMAIN creation.data
         /\ index = IndexOf(creation.data["applicationId"], roles)
         /\ IsFiniteSet(index.codes)
<1>1. /\ Formed(creation) /\ StillTrue(creation, roles, menus, created)
      /\ creation.stage = "collect" /\ Entity!Fields(creation.entity)[creation.idx] = "roleName"
  BY ActiveCreation
<1>2. "applicationId" \in DOMAIN creation.data
  BY <1>1, KeysTogether
<1> DEFINE used == {r \in roles : r.app = creation.data["applicationId"]}
<1>3. index = IndexOf(creation.data["applicationId"], roles)
  <2>1. CASE creation.index # None
    BY <1>1, <2>1 DEF Entity!RoleIndex, StillTrue
  <2>2. CASE creation.index = None
    <3>1. Entity!Taken(used) = {used} /\ Entity!RolesOf(creation.data["applicationId"]) = used
      BY DEF Entity!Taken, Entity!RolesOf
    <3>2. index = [names |-> {r.name : r \in used}, codes |-> {r.code : r \in used}]
      BY <2>2, <3>1 DEF Entity!RoleIndex
    <3> QED
      BY <3>2 DEF IndexOf
  <2> QED
    BY <2>1, <2>2
<1>4. IsFiniteSet(used)
  BY FS_Subset DEF EntityInv, PlatformHolds
<1>5. index.codes = {r.code : r \in used}
  BY <1>3 DEF IndexOf
<1> DEFINE codeOf == [r \in used |-> r.code]
<1>6. codeOf \in Surjection(used, index.codes)
  BY <1>5 DEF Surjection
<1> HIDE DEF used, codeOf
<1>7. IsFiniteSet(index.codes)
  BY <1>4, <1>6, FS_Surjection
<1> QED
  BY <1>2, <1>3, <1>7

\* The role's name and its code are given together, and are those of no role there is.
LEMMA NameRoleKeeps == EntityInv /\ Entity!NameRole => EntityInv'
<1> SUFFICES ASSUME EntityInv, Entity!NameRole PROVE EntityInv'
  OBVIOUS
<1>1. PICK n \in Names, index \in Entity!RoleIndex(creation) :
        /\ n \notin index.names
        /\ Entity!Step(Entity!Given(
             Entity!Given([creation EXCEPT !.index = index], "roleName", n),
             "role", Entity!UniqueCode(n, index.codes)))
  BY DEF Entity!NameRole
<1>2. Entity!AtField("role", "roleName")
  BY DEF Entity!NameRole
<1>3. /\ Formed(creation) /\ StillTrue(creation, roles, menus, created)
      /\ SuspendsRole(creation, roles, menus, created)
      /\ creation.stage = "collect" /\ creation.entity = "role"
      /\ creation.idx \in 1 .. Len(Entity!Fields(creation.entity))
      /\ Entity!Fields(creation.entity)[creation.idx] = "roleName"
      /\ DOMAIN creation = CreationFields
  BY <1>2, ActiveCreation
<1>4. /\ "applicationId" \in DOMAIN creation.data
      /\ index = IndexOf(creation.data["applicationId"], roles)
      /\ IsFiniteSet(index.codes)
  BY <1>2, RoleIndexIs
<1>5. PICK code : code = Entity!UniqueCode(n, index.codes)
  OBVIOUS
<1>6. code \in Entity!Codes /\ code \notin index.codes
  BY <1>4, <1>5, UniqueCodeIsFree
<1>7. PICK f : f = [creation EXCEPT !.index = index]
  OBVIOUS
<1>8. /\ DOMAIN f = CreationFields /\ f.name = creation.name /\ f.entity = "role"
      /\ f.stage = "collect" /\ f.idx = creation.idx /\ f.data = creation.data /\ f.index = index
      /\ f.picking = creation.picking /\ f.options = creation.options /\ f.resume = creation.resume
  BY <1>3, <1>7 DEF CreationFields
<1>9. index \in [names : SUBSET Names, codes : SUBSET Entity!Codes]
  BY <1>4 DEF IndexOf, EntityInv, PlatformHolds, Entity!Role
<1>10. Asks(f, "roleName", n)
  <2>1. Collected(f)
    BY <1>3, <1>8, <1>9 DEF Formed, Collected, Entity!CreationOK
  <2> QED
    BY <1>3, <1>8, <2>1, ValuesAre DEF Asks
<1>11. PICK g : g = Entity!Given(f, "roleName", n)
  OBVIOUS
<1>12. Answered(f, "roleName", n, g)
  BY <1>10, <1>11, GivenIs
<1>13. f.idx = 2
  BY <1>3, <1>8, FieldIsAt
<1>14. g.idx = 3 /\ g.entity = "role" /\ Collected(g) /\ g.stage = "collect"
  BY <1>8, <1>12, <1>13 DEF Answered
<1>15. Asks(g, "role", code)
  <2>1. Len(Entity!Fields(g.entity)) = 5 /\ Entity!Fields(g.entity)[3] = "role"
    BY <1>14, LengthsAre, FieldsAre
  <2> QED
    BY <1>6, <1>14, <2>1, ValuesAre DEF Asks
<1>16. PICK h : h = Entity!Given(g, "role", code)
  OBVIOUS
<1>17. Answered(g, "role", code, h)
  BY <1>15, <1>16, GivenIs
<1>18. h.idx = 4 /\ h.entity = "role" /\ Collected(h) /\ h.stage = "collect"
  BY <1>14, <1>17 DEF Answered
<1>19. Formed(h)
  BY <1>18, LengthsAre DEF Formed
<1>20. /\ h.index = index /\ h.options = creation.options /\ h.resume = creation.resume
       /\ h.data["role"] = code /\ h.data["roleName"] = n
       /\ h.data["applicationId"] = creation.data["applicationId"]
  BY <1>4, <1>8, <1>12, <1>17 DEF Answered
<1>21. DOMAIN h.data = {"applicationId", "roleName", "role"}
  BY <1>18, BeforeIs DEF Collected, Entity!IsData
<1>22. \A r \in roles : r.app = h.data["applicationId"] =>
         r.name # h.data["roleName"] /\ r.code # h.data["role"]
  BY <1>1, <1>4, <1>6, <1>20 DEF IndexOf
<1>23. h.options \subseteq roles
  BY <1>3, <1>20 DEF StillTrue
<1>24. StillTrue(h, roles, menus, created)
  BY <1>4, <1>20, <1>21, <1>22, <1>23 DEF StillTrue
<1>25. SuspendsRole(h, roles, menus, created)
  BY <1>3, <1>20 DEF SuspendsRole
<1>26. Entity!Step(h) /\ h.stage # "confirm" /\ FlowHolds(h, roles, menus, created)
  BY <1>1, <1>5, <1>7, <1>11, <1>16, <1>18, <1>19, <1>24, <1>25 DEF FlowHolds
<1> QED
  BY <1>26, EntityStepKeeps

\* A menu flow takes the application of the role flow it suspends.
LEMMA NewMenuKeeps == EntityInv /\ Entity!NewMenu => EntityInv'
<1> SUFFICES ASSUME EntityInv, Entity!NewMenu PROVE EntityInv'
  OBVIOUS
<1>1. /\ Entity!AtField("role", "menuId")
      /\ Entity!Step(Entity!Given(Entity!EntityFlow("menu", Entity!Empty, creation),
                                  "applicationId", creation.data["applicationId"]))
  BY DEF Entity!NewMenu
<1>2. /\ Formed(creation) /\ StillTrue(creation, roles, menus, created)
      /\ SuspendsRole(creation, roles, menus, created)
      /\ creation.stage = "collect" /\ creation.entity = "role"
      /\ Entity!Fields(creation.entity)[creation.idx] = "menuId"
  BY <1>1, ActiveCreation
<1>3. AtItsMenu(creation)
  BY <1>2, FieldIsAt DEF AtItsMenu, SuspendsRole
<1>4. creation.data["applicationId"] \in Apps
  <2>1. "applicationId" \in DOMAIN creation.data
    BY <1>2, KeysTogether
  <2> QED
    BY <1>2, <2>1, ValuesAre DEF Formed, Collected, Entity!IsData
<1>5. PICK f : f = Entity!EntityFlow("menu", Entity!Empty, creation)
  OBVIOUS
<1>6. /\ Formed(f) /\ f.stage = "collect" /\ f.entity = "menu" /\ f.idx = 1
      /\ f.index = None /\ f.options = {} /\ f.resume = creation /\ DOMAIN f.data = {}
  BY <1>5, OpenedFlow DEF Entity!AllEntities
<1>7. Asks(f, "applicationId", creation.data["applicationId"])
  <2>1. Len(Entity!Fields(f.entity)) = 4 /\ Entity!Fields(f.entity)[1] = "applicationId"
    BY <1>6, LengthsAre, FieldsAre
  <2> QED
    BY <1>4, <1>6, <2>1, ValuesAre DEF Asks, Formed
<1>8. PICK g : g = Entity!Given(f, "applicationId", creation.data["applicationId"])
  OBVIOUS
<1>9. Answered(f, "applicationId", creation.data["applicationId"], g)
  BY <1>7, <1>8, GivenIs
<1>10. /\ Collected(g) /\ g.stage = "collect" /\ g.idx = 2 /\ g.entity = "menu"
       /\ g.index = None /\ g.options = {} /\ g.resume = creation
       /\ DOMAIN g.data = {"applicationId"}
  BY <1>6, <1>9 DEF Answered
<1>11. Formed(g)
  <2>1. Len(Entity!Fields(g.entity)) = 4
    BY <1>10, LengthsAre
  <2> QED
    BY <1>10, <2>1 DEF Formed
<1>12. StillTrue(g, roles, menus, created)
  BY <1>10 DEF StillTrue
<1>13. SuspendsRole(g, roles, menus, created)
  BY <1>2, <1>3, <1>10 DEF SuspendsRole
<1>14. Entity!Step(g) /\ g.stage # "confirm" /\ FlowHolds(g, roles, menus, created)
  BY <1>1, <1>5, <1>8, <1>10, <1>11, <1>12, <1>13 DEF FlowHolds
<1> QED
  BY <1>14, EntityStepKeeps

\* A turn of a role flow at its name that only reads the index.
LEMMA RefuseKeeps == EntityInv /\ Entity!RefuseRoleName => EntityInv'
<1> SUFFICES ASSUME EntityInv, Entity!RefuseRoleName PROVE EntityInv'
  OBVIOUS
<1>1. Entity!AtField("role", "roleName")
  BY DEF Entity!RefuseRoleName
<1>2. PICK index \in Entity!RoleIndex(creation) : Entity!Step([creation EXCEPT !.index = index])
  BY DEF Entity!RefuseRoleName
<1>3. /\ DOMAIN creation = CreationFields /\ creation.name = "entity_create"
      /\ StillTrue(creation, roles, menus, created) /\ creation.picking \in BOOLEAN
  BY <1>1, ActiveCreation DEF Formed, Collected, Entity!CreationOK
<1>4. "applicationId" \in DOMAIN creation.data /\ index = IndexOf(creation.data["applicationId"], roles)
  BY <1>1, RoleIndexIs
<1>5. PICK g : g = [creation EXCEPT !.index = index]
  OBVIOUS
<1>6. /\ DOMAIN g = CreationFields /\ g.name = "entity_create" /\ g.entity = creation.entity
      /\ g.stage = creation.stage /\ g.idx = creation.idx /\ g.data = creation.data
      /\ g.picking = creation.picking /\ g.options = creation.options /\ g.resume = creation.resume
      /\ g.index = index
  BY <1>3, <1>5 DEF CreationFields
<1>7. g.options \subseteq roles
  BY <1>3, <1>6 DEF StillTrue
<1>8. Entity!Step(g)
  BY <1>2, <1>5
<1> QED
  BY <1>1, <1>3, <1>4, <1>6, <1>7, <1>8, EntityShowKeeps

\* A turn that shows a list to pick from.
LEMMA PickKeeps == EntityInv /\ (Entity!ChooseRoleApp \/ Entity!PickMenu) => EntityInv'
<1> SUFFICES ASSUME EntityInv, Entity!ChooseRoleApp \/ Entity!PickMenu PROVE EntityInv'
  OBVIOUS
<1>1. PICK e, key : Entity!AtField(e, key)
  BY DEF Entity!ChooseRoleApp, Entity!PickMenu
<1>2. /\ DOMAIN creation = CreationFields /\ creation.name = "entity_create"
      /\ StillTrue(creation, roles, menus, created)
  BY <1>1, ActiveCreation DEF Formed, Collected
<1>3. PICK list \in SUBSET roles : Entity!Step([creation EXCEPT !.picking = TRUE, !.options = list])
  <2>1. CASE Entity!ChooseRoleApp
    BY <2>1 DEF Entity!ChooseRoleApp, Entity!Lists, Entity!RolesOf
  <2>2. CASE Entity!PickMenu
    <3>1. Entity!Step([creation EXCEPT !.picking = TRUE]) /\ creation.options \in SUBSET roles
      BY <1>2, <2>2 DEF Entity!PickMenu, StillTrue
    <3>2. [creation EXCEPT !.picking = TRUE]
            = [creation EXCEPT !.picking = TRUE, !.options = creation.options]
      BY <1>2 DEF CreationFields
    <3> QED
      BY <3>1, <3>2
  <2> QED
    BY <2>1, <2>2
<1>4. PICK g : g = [creation EXCEPT !.picking = TRUE, !.options = list]
  OBVIOUS
<1>5. /\ DOMAIN g = CreationFields /\ g.name = "entity_create" /\ g.entity = creation.entity
      /\ g.stage = creation.stage /\ g.idx = creation.idx /\ g.data = creation.data
      /\ g.picking = TRUE /\ g.options = list /\ g.resume = creation.resume
      /\ g.index = creation.index
  BY <1>2, <1>4 DEF CreationFields
<1>6. Entity!Step(g)
  BY <1>3, <1>4
<1> QED
  BY <1>1, <1>5, <1>6, EntityShowKeeps

\* What a removal asks for.
LEMMA DeleteIsCard ==
  ASSUME NEW r \in Entity!Role
  PROVE  /\ Entity!ArgsOK(Entity!DeleteArgs(r)) /\ Entity!DeleteArgs(r) # None
         /\ \A rs, ms, as : r \in rs /\ r.id # 0 => PossibleOn(Entity!DeleteArgs(r), rs, ms, as)
<1> DEFINE args == Entity!DeleteArgs(r)
<1>1. /\ args.tool = "deleteApplicationRoleById_delete" /\ args.order = 0
      /\ DOMAIN args.data = {"applicationRoleId"} /\ args.data["applicationRoleId"] = r
      /\ args = [tool |-> args.tool, data |-> args.data, order |-> args.order]
      /\ args.data = [k \in DOMAIN args.data |-> args.data[k]]
  BY DEF Entity!DeleteArgs
<1> HIDE DEF args
<1>2. Entity!IsData(args.data, {"applicationRoleId"})
  BY <1>1, ValuesAre DEF Entity!IsData
<1>3. Entity!ArgsOK(args)
  BY <1>1, <1>2 DEF Entity!ArgsOK
<1>4. args # None
  BY <1>1, <1>3, CardIsSome
<1>5. \A rs, ms, as : r \in rs /\ r.id # 0 => PossibleOn(args, rs, ms, as)
  BY <1>1 DEF PossibleOn
<1> QED
  BY <1>3, <1>4, <1>5 DEF args

\* What a menu card of the model's own asks for.
LEMMA MenuIsCard ==
  ASSUME NEW a \in Apps, NEW n \in Names, NEW m \in Names
  PROVE  LET args == Entity!Args("menu", [applicationId |-> a, menuName |-> n, menuCode |-> m,
                                          details |-> "given"], 0)
         IN  Entity!ArgsOK(args) /\ args # None
<1> DEFINE args == Entity!Args("menu", [applicationId |-> a, menuName |-> n, menuCode |-> m,
                                       details |-> "given"], 0)
<1>1. /\ args.tool = Entity!Tool("menu") /\ args.order = 0
      /\ DOMAIN args.data = {"applicationId", "menuName", "menuCode", "details"}
      /\ args.data["applicationId"] = a /\ args.data["menuName"] = n
      /\ args.data["menuCode"] = m /\ args.data["details"] = "given"
      /\ args = [tool |-> args.tool, data |-> args.data, order |-> args.order]
      /\ args.data = [k \in DOMAIN args.data |-> args.data[k]]
  BY DEF Entity!Args
<1> HIDE DEF args
<1>2. Entity!IsData(args.data, Entity!Before("menu", Len(Entity!Fields("menu")) + 1))
  <2>1. Entity!Before("menu", Len(Entity!Fields("menu")) + 1) = {"applicationId", "menuName", "menuCode", "details"}
    BY FieldsInAll
  <2>2. \A k \in {"applicationId", "menuName", "menuCode", "details"} : args.data[k] \in Entity!ValueOf(k)
    BY <1>1, ValuesAre
  <2> QED
    BY <1>1, <2>1, <2>2 DEF Entity!IsData
<1>3. Entity!ArgsOK(args)
  BY <1>1, <1>2 DEF Entity!ArgsOK, Entity!AllEntities
<1>4. args # None
  BY <1>1, <1>3, CardIsSome
<1> QED
  BY <1>3, <1>4 DEF args

\* A card the model collected itself ends the flow.
LEMMA SkillCardKeeps == EntityInv /\ Entity!SkillCard => EntityInv'
<1> SUFFICES ASSUME EntityInv, Entity!SkillCard PROVE EntityInv'
  OBVIOUS
<1>1. /\ PlatformHolds(roles', menus', created') /\ roles \subseteq Entity!Role
      /\ CardsHold(waiting) /\ FlowHolds(None, roles', menus', created')
  BY DEF Entity!SkillCard, Entity!platform, EntityInv, PlatformHolds, FlowHolds
<1>2. \E args : Entity!Arm(waiting, args, None) /\ Entity!ArgsOK(args) /\ args # None
  <2>1. CASE \E a \in Apps, n \in Names, m \in Names :
               Entity!Arm(waiting, Entity!Args("menu", [applicationId |-> a, menuName |-> n,
                 menuCode |-> m, details |-> "given"], 0), None)
    BY <2>1, MenuIsCard, Zenon
  <2>2. CASE \E r \in roles : Entity!Arm(waiting, Entity!DeleteArgs(r), None)
    <3>1. PICK r \in roles : Entity!Arm(waiting, Entity!DeleteArgs(r), None)
      BY <2>2
    <3>2. Entity!ArgsOK(Entity!DeleteArgs(r)) /\ Entity!DeleteArgs(r) # None
      BY <1>1, DeleteIsCard
    <3> QED
      BY <3>1, <3>2, Zenon
  <2> QED
    BY <2>1, <2>2 DEF Entity!SkillCard
<1>3. PICK args : Entity!Arm(waiting, args, None) /\ Entity!ArgsOK(args) /\ args # None
  BY <1>2
<1> QED
  BY <1>1, <1>3, EntityArmKeeps

\* The turns of the flow that removes a role: what it shows is what there is.
LEMMA RemoveKeeps == EntityInv /\ (Entity!RemoveFrom \/ Entity!RemoveThis) => EntityInv'
<1> SUFFICES ASSUME EntityInv, Entity!RemoveFrom \/ Entity!RemoveThis PROVE EntityInv'
  OBVIOUS
<1>1. CASE Entity!RemoveFrom
  <2>1. PICK list \in SUBSET roles :
          Entity!Step(IF list = {} THEN None ELSE Entity!RemoveFlow("pick_role", list, None))
    BY <1>1 DEF Entity!RemoveFrom, Entity!Lists, Entity!RolesOf
  <2>2. PICK f : f = IF list = {} THEN None ELSE Entity!RemoveFlow("pick_role", list, None)
    OBVIOUS
  <2>3. f # None => /\ f.name = "remove_role" /\ f.stage = "pick_role" /\ f.list = list
                    /\ f.role = None
    BY <2>2 DEF Entity!RemoveFlow
  <2>4. FlowHolds(f, roles, menus, created)
    BY <2>3 DEF FlowHolds
  <2> QED
    BY <2>1, <2>2, <2>3, <2>4, EntityStepKeeps
<1>2. CASE Entity!RemoveThis
  <2>1. creation # None /\ creation.name = "remove_role"
    BY <1>2 DEF Entity!RemoveThis, Entity!AtStage
  <2>2. creation.list \subseteq roles /\ roles \subseteq Entity!Role
    BY <2>1 DEF EntityInv, FlowHolds, Formed, Collected, Entity!Asking, PlatformHolds
  <2>3. PICK r \in creation.list :
          IF r.id = 0 THEN Entity!Step(None)
          ELSE Entity!Arm(waiting, Entity!DeleteArgs(r), Entity!RemoveFlow("confirm", creation.list, r))
    BY <1>2 DEF Entity!RemoveThis
  <2>4. CASE r.id = 0
    <3>1. FlowHolds(None, roles, menus, created)
      BY DEF FlowHolds
    <3> QED
      BY <2>3, <2>4, <3>1, EntityStepKeeps
  <2>5. CASE r.id # 0
    <3>1. roles' = roles /\ menus' = menus /\ created' = created
      BY <1>2 DEF Entity!RemoveThis, Entity!platform
    <3>2. PICK f : f = Entity!RemoveFlow("confirm", creation.list, r)
      OBVIOUS
    <3>3. f.name = "remove_role" /\ f.stage = "confirm" /\ f.list = creation.list /\ f.role = r
      BY <3>2 DEF Entity!RemoveFlow
    <3>4. PICK args : args = Entity!DeleteArgs(r)
      OBVIOUS
    <3>5. r \in roles /\ r \in Entity!Role
      BY <2>2
    <3>6. Entity!ArgsOK(args) /\ args # None /\ PossibleOn(args, roles', menus', created')
      BY <2>5, <3>1, <3>4, <3>5, DeleteIsCard
    <3>7. FlowHolds(f, roles', menus', created')
      BY <2>2, <3>1, <3>3, <3>5 DEF FlowHolds
    <3>8. Entity!Arm(waiting, args, f)
      BY <2>3, <2>5, <3>2, <3>4
    <3>9. CardsHold(waiting) /\ PlatformHolds(roles', menus', created')
      BY <3>1 DEF EntityInv
    <3> QED
      BY <3>3, <3>4, <3>6, <3>7, <3>8, <3>9, EntityArmKeeps
  <2> QED
    BY <2>4, <2>5
<1> QED
  BY <1>1, <1>2

\* A card that is not accepted leaves the platform as it is.
LEMMA UnacceptedKeeps ==
  ASSUME EntityInv, NEW c \in Cards, Entity!Decline(c) \/ Entity!Deny(c) \/ Entity!Reject(c)
  PROVE  EntityInv'
<1>1. roles' = roles /\ menus' = menus /\ created' = created
  BY DEF Entity!Decline, Entity!Deny, Entity!Reject, Entity!platform
<1>2. PICK f \in {None, creation} : Entity!Settle(c, f)
  BY DEF Entity!Decline, Entity!Deny, Entity!Reject
<1>3. PlatformHolds(roles', menus', created') /\ FlowHolds(f, roles', menus', created')
  BY <1>1 DEF EntityInv, FlowHolds
<1> QED
  BY <1>2, <1>3, EntitySettleKeeps

\* The suspended role flow goes on, with the menu that was made or one to pick.
LEMMA ResumeKeeps ==
  ASSUME EntityInv, NEW c \in Cards, waiting[c] # None, Entity!Effect(c),
         waiting[c].tool = "addMenu_post", Entity!Suspended, Entity!ResumeRole(c)
  PROVE  EntityInv'
<1>1. /\ PlatformHolds(roles', menus', created') /\ roles' = roles /\ created' = created
  BY EntityEffectKeeps
<1>2. PICK role : role = creation.resume
  OBVIOUS
<1>3. Formed(role) /\ AtItsMenu(role) /\ StillTrue(role, roles, menus, created)
  <2>1. /\ creation # None /\ creation.name = "entity_create" /\ creation.stage # "disambiguate"
        /\ creation.resume # None
    BY DEF Entity!Suspended
  <2>2. creation # Entity!Asking
    BY <2>1 DEF Entity!Asking
  <2>3. SuspendsRole(creation, roles, menus, created)
    BY <2>1, <2>2 DEF EntityInv, FlowHolds
  <2> QED
    BY <1>2, <2>1, <2>3 DEF SuspendsRole
<1>4. /\ role.entity = "role" /\ role.stage = "collect" /\ role.idx = 5 /\ role.resume = None
      /\ DOMAIN role = CreationFields /\ role.name = "entity_create"
      /\ DOMAIN role.data = {"applicationId", "roleName", "role", "details"}
  BY <1>3, BeforeIs DEF AtItsMenu, Formed, Collected, Entity!IsData
<1>5. StillTrue(role, roles', menus', created')
  BY <1>1, <1>3, <1>4 DEF StillTrue
<1>6. CardsHold(Entity!Without(c))
  BY DEF EntityInv, CardsHold, Entity!Without
<1>7. PICK list \in Entity!Lists(Entity!MenusOf(menus', role.data["applicationId"])) :
        IF waiting[c].data["menuName"] \in list
        THEN Entity!Proceed(Entity!Without(c), Entity!Given(role, "menuId", waiting[c].data["menuName"]))
        ELSE Entity!Settle(c, [role EXCEPT !.picking = TRUE])
  BY <1>2 DEF Entity!ResumeRole
<1>8. CASE waiting[c].data["menuName"] \in list
  <2>1. PICK n : n = waiting[c].data["menuName"]
    OBVIOUS
  <2>2. n \in Names /\ HasMenu(menus', role.data["applicationId"], n)
    <3>1. n \in {m.name : m \in {k \in menus' : k.app = role.data["applicationId"]}}
      BY <1>7, <1>8, <2>1 DEF Entity!Lists, Entity!MenusOf
    <3>2. PICK m \in menus' : m.app = role.data["applicationId"] /\ n = m.name
      BY <3>1
    <3> QED
      BY <1>1, <3>2 DEF PlatformHolds, Entity!Menu, HasMenu
  <2>3. Len(Entity!Fields(role.entity)) = 5 /\ Entity!Fields(role.entity)[role.idx] = "menuId"
    BY <1>4, LengthsAre, FieldsAre
  <2>4. Asks(role, "menuId", n)
    BY <1>3, <1>4, <2>2, <2>3, ValuesAre DEF Asks, Formed
  <2>5. PICK g : g = Entity!Given(role, "menuId", n)
    OBVIOUS
  <2>6. Answered(role, "menuId", n, g)
    BY <2>4, <2>5, GivenIs
  <2>7. /\ Collected(g) /\ g.stage = "collect" /\ g.entity = "role" /\ g.index = role.index
        /\ g.options = role.options /\ g.resume = None
        /\ DOMAIN g.data = DOMAIN role.data \cup {"menuId"} /\ g.data["menuId"] = n
        /\ \A j \in DOMAIN role.data \ {"menuId"} : g.data[j] = role.data[j]
    BY <1>4, <2>6 DEF Answered
  <2>8. g.options \subseteq roles' /\ g.data["applicationId"] = role.data["applicationId"]
    BY <1>4, <1>5, <2>7 DEF StillTrue
  <2>9. StillTrue(g, roles', menus', created')
    BY <1>3, <1>4, <1>5, <2>2, <2>3, <2>7, <2>8, StillTrueOfMore
  <2>10. SuspendsRole(g, roles', menus', created')
    BY <2>7 DEF SuspendsRole
  <2>11. Entity!Proceed(Entity!Without(c), g)
    BY <1>7, <1>8, <2>1, <2>5
  <2> QED
    BY <1>1, <1>6, <2>7, <2>9, <2>10, <2>11, ProceedKeeps
<1>9. CASE waiting[c].data["menuName"] \notin list
  <2>1. PICK g : g = [role EXCEPT !.picking = TRUE]
    OBVIOUS
  <2>2. /\ DOMAIN g = CreationFields /\ g.name = "entity_create" /\ g.entity = role.entity
        /\ g.stage = role.stage /\ g.idx = role.idx /\ g.data = role.data /\ g.index = role.index
        /\ g.picking = TRUE /\ g.options = role.options /\ g.resume = role.resume
    BY <1>4, <2>1 DEF CreationFields
  <2>3. Formed(g)
    BY <1>3, <2>2 DEF Formed, Collected, Entity!CreationOK
  <2>4. StillTrue(g, roles', menus', created') /\ SuspendsRole(g, roles', menus', created')
    BY <1>4, <1>5, <2>2 DEF StillTrue, SuspendsRole
  <2>5. Entity!Settle(c, g) /\ FlowHolds(g, roles', menus', created')
    BY <1>7, <1>9, <2>1, <2>3, <2>4 DEF FlowHolds
  <2> QED
    BY <1>1, <2>5, EntitySettleKeeps
<1> QED
  BY <1>8, <1>9

\* A confirmed card: a menu resumes the role flow that waits for it, everything else ends the flow.
LEMMA AcceptKeeps ==
  ASSUME EntityInv, NEW c \in Cards, Entity!Accept(c)
  PROVE  EntityInv'
<1>1. waiting[c] # None /\ Entity!Effect(c)
  BY DEF Entity!Accept
<1>2. PlatformHolds(roles', menus', created') /\ FlowHolds(None, roles', menus', created')
  BY <1>1, EntityEffectKeeps DEF FlowHolds
<1>3. CASE waiting[c].tool = "addMenu_post" /\ Entity!Suspended
  <2>1. Entity!ResumeRole(c)
    BY <1>3 DEF Entity!Accept
  <2> QED
    BY <1>1, <1>3, <2>1, ResumeKeeps
<1>4. CASE ~ (waiting[c].tool = "addMenu_post" /\ Entity!Suspended)
  <2>1. Entity!Settle(c, None)
    BY <1>4 DEF Entity!Accept
  <2> QED
    BY <1>2, <2>1, EntitySettleKeeps
<1> QED
  BY <1>3, <1>4

\* Finitely many numbers have a bound.
LEMMA OrdersHaveABound ==
  ASSUME NEW S \in SUBSET Nat, IsFiniteSet(S)
  PROVE  \E n \in Nat : \A x \in S : x <= n
<1> DEFINE Bounded(T) == \E n \in Nat : \A x \in T : x <= n
           Bad == {T \in FiniteSubsetsOf(S) : ~ Bounded(T)}
<1> SUFFICES ASSUME ~ Bounded(S) PROVE FALSE
  OBVIOUS
<1>1. S \in Bad /\ Bad \subseteq FiniteSubsetsOf(S)
  BY DEF FiniteSubsetsOf
<1>2. PICK T \in Bad : \A U \in Bad : <<U, T>> \notin StrictSubsetOrdering(S)
  BY <1>1, FS_StrictSubsetOrderingWellFounded, WFMin
<1>3. T \subseteq S /\ IsFiniteSet(T) /\ ~ Bounded(T)
  BY DEF FiniteSubsetsOf
<1>4. T # {}
  BY <1>3
<1>5. PICK y \in T : TRUE
  BY <1>4
<1>6. IsFiniteSet(T \ {y})
  BY <1>3, FS_RemoveElement
<1>7. <<T \ {y}, T>> \in StrictSubsetOrdering(S)
  BY <1>3, <1>5 DEF StrictSubsetOrdering
<1>8. PICK n \in Nat : \A x \in T \ {y} : x <= n
  BY <1>2, <1>3, <1>6, <1>7 DEF FiniteSubsetsOf
<1>9. n + y \in Nat /\ \A x \in T : x <= n + y
  BY <1>3, <1>5, <1>8
<1> QED
  BY <1>3, <1>9
\* The disabled applications are applications, and there is an order past theirs.
LEMMA DisabledAre ==
  /\ Entity!DisabledApps \subseteq Entity!Application
  /\ \E n \in Nat : \A a \in Entity!DisabledApps : a.order <= n
<1>1. Disabled \subseteq [code : Names, order : Nat] /\ IsFiniteSet(Disabled)
  BY EntityConstants DEF Entity!EntityAssumption, Entity!IsFiniteSet, IsFiniteSet
<1> DEFINE S == {d.order : d \in Disabled}
           orderOf == [d \in Disabled |-> d.order]
<1>2. orderOf \in Surjection(Disabled, S) /\ S \in SUBSET Nat
  BY <1>1 DEF Surjection
<1> HIDE DEF orderOf
<1>3. IsFiniteSet(S)
  BY <1>1, <1>2, FS_Surjection
<1>4. PICK n \in Nat : \A x \in S : x <= n
  BY <1>2, <1>3, OrdersHaveABound
<1>5. \A a \in Entity!DisabledApps : a.order <= n
  BY <1>4 DEF Entity!DisabledApps
<1>6. Entity!DisabledApps \subseteq Entity!Application
  <2>1. ASSUME NEW d \in Disabled
        PROVE  [code |-> d.code, order |-> d.order, enabled |-> FALSE] \in Entity!Application
    <3>1. d.code \in Names /\ d.order \in Nat /\ FALSE \in BOOLEAN
      BY <1>1
    <3> QED
      BY <3>1, Zenon DEF Entity!Application
  <2> QED
    BY <2>1, Zenon DEF Entity!DisabledApps
<1> QED
  BY <1>5, <1>6

\* The seeded roles are the platform to begin with.
LEMMA EntityInit == Entity!Init => EntityInv
<1> SUFFICES ASSUME Entity!Init PROVE EntityInv
  OBVIOUS
<1>1. /\ creation = None /\ waiting = [c \in Cards |-> None] /\ current = None /\ drawn = 0
      /\ roles = Entity!SeededRoles /\ menus = {} /\ created = Entity!DisabledApps
  BY DEF Entity!Init, Entity!Cards, Cards
<1>2. /\ CodeOf \in [Names -> Names] /\ Seeded \subseteq Apps \X Names
      /\ IsFiniteSet(Seeded) /\ MaxCards \in Nat
  BY EntityConstants DEF Entity!EntityAssumption, Entity!IsFiniteSet, IsFiniteSet
<1>3. IsFiniteSet(roles)
  <2> DEFINE seed(s) == [id |-> 0, app |-> s[1], name |-> s[2], code |-> <<CodeOf[s[2]], 1>>]
             roleOf  == [s \in Seeded |-> seed(s)]
  <2>1. roles = {seed(s) : s \in Seeded}
    BY <1>1 DEF Entity!SeededRoles
  <2>2. roleOf \in Surjection(Seeded, roles)
    BY <2>1 DEF Surjection
  <2> HIDE DEF seed, roleOf
  <2> QED
    BY <1>2, <2>2, FS_Surjection
<1>4. roles \subseteq Entity!Role
  <2> SUFFICES ASSUME NEW s \in Seeded
               PROVE  [id |-> 0, app |-> s[1], name |-> s[2], code |-> <<CodeOf[s[2]], 1>>] \in Entity!Role
    BY <1>1 DEF Entity!SeededRoles
  <2>1. s[1] \in Apps /\ s[2] \in Names
    BY <1>2
  <2>2. <<CodeOf[s[2]], 1>> \in Entity!Codes
    BY <1>2, <2>1 DEF Entity!Codes
  <2>3. 0 \in 0 .. MaxCards
    BY <1>2
  <2> QED
    BY <2>1, <2>2, <2>3 DEF Entity!Role
<1>5. created \subseteq Entity!Application /\ \E n \in Nat : \A a \in created : a.order <= n
  BY <1>1, DisabledAre
<1>6. PlatformHolds(roles, menus, created)
  BY <1>1, <1>3, <1>4, <1>5 DEF PlatformHolds
<1>7. CardsHold(waiting) /\ current \in Cards \cup {None} /\ drawn \in 0 .. MaxCards
  BY <1>1, <1>2 DEF CardsHold
<1>8. FlowHolds(creation, roles, menus, created)
  BY <1>1 DEF FlowHolds
<1>9. Entity!CurrentCardIsTheFlows /\ Entity!CurrentCardIsFeasible
  BY <1>1 DEF Entity!CurrentCardIsTheFlows, Entity!CurrentCardIsFeasible
<1> QED
  BY <1>6, <1>7, <1>8, <1>9 DEF EntityInv

\* A turn that opens a flow, or ends the one there is.
LEMMA OpeningKeeps ==
  ASSUME EntityInv,
         \/ Entity!OpenEntity \/ Entity!OpenAsking \/ Entity!OpenRemove
         \/ Entity!AnswerDirect \/ Entity!NameEntity
  PROVE  EntityInv'
<1>1. CASE Entity!OpenEntity
  <2>1. PICK e \in Entity!AllEntities : Entity!Step(Entity!EntityFlow(e, Entity!Empty, None))
    BY <1>1 DEF Entity!OpenEntity
  <2>2. PICK f : f = Entity!EntityFlow(e, Entity!Empty, None)
    OBVIOUS
  <2>3. /\ Formed(f) /\ f.stage = "collect" /\ f.resume = None
        /\ StillTrue(f, roles, menus, created)
    BY <2>2, OpenedFlow
  <2>4. Entity!Step(f) /\ FlowHolds(f, roles, menus, created)
    BY <2>1, <2>2, <2>3 DEF FlowHolds, SuspendsRole
  <2> QED
    BY <2>3, <2>4, EntityStepKeeps
<1>2. CASE Entity!OpenAsking
  <2>1. FlowHolds(Entity!Asking, roles, menus, created) /\ Entity!Asking.stage # "confirm"
    BY DEF FlowHolds, Entity!Asking
  <2> QED
    BY <1>2, <2>1, EntityStepKeeps DEF Entity!OpenAsking
<1>3. CASE Entity!OpenRemove
  <2>1. PICK f : f = Entity!RemoveFlow("pick_app", {}, None)
    OBVIOUS
  <2>2. f.name = "remove_role" /\ f.stage = "pick_app" /\ f.list = {} /\ f.role = None
    BY <2>1 DEF Entity!RemoveFlow
  <2>3. Entity!Step(f) /\ FlowHolds(f, roles, menus, created)
    BY <1>3, <2>1, <2>2 DEF FlowHolds, Entity!OpenRemove
  <2> QED
    BY <2>2, <2>3, EntityStepKeeps
<1>4. CASE Entity!Step(None)
  <2>1. FlowHolds(None, roles, menus, created)
    BY DEF FlowHolds
  <2> QED
    BY <1>4, <2>1, EntityStepKeeps
<1> QED
  BY <1>1, <1>2, <1>3, <1>4 DEF Entity!AnswerDirect, Entity!NameEntity

\* The flow is left and its cards with it.
LEMMA CancelKeeps == EntityInv /\ Entity!Cancel => EntityInv'
<1> SUFFICES ASSUME EntityInv, Entity!Cancel PROVE EntityInv'
  OBVIOUS
<1>1. /\ creation' = None /\ current' = None /\ waiting' = [c \in Cards |-> None] /\ drawn' = drawn
      /\ roles' = roles /\ menus' = menus /\ created' = created
  BY DEF Entity!Cancel, Entity!platform, Entity!Cards, Cards
<1>2. /\ PlatformHolds(roles', menus', created') /\ CardsHold(waiting')
      /\ current' \in Cards \cup {None} /\ drawn' \in 0 .. MaxCards
      /\ FlowHolds(creation', roles', menus', created')
  BY <1>1 DEF EntityInv, CardsHold, FlowHolds
<1>3. Entity!CurrentCardIsTheFlows' /\ Entity!CurrentCardIsFeasible'
  BY <1>1 DEF Entity!CurrentCardIsTheFlows, Entity!CurrentCardIsFeasible
<1> QED
  BY <1>2, <1>3 DEF EntityInv

\* The turns that answer one field with what the platform says of it.
LEMMA AnswerKeeps ==
  ASSUME EntityInv,
         \/ Entity!GiveDetails \/ Entity!ChooseApp \/ Entity!NameMenu \/ Entity!CodeMenu \/ Entity!NameApplication
         \/ Entity!CodeApplication \/ Entity!ChooseRole \/ Entity!ChooseMenu
  PROVE  EntityInv'
<1>1. CASE Entity!GiveDetails
  <2>1. PICK e \in Entity!AllEntities : Entity!AtField(e, "details")
    BY <1>1 DEF Entity!GiveDetails
  <2>2. Entity!Answer("details", "given") /\ "given" \in Entity!ValueOf("details")
    BY <1>1, ValuesAre DEF Entity!GiveDetails
  <2>3. Allows("details", "given")
    BY <2>2 DEF Allows
  <2> QED
    BY <2>1, <2>2, <2>3, EntityAnswerKeeps
<1>2. CASE Entity!ChooseApp
  <2>1. PICK e \in {"role", "menu"} : Entity!AtField(e, "applicationId")
    BY <1>2 DEF Entity!ChooseApp
  <2>2. PICK a \in Apps : Entity!Answer("applicationId", a)
    BY <1>2 DEF Entity!ChooseApp
  <2>3. Allows("applicationId", a)
    BY <2>2, ValuesAre DEF Allows
  <2> QED
    BY <2>1, <2>2, <2>3, EntityAnswerKeeps
<1>3. CASE Entity!NameMenu
  <2>1. Entity!AtField("menu", "menuName")
    BY <1>3 DEF Entity!NameMenu
  <2>2. PICK n \in Names : /\ n \notin {m.name : m \in {k \in menus : k.app = creation.data["applicationId"]}}
                           /\ Entity!Answer("menuName", n)
    BY <1>3 DEF Entity!NameMenu, Entity!Taken, Entity!MenusOf
  <2>3. NewName(menus, creation.data["applicationId"], n)
    BY <2>2 DEF NewName
  <2>4. Allows("menuName", n)
    BY <2>3, ValuesAre DEF Allows
  <2> QED
    BY <2>1, <2>2, <2>4, EntityAnswerKeeps
<1>4. CASE Entity!NameApplication
  <2>1. Entity!AtField("application", "applicationName")
    BY <1>4 DEF Entity!NameApplication
  <2>2. PICK n \in Names : Entity!Answer("applicationName", n)
    BY <1>4 DEF Entity!NameApplication
  <2>3. Allows("applicationName", n)
    BY <2>2, ValuesAre DEF Allows
  <2> QED
    BY <2>1, <2>2, <2>3, EntityAnswerKeeps
<1>5. CASE Entity!CodeApplication
  <2>1. Entity!AtField("application", "applicationCode")
    BY <1>5 DEF Entity!CodeApplication
  <2>2. PICK n \in Names \ {a.code : a \in Entity!Enabled} : Entity!Answer("applicationCode", n)
    BY <1>5 DEF Entity!CodeApplication, Entity!Taken
  <2>3. NewApplication(created, n)
    BY <2>2 DEF NewApplication, Entity!Enabled
  <2>4. Allows("applicationCode", n)
    BY <2>3, ValuesAre DEF Allows
  <2> QED
    BY <2>1, <2>2, <2>4, EntityAnswerKeeps
<1>6. CASE Entity!ChooseRole
  <2>1. Entity!AtField("privilege", "applicationRoleId")
    BY <1>6 DEF Entity!ChooseRole
  <2>2. PICK r \in creation.options : Entity!Answer("applicationRoleId", r)
    BY <1>6 DEF Entity!ChooseRole
  <2>3. r \in roles /\ r \in Entity!Role
    BY <2>1, ActiveCreation DEF StillTrue, EntityInv, PlatformHolds
  <2>4. Allows("applicationRoleId", r)
    BY <2>3, ValuesAre DEF Allows
  <2> QED
    BY <2>1, <2>2, <2>4, EntityAnswerKeeps
<1>7. CASE Entity!ChooseMenu
  <2>1. Entity!AtField("role", "menuId")
    BY <1>7 DEF Entity!ChooseMenu
  <2>2. PICK n \in {m.name : m \in {k \in menus : k.app = creation.data["applicationId"]}} :
          Entity!Answer("menuId", n)
    BY <1>7 DEF Entity!ChooseMenu, Entity!MenusOf
  <2>3. n \in Names /\ HasMenu(menus, creation.data["applicationId"], n)
    BY <2>2 DEF HasMenu, EntityInv, PlatformHolds, Entity!Menu
  <2>4. Allows("menuId", n)
    BY <2>3, ValuesAre DEF Allows
  <2> QED
    BY <2>1, <2>2, <2>4, EntityAnswerKeeps
<1>8. CASE Entity!CodeMenu
  <2>1. Entity!AtField("menu", "menuCode")
    BY <1>8 DEF Entity!CodeMenu
  <2>2. PICK c \in Names : /\ c \notin {m.code : m \in {k \in menus : k.app = creation.data["applicationId"]}}
                           /\ Entity!Answer("menuCode", c)
    BY <1>8 DEF Entity!CodeMenu, Entity!Taken, Entity!MenuCodes
  <2>3. NewCode(menus, creation.data["applicationId"], c)
    BY <2>2 DEF NewCode
  <2>4. Allows("menuCode", c)
    BY <2>3, ValuesAre DEF Allows
  <2> QED
    BY <2>1, <2>2, <2>4, EntityAnswerKeeps
<1> QED
  BY <1>1, <1>2, <1>3, <1>4, <1>5, <1>6, <1>7, <1>8

\* One step of the flows.
LEMMA EntityNext == EntityInv /\ [Entity!Next]_Entity!vars => EntityInv'
<1> SUFFICES ASSUME EntityInv, [Entity!Next]_Entity!vars PROVE EntityInv'
  OBVIOUS
<1>1. CASE \/ Entity!OpenEntity \/ Entity!OpenAsking \/ Entity!OpenRemove
           \/ Entity!AnswerDirect \/ Entity!NameEntity
  BY <1>1, OpeningKeeps
<1>2. CASE \/ Entity!GiveDetails \/ Entity!ChooseApp \/ Entity!NameMenu \/ Entity!CodeMenu \/ Entity!NameApplication
           \/ Entity!CodeApplication \/ Entity!ChooseRole \/ Entity!ChooseMenu
  BY <1>2, AnswerKeeps
<1>3. CASE Entity!SkillCard
  BY <1>3, SkillCardKeeps
<1>4. CASE Entity!Cancel
  BY <1>4, CancelKeeps
<1>5. CASE Entity!NameRole
  BY <1>5, NameRoleKeeps
<1>6. CASE Entity!RefuseRoleName
  BY <1>6, RefuseKeeps
<1>7. CASE Entity!ChooseRoleApp \/ Entity!PickMenu
  BY <1>7, PickKeeps
<1>8. CASE Entity!NewMenu
  BY <1>8, NewMenuKeeps
<1>9. CASE Entity!RemoveFrom \/ Entity!RemoveThis
  BY <1>9, RemoveKeeps
<1>10. CASE \E c \in Entity!Cards : \/ Entity!Decline(c) \/ Entity!Deny(c) \/ Entity!Reject(c)
                                    \/ Entity!Accept(c)
  <2>1. PICK c \in Cards : Entity!Decline(c) \/ Entity!Deny(c) \/ Entity!Reject(c) \/ Entity!Accept(c)
    BY <1>10 DEF Entity!Cards, Cards
  <2> QED
    BY <2>1, UnacceptedKeeps, AcceptKeeps
<1>11. CASE UNCHANGED Entity!vars
  <2>1. /\ creation' = creation /\ waiting' = waiting /\ current' = current /\ drawn' = drawn
        /\ roles' = roles /\ menus' = menus /\ created' = created
    BY <1>11 DEF Entity!vars, Entity!session, Entity!platform
  <2>2. Entity!CurrentCardIsTheFlows' /\ Entity!CurrentCardIsFeasible'
    BY <2>1 DEF EntityInv, Entity!CurrentCardIsTheFlows, Entity!CurrentCardIsFeasible,
       Entity!Creating, Entity!Possible, Entity!RolesOf, Entity!Enabled
  <2> QED
    BY <2>1, <2>2 DEF EntityInv
<1> QED
  BY <1>1, <1>2, <1>3, <1>4, <1>5, <1>6, <1>7, <1>8, <1>9, <1>10, <1>11 DEF Entity!Next

\* The strengthening says what the runs check.
LEMMA CardHolds == EntityInv => Entity!TypeOK /\ EntityCardHolds
<1> SUFFICES ASSUME EntityInv PROVE Entity!TypeOK /\ EntityCardHolds
  OBVIOUS
<1>1. Entity!Creating => /\ Formed(creation) /\ StillTrue(creation, roles, menus, created)
                         /\ SuspendsRole(creation, roles, menus, created)
  BY DEF EntityInv, FlowHolds, Entity!Creating, Entity!Asking
<1>2. ASSUME NEW f \in Entity!Creations
      PROVE  Formed(f) /\ StillTrue(f, roles, menus, created)
  <2>1. Entity!Creating /\ (f = creation \/ (f = creation.resume /\ creation.resume # None))
    <3>1. Entity!Creating
      BY <1>2 DEF Entity!Creations
    <3>2. f \in {creation} \cup ({creation.resume} \ {None})
      BY <1>2, <3>1 DEF Entity!Creations
    <3>3. f = creation \/ (f = creation.resume /\ creation.resume # None)
      BY <3>2
    <3> QED
      BY <3>1, <3>3, Zenon
  <2>2. CASE f = creation
    BY <1>1, <2>1, <2>2
  <2>3. CASE f = creation.resume /\ creation.resume # None
    BY <1>1, <2>1, <2>3 DEF SuspendsRole
  <2> QED
    BY <2>1, <2>2, <2>3
<1>3. Entity!FieldsInOrder
  BY <1>2 DEF Entity!FieldsInOrder, Formed, Collected
<1>4. Entity!MenuOfRolesApp
  BY <1>2 DEF Entity!MenuOfRolesApp, StillTrue, HasMenu, Entity!MenusOf
<1>5. Entity!CurrentCardIsTheFlows /\ Entity!CurrentCardIsFeasible
  BY DEF EntityInv
<1>6. \A f \in Entity!Creations : Entity!CreationOK(f)
  BY <1>2 DEF Formed, Collected
<1>7. creation # None /\ ~Entity!Creating =>
        \/ creation = Entity!Asking
        \/ /\ creation.name = "remove_role"
           /\ creation.stage \in {"pick_app", "pick_role", "confirm"}
           /\ creation.list \subseteq Entity!Role
           /\ creation.role \in Entity!Role \cup {None}
  BY DEF EntityInv, FlowHolds, PlatformHolds, Entity!Creating, Formed, Collected, Entity!CreationOK
<1>8. /\ DOMAIN waiting = Entity!Cards
      /\ \A c \in Entity!Cards : waiting[c] # None => Entity!ArgsOK(waiting[c])
      /\ current \in Entity!Cards \cup {None} /\ drawn \in 0 .. MaxCards
      /\ roles \subseteq Entity!Role /\ menus \subseteq Entity!Menu
      /\ created \subseteq Entity!Application
  BY DEF EntityInv, PlatformHolds, CardsHold, Entity!Cards, Cards
<1> QED
  BY <1>3, <1>4, <1>5, <1>6, <1>7, <1>8 DEF Entity!TypeOK, EntityCardHolds

\* Whatever cards are confirmed in between: no field is passed over, a role's menu is one of
\* its own application, and the card a flow waits for asks for what it collected and for what
\* the platform can still do.
THEOREM EntityCardsHold == Entity!Spec => [](Entity!TypeOK /\ EntityCardHolds)
  BY EntityInit, EntityNext, CardHolds, PTL DEF Entity!Spec
=============================================================================
