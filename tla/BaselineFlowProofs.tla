-------------------------- MODULE BaselineFlowProofs --------------------------
(***************************************************************************)
(* The review of the baseline flow is whole, for any titles, options, rules*)
(* of the platform, failing fetches and rejected generates.                *)
(*                                                                         *)
(* The argument: an answer that is stored is one of its field, so a field  *)
(* that was asked and is mandatory is filled (Filled); outside an edit the *)
(* questions are asked in their order (InTurn); what is picked in a        *)
(* multi-select step is of its field (Picked), since every way to another  *)
(* field clears the selection; and a flow reaches the review only with the *)
(* card of what it shows.                                                  *)
(***************************************************************************)
EXTENDS Formulation, FiniteSetTheorems, WellFoundedInduction, TLAPS

\* A field that was asked has its answer, if it needs one.
Filled(f) ==
  /\ "baselineTitle"      \in f.asked => f.data.baselineTitle # None
  /\ "fiscalYear"         \in f.asked => f.data.fiscalYear # None
  /\ "fundGroupId"        \in f.asked => f.data.fundGroupId # None
  /\ "businessRuleGroups" \in f.asked => f.data.businessRuleGroups # {}
  /\ "isTargetApplicable" \in f.asked => f.data.isTargetApplicable # None

\* Outside an edit the questions are asked in their order.
InTurn(f) ==
  f.stage = "collect" /\ ~f.editing => \A i \in 1 .. (f.idx - 1) : Steps[i] \in f.asked

\* An answer a field may get.
Fits(field, v) ==
  /\ field = "baselineTitle"       => v \in Titles
  /\ field = "fiscalYear"          => v \in Years
  /\ field = "fundGroupId"         => v \in Funds
  /\ field = "businessRuleGroups"  => v \in SUBSET Rules /\ v # {}
  /\ field = "orgIds"              => v \in SUBSET Offices
  /\ field = "requestTypes"        => v \in SUBSET Types
  /\ field = "acquisitionVehicles" => v \in SUBSET Vehicles
  /\ field = "isTargetApplicable"  => v = "given"

\* What is being picked fits the field that is asked.
Picked(f) == f.stage = "collect" /\ f.buf # {} => Fits(Steps[f.idx], f.buf)

\* Only a rejected generate takes a flow to the review that was not asked everything.
Asked(f) == "rejected" \in Faults \/ f.asked = Fields
Whole(f) == f.editing \/ f.stage = "confirm" => Asked(f)

Good(f) == f \in Flow /\ Filled(f) /\ InTurn(f) /\ Picked(f) /\ Whole(f)

\* The cards have every mandatory field.
CardsAreComplete == \A c \in Cards : pend[c] # None => Complete(pend[c])

Inv ==
  /\ TypeOK
  /\ flow # None => Good(flow)
  /\ CardIsWhatWasReviewed
  /\ "rejected" \in Faults \/ CardsAreComplete

-----------------------------------------------------------------------------
(* The steps and the records.                                              *)

\* BASELINE_STEPS has eight fields.
LEMMA FieldNames ==
  Fields = {"baselineTitle", "fiscalYear", "fundGroupId", "businessRuleGroups", "orgIds",
            "requestTypes", "acquisitionVehicles", "isTargetApplicable"}
BY DEF Fields, Steps

\* Every step is a field, and every field a step.
LEMMA StepIsField ==
  /\ \A i \in 1 .. 8 : Steps[i] \in Fields
  /\ \A x \in Fields : \E i \in 1 .. 8 : Steps[i] = x
BY DEF Fields

\* _advance_baseline stores the answer under its field and leaves the others alone.
LEMMA StoreAnswer ==
  ASSUME NEW f \in Flow, NEW v, Fits(Steps[f.idx], v)
  PROVE  LET g == [f EXCEPT !.data[Steps[f.idx]] = v, !.asked = @ \cup {Steps[f.idx]}, !.buf = {}]
         IN /\ g \in Flow /\ g.buf = {} /\ g.asked = f.asked \cup {Steps[f.idx]}
            /\ g.stage = f.stage /\ g.idx = f.idx /\ g.editing = f.editing
            /\ Filled(f) => Filled(g)
<1> DEFINE s == Steps[f.idx]
           d == [f.data EXCEPT ![s] = v]
           g == [f EXCEPT !.data = d, !.asked = f.asked \cup {s}, !.buf = {}]
<1>1. f.idx \in 1 .. 8 /\ f.data \in Data /\ f.asked \in SUBSET Fields
  BY DEF Flow
<1>2. s \in Fields
  BY <1>1, StepIsField
<1>3. d \in Data
  BY <1>1, <1>2, FieldNames DEF Fits, Data
<1>4. /\ g \in Flow /\ g.buf = {} /\ g.asked = f.asked \cup {s} /\ g.data = d
      /\ g.stage = f.stage /\ g.idx = f.idx /\ g.editing = f.editing
  BY <1>1, <1>2, <1>3 DEF Flow
<1>5. ASSUME Filled(f) PROVE Filled(g)
  <2>1. None \notin Titles \cup Years \cup Funds \cup {"given"}
    BY BaselineAssumption
  <2>2. /\ s = "baselineTitle" => d.baselineTitle \in Titles
        /\ s # "baselineTitle" => d.baselineTitle = f.data.baselineTitle
    BY <1>1 DEF Fits, Data
  <2>3. /\ s = "fiscalYear" => d.fiscalYear \in Years
        /\ s # "fiscalYear" => d.fiscalYear = f.data.fiscalYear
    BY <1>1 DEF Fits, Data
  <2>4. /\ s = "fundGroupId" => d.fundGroupId \in Funds
        /\ s # "fundGroupId" => d.fundGroupId = f.data.fundGroupId
    BY <1>1 DEF Fits, Data
  <2>5. /\ s = "businessRuleGroups" => d.businessRuleGroups # {}
        /\ s # "businessRuleGroups" => d.businessRuleGroups = f.data.businessRuleGroups
    BY <1>1 DEF Fits, Data
  <2>6. /\ s = "isTargetApplicable" => d.isTargetApplicable = "given"
        /\ s # "isTargetApplicable" => d.isTargetApplicable = f.data.isTargetApplicable
    BY <1>1 DEF Fits, Data
  <2> HIDE DEF s, d, g
  <2> QED
    BY <1>4, <1>5, <2>1, <2>2, <2>3, <2>4, <2>5, <2>6 DEF Filled
<1>6. g = [f EXCEPT !.data[Steps[f.idx]] = v, !.asked = @ \cup {Steps[f.idx]}, !.buf = {}]
  BY <1>1 DEF Flow
<1> HIDE DEF g
<1> QED
  BY <1>4, <1>5, <1>6

-----------------------------------------------------------------------------
(* Asking the next question, reviewing, arming a card.                     *)

\* A question that is asked of a good flow leaves the flow good.
LEMMA PromptKeeps ==
  ASSUME Inv, NEW f, Good(f), f.stage = "collect", Prompt(f)
  PROVE  Inv'
<1>1. /\ flow' = f /\ f \in Flow /\ f # None
      /\ UNCHANGED <<pend, cur, armed, made>>
  BY RecordsAssumption DEF Prompt, Good
<1> QED
  BY <1>1 DEF Inv, TypeOK, CardIsWhatWasReviewed, CardsAreComplete

\* A card that is armed is what the review shows, and complete when all was asked.
LEMMA ArmKeeps ==
  ASSUME Inv, NEW f, Good(f), f.stage = "confirm",
         NEW waiting \in [Cards -> Data \cup {None}],
         "rejected" \in Faults \/ \A c \in Cards : waiting[c] # None => Complete(waiting[c]),
         Arm(f, waiting), made' \in [Cards -> Data \cup {None}]
  PROVE  Inv'
<1>1. /\ flow' = f /\ cur' = armed + 1 /\ armed' = armed + 1
      /\ pend' = [waiting EXCEPT ![armed + 1] = f.data]
      /\ armed + 1 \in Cards /\ armed' \in 0 .. MaxCards
  BY BaselineAssumption DEF Arm, Inv, TypeOK, Cards
<1>2. f \in Flow /\ f # None /\ f.data \in Data
  BY RecordsAssumption DEF Good, Flow
<1>3. TypeOK'
  BY <1>1, <1>2 DEF TypeOK
<1>4. CardIsWhatWasReviewed'
  BY <1>1 DEF CardIsWhatWasReviewed
<1>5. "rejected" \in Faults \/ Complete(f.data)
  <2>1. "rejected" \in Faults \/ f.asked = Fields
    BY DEF Good, Whole, Asked
  <2> QED
    BY <2>1, FieldNames DEF Good, Filled, Complete
<1>6. "rejected" \in Faults \/ CardsAreComplete'
  BY <1>1, <1>5 DEF CardsAreComplete
<1> QED
  BY <1>1, <1>3, <1>4, <1>6 DEF Inv

\* The end of a pass, or of an edit: the title is asked again, or the review has a card.
LEMMA FinalizeKeeps ==
  ASSUME Inv, NEW f \in Flow, Filled(f), Asked(f), ~f.editing, Finalize(f)
  PROVE  Inv'
<1>1. CASE Prompt([f EXCEPT !.stage = "collect", !.idx = 1, !.buf = {}, !.editing = TRUE])
  <2> DEFINE g == [f EXCEPT !.stage = "collect", !.idx = 1, !.buf = {}, !.editing = TRUE]
  <2>1. /\ g \in Flow /\ g.stage = "collect" /\ g.editing /\ g.buf = {}
        /\ g.asked = f.asked /\ g.data = f.data
    <3>1. /\ f.data \in Data /\ f.asked \in SUBSET Fields /\ 1 \in 1 .. 8
          /\ {} \in SUBSET (Rules \cup Offices \cup Types \cup Vehicles)
      BY DEF Flow
    <3>2. /\ g.stage = "collect" /\ g.idx = 1 /\ g.buf = {} /\ g.editing = TRUE
          /\ g.asked = f.asked /\ g.data = f.data
      BY DEF Flow
    <3>3. g \in Flow
      BY <3>1 DEF Flow
    <3> QED
      BY <3>2, <3>3
  <2> HIDE DEF g
  <2>2. Good(g)
    BY <2>1 DEF Good, Filled, InTurn, Picked, Whole, Asked
  <2>3. Prompt(g)
    BY <1>1 DEF g
  <2> QED
    BY <2>1, <2>2, <2>3, PromptKeeps
<1>2. CASE Arm([f EXCEPT !.stage = "confirm"], pend) /\ UNCHANGED made
  <2> DEFINE g == [f EXCEPT !.stage = "confirm"]
  <2>1. g \in Flow /\ g.stage = "confirm" /\ g.asked = f.asked /\ g.data = f.data
    BY DEF Flow
  <2> HIDE DEF g
  <2>2. Good(g)
    BY <2>1 DEF Good, Filled, InTurn, Picked, Whole, Asked
  <2>3. Arm(g, pend) /\ UNCHANGED made
    BY <1>2 DEF g
  <2>4. /\ pend \in [Cards -> Data \cup {None}] /\ made' \in [Cards -> Data \cup {None}]
        /\ "rejected" \in Faults \/ \A c \in Cards : pend[c] # None => Complete(pend[c])
    BY <2>3 DEF Inv, TypeOK, CardsAreComplete
  <2> QED
    BY <2>1, <2>2, <2>3, <2>4, ArmKeeps
<1> QED
  BY <1>1, <1>2 DEF Finalize

\* The next question in order is asked, or answered without asking, or there is none.
LEMMA GoToKeeps ==
  ASSUME Inv, NEW f \in Flow, NEW i \in 1 .. 9, Filled(f), f.stage = "collect", ~f.editing,
         f.buf = {}, \A k \in 1 .. (i - 1) : Steps[k] \in f.asked, GoTo(f, i)
  PROVE  Inv'
<1>1. CASE i > 8
  <2>1. Fields \subseteq f.asked /\ f.asked \subseteq Fields
    <3>1. \A k \in 1 .. 8 : Steps[k] \in f.asked
      BY <1>1
    <3> QED
      BY <3>1, StepIsField DEF Flow
  <2>2. Asked(f)
    BY <2>1 DEF Asked
  <2>3. Finalize(f)
    <3>1. i > 8 /\ ~(i <= 8)
      BY <1>1
    <3> QED
      BY <3>1 DEF GoTo
  <2> QED
    BY <2>2, <2>3, FinalizeKeeps
<1>2. CASE i <= 8
  <2>1. i \in 1 .. 8
    BY <1>2
  <2>2. ASSUME Prompt([f EXCEPT !.idx = i]) PROVE Inv'
    <3> DEFINE g == [f EXCEPT !.idx = i]
    <3>1. /\ g \in Flow /\ g.stage = "collect" /\ ~g.editing /\ g.buf = {} /\ g.idx = i
          /\ g.asked = f.asked /\ g.data = f.data
      BY <2>1 DEF Flow
    <3> HIDE DEF g
    <3>2. Good(g)
      BY <3>1 DEF Good, Filled, InTurn, Picked, Whole
    <3>3. Prompt(g)
      BY <2>2 DEF g
    <3> QED
      BY <3>1, <3>2, <3>3, PromptKeeps
  <2>3. ASSUME Steps[i] = "fundGroupId", NEW v \in Funds,
               Prompt([f EXCEPT !.idx = i + 1, !.asked = @ \cup {Steps[i]}, !.data.fundGroupId = v])
        PROVE  Inv'
    <3> DEFINE g == [f EXCEPT !.idx = i + 1, !.asked = @ \cup {Steps[i]}, !.data.fundGroupId = v]
    <3>1. i = 3
      BY <2>1, <2>3 DEF Steps
    <3>2. Steps[i] \in Fields /\ v # None
      BY <2>1, StepIsField, BaselineAssumption
    <3>3. /\ g \in Flow /\ g.stage = "collect" /\ ~g.editing /\ g.buf = {} /\ g.idx = i + 1
          /\ g.asked = f.asked \cup {"fundGroupId"} /\ g.data.fundGroupId = v
          /\ g.data.baselineTitle = f.data.baselineTitle /\ g.data.fiscalYear = f.data.fiscalYear
          /\ g.data.businessRuleGroups = f.data.businessRuleGroups
          /\ g.data.isTargetApplicable = f.data.isTargetApplicable
      <4> DEFINE d == [f.data EXCEPT !.fundGroupId = v]
      <4>1. f.data \in Data /\ f.asked \in SUBSET Fields
        BY DEF Flow
      <4>2. /\ d \in Data /\ d.fundGroupId = v
            /\ d.baselineTitle = f.data.baselineTitle /\ d.fiscalYear = f.data.fiscalYear
            /\ d.orgIds = f.data.orgIds
            /\ d.businessRuleGroups = f.data.businessRuleGroups
            /\ d.isTargetApplicable = f.data.isTargetApplicable
        BY <4>1, <2>3 DEF Data
      <4>3. g = [f EXCEPT !.idx = i + 1, !.asked = f.asked \cup {Steps[i]}, !.data = d]
        BY <4>1 DEF Flow
      <4> HIDE DEF d, g
      <4>4. i + 1 \in 1 .. 8 /\ f.asked \cup {Steps[i]} \in SUBSET Fields
        BY <3>1, <3>2, <4>1
      <4>5. /\ g \in Flow /\ g.stage = "collect" /\ ~g.editing /\ g.buf = {} /\ g.idx = i + 1
            /\ g.asked = f.asked \cup {Steps[i]} /\ g.data = d
        BY <4>2, <4>3, <4>4 DEF Flow
      <4> QED
        BY <2>3, <4>2, <4>5
    <3>4. Prompt(g)
      BY <2>3
    <3> HIDE DEF g
    <3>5. Filled(g)
      BY <3>2, <3>3 DEF Filled
    <3>6. InTurn(g)
      <4>1. \A k \in 1 .. (g.idx - 1) : k \in 1 .. (i - 1) \/ k = i
        BY <3>1, <3>3
      <4> QED
        BY <2>3, <3>3, <4>1 DEF InTurn
    <3>7. Good(g)
      BY <3>3, <3>5, <3>6 DEF Good, Picked, Whole
    <3> QED
      BY <3>3, <3>4, <3>7, PromptKeeps
  <2>4. ASSUME Steps[i] = "acquisitionVehicles",
               Prompt([f EXCEPT !.idx = i + 1, !.asked = @ \cup {Steps[i]},
                                !.data.acquisitionVehicles = {}])
        PROVE  Inv'
    <3> DEFINE g == [f EXCEPT !.idx = i + 1, !.asked = @ \cup {Steps[i]},
                              !.data.acquisitionVehicles = {}]
    <3>1. i = 7
      BY <2>1, <2>4 DEF Steps
    <3>2. Steps[i] \in Fields
      BY <2>1, StepIsField
    <3>3. /\ g \in Flow /\ g.stage = "collect" /\ ~g.editing /\ g.buf = {} /\ g.idx = i + 1
          /\ g.asked = f.asked \cup {"acquisitionVehicles"}
          /\ g.data.baselineTitle = f.data.baselineTitle /\ g.data.fiscalYear = f.data.fiscalYear
          /\ g.data.fundGroupId = f.data.fundGroupId
          /\ g.data.businessRuleGroups = f.data.businessRuleGroups
          /\ g.data.isTargetApplicable = f.data.isTargetApplicable
      <4> DEFINE d == [f.data EXCEPT !.acquisitionVehicles = {}]
      <4>1. f.data \in Data /\ f.asked \in SUBSET Fields
        BY DEF Flow
      <4>2. /\ d \in Data /\ d.acquisitionVehicles = {}
            /\ d.baselineTitle = f.data.baselineTitle /\ d.fiscalYear = f.data.fiscalYear
            /\ d.fundGroupId = f.data.fundGroupId
            /\ d.businessRuleGroups = f.data.businessRuleGroups
            /\ d.isTargetApplicable = f.data.isTargetApplicable
        BY <4>1 DEF Data
      <4>3. g = [f EXCEPT !.idx = i + 1, !.asked = f.asked \cup {Steps[i]}, !.data = d]
        BY <4>1 DEF Flow
      <4> HIDE DEF d, g
      <4>4. i + 1 \in 1 .. 8 /\ f.asked \cup {Steps[i]} \in SUBSET Fields
        BY <3>1, <3>2, <4>1
      <4>5. /\ g \in Flow /\ g.stage = "collect" /\ ~g.editing /\ g.buf = {} /\ g.idx = i + 1
            /\ g.asked = f.asked \cup {Steps[i]} /\ g.data = d
        BY <4>2, <4>3, <4>4 DEF Flow
      <4> QED
        BY <2>4, <4>2, <4>5
    <3>4. Prompt(g)
      BY <2>4
    <3> HIDE DEF g
    <3>5. Filled(g)
      BY <3>3 DEF Filled
    <3>6. InTurn(g)
      <4>1. \A k \in 1 .. (g.idx - 1) : k \in 1 .. (i - 1) \/ k = i
        BY <3>1, <3>3
      <4> QED
        BY <2>4, <3>3, <4>1 DEF InTurn
    <3>7. Good(g)
      BY <3>3, <3>5, <3>6 DEF Good, Picked, Whole
    <3> QED
      BY <3>3, <3>4, <3>7, PromptKeeps
  <2>5. CASE Steps[i] = "fundGroupId"
    <3>1. PICK options \in Fetched("fundGroupId", f.data) :
            Prompt(IF \E x \in options : options = {x}
                   THEN [f EXCEPT !.idx = i + 1, !.asked = @ \cup {Steps[i]},
                                  !.data.fundGroupId = CHOOSE x \in options : TRUE]
                   ELSE [f EXCEPT !.idx = i])
      <4>1. ~(i > 8) /\ Steps[i] = "fundGroupId"
        BY <1>2, <2>1, <2>5
      <4> QED
        BY <1>2, <4>1 DEF GoTo
    <3>2. options \subseteq Funds
      BY DEF Fetched, Offered
    <3>3. CASE \E x \in options : options = {x}
      <4>1. (CHOOSE x \in options : TRUE) \in Funds
        BY <3>2, <3>3
      <4> QED
        BY <2>3, <2>5, <3>1, <3>3, <4>1
    <3>4. CASE ~ \E x \in options : options = {x}
      BY <2>2, <3>1, <3>4
    <3> QED
      BY <3>3, <3>4
  <2>6. CASE Steps[i] = "acquisitionVehicles" /\ f.data.requestTypes = {}
    BY <1>2, <2>4, <2>6 DEF GoTo
  <2>7. CASE Steps[i] # "fundGroupId" /\ ~(Steps[i] = "acquisitionVehicles" /\ f.data.requestTypes = {})
    <3>1. Prompt([f EXCEPT !.idx = i])
      BY <1>2, <2>7 DEF GoTo
    <3> QED
      BY <2>2, <3>1
  <2> QED
    BY <2>5, <2>6, <2>7
<1> QED
  BY <1>1, <1>2

\* An answer that fits its field takes the flow to the next question, or back to the review.
LEMMA AdvanceKeeps ==
  ASSUME Inv, Collecting, NEW v, Fits(Field, v), Advance(flow, v)
  PROVE  Inv'
<1> DEFINE g == [flow EXCEPT !.data[Steps[flow.idx]] = v, !.asked = @ \cup {Steps[flow.idx]},
                             !.buf = {}]
           h == [g EXCEPT !.editing = FALSE]
<1>1. Good(flow) /\ flow \in Flow /\ flow.stage = "collect" /\ flow.idx \in 1 .. 8
  BY DEF Inv, Collecting, Good, Flow
<1>2. /\ g \in Flow /\ g.buf = {} /\ g.asked = flow.asked \cup {Steps[flow.idx]}
      /\ g.stage = "collect" /\ g.idx = flow.idx /\ g.editing = flow.editing
      /\ Filled(g)
  BY <1>1, StoreAnswer DEF Good, Field
<1>3. IF flow.editing THEN Finalize(h) ELSE GoTo(g, flow.idx + 1)
  BY DEF Advance
<1> HIDE DEF g
<1>4. CASE flow.editing
  <2>1. h \in Flow /\ ~h.editing /\ h.asked = g.asked /\ h.data = g.data
    BY <1>2 DEF Flow
  <2>2. Filled(h)
    BY <1>2, <2>1 DEF Filled
  <2>3. Asked(h)
    <3>1. "rejected" \in Faults \/ flow.asked = Fields
      BY <1>1, <1>4 DEF Good, Whole, Asked
    <3>2. Steps[flow.idx] \in Fields
      BY <1>1, StepIsField
    <3> QED
      BY <1>2, <2>1, <3>1, <3>2 DEF Asked
  <2>4. Finalize(h)
    BY <1>3, <1>4
  <2> HIDE DEF h
  <2> QED
    BY <2>1, <2>2, <2>3, <2>4, FinalizeKeeps
<1>5. CASE ~flow.editing
  <2>1. flow.idx + 1 \in 1 .. 9
    BY <1>1
  <2>2. \A k \in 1 .. ((flow.idx + 1) - 1) : Steps[k] \in g.asked
    <3>1. \A k \in 1 .. ((flow.idx + 1) - 1) : k \in 1 .. (flow.idx - 1) \/ k = flow.idx
      BY <1>1
    <3> QED
      BY <1>1, <1>2, <1>5, <3>1 DEF Good, InTurn
  <2>3. ~g.editing /\ GoTo(g, flow.idx + 1)
    BY <1>2, <1>3, <1>5
  <2> QED
    BY <1>2, <2>1, <2>2, <2>3, GoToKeeps
<1> QED
  BY <1>4, <1>5

-----------------------------------------------------------------------------
(* The steps of a session.                                                 *)

\* What a fetch offers for a field fits it.
LEMMA OfferFits ==
  ASSUME NEW field, NEW d, NEW options \in Fetched(field, d)
  PROVE  /\ field = "fiscalYear" => options \subseteq Years
         /\ field = "fundGroupId" => options \subseteq Funds
         /\ field = "businessRuleGroups" => options \subseteq Rules
         /\ field = "orgIds" => options \subseteq Offices
         /\ field = "requestTypes" => options \subseteq Types
         /\ field = "acquisitionVehicles" => options \subseteq Vehicles
<1>1. options = Offered(field, d) \/ options = {}
  BY DEF Fetched
<1> QED
  BY <1>1 DEF Offered

\* Every turn and every answered card keeps the flow good and the review true.
LEMMA NextKeeps == Inv /\ [Next]_vars => Inv'
<1> SUFFICES ASSUME Inv, [Next]_vars PROVE Inv'
  OBVIOUS
<1>a. TypeOK /\ CardIsWhatWasReviewed /\ ("rejected" \in Faults \/ CardsAreComplete)
  BY DEF Inv
<1>b. flow # None => Good(flow) /\ flow \in Flow
  BY DEF Inv, Good
<1>1. ASSUME Open PROVE Inv'
  <2> DEFINE f == [stage |-> "collect", idx |-> 1, data |-> NoData, asked |-> {}, buf |-> {},
                   editing |-> FALSE]
  <2>1. NoData \in Data
    BY DEF NoData, Data
  <2>2. f \in Flow
    BY <2>1 DEF Flow
  <2>3. Good(f)
    BY <2>2 DEF Good, Filled, InTurn, Picked, Whole
  <2> QED
    BY <1>1, <2>3, PromptKeeps DEF Open
<1>2. ASSUME BreakOut PROVE Inv'
  BY <1>2, <1>a DEF BreakOut, Prompt, Inv, TypeOK, CardIsWhatWasReviewed, CardsAreComplete
<1>3. ASSUME Cancel PROVE Inv'
  BY <1>3, <1>a DEF Cancel, Inv, TypeOK, CardIsWhatWasReviewed, CardsAreComplete
<1>4. ASSUME AnswerPlain PROVE Inv'
  <2>1. PICK v : Fits(Field, v) /\ Advance(flow, v)
    BY <1>4 DEF AnswerPlain, Fits
  <2> QED
    BY <1>4, <2>1, AdvanceKeeps DEF AnswerPlain
<1>5. ASSUME AnswerFetched PROVE Inv'
  <2>1. PICK options \in Fetched(Field, flow.data) : \E v \in options : Advance(flow, v)
    BY <1>5 DEF AnswerFetched
  <2>2. PICK v \in options : Advance(flow, v)
    BY <2>1
  <2>3. Field \in Single
    BY <1>5 DEF AnswerFetched
  <2>4. Fits(Field, v)
    BY <2>3, OfferFits DEF Fits, Single
  <2> QED
    BY <1>5, <2>2, <2>4, AdvanceKeeps DEF AnswerFetched
<1>6. ASSUME PickOne PROVE Inv'
  <2>1. PICK options \in Fetched(Field, flow.data) : \E v \in options \ flow.buf :
          Prompt([flow EXCEPT !.buf = @ \cup {v}])
    BY <1>6 DEF PickOne
  <2>2. PICK v \in options : Prompt([flow EXCEPT !.buf = @ \cup {v}])
    BY <2>1
  <2>3. Collecting /\ Field \in Multi /\ flow \in Flow /\ Good(flow)
    BY <1>6, <1>b DEF PickOne, Collecting
  <2> DEFINE g == [flow EXCEPT !.buf = flow.buf \cup {v}]
  <2>4. v \in Rules \cup Offices \cup Types \cup Vehicles
    BY <2>3, OfferFits DEF Multi
  <2>5. /\ g \in Flow /\ g.buf = flow.buf \cup {v} /\ g.stage = "collect"
        /\ g.idx = flow.idx /\ g.asked = flow.asked /\ g.data = flow.data
        /\ g.editing = flow.editing
    BY <2>3, <2>4 DEF Flow, Collecting
  <2>6. Prompt(g)
    BY <2>2
  <2> HIDE DEF g
  <2>7. Fits(Field, g.buf)
    <3>1. flow.buf = {} \/ Fits(Field, flow.buf)
      BY <2>3 DEF Good, Picked, Collecting, Field
    <3>2. Fits(Field, {v})
      BY <2>3, OfferFits DEF Fits, Multi
    <3> QED
      BY <2>3, <2>5, <3>1, <3>2 DEF Fits, Multi
  <2>8. Good(g)
    <3>1. Filled(g) /\ Whole(g)
      BY <2>3, <2>5 DEF Good, Filled, Whole, Asked
    <3>2. InTurn(g)
      BY <2>3, <2>5 DEF Good, InTurn, Collecting
    <3>3. Picked(g)
      BY <2>5, <2>7 DEF Picked, Field
    <3> QED
      BY <2>5, <3>1, <3>2, <3>3 DEF Good
  <2> QED
    BY <2>5, <2>6, <2>8, PromptKeeps
<1>7. ASSUME FinishPicking PROVE Inv'
  <2>1. Collecting /\ Good(flow) /\ flow.buf # {} /\ Advance(flow, flow.buf)
    BY <1>7, <1>b DEF FinishPicking, Collecting
  <2>2. Fits(Field, flow.buf)
    BY <2>1 DEF Good, Picked, Collecting, Field
  <2> QED
    BY <2>1, <2>2, AdvanceKeeps
<1>8. ASSUME PickAll PROVE Inv'
  <2>1. PICK options \in Fetched(Field, flow.data) : Advance(flow, All(Field, options))
    BY <1>8 DEF PickAll
  <2>2. Collecting /\ Field \in Multi \ {"businessRuleGroups"}
    BY <1>8 DEF PickAll
  <2>3. Fits(Field, All(Field, options))
    BY <2>2, OfferFits DEF Fits, Multi, All
  <2> QED
    BY <2>1, <2>2, <2>3, AdvanceKeeps
<1>9. ASSUME Edit PROVE Inv'
  <2>1. flow # None /\ flow.stage = "confirm" /\ Good(flow) /\ flow \in Flow
    BY <1>9, <1>b DEF Edit
  <2>2. PICK i \in 1 .. 8 :
          Prompt([flow EXCEPT !.stage = "collect", !.idx = i, !.buf = {}, !.editing = TRUE])
    BY <1>9 DEF Edit
  <2> DEFINE g == [flow EXCEPT !.stage = "collect", !.idx = i, !.buf = {}, !.editing = TRUE]
  <2>3. /\ g \in Flow /\ g.stage = "collect" /\ g.editing /\ g.buf = {}
        /\ g.asked = flow.asked /\ g.data = flow.data
    BY <2>1 DEF Flow
  <2>4. Prompt(g)
    BY <2>2
  <2> HIDE DEF g
  <2>5. Good(g)
    BY <2>1, <2>3 DEF Good, Filled, InTurn, Picked, Whole, Asked
  <2> QED
    BY <2>3, <2>4, <2>5, PromptKeeps
<1>10. ASSUME NEW c \in Cards, Decline(c) PROVE Inv'
  BY <1>10, <1>a DEF Decline, Without, Inv, TypeOK, CardIsWhatWasReviewed, CardsAreComplete
<1>11. ASSUME NEW c \in Cards, Accept(c) PROVE Inv'
  BY <1>11, <1>a DEF Accept, Without, Inv, TypeOK, CardIsWhatWasReviewed, CardsAreComplete
<1>12. ASSUME NEW c \in Cards, Reject(c) PROVE Inv'
  <2>1. made' \in [Cards -> Data \cup {None}] /\ Without(c) \in [Cards -> Data \cup {None}]
    BY <1>12, <1>a DEF Reject, Without, TypeOK
  <2>2. "rejected" \in Faults
    BY <1>12 DEF Reject
  <2>3. CASE flow = None
    BY <1>12, <2>1, <2>2, <2>3, <1>a DEF Reject, Inv, TypeOK, CardIsWhatWasReviewed
  <2>4. CASE flow # None
    <3> DEFINE g == [flow EXCEPT !.stage = "confirm", !.editing = FALSE]
    <3>1. Good(flow) /\ flow \in Flow
      BY <2>4, <1>b
    <3>2. g \in Flow /\ g.stage = "confirm" /\ g.asked = flow.asked /\ g.data = flow.data
      BY <3>1 DEF Flow
    <3>3. Arm(g, Without(c))
      BY <1>12, <2>4 DEF Reject
    <3> HIDE DEF g
    <3>4. Good(g)
      BY <2>2, <3>1, <3>2 DEF Good, Filled, InTurn, Picked, Whole, Asked
    <3> QED
      BY <2>1, <2>2, <3>2, <3>3, <3>4, ArmKeeps
  <2> QED
    BY <2>3, <2>4
<1>13. CASE UNCHANGED vars
  BY <1>13, <1>a DEF vars, Inv, TypeOK, CardIsWhatWasReviewed, CardsAreComplete
<1> QED
  BY <1>1, <1>2, <1>3, <1>4, <1>5, <1>6, <1>7, <1>8, <1>9, <1>10, <1>11, <1>12, <1>13 DEF Next

\* The flow is good and the review true in every state.
LEMMA FlowInvariant == Spec => []Inv
<1>1. Init => Inv
  BY BaselineAssumption
  DEF Init, Inv, TypeOK, CardIsWhatWasReviewed, CardsAreComplete, Cards
<1> QED
  BY <1>1, NextKeeps, PTL DEF Spec

\* No question is passed over, a review of a flow that was asked everything has every
\* mandatory field, and the current card carries what the review shows: after edits, renamed
\* titles, failed fetches and rejected generates (_advance_baseline, _baseline_finalize,
\* baseline_after_failed_generate).
THEOREM ReviewHolds == Spec => []ReviewIsWhole
<1>1. Inv => ReviewIsWhole
  <2> SUFFICES ASSUME Inv PROVE NothingPassedOver /\ ReviewIsComplete /\ CardIsWhatWasReviewed
    BY DEF ReviewIsWhole
  <2>1. NothingPassedOver
    BY DEF Inv, Good, InTurn, NothingPassedOver, Collecting
  <2>2. ReviewIsComplete
    BY FieldNames DEF Inv, Good, Filled, ReviewIsComplete, Complete
  <2> QED
    BY <2>1, <2>2 DEF Inv
<1> QED
  BY <1>1, FlowInvariant, PTL

\* Without a rejected generate no card lacks a mandatory field, a fund group included,
\* however often the flow is abandoned, edited and opened again: the blank fund group comes
\* only from a rejection that re-arms the data of another run.
THEOREM CardsComplete ==
  ASSUME "rejected" \notin Faults PROVE Spec => [](CardsAreComplete /\ FundNeverBlank)
<1>1. Inv => CardsAreComplete /\ FundNeverBlank
  BY DEF Inv, CardsAreComplete, FundNeverBlank, Complete
<1> QED
  BY <1>1, FlowInvariant, PTL

-----------------------------------------------------------------------------
(* The reads of baselines (BaselineReads), for any fund groups, failing    *)
(* calls and changes by others.  The argument: a baseline that is steady   *)
(* is in a group still to be read, in one that was passed over, or in what *)
(* was read (Covered), and the reply is drawn from what was read (Drawn).  *)

RowOf(m) == Reads!Row(m)

Covered ==
  \A m \in steady :
    /\ m \in Masters /\ masters[m] # None
    /\ masters[m].group \in unread \cup passed \/ RowOf(m) \in got

Drawn ==
  reply # None =>
    /\ reply.kind \in {"list", "none", "details"} => unread = {}
    /\ reply.kind = "list" => reply.rows = got
    /\ reply.kind = "none" => got = {}
    /\ reply.kind = "details" => Reads!Candidates = {reply.row}

ReadsInv ==
  /\ masters \in [Masters -> Reads!Baseline \cup {None}]
  /\ IsFiniteSet(got)
  /\ Covered
  /\ Drawn

\* The rows of finitely many baselines are finitely many.
LEMMA RowsAreFinite ==
  ASSUME NEW S \in SUBSET Masters
  PROVE  IsFiniteSet({RowOf(m) : m \in S})
<1> DEFINE T == {RowOf(m) : m \in S}
           f == [m \in S |-> RowOf(m)]
<1>1. IsFiniteSet(S)
  BY FS_Subset, ReadsAssumption
<1>2. f \in Surjection(S, T)
  BY DEF Surjection
<1> HIDE DEF T, f
<1>3. IsFiniteSet(T)
  BY <1>1, <1>2, FS_Surjection
<1> QED
  BY <1>3 DEF T

LEMMA SameCardinality == ASSUME NEW S PROVE Reads!Cardinality(S) = Cardinality(S)
BY DEF Reads!Cardinality, Cardinality, Reads!IsFiniteSet, IsFiniteSet

\* The baseline that is opened is the only candidate.
LEMMA TargetIsAlone ==
  ASSUME IsFiniteSet(got), Reads!Target # None
  PROVE  Reads!Candidates = {Reads!Target}
<1>1. IsFiniteSet(Reads!Candidates)
  BY FS_Subset DEF Reads!Candidates
<1>2. Cardinality(Reads!Candidates) = 1
  BY SameCardinality DEF Reads!Target
<1>3. PICK row : Reads!Candidates = {row}
  BY <1>1, <1>2, FS_Singleton
<1> QED
  BY <1>2, <1>3 DEF Reads!Target

LEMMA ReadsNextKeeps == ReadsInv /\ [Reads!Next]_(Reads!vars) => ReadsInv'
<1> SUFFICES ASSUME ReadsInv, [Reads!Next]_(Reads!vars) PROVE ReadsInv'
  OBVIOUS
<1> USE DEF ReadsInv
<1>1. CASE Reads!Start
  <2>1. Covered'
    <3>1. steady' = {m \in Masters : masters[m] # None} /\ masters' = masters
      BY <1>1 DEF Reads!Start, Reads!Present
    <3>2. unread' \cup passed' = AllFunds
      <4>1. PICK source \in Reads!FundGroups :
              /\ unread' = source.groups
              /\ passed' = IF source.failed THEN AllFunds \ source.groups ELSE {}
        BY <1>1 DEF Reads!Start
      <4>2. /\ source.groups \subseteq AllFunds
            /\ source.failed \/ source.groups = AllFunds
        BY ReadsAssumption DEF Reads!FundGroups, Reads!Fallbacks, Reads!Source
      <4>3. CASE source.failed
        BY <4>1, <4>2, <4>3
      <4>4. CASE ~source.failed
        BY <4>1, <4>2, <4>4
      <4> QED
        BY <4>3, <4>4
    <3>3. \A m \in steady' : masters[m].group \in AllFunds
      BY <3>1 DEF Reads!Baseline
    <3> QED
      BY <3>1, <3>2, <3>3 DEF Covered
  <2>2. Drawn' /\ IsFiniteSet(got')
    BY <1>1, FS_EmptySet DEF Reads!Start, Drawn
  <2> QED
    BY <1>1, <2>1, <2>2 DEF Reads!Start
<1>2. ASSUME NEW g \in AllFunds, Reads!ReadGroup(g) PROVE ReadsInv'
  <2> DEFINE rows == {RowOf(m) : m \in {m \in Reads!Present : masters[m].group = g}}
  <2>1. /\ unread' = unread \ {g} /\ UNCHANGED <<masters, steady, reply>> /\ reply = None
        /\ \/ got' = got \cup rows /\ passed' = passed
           \/ got' = got /\ passed' = passed \cup {g}
    BY <1>2 DEF Reads!ReadGroup, RowOf
  <2>2. IsFiniteSet(rows)
    BY RowsAreFinite DEF Reads!Present
  <2>3. IsFiniteSet(got')
    BY <2>1, <2>2, FS_Union
  <2>4. Covered'
    <3> SUFFICES ASSUME NEW m \in steady
                 PROVE  masters[m].group \in unread' \cup passed' \/ RowOf(m) \in got'
      BY <2>1 DEF Covered, RowOf, Reads!Row
    <3>1. masters[m].group = g => RowOf(m) \in rows
      BY DEF Covered, Reads!Present
    <3> HIDE DEF rows
    <3> QED
      BY <2>1, <3>1 DEF Covered
  <2>5. Drawn'
    BY <2>1 DEF Drawn
  <2> QED
    BY <2>1, <2>3, <2>4, <2>5
<1>3. ASSUME Reads!ShowList \/ Reads!Undecided \/ Reads!OpenIt PROVE ReadsInv'
  <2>1. UNCHANGED <<masters, steady, ask, got, unread, passed>> /\ unread = {}
    BY <1>3 DEF Reads!ShowList, Reads!Undecided, Reads!OpenIt, Reads!Tell, Reads!Read
  <2>2. Covered'
    BY <2>1 DEF Covered, RowOf, Reads!Row
  <2>3. Reads!Candidates' = Reads!Candidates
    BY <2>1 DEF Reads!Candidates, Reads!Matches
  <2>4. CASE Reads!ShowList
    <3>1. IF got = {} THEN reply' = [kind |-> "none"] ELSE reply' = [kind |-> "list", rows |-> got]
      BY <2>4 DEF Reads!ShowList, Reads!Tell
    <3>2. Drawn'
      BY <2>1, <3>1 DEF Drawn
    <3> QED
      BY <2>1, <2>2, <3>2
  <2>5. CASE Reads!Undecided
    <3>1. \/ got = {} /\ reply' = [kind |-> "none"]
          \/ reply' = [kind |-> "no match"]
          \/ reply' = [kind |-> "which", rows |-> Reads!Candidates]
      BY <2>5 DEF Reads!Undecided, Reads!Tell
    <3>2. /\ reply'.kind \in {"none", "no match", "which"}
          /\ reply'.kind = "none" => got = {}
      <4>1. CASE got = {} /\ reply' = [kind |-> "none"]
        BY <4>1
      <4>2. CASE reply' = [kind |-> "no match"]
        BY <4>2
      <4>3. CASE reply' = [kind |-> "which", rows |-> Reads!Candidates]
        BY <4>3
      <4> QED
        BY <3>1, <4>1, <4>2, <4>3
    <3>3. Drawn'
      BY <2>1, <3>2 DEF Drawn
    <3> QED
      BY <2>1, <2>2, <3>3
  <2>6. CASE Reads!OpenIt
    <3>1. Reads!Target # None /\ \E lines : reply' = [kind |-> "details", row |-> Reads!Target, lines |-> lines]
      BY <2>6 DEF Reads!OpenIt, Reads!Tell
    <3>2. Reads!Candidates' = {Reads!Target}
      BY <2>3, <3>1, TargetIsAlone
    <3> QED
      BY <2>1, <2>2, <3>1, <3>2 DEF Drawn
  <2> QED
    BY <1>3, <2>1, <2>2, <2>4, <2>5, <2>6
<1>4. CASE Reads!Shown
  BY <1>4, FS_EmptySet DEF Reads!Shown, Covered, Drawn
<1>5. ASSUME NEW n \in Masters, Reads!OthersChange(n) PROVE ReadsInv'
  <2>1. UNCHANGED <<ask, got, unread, passed, reply>>
    BY <1>5 DEF Reads!OthersChange, Reads!reading
  <2>2. masters' \in [Masters -> Reads!Baseline \cup {None}] /\ \A m \in Masters \ {n} : masters'[m] = masters[m]
    BY <1>5 DEF Reads!OthersChange, Reads!Baseline
  <2>3. steady' \subseteq steady /\ (masters' = masters \/ n \notin steady')
    BY <1>5 DEF Reads!OthersChange
  <2>4. Covered'
    BY <2>1, <2>2, <2>3 DEF Covered, RowOf, Reads!Row
  <2>5. Drawn'
    BY <2>1 DEF Drawn, Reads!Candidates, Reads!Matches
  <2> QED
    BY <2>1, <2>2, <2>4, <2>5
<1>6. CASE UNCHANGED Reads!vars
  BY <1>6 DEF Reads!vars, Reads!reading, Covered, Drawn, RowOf, Reads!Row, Reads!Candidates, Reads!Matches
<1> QED
  BY <1>1, <1>2, <1>3, <1>4, <1>5, <1>6 DEF Reads!Next

LEMMA ReadsInvariant == Reads!Spec => []ReadsInv
<1>1. Reads!Init => ReadsInv
  BY FS_EmptySet DEF Reads!Init, ReadsInv, Covered, Drawn
<1> QED
  BY <1>1, ReadsNextKeeps, PTL DEF Reads!Spec

\* list_baselines: what the platform had all the while a list was read, in the fund groups
\* that no failed call passed over, is on the list; and baseline_details opens a baseline
\* only if none that was there all the while could have been meant as well.
THEOREM ReadsHold == Reads!Spec => []ReadsAreExact
<1>1. ReadsInv => Reads!ListShowsAll
  BY DEF ReadsInv, Covered, Drawn, RowOf, Reads!ListShowsAll, Reads!Seen
<1>2. ReadsInv => Reads!OpensTheOneMeant
  <2> SUFFICES ASSUME ReadsInv, reply # None, reply.kind = "details"
               PROVE  /\ Reads!Matches(reply.row)
                      /\ \A m \in Reads!Seen : Reads!Matches(RowOf(m)) => m = reply.row.id
    BY DEF Reads!OpensTheOneMeant, RowOf
  <2>1. Reads!Candidates = {reply.row} /\ unread = {}
    BY DEF ReadsInv, Drawn
  <2>2. Reads!Matches(reply.row)
    BY <2>1 DEF Reads!Candidates
  <2>3. ASSUME NEW m \in Reads!Seen, Reads!Matches(RowOf(m)) PROVE m = reply.row.id
    <3>1. RowOf(m) \in Reads!Candidates
      BY <2>1, <2>3 DEF ReadsInv, Covered, Reads!Seen, Reads!Candidates
    <3>2. RowOf(m).id = m
      BY DEF RowOf, Reads!Row
    <3> QED
      BY <2>1, <3>1, <3>2
  <2> QED
    BY <2>2, <2>3
<1>3. ReadsInv => ReadsAreExact
  BY <1>1, <1>2 DEF ReadsAreExact
<1> QED
  BY <1>3, ReadsInvariant, PTL


-----------------------------------------------------------------------------
(* The guided data call (DataCall), for any titles, groups and numbers of  *)
(* calls and cards.  The argument: between a create and its lookup the     *)
(* platform keeps the call, and those after it are of others (Made), so    *)
(* that the newest of its title is that call or one of theirs (Found); and *)
(* the current card asks for what the flow has noted (CurrentAsks), so     *)
(* that its acceptance notes what was confirmed.                           *)

CallTypeOK ==
  /\ calls \in Seq(DataCalls)
  /\ guide \in Guides \cup {None}
  /\ cards \in [Call!Cards -> CallArgs \cup {None}]
  /\ count \in Nat
  /\ lookup \in Titles \cup {None}
  /\ created \in Nat \cup {None}

Made ==
  /\ listed \/ lookup # None => created \in DOMAIN calls
  /\ lookup # None =>
       /\ current = None /\ calls[created].title = lookup
       /\ \A i \in DOMAIN calls : i > created => ~calls[i].own

Found ==
  guide # None =>
    /\ guide.call \in DOMAIN calls /\ guide.scope = calls[guide.call].app
    /\ lookup = None /\ listed /\ guide.call # created =>
         /\ guide.call > created /\ ~calls[guide.call].own
         /\ calls[guide.call].title = calls[created].title

\* What a card of the guidance asks for is what the flow has noted.
Noted(args, g) ==
  /\ args.tool = "saveDataCallDistributions_post" => args.item = g.group
  /\ args.tool = "saveDataCallReminder_post"      => args.item = g.days

CurrentAsks ==
  guide # None /\ current # None =>
    current \in Call!Cards /\ (cards[current] # None => Noted(cards[current], guide))

Recap ==
  /\ guide # None => told = None
  /\ ~crossed => /\ guide # None => guide.added = landed
                 /\ told # None => told = landed

CallInv == CallTypeOK /\ Made /\ Found /\ CurrentAsks /\ Recap

\* The newest of some calls is one of them, and none is newer.
LEMMA NewestIsOne ==
  ASSUME NEW n \in Nat, NEW S \in SUBSET (1 .. n), S # {}
  PROVE  Call!Newest(S) \in S /\ \A j \in S : j <= Call!Newest(S)
<1> DEFINE T == {n - i : i \in S}
<1>1. T \subseteq Nat /\ T # {}
  <2>1. PICK i \in S : TRUE
    OBVIOUS
  <2>2. n - i \in T
    BY <2>1
  <2> QED
    BY <2>2
<1>2. IsWellFoundedOn(OpToRel(<, Nat), Nat)
  BY NatLessThanWellFounded
<1> HIDE DEF T
<1>3. PICK x \in T : \A y \in T : <<y, x>> \notin OpToRel(<, Nat)
  BY <1>1, <1>2, WFMin
<1>4. PICK i \in S : x = n - i
  BY DEF T
<1>5. \A j \in S : j <= i
  <2> TAKE j \in S
  <2>1. n - j \in T /\ n - j \in Nat /\ x \in Nat
    BY <1>1 DEF T
  <2>2. ~ (n - j < x)
    BY <1>3, <2>1 DEF OpToRel
  <2> QED
    BY <1>4, <2>2
<1> QED
  BY <1>4, <1>5 DEF Call!Newest

\* What each kind of card holds.
LEMMA ArgsShape ==
  /\ \A title \in Titles, app \in Apps :
       Call!CreateArgs(title, app) \in CallArgs /\ Call!CreateArgs(title, app).tool = "createDataCalls_post"
  /\ \A i \in Nat, g \in Groups :
       LET args == Call!AddArgs(i, g)
       IN  args \in CallArgs /\ args.tool = "saveDataCallDistributions_post" /\ args.item = g
  /\ \A i \in Nat, d \in Days :
       LET args == Call!AddArgs(i, d)
       IN  args \in CallArgs /\ args.tool = "saveDataCallReminder_post" /\ args.item = d
BY CallAssumption DEF Call!CreateArgs, Call!AddArgs, CallArgs

\* Calls are only added, at most one, at the end.
CallsGrow ==
  /\ calls' \in Seq(DataCalls) /\ DOMAIN calls \subseteq DOMAIN calls'
  /\ \A i \in DOMAIN calls : calls'[i] = calls[i]

\* The platform may store a call.
LEMMA StoreKeeps ==
  ASSUME CallInv, NEW title \in Titles \cup Foreign, NEW app \in Apps, NEW own \in BOOLEAN,
         Call!Store(title, app, own)
  PROVE  /\ CallsGrow
         /\ Len(calls') \in DOMAIN calls' /\ calls'[Len(calls')].title = title
         /\ calls'[Len(calls')].own = own
         /\ \A i \in DOMAIN calls' : i \in Nat /\ i <= Len(calls') /\ (i \in DOMAIN calls \/ i = Len(calls'))
<1> DEFINE new == [title |-> title, app |-> app, own |-> own]
<1>1. new \in DataCalls /\ new.title = title /\ new.own = own
  BY DEF DataCalls
<1>2. calls \in Seq(DataCalls) /\ calls' = Append(calls, new)
  BY DEF CallInv, CallTypeOK, Call!Store
<1> HIDE DEF new
<1>3. /\ calls' \in Seq(DataCalls) /\ Len(calls') = Len(calls) + 1
      /\ \A i \in 1 .. Len(calls) : calls'[i] = calls[i]
      /\ calls'[Len(calls) + 1] = new
  BY <1>1, <1>2
<1>4. DOMAIN calls = 1 .. Len(calls) /\ DOMAIN calls' = 1 .. Len(calls) + 1 /\ Len(calls) \in Nat
  BY <1>2, <1>3
<1> QED
  BY <1>1, <1>3, <1>4 DEF CallsGrow

\* The effect of a card.
LEMMA EffectKeeps ==
  ASSUME CallInv, NEW args \in CallArgs, Call!Effect(args)
  PROVE  /\ CallsGrow
         /\ args.tool = "createDataCalls_post" =>
              /\ args.title \in Titles
              /\ Len(calls') \in DOMAIN calls' /\ calls'[Len(calls')].title = args.title
              /\ \A i \in DOMAIN calls' : i \in Nat /\ i <= Len(calls')
<1>1. CASE args.tool = "createDataCalls_post"
  <2>1. args.title \in Titles /\ args.app \in Apps
    BY <1>1 DEF CallArgs
  <2>2. Call!Store(args.title, args.app, TRUE)
    BY <1>1 DEF Call!Effect
  <2> QED
    BY <2>1, <2>2, StoreKeeps
<1>2. CASE args.tool # "createDataCalls_post"
  BY <1>2 DEF Call!Effect, CallsGrow, CallInv, CallTypeOK
<1> QED
  BY <1>1, <1>2


\* The guidance goes on, or is left, without a card.
LEMMA GuideKeeps ==
  ASSUME CallInv, NEW g \in {None} \cup {[guide EXCEPT !.stage = s] : s \in {"pick_group", "offer_reminder", "pick_days"}},
         g # None => guide # None, Call!Step(g)
  PROVE  CallInv'
<1>1. UNCHANGED <<cards, current, count, lookup, calls, told, landed, crossed, created, listed>> /\ guide' = g
  BY DEF Call!Step, Call!platform, Call!ghosts, Call!recap
<1>2. CASE g = None
  BY <1>1, <1>2 DEF CallInv, CallTypeOK, Made, Found, CurrentAsks, Recap
<1>3. CASE g # None
  <2>1. /\ guide \in Guides /\ guide # None /\ g \in Guides /\ g.call = guide.call /\ g.scope = guide.scope
        /\ g.added = guide.added /\ g.group = guide.group /\ g.days = guide.days
    BY <1>3 DEF CallInv, CallTypeOK, Guides
  <2> QED
    BY <1>1, <2>1 DEF CallInv, CallTypeOK, Made, Found, CurrentAsks, Noted, Recap
<1> QED
  BY <1>2, <1>3

\* A card is armed for what the flow has noted, or outside a flow.
LEMMA ArmsKeep ==
  ASSUME CallInv, NEW args \in CallArgs, NEW g \in Guides \cup {None}, Call!Arm(args, g),
         g # None => /\ guide # None /\ Noted(args, g)
                     /\ g.call = guide.call /\ g.scope = guide.scope /\ g.added = guide.added
  PROVE  CallInv'
<1>1. /\ UNCHANGED <<lookup, calls, told, landed, crossed, created, listed>> /\ guide' = g /\ lookup = None
      /\ cards' = [cards EXCEPT ![count + 1] = args] /\ current' = count + 1 /\ count' = count + 1
      /\ count < CallCards
  BY DEF Call!Arm, Call!platform, Call!ghosts, Call!recap
<1>2. count + 1 \in Call!Cards /\ count + 1 \in Nat
  BY <1>1, CallAssumption DEF Call!Cards, CallInv, CallTypeOK
<1>3. cards'[count + 1] = args
  BY <1>1, <1>2 DEF CallInv, CallTypeOK
<1>4. CallTypeOK'
  BY <1>1, <1>2 DEF CallInv, CallTypeOK
<1>5. Made' /\ Found' /\ Recap'
  BY <1>1 DEF CallInv, Made, Found, Recap
<1>6. CurrentAsks'
  BY <1>1, <1>2, <1>3 DEF CurrentAsks
<1> QED
  BY <1>4, <1>5, <1>6 DEF CallInv

\* A card is answered: no card is current, and calls are only added.
LEMMA SettlesKeep ==
  ASSUME CallInv, NEW c \in Call!Cards, Call!Settle(c), CallsGrow,
         guide' \in Guides \cup {None}, lookup' \in Titles \cup {None}, created' \in Nat \cup {None},
         UNCHANGED <<lookup, created, listed>> \/ (lookup' # None /\ Made'),
         guide' # None => guide # None /\ guide'.call = guide.call /\ guide'.scope = guide.scope,
         Recap'
  PROVE  CallInv'
<1>1. current' = None /\ cards' = [cards EXCEPT ![c] = None] /\ count' = count /\ lookup = None
  BY DEF Call!Settle
<1>2. CallTypeOK'
  BY <1>1 DEF CallInv, CallTypeOK, CallsGrow
<1>3. Made' /\ CurrentAsks'
  BY <1>1 DEF CallInv, CallsGrow, Made, CurrentAsks
<1>4. CASE UNCHANGED <<lookup, created, listed>>
  <2>1. listed => created \in DOMAIN calls
    BY DEF CallInv, Made
  <2>2. Found'
    BY <1>1, <1>4, <2>1 DEF CallInv, Found, CallsGrow
  <2> QED
    BY <1>2, <1>3, <2>2 DEF CallInv
<1>5. CASE lookup' # None
  <2>1. Found'
    BY <1>5 DEF CallInv, Found, CallsGrow
  <2> QED
    BY <1>2, <1>3, <2>1 DEF CallInv
<1> QED
  BY <1>4, <1>5

LEMMA GuidedKeeps == ASSUME CallInv, Call!Guided PROVE CallInv'
<1>1. /\ UNCHANGED <<cards, current, count, calls, created>> /\ lookup # None /\ lookup' = None
      /\ landed' = {} /\ crossed' = FALSE /\ told' = None /\ current = None
  BY DEF Call!Guided, Call!platform, CallInv, Made
<1>2. DOMAIN calls = 1 .. Len(calls) /\ Len(calls) \in Nat /\ calls \in Seq(DataCalls)
  BY DEF CallInv, CallTypeOK
<1>3. /\ created \in DOMAIN calls /\ calls[created].title = lookup
      /\ \A i \in DOMAIN calls : i > created => ~calls[i].own
  BY <1>1 DEF CallInv, Made
<1>4. PICK ids \in Call!Listed : \E id \in Call!CallId(lookup, ids) :
        /\ guide' = IF id = None THEN None
                    ELSE [call |-> id, scope |-> calls[id].app, stage |-> "offer_attendees",
                          added |-> {}, group |-> None, days |-> None]
        /\ listed' = (created \in ids)
  BY DEF Call!Guided
<1>5. PICK id \in Call!CallId(lookup, ids) :
        /\ guide' = IF id = None THEN None
                    ELSE [call |-> id, scope |-> calls[id].app, stage |-> "offer_attendees",
                          added |-> {}, group |-> None, days |-> None]
        /\ listed' = (created \in ids)
  BY <1>4
<1>6. ids \in SUBSET (1 .. Len(calls))
  BY <1>2 DEF Call!Listed
<1>7. Made'
  BY <1>1, <1>3 DEF Made
<1>8. CASE id = None
  BY <1>1, <1>5, <1>7, <1>8 DEF CallInv, CallTypeOK, Found, CurrentAsks, Recap
<1>9. CASE id # None
  <2> DEFINE titled == {i \in ids : calls[i].title = lookup}
             meant  == IF titled = {} THEN ids ELSE titled
  <2>1. ids # {} /\ id = Call!Newest(meant)
    BY <1>9 DEF Call!CallId
  <2>2. meant \in SUBSET (1 .. Len(calls)) /\ meant # {}
    BY <1>6, <2>1
  <2>3. created \in ids => created \in meant /\ \A i \in meant : calls[i].title = lookup
    BY <1>3
  <2> HIDE DEF meant
  <2>4. id \in meant /\ \A j \in meant : j <= id
    BY <1>2, <2>1, <2>2, NewestIsOne
  <2>5. id \in DOMAIN calls /\ id \in Nat /\ calls[id] \in DataCalls /\ calls[id].app \in Apps
    <3>1. id \in 1 .. Len(calls) /\ calls[id] \in DataCalls
      BY <1>2, <2>2, <2>4
    <3>2. calls[id].app \in Apps
      BY <3>1 DEF DataCalls
    <3> QED
      BY <1>2, <3>1, <3>2
  <2>6. created \in ids /\ id # created =>
          id > created /\ ~calls[id].own /\ calls[id].title = calls[created].title
    <3>1. created \in Nat /\ id \in Nat
      BY <1>2, <1>3, <2>5
    <3> QED
      BY <1>3, <2>3, <2>4, <2>5, <3>1
  <2>7. /\ guide' \in Guides /\ guide'.call = id /\ guide'.scope = calls[id].app /\ guide'.added = {}
    BY <1>5, <1>9, <2>5 DEF Guides
  <2>8. Found'
    BY <1>1, <1>5, <2>5, <2>6, <2>7 DEF Found
  <2> QED
    BY <1>1, <1>7, <2>7, <2>8 DEF CallInv, CallTypeOK, CurrentAsks, Recap
<1> QED
  BY <1>8, <1>9

LEMMA AcceptAddKeeps == ASSUME CallInv, NEW c \in Call!Cards, Call!AcceptAdd(c) PROVE CallInv'
<1> DEFINE args == cards[c]
<1>1. /\ Call!Settle(c) /\ args \in CallArgs /\ args.tool # "createDataCalls_post" /\ Call!Effect(args)
      /\ UNCHANGED <<lookup, created, listed>> /\ lookup = None
      /\ lookup' \in Titles \cup {None} /\ created' \in Nat \cup {None}
  BY DEF Call!AcceptAdd, Call!Settle, CallInv, CallTypeOK
<1>2. CallsGrow
  BY <1>1, EffectKeeps
<1>3. CASE guide = None
  BY <1>1, <1>2, <1>3, SettlesKeep DEF Call!AcceptAdd, Call!ghosts, Call!recap, Recap, CallInv
<1>4. CASE guide # None
  <2>1. guide \in Guides /\ told = None
    BY <1>4 DEF CallInv, CallTypeOK, Recap
  <2>2. landed' = landed \cup {args.item} /\ crossed' = (crossed \/ c # current)
    BY <1>4 DEF Call!AcceptAdd
  <2>3. ~crossed' => guide.added = landed /\ Noted(args, guide)
    <3>1. c # None
      BY CallAssumption DEF Call!Cards
    <3>2. c # current \/ current # None
      BY <3>1
    <3> QED
      BY <1>1, <1>4, <2>2, <3>2, CallAssumption DEF CallInv, Recap, CurrentAsks
  <2>4. args.item \in Groups \cup Days /\ args.item # None
    BY <1>1, CallAssumption DEF CallArgs
  <2>5. CASE args.tool = "saveDataCallDistributions_post"
    <3>1. guide' = [guide EXCEPT !.stage = "offer_reminder", !.group = None,
                                 !.added = @ \cup ({guide.group} \ {None})] /\ told' = told
      BY <1>4, <2>5 DEF Call!AcceptAdd
    <3>2. /\ guide' \in Guides /\ guide'.call = guide.call /\ guide'.scope = guide.scope
          /\ guide'.added = guide.added \cup ({guide.group} \ {None})
      BY <2>1, <3>1 DEF Guides
    <3>3. Recap'
      BY <2>1, <2>2, <2>3, <2>4, <2>5, <3>1, <3>2 DEF Recap, Noted
    <3> QED
      BY <1>1, <1>2, <1>4, <3>2, <3>3, SettlesKeep
  <2>6. CASE args.tool # "saveDataCallDistributions_post"
    <3>1. guide' = None /\ told' = guide.added \cup ({guide.days} \ {None})
      BY <1>4, <2>6 DEF Call!AcceptAdd, Call!Finish
    <3>2. args.tool = "saveDataCallReminder_post"
      BY <1>1, <2>6 DEF CallArgs
    <3>3. Recap'
      BY <2>2, <2>3, <2>4, <3>1, <3>2 DEF Recap, Noted
    <3> QED
      BY <1>1, <1>2, <3>1, <3>3, SettlesKeep
  <2> QED
    BY <2>5, <2>6
<1> QED
  BY <1>3, <1>4

\* A card is declined, refused, or creates a call.
LEMMA AnswersKeep ==
  ASSUME CallInv, NEW c \in Call!Cards, Call!Decline(c) \/ Call!Refused(c) \/ Call!AcceptCreate(c)
  PROVE  CallInv'
<1>1. Call!Settle(c) /\ cards[c] \in CallArgs /\ lookup = None
  BY DEF Call!Decline, Call!Refused, Call!AcceptCreate, Call!Settle, CallInv, CallTypeOK
<1>2. UNCHANGED calls => CallsGrow
  BY DEF CallsGrow, CallInv, CallTypeOK
<1>3. CASE Call!Decline(c)
  <2>1. /\ UNCHANGED <<lookup, calls, landed, crossed, created, listed>>
        /\ lookup' \in Titles \cup {None} /\ created' \in Nat \cup {None}
    BY <1>3 DEF Call!Decline, Call!platform, CallInv, CallTypeOK
  <2>2. CASE guide = None
    <3>1. guide' = None /\ told' = told
      BY <1>3, <2>2 DEF Call!Decline, Call!At
    <3>2. Recap'
      BY <2>1, <2>2, <3>1 DEF CallInv, Recap
    <3> QED
      BY <1>1, <1>2, <2>1, <3>1, <3>2, SettlesKeep
  <2>3. CASE guide # None /\ guide.stage = "pick_group"
    <3>1. guide' = [guide EXCEPT !.stage = "offer_reminder", !.group = None, !.days = None] /\ told' = told
      BY <1>3, <2>3 DEF Call!Decline, Call!At
    <3>2. /\ guide' \in Guides /\ guide'.call = guide.call /\ guide'.scope = guide.scope
          /\ guide'.added = guide.added
      BY <2>3, <3>1 DEF CallInv, CallTypeOK, Guides
    <3>3. Recap'
      BY <2>1, <2>3, <3>1, <3>2 DEF CallInv, Recap
    <3> QED
      BY <1>1, <1>2, <2>1, <2>3, <3>2, <3>3, SettlesKeep
  <2>4. CASE guide # None /\ guide.stage # "pick_group"
    <3>1. guide' = None /\ told' = guide.added
      BY <1>3, <2>4 DEF Call!Decline, Call!At, Call!Finish
    <3>2. Recap'
      BY <2>1, <2>4, <3>1 DEF CallInv, Recap
    <3> QED
      BY <1>1, <1>2, <2>1, <3>1, <3>2, SettlesKeep
  <2> QED
    BY <2>2, <2>3, <2>4
<1>4. CASE Call!Refused(c)
  <2>1. CallsGrow
    BY <1>1, <1>2, <1>4, EffectKeeps DEF Call!Refused, Call!platform
  <2>2. UNCHANGED <<guide, lookup, told, landed, crossed, created, listed>>
    BY <1>4 DEF Call!Refused, Call!ghosts, Call!recap
  <2>3. /\ Recap' /\ guide' \in Guides \cup {None} /\ lookup' \in Titles \cup {None}
        /\ created' \in Nat \cup {None}
    BY <2>2 DEF CallInv, CallTypeOK, Recap
  <2> QED
    BY <1>1, <2>1, <2>2, <2>3, SettlesKeep
<1>5. CASE Call!AcceptCreate(c)
  <2>1. /\ Call!Effect(cards[c]) /\ cards[c].tool = "createDataCalls_post" /\ lookup' = cards[c].title
        /\ created' = Len(calls') /\ UNCHANGED <<guide, told, landed, crossed, listed>>
    BY <1>5 DEF Call!AcceptCreate, Call!recap
  <2>2. /\ CallsGrow /\ lookup' \in Titles
        /\ created' \in DOMAIN calls' /\ calls'[created'].title = lookup'
        /\ \A i \in DOMAIN calls' : i \in Nat /\ i <= created'
    BY <1>1, <2>1, EffectKeeps
  <2>3. created' \in Nat /\ \A i \in DOMAIN calls' : ~(i > created')
    BY <2>2
  <2>4. Recap' /\ guide' \in Guides \cup {None}
    BY <2>1 DEF CallInv, CallTypeOK, Recap
  <2>5. lookup' # None /\ current' = None
    BY <1>1, <2>2, CallAssumption DEF Call!Settle
  <2>6. Made'
    BY <2>2, <2>3, <2>5 DEF Made
  <2> QED
    BY <1>1, <2>1, <2>2, <2>3, <2>4, <2>5, <2>6, SettlesKeep
<1> QED
  BY <1>3, <1>4, <1>5


LEMMA CallNextKeeps == CallInv /\ [Call!Next]_(Call!vars) => CallInv'
<1> SUFFICES ASSUME CallInv, [Call!Next]_(Call!vars) PROVE CallInv'
  OBVIOUS
<1>1. CASE Call!ModelCard
  <2>1. \A i \in DOMAIN calls : i \in Nat
    BY DEF CallInv, CallTypeOK
  <2>2. \E args \in CallArgs : Call!Arm(args, None)
    BY <1>1, <2>1, ArgsShape DEF Call!ModelCard
  <2> QED
    BY <2>2, ArmsKeep
<1>2. ASSUME Call!BreakOut \/ Call!OfferAttendees \/ Call!SkipAttendees \/ Call!OfferReminder PROVE CallInv'
  <2>1. guide # None /\ \/ Call!Step(None)
                        \/ \E s \in {"pick_group", "offer_reminder", "pick_days"} :
                             Call!Step([guide EXCEPT !.stage = s])
    BY <1>2 DEF Call!BreakOut, Call!OfferAttendees, Call!SkipAttendees, Call!OfferReminder, Call!At
  <2> QED
    BY <2>1, GuideKeeps
<1>3. CASE Call!Cancel
  BY <1>3 DEF Call!Cancel, Call!platform, Call!ghosts, Call!recap, CallInv, CallTypeOK, Made, Found, CurrentAsks, Recap
<1>4. CASE Call!OthersCreate
  <2>1. PICK title \in Foreign, app \in Apps : Call!Store(title, app, FALSE)
    BY <1>4 DEF Call!OthersCreate
  <2>2. UNCHANGED <<guide, cards, current, count, lookup, told, landed, crossed, created, listed>>
    BY <1>4 DEF Call!OthersCreate, Call!session, Call!ghosts, Call!recap
  <2>3. /\ CallsGrow /\ ~calls'[Len(calls')].own
        /\ \A i \in DOMAIN calls' : i \in DOMAIN calls \/ i = Len(calls')
    BY <2>1, StoreKeeps
  <2>4. Made'
    BY <2>2, <2>3 DEF CallsGrow, CallInv, Made
  <2>5. Found'
    <3>1. listed /\ lookup = None => created \in DOMAIN calls
      BY DEF CallInv, Made
    <3> QED
      BY <2>2, <2>3, <3>1 DEF CallsGrow, CallInv, Found
  <2> QED
    BY <2>2, <2>3, <2>4, <2>5 DEF CallsGrow, CallInv, CallTypeOK, CurrentAsks, Recap
<1>5. CASE Call!Guided
  BY <1>5, GuidedKeeps
<1>6. CASE Call!PickGroup
  <2>1. PICK g \in Groups : Call!Arm(Call!AddArgs(guide.call, g), [guide EXCEPT !.group = g])
    BY <1>6 DEF Call!PickGroup, Call!DistGroups
  <2> DEFINE args == Call!AddArgs(guide.call, g)
             new  == [guide EXCEPT !.group = g]
  <2>2. guide # None /\ guide \in Guides
    BY <1>6 DEF Call!PickGroup, Call!At, CallInv, CallTypeOK
  <2>3. /\ new \in Guides /\ new.group = g
        /\ new.call = guide.call /\ new.scope = guide.scope /\ new.added = guide.added
    BY <2>2 DEF Guides
  <2>4. args \in CallArgs /\ args.tool = "saveDataCallDistributions_post" /\ args.item = g
    BY <2>2, ArgsShape DEF Guides
  <2> HIDE DEF args, new
  <2>5. Call!Arm(args, new) /\ Noted(args, new)
    BY <2>1, <2>3, <2>4 DEF args, new, Noted
  <2> QED
    BY <2>2, <2>3, <2>4, <2>5, ArmsKeep
<1>7. CASE Call!PickDays
  <2>1. PICK d \in Days : Call!Arm(Call!AddArgs(guide.call, d), [guide EXCEPT !.days = d])
    BY <1>7 DEF Call!PickDays
  <2> DEFINE args == Call!AddArgs(guide.call, d)
             new  == [guide EXCEPT !.days = d]
  <2>2. guide # None /\ guide \in Guides
    BY <1>7 DEF Call!PickDays, Call!At, CallInv, CallTypeOK
  <2>3. /\ new \in Guides /\ new.days = d
        /\ new.call = guide.call /\ new.scope = guide.scope /\ new.added = guide.added
    BY <2>2 DEF Guides
  <2>4. args \in CallArgs /\ args.tool = "saveDataCallReminder_post" /\ args.item = d
    BY <2>2, ArgsShape DEF Guides
  <2> HIDE DEF args, new
  <2>5. Call!Arm(args, new) /\ Noted(args, new)
    BY <2>1, <2>3, <2>4 DEF args, new, Noted
  <2> QED
    BY <2>2, <2>3, <2>4, <2>5, ArmsKeep
<1>8. CASE Call!SkipReminder
  <2>1. /\ UNCHANGED <<cards, current, count, lookup, calls, landed, crossed, created, listed>>
        /\ guide # None /\ guide' = None /\ told' = guide.added
    BY <1>8 DEF Call!SkipReminder, Call!platform, Call!Finish, Call!At
  <2> QED
    BY <2>1 DEF CallInv, CallTypeOK, Made, Found, CurrentAsks, Recap
<1>9. ASSUME NEW c \in Call!Cards,
             Call!Decline(c) \/ Call!Refused(c) \/ Call!AcceptCreate(c) \/ Call!AcceptAdd(c)
      PROVE  CallInv'
  BY <1>9, AnswersKeep, AcceptAddKeeps
<1>10. CASE UNCHANGED Call!vars
  BY <1>10 DEF Call!vars, Call!session, Call!platform, Call!ghosts, Call!recap,
               CallInv, CallTypeOK, Made, Found, CurrentAsks, Recap
<1> QED
  BY <1>1, <1>2, <1>3, <1>4, <1>5, <1>6, <1>7, <1>8, <1>9, <1>10 DEF Call!Next

LEMMA CallInvariant == Call!Spec => []CallInv
<1>1. Call!Init => CallInv
  BY DEF Call!Init, CallInv, CallTypeOK, Made, Found, CurrentAsks, Recap
<1> QED
  BY <1>1, CallNextKeeps, PTL DEF Call!Spec

\* fetch_data_call_id and the recap of _dc_finish: whatever others create, under whatever titles,
\* and whichever cards are declined, refused or lost, the guidance is of the call that was just
\* created, unless the list did not have it or a later one of somebody else's has its title; and
\* while the card that is shown is the one answered it tells what was confirmed, no more or less.
THEOREM GuidanceHolds == Call!Spec => []CallIsFoundAndTold
<1>1. CallInv => CallIsFoundAndTold
  BY DEF CallInv, Found, Recap, CallIsFoundAndTold, Call!GuidesTheCreated, Call!RecapIsTrue
<1> QED
  BY <1>1, CallInvariant, PTL

=============================================================================
