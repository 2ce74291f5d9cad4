----------------------------- MODULE BaselineFlow -----------------------------
(***************************************************************************)
(* The guided flow that generates a budget baseline (services/flows.py):   *)
(* a picker engine that asks a list of fields one by one, resolves some    *)
(* without asking, reviews them, and hands ONE mutation to the confirm     *)
(* step, which may send it back to the review.                             *)
(*                                                                         *)
(* A turn and a confirm are one step each (ChatSession has their           *)
(* interleavings).  Of BASELINE_STEPS the module keeps the fields that are *)
(* treated alike by no other: the target year stands for both fiscal years *)
(* and one flag for the description, the quarter and the four flags.       *)
(***************************************************************************)
EXTENDS Naturals

CONSTANTS
  Titles, Years,     \* baseline titles; fiscal years
  Rules,             \* business rule groups
  Funds, Offices,    \* fund groups; program offices, each of one fund group
  Types, Vehicles,   \* request types; acquisition vehicles, each of one request type
  FundOf, TypeOf,    \* the platform's relations between them
  Faults,            \* which of "fetch_fails", "rejected" may happen
  MaxCards,          \* bound: cards armed in one behaviour
  None               \* absence: no flow, no card, no value

ASSUME BaselineAssumption ==
  /\ FundOf \in [Offices -> Funds]
  /\ TypeOf \in [Vehicles -> Types]
  /\ Faults \subseteq {"fetch_fails", "rejected"}
  /\ MaxCards \in Nat
  /\ None \notin Titles \cup Years \cup Funds \cup {"given"}

VARIABLES
  flow,   \* session.metadata["flow"]
  pend,   \* session.metadata["pending_actions"]: the arguments of each waiting card
  cur,    \* session.pending_action_id
  armed,  \* cards armed so far
  made    \* the arguments of the generates that took effect, by card

vars == <<flow, pend, cur, armed, made>>

-----------------------------------------------------------------------------
Cards == 1 .. MaxCards

\* BASELINE_STEPS, in order.
Steps == <<"baselineTitle", "fiscalYear", "fundGroupId", "businessRuleGroups", "orgIds",
           "requestTypes", "acquisitionVehicles", "isTargetApplicable">>
Fields == {Steps[i] : i \in 1 .. 8}

\* What the steps collect, with BASELINE_DEFAULTS for what was not answered.
Data == [baselineTitle       : Titles \cup {None},
         fiscalYear          : Years \cup {None},
         fundGroupId         : Funds \cup {None},
         businessRuleGroups  : SUBSET Rules,
         orgIds              : SUBSET Offices,
         requestTypes        : SUBSET Types,      \* {}: all of them
         acquisitionVehicles : SUBSET Vehicles,   \* {}: all of them
         isTargetApplicable  : {"given", None}]

NoData == [baselineTitle |-> None, fiscalYear |-> None, fundGroupId |-> None,
           businessRuleGroups |-> {}, orgIds |-> {}, requestTypes |-> {},
           acquisitionVehicles |-> {}, isTargetApplicable |-> None]

Flow == [stage : {"collect", "confirm"}, idx : 1 .. 8, data : Data,
         asked   : SUBSET Fields,                              \* the keys of flow["labels"]
         buf     : SUBSET (Rules \cup Offices \cup Types \cup Vehicles),
         editing : BOOLEAN]

ASSUME RecordsAssumption == None \notin Data \cup Flow

TypeOK ==
  /\ flow \in Flow \cup {None}
  /\ armed \in 0 .. MaxCards
  /\ pend \in [Cards -> Data \cup {None}]
  /\ cur \in Cards \cup {None}
  /\ made \in [Cards -> Data \cup {None}]

Init ==
  /\ flow = None
  /\ pend = [c \in Cards |-> None]
  /\ cur = None
  /\ armed = 0
  /\ made = [c \in Cards |-> None]

-----------------------------------------------------------------------------
(* The options of a step, as one fetch may return them.                    *)

Offered(field, d) ==
  CASE field = "fiscalYear"          -> Years
    [] field = "fundGroupId"         -> Funds
    [] field = "businessRuleGroups"  -> Rules
    [] field = "orgIds"              -> {o \in Offices : d.fundGroupId \in {None, FundOf[o]}}
    [] field = "requestTypes"        -> Types
    [] field = "acquisitionVehicles" -> {v \in Vehicles : d.requestTypes = {} \/ TypeOf[v] \in d.requestTypes}
    [] OTHER                         -> {}

\* _fetch_options swallows every error and returns no option.
Fetched(field, d) == {Offered(field, d)} \cup (IF "fetch_fails" \in Faults THEN {{}} ELSE {})

Single == {"fiscalYear", "fundGroupId"}
Multi  == {"businessRuleGroups", "orgIds", "requestTypes", "acquisitionVehicles"}

\* "All" of program offices is every office by name, of the others the empty list.
All(field, options) == IF field = "orgIds" THEN options ELSE {}

-----------------------------------------------------------------------------
(* Moving on.                                                              *)

Prompt(f) == flow' = f /\ UNCHANGED <<pend, cur, armed, made>>

\* _arm_flow_pending with the payload of f.
Arm(f, waiting) ==
  /\ armed < MaxCards
  /\ armed' = armed + 1
  /\ pend' = [waiting EXCEPT ![armed + 1] = f.data]
  /\ cur' = armed + 1
  /\ flow' = f

\* The titles the platform lists for the fund group; unreadable means none.
TakenTitles(d) ==
  {{made[c].baselineTitle : c \in {x \in Cards : made[x] # None /\ made[x].fundGroupId = d.fundGroupId}}}
    \cup (IF "fetch_fails" \in Faults \/ d.fundGroupId = None THEN {{}} ELSE {})

\* _baseline_finalize: a taken title re-opens the title step, otherwise the card is armed.
Finalize(f) ==
  \E taken \in TakenTitles(f.data) :
    IF f.data.baselineTitle \in taken
    THEN Prompt([f EXCEPT !.stage = "collect", !.idx = 1, !.buf = {}, !.editing = TRUE])
    ELSE Arm([f EXCEPT !.stage = "confirm"], pend) /\ UNCHANGED made

\* The step after i is asked, resolved without asking, or there is none.
GoTo(f, i) ==
  LET g == [f EXCEPT !.idx = i]
  IN  CASE i > 8 -> Finalize(f)
        [] i <= 8 /\ Steps[i] = "fundGroupId" ->
             \E options \in Fetched("fundGroupId", f.data) :
               Prompt(IF \E x \in options : options = {x}     \* the sole option is picked
                      THEN [f EXCEPT !.idx = i + 1, !.asked = @ \cup {Steps[i]},
                                     !.data.fundGroupId = CHOOSE x \in options : TRUE]
                      ELSE g)
        [] i <= 8 /\ Steps[i] = "acquisitionVehicles" /\ f.data.requestTypes = {} ->
             Prompt([f EXCEPT !.idx = i + 1, !.asked = @ \cup {Steps[i]},
                              !.data.acquisitionVehicles = {}])
        [] OTHER -> Prompt(g)

\* _advance_baseline, after the step of f stored the value v.
Advance(f, v) ==
  LET g == [f EXCEPT !.data[Steps[f.idx]] = v, !.asked = @ \cup {Steps[f.idx]}, !.buf = {}]
  IN  IF f.editing THEN Finalize([g EXCEPT !.editing = FALSE]) ELSE GoTo(g, f.idx + 1)

-----------------------------------------------------------------------------
(* Turns.  A message that only repeats the question is a stutter.          *)

Collecting == flow # None /\ flow.stage = "collect"
Field      == Steps[flow.idx]

\* start_formulation_baseline
Open ==
  /\ flow = None
  /\ Prompt([stage |-> "collect", idx |-> 1, data |-> NoData, asked |-> {}, buf |-> {},
             editing |-> FALSE])

\* A question or another command abandons the flow; its card stays in the session.
BreakOut ==
  /\ flow # None
  /\ Prompt(None)

\* _cancel_flow, at any stage.
Cancel ==
  /\ flow # None
  /\ flow' = None
  /\ cur' = None
  /\ pend' = [c \in Cards |-> None]
  /\ UNCHANGED <<armed, made>>

\* Free text and fixed choices.
AnswerPlain ==
  /\ Collecting
  /\ \/ Field = "baselineTitle" /\ \E v \in Titles : Advance(flow, v)
     \/ Field = "isTargetApplicable" /\ Advance(flow, "given")

\* A fetched single choice, matched against a fresh fetch.
AnswerFetched ==
  /\ Collecting
  /\ Field \in Single
  /\ \E options \in Fetched(Field, flow.data) : \E v \in options : Advance(flow, v)

\* One more selection of a multi-select step.
PickOne ==
  /\ Collecting
  /\ Field \in Multi
  /\ \E options \in Fetched(Field, flow.data) : \E v \in options \ flow.buf :
       Prompt([flow EXCEPT !.buf = @ \cup {v}])

\* "Done": what was picked.
FinishPicking ==
  /\ Collecting
  /\ Field \in Multi
  /\ flow.buf # {}
  /\ Advance(flow, flow.buf)

\* "All", or "done" with nothing picked, where the step is optional.
PickAll ==
  /\ Collecting
  /\ Field \in Multi \ {"businessRuleGroups"}
  /\ \E options \in Fetched(Field, flow.data) : Advance(flow, All(Field, options))

\* Mutant of Edit: the flow goes on with the questions after the edited one.
EditAndGoOn ==
  /\ flow # None
  /\ flow.stage = "confirm"
  /\ \E i \in 1 .. 8 : Prompt([flow EXCEPT !.stage = "collect", !.idx = i, !.buf = {}])

\* The review re-opens one field.
Edit ==
  /\ flow # None
  /\ flow.stage = "confirm"
  /\ \E i \in 1 .. 8 :
       Prompt([flow EXCEPT !.stage = "collect", !.idx = i, !.buf = {}, !.editing = TRUE])

-----------------------------------------------------------------------------
(* Confirm requests: any card still in the session may be answered.        *)

Without(c) == [pend EXCEPT ![c] = None]

\* on_decline ends the flow.
Decline(c) ==
  /\ pend[c] # None
  /\ pend' = Without(c)
  /\ cur' = None
  /\ flow' = None
  /\ UNCHANGED <<armed, made>>

\* The platform refuses an empty office list, and a second baseline of a year and fund group.
Feasible(d) ==
  /\ d.orgIds # {}
  /\ \A x \in Cards : made[x] # None =>
       made[x].fiscalYear # d.fiscalYear \/ made[x].fundGroupId # d.fundGroupId

\* baseline_after_generate ends the flow, whichever baseline it was collecting.
Accept(c) ==
  /\ pend[c] # None
  /\ Feasible(pend[c])
  /\ made' = [made EXCEPT ![c] = pend[c]]
  /\ pend' = Without(c)
  /\ cur' = None
  /\ flow' = None
  /\ UNCHANGED armed

\* baseline_after_failed_generate: whatever the active flow was doing, it is back at the
\* review with a new card made of what IT has collected.
Reject(c) ==
  /\ "rejected" \in Faults
  /\ pend[c] # None
  /\ \/ made' = made
     \/ Feasible(pend[c]) /\ made' = [made EXCEPT ![c] = pend[c]]   \* a timeout
  /\ IF flow = None
     THEN /\ pend' = Without(c)
          /\ cur' = None
          /\ UNCHANGED <<flow, armed>>
     ELSE Arm([flow EXCEPT !.stage = "confirm", !.editing = FALSE], Without(c))

Next ==
  \/ Open \/ BreakOut \/ Cancel
  \/ AnswerPlain \/ AnswerFetched \/ PickOne \/ FinishPicking \/ PickAll \/ Edit
  \/ \E c \in Cards : Decline(c) \/ Accept(c) \/ Reject(c)

Spec == Init /\ [][Next]_vars

-----------------------------------------------------------------------------
(* Properties.                                                             *)

\* Each question is asked in its turn and none is passed over: outside an edit every
\* step before the current one has its answer, those resolved without asking included.
NothingPassedOver ==
  Collecting /\ ~flow.editing => \A i \in 1 .. (flow.idx - 1) : Steps[i] \in flow.asked

\* "review the details above ... then Confirm": the current card carries exactly what the
\* review shows, after edits, renamed titles and rejected generates too.
CardIsWhatWasReviewed ==
  flow # None /\ flow.stage = "confirm" /\ cur # None => pend[cur] = flow.data

Complete(d) ==
  /\ d.baselineTitle # None /\ d.fiscalYear # None /\ d.fundGroupId # None
  /\ d.isTargetApplicable # None
  /\ d.businessRuleGroups # {}

\* The mandatory steps: a review that shows an answer to every question shows each
\* mandatory field filled, however the answers came about.
ReviewIsComplete ==
  flow # None /\ flow.stage = "confirm" /\ flow.asked = Fields => Complete(flow.data)

\* _advance_baseline and baseline_after_generate: no question is passed over, a review has
\* every mandatory field, and the current card is what the review shows.
ReviewIsWhole == NothingPassedOver /\ ReviewIsComplete /\ CardIsWhatWasReviewed

\* BASELINE_DEFAULTS: "a baseline must be scoped to a real fund group, and the flow blocks
\* rather than send a blank".
FundNeverBlank == \A c \in Cards : pend[c] # None => pend[c].fundGroupId # None

\* PickerStep: "program offices scoped to the picked fund group".
OfficesInFundGroup ==
  \A c \in Cards : pend[c] # None =>
    \A o \in pend[c].orgIds : pend[c].fundGroupId \in {None, FundOf[o]}

\* _baseline_finalize: "we enforce unique titles here, scoped to the fund group".
TitlesUnique ==
  \A c, d \in Cards :
    /\ made[c] # None /\ made[d] # None
    /\ made[c].baselineTitle = made[d].baselineTitle
    /\ made[c].fundGroupId = made[d].fundGroupId
    => c = d

\* PickerStep: "All" offices are "the EXPLICIT list of every option value (not an empty
\* list)", which the platform rejects.
OfficesExplicit == \A c \in Cards : pend[c] # None => pend[c].orgIds # {}
====
