------------------------------- MODULE DataCall -------------------------------
(***************************************************************************)
(* The guided flow of a formulation data call (services/flows.py): a call  *)
(* the user created is looked up again to learn its id, which the platform *)
(* does not return, and the user is then led through adding attendees and  *)
(* a reminder, each by a card of its own.                                  *)
(*                                                                         *)
(* A turn and a confirm are one step each, as in BaselineFlow; any card    *)
(* that waits in the session may be answered.  All calls are of one fiscal *)
(* year.  Somebody else may create one between a create and its lookup,    *)
(* under the same title too, and the list may not have the newest rows yet.*)
(***************************************************************************)
EXTENDS Naturals, Sequences

CONSTANTS
  Titles,     \* what this user calls data calls
  Foreign,    \* what others call theirs, the same perhaps
  Groups,     \* distribution groups, of both applications
  AppOf,      \* the application of each group
  Apps,       \* the applications a data call may be for
  Days,       \* the offered numbers of days
  MaxCalls,   \* bound: calls the platform holds
  MaxCards,   \* bound: cards armed in one behaviour
  Faults,     \* which of "lists_fail", "lists_lag", "times_out" may happen
  None        \* absence: no flow, no card, no group

VARIABLES
  guide,    \* session.metadata["flow"], when it is a data_call flow
  cards,    \* session.metadata["pending_actions"], by the order they were armed in
  current,  \* session.pending_action_id
  count,    \* cards armed so far
  lookup,   \* the title a confirm is looking up, between its create and its answer
  calls,    \* the platform's data calls, their position being their dataCallId
  saved,    \* its distributions and reminders: <<dataCallId, what>>
  told,     \* the recap of the last guidance that finished
  landed,   \* what was confirmed since the guidance began
  crossed,  \* TRUE once a card other than the current one was accepted in it
  created,  \* the call the last confirm that was answered made
  listed    \* whether the list of its lookup had it

session  == <<guide, cards, current, count>>
platform == <<calls, saved>>
recap    == <<told, landed, crossed>>
ghosts   == <<recap, created, listed>>
vars     == <<session, lookup, platform, ghosts>>

-----------------------------------------------------------------------------
Cards == 1 .. MaxCards
CreateArgs(title, app) == [tool |-> "createDataCalls_post", title |-> title, app |-> app]
AddArgs(call, item) ==
  [tool |-> IF item \in Groups THEN "saveDataCallDistributions_post" ELSE "saveDataCallReminder_post",
   call |-> call, item |-> item]

Init ==
  /\ guide = None
  /\ cards = [c \in Cards |-> None]
  /\ current = None
  /\ count = 0
  /\ lookup = None
  /\ calls = <<>>
  /\ saved = {}
  /\ told = None
  /\ landed = {}
  /\ crossed = FALSE
  /\ created = None
  /\ listed = FALSE

\* A turn that only moves the flow.
Step(g) ==
  /\ lookup = None
  /\ guide' = g
  /\ UNCHANGED <<cards, current, count, lookup, platform, ghosts>>

\* _arm_flow_pending
Arm(args, g) ==
  /\ lookup = None
  /\ count < MaxCards
  /\ count' = count + 1
  /\ cards' = [cards EXCEPT ![count + 1] = args]
  /\ current' = count + 1
  /\ guide' = g
  /\ UNCHANGED <<lookup, platform, ghosts>>

\* _dc_finish: the recap lists what the flow has noted.
Finish(added) == guide' = None /\ told' = added

-----------------------------------------------------------------------------
(* Reads.                                                                  *)

\* _dist_groups: those of the call's application, all of them where it has none.
DistGroups(scope) ==
  LET scoped == {g \in Groups : AppOf[g] = scope}
  IN  {IF scoped = {} THEN Groups ELSE scoped}
      \cup (IF "lists_fail" \in Faults THEN {{}} ELSE {})

Newest(ids) == CHOOSE i \in ids : \A j \in ids : j <= i

\* dataCallsByFiscalYear_get: the calls of the year, but perhaps not the newest.
Listed == {DOMAIN calls}
          \cup (IF "lists_lag" \in Faults THEN {1 .. n : n \in 0 .. Len(calls)} ELSE {})

\* Mutant of CallId: the newest call of the year, whatever its title.
CallIdNewest(title, ids) == IF ids = {} THEN {None} ELSE {Newest(ids)}

\* fetch_data_call_id: the newest call of this title, else the newest of the year; an
\* error, or an empty list, is no id at all.
CallId(title, ids) ==
  LET titled == {i \in ids : calls[i].title = title}
  IN  (IF ids = {} THEN {None} ELSE {Newest(IF titled = {} THEN ids ELSE titled)})
      \cup (IF "lists_fail" \in Faults THEN {None} ELSE {})

-----------------------------------------------------------------------------
(* Turns.  A message that only repeats the question is a stutter.          *)

At(stage) == guide # None /\ guide.stage = stage

\* A card of the model's, outside any flow: a data call to create, or attendees of one.
ModelCard ==
  /\ guide = None
  /\ \/ \E title \in Titles, app \in Apps : Arm(CreateArgs(title, app), None)
     \/ \E i \in DOMAIN calls, g \in Groups : calls[i].own /\ Arm(AddArgs(i, g), None)

\* A question or another command ends the guidance; its cards stay in the session.
BreakOut == guide # None /\ Step(None)

\* _cancel_flow
Cancel ==
  /\ guide # None
  /\ lookup = None
  /\ guide' = None
  /\ cards' = [c \in Cards |-> None]
  /\ current' = None
  /\ UNCHANGED <<count, lookup, platform, ghosts>>

\* "Would you like to add attendees?"
OfferAttendees ==
  /\ At("offer_attendees")
  /\ \E stage \in {"pick_group", "offer_reminder"} : Step([guide EXCEPT !.stage = stage])

\* A group that the fresh list has gets its card; the stage stays, so another may be named.
PickGroup ==
  /\ At("pick_group")
  /\ \E groups \in DistGroups(guide.scope) : \E g \in groups :
       Arm(AddArgs(guide.call, g), [guide EXCEPT !.group = g])

SkipAttendees == At("pick_group") /\ Step([guide EXCEPT !.stage = "offer_reminder"])

\* "Would you like to schedule a reminder?"
OfferReminder == At("offer_reminder") /\ Step([guide EXCEPT !.stage = "pick_days"])

PickDays ==
  /\ At("pick_days")
  /\ \E d \in Days : Arm(AddArgs(guide.call, d), [guide EXCEPT !.days = d])

\* No reminder, or not after all: the guidance is finished.
SkipReminder ==
  /\ At("offer_reminder") \/ At("pick_days")
  /\ lookup = None
  /\ Finish(guide.added)
  /\ UNCHANGED <<cards, current, count, lookup, platform, landed, crossed, created, listed>>

-----------------------------------------------------------------------------
(* Confirm requests.                                                       *)

Settle(c) ==
  /\ lookup = None
  /\ cards[c] # None
  /\ cards' = [cards EXCEPT ![c] = None]
  /\ current' = None
  /\ UNCHANGED count

\* on_decline: declined attendees leave the reminder to offer, anything else finishes.
Decline(c) ==
  /\ Settle(c)
  /\ CASE guide = None     -> UNCHANGED <<guide, told>>
       [] At("pick_group") -> /\ guide' = [guide EXCEPT !.stage = "offer_reminder",
                                                        !.group = None, !.days = None]
                              /\ UNCHANGED told
       [] OTHER            -> Finish(guide.added)
  /\ UNCHANGED <<lookup, platform, landed, crossed, created, listed>>

\* The platform stores a call, or what is added to one.
Store(title, app, own) ==
  /\ Len(calls) < MaxCalls
  /\ calls' = Append(calls, [title |-> title, app |-> app, own |-> own])

Effect(args) ==
  IF args.tool = "createDataCalls_post"
  THEN Store(args.title, args.app, TRUE) /\ UNCHANGED saved
  ELSE saved' = saved \cup {<<args.call, args.item>>} /\ UNCHANGED calls

\* A data call of somebody else's, also between a create and its lookup.
OthersCreate ==
  /\ \E title \in Foreign, app \in Apps : Store(title, app, FALSE)
  /\ UNCHANGED <<session, lookup, saved, ghosts>>

\* The caller is not authorized, or the answer is an error - which a timeout is even when
\* the platform did it: the flow stays where it is.
Refused(c) ==
  /\ Settle(c)
  /\ \/ UNCHANGED platform
     \/ "times_out" \in Faults /\ Effect(cards[c])
  /\ UNCHANGED <<guide, lookup, ghosts>>

AcceptCreate(c) ==
  /\ Settle(c)
  /\ cards[c].tool = "createDataCalls_post"
  /\ Effect(cards[c])
  /\ lookup' = cards[c].title
  /\ created' = Len(calls')
  /\ UNCHANGED <<guide, recap, listed>>

\* start_data_call: the guidance of the call that was found; none without one.
Guided ==
  /\ lookup # None
  /\ \E ids \in Listed : \E id \in CallId(lookup, ids) :
       /\ guide' = IF id = None THEN None
                   ELSE [call |-> id, scope |-> calls[id].app, stage |-> "offer_attendees",
                         added |-> {}, group |-> None, days |-> None]
       /\ listed' = (created \in ids)
  /\ lookup' = None
  /\ landed' = {}
  /\ crossed' = FALSE
  /\ told' = None
  /\ UNCHANGED <<cards, current, count, platform, created>>

\* dc_after_attendee and dc_after_reminder note what the FLOW was asking for.
AcceptAdd(c) ==
  /\ Settle(c)
  /\ cards[c].tool # "createDataCalls_post"
  /\ Effect(cards[c])
  /\ IF guide = None
     THEN UNCHANGED <<guide, recap>>
     ELSE /\ landed' = landed \cup {cards[c].item}
          /\ crossed' = (crossed \/ c # current)
          /\ IF cards[c].tool = "saveDataCallDistributions_post"
             THEN /\ guide' = [guide EXCEPT !.stage = "offer_reminder", !.group = None,
                                            !.added = @ \cup ({guide.group} \ {None})]
                  /\ UNCHANGED told
             ELSE Finish(guide.added \cup ({guide.days} \ {None}))
  /\ UNCHANGED <<lookup, created, listed>>

Next ==
  \/ ModelCard \/ BreakOut \/ Cancel \/ OthersCreate \/ Guided
  \/ OfferAttendees \/ PickGroup \/ SkipAttendees \/ OfferReminder \/ PickDays \/ SkipReminder
  \/ \E c \in Cards : Decline(c) \/ Refused(c) \/ AcceptCreate(c) \/ AcceptAdd(c)

Spec == Init /\ [][Next]_vars

-----------------------------------------------------------------------------
(* Properties.                                                             *)

\* fetch_data_call_id: "fetch the just-created call ... needed to thread dataCallId into
\* attendees/reminder".  The guidance works on the call that was just created, within its
\* groups, whatever other calls there are and whoever creates more before the lookup - unless
\* the list did not have it yet, or somebody gave a later one the same title.
GuidesTheCreated ==
  guide # None =>
    /\ guide.scope = calls[guide.call].app
    /\ lookup = None /\ listed /\ guide.call # created =>
         /\ guide.call > created /\ ~calls[guide.call].own
         /\ calls[guide.call].title = calls[created].title

\* _dc_finish lists what was added.  As long as the user answers the card that is shown,
\* the recap, while it grows and when it is told, is what was confirmed - after declined,
\* refused, timed out and repeated picks too.
RecapIsTrue ==
  ~crossed => /\ guide # None => guide.added = landed
              /\ told # None => told = landed
====
