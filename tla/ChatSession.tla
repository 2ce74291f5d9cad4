------------------------------ MODULE ChatSession ------------------------------
(***************************************************************************)
(* One chat session of the agent, as the requests that work on it see it.  *)
(*                                                                         *)
(* The session is ONE value in the shared key-value store.  Every request  *)
(* handler loads the whole value, works on its private copy while it awaits*)
(* the model, the platform or the tool server, and finally writes the whole*)
(* copy back (services/session_service.py); nothing locks it and no version*)
(* is compared.  Two worker processes serve requests, so two handlers      *)
(* interleave at every store operation.                                    *)
(*                                                                         *)
(* A mutating tool is never run by a chat turn: the turn ARMS a pending    *)
(* action (a card) in the session and the user approves or declines it in a*)
(* later request (services/chat_service.py).  The module follows the card  *)
(* from the turn that arms it to the request that settles it.              *)
(***************************************************************************)
EXTENDS Naturals

CONSTANTS
  Requests,     \* the HTTP requests of one behaviour, each used once
  Actions,      \* the uuid4 identifiers pending actions get, each used once
  FlowNames,    \* the guided flows of this instance
  Tools,        \* the mutating tools of this instance
  Kinds,        \* the kinds of request of this instance
  Serial,       \* TRUE: the widget sends a request only when none is open
  Faults,       \* which of "disconnect", "save_fails" may happen
  MaxRounds,    \* LLM_MAX_ITERATIONS - 1: rounds of the model after the first
  None          \* absence: no session, no current action, no flow

AllFlows == {"create_user", "onboard", "data_call", "formulation_baseline",
             "entity_create", "remove_role"}

\* "other" stands for every mutating tool no guided flow reacts to.
AllTools == {"createUser_post", "createUserApplicationAndRole_post",
             "createDataCalls_post", "saveDataCallDistributions_post",
             "saveDataCallReminder_post", "bobBaseLineGenerate_put", "addMenu_post",
             "addApplicationRole_post", "deleteApplicationRoleById_delete", "other"}

ConfirmKinds == {"approve", "decline", "approve_sync", "decline_sync"}
AllKinds     == ConfirmKinds \cup {"turn", "clear", "delete"}

\* How the saved answer of a request disposes of a pending action.
Fates == {"approved", "declined", "cancelled", "deleted"}

ASSUME ConstantsAssumption ==
  /\ FlowNames \subseteq AllFlows
  /\ Tools \subseteq AllTools
  /\ Kinds \subseteq AllKinds
  /\ Serial \in BOOLEAN
  /\ Faults \subseteq {"disconnect", "save_fails"}
  /\ MaxRounds \in Nat
  /\ None \notin Actions \cup AllFlows \cup AllTools \cup AllKinds \cup Fates

VARIABLES
  store,     \* the live session in the key-value store, or None
  pc,        \* where each request's handler stands
  kind, act, \* what each request asks, and of which pending action
  snap,      \* each handler's private copy of the session
  card,      \* the pending action a handler has armed and not yet saved
  round,     \* rounds of the model loop a turn has saved
  tool,      \* the tool each pending action was armed for; None: not armed yet
  shown,     \* pending actions the user has been shown (confirm_required sent)
  ran,       \* requests whose tool call took effect on the platform
  taken,     \* pending actions a handler has taken out of its copy
  fate,      \* how a saved answer disposed of each pending action
  answered,  \* turns answered and saved since the last "new chat" or delete
  alone      \* cards settled by a request while no other one was in flight

history == <<tool, shown, ran, fate, answered, alone>>
vars    == <<store, pc, kind, act, snap, card, taken, round, history>>

-----------------------------------------------------------------------------
(* State.                                                                  *)

\* The parts of models/session.py that the handlers decide on.
Session == [pend : SUBSET Actions,             \* metadata["pending_actions"]
            cur  : Actions \cup {None},        \* pending_action_id
            flow : AllFlows \cup {None},       \* metadata["flow"]["name"]
            msgs : SUBSET Requests]            \* turns whose text is in messages

ASSUME NoSessionAssumption == None \notin Session

EmptySession == [pend |-> {}, cur |-> None, flow |-> None, msgs |-> {}]

Stages == {"idle", "load", "create", "open", "route", "loop", "access", "run",
           "accepted", "rejected", "save", "closed"}

InFlight(r)  == pc[r] \notin {"idle", "closed"}
Undisturbed(r) == \A q \in Requests \ {r} : ~InFlight(q)
Fresh        == {a \in Actions : tool[a] = None}

TypeOK ==
  /\ store \in Session \cup {None}
  /\ pc \in [Requests -> Stages]
  /\ kind \in [Requests -> AllKinds \cup {None}]
  /\ act \in [Requests -> Actions \cup {None}]
  /\ snap \in [Requests -> Session]
  /\ card \in [Requests -> Actions \cup {None}]
  /\ round \in [Requests -> 0 .. MaxRounds]
  /\ tool \in [Actions -> AllTools \cup {None}]
  /\ shown \subseteq Actions
  /\ ran \subseteq Requests
  /\ taken \in [Requests -> SUBSET Actions]
  /\ fate \in [Actions -> Fates \cup {None}]
  /\ answered \subseteq Requests
  /\ alone \subseteq Actions

Init ==
  /\ store = None
  /\ pc = [r \in Requests |-> "idle"]
  /\ kind = [r \in Requests |-> None]
  /\ act = [r \in Requests |-> None]
  /\ snap = [r \in Requests |-> EmptySession]
  /\ card = [r \in Requests |-> None]
  /\ round = [r \in Requests |-> 0]
  /\ tool = [a \in Actions |-> None]
  /\ shown = {}
  /\ ran = {}
  /\ taken = [r \in Requests |-> {}]
  /\ fate = [a \in Actions |-> None]
  /\ answered = {}
  /\ alone = {}

-----------------------------------------------------------------------------
(* Pure steps on a private copy.                                           *)

\* _arm_flow_pending and the gate of _stream_loop: the new card is current.
Armed(s, a) == [s EXCEPT !.pend = @ \cup {a}, !.cur = a]

\* Mutant of Taken: the action is looked up, not popped.
TakenByLookup(s, a) == [s EXCEPT !.cur = None]

\* Mutant of Taken: pending_action_id is not reset.
TakenStillCurrent(s, a) == [s EXCEPT !.pend = @ \ {a}]

\* Both confirm handlers take the action out before anything else happens.
Taken(s, a) == [s EXCEPT !.pend = @ \ {a}, !.cur = None]

\* Mutant of Cancelled: the armed confirms stay.
CancelledFlowOnly(s) == [s EXCEPT !.flow = None]

\* _cancel_flow drops the flow and every pending action of the session.
Cancelled(s) == [s EXCEPT !.flow = None, !.cur = None, !.pend = {}]

\* Mutant of Released: leaving a flow drops the armed confirms as well.
ReleasedWithCards(s) == [s EXCEPT !.flow = None, !.pend = {}]

\* Break-out, a finished intake, a hand-over to the skill path: only the flow goes.
Released(s) == [s EXCEPT !.flow = None]

\* clear_messages ("new chat") resets these two fields and no other.
Cleared(s) == [s EXCEPT !.msgs = {}, !.cur = None]

\* The flows a turn may open; the others start after a confirmed mutation.
TurnFlows == FlowNames \ {"onboard", "data_call"}

\* The mutation an intake hands to the confirm step when it has all it needs.
FlowTools(f) ==
  Tools \cap (CASE f = "create_user"          -> {"createUser_post"}
                [] f = "onboard"              -> {"createUserApplicationAndRole_post"}
                [] f = "data_call"            -> {"saveDataCallDistributions_post",
                                                  "saveDataCallReminder_post"}
                [] f = "formulation_baseline" -> {"bobBaseLineGenerate_put"}
                [] f = "entity_create"        -> {"addMenu_post", "addApplicationRole_post"}
                [] f = "remove_role"          -> {"deleteApplicationRoleById_delete"}
                [] OTHER                      -> {})

\* What a turn outside any flow may end with: a direct answer, or a flow it opened.
FreshReplies(s) == {Released(s)} \cup {[s EXCEPT !.flow = f] : f \in TurnFlows}

\* is_access_mutation: the tools an administrator's authority is checked for.
AccessTools == {"createUser_post", "createUserApplicationAndRole_post", "addMenu_post",
                "addApplicationRole_post", "deleteApplicationRoleById_delete"}

\* Confirmed creates that end whatever flow is active (ENTITY_CREATE_TOOLS, remove role).
ClosingTools == {"addMenu_post", "addApplicationRole_post", "deleteApplicationRoleById_delete"}

\* on_decline knows these flows; any other reaches _offer_another, which reads the
\* onboarding fields and raises when the flow has none of them.
DeclineRaises(s) == s.flow \in {"create_user", "remove_role"}

\* The flow may stay or end: a declined reminder or single mutation ends it.
DeclineReplies(s) ==
  CASE s.flow \in {"formulation_baseline", "entity_create"} -> {Released(s)}
    [] s.flow = "data_call"                                 -> {s, Released(s)}
    [] OTHER                                                -> {s}

\* after_assign and dc_after_attendee read fields only their own flow has.
ResumeRaises(s, t) ==
  /\ s.flow # None
  /\ \/ t = "createUserApplicationAndRole_post" /\ s.flow # "onboard"
     \/ t = "saveDataCallDistributions_post" /\ s.flow # "data_call"

\* _post_confirm_flow and the baseline special case: the flow after an accepted write.
\* Only the streamed confirm knows the baseline generate.
FlowsAfter(s, t, k) ==
  CASE t = "createUser_post"      -> {"onboard"}
    [] t = "createDataCalls_post" -> {"data_call", None}
    [] t \in ClosingTools \cup {"saveDataCallReminder_post"} ->
         {None} \cup {f \in {"entity_create"} : f = s.flow /\ t = "addMenu_post"}
    [] t = "bobBaseLineGenerate_put" /\ k = "approve"       -> {None}
    [] OTHER -> {s.flow}

\* A rejected generate ALWAYS goes back to the review with a new card.
Retries(s, t, k) == t = "bobBaseLineGenerate_put" /\ k = "approve" /\ s.flow # None

\* A menu created as a prerequisite resumes the role flow it suspended, which may be
\* at its own confirm at once.
Rearms(s, t, k, accepted) ==
  Tools \cap
  (IF accepted
   THEN IF t = "addMenu_post" /\ s.flow = "entity_create" THEN {"addApplicationRole_post"} ELSE {}
   ELSE IF Retries(s, t, k) THEN {t} ELSE {})

-----------------------------------------------------------------------------
(* Sending and opening a request.                                          *)

\* A handler that ends drops its private copy and what it knew of it.
End(r) ==
  /\ pc' = [pc EXCEPT ![r] = "closed"]
  /\ snap' = [snap EXCEPT ![r] = EmptySession]
  /\ card' = [card EXCEPT ![r] = None]
  /\ taken' = [taken EXCEPT ![r] = {}]
  /\ round' = [round EXCEPT ![r] = 0]
  /\ UNCHANGED <<kind, act>>

\* It ends without writing anything.
GiveUp(r) == End(r) /\ UNCHANGED <<store, history>>

\* The handler of r goes to a stage and touches nothing else.
Move(r, stage) ==
  /\ pc' = [pc EXCEPT ![r] = stage]
  /\ UNCHANGED <<store, kind, act, snap, card, taken, round, history>>

\* The environment's side: a user acts on cards that were shown to her.
Send(r) ==
  /\ pc[r] = "idle"
  /\ Serial => \A q \in Requests : ~InFlight(q)
  /\ \E k \in Kinds, a \in shown \cup {None} :
       /\ (k \in ConfirmKinds) <=> (a # None)
       /\ kind' = [kind EXCEPT ![r] = k]
       /\ act' = [act EXCEPT ![r] = a]
  /\ pc' = [pc EXCEPT ![r] = "load"]
  /\ UNCHANGED <<store, snap, card, taken, round, history>>

\* Mutant of Load: every request starts a new session document.
LoadAlwaysNew(r) ==
  /\ pc[r] = "load"
  /\ kind[r] \notin {"clear", "delete"}
  /\ snap' = [snap EXCEPT ![r] = EmptySession]
  /\ pc' = [pc EXCEPT ![r] = "create"]
  /\ UNCHANGED <<store, kind, act, card, taken, round, history>>

\* get_or_create: read the session; when there is none a new one is written next.
Load(r) ==
  /\ pc[r] = "load"
  /\ kind[r] \notin {"clear", "delete"}
  /\ snap' = [snap EXCEPT ![r] = IF store = None THEN EmptySession ELSE store]
  /\ pc' = [pc EXCEPT ![r] = IF store = None THEN "create" ELSE "open"]
  /\ UNCHANGED <<store, kind, act, card, taken, round, history>>

Create(r) ==
  /\ pc[r] = "create"
  /\ store' = snap[r]
  /\ pc' = [pc EXCEPT ![r] = "open"]
  /\ UNCHANGED <<kind, act, snap, card, taken, round, history>>

\* session_service.delete: a read to report whether it existed, and the delete.
Delete(r) ==
  /\ pc[r] = "load"
  /\ kind[r] = "delete"
  /\ store' = None
  /\ answered' = {}
  /\ fate' = [a \in Actions |-> IF a \in shown /\ fate[a] = None THEN "deleted" ELSE fate[a]]
  /\ alone' = IF Undisturbed(r) THEN alone \cup shown ELSE alone
  /\ End(r)
  /\ UNCHANGED <<tool, shown, ran>>

\* clear_messages answers "not found" when there is no session.
LoadClear(r) ==
  /\ pc[r] = "load"
  /\ kind[r] = "clear"
  /\ IF store = None
       THEN GiveUp(r)
       ELSE /\ snap' = [snap EXCEPT ![r] = store]
            /\ pc' = [pc EXCEPT ![r] = "open"]
            /\ UNCHANGED <<store, kind, act, card, taken, round, history>>

SaveClear(r) ==
  /\ pc[r] = "open"
  /\ kind[r] = "clear"
  /\ store' = Cleared(snap[r])
  /\ answered' = {}
  /\ End(r)
  /\ UNCHANGED <<tool, shown, ran, fate, alone>>

-----------------------------------------------------------------------------
(* A chat turn: reply_stream and its model loop.                           *)

\* The user's message is saved before anything is routed.
SaveMessage(r) ==
  /\ pc[r] = "open"
  /\ kind[r] = "turn"
  /\ LET s == [snap[r] EXCEPT !.msgs = @ \cup {r}]
     IN  store' = s /\ snap' = [snap EXCEPT ![r] = s]
  /\ pc' = [pc EXCEPT ![r] = "route"]
  /\ UNCHANGED <<kind, act, card, taken, round, history>>

\* Settle on the copy s, with the actions of out taken from it, and go and save it.
Reply(r, s, out) ==
  /\ snap' = [snap EXCEPT ![r] = s]
  /\ taken' = [taken EXCEPT ![r] = @ \cup out]
  /\ pc' = [pc EXCEPT ![r] = "save"]
  /\ UNCHANGED <<store, kind, act, card, round, history>>

\* Arm a fresh pending action for tool t in the copy s, and go and save it.
ReplyWithCard(r, s, t) ==
  \E a \in Fresh :
    /\ snap' = [snap EXCEPT ![r] = Armed(s, a)]
    /\ card' = [card EXCEPT ![r] = a]
    /\ tool' = [tool EXCEPT ![a] = t]
    /\ pc' = [pc EXCEPT ![r] = "save"]
    /\ UNCHANGED <<store, kind, act, taken, round, shown, ran, fate, answered, alone>>

\* The active flow answers with a prompt, or ends without a mutation.
RouteFlow(r) ==
  /\ pc[r] = "route"
  /\ snap[r].flow # None
  /\ \E s \in {snap[r], Released(snap[r])} : Reply(r, s, {})

\* The cancel fail-safe, honoured in any flow at any stage.
RouteCancel(r) ==
  /\ pc[r] = "route"
  /\ snap[r].flow # None
  /\ Reply(r, Cancelled(snap[r]), snap[r].pend)

\* The active flow has all it needs and hands its mutation to the confirm step.
RouteFlowCard(r) ==
  /\ pc[r] = "route"
  /\ \E t \in FlowTools(snap[r].flow) : ReplyWithCard(r, snap[r], t)

\* No flow, or one the message broke out of: a direct answer, or a flow opens.
RouteFresh(r) ==
  /\ pc[r] = "route"
  /\ \E s \in FreshReplies(snap[r]) : Reply(r, s, {})

\* Nothing deterministic answered: the model loop takes the turn.
RouteModel(r) ==
  /\ pc[r] = "route"
  /\ snap' = [snap EXCEPT ![r] = Released(snap[r])]
  /\ pc' = [pc EXCEPT ![r] = "loop"]
  /\ UNCHANGED <<store, kind, act, card, taken, round, history>>

\* The model answered in prose, or with the blocks of read-only tools.
LoopAnswer(r) ==
  /\ pc[r] = "loop"
  /\ Reply(r, snap[r], {})

\* The model asked for a mutating tool: it is armed, not run.
LoopCard(r) ==
  /\ pc[r] = "loop"
  /\ \E t \in Tools : ReplyWithCard(r, snap[r], t)

\* Mutant of LoopRound: the count starts again instead of ending the rounds.
LoopRoundAgain(r) ==
  /\ pc[r] = "loop"
  /\ store' = snap[r]
  /\ round' = [round EXCEPT ![r] = (@ + 1) % (MaxRounds + 1)]
  /\ UNCHANGED <<pc, kind, act, snap, card, taken, history>>

\* Tool results without an answer: save the round and ask the model again.
LoopRound(r) ==
  /\ pc[r] = "loop"
  /\ round[r] < MaxRounds
  /\ store' = snap[r]
  /\ round' = [round EXCEPT ![r] = @ + 1]
  /\ UNCHANGED <<pc, kind, act, snap, card, taken, history>>

\* The model call raised, or the rounds are used up after a saved round.
LoopEnds(r) ==
  /\ pc[r] = "loop"
  /\ GiveUp(r)

-----------------------------------------------------------------------------
(* A confirm request: confirm_stream, and confirm_action on the sync route. *)

Refused(r) ==
  \/ act[r] \notin snap[r].pend
  \/ kind[r] \in {"approve_sync", "decline_sync"} /\ snap[r].cur = None

\* "No such pending action": nothing is written.
RefuseConfirm(r) ==
  /\ pc[r] = "open"
  /\ kind[r] \in ConfirmKinds
  /\ Refused(r)
  /\ GiveUp(r)

\* Declined: taken out of the copy, and the flow resumes or ends.
Decline(r) ==
  /\ pc[r] = "open"
  /\ kind[r] \in {"decline", "decline_sync"}
  /\ ~Refused(r)
  /\ ~DeclineRaises(snap[r])
  /\ \E s \in DeclineReplies(Taken(snap[r], act[r])) : Reply(r, s, {act[r]})

\* on_decline raises: the request fails before it has saved anything.
DeclineFails(r) ==
  /\ pc[r] = "open"
  /\ kind[r] \in {"decline", "decline_sync"}
  /\ ~Refused(r)
  /\ DeclineRaises(snap[r])
  /\ GiveUp(r)

\* Approved: taken out of the copy only; the store still lists it.
Approve(r) ==
  /\ pc[r] = "open"
  /\ kind[r] \in {"approve", "approve_sync"}
  /\ ~Refused(r)
  /\ snap' = [snap EXCEPT ![r] = Taken(@, act[r])]
  /\ taken' = [taken EXCEPT ![r] = {act[r]}]
  /\ pc' = [pc EXCEPT ![r] = IF tool[act[r]] \in AccessTools THEN "access" ELSE "run"]
  /\ UNCHANGED <<store, kind, act, card, round, history>>

Authorize(r) ==
  /\ pc[r] = "access"
  /\ Move(r, "run")

\* The caller's authority cannot be proven: the action is dropped and saved.
DenyAccess(r) ==
  /\ pc[r] = "access"
  /\ Reply(r, snap[r], {})

\* The platform carries the tool out; the answer says so, or is an error (a timeout).
RunTool(r) ==
  /\ pc[r] = "run"
  /\ ran' = ran \cup {r}
  /\ \E outcome \in {"accepted", "rejected"} : pc' = [pc EXCEPT ![r] = outcome]
  /\ UNCHANGED <<store, kind, act, snap, card, taken, round, tool, shown, fate, answered, alone>>

\* The platform refuses it, or is never reached.
ToolRefused(r) ==
  /\ pc[r] = "run"
  /\ Move(r, "rejected")

\* The flow moves on after an accepted write, and stays after a rejected one.
AfterAccepted(r) ==
  /\ pc[r] = "accepted"
  /\ ~ResumeRaises(snap[r], tool[act[r]])
  /\ \E f \in FlowsAfter(snap[r], tool[act[r]], kind[r]) :
       Reply(r, [snap[r] EXCEPT !.flow = f], {})

AfterRejected(r) ==
  /\ pc[r] = "rejected"
  /\ Retries(snap[r], tool[act[r]], kind[r]) => Fresh = {}    \* bound: no identifier is left
  /\ Reply(r, snap[r], {})

\* The flow goes on with ANOTHER card.
AfterRunCard(r) ==
  /\ pc[r] \in {"accepted", "rejected"}
  /\ \E t \in Rearms(snap[r], tool[act[r]], kind[r], pc[r] = "accepted") :
       ReplyWithCard(r, snap[r], t)

\* The flow the session is in lacks the fields the resume step reads: it raises.
AfterRunFails(r) ==
  /\ pc[r] = "accepted"
  /\ ResumeRaises(snap[r], tool[act[r]])
  /\ GiveUp(r)

-----------------------------------------------------------------------------
(* The last save of a turn or a confirm, and the ways a handler dies.       *)

\* What a saved answer says of the actions its handler took out.
Verdict(k) == CASE k = "turn"                       -> "cancelled"
                [] k \in {"decline", "decline_sync"} -> "declined"
                [] OTHER                            -> "approved"

SaveReply(r) ==
  /\ pc[r] = "save"
  /\ store' = snap[r]
  /\ shown' = shown \cup ({card[r]} \ {None})
  /\ fate' = [a \in Actions |-> IF a \in taken[r] THEN Verdict(kind[r]) ELSE fate[a]]
  /\ answered' = IF kind[r] = "turn" THEN answered \cup {r} ELSE answered
  /\ alone' = IF Undisturbed(r) THEN alone \cup taken[r] ELSE alone
  /\ End(r)
  /\ UNCHANGED <<tool, ran>>

\* The store's set raises (a backend error): the request fails, nothing is written.
SaveFails(r) ==
  /\ "save_fails" \in Faults
  /\ \/ pc[r] \in {"create", "save"}
     \/ pc[r] = "open" /\ kind[r] \in {"turn", "clear"}
     \/ pc[r] = "loop" /\ round[r] < MaxRounds
  /\ GiveUp(r)

\* The client goes away: the stream's generator is cancelled where it awaits.
Disconnect(r) ==
  /\ "disconnect" \in Faults
  /\ kind[r] \in {"turn", "approve"}
  /\ pc[r] \in {"route", "loop", "access", "run", "accepted", "rejected"}
  /\ GiveUp(r)

-----------------------------------------------------------------------------
\* What the server does for request r, as opposed to what users and networks do.
Serve(r) ==
  \/ Load(r) \/ Create(r) \/ Delete(r) \/ LoadClear(r) \/ SaveClear(r)
  \/ SaveMessage(r)
  \/ RouteFlow(r) \/ RouteCancel(r) \/ RouteFlowCard(r) \/ RouteFresh(r) \/ RouteModel(r)
  \/ LoopAnswer(r) \/ LoopCard(r) \/ LoopRound(r) \/ LoopEnds(r)
  \/ RefuseConfirm(r) \/ Decline(r) \/ DeclineFails(r) \/ Approve(r)
  \/ Authorize(r) \/ DenyAccess(r) \/ RunTool(r) \/ ToolRefused(r)
  \/ AfterAccepted(r) \/ AfterRejected(r) \/ AfterRunCard(r) \/ AfterRunFails(r)
  \/ SaveReply(r)

Next == \E r \in Requests : Send(r) \/ Serve(r) \/ SaveFails(r) \/ Disconnect(r)

Spec == Init /\ [][Next]_vars

\* A started handler keeps being scheduled by its event loop, and every await it
\* makes (model, tool server, store) has a timeout: it always takes its next step.
\* Nothing is assumed of users or of the faults.
FairSpec == Spec /\ \A r \in Requests : WF_vars(Serve(r))

-----------------------------------------------------------------------------
(* Properties.                                                             *)

Copies == {snap[r] : r \in Requests} \cup ({store} \ {None})

\* In the store and in every handler's copy the action the session calls current is
\* one it can still look up: confirm_action tests pending_action_id and then reads
\* pending_actions, and the chained confirm is rendered from the same pair.
CurrentIsPending == \A s \in Copies : s.cur # None => s.cur \in s.pend

\* confirm_stream runs "the pending mutating tool, record[s] the result": a confirm that
\* took effect ends with the action disposed of, not with its card still armed.
RunsAreRecorded ==
  \A r \in ran : pc[r] = "closed" => fate[act[r]] # None

\* A mutation the user approved takes effect once, however the card is answered.
OncePerCard == \A r, q \in ran : act[r] = act[q] => r = q

\* "I won't ... Nothing was saved." and "I've cancelled that. Nothing was saved." are
\* true: a card answered that way has not taken effect and never does.
NothingSavedMeansNothingRan ==
  \A r \in ran : fate[act[r]] \notin {"declined", "cancelled"}

\* _cancel_flow alone: "drop the flow and any armed confirm; nothing is written".
CancelledNeverRuns == \A r \in ran : fate[act[r]] # "cancelled"

\* on_decline: a declined card is disposed of by the request that declines it, so
\* that request never ends with the card still confirmable.
DeclineDisposes ==
  \A r \in Requests :
    pc[r] = "closed" /\ kind[r] \in {"decline", "decline_sync"} /\ store # None
      => act[r] \notin store.pend

\* What an answer says of a card is so (confirm_stream, _cancel_flow, on_decline): "nothing
\* was saved" only of a card that did not run and will not, a run is recorded with its
\* answer, a declined card is disposed of, and no card runs twice.
AnswersAreTrue == NothingSavedMeansNothingRan /\ RunsAreRecorded /\ DeclineDisposes /\ OncePerCard

\* A card the user was shown and nobody disposed of can still be answered: the store
\* lists it until a saved answer takes it out.
NoVanishedCard ==
  \A a \in shown : fate[a] = None => store # None /\ a \in store.pend

\* A turn whose reply was saved stays in the conversation until a new chat.
NoLostTurn == answered \subseteq (IF store = None THEN {} ELSE store.msgs)

\* A card a saved answer disposed of never takes effect afterwards.
SettledNeverRuns ==
  [][\A r \in ran' \ ran : fate[act[r]] = None]_vars

\* A card settled while its request was the only one in flight stays settled, whatever
\* overlaps AFTERWARDS: of two later confirms of it, double-clicked or from two tabs, none
\* runs it, and no copy that overwrites the store, saved late or after a failure, lists it
\* again.  (A card settled WHILE another request is in flight has no such luck: that
\* request's copy still lists it.)
SettledAloneIsFinal ==
  [][/\ \A r \in ran' \ ran : act[r] \notin alone
     /\ \A a \in alone : store' # None => a \notin store'.pend]_vars

\* Every request that was sent is answered, or given up, in the end.
EveryRequestEnds == \A r \in Requests : pc[r] = "load" ~> pc[r] = "closed"

-----------------------------------------------------------------------------
(* The confirmation gate implements ConfirmProtocol when requests are sent  *)
(* one at a time, no store write or connection is lost, and no flow raises. *)

CardState ==
  [a \in Actions |->
     IF \E r \in ran : act[r] = a
     THEN IF fate[a] = None THEN "running" ELSE "done"
     ELSE IF fate[a] # None THEN "dropped"
     ELSE IF a \in shown THEN "offered" ELSE "new"]

Protocol == INSTANCE ConfirmProtocol WITH state <- CardState

\* Every behaviour of the session is one of the protocol, its liveness included.
ImplementsProtocol == Protocol!FairSpec
====
