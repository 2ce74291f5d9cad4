--------------------------- MODULE ChatSessionProofs ---------------------------
(***************************************************************************)
(* Proofs about ChatSession for any number of requests and actions, and any*)
(* choice of flows, tools, kinds of request and faults.                    *)
(***************************************************************************)
EXTENDS ChatSession, TLAPS

-----------------------------------------------------------------------------
(* The pure steps keep a copy a session, and say what becomes of its cards. *)

\* A session document's fields have their types (models/session.py).
LEMMA SessionFields ==
  ASSUME NEW s \in Session
  PROVE  /\ s.pend \subseteq Actions
         /\ s.cur \in Actions \cup {None}
         /\ s.flow \in AllFlows \cup {None}
         /\ s.msgs \subseteq Requests
BY DEF Session

\* get_or_create's new session is a session with nothing pending.
LEMMA EmptyIsSession == /\ EmptySession \in Session /\ EmptySession.pend = {}
                        /\ EmptySession.cur = None /\ EmptySession.flow = None
BY DEF EmptySession, Session

\* What _arm_flow_pending does to a copy of the session.
LEMMA ArmedCopy ==
  ASSUME NEW s \in Session, NEW a \in Actions
  PROVE  /\ Armed(s, a) \in Session
         /\ Armed(s, a).pend = s.pend \cup {a}
         /\ Armed(s, a).cur = a
         /\ Armed(s, a).msgs = s.msgs
         /\ Armed(s, a).flow = s.flow
BY DEF Armed, Session

\* What taking a pending action off a copy does.
LEMMA TakenCopy ==
  ASSUME NEW s \in Session, NEW a \in Actions
  PROVE  /\ Taken(s, a) \in Session
         /\ Taken(s, a).pend = s.pend \ {a}
         /\ Taken(s, a).cur = None
         /\ Taken(s, a).msgs = s.msgs
         /\ Taken(s, a).flow = s.flow
BY DEF Taken, Session

\* What _cancel_flow does to a copy.
LEMMA CancelledCopy ==
  ASSUME NEW s \in Session
  PROVE  /\ Cancelled(s) \in Session
         /\ Cancelled(s).pend = {}
         /\ Cancelled(s).cur = None
         /\ Cancelled(s).msgs = s.msgs
         /\ Cancelled(s).flow = None
BY DEF Cancelled, Session

\* What clear_messages does to a copy: the pending actions stay.
LEMMA ClearedCopy ==
  ASSUME NEW s \in Session
  PROVE  /\ Cleared(s) \in Session
         /\ Cleared(s).pend = s.pend
         /\ Cleared(s).cur = None
         /\ Cleared(s).flow = s.flow
BY DEF Cleared, Session

\* Moving to another flow leaves the cards of a copy alone.
LEMMA FlowCopy ==
  ASSUME NEW s \in Session, NEW f \in AllFlows \cup {None}
  PROVE  /\ [s EXCEPT !.flow = f] \in Session
         /\ [s EXCEPT !.flow = f].pend = s.pend
         /\ [s EXCEPT !.flow = f].cur = s.cur
         /\ [s EXCEPT !.flow = f].msgs = s.msgs
         /\ [s EXCEPT !.flow = f].flow = f
BY DEF Session

\* Leaving the flow (on_decline) leaves the cards of a copy alone.
LEMMA ReleasedCopy ==
  ASSUME NEW s \in Session
  PROVE  /\ Released(s) \in Session
         /\ Released(s).pend = s.pend
         /\ Released(s).cur = s.cur
         /\ Released(s).msgs = s.msgs
         /\ Released(s).flow = None
BY FlowCopy DEF Released

\* Recording the user's message leaves the cards of a copy alone.
LEMMA MessageCopy ==
  ASSUME NEW s \in Session, NEW r \in Requests
  PROVE  /\ [s EXCEPT !.msgs = @ \cup {r}] \in Session
         /\ [s EXCEPT !.msgs = @ \cup {r}].pend = s.pend
         /\ [s EXCEPT !.msgs = @ \cup {r}].cur = s.cur
         /\ [s EXCEPT !.msgs = @ \cup {r}].msgs = s.msgs \cup {r}
         /\ [s EXCEPT !.msgs = @ \cup {r}].flow = s.flow
BY DEF Session

\* A direct answer or an opened flow leaves the cards of the session alone.
LEMMA FreshReplyCopy ==
  ASSUME NEW s \in Session, NEW t \in FreshReplies(s)
  PROVE  /\ t \in Session /\ t.pend = s.pend /\ t.cur = s.cur
         /\ t.msgs = s.msgs /\ t.flow \in {None} \cup TurnFlows
<1>1. CASE t = Released(s)
  BY <1>1, ReleasedCopy
<1>2. CASE \E f \in TurnFlows : t = [s EXCEPT !.flow = f]
  BY <1>2, FlowCopy, ConstantsAssumption DEF TurnFlows
<1> QED
  BY <1>1, <1>2 DEF FreshReplies

\* on_decline's replies leave the cards of a copy alone.
LEMMA DeclineReplyCopy ==
  ASSUME NEW s \in Session, NEW t \in DeclineReplies(s)
  PROVE  /\ t \in Session /\ t.pend = s.pend /\ t.cur = s.cur
         /\ t.msgs = s.msgs /\ t.flow \in {None, s.flow}
<1>1. t \in {s, Released(s)}
  BY DEF DeclineReplies
<1> QED
  BY <1>1, ReleasedCopy

\* After an executed action the flow is one of the program's, or none.
LEMMA FlowsAfterType ==
  ASSUME NEW s \in Session, NEW t, NEW k
  PROVE  FlowsAfter(s, t, k) \subseteq AllFlows \cup {None}
BY SessionFields DEF FlowsAfter, AllFlows

-----------------------------------------------------------------------------
(* Type correctness.                                                       *)

\* A request that ends leaves its variables in their types.
LEMMA EndType ==
  ASSUME TypeOK, NEW r \in Requests, End(r)
  PROVE  /\ pc' \in [Requests -> Stages]
         /\ kind' \in [Requests -> AllKinds \cup {None}]
         /\ act' \in [Requests -> Actions \cup {None}]
         /\ snap' \in [Requests -> Session]
         /\ card' \in [Requests -> Actions \cup {None}]
         /\ round' \in [Requests -> 0 .. MaxRounds]
         /\ taken' \in [Requests -> SUBSET Actions]
BY EmptyIsSession, ConstantsAssumption DEF TypeOK, End, Stages

\* A request that gives up (an error, a disconnect) keeps the types.
LEMMA GiveUpType ==
  ASSUME TypeOK, NEW r \in Requests, GiveUp(r)
  PROVE  TypeOK'
BY EndType DEF TypeOK, GiveUp, history

\* A step within a handler keeps the types.
LEMMA MoveType ==
  ASSUME TypeOK, NEW r \in Requests, NEW st \in Stages, Move(r, st)
  PROVE  TypeOK'
BY DEF TypeOK, Move, history

\* A reply without a card keeps the types.
LEMMA ReplyType ==
  ASSUME TypeOK, NEW r \in Requests, NEW s \in Session, NEW out \in SUBSET Actions,
         Reply(r, s, out)
  PROVE  TypeOK'
BY DEF TypeOK, Reply, history, Stages

\* A reply with a new card keeps the types.
LEMMA ReplyWithCardType ==
  ASSUME TypeOK, NEW r \in Requests, NEW s \in Session, NEW t \in AllTools,
         ReplyWithCard(r, s, t)
  PROVE  TypeOK'
<1> PICK a \in Fresh :
      /\ snap' = [snap EXCEPT ![r] = Armed(s, a)]
      /\ card' = [card EXCEPT ![r] = a]
      /\ tool' = [tool EXCEPT ![a] = t]
      /\ pc' = [pc EXCEPT ![r] = "save"]
      /\ UNCHANGED <<store, kind, act, taken, round, shown, ran, fate, answered, alone>>
  BY DEF ReplyWithCard
<1>1. a \in Actions /\ Armed(s, a) \in Session
  BY ArmedCopy DEF Fresh
<1> QED
  BY <1>1 DEF TypeOK, Stages

\* A new request keeps the types.
LEMMA SendType ==
  ASSUME TypeOK, NEW r \in Requests, Send(r)
  PROVE  TypeOK'
BY ConstantsAssumption DEF TypeOK, Send, history, Stages

\* Every step of every handler keeps the types.
LEMMA ServeType ==
  ASSUME TypeOK, NEW r \in Requests, Serve(r)
  PROVE  TypeOK'
<1>s. snap[r] \in Session /\ snap[r].pend \subseteq Actions
  BY SessionFields DEF TypeOK
<1>1. CASE Load(r)
  <2>1. (IF store = None THEN EmptySession ELSE store) \in Session
    BY EmptyIsSession DEF TypeOK
  <2> QED
    BY <1>1, <2>1 DEF TypeOK, Load, history, Stages
<1>2. CASE Create(r)
  BY <1>2, <1>s DEF TypeOK, Create, history, Stages
<1>3. CASE Delete(r)
  BY <1>3, EndType DEF TypeOK, Delete, Fates
<1>4. CASE LoadClear(r)
  <2>1. CASE store = None
    BY <1>4, <2>1, GiveUpType DEF LoadClear
  <2>2. CASE store # None
    BY <1>4, <2>2 DEF TypeOK, LoadClear, history, Stages
  <2> QED
    BY <2>1, <2>2
<1>5. CASE SaveClear(r)
  BY <1>5, <1>s, ClearedCopy, EndType DEF TypeOK, SaveClear
<1>6. CASE SaveMessage(r)
  BY <1>6, <1>s, MessageCopy DEF TypeOK, SaveMessage, history, Stages
<1>7. CASE RouteFlow(r)
  <2>1. PICK t \in {snap[r], Released(snap[r])} : Reply(r, t, {})
    BY <1>7 DEF RouteFlow
  <2> QED
    BY <2>1, <1>s, ReleasedCopy, ReplyType
<1>8. CASE RouteCancel(r)
  BY <1>8, <1>s, CancelledCopy, ReplyType DEF RouteCancel
<1>9. CASE RouteFlowCard(r)
  <2>1. PICK t \in FlowTools(snap[r].flow) : ReplyWithCard(r, snap[r], t)
    BY <1>9 DEF RouteFlowCard
  <2>2. t \in AllTools
    BY ConstantsAssumption DEF FlowTools
  <2> QED
    BY <2>1, <2>2, <1>s, ReplyWithCardType
<1>10. CASE RouteFresh(r)
  BY <1>10, <1>s, FreshReplyCopy, ReplyType DEF RouteFresh
<1>11. CASE RouteModel(r)
  BY <1>11, <1>s, ReleasedCopy DEF TypeOK, RouteModel, history, Stages
<1>12. CASE LoopAnswer(r)
  BY <1>12, <1>s, ReplyType DEF LoopAnswer
<1>13. CASE LoopCard(r)
  BY <1>13, <1>s, ReplyWithCardType, ConstantsAssumption DEF LoopCard
<1>14. CASE LoopRound(r)
  BY <1>14, <1>s, ConstantsAssumption DEF TypeOK, LoopRound, history
<1>15. CASE LoopEnds(r) \/ RefuseConfirm(r) \/ DeclineFails(r) \/ AfterRunFails(r)
  BY <1>15, GiveUpType DEF LoopEnds, RefuseConfirm, DeclineFails, AfterRunFails
<1>16. CASE Decline(r)
  <2>1. act[r] \in Actions
    BY <1>16, <1>s DEF Decline, Refused
  <2>2. Taken(snap[r], act[r]) \in Session
    BY <2>1, <1>s, TakenCopy
  <2>3. PICK t \in DeclineReplies(Taken(snap[r], act[r])) : Reply(r, t, {act[r]})
    BY <1>16 DEF Decline
  <2> QED
    BY <2>1, <2>2, <2>3, DeclineReplyCopy, ReplyType
<1>17. CASE Approve(r)
  <2>1. act[r] \in Actions
    BY <1>17, <1>s DEF Approve, Refused
  <2>2. Taken(snap[r], act[r]) \in Session
    BY <2>1, <1>s, TakenCopy
  <2> QED
    BY <1>17, <2>1, <2>2 DEF TypeOK, Approve, history, Stages
<1>18. CASE Authorize(r)
  BY <1>18, MoveType DEF Authorize, Stages
<1>19. CASE DenyAccess(r)
  BY <1>19, <1>s, ReplyType DEF DenyAccess
<1>20. CASE RunTool(r)
  BY <1>20 DEF TypeOK, RunTool, Stages
<1>21. CASE ToolRefused(r)
  BY <1>21, MoveType DEF ToolRefused, Stages
<1>22. CASE AfterAccepted(r)
  <2>1. PICK f \in FlowsAfter(snap[r], tool[act[r]], kind[r]) :
          Reply(r, [snap[r] EXCEPT !.flow = f], {})
    BY <1>22 DEF AfterAccepted
  <2>2. f \in AllFlows \cup {None}
    BY <1>s, FlowsAfterType
  <2> QED
    BY <2>1, <2>2, <1>s, FlowCopy, ReplyType
<1>23. CASE AfterRejected(r)
  BY <1>23, <1>s, ReplyType DEF AfterRejected
<1>24. CASE AfterRunCard(r)
  <2>1. PICK t \in Rearms(snap[r], tool[act[r]], kind[r], pc[r] = "accepted") :
          ReplyWithCard(r, snap[r], t)
    BY <1>24 DEF AfterRunCard
  <2>2. t \in AllTools
    BY ConstantsAssumption DEF Rearms
  <2> QED
    BY <2>1, <2>2, <1>s, ReplyWithCardType
<1>25. CASE SaveReply(r)
  <2>1. \A k : Verdict(k) \in Fates
    BY DEF Verdict, Fates
  <2> QED
    BY <1>25, <1>s, <2>1, EndType DEF TypeOK, SaveReply
<1> QED
  BY <1>1, <1>2, <1>3, <1>4, <1>5, <1>6, <1>7, <1>8, <1>9, <1>10, <1>11, <1>12, <1>13,
     <1>14, <1>15, <1>16, <1>17, <1>18, <1>19, <1>20, <1>21, <1>22, <1>23, <1>24, <1>25
     DEF Serve

\* A refused save and a client that leaves keep the types.
LEMMA FaultType ==
  ASSUME TypeOK, NEW r \in Requests, SaveFails(r) \/ Disconnect(r)
  PROVE  TypeOK'
BY GiveUpType DEF SaveFails, Disconnect

\* The variables keep their types: models/session.py's fields, the handlers' stages.
THEOREM TypeCorrect == Spec => []TypeOK
<1>1. Init => TypeOK
  BY EmptyIsSession, ConstantsAssumption DEF Init, TypeOK, Stages
<1>2. TypeOK /\ [Next]_vars => TypeOK'
  <2>1. ASSUME TypeOK, NEW r \in Requests, Send(r) \/ Serve(r) \/ SaveFails(r) \/ Disconnect(r)
        PROVE  TypeOK'
    BY <2>1, SendType, ServeType, FaultType
  <2>2. TypeOK /\ UNCHANGED vars => TypeOK'
    BY DEF TypeOK, vars, history
  <2> QED
    BY <2>1, <2>2 DEF Next
<1> QED
  BY <1>1, <1>2, PTL DEF Spec

-----------------------------------------------------------------------------
(* The current action can always be looked up, whatever interleaves.       *)

CopyOK(s) == s.cur # None => s.cur \in s.pend

CurrentInv ==
  /\ TypeOK
  /\ store # None => CopyOK(store)
  /\ \A r \in Requests : CopyOK(snap[r])

\* None is no action's id.
LEMMA NoneIsNoAction == None \notin Actions
BY ConstantsAssumption

\* Saving or dropping copies brings no new one into being.
LEMMA OldCopies ==
  ASSUME CurrentInv, TypeOK',
         store' = store \/ store' = None \/ \E r \in Requests : store' = snap[r],
         \A q \in Requests : snap'[q] = snap[q] \/ snap'[q] = EmptySession
  PROVE  CurrentInv'
BY EmptyIsSession DEF CurrentInv, CopyOK, TypeOK

\* A handler that changes its own copy only has to keep that copy in order.
LEMMA NewCopy ==
  ASSUME CurrentInv, TypeOK', NEW r \in Requests, NEW s \in Session, CopyOK(s),
         snap' = [snap EXCEPT ![r] = s], store' = store \/ store' = s
  PROVE  CurrentInv'
BY DEF CurrentInv, CopyOK, TypeOK

\* A request that ends drops its copy and touches no other.
LEMMA EndCopies ==
  ASSUME TypeOK, NEW r \in Requests, End(r)
  PROVE  \A q \in Requests : snap'[q] = snap[q] \/ snap'[q] = EmptySession
BY DEF TypeOK, End

\* A reply without a card keeps the current actions among the pending ones.
LEMMA ReplyCurrent ==
  ASSUME CurrentInv, TypeOK', NEW r \in Requests, NEW s \in Session, CopyOK(s), NEW out,
         Reply(r, s, out)
  PROVE  CurrentInv'
BY NewCopy DEF Reply

\* A new card is current and pending at once.
LEMMA ReplyWithCardCurrent ==
  ASSUME CurrentInv, TypeOK', NEW r \in Requests, NEW s \in Session, NEW t,
         ReplyWithCard(r, s, t)
  PROVE  CurrentInv'
<1>1. PICK a \in Fresh : snap' = [snap EXCEPT ![r] = Armed(s, a)] /\ store' = store
  BY DEF ReplyWithCard
<1>2. Armed(s, a) \in Session /\ CopyOK(Armed(s, a))
  BY ArmedCopy DEF Fresh, CopyOK
<1> QED
  BY <1>1, <1>2, NewCopy

\* No handler's step leaves a current action that is not pending.
LEMMA ServeCurrent ==
  ASSUME CurrentInv, TypeOK', NEW r \in Requests, Serve(r)
  PROVE  CurrentInv'
<1>s. snap[r] \in Session /\ CopyOK(snap[r]) /\ snap[r].pend \subseteq Actions
  BY SessionFields DEF TypeOK, CurrentInv
<1>t. TypeOK
  BY DEF CurrentInv
<1>1. CASE Load(r)
  <2>1. LET s == IF store = None THEN EmptySession ELSE store
        IN  s \in Session /\ CopyOK(s)
    BY EmptyIsSession, <1>t DEF TypeOK, CurrentInv, CopyOK
  <2> QED
    BY <1>1, <2>1, NewCopy DEF Load
<1>2. CASE Create(r)
  BY <1>2, <1>s, OldCopies DEF Create
<1>3. CASE Delete(r)
  BY <1>3, <1>t, EndCopies, OldCopies DEF Delete
<1>4. CASE LoadClear(r)
  <2>1. CASE store = None
    BY <1>4, <2>1, <1>t, EndCopies, OldCopies DEF LoadClear, GiveUp
  <2>2. CASE store # None
    <3>1. store \in Session /\ CopyOK(store)
      BY <2>2 DEF CurrentInv, TypeOK
    <3> QED
      BY <1>4, <2>2, <3>1, NewCopy DEF LoadClear
  <2> QED
    BY <2>1, <2>2
<1>5. CASE SaveClear(r)
  <2>1. Cleared(snap[r]) \in Session /\ CopyOK(Cleared(snap[r]))
    BY <1>s, ClearedCopy DEF CopyOK
  <2> QED
    BY <1>5, <2>1, <1>t, EndCopies, EmptyIsSession, NoneIsNoAction
       DEF SaveClear, CurrentInv, TypeOK, CopyOK
<1>6. CASE SaveMessage(r)
  <2>1. LET s == [snap[r] EXCEPT !.msgs = @ \cup {r}] IN s \in Session /\ CopyOK(s)
    BY <1>s, MessageCopy DEF CopyOK
  <2> QED
    BY <1>6, <2>1, NewCopy DEF SaveMessage
<1>7. CASE RouteFlow(r)
  <2>1. PICK t \in {snap[r], Released(snap[r])} : Reply(r, t, {})
    BY <1>7 DEF RouteFlow
  <2> QED
    BY <2>1, <1>s, ReleasedCopy, ReplyCurrent DEF CopyOK
<1>8. CASE RouteCancel(r)
  BY <1>8, <1>s, CancelledCopy, ReplyCurrent DEF RouteCancel, CopyOK
<1>9. CASE RouteFlowCard(r) \/ LoopCard(r) \/ AfterRunCard(r)
  BY <1>9, <1>s, ReplyWithCardCurrent DEF RouteFlowCard, LoopCard, AfterRunCard
<1>10. CASE RouteFresh(r)
  <2>1. PICK t \in FreshReplies(snap[r]) : Reply(r, t, {})
    BY <1>10 DEF RouteFresh
  <2>2. t \in Session /\ CopyOK(t)
    BY <1>s, FreshReplyCopy DEF CopyOK
  <2> QED
    BY <2>1, <2>2, ReplyCurrent
<1>11. CASE RouteModel(r)
  BY <1>11, <1>s, ReleasedCopy, NewCopy DEF RouteModel, CopyOK
<1>12. CASE LoopAnswer(r) \/ DenyAccess(r) \/ AfterRejected(r)
  BY <1>12, <1>s, ReplyCurrent DEF LoopAnswer, DenyAccess, AfterRejected
<1>13. CASE LoopRound(r)
  BY <1>13, <1>s, OldCopies DEF LoopRound
<1>14. CASE LoopEnds(r) \/ RefuseConfirm(r) \/ DeclineFails(r) \/ AfterRunFails(r)
  BY <1>14, <1>t, EndCopies, OldCopies
     DEF LoopEnds, RefuseConfirm, DeclineFails, AfterRunFails, GiveUp
<1>15. CASE Decline(r)
  <2>1. act[r] \in Actions
    BY <1>15, <1>s DEF Decline, Refused
  <2>2. PICK t \in DeclineReplies(Taken(snap[r], act[r])) : Reply(r, t, {act[r]})
    BY <1>15 DEF Decline
  <2>3. t \in Session /\ CopyOK(t)
    BY <2>1, <1>s, TakenCopy, DeclineReplyCopy DEF CopyOK
  <2> QED
    BY <2>2, <2>3, ReplyCurrent
<1>16. CASE Approve(r)
  <2>1. act[r] \in Actions
    BY <1>16, <1>s DEF Approve, Refused
  <2>2. Taken(snap[r], act[r]) \in Session /\ CopyOK(Taken(snap[r], act[r]))
    BY <2>1, <1>s, TakenCopy DEF CopyOK
  <2> QED
    BY <1>16, <2>2, NewCopy DEF Approve
<1>17. CASE Authorize(r) \/ ToolRefused(r) \/ RunTool(r)
  BY <1>17, OldCopies DEF Authorize, ToolRefused, RunTool, Move
<1>18. CASE AfterAccepted(r)
  <2>1. PICK f \in FlowsAfter(snap[r], tool[act[r]], kind[r]) :
          Reply(r, [snap[r] EXCEPT !.flow = f], {})
    BY <1>18 DEF AfterAccepted
  <2>2. f \in AllFlows \cup {None}
    BY <1>s, FlowsAfterType
  <2> QED
    BY <2>1, <2>2, <1>s, FlowCopy, ReplyCurrent DEF CopyOK
<1>19. CASE SaveReply(r)
  BY <1>19, <1>s, <1>t, EndCopies, OldCopies DEF SaveReply
<1> QED
  BY <1>1, <1>2, <1>3, <1>4, <1>5, <1>6, <1>7, <1>8, <1>9, <1>10, <1>11, <1>12, <1>13,
     <1>14, <1>15, <1>16, <1>17, <1>18, <1>19 DEF Serve

\* In the store and in every handler's copy, pending_action_id names an entry of
\* pending_actions, under any interleaving of the workers and any fault: the chained
\* confirm and the sync confirm never look up an action that is not there.
THEOREM CurrentIsAlwaysPending == Spec => []CurrentIsPending
<1>1. Init => CurrentInv
  <2>1. Init => TypeOK
    BY EmptyIsSession, ConstantsAssumption DEF Init, TypeOK, Stages
  <2> QED
    BY <2>1, EmptyIsSession DEF Init, CurrentInv, CopyOK
<1>2. CurrentInv /\ TypeOK' /\ [Next]_vars => CurrentInv'
  <2>1. ASSUME CurrentInv, TypeOK', NEW r \in Requests, Serve(r)
        PROVE  CurrentInv'
    BY <2>1, ServeCurrent
  <2>2. ASSUME CurrentInv, TypeOK', NEW r \in Requests, Send(r)
        PROVE  CurrentInv'
    BY <2>2, OldCopies DEF Send
  <2>3. ASSUME CurrentInv, TypeOK', NEW r \in Requests, SaveFails(r) \/ Disconnect(r)
        PROVE  CurrentInv'
    BY <2>3, EndCopies, OldCopies DEF SaveFails, Disconnect, GiveUp, CurrentInv
  <2>4. CurrentInv /\ TypeOK' /\ UNCHANGED vars => CurrentInv'
    BY DEF CurrentInv, CopyOK, vars
  <2> QED
    BY <2>1, <2>2, <2>3, <2>4 DEF Next
<1>3. CurrentInv => CurrentIsPending
  BY DEF CurrentInv, CopyOK, CurrentIsPending, Copies
<1> QED
  BY <1>1, <1>2, <1>3, TypeCorrect, PTL DEF Spec

-----------------------------------------------------------------------------
(* Which request may run what: confirms in flight are about cards that were *)
(* shown, only approving requests reach the run stage, and a card is armed  *)
(* for its tool before it is shown.                                         *)

RunsWereApproved ==
  \A r \in ran : /\ kind[r] \in {"approve", "approve_sync"}
                /\ act[r] \in shown
                /\ tool[act[r]] # None

ApprovedInv ==
  /\ TypeOK
  /\ \A a \in shown : tool[a] # None
  /\ \A r \in Requests : card[r] # None => tool[card[r]] # None
  /\ \A r \in ran : pc[r] # "idle"
  /\ \A r \in Requests : kind[r] \in ConfirmKinds => act[r] \in shown
  /\ \A r \in Requests : pc[r] \in {"access", "run"} => kind[r] \in {"approve", "approve_sync"}
  /\ RunsWereApproved

\* What any step of r's handler may do to the cards and the runs.
Effects(r) ==
  /\ UNCHANGED <<kind, act>>
  /\ pc'[r] # "idle"
  /\ \A q \in Requests : q # r => pc'[q] = pc[q] /\ card'[q] = card[q]
  /\ \A a \in Actions : tool[a] # None => tool'[a] # None
  /\ card'[r] # None => tool'[card'[r]] # None
  /\ shown \subseteq shown' /\ shown' \subseteq shown \cup ({card[r]} \ {None})
  /\ \/ ran' = ran
     \/ ran' = ran \cup {r} /\ pc[r] = "run"
  /\ pc'[r] \in {"access", "run"}
       => pc[r] = "access" \/ kind[r] \in {"approve", "approve_sync"}

\* A request that gives up shows, arms and runs nothing.
LEMMA GiveUpEffects ==
  ASSUME ApprovedInv, NEW r \in Requests, GiveUp(r)
  PROVE  Effects(r)
BY DEF ApprovedInv, TypeOK, GiveUp, End, history, Effects

\* Nor does an answer without a card.
LEMMA ReplyEffects ==
  ASSUME ApprovedInv, NEW r \in Requests, NEW s, NEW out, Reply(r, s, out)
  PROVE  Effects(r)
BY DEF ApprovedInv, TypeOK, Reply, history, Effects

\* A new card is armed for a tool before it is shown.
LEMMA ReplyWithCardEffects ==
  ASSUME ApprovedInv, NEW r \in Requests, NEW s, NEW t \in AllTools, ReplyWithCard(r, s, t)
  PROVE  Effects(r)
<1>1. PICK a \in Fresh :
        /\ card' = [card EXCEPT ![r] = a]
        /\ tool' = [tool EXCEPT ![a] = t]
        /\ pc' = [pc EXCEPT ![r] = "save"]
        /\ UNCHANGED <<kind, act, shown, ran>>
  BY DEF ReplyWithCard
<1>2. a \in Actions /\ t # None
  BY ConstantsAssumption DEF Fresh
<1> QED
  BY <1>1, <1>2 DEF ApprovedInv, TypeOK, Effects

\* Every step of every handler has these effects only: a tool call takes effect in RunTool,
\* which only an approving confirm reaches, and a card is shown only by the save that keeps it.
LEMMA ServeEffects ==
  ASSUME ApprovedInv, NEW r \in Requests, Serve(r)
  PROVE  Effects(r)
<1>1. CASE \/ Load(r) \/ Create(r) \/ SaveMessage(r) \/ RouteModel(r)
           \/ Approve(r) \/ Authorize(r) \/ ToolRefused(r) \/ RunTool(r)
  BY <1>1 DEF ApprovedInv, TypeOK, Effects, history, Move, Load, Create, SaveMessage,
     RouteModel, Approve, Authorize, ToolRefused, RunTool
<1>2. CASE LoopRound(r)
  BY <1>2 DEF ApprovedInv, TypeOK, Effects, history, LoopRound
<1>3. CASE Delete(r) \/ SaveClear(r) \/ SaveReply(r)
  BY <1>3 DEF ApprovedInv, TypeOK, Effects, End, Delete, SaveClear, SaveReply
<1>4. CASE LoadClear(r)
  <2>1. CASE store = None
    BY <1>4, <2>1, GiveUpEffects DEF LoadClear
  <2>2. CASE store # None
    BY <1>4, <2>2 DEF ApprovedInv, TypeOK, Effects, history, LoadClear
  <2> QED
    BY <2>1, <2>2
<1>5. CASE LoopEnds(r) \/ RefuseConfirm(r) \/ DeclineFails(r) \/ AfterRunFails(r)
  BY <1>5, GiveUpEffects DEF LoopEnds, RefuseConfirm, DeclineFails, AfterRunFails
<1>6. CASE \/ RouteFlow(r) \/ RouteCancel(r) \/ RouteFresh(r) \/ LoopAnswer(r) \/ Decline(r)
           \/ DenyAccess(r) \/ AfterAccepted(r) \/ AfterRejected(r)
  BY <1>6, ReplyEffects DEF RouteFlow, RouteCancel, RouteFresh, LoopAnswer, Decline,
     DenyAccess, AfterAccepted, AfterRejected
<1>7. CASE RouteFlowCard(r) \/ LoopCard(r) \/ AfterRunCard(r)
  <2>1. PICK t \in Tools : ReplyWithCard(r, snap[r], t)
    BY <1>7 DEF RouteFlowCard, LoopCard, AfterRunCard, FlowTools, Rearms
  <2> QED
    BY <2>1, ReplyWithCardEffects, ConstantsAssumption
<1> QED
  BY <1>1, <1>2, <1>3, <1>4, <1>5, <1>6, <1>7 DEF Serve

\* A handler's step keeps every run one that was approved.
LEMMA StepApproved ==
  ASSUME ApprovedInv, TypeOK', NEW r \in Requests, Effects(r)
  PROVE  ApprovedInv'
<1>1. \A a \in shown' : tool'[a] # None
  BY DEF ApprovedInv, Effects, TypeOK
<1>2. \A q \in Requests : card'[q] # None => tool'[card'[q]] # None
  BY DEF ApprovedInv, Effects, TypeOK
<1>3. \A q \in Requests : pc'[q] \in {"access", "run"} => kind'[q] \in {"approve", "approve_sync"}
  BY DEF ApprovedInv, Effects
<1>4. \A q \in Requests : kind'[q] \in ConfirmKinds => act'[q] \in shown'
  BY DEF ApprovedInv, Effects
<1>5. \A q \in ran' : pc'[q] # "idle"
  BY DEF ApprovedInv, Effects, TypeOK
<1>6. RunsWereApproved'
  <2> SUFFICES ASSUME NEW q \in ran'
               PROVE  /\ kind'[q] \in {"approve", "approve_sync"}
                      /\ act'[q] \in shown'
                      /\ tool'[act'[q]] # None
    BY DEF RunsWereApproved
  <2>1. q \in Requests /\ kind'[q] \in {"approve", "approve_sync"}
    BY DEF ApprovedInv, RunsWereApproved, Effects, TypeOK
  <2>2. act'[q] \in shown'
    BY <2>1, <1>4 DEF ConfirmKinds
  <2> QED
    BY <2>1, <2>2, <1>1
<1> QED
  BY <1>1, <1>2, <1>3, <1>4, <1>5, <1>6 DEF ApprovedInv

\* A new request keeps the runs: it is not one of them, and asks only of cards shown.
LEMMA SendApproved ==
  ASSUME ApprovedInv, TypeOK', NEW r \in Requests, Send(r)
  PROVE  ApprovedInv'
<1>1. PICK k \in Kinds, a \in shown \cup {None} :
        /\ (k \in ConfirmKinds) <=> (a # None)
        /\ kind' = [kind EXCEPT ![r] = k]
        /\ act' = [act EXCEPT ![r] = a]
  BY DEF Send
<1>2. /\ pc[r] = "idle" /\ pc' = [pc EXCEPT ![r] = "load"]
      /\ UNCHANGED <<card, tool, shown, ran>>
  BY DEF Send, history
<1>3. r \notin ran
  BY <1>2 DEF ApprovedInv
<1> QED
  BY <1>1, <1>2, <1>3 DEF ApprovedInv, TypeOK, RunsWereApproved

\* The strengthening holds in every behaviour.
LEMMA ApprovedInvariant == Spec => []ApprovedInv
<1>1. Init => ApprovedInv
  <2>1. Init => TypeOK
    BY EmptyIsSession, ConstantsAssumption DEF Init, TypeOK, Stages
  <2> QED
    BY <2>1, ConstantsAssumption
       DEF Init, ApprovedInv, RunsWereApproved, ConfirmKinds, AllKinds
<1>2. ApprovedInv /\ TypeOK' /\ [Next]_vars => ApprovedInv'
  <2>1. ASSUME ApprovedInv, TypeOK', NEW r \in Requests, SaveFails(r) \/ Disconnect(r)
        PROVE  ApprovedInv'
    BY <2>1, GiveUpEffects, StepApproved DEF SaveFails, Disconnect
  <2>2. ASSUME ApprovedInv, TypeOK', NEW r \in Requests, Serve(r)
        PROVE  ApprovedInv'
    BY <2>2, ServeEffects, StepApproved
  <2>3. ApprovedInv /\ TypeOK' /\ UNCHANGED vars => ApprovedInv'
    BY DEF ApprovedInv, RunsWereApproved, vars, history
  <2> QED
    BY <2>1, <2>2, <2>3, SendApproved DEF Next
<1> QED
  BY <1>1, <1>2, TypeCorrect, PTL DEF Spec

-----------------------------------------------------------------------------
(* One request at a time: a card is neither lost nor answered twice.       *)
(*                                                                         *)
(* SettledNeverRuns is not inductive: it needs to know that a disposed card *)
(* is in no copy (Gone), which needs the copy a handler saves to be free of *)
(* what it took out (Apart), which needs other handlers to hold no copies   *)
(* (Alone, Resting).                                                        *)

Alone    == \A r, q \in Requests : InFlight(r) /\ InFlight(q) => r = q
Resting  == \A r \in Requests : ~InFlight(r) \/ pc[r] = "load" => snap[r].pend = {}
Untaken  == \A r \in Requests :
              pc[r] \notin {"access", "run", "accepted", "rejected", "save"}
                => taken[r] = {}
Unsaved  == \A r \in Requests : pc[r] # "save" => card[r] = None
Held     == \A r \in Requests :
              pc[r] \in {"access", "run", "accepted", "rejected"} => act[r] \in taken[r]
CardHeld == \A r \in Requests : card[r] # None => card[r] \in snap[r].pend
Apart    == \A r \in Requests : taken[r] \cap snap[r].pend = {}

Known == /\ store # None => \A a \in store.pend : tool[a] # None
         /\ \A r \in Requests : \A a \in snap[r].pend \cup taken[r] : tool[a] # None
         /\ \A a \in Actions : fate[a] # None => tool[a] # None

Gone  == \A a \in Actions : fate[a] # None =>
           /\ store # None => a \notin store.pend
           /\ \A r \in Requests : a \notin snap[r].pend \cup taken[r]

Kept  == \A a \in shown : fate[a] = None =>
           /\ store # None /\ a \in store.pend
           /\ \A r \in Requests : pc[r] \notin {"idle", "load", "closed"}
                                   => a \in snap[r].pend \cup taken[r]

SerialInv == /\ TypeOK
             /\ Alone /\ Resting /\ Untaken /\ Unsaved /\ Held /\ CardHeld /\ Apart
             /\ Known /\ Gone /\ Kept

(* While one request is open the invariant is about that request alone.    *)

OthersQuiet(r) ==
  \A q \in Requests : q # r =>
    ~InFlight(q) /\ snap[q].pend = {} /\ taken[q] = {} /\ card[q] = None

Local(r) ==
  /\ ~InFlight(r) \/ pc[r] = "load" => snap[r].pend = {}
  /\ pc[r] \notin {"access", "run", "accepted", "rejected", "save"} => taken[r] = {}
  /\ pc[r] # "save" => card[r] = None
  /\ pc[r] \in {"access", "run", "accepted", "rejected"} => act[r] \in taken[r]
  /\ card[r] # None => card[r] \in snap[r].pend
  /\ taken[r] \cap snap[r].pend = {}
  /\ store # None => \A a \in store.pend : tool[a] # None
  /\ \A a \in snap[r].pend \cup taken[r] : tool[a] # None
  /\ \A a \in Actions : fate[a] # None =>
       /\ tool[a] # None
       /\ store # None => a \notin store.pend
       /\ a \notin snap[r].pend \cup taken[r]
  /\ \A a \in shown : fate[a] = None =>
       /\ store # None /\ a \in store.pend
       /\ pc[r] \notin {"idle", "load", "closed"} => a \in snap[r].pend \cup taken[r]

\* With one request at a time, the invariant is what the request in flight sees of
\* its own copy, and silence of the others.
LEMMA SerialToLocal ==
  ASSUME SerialInv, NEW r \in Requests, InFlight(r)
  PROVE  OthersQuiet(r) /\ Local(r)
<1>1. OthersQuiet(r)
  BY DEF SerialInv, Alone, Resting, Untaken, Unsaved, OthersQuiet, InFlight
<1>2. Local(r)
  BY DEF SerialInv, Resting, Untaken, Unsaved, Held, CardHeld, Apart, Known, Gone, Kept, Local, TypeOK
<1> QED
  BY <1>1, <1>2

\* And back: what that request keeps, with silence of the others, is the invariant.
LEMMA LocalToSerial ==
  ASSUME TypeOK', NEW r \in Requests, OthersQuiet(r)', Local(r)'
  PROVE  SerialInv'
<1>1. Alone' /\ Resting'
  BY DEF OthersQuiet, Local, Alone, Resting
<1>2. Untaken' /\ Unsaved' /\ Held'
  BY DEF OthersQuiet, Local, Untaken, Unsaved, Held, InFlight
<1>3. CardHeld' /\ Apart'
  BY DEF OthersQuiet, Local, CardHeld, Apart
<1>4. Known' /\ Gone'
  BY DEF OthersQuiet, Local, Known, Gone
<1>5. Kept'
  BY DEF OthersQuiet, Local, Kept, InFlight
<1> QED
  BY <1>1, <1>2, <1>3, <1>4, <1>5 DEF SerialInv

\* The handlers of other requests are not touched.
Frame(r) ==
  \A q \in Requests : q # r =>
    pc'[q] = pc[q] /\ snap'[q] = snap[q] /\ taken'[q] = taken[q] /\ card'[q] = card[q]

\* A step that touches its own request only leaves the others silent.
LEMMA FrameQuiet ==
  ASSUME NEW r \in Requests, OthersQuiet(r), Frame(r)
  PROVE  OthersQuiet(r)'
BY DEF OthersQuiet, Frame, InFlight

\* Giving up keeps what the request in flight must keep.
LEMMA GiveUpLocal ==
  ASSUME TypeOK, NEW r \in Requests, Local(r), GiveUp(r)
  PROVE  Frame(r) /\ Local(r)'
BY EmptyIsSession DEF TypeOK, Local, Frame, GiveUp, End, history, InFlight

\* So does a reply that accounts for every card the copy had.
LEMMA ReplyLocal ==
  ASSUME TypeOK, NEW r \in Requests, Local(r), InFlight(r), pc[r] # "load",
         card[r] = None, NEW s \in Session, NEW out \in SUBSET Actions,
         s.pend \cap (taken[r] \cup out) = {},
         s.pend \cup taken[r] \cup out = snap[r].pend \cup taken[r],
         Reply(r, s, out)
  PROVE  Frame(r) /\ Local(r)'
<1>1. Frame(r)
  BY DEF TypeOK, Reply, Frame
<1>2. /\ snap'[r] = s /\ taken'[r] = taken[r] \cup out /\ pc'[r] = "save"
      /\ UNCHANGED <<store, act, card, tool, shown, fate>>
  BY DEF TypeOK, Reply, history
<1> QED
  BY <1>1, <1>2 DEF Local, InFlight

\* So does a reply with a new card.
LEMMA ReplyWithCardLocal ==
  ASSUME TypeOK, NEW r \in Requests, Local(r), InFlight(r), pc[r] # "load",
         NEW t \in AllTools, ReplyWithCard(r, snap[r], t)
  PROVE  Frame(r) /\ Local(r)'
<1>1. PICK a \in Fresh :
      /\ snap' = [snap EXCEPT ![r] = Armed(snap[r], a)]
      /\ card' = [card EXCEPT ![r] = a]
      /\ tool' = [tool EXCEPT ![a] = t]
      /\ pc' = [pc EXCEPT ![r] = "save"]
      /\ UNCHANGED <<store, kind, act, taken, round, shown, ran, fate, answered, alone>>
  BY DEF ReplyWithCard
<1>2. Frame(r)
  BY <1>1 DEF TypeOK, Frame
<1>3. /\ a \in Actions /\ tool[a] = None /\ fate[a] = None
      /\ a \notin snap[r].pend \cup taken[r]
  BY DEF Fresh, Local
<1>4. /\ snap'[r].pend = snap[r].pend \cup {a} /\ taken'[r] = taken[r]
      /\ card'[r] = a /\ pc'[r] = "save"
  BY <1>1, <1>3, ArmedCopy DEF TypeOK
<1>5. t # None /\ \A b \in Actions : tool[b] # None => tool'[b] # None
  BY <1>1, ConstantsAssumption DEF TypeOK
<1>6. tool'[a] # None
  BY <1>1, <1>3, <1>5 DEF TypeOK
<1>7. /\ snap[r].pend \subseteq Actions /\ taken[r] \subseteq Actions
      /\ store # None => store.pend \subseteq Actions
  BY SessionFields DEF TypeOK
<1> QED
  BY <1>1, <1>2, <1>3, <1>4, <1>5, <1>6, <1>7 DEF Local, InFlight

\* So does every step of every handler.
LEMMA ServeLocal ==
  ASSUME TypeOK, NEW r \in Requests, Local(r), Serve(r)
  PROVE  Frame(r) /\ Local(r)'
<1>s. snap[r] \in Session /\ snap[r].pend \subseteq Actions
  BY SessionFields DEF TypeOK
<1>e. EmptySession \in Session /\ EmptySession.pend = {}
  BY EmptyIsSession
<1>1. CASE Load(r)
  <2>1. /\ snap'[r] = (IF store = None THEN EmptySession ELSE store)
        /\ pc'[r] \in {"create", "open"}
        /\ UNCHANGED <<store, act, card, taken, tool, shown, fate>>
    BY <1>1 DEF TypeOK, Load, history
  <2>2. Frame(r)
    BY <1>1 DEF TypeOK, Load, Frame
  <2> QED
    BY <1>1, <1>e, <2>1, <2>2 DEF Load, Local, InFlight
<1>2. CASE Create(r)
  <2>1. /\ pc[r] = "create" /\ pc'[r] = "open" /\ store' = snap[r]
        /\ UNCHANGED <<act, snap, card, taken, tool, shown, fate>>
    BY <1>2 DEF TypeOK, Create, history
  <2>2. Frame(r)
    BY <1>2 DEF TypeOK, Create, Frame
  <2> QED
    BY <1>s, <2>1, <2>2, NoSessionAssumption DEF Local, InFlight
<1>3. CASE Delete(r)
  <2>1. /\ store' = None /\ shown' = shown /\ tool' = tool
        /\ pc'[r] = "closed" /\ snap'[r] = EmptySession
        /\ taken'[r] = {} /\ card'[r] = None
    BY <1>3 DEF TypeOK, Delete, End
  <2>2. Frame(r)
    BY <1>3 DEF TypeOK, Delete, End, Frame
  <2>3. \A a \in Actions : fate'[a] # None => tool[a] # None
    <3>1. \A a \in shown : fate[a] = None => tool[a] # None
      BY DEF Local
    <3> QED
      BY <1>3, <3>1 DEF TypeOK, Delete, Local
  <2>4. \A a \in shown : fate'[a] # None
    BY <1>3, ConstantsAssumption DEF TypeOK, Delete, Fates
  <2> QED
    BY <1>e, <2>1, <2>2, <2>3, <2>4 DEF Local
<1>4. CASE LoadClear(r)
  <2>1. CASE store = None
    BY <1>4, <2>1, GiveUpLocal DEF LoadClear
  <2>2. CASE store # None
    <3>1. /\ snap'[r] = store /\ pc'[r] = "open"
          /\ UNCHANGED <<store, act, card, taken, tool, shown, fate>>
      BY <1>4, <2>2 DEF TypeOK, LoadClear, history
    <3>2. Frame(r)
      BY <1>4, <2>2 DEF TypeOK, LoadClear, Frame
    <3> QED
      BY <1>4, <2>2, <3>1, <3>2 DEF LoadClear, Local, InFlight
  <2> QED
    BY <2>1, <2>2
<1>5. CASE SaveClear(r)
  <2>1. /\ store'.pend = snap[r].pend
        /\ pc'[r] = "closed" /\ snap'[r] = EmptySession
        /\ taken'[r] = {} /\ card'[r] = None
        /\ UNCHANGED <<tool, shown, fate>>
    BY <1>5, <1>s, ClearedCopy DEF TypeOK, SaveClear, End
  <2>2. store' # None
    BY <1>5, <1>s, ClearedCopy, NoSessionAssumption DEF SaveClear
  <2>3. Frame(r)
    BY <1>5 DEF TypeOK, SaveClear, End, Frame
  <2> QED
    BY <1>5, <1>e, <2>1, <2>2, <2>3 DEF SaveClear, Local
<1>6. CASE SaveMessage(r)
  <2>1. /\ store'.pend = snap[r].pend /\ snap'[r].pend = snap[r].pend
        /\ store' \in Session /\ pc'[r] = "route"
        /\ UNCHANGED <<act, card, taken, tool, shown, fate>>
    BY <1>6, <1>s, MessageCopy DEF TypeOK, SaveMessage, history
  <2>2. Frame(r)
    BY <1>6 DEF TypeOK, SaveMessage, Frame
  <2> QED
    BY <1>6, <2>1, <2>2, NoSessionAssumption DEF SaveMessage, Local, InFlight
<1>7. CASE RouteFlow(r)
  <2>1. PICK t \in {snap[r], Released(snap[r])} : Reply(r, t, {})
    BY <1>7 DEF RouteFlow
  <2>2. t \in Session /\ t.pend = snap[r].pend
    BY <1>s, ReleasedCopy
  <2> QED
    BY <1>7, <2>1, <2>2, ReplyLocal DEF RouteFlow, Local, InFlight
<1>8. CASE RouteCancel(r)
  <2>1. Cancelled(snap[r]) \in Session /\ Cancelled(snap[r]).pend = {}
    BY <1>s, CancelledCopy
  <2> QED
    BY <1>8, <1>s, <2>1, ReplyLocal DEF RouteCancel, Local, InFlight
<1>9. CASE RouteFlowCard(r)
  <2>1. PICK t \in FlowTools(snap[r].flow) : ReplyWithCard(r, snap[r], t)
    BY <1>9 DEF RouteFlowCard
  <2>2. t \in AllTools
    BY ConstantsAssumption DEF FlowTools
  <2> QED
    BY <1>9, <2>1, <2>2, ReplyWithCardLocal DEF RouteFlowCard, InFlight
<1>10. CASE RouteFresh(r)
  <2>1. PICK t \in FreshReplies(snap[r]) : Reply(r, t, {})
    BY <1>10 DEF RouteFresh
  <2>2. t \in Session /\ t.pend = snap[r].pend
    BY <1>s, FreshReplyCopy
  <2> QED
    BY <1>10, <2>1, <2>2, ReplyLocal DEF RouteFresh, Local, InFlight
<1>11. CASE RouteModel(r)
  <2>1. /\ snap'[r].pend = snap[r].pend /\ pc'[r] = "loop"
        /\ UNCHANGED <<store, act, card, taken, tool, shown, fate>>
    BY <1>11, <1>s, ReleasedCopy DEF TypeOK, RouteModel, history
  <2>2. Frame(r)
    BY <1>11 DEF TypeOK, RouteModel, Frame
  <2> QED
    BY <1>11, <2>1, <2>2 DEF RouteModel, Local, InFlight
<1>12. CASE LoopAnswer(r)
  BY <1>12, <1>s, ReplyLocal DEF LoopAnswer, Local, InFlight
<1>13. CASE LoopCard(r)
  BY <1>13, ReplyWithCardLocal, ConstantsAssumption DEF LoopCard, InFlight
<1>14. CASE LoopRound(r)
  <2>1. Frame(r)
    BY <1>14 DEF LoopRound, Frame
  <2> QED
    BY <1>14, <1>s, <2>1, NoSessionAssumption DEF LoopRound, history, Local, InFlight
<1>15. CASE LoopEnds(r) \/ RefuseConfirm(r) \/ DeclineFails(r) \/ AfterRunFails(r)
  BY <1>15, GiveUpLocal DEF LoopEnds, RefuseConfirm, DeclineFails, AfterRunFails
<1>16. CASE Decline(r)
  <2>1. act[r] \in snap[r].pend /\ act[r] \in Actions
    BY <1>16, <1>s DEF Decline, Refused
  <2>2. Taken(snap[r], act[r]) \in Session /\ Taken(snap[r], act[r]).pend = snap[r].pend \ {act[r]}
    BY <2>1, <1>s, TakenCopy
  <2>3. PICK t \in DeclineReplies(Taken(snap[r], act[r])) : Reply(r, t, {act[r]})
    BY <1>16 DEF Decline
  <2>4. t \in Session /\ t.pend = snap[r].pend \ {act[r]}
    BY <2>2, DeclineReplyCopy
  <2>5. taken[r] = {} /\ card[r] = None /\ InFlight(r) /\ pc[r] # "load"
    BY <1>16 DEF Decline, Local, InFlight
  <2> QED
    BY <2>1, <2>3, <2>4, <2>5, ReplyLocal
<1>17. CASE Approve(r)
  <2>1. act[r] \in snap[r].pend /\ act[r] \in Actions
    BY <1>17, <1>s DEF Approve, Refused
  <2>2. /\ snap'[r].pend = snap[r].pend \ {act[r]} /\ taken'[r] = {act[r]}
        /\ pc'[r] \in {"access", "run"}
        /\ UNCHANGED <<store, act, card, tool, shown, fate>>
    BY <1>17, <2>1, <1>s, TakenCopy DEF TypeOK, Approve, history
  <2>3. Frame(r)
    BY <1>17 DEF TypeOK, Approve, Frame
  <2> QED
    BY <1>17, <2>1, <2>2, <2>3 DEF Approve, Local, InFlight
<1>18. CASE Authorize(r) \/ ToolRefused(r) \/ RunTool(r)
  <2>1. /\ pc[r] \in {"access", "run"} /\ pc'[r] \in {"run", "accepted", "rejected"}
        /\ UNCHANGED <<store, act, snap, card, taken, tool, shown, fate>>
    BY <1>18 DEF TypeOK, Authorize, ToolRefused, RunTool, Move, history
  <2>2. Frame(r)
    BY <1>18 DEF TypeOK, Authorize, ToolRefused, RunTool, Move, Frame
  <2> QED
    BY <2>1, <2>2 DEF Local, InFlight
<1>19. CASE DenyAccess(r) \/ AfterRejected(r)
  <2>1. /\ pc[r] \in {"access", "rejected"} /\ Reply(r, snap[r], {})
    BY <1>19 DEF DenyAccess, AfterRejected
  <2> QED
    BY <2>1, <1>s, ReplyLocal DEF Local, InFlight
<1>20. CASE AfterAccepted(r)
  <2>1. PICK f \in FlowsAfter(snap[r], tool[act[r]], kind[r]) :
          Reply(r, [snap[r] EXCEPT !.flow = f], {})
    BY <1>20 DEF AfterAccepted
  <2>2. f \in AllFlows \cup {None}
    BY <1>s, FlowsAfterType
  <2> DEFINE s == [snap[r] EXCEPT !.flow = f]
  <2>3. s \in Session /\ s.pend = snap[r].pend
    BY <2>2, <1>s, FlowCopy
  <2>4. pc[r] = "accepted"
    BY <1>20 DEF AfterAccepted
  <2>5. InFlight(r) /\ card[r] = None /\ taken[r] \cap snap[r].pend = {}
    BY <2>4 DEF Local, InFlight
  <2> HIDE DEF s
  <2> QED
    BY <2>1, <2>3, <2>4, <2>5, ReplyLocal DEF s
<1>21. CASE AfterRunCard(r)
  <2>1. PICK t \in Rearms(snap[r], tool[act[r]], kind[r], pc[r] = "accepted") :
          ReplyWithCard(r, snap[r], t)
    BY <1>21 DEF AfterRunCard
  <2>2. t \in AllTools
    BY ConstantsAssumption DEF Rearms
  <2> QED
    BY <1>21, <2>1, <2>2, ReplyWithCardLocal DEF AfterRunCard, InFlight
<1>22. CASE SaveReply(r)
  <2>1. /\ store' = snap[r] /\ tool' = tool
        /\ shown' = shown \cup ({card[r]} \ {None})
        /\ pc'[r] = "closed" /\ snap'[r] = EmptySession
        /\ taken'[r] = {} /\ card'[r] = None
    BY <1>22 DEF TypeOK, SaveReply, End
  <2>2. \A a \in Actions : fate'[a] = IF a \in taken[r] THEN Verdict(kind[r]) ELSE fate[a]
    BY <1>22 DEF SaveReply
  <2>3. Verdict(kind[r]) # None
    BY ConstantsAssumption DEF Verdict, Fates
  <2>4. Frame(r)
    BY <1>22 DEF TypeOK, SaveReply, End, Frame
  <2>5. pc[r] = "save" /\ shown \subseteq Actions /\ taken[r] \subseteq Actions
    BY <1>22 DEF SaveReply, TypeOK
  <2> QED
    BY <1>s, <1>e, <2>1, <2>2, <2>3, <2>4, <2>5, NoSessionAssumption DEF Local
<1> QED
  BY <1>1, <1>2, <1>3, <1>4, <1>5, <1>6, <1>7, <1>8, <1>9, <1>10, <1>11, <1>12, <1>13,
     <1>14, <1>15, <1>16, <1>17, <1>18, <1>19, <1>20, <1>21, <1>22 DEF Serve

\* A new request starts only when none is in flight, and keeps the invariant.
LEMMA SendSerial ==
  ASSUME Serial, SerialInv, TypeOK', NEW r \in Requests, Send(r)
  PROVE  SerialInv'
<1>1. /\ pc[r] = "idle" /\ \A q \in Requests : ~InFlight(q)
      /\ pc' = [pc EXCEPT ![r] = "load"]
      /\ UNCHANGED <<store, snap, card, taken, tool, shown, fate>>
  BY DEF Send, history
<1>2. \A q \in Requests : q # r => pc'[q] = pc[q]
  BY <1>1 DEF SerialInv, TypeOK
<1>3. pc'[r] = "load"
  BY <1>1 DEF SerialInv, TypeOK
<1>4. OthersQuiet(r)'
  BY <1>1, <1>2 DEF SerialInv, Resting, Untaken, Unsaved, OthersQuiet, InFlight
<1>5. Local(r)
  BY <1>1 DEF SerialInv, Resting, Untaken, Unsaved, Held, CardHeld, Apart, Known, Gone,
              Kept, Local, TypeOK
<1>6. Local(r)'
  BY <1>1, <1>3, <1>5 DEF Local, InFlight
<1> QED
  BY <1>4, <1>6, LocalToSerial

\* While a request in flight steps, the others stay silent.
LEMMA StepQuiet ==
  ASSUME SerialInv, NEW r \in Requests,
         Serve(r) \/ SaveFails(r) \/ Disconnect(r)
  PROVE  /\ InFlight(r) /\ OthersQuiet(r) /\ Local(r)
         /\ Frame(r) /\ OthersQuiet(r)' /\ Local(r)'
<1>1. TypeOK /\ InFlight(r)
  BY DEF SerialInv, InFlight, Serve, SaveFails, Disconnect, Load, Create, Delete, LoadClear,
         SaveClear, SaveMessage, RouteFlow, RouteCancel, RouteFlowCard, RouteFresh, RouteModel,
         LoopAnswer, LoopCard, LoopRound, LoopEnds, RefuseConfirm, Decline, DeclineFails,
         Approve, Authorize, DenyAccess, RunTool, ToolRefused, AfterAccepted, AfterRejected,
         AfterRunCard, AfterRunFails, SaveReply
<1>2. OthersQuiet(r) /\ Local(r)
  BY <1>1, SerialToLocal
<1>3. Serve(r) => Frame(r) /\ Local(r)'
  BY <1>1, <1>2, ServeLocal
<1>4. SaveFails(r) \/ Disconnect(r) => Frame(r) /\ Local(r)'
  BY <1>1, <1>2, GiveUpLocal DEF SaveFails, Disconnect
<1>5. Frame(r) /\ Local(r)'
  BY <1>3, <1>4
<1> QED
  BY <1>1, <1>2, <1>5, FrameQuiet

\* The step of a request in flight keeps the invariant.
LEMMA StepSerial ==
  ASSUME SerialInv, TypeOK', NEW r \in Requests,
         Serve(r) \/ SaveFails(r) \/ Disconnect(r)
  PROVE  SerialInv'
BY StepQuiet, LocalToSerial

\* With one request at a time, cards and their fates stay in order in every behaviour:
\* the strengthening that SettledCardsNeverRun and CardsDoNotVanish rest on.
THEOREM SerialInvariant == ASSUME Serial PROVE Spec => []SerialInv
<1>1. Init => SerialInv
  <2>1. Init => TypeOK
    BY EmptyIsSession, ConstantsAssumption DEF Init, TypeOK, Stages
  <2> QED
    BY <2>1, EmptyIsSession DEF Init, SerialInv, Alone, Resting, Untaken, Unsaved, Held,
       CardHeld, Apart, Known, Gone, Kept, InFlight
<1>2. SerialInv /\ TypeOK' /\ [Next]_vars => SerialInv'
  <2>1. SerialInv /\ TypeOK' /\ UNCHANGED vars => SerialInv'
    BY DEF SerialInv, Alone, Resting, Untaken, Unsaved, Held, CardHeld, Apart, Known, Gone,
           Kept, InFlight, vars, history
  <2> QED
    BY <2>1, SendSerial, StepSerial DEF Next
<1> QED
  BY <1>1, <1>2, TypeCorrect, PTL DEF Spec

\* When the widget sends one request at a time, a card that a saved answer disposed of
\* (approved, declined, cancelled or deleted) never takes effect on the platform again,
\* whatever connections and saves are lost.
THEOREM SettledCardsNeverRun == ASSUME Serial PROVE Spec => SettledNeverRuns
<1>1. SerialInv /\ [Next]_vars => [\A r \in ran' \ ran : fate[act[r]] = None]_vars
  <2> SUFFICES ASSUME SerialInv, Next, NEW q \in ran' \ ran
               PROVE  fate[act[q]] = None
    BY DEF vars
  <2>1. PICK r \in Requests : Send(r) \/ Serve(r) \/ SaveFails(r) \/ Disconnect(r)
    BY DEF Next
  <2>2. RunTool(r) /\ q = r
    BY <2>1 DEF Serve, Send, SaveFails, Disconnect, Load, Create, Delete, LoadClear, SaveClear,
       SaveMessage, RouteFlow, RouteCancel, RouteFlowCard, RouteFresh, RouteModel, LoopAnswer,
       LoopCard, LoopRound, LoopEnds, RefuseConfirm, Decline, DeclineFails, Approve, Authorize,
       DenyAccess, RunTool, ToolRefused, AfterAccepted, AfterRejected, AfterRunCard,
       AfterRunFails, SaveReply, Reply, ReplyWithCard, Move, GiveUp, history
  <2>3. act[r] \in taken[r] /\ act[r] \in Actions
    BY <2>2 DEF SerialInv, Held, RunTool, TypeOK
  <2> QED
    BY <2>2, <2>3 DEF SerialInv, Gone
<1> QED
  BY <1>1, SerialInvariant, PTL DEF Spec, SettledNeverRuns

\* When the widget sends one request at a time, a card that was shown and not disposed of
\* stays answerable: no other turn, confirm, new chat or failed request loses it.
THEOREM CardsDoNotVanish == ASSUME Serial PROVE Spec => []NoVanishedCard
<1>1. SerialInv => NoVanishedCard
  BY DEF SerialInv, Kept, NoVanishedCard
<1> QED
  BY <1>1, SerialInvariant, PTL

-----------------------------------------------------------------------------
(* However requests overlap: a card settled alone stays settled.           *)
(*                                                                         *)
(* Nothing bounds the requests in flight here, so the invariant is what    *)
(* each handler may say of its OWN copy, and of the cards settled while no *)
(* other copy existed (alone): they are in no copy and not in the store, and*)
(* since a copy takes its cards from the store, none gets them back.       *)

Own(r) ==
  /\ ~InFlight(r) \/ pc[r] = "load" => snap[r].pend = {}
  /\ pc[r] \notin {"access", "run", "accepted", "rejected", "save"} => taken[r] = {}
  /\ pc[r] # "save" => card[r] = None
  /\ pc[r] \in {"access", "run", "accepted", "rejected"} => act[r] \in taken[r]
  /\ card[r] # None => card[r] \in snap[r].pend
  /\ taken[r] \cap snap[r].pend = {}
  /\ store # None => \A a \in store.pend : tool[a] # None
  /\ \A a \in snap[r].pend \cup taken[r] : tool[a] # None
  /\ \A a \in shown : tool[a] # None
  /\ \A a \in alone :
       /\ tool[a] # None
       /\ store # None => a \notin store.pend
       /\ a \notin snap[r].pend \cup taken[r]

OwnInv == TypeOK /\ \A r \in Requests : Own(r)

\* Giving up keeps what the handler's own copy has.
LEMMA GiveUpOwn ==
  ASSUME TypeOK, NEW r \in Requests, Own(r), GiveUp(r)
  PROVE  Frame(r) /\ Own(r)'
BY EmptyIsSession DEF TypeOK, Own, Frame, GiveUp, End, history, InFlight

\* So does a reply that accounts for every card the copy had.
LEMMA ReplyOwn ==
  ASSUME TypeOK, NEW r \in Requests, Own(r), InFlight(r), pc[r] # "load",
         card[r] = None, NEW s \in Session, NEW out \in SUBSET Actions,
         s.pend \cap (taken[r] \cup out) = {},
         s.pend \cup taken[r] \cup out = snap[r].pend \cup taken[r],
         Reply(r, s, out)
  PROVE  Frame(r) /\ Own(r)'
<1>1. Frame(r)
  BY DEF TypeOK, Reply, Frame
<1>2. /\ snap'[r] = s /\ taken'[r] = taken[r] \cup out /\ pc'[r] = "save"
      /\ UNCHANGED <<store, act, card, tool, shown, alone>>
  BY DEF TypeOK, Reply, history
<1> QED
  BY <1>1, <1>2 DEF Own, InFlight

\* So does a reply with a new card.
LEMMA ReplyWithCardOwn ==
  ASSUME TypeOK, NEW r \in Requests, Own(r), InFlight(r), pc[r] # "load",
         NEW t \in AllTools, ReplyWithCard(r, snap[r], t)
  PROVE  Frame(r) /\ Own(r)'
<1>1. PICK a \in Fresh :
      /\ snap' = [snap EXCEPT ![r] = Armed(snap[r], a)]
      /\ card' = [card EXCEPT ![r] = a]
      /\ tool' = [tool EXCEPT ![a] = t]
      /\ pc' = [pc EXCEPT ![r] = "save"]
      /\ UNCHANGED <<store, kind, act, taken, round, shown, ran, fate, answered, alone>>
  BY DEF ReplyWithCard
<1>2. Frame(r)
  BY <1>1 DEF TypeOK, Frame
<1>3. /\ a \in Actions /\ tool[a] = None /\ a \notin alone
      /\ a \notin snap[r].pend \cup taken[r]
  BY DEF Fresh, Own
<1>4. /\ snap'[r].pend = snap[r].pend \cup {a} /\ taken'[r] = taken[r]
      /\ card'[r] = a /\ pc'[r] = "save"
  BY <1>1, <1>3, ArmedCopy DEF TypeOK
<1>5. t # None /\ \A b \in Actions : tool[b] # None => tool'[b] # None
  BY <1>1, ConstantsAssumption DEF TypeOK
<1>6. tool'[a] # None
  BY <1>1, <1>3, <1>5 DEF TypeOK
<1>7. /\ snap[r].pend \subseteq Actions /\ taken[r] \subseteq Actions
      /\ store # None => store.pend \subseteq Actions
  BY SessionFields DEF TypeOK
<1> QED
  BY <1>1, <1>2, <1>3, <1>4, <1>5, <1>6, <1>7 DEF Own, InFlight

\* So does every step of every handler.
LEMMA ServeOwn ==
  ASSUME TypeOK, NEW r \in Requests, Own(r), Serve(r)
  PROVE  Frame(r) /\ Own(r)'
<1>s. snap[r] \in Session /\ snap[r].pend \subseteq Actions
  BY SessionFields DEF TypeOK
<1>e. EmptySession \in Session /\ EmptySession.pend = {}
  BY EmptyIsSession
<1>1. CASE Load(r)
  <2>1. /\ snap'[r] = (IF store = None THEN EmptySession ELSE store)
        /\ pc'[r] \in {"create", "open"}
        /\ UNCHANGED <<store, act, card, taken, tool, shown, alone>>
    BY <1>1 DEF TypeOK, Load, history
  <2>2. Frame(r)
    BY <1>1 DEF TypeOK, Load, Frame
  <2> QED
    BY <1>1, <1>e, <2>1, <2>2 DEF Load, Own, InFlight
<1>2. CASE Create(r)
  <2>1. /\ pc[r] = "create" /\ pc'[r] = "open" /\ store' = snap[r]
        /\ UNCHANGED <<act, snap, card, taken, tool, shown, alone>>
    BY <1>2 DEF TypeOK, Create, history
  <2>2. Frame(r)
    BY <1>2 DEF TypeOK, Create, Frame
  <2> QED
    BY <1>s, <2>1, <2>2, NoSessionAssumption DEF Own, InFlight
<1>3. CASE Delete(r)
  <2>1. /\ store' = None /\ shown' = shown /\ tool' = tool
        /\ pc'[r] = "closed" /\ snap'[r] = EmptySession
        /\ taken'[r] = {} /\ card'[r] = None
    BY <1>3 DEF TypeOK, Delete, End
  <2>2. Frame(r)
    BY <1>3 DEF TypeOK, Delete, End, Frame
  <2>3. \A a \in alone' : tool[a] # None
    BY <1>3 DEF Delete, Own
  <2> QED
    BY <1>e, <2>1, <2>2, <2>3 DEF Own
<1>4. CASE LoadClear(r)
  <2>1. CASE store = None
    BY <1>4, <2>1, GiveUpOwn DEF LoadClear
  <2>2. CASE store # None
    <3>1. /\ snap'[r] = store /\ pc'[r] = "open"
          /\ UNCHANGED <<store, act, card, taken, tool, shown, alone>>
      BY <1>4, <2>2 DEF TypeOK, LoadClear, history
    <3>2. Frame(r)
      BY <1>4, <2>2 DEF TypeOK, LoadClear, Frame
    <3> QED
      BY <1>4, <2>2, <3>1, <3>2 DEF LoadClear, Own, InFlight
  <2> QED
    BY <2>1, <2>2
<1>5. CASE SaveClear(r)
  <2>1. /\ store'.pend = snap[r].pend
        /\ pc'[r] = "closed" /\ snap'[r] = EmptySession
        /\ taken'[r] = {} /\ card'[r] = None
        /\ UNCHANGED <<tool, shown, alone>>
    BY <1>5, <1>s, ClearedCopy DEF TypeOK, SaveClear, End
  <2>2. store' # None
    BY <1>5, <1>s, ClearedCopy, NoSessionAssumption DEF SaveClear
  <2>3. Frame(r)
    BY <1>5 DEF TypeOK, SaveClear, End, Frame
  <2> QED
    BY <1>5, <1>e, <2>1, <2>2, <2>3 DEF SaveClear, Own
<1>6. CASE SaveMessage(r)
  <2>1. /\ store'.pend = snap[r].pend /\ snap'[r].pend = snap[r].pend
        /\ store' \in Session /\ pc'[r] = "route"
        /\ UNCHANGED <<act, card, taken, tool, shown, alone>>
    BY <1>6, <1>s, MessageCopy DEF TypeOK, SaveMessage, history
  <2>2. Frame(r)
    BY <1>6 DEF TypeOK, SaveMessage, Frame
  <2> QED
    BY <1>6, <2>1, <2>2, NoSessionAssumption DEF SaveMessage, Own, InFlight
<1>7. CASE RouteFlow(r)
  <2>1. PICK t \in {snap[r], Released(snap[r])} : Reply(r, t, {})
    BY <1>7 DEF RouteFlow
  <2>2. t \in Session /\ t.pend = snap[r].pend
    BY <1>s, ReleasedCopy
  <2> QED
    BY <1>7, <2>1, <2>2, ReplyOwn DEF RouteFlow, Own, InFlight
<1>8. CASE RouteCancel(r)
  <2>1. Cancelled(snap[r]) \in Session /\ Cancelled(snap[r]).pend = {}
    BY <1>s, CancelledCopy
  <2> QED
    BY <1>8, <1>s, <2>1, ReplyOwn DEF RouteCancel, Own, InFlight
<1>9. CASE RouteFlowCard(r)
  <2>1. PICK t \in FlowTools(snap[r].flow) : ReplyWithCard(r, snap[r], t)
    BY <1>9 DEF RouteFlowCard
  <2>2. t \in AllTools
    BY ConstantsAssumption DEF FlowTools
  <2> QED
    BY <1>9, <2>1, <2>2, ReplyWithCardOwn DEF RouteFlowCard, InFlight
<1>10. CASE RouteFresh(r)
  <2>1. PICK t \in FreshReplies(snap[r]) : Reply(r, t, {})
    BY <1>10 DEF RouteFresh
  <2>2. t \in Session /\ t.pend = snap[r].pend
    BY <1>s, FreshReplyCopy
  <2> QED
    BY <1>10, <2>1, <2>2, ReplyOwn DEF RouteFresh, Own, InFlight
<1>11. CASE RouteModel(r)
  <2>1. /\ snap'[r].pend = snap[r].pend /\ pc'[r] = "loop"
        /\ UNCHANGED <<store, act, card, taken, tool, shown, alone>>
    BY <1>11, <1>s, ReleasedCopy DEF TypeOK, RouteModel, history
  <2>2. Frame(r)
    BY <1>11 DEF TypeOK, RouteModel, Frame
  <2> QED
    BY <1>11, <2>1, <2>2 DEF RouteModel, Own, InFlight
<1>12. CASE LoopAnswer(r)
  BY <1>12, <1>s, ReplyOwn DEF LoopAnswer, Own, InFlight
<1>13. CASE LoopCard(r)
  BY <1>13, ReplyWithCardOwn, ConstantsAssumption DEF LoopCard, InFlight
<1>14. CASE LoopRound(r)
  <2>1. Frame(r)
    BY <1>14 DEF LoopRound, Frame
  <2> QED
    BY <1>14, <1>s, <2>1, NoSessionAssumption DEF LoopRound, history, Own, InFlight
<1>15. CASE LoopEnds(r) \/ RefuseConfirm(r) \/ DeclineFails(r) \/ AfterRunFails(r)
  BY <1>15, GiveUpOwn DEF LoopEnds, RefuseConfirm, DeclineFails, AfterRunFails
<1>16. CASE Decline(r)
  <2>1. act[r] \in snap[r].pend /\ act[r] \in Actions
    BY <1>16, <1>s DEF Decline, Refused
  <2>2. Taken(snap[r], act[r]) \in Session /\ Taken(snap[r], act[r]).pend = snap[r].pend \ {act[r]}
    BY <2>1, <1>s, TakenCopy
  <2>3. PICK t \in DeclineReplies(Taken(snap[r], act[r])) : Reply(r, t, {act[r]})
    BY <1>16 DEF Decline
  <2>4. t \in Session /\ t.pend = snap[r].pend \ {act[r]}
    BY <2>2, DeclineReplyCopy
  <2>5. taken[r] = {} /\ card[r] = None /\ InFlight(r) /\ pc[r] # "load"
    BY <1>16 DEF Decline, Own, InFlight
  <2> QED
    BY <2>1, <2>3, <2>4, <2>5, ReplyOwn
<1>17. CASE Approve(r)
  <2>1. act[r] \in snap[r].pend /\ act[r] \in Actions
    BY <1>17, <1>s DEF Approve, Refused
  <2>2. /\ snap'[r].pend = snap[r].pend \ {act[r]} /\ taken'[r] = {act[r]}
        /\ pc'[r] \in {"access", "run"}
        /\ UNCHANGED <<store, act, card, tool, shown, alone>>
    BY <1>17, <2>1, <1>s, TakenCopy DEF TypeOK, Approve, history
  <2>3. Frame(r)
    BY <1>17 DEF TypeOK, Approve, Frame
  <2> QED
    BY <1>17, <2>1, <2>2, <2>3 DEF Approve, Own, InFlight
<1>18. CASE Authorize(r) \/ ToolRefused(r) \/ RunTool(r)
  <2>1. /\ pc[r] \in {"access", "run"} /\ pc'[r] \in {"run", "accepted", "rejected"}
        /\ UNCHANGED <<store, act, snap, card, taken, tool, shown, alone>>
    BY <1>18 DEF TypeOK, Authorize, ToolRefused, RunTool, Move, history
  <2>2. Frame(r)
    BY <1>18 DEF TypeOK, Authorize, ToolRefused, RunTool, Move, Frame
  <2> QED
    BY <2>1, <2>2 DEF Own, InFlight
<1>19. CASE DenyAccess(r) \/ AfterRejected(r)
  <2>1. /\ pc[r] \in {"access", "rejected"} /\ Reply(r, snap[r], {})
    BY <1>19 DEF DenyAccess, AfterRejected
  <2> QED
    BY <2>1, <1>s, ReplyOwn DEF Own, InFlight
<1>20. CASE AfterAccepted(r)
  <2>1. PICK f \in FlowsAfter(snap[r], tool[act[r]], kind[r]) :
          Reply(r, [snap[r] EXCEPT !.flow = f], {})
    BY <1>20 DEF AfterAccepted
  <2>2. f \in AllFlows \cup {None}
    BY <1>s, FlowsAfterType
  <2> DEFINE s == [snap[r] EXCEPT !.flow = f]
  <2>3. s \in Session /\ s.pend = snap[r].pend
    BY <2>2, <1>s, FlowCopy
  <2>4. pc[r] = "accepted"
    BY <1>20 DEF AfterAccepted
  <2>5. InFlight(r) /\ card[r] = None /\ taken[r] \cap snap[r].pend = {}
    BY <2>4 DEF Own, InFlight
  <2> HIDE DEF s
  <2> QED
    BY <2>1, <2>3, <2>4, <2>5, ReplyOwn DEF s
<1>21. CASE AfterRunCard(r)
  <2>1. PICK t \in Rearms(snap[r], tool[act[r]], kind[r], pc[r] = "accepted") :
          ReplyWithCard(r, snap[r], t)
    BY <1>21 DEF AfterRunCard
  <2>2. t \in AllTools
    BY ConstantsAssumption DEF Rearms
  <2> QED
    BY <1>21, <2>1, <2>2, ReplyWithCardOwn DEF AfterRunCard, InFlight
<1>22. CASE SaveReply(r)
  <2>1. /\ store' = snap[r] /\ tool' = tool
        /\ shown' = shown \cup ({card[r]} \ {None})
        /\ pc'[r] = "closed" /\ snap'[r] = EmptySession
        /\ taken'[r] = {} /\ card'[r] = None
    BY <1>22 DEF TypeOK, SaveReply, End
  <2>2. alone' \subseteq alone \cup taken[r]
    BY <1>22 DEF SaveReply
  <2>3. \A a \in alone' : tool[a] # None /\ a \notin snap[r].pend
    BY <2>2 DEF Own
  <2>4. Frame(r)
    BY <1>22 DEF TypeOK, SaveReply, End, Frame
  <2>5. pc[r] = "save" /\ shown \subseteq Actions /\ taken[r] \subseteq Actions
    BY <1>22 DEF SaveReply, TypeOK
  <2> QED
    BY <1>s, <1>e, <2>1, <2>3, <2>4, <2>5, NoSessionAssumption DEF Own
<1> QED
  BY <1>1, <1>2, <1>3, <1>4, <1>5, <1>6, <1>7, <1>8, <1>9, <1>10, <1>11, <1>12, <1>13,
     <1>14, <1>15, <1>16, <1>17, <1>18, <1>19, <1>20, <1>21, <1>22 DEF Serve

\* A card is added to those settled alone only when no other handler holds a copy.
LEMMA SettledOnlyAlone ==
  ASSUME TypeOK, NEW r \in Requests, Serve(r) \/ SaveFails(r) \/ Disconnect(r)
  PROVE  /\ alone' = alone \/ Undisturbed(r)
         /\ \A a \in Actions : tool[a] # None => tool'[a] # None
         /\ UNCHANGED act
<1>1. CASE RouteFlowCard(r) \/ LoopCard(r) \/ AfterRunCard(r)
  <2>1. PICK t \in AllTools : ReplyWithCard(r, snap[r], t)
    BY <1>1, ConstantsAssumption DEF RouteFlowCard, LoopCard, AfterRunCard, FlowTools, Rearms
  <2>2. PICK a \in Fresh : tool' = [tool EXCEPT ![a] = t] /\ UNCHANGED <<act, alone>>
    BY <2>1 DEF ReplyWithCard
  <2> QED
    BY <2>2, ConstantsAssumption DEF TypeOK, Fresh
<1>2. CASE Delete(r) \/ SaveReply(r) \/ SaveClear(r) \/ RunTool(r)
  BY <1>2 DEF Delete, SaveReply, SaveClear, RunTool, End
<1>3. CASE ~ (\/ RouteFlowCard(r) \/ LoopCard(r) \/ AfterRunCard(r)
              \/ Delete(r) \/ SaveReply(r) \/ SaveClear(r) \/ RunTool(r))
  BY <1>3 DEF Serve, SaveFails, Disconnect, Load, Create, LoadClear, SaveMessage, RouteFlow,
     RouteCancel, RouteFresh, RouteModel, LoopAnswer, LoopRound, LoopEnds, RefuseConfirm,
     Decline, DeclineFails, Approve, Authorize, DenyAccess, ToolRefused, AfterAccepted,
     AfterRejected, AfterRunFails, Reply, Move, GiveUp, End, history
<1> QED
  BY <1>1, <1>2, <1>3

\* A handler's step keeps what every other handler says of its own copy.
LEMMA StepOwn ==
  ASSUME OwnInv, TypeOK', NEW r \in Requests, Serve(r) \/ SaveFails(r) \/ Disconnect(r)
  PROVE  OwnInv'
<1>1. TypeOK /\ Own(r)
  BY DEF OwnInv
<1>2. Frame(r) /\ Own(r)'
  BY <1>1, ServeOwn, GiveUpOwn DEF SaveFails, Disconnect
<1>3. ASSUME NEW q \in Requests, q # r
      PROVE  Own(q)'
  <2>1. Own(q) /\ q \in Requests
    BY <1>3 DEF OwnInv
  <2>2. /\ pc'[q] = pc[q] /\ snap'[q] = snap[q] /\ taken'[q] = taken[q] /\ card'[q] = card[q]
        /\ UNCHANGED act /\ snap[q].pend \cup taken[q] \subseteq Actions
        /\ \A a \in Actions : tool[a] # None => tool'[a] # None
    BY <1>1, <1>2, <1>3, SettledOnlyAlone, SessionFields DEF Frame, TypeOK
  <2>3. \A a \in alone' : a \notin snap[q].pend \cup taken[q]
    <3>1. CASE alone' = alone
      BY <2>1, <3>1 DEF Own
    <3>2. CASE Undisturbed(r)
      <4>1. ~InFlight(q)
        BY <1>3, <3>2 DEF Undisturbed
      <4>2. pc[q] \notin {"access", "run", "accepted", "rejected", "save"}
        BY <4>1 DEF InFlight
      <4> QED
        BY <2>1, <4>1, <4>2 DEF Own
    <3> QED
      BY <1>1, <3>1, <3>2, SettledOnlyAlone
  <2> QED
    BY <1>2, <2>1, <2>2, <2>3 DEF Own, InFlight
<1> QED
  BY <1>2, <1>3 DEF OwnInv

\* A new request brings no copy with it.
LEMMA SendOwn ==
  ASSUME OwnInv, TypeOK', NEW r \in Requests, Send(r)
  PROVE  OwnInv'
<1>1. /\ pc[r] = "idle" /\ pc' = [pc EXCEPT ![r] = "load"]
      /\ \A q \in Requests : q # r => act'[q] = act[q]
      /\ UNCHANGED <<store, snap, card, taken, tool, shown, alone>>
  BY DEF Send, history, OwnInv, TypeOK
<1>2. ASSUME NEW q \in Requests
      PROVE  Own(q)'
  <2>1. Own(q)
    BY DEF OwnInv
  <2>2. CASE q = r
    <3>1. pc'[q] = "load"
      BY <1>1, <2>2 DEF OwnInv, TypeOK
    <3> QED
      BY <1>1, <2>1, <2>2, <3>1 DEF Own, InFlight
  <2>3. CASE q # r
    <3>1. pc'[q] = pc[q] /\ act'[q] = act[q]
      BY <1>1, <2>3 DEF OwnInv, TypeOK
    <3> QED
      BY <1>1, <2>1, <3>1 DEF Own, InFlight
  <2> QED
    BY <2>2, <2>3
<1> QED
  BY <1>2 DEF OwnInv

\* Every handler's copy is in order in every behaviour, whatever overlaps and fails.
LEMMA OwnInvariant == Spec => []OwnInv
<1>1. Init => OwnInv
  <2>1. Init => TypeOK
    BY EmptyIsSession, ConstantsAssumption DEF Init, TypeOK, Stages
  <2> QED
    BY <2>1, EmptyIsSession DEF Init, OwnInv, Own, InFlight
<1>2. OwnInv /\ TypeOK' /\ [Next]_vars => OwnInv'
  <2>1. OwnInv /\ TypeOK' /\ UNCHANGED vars => OwnInv'
    BY DEF OwnInv, Own, InFlight, vars, history
  <2> QED
    BY <2>1, SendOwn, StepOwn DEF Next
<1> QED
  BY <1>1, <1>2, TypeCorrect, PTL DEF Spec

\* A card settled while its request was alone in flight is settled for good: however many
\* requests overlap afterwards and whatever saves and connections are lost, none runs it
\* and no save brings it back into the store.
THEOREM SettledAloneStaysSettled == Spec => SettledAloneIsFinal
<1>1. OwnInv /\ OwnInv' /\ [Next]_vars
        => [/\ \A r \in ran' \ ran : act[r] \notin alone
            /\ \A a \in alone : store' # None => a \notin store'.pend]_vars
  <2> SUFFICES ASSUME OwnInv, OwnInv', Next
               PROVE  /\ \A r \in ran' \ ran : act[r] \notin alone
                      /\ \A a \in alone : store' # None => a \notin store'.pend
    BY DEF vars
  <2>1. PICK r \in Requests : Send(r) \/ Serve(r) \/ SaveFails(r) \/ Disconnect(r)
    BY DEF Next
  <2>2. ASSUME NEW q \in ran' \ ran
        PROVE  act[q] \notin alone
    <3>1. RunTool(r) /\ q = r
      BY <2>1, <2>2 DEF Serve, Send, SaveFails, Disconnect, Load, Create, Delete, LoadClear,
         SaveClear, SaveMessage, RouteFlow, RouteCancel, RouteFlowCard, RouteFresh, RouteModel,
         LoopAnswer, LoopCard, LoopRound, LoopEnds, RefuseConfirm, Decline, DeclineFails,
         Approve, Authorize, DenyAccess, RunTool, ToolRefused, AfterAccepted, AfterRejected,
         AfterRunCard, AfterRunFails, SaveReply, Reply, ReplyWithCard, Move, GiveUp, history
    <3> QED
      BY <3>1 DEF RunTool, OwnInv, Own
  <2>3. alone \subseteq alone'
    BY <2>1 DEF Serve, Send, SaveFails, Disconnect, Load, Create, Delete, LoadClear,
       SaveClear, SaveMessage, RouteFlow, RouteCancel, RouteFlowCard, RouteFresh, RouteModel,
       LoopAnswer, LoopCard, LoopRound, LoopEnds, RefuseConfirm, Decline, DeclineFails,
       Approve, Authorize, DenyAccess, RunTool, ToolRefused, AfterAccepted, AfterRejected,
       AfterRunCard, AfterRunFails, SaveReply, Reply, ReplyWithCard, Move, GiveUp, history
  <2> QED
    BY <2>1, <2>2, <2>3 DEF OwnInv, Own
<1> QED
  BY <1>1, OwnInvariant, PTL DEF Spec, SettledAloneIsFinal

-----------------------------------------------------------------------------
(* One request at a time: no answered turn is lost.                        *)
(*                                                                         *)
(* NoLostTurn alone is not inductive: every save writes back a private copy,*)
(* so the copy of the request in flight has to hold what the store holds.  *)

\* The request r, the store and the conversation agree on what was answered.
TurnKept(r) ==
  /\ answered \subseteq (IF store = None THEN {} ELSE store.msgs)
  /\ pc[r] \notin {"idle", "load", "closed"} => answered \subseteq snap[r].msgs
  /\ kind[r] = "turn" /\ pc[r] \notin {"idle", "load", "create", "open", "closed"}
       => r \in snap[r].msgs

TurnsInv == SerialInv /\ \A r \in Requests : TurnKept(r)

\* A request that gives up saves nothing.
LEMMA GiveUpTurns ==
  ASSUME TypeOK, NEW r \in Requests, TurnKept(r), GiveUp(r)
  PROVE  TurnKept(r)'
BY DEF TypeOK, TurnKept, GiveUp, End, history

\* An answer on a copy that keeps the messages keeps the turns.
LEMMA ReplyTurns ==
  ASSUME TypeOK, NEW r \in Requests, TurnKept(r), pc[r] \notin {"idle", "load", "create", "closed"},
         kind[r] = "turn" => pc[r] # "open", NEW s, s.msgs = snap[r].msgs, NEW out, Reply(r, s, out)
  PROVE  TurnKept(r)'
BY DEF TypeOK, TurnKept, Reply, history

\* So does arming a card.
LEMMA ReplyWithCardTurns ==
  ASSUME TypeOK, NEW r \in Requests, TurnKept(r), pc[r] \notin {"idle", "load", "create", "open", "closed"},
         NEW t, ReplyWithCard(r, snap[r], t)
  PROVE  TurnKept(r)'
<1>1. PICK a \in Fresh :
        /\ snap' = [snap EXCEPT ![r] = Armed(snap[r], a)]
        /\ pc' = [pc EXCEPT ![r] = "save"]
        /\ UNCHANGED <<store, kind, answered>>
  BY DEF ReplyWithCard
<1>2. snap'[r].msgs = snap[r].msgs
  BY <1>1, ArmedCopy DEF Fresh, TypeOK
<1> QED
  BY <1>1, <1>2 DEF TypeOK, TurnKept

\* No step of a handler loses an answered turn from the copy it works on or saves.
LEMMA ServeTurns ==
  ASSUME TypeOK, NEW r \in Requests, TurnKept(r), Serve(r)
  PROVE  TurnKept(r)'
<1>s. snap[r] \in Session
  BY DEF TypeOK
<1>1. CASE Load(r)
  BY <1>1 DEF TypeOK, TurnKept, Load, history
<1>2. CASE Create(r) \/ LoopRound(r)
  BY <1>2, <1>s, NoSessionAssumption DEF TypeOK, TurnKept, Create, LoopRound, history
<1>3. CASE Delete(r)
  BY <1>3 DEF TypeOK, TurnKept, Delete, End
<1>4. CASE LoadClear(r)
  <2>1. CASE store = None
    BY <1>4, <2>1, GiveUpTurns DEF LoadClear
  <2>2. CASE store # None
    BY <1>4, <2>2 DEF TypeOK, TurnKept, LoadClear, history
  <2> QED
    BY <2>1, <2>2
<1>5. CASE SaveClear(r)
  BY <1>5 DEF TypeOK, TurnKept, SaveClear, End
<1>6. CASE SaveMessage(r)
  <2> DEFINE s == [snap[r] EXCEPT !.msgs = @ \cup {r}]
  <2>1. s \in Session /\ s.msgs = snap[r].msgs \cup {r}
    BY <1>s, MessageCopy
  <2>2. /\ store' = s /\ snap'[r] = s /\ pc[r] = "open" /\ UNCHANGED <<kind, answered>>
    BY <1>6 DEF TypeOK, SaveMessage, history
  <2> HIDE DEF s
  <2> QED
    BY <2>1, <2>2, NoSessionAssumption DEF TurnKept
<1>7. CASE \/ RouteFlow(r) \/ RouteCancel(r) \/ RouteFresh(r) \/ LoopAnswer(r)
           \/ DenyAccess(r) \/ AfterRejected(r)
  <2>1. PICK s, out : Reply(r, s, out) /\ s.msgs = snap[r].msgs
    BY <1>7, <1>s, ReleasedCopy, CancelledCopy, FreshReplyCopy
       DEF RouteFlow, RouteCancel, RouteFresh, LoopAnswer, DenyAccess, AfterRejected
  <2>2. pc[r] \in {"route", "loop", "access", "rejected"}
    BY <1>7 DEF RouteFlow, RouteCancel, RouteFresh, LoopAnswer, DenyAccess, AfterRejected
  <2> QED
    BY <2>1, <2>2, ReplyTurns
<1>8. CASE RouteFlowCard(r) \/ LoopCard(r) \/ AfterRunCard(r)
  BY <1>8, ReplyWithCardTurns DEF RouteFlowCard, LoopCard, AfterRunCard
<1>9. CASE RouteModel(r)
  BY <1>9, <1>s, ReleasedCopy DEF TypeOK, TurnKept, RouteModel, history
<1>10. CASE LoopEnds(r) \/ RefuseConfirm(r) \/ DeclineFails(r) \/ AfterRunFails(r)
  BY <1>10, GiveUpTurns DEF LoopEnds, RefuseConfirm, DeclineFails, AfterRunFails
<1>11. CASE Decline(r)
  <2>1. act[r] \in Actions
    BY <1>11, <1>s, SessionFields DEF Decline, Refused
  <2>2. PICK t \in DeclineReplies(Taken(snap[r], act[r])) : Reply(r, t, {act[r]})
    BY <1>11 DEF Decline
  <2>3. t.msgs = snap[r].msgs
    BY <2>1, <1>s, TakenCopy, DeclineReplyCopy
  <2> QED
    BY <1>11, <2>2, <2>3, ReplyTurns DEF Decline
<1>12. CASE Approve(r)
  <2>1. act[r] \in Actions
    BY <1>12, <1>s, SessionFields DEF Approve, Refused
  <2>2. snap'[r].msgs = snap[r].msgs
    BY <1>12, <2>1, <1>s, TakenCopy DEF TypeOK, Approve
  <2> QED
    BY <1>12, <2>2 DEF TypeOK, TurnKept, Approve, history
<1>13. CASE Authorize(r) \/ ToolRefused(r) \/ RunTool(r)
  BY <1>13 DEF TypeOK, TurnKept, Authorize, ToolRefused, RunTool, Move, history
<1>14. CASE AfterAccepted(r)
  <2>1. PICK f \in FlowsAfter(snap[r], tool[act[r]], kind[r]) :
          Reply(r, [snap[r] EXCEPT !.flow = f], {})
    BY <1>14 DEF AfterAccepted
  <2> DEFINE s == [snap[r] EXCEPT !.flow = f]
  <2>2. s.msgs = snap[r].msgs
    BY <1>s, FlowsAfterType, FlowCopy
  <2>3. Reply(r, s, {}) /\ pc[r] = "accepted"
    BY <1>14, <2>1 DEF AfterAccepted
  <2> HIDE DEF s
  <2> QED
    BY <2>2, <2>3, ReplyTurns
<1>15. CASE SaveReply(r)
  BY <1>15, <1>s, NoSessionAssumption DEF TypeOK, TurnKept, SaveReply, End
<1> QED
  BY <1>1, <1>2, <1>3, <1>4, <1>5, <1>6, <1>7, <1>8, <1>9, <1>10, <1>11, <1>12, <1>13,
     <1>14, <1>15 DEF Serve

\* When the widget sends one request at a time, a turn whose reply was saved stays in the
\* conversation until a new chat or a delete, whatever connections and saves are lost.
THEOREM AnsweredTurnsStay == ASSUME Serial PROVE Spec => []NoLostTurn
<1>1. Init => \A r \in Requests : TurnKept(r)
  BY DEF Init, TurnKept
<1>2. TurnsInv /\ SerialInv' /\ [Next]_vars => TurnsInv'
  <2>1. ASSUME TurnsInv, NEW r \in Requests, Serve(r) \/ SaveFails(r) \/ Disconnect(r), SerialInv'
        PROVE  \A q \in Requests : TurnKept(q)'
    <3>1. TypeOK /\ TurnKept(r)
      BY <2>1 DEF TurnsInv, SerialInv
    <3>2. TurnKept(r)'
      BY <2>1, <3>1, ServeTurns, GiveUpTurns DEF SaveFails, Disconnect
    <3>3. OthersQuiet(r)'
      BY <2>1, StepQuiet DEF TurnsInv, SerialInv
    <3>4. ASSUME NEW q \in Requests, q # r PROVE TurnKept(q)'
      BY <3>2, <3>3, <3>4 DEF TurnKept, OthersQuiet, InFlight
    <3> QED
      BY <3>2, <3>4
  <2>2. ASSUME TurnsInv, NEW r \in Requests, Send(r)
        PROVE  \A q \in Requests : TurnKept(q)'
    BY <2>2 DEF TurnsInv, SerialInv, TypeOK, TurnKept, Send, history
  <2>3. TurnsInv /\ UNCHANGED vars => \A q \in Requests : TurnKept(q)'
    BY DEF TurnsInv, TurnKept, vars, history
  <2> QED
    BY <2>1, <2>2, <2>3 DEF Next, TurnsInv
<1>3. TurnsInv => NoLostTurn
  <2> SUFFICES ASSUME TurnsInv PROVE NoLostTurn
    OBVIOUS
  <2>1. CASE Requests = {}
    BY <2>1 DEF TurnsInv, SerialInv, TypeOK, NoLostTurn
  <2> QED
    BY <2>1 DEF TurnsInv, TurnKept, NoLostTurn
<1> QED
  BY <1>1, <1>2, <1>3, SerialInvariant, PTL DEF Spec, TurnsInv

-----------------------------------------------------------------------------
(* One request at a time, and none dies halfway: what an answer says is so.*)
(*                                                                         *)
(* A request that dies between the tool call and its last save leaves its  *)
(* card armed and its run unrecorded; these results are about behaviours in*)
(* which that does not happen.                                             *)

Approvals == {"approve", "approve_sync"}
Declines  == {"decline", "decline_sync"}

\* No save fails, no client leaves, neither on_decline nor a resume step raises, and the
\* sync route is not asked to decline a card after "new chat" has reset the current one.
NoMishap ==
  \A r \in Requests :
    /\ ~SaveFails(r) /\ ~Disconnect(r) /\ ~DeclineFails(r) /\ ~AfterRunFails(r)
    /\ ~(RefuseConfirm(r) /\ kind[r] = "decline_sync" /\ act[r] \in snap[r].pend)

\* A confirm that ran or declined holds its card until its answer is saved, and then has
\* disposed of it.
Answers(r) ==
  /\ pc[r] \in {"route", "loop"} => kind[r] = "turn"
  /\ pc[r] \in {"access", "run", "accepted", "rejected"} => kind[r] \in Approvals
  /\ r \in ran => pc[r] \in {"accepted", "rejected", "save", "closed"}
  /\ pc[r] = "save" /\ (r \in ran \/ kind[r] \in Declines) => act[r] \in taken[r]
  /\ pc[r] = "closed" /\ (r \in ran \/ kind[r] \in Declines) => fate[act[r]] # None

Answering ==
  /\ \A r \in Requests : Answers(r)
  /\ NothingSavedMeansNothingRan
  /\ OncePerCard

AnswersInv == SerialInv /\ ApprovedInv /\ Answering

\* How a step of r may dispose of cards: a saved answer, of those r took out; a delete, of
\* any that is not disposed of yet.
Disposes(r) ==
  \A a \in Actions :
    \/ fate'[a] = fate[a]
    \/ fate[a] = None /\ fate'[a] = "deleted" /\ pc[r] = "load"
    \/ /\ fate[a] = None /\ fate'[a] = Verdict(kind[r])
       /\ pc[r] = "save" /\ a \in taken[r]

\* No step of a handler disposes of a card twice.
LEMMA ServeDisposes ==
  ASSUME AnswersInv, NEW r \in Requests, Serve(r)
  PROVE  Disposes(r)
<1>1. CASE Delete(r)
  BY <1>1 DEF AnswersInv, SerialInv, TypeOK, Delete, Disposes
<1>2. CASE SaveReply(r)
  BY <1>2 DEF AnswersInv, SerialInv, Gone, SaveReply, Disposes
<1>3. CASE ~Delete(r) /\ ~SaveReply(r)
  <2>1. fate' = fate
    BY <1>3 DEF Serve, history, Move, GiveUp, Reply, ReplyWithCard, Load, Create, LoadClear,
       SaveClear, SaveMessage, RouteFlow, RouteCancel, RouteFlowCard, RouteFresh, RouteModel,
       LoopAnswer, LoopCard, LoopRound, LoopEnds, RefuseConfirm, Decline, DeclineFails,
       Approve, Authorize, DenyAccess, RunTool, ToolRefused, AfterAccepted, AfterRejected,
       AfterRunCard, AfterRunFails
  <2> QED
    BY <2>1 DEF Disposes
<1> QED
  BY <1>1, <1>2, <1>3

\* A card named by a request that confirms it is one that was shown.
LEMMA ConfirmNamesACard ==
  ASSUME AnswersInv, NEW r \in Requests, r \in ran \/ kind[r] \in Declines
  PROVE  act[r] \in Actions /\ act[r] \in shown
BY DEF AnswersInv, ApprovedInv, RunsWereApproved, TypeOK, Declines, ConfirmKinds

\* An answer on its way to be saved holds the card it is about.
LEMMA ReplyAnswers ==
  ASSUME AnswersInv, NEW r \in Requests, NEW s, NEW out,
         r \in ran \/ kind[r] \in Declines => act[r] \in taken[r] \cup out,
         Reply(r, s, out)
  PROVE  Answers(r)'
BY DEF AnswersInv, SerialInv, TypeOK, Answering, Answers, Reply, history

\* So does one with a new card.
LEMMA ReplyWithCardAnswers ==
  ASSUME AnswersInv, NEW r \in Requests, NEW s, NEW t,
         r \in ran \/ kind[r] \in Declines => act[r] \in taken[r],
         ReplyWithCard(r, s, t)
  PROVE  Answers(r)'
BY DEF AnswersInv, SerialInv, TypeOK, Answering, Answers, ReplyWithCard

\* A handler that gives up had not run anything, nor been asked to decline a card that is
\* still armed.
LEMMA GiveUpAnswers ==
  ASSUME AnswersInv, NEW r \in Requests, GiveUp(r),
         r \in ran \/ kind[r] \in Declines => fate[act[r]] # None
  PROVE  Answers(r)'
BY DEF AnswersInv, SerialInv, TypeOK, Answering, Answers, GiveUp, End, history

\* A step within a handler keeps what it answers about, as long as nothing dies.
LEMMA ServeAnswers ==
  ASSUME AnswersInv, NoMishap, NEW r \in Requests, Serve(r)
  PROVE  Answers(r)'
<1>a. TypeOK /\ Answers(r)
  BY DEF AnswersInv, SerialInv, Answering
<1>1. CASE Load(r) \/ Create(r)
  BY <1>1, <1>a DEF TypeOK, Answers, Load, Create, history, Approvals, Declines
<1>2. CASE Delete(r) \/ SaveClear(r)
  BY <1>2, <1>a DEF TypeOK, Answers, Delete, SaveClear, End, Approvals, Declines
<1>3. CASE LoadClear(r)
  <2>1. r \notin ran /\ kind[r] \notin Declines
    BY <1>3, <1>a DEF LoadClear, Answers, Declines
  <2>2. CASE store = None
    BY <1>3, <2>1, <2>2, GiveUpAnswers DEF LoadClear
  <2>3. CASE store # None
    BY <1>3, <1>a, <2>3 DEF TypeOK, Answers, LoadClear, history
  <2> QED
    BY <2>2, <2>3
<1>4. CASE SaveMessage(r) \/ RouteModel(r) \/ LoopRound(r)
  BY <1>4, <1>a DEF TypeOK, Answers, SaveMessage, RouteModel, LoopRound, history
<1>5. CASE RouteFlow(r) \/ RouteCancel(r) \/ RouteFresh(r) \/ LoopAnswer(r)
  <2>1. r \notin ran /\ kind[r] \notin Declines
    BY <1>5, <1>a DEF RouteFlow, RouteCancel, RouteFresh, LoopAnswer, Answers, Declines
  <2> QED
    BY <1>5, <2>1, ReplyAnswers DEF RouteFlow, RouteCancel, RouteFresh, LoopAnswer
<1>6. CASE RouteFlowCard(r) \/ LoopCard(r)
  <2>1. pc[r] \in {"route", "loop"}
    BY <1>6 DEF RouteFlowCard, LoopCard
  <2>2. r \notin ran /\ kind[r] \notin Declines
    BY <2>1, <1>a DEF Answers, Declines
  <2> QED
    BY <1>6, <2>2, ReplyWithCardAnswers DEF RouteFlowCard, LoopCard
<1>7. CASE LoopEnds(r)
  <2>1. r \notin ran /\ kind[r] \notin Declines
    BY <1>7, <1>a DEF LoopEnds, Answers, Declines
  <2> QED
    BY <1>7, <2>1, GiveUpAnswers DEF LoopEnds
<1>8. CASE RefuseConfirm(r)
  <2>1. ASSUME r \in ran \/ kind[r] \in Declines
        PROVE  fate[act[r]] # None
    <3>1. r \notin ran /\ kind[r] \in Declines /\ pc[r] = "open"
      BY <2>1, <1>8, <1>a DEF RefuseConfirm, Answers
    <3>2. act[r] \notin snap[r].pend
      BY <3>1, <1>8 DEF RefuseConfirm, Refused, Declines, NoMishap
    <3>3. act[r] \in shown /\ taken[r] = {}
      BY <3>1, ConfirmNamesACard DEF AnswersInv, SerialInv, Untaken
    <3> QED
      BY <3>1, <3>2, <3>3 DEF AnswersInv, SerialInv, Kept
  <2> QED
    BY <1>8, <2>1, GiveUpAnswers DEF RefuseConfirm
<1>9. CASE Decline(r)
  <2>1. r \notin ran
    BY <1>9, <1>a DEF Decline, Answers
  <2>2. PICK t : Reply(r, t, {act[r]})
    BY <1>9 DEF Decline
  <2> QED
    BY <2>1, <2>2, ReplyAnswers
<1>10. CASE Approve(r)
  BY <1>10, <1>a DEF TypeOK, Answers, Approve, history, Approvals
<1>11. CASE Authorize(r) \/ ToolRefused(r) \/ RunTool(r)
  BY <1>11, <1>a DEF TypeOK, Answers, Authorize, ToolRefused, RunTool, Move, history
<1>12. CASE DenyAccess(r) \/ AfterAccepted(r) \/ AfterRejected(r) \/ AfterRunCard(r)
  <2>1. pc[r] \in {"access", "accepted", "rejected"}
    BY <1>12 DEF DenyAccess, AfterAccepted, AfterRejected, AfterRunCard
  <2>2. act[r] \in taken[r]
    BY <2>1 DEF AnswersInv, SerialInv, Held
  <2> QED
    BY <1>12, <2>2, ReplyAnswers, ReplyWithCardAnswers
       DEF DenyAccess, AfterAccepted, AfterRejected, AfterRunCard
<1>13. CASE SaveReply(r)
  <2>1. /\ pc[r] = "save" /\ pc'[r] = "closed" /\ UNCHANGED <<kind, act, ran>>
        /\ \A a \in Actions : fate'[a] = IF a \in taken[r] THEN Verdict(kind[r]) ELSE fate[a]
    BY <1>13, <1>a DEF SaveReply, End, TypeOK
  <2>2. Verdict(kind[r]) # None
    BY ConstantsAssumption DEF Verdict, Fates
  <2>3. r \in ran \/ kind[r] \in Declines => act[r] \in taken[r] /\ act[r] \in Actions
    BY <2>1, <1>a, ConfirmNamesACard DEF Answers
  <2> QED
    BY <2>1, <2>2, <2>3 DEF Answers
<1> QED
  BY <1>1, <1>2, <1>3, <1>4, <1>5, <1>6, <1>7, <1>8, <1>9, <1>10, <1>11, <1>12, <1>13
     DEF Serve, NoMishap

\* A request that ran and is not the one in flight has ended, its card disposed of.
LEMMA EndedRunsAreSettled ==
  ASSUME AnswersInv, NEW r \in Requests, InFlight(r), NEW q \in ran, q # r
  PROVE  fate[act[q]] # None
<1>1. q \in Requests /\ ~InFlight(q) /\ pc[q] # "idle"
  BY DEF AnswersInv, SerialInv, TypeOK, Alone, ApprovedInv
<1> QED
  BY <1>1 DEF InFlight, AnswersInv, Answering, Answers

\* A handler's step keeps every answer true.
LEMMA StepAnswers ==
  ASSUME AnswersInv, NoMishap, NEW r \in Requests, Serve(r)
  PROVE  Answering'
<1>1. TypeOK /\ InFlight(r) /\ Frame(r) /\ Effects(r) /\ Disposes(r) /\ Answers(r)'
  BY StepQuiet, ServeEffects, ServeDisposes, ServeAnswers DEF AnswersInv, SerialInv
<1>2. ASSUME NEW q \in Requests, q # r
      PROVE  Answers(q)'
  <2>1. Answers(q)
    BY DEF AnswersInv, Answering
  <2>2. (q \in ran \/ kind[q] \in Declines) /\ fate[act[q]] # None => fate'[act[q]] # None
    BY <1>1, ConfirmNamesACard DEF Disposes
  <2> QED
    BY <1>1, <1>2, <2>1, <2>2 DEF Answers, Frame, Effects
<1>3. NothingSavedMeansNothingRan'
  <2> SUFFICES ASSUME NEW q \in ran'
               PROVE  fate'[act[q]] \notin {"declined", "cancelled"}
    BY <1>1 DEF NothingSavedMeansNothingRan, Effects
  <2>1. CASE q \in ran
    <3>1. fate[act[q]] \notin {"declined", "cancelled"}
      BY <2>1 DEF AnswersInv, Answering, NothingSavedMeansNothingRan
    <3>2. act[q] \in Actions
      BY <2>1, <1>1, ConfirmNamesACard DEF TypeOK
    <3>3. CASE q = r
      <4>1. Verdict(kind[r]) = "approved"
        BY <2>1, <3>3 DEF AnswersInv, ApprovedInv, RunsWereApproved, Verdict
      <4> QED
        BY <1>1, <3>1, <3>2, <4>1 DEF Disposes
    <3>4. CASE q # r
      BY <2>1, <3>4, <1>1, <3>1, <3>2, EndedRunsAreSettled DEF Disposes
    <3> QED
      BY <3>3, <3>4
  <2>2. CASE q \notin ran
    <3>1. q = r /\ pc[r] = "run"
      BY <2>2, <1>1 DEF Effects
    <3>2. act[r] \in taken[r] /\ act[r] \in Actions
      BY <3>1 DEF AnswersInv, SerialInv, Held, TypeOK
    <3>3. fate[act[r]] = None
      BY <3>2 DEF AnswersInv, SerialInv, Gone
    <3> QED
      BY <1>1, <3>1, <3>2, <3>3, ConstantsAssumption DEF Disposes, Fates
  <2> QED
    BY <2>1, <2>2
<1>4. OncePerCard'
  <2>1. ASSUME NEW q \in ran, q # r, r \in ran' \ ran
        PROVE  act[q] # act[r]
    <3>1. fate[act[q]] # None
      BY <2>1, <1>1, EndedRunsAreSettled
    <3>2. act[r] \in taken[r] /\ act[r] \in Actions
      BY <2>1, <1>1 DEF AnswersInv, SerialInv, Held, TypeOK, Effects
    <3> QED
      BY <3>1, <3>2 DEF AnswersInv, SerialInv, Gone
  <2>2. \A p, q \in ran : act[p] = act[q] => p = q
    BY DEF AnswersInv, Answering, OncePerCard
  <2> QED
    BY <1>1, <2>1, <2>2 DEF OncePerCard, Effects
<1> QED
  BY <1>1, <1>2, <1>3, <1>4 DEF Answering

\* A new request has not answered anything yet.
LEMMA SendAnswers ==
  ASSUME AnswersInv, NEW r \in Requests, Send(r)
  PROVE  Answering'
<1>1. /\ pc[r] = "idle" /\ pc' = [pc EXCEPT ![r] = "load"]
      /\ UNCHANGED <<taken, ran, fate>>
      /\ \A q \in Requests : q # r => kind'[q] = kind[q] /\ act'[q] = act[q]
  BY DEF Send, history, AnswersInv, SerialInv, TypeOK
<1>2. r \notin ran
  BY <1>1 DEF AnswersInv, ApprovedInv
<1>3. \A q \in Requests : Answers(q)'
  BY <1>1, <1>2 DEF AnswersInv, Answering, Answers, SerialInv, TypeOK
<1>4. ran \subseteq Requests
  BY DEF AnswersInv, SerialInv, TypeOK
<1> QED
  BY <1>1, <1>2, <1>3, <1>4
     DEF AnswersInv, Answering, NothingSavedMeansNothingRan, OncePerCard

\* Under one request at a time, what confirms answer stays true in every behaviour in which
\* no request dies halfway.
THEOREM AnswersInvariant == ASSUME Serial PROVE Spec /\ [][NoMishap]_vars => []AnswersInv
<1>1. Init => Answering
  BY DEF Init, Answering, Answers, NothingSavedMeansNothingRan, OncePerCard
<1>2. AnswersInv /\ SerialInv' /\ ApprovedInv' /\ [Next]_vars /\ [NoMishap]_vars => AnswersInv'
  <2>1. ASSUME AnswersInv, NEW r \in Requests, NoMishap,
               Send(r) \/ Serve(r) \/ SaveFails(r) \/ Disconnect(r)
        PROVE  Answering'
    BY <2>1, SendAnswers, StepAnswers DEF NoMishap
  <2>2. AnswersInv /\ UNCHANGED vars => Answering'
    BY DEF AnswersInv, Answering, Answers, NothingSavedMeansNothingRan, OncePerCard, vars, history
  <2> QED
    BY <2>1, <2>2 DEF Next, AnswersInv
<1> QED
  BY <1>1, <1>2, SerialInvariant, ApprovedInvariant, PTL DEF Spec, AnswersInv

\* What an answer says of a card is so: with one request at a time and none that dies
\* halfway, "nothing was saved" is said only of a card that did not run and never will, a
\* run is recorded with its answer, a declined card is disposed of, and no card runs twice.
THEOREM AnswersHold == ASSUME Serial PROVE Spec /\ [][NoMishap]_vars => []AnswersAreTrue
<1>1. AnswersInv => AnswersAreTrue
  <2> SUFFICES ASSUME AnswersInv PROVE AnswersAreTrue
    OBVIOUS
  <2>1. NothingSavedMeansNothingRan /\ OncePerCard
    BY DEF AnswersInv, Answering
  <2>2. RunsAreRecorded
    BY DEF AnswersInv, Answering, Answers, RunsAreRecorded, SerialInv, TypeOK
  <2>3. DeclineDisposes
    <3> SUFFICES ASSUME NEW r \in Requests, pc[r] = "closed", kind[r] \in Declines, store # None
                 PROVE  act[r] \notin store.pend
      BY DEF DeclineDisposes, Declines
    <3>1. fate[act[r]] # None
      BY DEF AnswersInv, Answering, Answers
    <3>2. act[r] \in Actions
      BY ConfirmNamesACard
    <3> QED
      BY <3>1, <3>2 DEF AnswersInv, SerialInv, Gone
  <2> QED
    BY <2>1, <2>2, <2>3 DEF AnswersAreTrue
<1> QED
  BY <1>1, AnswersInvariant, PTL

-----------------------------------------------------------------------------
(* The gate implements ConfirmProtocol, step by step.                      *)

\* A session's cards have been shown, but for the one a handler is about to show.
Offers(r) == snap[r].pend \cup taken[r] \subseteq shown \cup ({card[r]} \ {None})

Offered ==
  /\ store # None => store.pend \subseteq shown
  /\ \A r \in Requests : Offers(r)

\* An answer keeps the cards of the copy it is made on.
LEMMA ReplyOffers ==
  ASSUME TypeOK, Offered, NEW r \in Requests, NEW s, NEW out,
         s.pend \cup out \subseteq snap[r].pend \cup taken[r], Reply(r, s, out)
  PROVE  Offers(r)' /\ store' = store
BY DEF TypeOK, Offered, Offers, Reply, history

\* A new card is the one its handler is about to show.
LEMMA ReplyWithCardOffers ==
  ASSUME TypeOK, Offered, NEW r \in Requests, card[r] = None, NEW t,
         ReplyWithCard(r, snap[r], t)
  PROVE  Offers(r)' /\ store' = store
<1>1. PICK a \in Fresh :
        /\ snap' = [snap EXCEPT ![r] = Armed(snap[r], a)]
        /\ card' = [card EXCEPT ![r] = a]
        /\ UNCHANGED <<store, taken, shown>>
  BY DEF ReplyWithCard
<1>2. a \in Actions /\ a # None /\ snap'[r].pend = snap[r].pend \cup {a}
  BY <1>1, ArmedCopy, NoneIsNoAction DEF Fresh, TypeOK
<1> QED
  BY <1>1, <1>2 DEF TypeOK, Offered, Offers

\* A handler that gives up keeps no card.
LEMMA GiveUpOffers ==
  ASSUME TypeOK, Offered, NEW r \in Requests, GiveUp(r)
  PROVE  Offers(r)' /\ store' = store
BY EmptyIsSession DEF TypeOK, Offers, GiveUp, End

\* A handler saves cards that were shown only, its own new one being shown by that save.
LEMMA ServeOffers ==
  ASSUME TypeOK, Offered, Unsaved, NEW r \in Requests, Serve(r)
  PROVE  Offers(r)' /\ (store' # None => store'.pend \subseteq shown')
<1>s. snap[r] \in Session /\ snap[r].pend \subseteq Actions
  BY SessionFields DEF TypeOK
<1>o. Offers(r) /\ (store # None => store.pend \subseteq shown)
  BY DEF Offered
<1>1. CASE Load(r)
  BY <1>1, <1>o, EmptyIsSession DEF TypeOK, Offers, Load, history
<1>2. CASE Create(r) \/ LoopRound(r)
  BY <1>2, <1>o DEF TypeOK, Offers, Unsaved, Create, LoopRound, history
<1>3. CASE Delete(r)
  BY <1>3, <1>o, EmptyIsSession DEF TypeOK, Offers, Delete, End
<1>4. CASE LoadClear(r)
  <2>1. CASE store = None
    BY <1>4, <1>o, <2>1, GiveUpOffers DEF LoadClear
  <2>2. CASE store # None
    BY <1>4, <1>o, <2>2 DEF TypeOK, Offers, LoadClear, history
  <2> QED
    BY <2>1, <2>2
<1>5. CASE SaveClear(r)
  BY <1>5, <1>s, <1>o, ClearedCopy, EmptyIsSession DEF TypeOK, Offers, Unsaved, SaveClear, End
<1>6. CASE SaveMessage(r)
  BY <1>6, <1>s, <1>o, MessageCopy DEF TypeOK, Offers, Unsaved, SaveMessage, history
<1>7. CASE RouteFlow(r) \/ RouteFresh(r) \/ LoopAnswer(r) \/ DenyAccess(r) \/ AfterRejected(r)
  <2>1. PICK s : Reply(r, s, {}) /\ s.pend = snap[r].pend
    BY <1>7, <1>s, ReleasedCopy, FreshReplyCopy
       DEF RouteFlow, RouteFresh, LoopAnswer, DenyAccess, AfterRejected
  <2> QED
    BY <2>1, <1>o, ReplyOffers DEF Reply, history
<1>8. CASE RouteCancel(r)
  BY <1>8, <1>s, <1>o, CancelledCopy, ReplyOffers DEF RouteCancel, Reply, history
<1>9. CASE RouteFlowCard(r) \/ LoopCard(r) \/ AfterRunCard(r)
  <2>1. card[r] = None
    BY <1>9 DEF RouteFlowCard, LoopCard, AfterRunCard, Unsaved
  <2>2. PICK t : ReplyWithCard(r, snap[r], t)
    BY <1>9 DEF RouteFlowCard, LoopCard, AfterRunCard
  <2> QED
    BY <2>1, <2>2, <1>o, ReplyWithCardOffers DEF ReplyWithCard
<1>10. CASE RouteModel(r)
  BY <1>10, <1>s, <1>o, ReleasedCopy DEF TypeOK, Offers, RouteModel, history
<1>11. CASE LoopEnds(r) \/ RefuseConfirm(r) \/ DeclineFails(r) \/ AfterRunFails(r)
  BY <1>11, <1>o, GiveUpOffers
     DEF LoopEnds, RefuseConfirm, DeclineFails, AfterRunFails, GiveUp, history
<1>12. CASE Decline(r)
  <2>1. act[r] \in snap[r].pend /\ act[r] \in Actions
    BY <1>12, <1>s DEF Decline, Refused
  <2>2. PICK t \in DeclineReplies(Taken(snap[r], act[r])) : Reply(r, t, {act[r]})
    BY <1>12 DEF Decline
  <2>3. Taken(snap[r], act[r]) \in Session /\ Taken(snap[r], act[r]).pend = snap[r].pend \ {act[r]}
    BY <2>1, <1>s, TakenCopy
  <2>4. t.pend = snap[r].pend \ {act[r]}
    BY <2>3, DeclineReplyCopy
  <2> QED
    BY <2>1, <2>2, <2>4, <1>o, ReplyOffers DEF Reply, history
<1>13. CASE Approve(r)
  <2>1. act[r] \in snap[r].pend /\ act[r] \in Actions
    BY <1>13, <1>s DEF Approve, Refused
  <2>2. /\ snap'[r].pend = snap[r].pend \ {act[r]} /\ taken'[r] = {act[r]}
        /\ UNCHANGED <<store, card, shown>>
    BY <1>13, <2>1, <1>s, TakenCopy DEF TypeOK, Approve, history
  <2> QED
    BY <2>1, <2>2, <1>o DEF Offers
<1>14. CASE Authorize(r) \/ ToolRefused(r) \/ RunTool(r)
  BY <1>14, <1>o DEF Offers, Authorize, ToolRefused, RunTool, Move, history
<1>15. CASE AfterAccepted(r)
  <2>1. PICK f \in FlowsAfter(snap[r], tool[act[r]], kind[r]) :
          Reply(r, [snap[r] EXCEPT !.flow = f], {})
    BY <1>15 DEF AfterAccepted
  <2> DEFINE s == [snap[r] EXCEPT !.flow = f]
  <2>2. s.pend = snap[r].pend
    BY <1>s, FlowsAfterType, FlowCopy
  <2>3. Reply(r, s, {}) /\ UNCHANGED <<store, shown>>
    BY <2>1 DEF Reply, history
  <2> HIDE DEF s
  <2> QED
    BY <2>2, <2>3, <1>o, ReplyOffers
<1>16. CASE SaveReply(r)
  BY <1>16, <1>o, EmptyIsSession DEF TypeOK, Offers, SaveReply, End
<1> QED
  BY <1>1, <1>2, <1>3, <1>4, <1>5, <1>6, <1>7, <1>8, <1>9, <1>10, <1>11, <1>12, <1>13,
     <1>14, <1>15, <1>16 DEF Serve

GateInv == AnswersInv /\ Offered

\* The protocol's view of one action: where its card stands.
StateOf(a) ==
  IF \E r \in ran : act[r] = a
  THEN IF fate[a] = None THEN "running" ELSE "done"
  ELSE IF fate[a] # None THEN "dropped"
  ELSE IF a \in shown THEN "offered" ELSE "new"

OneRun == \A a, b \in Actions : StateOf(a) = "running" /\ StateOf(b) = "running" => a = b

\* At most one action is running: a run that is not in flight has been recorded.
LEMMA OneRunning == ASSUME AnswersInv PROVE OneRun
<1> SUFFICES ASSUME NEW a \in Actions, NEW b \in Actions,
                    StateOf(a) = "running", StateOf(b) = "running"
             PROVE  a = b
  BY DEF OneRun
<1>1. PICK p \in ran : act[p] = a /\ fate[a] = None
  BY DEF StateOf
<1>2. PICK q \in ran : act[q] = b /\ fate[b] = None
  BY DEF StateOf
<1>3. p \in Requests /\ q \in Requests
  BY DEF AnswersInv, SerialInv, TypeOK
<1>4. InFlight(p) /\ InFlight(q)
  BY <1>1, <1>2, <1>3 DEF AnswersInv, ApprovedInv, Answering, Answers, InFlight
<1>5. p = q
  BY <1>3, <1>4 DEF AnswersInv, SerialInv, Alone
<1> QED
  BY <1>1, <1>2, <1>5

\* A step that leaves runs, answers and what was shown alone moves no card.
LEMMA QuietStates ==
  ASSUME NEW r, r \notin ran, \A q \in ran : q # r => act'[q] = act[q],
         UNCHANGED <<ran, fate, shown>>, NEW a
  PROVE  StateOf(a)' = StateOf(a)
BY DEF StateOf

\* The tool call of an approved card moves that card from offered to running.
LEMMA RunMoves ==
  ASSUME GateInv, NEW r \in Requests, RunTool(r), NEW a \in Actions
  PROVE  \/ StateOf(a)' = StateOf(a)
         \/ StateOf(a) = "offered" /\ StateOf(a)' = "running"
<1>1. pc[r] = "run" /\ InFlight(r) /\ ran' = ran \cup {r} /\ UNCHANGED <<act, fate, shown>>
  BY DEF RunTool, InFlight
<1>2. CASE a # act[r]
  BY <1>1, <1>2 DEF StateOf
<1>3. CASE a = act[r]
  <2>1. act[r] \in taken[r] /\ fate[act[r]] = None /\ card[r] = None
    BY <1>1, <1>3 DEF GateInv, AnswersInv, SerialInv, Held, Gone, Unsaved
  <2>2. a \in shown
    BY <1>3, <2>1 DEF GateInv, Offered, Offers
  <2>3. ~ \E q \in ran : act[q] = a
    <3>1. r \notin ran
      BY <1>1 DEF GateInv, AnswersInv, Answering, Answers
    <3> QED
      BY <1>1, <1>3, <2>1, <3>1, EndedRunsAreSettled DEF GateInv
  <2>4. StateOf(a) = "offered"
    BY <1>3, <2>1, <2>2, <2>3 DEF StateOf
  <2>5. StateOf(a)' = "running"
    BY <1>1, <1>3, <2>1 DEF StateOf
  <2> QED
    BY <2>4, <2>5
<1> QED
  BY <1>2, <1>3

\* The save of an answer shows its new card and settles the cards it took out.
LEMMA SaveMoves ==
  ASSUME GateInv, NEW r \in Requests, SaveReply(r), NEW a \in Actions
  PROVE  \/ StateOf(a)' = StateOf(a)
         \/ StateOf(a) = "new" /\ StateOf(a)' = "offered"
         \/ StateOf(a) = "offered" /\ StateOf(a)' = "dropped"
         \/ StateOf(a) = "running" /\ StateOf(a)' = "done"
<1>1. /\ UNCHANGED <<ran, act>>
      /\ shown' = shown \cup ({card[r]} \ {None})
      /\ fate'[a] = IF a \in taken[r] THEN Verdict(kind[r]) ELSE fate[a]
  BY DEF SaveReply, End
<1>2. Verdict(kind[r]) # None
  BY ConstantsAssumption DEF Verdict, Fates
<1>3. CASE a \in taken[r]
  <2>1. fate[a] = None /\ a \in shown
    BY <1>3 DEF GateInv, AnswersInv, SerialInv, Gone, CardHeld, Apart, Offered, Offers
  <2> QED
    BY <1>1, <1>2, <1>3, <2>1 DEF StateOf
<1>4. CASE a \notin taken[r]
  BY <1>1, <1>4 DEF StateOf
<1> QED
  BY <1>3, <1>4

\* A delete drops the cards that can still be answered.
LEMMA DeleteMoves ==
  ASSUME GateInv, NEW r \in Requests, Delete(r), NEW a \in Actions
  PROVE  \/ StateOf(a)' = StateOf(a)
         \/ StateOf(a) = "offered" /\ StateOf(a)' = "dropped"
<1>1. /\ InFlight(r) /\ pc[r] = "load" /\ UNCHANGED <<ran, act, shown>>
      /\ fate'[a] = IF a \in shown /\ fate[a] = None THEN "deleted" ELSE fate[a]
  BY DEF Delete, End, InFlight
<1>2. (\E q \in ran : act[q] = a) => fate[a] # None
  <2>1. r \notin ran
    BY <1>1 DEF GateInv, AnswersInv, Answering, Answers
  <2> QED
    BY <1>1, <2>1, EndedRunsAreSettled DEF GateInv
<1> QED
  BY <1>1, <1>2, ConstantsAssumption DEF StateOf, Fates

\* Every step of a handler moves a card as the protocol allows, or not at all.
LEMMA ServeMoves ==
  ASSUME GateInv, NEW r \in Requests, Serve(r), NEW a \in Actions,
         StateOf(a)' # StateOf(a)
  PROVE  <<StateOf(a), StateOf(a)'>> \in Protocol!Moves
<1>1. CASE RunTool(r)
  BY <1>1, RunMoves DEF Protocol!Moves
<1>2. CASE SaveReply(r)
  BY <1>2, SaveMoves DEF Protocol!Moves
<1>3. CASE Delete(r)
  BY <1>3, DeleteMoves DEF Protocol!Moves
<1>4. CASE ~RunTool(r) /\ ~SaveReply(r) /\ ~Delete(r)
  <2>1. UNCHANGED <<ran, fate, shown, act>>
    BY <1>4 DEF Serve, history, Move, GiveUp, End, Reply, ReplyWithCard, Load, Create, LoadClear,
       SaveClear, SaveMessage, RouteFlow, RouteCancel, RouteFlowCard, RouteFresh, RouteModel,
       LoopAnswer, LoopCard, LoopRound, LoopEnds, RefuseConfirm, Decline, DeclineFails,
       Approve, Authorize, DenyAccess, ToolRefused, AfterAccepted, AfterRejected,
       AfterRunCard, AfterRunFails
  <2> QED
    BY <2>1 DEF StateOf
<1> QED
  BY <1>1, <1>2, <1>3, <1>4

\* With one request at a time and none that dies halfway, the gate's cards obey the
\* protocol: each is offered once, then dropped or run and recorded, never twice, and at
\* most one is running.
THEOREM GateObeysProtocol == ASSUME Serial PROVE Spec /\ [][NoMishap]_vars => Protocol!Spec
<1>1. AnswersInv /\ Init => GateInv
  BY EmptyIsSession DEF Init, GateInv, Offered, Offers
<1>2. GateInv /\ AnswersInv' /\ [Next]_vars /\ [NoMishap]_vars => GateInv'
  <2>1. ASSUME GateInv, NEW r \in Requests, Send(r)
        PROVE  Offered'
    BY <2>1 DEF GateInv, Offered, Offers, Send, history
  <2>2. ASSUME GateInv, NEW r \in Requests, Serve(r)
        PROVE  Offered'
    <3>1. TypeOK /\ Offers(r)' /\ (store' # None => store'.pend \subseteq shown')
      BY <2>2, ServeOffers DEF GateInv, AnswersInv, SerialInv
    <3>2. Frame(r) /\ shown \subseteq shown'
      BY <2>2, StepQuiet, ServeEffects DEF GateInv, AnswersInv, Effects
    <3>3. ASSUME NEW q \in Requests, q # r
          PROVE  Offers(q)'
      <4>1. Offers(q)
        BY <2>2 DEF GateInv, Offered
      <4> QED
        BY <3>2, <3>3, <4>1 DEF Offers, Frame
    <3> QED
      BY <3>1, <3>3 DEF Offered
  <2>3. GateInv /\ UNCHANGED vars => Offered'
    BY DEF GateInv, Offered, Offers, vars, history
  <2> QED
    BY <2>1, <2>2, <2>3 DEF Next, NoMishap, GateInv
<1>3. Init => Protocol!Init
  BY DEF Init, Protocol!Init, CardState
<1>4. AnswersInv => OneRun
  BY OneRunning
<1>5. GateInv /\ OneRun' /\ [Next]_vars /\ [NoMishap]_vars => [Protocol!Next]_CardState
  <2> SUFFICES ASSUME GateInv, OneRun', [Next]_vars, [NoMishap]_vars
               PROVE  Protocol!Next
    OBVIOUS
  <2>1. CardState = [a \in Actions |-> StateOf(a)]
    BY DEF CardState, StateOf
  <2>2. CardState' = [a \in Actions |-> StateOf(a)']
    BY DEF CardState, StateOf
  <2>3. \A a \in Actions : StateOf(a)' \in Protocol!CardStates
    BY DEF StateOf, Protocol!CardStates
  <2>4. ASSUME NEW a \in Actions, StateOf(a)' # StateOf(a)
        PROVE  <<StateOf(a), StateOf(a)'>> \in Protocol!Moves
    <3>1. CASE UNCHANGED vars
      BY <2>4, <3>1 DEF StateOf, vars, history
    <3>2. ASSUME NEW r \in Requests, Send(r)
          PROVE  FALSE
      <4>1. /\ pc[r] = "idle" /\ UNCHANGED <<ran, fate, shown>>
            /\ \A q \in ran : q # r => act'[q] = act[q]
        BY <3>2 DEF Send, history, GateInv, AnswersInv, SerialInv, TypeOK
      <4>2. r \notin ran
        BY <4>1 DEF GateInv, AnswersInv, ApprovedInv
      <4> QED
        BY <4>1, <4>2, <2>4, QuietStates
    <3> QED
      BY <2>4, <3>1, <3>2, ServeMoves DEF Next, NoMishap
  <2> QED
    BY <2>1, <2>2, <2>3, <2>4 DEF Protocol!Next, OneRun
<1> QED
  BY <1>1, <1>2, <1>3, <1>4, <1>5, AnswersInvariant, PTL DEF Spec, Protocol!Spec
====
