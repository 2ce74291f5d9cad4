---------------------------- MODULE ConfirmProtocol ----------------------------
(***************************************************************************)
(* What the confirmation gate promises of each pending action, without     *)
(* sessions, copies or requests: it is offered to the user once; from there*)
(* it is either dropped, or it starts to run on the platform and is then   *)
(* recorded as done.  A card never goes back, so it never runs twice, and  *)
(* at most one of a session's actions is running at a time.                *)
(***************************************************************************)
CONSTANT Actions
VARIABLE state

CardStates == {"new", "offered", "running", "done", "dropped"}

\* The only ways a card may move.
Moves == {<<"new", "offered">>, <<"offered", "running">>, <<"offered", "dropped">>,
          <<"running", "done">>}

Init == state = [a \in Actions |-> "new"]

\* The request that records a run may offer the next card, and one cancel drops
\* every card of the session: several cards may move in one step.
Next ==
  /\ state' \in [Actions -> CardStates]
  /\ \A a \in Actions : state'[a] # state[a] => <<state[a], state'[a]>> \in Moves
  /\ \A a, b \in Actions : state'[a] = "running" /\ state'[b] = "running" => a = b

Spec == Init /\ [][Next]_state

\* What has started to run is recorded in the end.
Recorded == \A a \in Actions : state[a] = "running" ~> state[a] = "done"

FairSpec == Spec /\ Recorded
====
