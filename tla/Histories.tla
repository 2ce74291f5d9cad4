------------------------------- MODULE Histories -------------------------------
(***************************************************************************)
(* SessionHistory and Conversations side by side: two views of the same    *)
(* documents, one session id store operation by store operation and every  *)
(* session id request by request.  A behaviour follows one of the views.   *)
(***************************************************************************)
EXTENDS SessionHistory

CONSTANTS Apps, Unknown, MaxAsks, MaxDay   \* Conversations

VARIABLES
  view,   \* the view this behaviour follows
  screen, echo, today, asked, lives, mirrors, archived

User == INSTANCE Conversations WITH live <- lives, mirror <- mirrors, archives <- archived

\* The documents of a conversation and what is noted of a turn.
Dialogues == [turns : SUBSET Nat, app : User!Ids]
Askings   == [app : User!Ids, day : Nat, via : {"reply", "stream"}]

\* No application has the code that stands for none, and absence is no document.
ASSUME ConversationsAssumption ==
  /\ Unknown \notin Apps
  /\ None \notin Dialogues \cup Nat

userVars == <<screen, echo, today, asked, lives, mirrors, archived>>
bothVars == <<vars, view, userVars>>

BothInit == view \in {"operations", "requests"} /\ Init /\ User!Init

BothNext ==
  \/ view = "operations" /\ Next      /\ UNCHANGED <<view, userVars>>
  \/ view = "requests"   /\ User!Next /\ UNCHANGED <<view, vars>>

BothSpec == BothInit /\ [][BothNext]_bothVars

-----------------------------------------------------------------------------
\* agent_history and _resume_hint: each answered turn is listed once, in its own application,
\* as it opens; and the hint offers what was asked in the module the user is in.
HistoryIsOfItsApp == User!HistoryIsExact /\ User!ResumeStaysInApp
====
