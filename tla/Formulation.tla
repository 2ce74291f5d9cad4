----------------------------- MODULE Formulation -----------------------------
(***************************************************************************)
(* BaselineFlow, DataCall and BaselineReads side by side.  A session holds *)
(* one flow at a time, the reads of baselines none, and they share no      *)
(* other state, so a behaviour follows one of them: what they reach        *)
(* together is the sum of what each reaches.                               *)
(***************************************************************************)
EXTENDS BaselineFlow, FiniteSets, Sequences

CONSTANTS
  Foreign, Groups, AppOf, Apps, Days, MaxCalls, CallCards, CallFaults,              \* DataCall
  AllFunds, RetiredFunds, OwnFunds, ReadYears, Masters, MaxChanges, ReadsFail       \* BaselineReads

VARIABLES
  which,   \* the flow this behaviour follows
  guide, cards, current, count, lookup, calls, saved, told, landed, crossed,
  created, listed,
  masters, changes, ask, got, unread, passed, steady, reply

Call == INSTANCE DataCall WITH MaxCards <- CallCards, Faults <- CallFaults

Reads == INSTANCE BaselineReads WITH
  Groups <- AllFunds, Retired <- RetiredFunds, Own <- OwnFunds, Years <- ReadYears, Fails <- ReadsFail

\* The guidance of a call, the calls of the platform, and what a card of one holds.
Guides ==
  [call : Nat, scope : Apps, stage : {"offer_attendees", "pick_group", "offer_reminder", "pick_days"},
   added : SUBSET (Groups \cup Days), group : Groups \cup {None}, days : Days \cup {None}]

DataCalls == [title : Titles \cup Foreign, app : Apps, own : BOOLEAN]

CallArgs ==
  [tool : {"createDataCalls_post"}, title : Titles, app : Apps]
  \cup [tool : {"saveDataCallDistributions_post", "saveDataCallReminder_post"},
        call : Nat, item : Groups \cup Days]

\* A number of days is no group, and absence is none of what may be there.
ASSUME CallAssumption ==
  /\ CallCards \in Nat
  /\ Groups \cap Days = {}
  /\ None \notin Groups \cup Days \cup Titles
  /\ None \notin Nat \cup Guides \cup CallArgs

\* The platform has finitely many baselines, and absence is none.
ASSUME ReadsAssumption ==
  /\ IsFiniteSet(Masters)
  /\ OwnFunds \subseteq AllFunds
  /\ None \notin Reads!Baseline

callVars == <<guide, cards, current, count, lookup, calls, saved, told, landed, crossed,
              created, listed>>
readVars == <<masters, changes, ask, got, unread, passed, steady, reply>>
allVars  == <<vars, which, callVars, readVars>>

\* Where it is not followed, the platform of the reads is empty.
AllInit ==
  /\ which \in {"baseline", "data_call", "reads"}
  /\ Init /\ Call!Init /\ Reads!Init
  /\ which # "reads" => \A m \in Masters : masters[m] = None

AllNext ==
  \/ which = "baseline"  /\ Next       /\ UNCHANGED <<which, callVars, readVars>>
  \/ which = "data_call" /\ Call!Next  /\ UNCHANGED <<which, vars, readVars>>
  \/ which = "reads"     /\ Reads!Next /\ UNCHANGED <<which, vars, callVars>>

AllSpec == AllInit /\ [][AllNext]_allVars

-----------------------------------------------------------------------------
\* fetch_data_call_id and _dc_finish: the guidance works on the call that was just created,
\* unless it was not listed yet or a later one has its title, and its recap is what was
\* confirmed, while the shown card is the one answered.
CallIsFoundAndTold == Call!GuidesTheCreated /\ Call!RecapIsTrue

\* list_baselines and baseline_details: every baseline of every fund group whose call
\* succeeds is listed, and the one that could be meant is opened.
ReadsAreExact == Reads!ListShowsAll /\ Reads!OpensTheOneMeant
====
