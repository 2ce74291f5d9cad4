---------------------------- MODULE SkillAuthoring ----------------------------
(***************************************************************************)
(* The create_skill flow of services/flows.py: a conversation in which a   *)
(* user teaches the assistant a new skill, and its saving into the store   *)
(* of authored skills (OverrideStore with store = "skill").                *)
(*                                                                         *)
(* One conversation is followed; its messages may reach any worker.        *)
(***************************************************************************)
EXTENDS OverrideStore, Sequences

CONSTANTS
  Names,       \* what _slug tries in turn for the purpose that is given
  Tools,       \* the tools of the catalogue
  SkillFields,      \* the fields a skill may ask for
  Required,    \* the fields each tool requires
  MaxFlows     \* bound: flows that are started

ASSUME AuthoringAssumption ==
  /\ Names \in Seq(Keys) /\ Required \in [Tools -> SUBSET SkillFields] /\ MaxFlows \in Nat

\* A skill that was authored, and what a store may hold under a key.
Authored == [tool : Tools \cup {None}, asks : SUBSET SkillFields]
Values == Contents \cup {None} \cup Authored

\* A change under way.
Changes ==
  [key : Keys, content : Values, op : {"set", "delete"},
   at : {"store", "read", "rewrite", "fill", "keep", "persist"}, copy : [Keys -> Values]]

\* Absence is no skill and no change: in the code it is Python's None.
ASSUME NoneAssumption == None \notin Authored /\ None \notin Changes

VARIABLES
  flow,      \* session.metadata["flow"], or None
  shown,     \* the skill of the last summary the user was asked to confirm
  flows      \* counter of MaxFlows

all == <<vars, flow, shown, flows>>

Stages == {"purpose", "keywords", "tool", "review", "edit_fields", "confirm"}

InitAll == Init /\ flow = None /\ shown = None /\ flows = 0

In(stage) == store = "skill" /\ flow # None /\ flow.stage = stage
Idle(w) == change[w] = None
Stay == UNCHANGED <<vars, flow, shown, flows>>

\* start_create_skill: a purpose in the opening message is not asked for again.
StartFlow(w) ==
  /\ store = "skill" /\ Idle(w) /\ flow = None /\ flows < MaxFlows
  /\ \E stage \in {"purpose", "keywords"} :
       flow' = [stage |-> stage, tool |-> None, asks |-> {}, offered |-> FALSE]
  /\ flows' = flows + 1
  /\ UNCHANGED <<vars, shown>>

\* An empty message stays; anything else is the purpose.
Purpose(w) ==
  /\ In("purpose") /\ Idle(w)
  /\ flow' = [flow EXCEPT !.stage = "keywords"]
  /\ UNCHANGED <<vars, shown, flows>>

\* suggest_tools: the tool index may find nothing for the purpose.
Suggested == BOOLEAN

\* tool_required_fields: the catalogue is read a second time for the fields the
\* tool requires, and may then be empty.
AsksOf(t) == {Required[t], {}}

\* The trigger phrases.
Keywords(w) ==
  /\ In("keywords") /\ Idle(w)
  /\ \E some \in Suggested : flow' = [flow EXCEPT !.stage = "tool", !.offered = some]
  /\ UNCHANGED <<vars, shown, flows>>

\* A message that names a tool picks it, offered or not; fillers, questions about
\* a tool and other text show the offers again.
PickTool(w) ==
  /\ In("tool") /\ Idle(w)
  /\ \E t \in Tools : \E asks \in AsksOf(t) :
       flow' = [flow EXCEPT !.stage = "review", !.tool = t, !.asks = asks]
  /\ UNCHANGED <<vars, shown, flows>>

\* _skill_confirm.
Summary(f) == [tool |-> f.tool, asks |-> f.asks]

Review(w) ==
  /\ In("review") /\ Idle(w)
  /\ \/ /\ flow' = [flow EXCEPT !.stage = "edit_fields"]
        /\ UNCHANGED shown
     \/ /\ flow' = [flow EXCEPT !.stage = "confirm"]
        /\ shown' = Summary(flow)
  /\ UNCHANGED <<vars, flows>>

\* Mutant of EditFields: the summary shows the fields before the edit.
EditFieldsUnshown(w) ==
  /\ In("edit_fields") /\ Idle(w)
  /\ \E asks \in SUBSET SkillFields : flow' = [flow EXCEPT !.stage = "confirm", !.asks = asks]
  /\ shown' = Summary(flow)
  /\ UNCHANGED <<vars, flows>>

EditFields(w) ==
  /\ In("edit_fields") /\ Idle(w)
  /\ \E asks \in SUBSET SkillFields : flow' = [flow EXCEPT !.stage = "confirm", !.asks = asks]
  /\ shown' = Summary(flow')
  /\ UNCHANGED <<vars, flows>>

\* _slug: the first name that no skill registered in this worker has.
Slug(w) ==
  LET free == {i \in 1..Len(Names) : view[w][Names[i]] = None}
  IN IF free = {} THEN None
     ELSE Names[CHOOSE i \in free : \A j \in free : i <= j]

\* Any answer but a refusal creates the skill; saving it is synchronous.
Create(w) ==
  /\ In("confirm") /\ Slug(w) # None
  /\ Save(w, Slug(w), Summary(flow))
  /\ UNCHANGED <<flow, shown, flows>>

\* A refusal at the confirm stage, a cancel word at any, or a message that breaks
\* out of the flow.
Leave(w) ==
  /\ store = "skill" /\ Idle(w) /\ flow # None
  /\ flow' = None
  /\ UNCHANGED <<vars, shown, flows>>

\* _finish_skill follows the save; a worker that dies before it leaves the flow
\* at the confirm stage.
Fill(w) ==
  /\ FillFile(w)
  /\ flow' = IF store = "skill" THEN None ELSE flow
  /\ UNCHANGED <<shown, flows>>

Author(w) == StartFlow(w) \/ Purpose(w) \/ Keywords(w) \/ PickTool(w) \/ Review(w)
             \/ EditFields(w) \/ Create(w) \/ Leave(w)

Next ==
  \/ \E w \in Workers : Author(w) \/ Fill(w)
  \/ (\E w \in Workers : Operate(w) \/ Work(w) \/ Crash(w)) /\ UNCHANGED <<flow, shown, flows>>
  \/ Tick /\ UNCHANGED <<flow, shown, flows>>

Spec == InitAll /\ [][Next]_all

-----------------------------------------------------------------------------
(* Properties.                                                             *)

\* Fields edited, tools picked anew and workers that die in between included, a
\* skill that is created is the one the user last saw summarised, and its name
\* is that of no skill the worker that creates it has.
LearnsWhatWasShown ==
  [][\A w \in Workers : (store = "skill" /\ change'[w] # change[w] /\ change[w] = None) =>
        change'[w].content = shown /\ view[w][change'[w].key] = None]_all
=============================================================================
