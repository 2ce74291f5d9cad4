------------------------------- MODULE Workflow -------------------------------
(***************************************************************************)
(* The node-graph engine of services/workflow.py and the chat turns that   *)
(* drive it (services/flows.py).                                           *)
(*                                                                         *)
(* A workflow is data: a graph of ask, fetch, filter, branch, confirm,     *)
(* mutate and say nodes.  The session stores {wf, node, data}; every chat  *)
(* turn loads that, applies the user's message to the node that waits for  *)
(* it and walks the silent nodes, awaiting a tool call at each fetch and   *)
(* mutate, until a node needs the user again.  Only then is the session    *)
(* saved, so a turn that dies on the way leaves the flow where it was.     *)
(*                                                                         *)
(* Each worker process has its own REGISTRY of workflows: the console      *)
(* registers, replaces and removes definitions in the worker that serves   *)
(* it, also while a run of that workflow is under way.                     *)
(*                                                                         *)
(* What the platform answers is external: Reply gives the rows of a read   *)
(* tool and Written the record a write tool leaves, both from the facts.   *)
(***************************************************************************)
EXTENDS Naturals, Sequences

CONSTANTS
  Workers,        \* the worker processes
  Ids,            \* the workflow ids
  Graph,          \* the definitions: a function from versions to graphs
  IdOf,           \* the workflow id of each version
  Shipped,        \* the version the repository ships for an id, or None
  Stored,         \* the version the stores hold for an id at the start, or None
  Drafts,         \* the versions an operator saves on the console
  Messages,       \* what the user may type: pairs <<kind, text>>
  Texts,          \* what a message may leave at a step without options
  InitialFacts,   \* the sets of records it may hold at the start
  Reply(_, _, _), \* rows a read tool returns: tool, arguments, records held
  Written(_, _),  \* record a write tool leaves: tool, arguments
  EditAnywhere,   \* FALSE: "change <step>" is sent by the chips of the summary
  Faults,         \* what may go wrong on the way, of AllFaults
  MaxPicks,       \* bound: options a step with several takes
  MaxRuns,        \* bound: runs opened other than by switching
  MaxConfirms,    \* bound: summaries the user says yes to
  MaxAdmin,       \* bound: console operations and restarts
  MaxOthers,      \* bound: changes made by others on the platform
  None            \* absence

AllFaults == {"fetch_fails", "rejected", "timeout", "phantom", "verify_fails",
              "interrupted"}

Versions == DOMAIN Graph
Node(v, n) == Graph[v].nodes[n]
NodeIds(v) == DOMAIN Graph[v].nodes

\* The edges of a node, and those of a definition.
Targets(node) ==
  IF node.type = "branch" THEN {node.cases[c] : c \in DOMAIN node.cases} \cup {node.default}
  ELSE IF node.type = "say" THEN {} ELSE {node.next}
Edges(d) == UNION {Targets(d.nodes[n]) : n \in DOMAIN d.nodes}

\* from_dict: the start is a node, and so is every edge that is not empty.
from_dict(d) == d.start \in DOMAIN d.nodes /\ Edges(d) \ {""} \subseteq DOMAIN d.nodes

ASSUME GraphAssumption ==
  /\ IdOf \in [Versions -> Ids]
  /\ Shipped \in [Ids -> Versions \cup {None}]
  /\ \A v \in Versions : from_dict(Graph[v])
  /\ Stored \in [Ids -> Versions \cup {None}]
  /\ \A i \in Ids : /\ Shipped[i] # None => IdOf[Shipped[i]] = i
                    /\ Stored[i] # None => IdOf[Stored[i]] = i
  /\ None \notin Versions /\ Drafts \subseteq Versions
ASSUME BoundsAssumption ==
  /\ Faults \subseteq AllFaults
  /\ EditAnywhere \in BOOLEAN
  /\ MaxPicks \in Nat /\ MaxRuns \in Nat /\ MaxConfirms \in Nat
  /\ MaxAdmin \in Nat /\ MaxOthers \in Nat

VARIABLES
  registry,   \* REGISTRY of each worker: the version of each id, or None
  owned,      \* _custom_ids of each worker
  saved,      \* the version the stores hold for each id, or None
  flow,       \* the flow of the stored session, with the summary shown, or None
  turn,       \* the turn in progress, with its copy of the flow, or None
  facts,      \* the records the platform holds
  sent,       \* the write call made last, with what was approved for it, or None
  told,       \* the success reported last, with whether it was in force, or None
  runs, confirms, admin, others   \* counters of the bounds

consoleVars == <<registry, owned, saved, admin>>
ghosts      == <<sent, told>>
bounds      == <<runs, confirms, others>>
vars        == <<consoleVars, flow, turn, facts, ghosts, bounds>>

-----------------------------------------------------------------------------
(* Data.                                                                   *)

\* The bag keeps a list of values per field; a single answer is a list of one.
Value(bag, f) == IF f \in DOMAIN bag THEN bag[f] ELSE <<>>
Put(bag, f, v) == [g \in DOMAIN bag \cup {f} |-> IF g = f THEN v ELSE bag[g]]
Drop(bag, f) == [g \in DOMAIN bag \ {f} |-> bag[g]]

\* setdefault: an answer already there stays.
Default(bag, f) == IF f \in DOMAIN bag THEN bag ELSE Put(bag, f, <<>>)

\* _resolve_args, and the arg_map of a mutate node: both read the bag.
_resolve_args(refs, bag) == [a \in DOMAIN refs |-> Value(bag, refs[a])]

\* A row whose fields equal what the bag holds for the references.
Matches(row, refs, bag) == \A k \in DOMAIN refs : <<row[k]>> = Value(bag, refs[k])

Rows(f, key) == IF key \in DOMAIN f.lists THEN f.lists[key].rows ELSE {}
Grounds(f, key) == IF key \in DOMAIN f.lists THEN f.lists[key].grounds ELSE {}

\* A list remembers the answers it was fetched or kept by (for WriteFitsAnswers).
Ground(refs, bag) == {<<refs[a], Value(bag, refs[a])>> : a \in DOMAIN refs}

\* The options of an ask node, as values.
Options(f, n) == {row[n.value_key] : row \in Rows(f, n.options_from)}

\* History variables: shown, the values of the summary in the conversation; basis,
\* the answers the list was fetched for that each choice was made from; and under,
\* the versions that served the run: the workers may know different ones.
NewFlow(v) == [wf |-> IdOf[v], node |-> Graph[v].start, bag |-> <<>>, lists |-> <<>>,
               switch |-> None, shown |-> None, basis |-> <<>>, under |-> {v}]

\* What the confirm node lists: its fields with the values of the bag.
Summary(f, n) == [g \in n.summary |-> Value(f.bag, g)]

-----------------------------------------------------------------------------
(* Messages.  flows.py and workflow.py test them with regular expressions;  *)
(* a message here is the class those put it in, with its text.             *)

IsCancel(m)   == m = <<"word", "cancel">>
SaysYes(m)    == m \in {<<"word", "confirm">>, <<"word", "yes">>}
SaysSkip(m)   == m \in {<<"word", "skip">>, <<"word", "done">>}
SaysDone(m)   == m = <<"word", "done">>
SaysSwitch(m) == m \in {<<"word", "switch">>, <<"word", "yes">>}
SaysStay(m)   == m = <<"word", "stay">>

\* _is_new_intent: a read request, or the trigger of another workflow this
\* worker knows.
_is_new_intent(w, v, m) ==
  /\ m[1] = "intent"
  /\ m[2] = "read" \/ (m[2] \in Ids \ {IdOf[v]} /\ registry[w][m[2]] # None)

\* _edit_target: the ask node a "change <step>" message names.
_edit_target(v, m) ==
  IF m[1] = "change" /\ m[2] \in NodeIds(v) /\ Node(v, m[2]).type = "ask"
    THEN m[2] ELSE None

-----------------------------------------------------------------------------
\* load_dir at import, then load_custom_workflows on top of it.
Loaded(store) == [i \in Ids |-> IF store[i] # None THEN store[i] ELSE Shipped[i]]

Init ==
  /\ saved = Stored
  /\ registry = [w \in Workers |-> Loaded(Stored)]
  /\ owned = [w \in Workers |-> {i \in Ids : Stored[i] # None}]
  /\ flow = None
  /\ turn = None
  /\ facts \in InitialFacts
  /\ sent = None
  /\ told = None
  /\ runs = 0 /\ confirms = 0 /\ admin = 0 /\ others = 0

-----------------------------------------------------------------------------
(* The console, the process and the others on the platform.                *)

\* save_workflow: stored, and registered in the worker that serves the console.
SaveWorkflow(w, v) ==
  /\ admin < MaxAdmin
  /\ registry' = [registry EXCEPT ![w][IdOf[v]] = v]
  /\ owned' = [owned EXCEPT ![w] = @ \cup {IdOf[v]}]
  /\ saved' = [saved EXCEPT ![IdOf[v]] = v]
  /\ admin' = admin + 1
  /\ UNCHANGED <<flow, turn, facts, ghosts, bounds>>

\* delete_workflow: only an id this worker knows as authored; a shipped one it
\* overrode is gone too until the worker restarts.
DeleteWorkflow(w, i) ==
  /\ admin < MaxAdmin
  /\ i \in owned[w]
  /\ registry' = [registry EXCEPT ![w][i] = None]
  /\ owned' = [owned EXCEPT ![w] = @ \ {i}]
  /\ saved' = [saved EXCEPT ![i] = None]
  /\ admin' = admin + 1
  /\ UNCHANGED <<flow, turn, facts, ghosts, bounds>>

\* The worker loads what the stores hold; the turn it was serving is lost.
Restart(w) ==
  /\ admin < MaxAdmin
  /\ registry' = [registry EXCEPT ![w] = Loaded(saved)]
  /\ owned' = [owned EXCEPT ![w] = {i \in Ids : saved[i] # None}]
  /\ turn' = IF turn # None /\ turn.worker = w THEN None ELSE turn
  /\ admin' = admin + 1
  /\ UNCHANGED <<saved, flow, facts, ghosts, bounds>>

Others ==
  /\ others < MaxOthers
  /\ \E r \in UNION InitialFacts :
       facts' = IF r \in facts THEN facts \ {r} ELSE facts \cup {r}
  /\ others' = others + 1
  /\ UNCHANGED <<consoleVars, flow, turn, ghosts, runs, confirms>>

-----------------------------------------------------------------------------
(* A chat turn, up to the point where the engine walks.                    *)

\* _maybe_start_workflow: a trigger matches and the first node is an ask.
CanOpen(w, i) ==
  /\ registry[w][i] # None
  /\ Node(registry[w][i], Graph[registry[w][i]].start).type = "ask"

Open(w, i) ==
  /\ flow = None /\ turn = None
  /\ CanOpen(w, i)
  /\ runs < MaxRuns
  /\ flow' = NewFlow(registry[w][i])
  /\ runs' = runs + 1
  /\ UNCHANGED <<consoleVars, turn, facts, sent, told, confirms, others>>

\* _cancel_flow comes before the registry is looked at.
Cancel ==
  /\ flow # None /\ turn = None
  /\ flow' = None
  /\ UNCHANGED <<consoleVars, turn, facts, ghosts, bounds>>

\* handle() finds the workflow in this worker's registry; when it does not, the
\* lookup raises, the turn fails and nothing is saved: no step here.
Handles(w) == flow # None /\ turn = None /\ registry[w][flow.wf] # None
Current(w) == registry[w][flow.wf]

\* A new request in the middle: offer to switch, and remember the request.
OfferSwitch(w, m) ==
  /\ Handles(w)
  /\ ~IsCancel(m)
  /\ flow.switch # None => ~SaysSwitch(m) /\ ~SaysStay(m)
  /\ _is_new_intent(w, Current(w), m)
  /\ flow' = [flow EXCEPT !.switch = m]
  /\ UNCHANGED <<consoleVars, turn, facts, ghosts, bounds>>

\* The user switches: the flow is dropped and the request is routed afresh,
\* where it may open the workflow it triggers.
SwitchAway(w, m) ==
  /\ Handles(w)
  /\ flow.switch # None
  /\ SaysSwitch(m)
  /\ flow' = IF flow.switch[2] \in Ids /\ CanOpen(w, flow.switch[2])
               THEN NewFlow(registry[w][flow.switch[2]]) ELSE None
  /\ UNCHANGED <<consoleVars, turn, facts, ghosts, bounds>>

\* The user stays: the ask node is shown again.  At a confirm node _render
\* reads options_from, which a Confirm has not: the turn fails, nothing is saved.
StayHere(w, m) ==
  /\ Handles(w)
  /\ flow.switch # None
  /\ SaysStay(m)
  /\ flow.node \in NodeIds(Current(w))
  /\ Node(Current(w), flow.node).type = "ask"
  /\ flow' = [flow EXCEPT !.switch = None]
  /\ UNCHANGED <<consoleVars, turn, facts, sent, told, bounds>>

\* The message is the answer to the node that waits (a pending offer to switch
\* is dropped).  A node the definition no longer has fails the turn.
Answers(w, m, type) ==
  /\ Handles(w)
  /\ ~IsCancel(m)
  /\ flow.switch # None => ~SaysSwitch(m) /\ ~SaysStay(m)
  /\ ~_is_new_intent(w, Current(w), m)
  /\ flow.node \in NodeIds(Current(w))
  /\ Node(Current(w), flow.node).type = type

IsEdit(w, m) == _edit_target(Current(w), m) # None

\* The walk works on the turn's copy; approved is what the user confirmed in it.
Walk(w, f, approved) ==
  turn' = [worker |-> w, version |-> Current(w),
           flow |-> [f EXCEPT !.switch = None, !.under = @ \cup {Current(w)}],
           approved |-> approved, wrote |-> None, found |-> FALSE, verifying |-> FALSE]

\* "change <step>": back (or ahead) to that ask node, its field cleared.
EditStep(w, m) ==
  /\ \/ EditAnywhere /\ Answers(w, m, "ask")
     \/ Answers(w, m, "confirm")
  /\ IsEdit(w, m)
  /\ LET target == _edit_target(Current(w), m)
     IN Walk(w, [flow EXCEPT !.node = target,
                             !.bag = Drop(@, Node(Current(w), target).field)], None)
  /\ UNCHANGED <<consoleVars, flow, facts, ghosts, bounds>>

Skips(n, m) == n.optional /\ SaysSkip(m)

\* An optional step is passed over; what it may hold already stays.
SkipAsk(w, m) ==
  /\ Answers(w, m, "ask") /\ ~IsEdit(w, m)
  /\ LET n == Node(Current(w), flow.node)
     IN /\ Skips(n, m)
        /\ Walk(w, [flow EXCEPT !.bag = Default(@, n.field), !.node = n.next], None)
  /\ UNCHANGED <<consoleVars, flow, facts, ghosts, bounds>>

\* No options to choose from, or not one of them: the step is shown again.
NotAnOption(w, m) ==
  /\ Answers(w, m, "ask") /\ ~IsEdit(w, m)
  /\ LET n == Node(Current(w), flow.node)
     IN ~Skips(n, m) /\ n.options_from # "" /\ m[2] \notin Options(flow, n)
  /\ flow' = [flow EXCEPT !.switch = None]
  /\ UNCHANGED <<consoleVars, turn, facts, sent, told, bounds>>

\* One of the options: a multi step adds it and stays (the label of an option
\* holds no word of _DONE), any other takes it and goes on.
ChooseOption(w, m) ==
  /\ Answers(w, m, "ask") /\ ~IsEdit(w, m)
  /\ LET n == Node(Current(w), flow.node)
     IN /\ ~Skips(n, m) /\ n.options_from # "" /\ m[2] \in Options(flow, n)
        /\ IF n.multi
             THEN /\ Len(Value(flow.bag, n.field)) < MaxPicks
                  /\ flow' = [flow EXCEPT !.switch = None, !.under = @ \cup {Current(w)},
                                          !.bag = Put(@, n.field, Append(Value(@, n.field), m[2])),
                                          !.basis = Put(@, n.field, Grounds(flow, n.options_from))]
                  /\ UNCHANGED turn
             ELSE /\ Walk(w, [flow EXCEPT !.bag = Put(@, n.field, <<m[2]>>), !.node = n.next,
                                          !.basis = Put(@, n.field, Grounds(flow, n.options_from))],
                          None)
                  /\ UNCHANGED flow
  /\ UNCHANGED <<consoleVars, facts, sent, told, bounds>>

\* A step without options_from takes any text, also when it has static choices.
TypeAnswer(w, m) ==
  /\ Answers(w, m, "ask") /\ ~IsEdit(w, m)
  /\ LET n == Node(Current(w), flow.node)
     IN /\ ~Skips(n, m) /\ n.options_from = ""
        /\ \E x \in Texts :
             Walk(w, [flow EXCEPT !.bag = Put(@, n.field, <<x>>), !.node = n.next], None)
  /\ UNCHANGED <<consoleVars, flow, facts, ghosts, bounds>>

\* Mutant of Confirms: "done" passes the confirm node too.
ConfirmsOrProceeds(m) == SaysYes(m) \/ SaysDone(m)

\* Only a yes passes the confirm node.
Confirms(m) == SaysYes(m)

ConfirmIt(w, m) ==
  /\ Answers(w, m, "confirm") /\ ~IsEdit(w, m)
  /\ Confirms(m)
  /\ confirms < MaxConfirms /\ confirms' = confirms + 1
  /\ Walk(w, [flow EXCEPT !.node = Node(Current(w), flow.node).next],
          IF SaysYes(m) THEN flow.shown ELSE None)
  /\ UNCHANGED <<consoleVars, flow, facts, ghosts, runs, others>>

\* Anything else holds at the summary.
HoldAtConfirm(w, m) ==
  /\ Answers(w, m, "confirm") /\ ~IsEdit(w, m)
  /\ ~Confirms(m)
  /\ flow' = [flow EXCEPT !.switch = None]
  /\ UNCHANGED <<consoleVars, turn, facts, ghosts, bounds>>

\* The definition was replaced and the node now is one that does not wait.
ResumeElsewhere(w, m) ==
  /\ \E type \in {"fetch", "filter", "branch", "mutate", "say"} : Answers(w, m, type)
  /\ Walk(w, flow, None)
  /\ UNCHANGED <<consoleVars, flow, facts, ghosts, bounds>>

-----------------------------------------------------------------------------
(* The walk over the silent nodes: one action per node.                    *)

AtNode(type) ==
  /\ turn # None /\ ~turn.verifying
  /\ turn.flow.node # ""
  /\ Node(turn.version, turn.flow.node).type = type

Here == Node(turn.version, turn.flow.node)

\* Mutant of WalkFetch: a list that was fetched before is used again.
WalkFetchOnce ==
  /\ AtNode("fetch")
  /\ turn' = [turn EXCEPT !.flow.lists =
                IF Here.as_key \in DOMAIN @ THEN @
                ELSE Put(@, Here.as_key,
                  [rows    |-> Reply(Here.tool, _resolve_args(Here.args, turn.flow.bag), facts),
                   grounds |-> Ground(Here.args, turn.flow.bag)]),
                          !.flow.node = Here.next]
  /\ UNCHANGED <<consoleVars, flow, facts, ghosts, bounds>>

\* A fetch stores the rows; a failed call stores none.
WalkFetch ==
  /\ AtNode("fetch")
  /\ \E failed \in {FALSE} \cup {"fetch_fails" \in Faults} :
       turn' = [turn EXCEPT !.flow.lists = Put(@, Here.as_key,
                  [rows    |-> IF failed THEN {}
                               ELSE Reply(Here.tool, _resolve_args(Here.args, turn.flow.bag), facts),
                   grounds |-> Ground(Here.args, turn.flow.bag)]),
                            !.flow.node = Here.next]
  /\ UNCHANGED <<consoleVars, flow, facts, ghosts, bounds>>

\* The rows of the source that match, without those the other list has.
Kept(n, f) ==
  {row \in Rows(f, n.source) :
     /\ Matches(row, n.keep, f.bag)
     /\ n.exclude_source # "" => \A e \in Rows(f, n.exclude_source) : e[n.on] # row[n.on]}

\* Mutant of WalkFilter: the walk stays on the node.
WalkFilterStays ==
  /\ AtNode("filter")
  /\ turn' = [turn EXCEPT !.flow.lists = Put(@, Here.as_key,
                [rows |-> Kept(Here, turn.flow), grounds |-> Grounds(turn.flow, Here.source)])]
  /\ UNCHANGED <<consoleVars, flow, facts, ghosts, bounds>>

WalkFilter ==
  /\ AtNode("filter")
  /\ turn' = [turn EXCEPT
                !.flow.lists = Put(@, Here.as_key,
                  [rows    |-> Kept(Here, turn.flow),
                   grounds |-> Grounds(turn.flow, Here.source) \cup Ground(Here.keep, turn.flow.bag)
                               \cup Grounds(turn.flow, Here.exclude_source)]),
                !.flow.bag = Put(@, Here.empty_key,
                                 <<IF Kept(Here, turn.flow) = {} THEN "Y" ELSE "N">>),
                !.flow.node = Here.next]
  /\ UNCHANGED <<consoleVars, flow, facts, ghosts, bounds>>

WalkBranch ==
  /\ AtNode("branch")
  /\ LET v == Value(turn.flow.bag, Here.field)
     IN turn' = [turn EXCEPT !.flow.node =
                   IF v # <<>> /\ v[1] \in DOMAIN Here.cases THEN Here.cases[v[1]] ELSE Here.default]
  /\ UNCHANGED <<consoleVars, flow, facts, ghosts, bounds>>

\* The choices behind the arguments were made from lists fetched and filtered for
\* the answers the flow holds now.
Fits(f, n) ==
  \A a \in DOMAIN n.arg_map :
    n.arg_map[a] \in DOMAIN f.basis =>
      \A g \in f.basis[n.arg_map[a]] : Value(f.bag, g[1]) = g[2]

Sent(n) == [approved |-> turn.approved,
            fields   |-> n.arg_map,
            args     |-> _resolve_args(n.arg_map, turn.flow.bag),
            fits     |-> Fits(turn.flow, n),
            under    |-> turn.flow.under]

\* A mutate node calls the write tool.  The call is accepted (phantom: and has
\* no effect), rejected, or fails with its effect made (timeout); when it is not
\* accepted the run ends with "Nothing was changed".
WalkMutate ==
  /\ AtNode("mutate")
  /\ sent' = Sent(Here)
  /\ LET record == Written(Here.tool, Sent(Here).args)
     IN \E outcome \in {"accepted"} \cup (Faults \cap {"rejected", "timeout", "phantom"}) :
          /\ facts' = IF outcome \in {"accepted", "timeout"} THEN facts \cup {record} ELSE facts
          /\ IF outcome \in {"rejected", "timeout"}
               THEN turn' = None /\ flow' = None
               ELSE /\ turn' = [turn EXCEPT !.approved = None,
                                  !.wrote = IF Here.verify = None THEN None ELSE record,
                                  !.verifying = Here.verify # None,
                                  !.flow.node = IF Here.verify = None THEN Here.next ELSE @]
                    /\ UNCHANGED flow
  /\ UNCHANGED <<consoleVars, told, bounds>>

\* Mutant of ReadBack: an error while reading back counts as confirmed.
ReadBackOptimistic(n) ==
  {\E row \in Reply(n.verify.tool, _resolve_args(n.verify.args, turn.flow.bag), facts) :
     Matches(row, n.verify.match, turn.flow.bag)}
  \cup (IF "verify_fails" \in Faults THEN {TRUE} ELSE {})

\* What _verify_write may conclude: a row matches; an error concludes nothing.
ReadBack(n) ==
  {\E row \in Reply(n.verify.tool, _resolve_args(n.verify.args, turn.flow.bag), facts) :
     Matches(row, n.verify.match, turn.flow.bag)}
  \cup (IF "verify_fails" \in Faults THEN {FALSE} ELSE {})

\* Without a match the run ends with "couldn't confirm it took effect".
WalkVerify ==
  /\ turn # None /\ turn.verifying
  /\ \E confirmed \in ReadBack(Here) :
       IF confirmed
         THEN /\ turn' = [turn EXCEPT !.verifying = FALSE, !.flow.node = Here.next,
                                      !.found = turn.wrote \in facts]
              /\ UNCHANGED flow
         ELSE turn' = None /\ flow' = None
  /\ UNCHANGED <<consoleVars, facts, ghosts, bounds>>

\* The nodes that end the walk; the session is saved with the answer.
WalkAsk ==
  /\ AtNode("ask")
  /\ flow' = turn.flow
  /\ turn' = None
  /\ UNCHANGED <<consoleVars, facts, sent, told, bounds>>

WalkConfirm ==
  /\ AtNode("confirm")
  /\ flow' = [turn.flow EXCEPT !.shown = Summary(turn.flow, Here)]
  /\ turn' = None
  /\ UNCHANGED <<consoleVars, facts, sent, told, bounds>>

\* A say node, or an empty edge: the run is over.  A say after a write that is
\* read back is the success the user reads.
WalkEnd ==
  /\ turn # None /\ ~turn.verifying
  /\ turn.flow.node = "" \/ AtNode("say")
  /\ told' = IF turn.wrote = None THEN told
             ELSE [record |-> turn.wrote, inForce |-> turn.found]
  /\ flow' = None
  /\ turn' = None
  /\ UNCHANGED <<consoleVars, facts, sent, bounds>>

\* The client goes away while the walk awaits, or the save fails: the session in
\* the store is the one the turn began with.
Interrupted ==
  /\ "interrupted" \in Faults
  /\ turn # None
  /\ turn' = None
  /\ UNCHANGED <<consoleVars, flow, facts, ghosts, bounds>>

-----------------------------------------------------------------------------
WalkStep == \/ WalkFetch \/ WalkFilter \/ WalkBranch \/ WalkMutate \/ WalkVerify
            \/ WalkAsk \/ WalkConfirm \/ WalkEnd

UserStep ==
  \/ Cancel
  \/ \E w \in Workers :
       \/ \E i \in Ids : Open(w, i)
       \/ \E m \in Messages :
            \/ OfferSwitch(w, m) \/ SwitchAway(w, m) \/ StayHere(w, m)
            \/ EditStep(w, m) \/ SkipAsk(w, m) \/ NotAnOption(w, m) \/ ChooseOption(w, m)
            \/ TypeAnswer(w, m) \/ ConfirmIt(w, m) \/ HoldAtConfirm(w, m)
            \/ ResumeElsewhere(w, m)

AdminStep == \E w \in Workers : \/ \E v \in Drafts : SaveWorkflow(w, v)
                                \/ \E i \in Ids : DeleteWorkflow(w, i)
                                \/ Restart(w)

Next == WalkStep \/ Interrupted \/ UserStep \/ AdminStep \/ Others

Spec == Init /\ [][Next]_vars

\* An awaited call returns or times out, so a turn that has begun goes on.
FairSpec == Spec /\ WF_vars(WalkStep)

-----------------------------------------------------------------------------
(* What a definition must be like for the properties to hold of it.        *)

\* What the bag may hold: the answers to ask nodes and the flags of filters.
Fields == UNION {{Node(v, n).field : n \in {x \in NodeIds(v) : Node(v, x).type = "ask"}}
                 \cup {Node(v, n).empty_key : n \in {x \in NodeIds(v) : Node(v, x).type = "filter"}}
                 : v \in Versions}
Values == Texts \cup {m[2] : m \in Messages} \cup {"Y", "N"}
Bags   == UNION {[S -> Seq(Values)] : S \in SUBSET Fields}

\* None is no summary.
ASSUME NoneAssumption ==
  \A v \in Versions : \A n \in NodeIds(v) :
    Node(v, n).type = "confirm" => None \notin [Node(v, n).summary -> Seq(Values)]

\* The nodes that write, and the records the platform starts with, is given by others
\* or by a write.
Writes  == UNION {{Node(v, n) : n \in {x \in NodeIds(v) : Node(v, x).type = "mutate"}} : v \in Versions}
Records == (UNION InitialFacts)
           \cup UNION {{Written(d.tool, _resolve_args(d.arg_map, bag)) : bag \in Bags} : d \in Writes}

\* The read-back of a write identifies its record: a row it matches is that record.
Identifies(bags, holdings) ==
  \A d \in {x \in Writes : x.verify # None}, bag \in bags, kept \in holdings :
    (\E row \in Reply(d.verify.tool, _resolve_args(d.verify.args, bag), kept) :
       Matches(row, d.verify.match, bag))
    => Written(d.tool, _resolve_args(d.arg_map, bag)) \in kept

Waits(v, n) == n \in NodeIds(v) /\ Node(v, n).type \in {"ask", "confirm"}
IsA(v, n, type) == n \in NodeIds(v) /\ Node(v, n).type = type

Refs(refs) == {refs[a] : a \in DOMAIN refs}

\* The summary of a confirm node names every argument of the write it leads to.
Covers(u, v, n) ==
  IsA(u, n, "confirm") /\ IsA(u, Node(u, n).next, "mutate") =>
    Refs(Node(u, Node(u, n).next).arg_map) \subseteq Node(v, n).summary

\* A write is reached from a confirm node only, whose summary names its arguments; and
\* versions of one workflow agree on what a node is for that waits in one of them.
Guarded ==
  \A v \in Versions :
    /\ \A n \in NodeIds(v) :
         Node(v, n).type # "confirm" =>
           \A t \in Targets(Node(v, n)) : ~IsA(v, t, "mutate")
    /\ \A u \in Versions : IdOf[u] = IdOf[v] =>
         \A n \in NodeIds(v) :
           /\ Waits(v, n) => ~IsA(u, n, "mutate")
           /\ IsA(v, n, "ask") => ~IsA(u, n, "confirm")
           /\ IsA(v, n, "confirm") => Covers(u, v, n)

\* A certificate of a definition says which answers a list (c.grounds) and a choice
\* (c.basis) depend on, and, of each node, which lists (c.current) and which choices
\* (c.safe) are of the answers held whenever a run stands there.

\* What is so at t was so at n.
Carries(c, n, t) == c.current[t] \subseteq c.current[n] /\ c.safe[t] \subseteq c.safe[n]

\* What is so at t was so at n and does not depend on field.
CarriesOver(c, n, t, field) ==
  /\ Carries(c, n, t)
  /\ \A k \in c.current[t] : field \notin c.grounds[k]
  /\ \A g \in c.safe[t] : field \notin c.basis[g]

\* The same when the field is chosen from a list: it is safe if the list is current.
CarriesChoice(c, n, t, field, list) ==
  /\ c.grounds[list] \subseteq c.basis[field]
  /\ \A k \in c.current[t] : k \in c.current[n] /\ field \notin c.grounds[k]
  /\ \A g \in c.safe[t] :
       IF g = field THEN list \in c.current[n] /\ field \notin c.grounds[list]
       ELSE g \in c.safe[n] /\ field \notin c.basis[g]

\* The same when a list is made: it is current if those it is made of are.
CarriesList(c, n, t, list, current) ==
  /\ \A k \in c.current[t] : IF k = list THEN current ELSE k \in c.current[n]
  /\ c.safe[t] \subseteq c.safe[n]

CertifiesAsk(c, n, d) ==
  /\ d.optional => Carries(c, n, d.next)
  /\ d.options_from = "" => CarriesOver(c, n, d.next, d.field)
  /\ d.options_from # "" =>
       \A t \in {d.next} \cup (IF d.multi THEN {n} ELSE {}) :
         CarriesChoice(c, n, t, d.field, d.options_from)

CertifiesFetch(c, n, d) ==
  /\ Refs(d.args) \subseteq c.grounds[d.as_key]
  /\ CarriesList(c, n, d.next, d.as_key, TRUE)

CertifiesFilter(c, n, d) ==
  /\ c.grounds[d.source] \cup Refs(d.keep) \cup c.grounds[d.exclude_source] \subseteq c.grounds[d.as_key]
  /\ CarriesList(c, n, d.next, d.as_key, {d.source, d.exclude_source} \subseteq c.current[n])
  /\ \A k \in c.current[d.next] : d.empty_key \notin c.grounds[k]
  /\ \A g \in c.safe[d.next] : d.empty_key \notin c.basis[g]

CertifiesEdits(v, c, n) ==
  \A t \in NodeIds(v) : Node(v, t).type = "ask" => CarriesOver(c, n, t, Node(v, t).field)

\* Whatever way a run takes, the arguments of a write are safe where it is made.
Certifies(v, c) ==
  \A n \in NodeIds(v) :
    LET d == Node(v, n)
    IN /\ d.type = "ask"     => CertifiesAsk(c, n, d)
       /\ d.type = "fetch"   => CertifiesFetch(c, n, d)
       /\ d.type = "filter"  => CertifiesFilter(c, n, d)
       /\ d.type = "mutate"  => Refs(d.arg_map) \subseteq c.safe[n]
       /\ d.type \in {"branch", "confirm", "mutate"} => \A t \in Targets(d) : Carries(c, n, t)
       /\ d.type = "confirm" \/ (EditAnywhere /\ d.type = "ask") => CertifiesEdits(v, c, n)

-----------------------------------------------------------------------------
(* Properties.                                                             *)

\* The flow, the turn and the registries have the shape the code gives them.
TypeOK ==
  /\ registry \in [Workers -> [Ids -> Versions \cup {None}]]
  /\ owned \in [Workers -> SUBSET Ids]
  /\ saved \in [Ids -> Versions \cup {None}]
  /\ flow # None => flow.wf \in Ids
  /\ turn # None => /\ turn.worker \in Workers /\ turn.version \in Versions
                    /\ turn.flow.node \in NodeIds(turn.version) \cup {""}
                    /\ turn.flow.wf = IdOf[turn.version]
  /\ runs \in 0 .. MaxRuns /\ confirms \in 0 .. MaxConfirms
  /\ admin \in 0 .. MaxAdmin /\ others \in 0 .. MaxOthers

\* Every write call carries exactly the values of the summary that was last put
\* before the user and that the user said yes to in that turn, whatever edits,
\* interrupted turns, restarts and changes of the definition came before it.
WriteWasConfirmed ==
  sent # None =>
    /\ sent.approved # None
    /\ \A a \in DOMAIN sent.args : /\ sent.fields[a] \in DOMAIN sent.approved
                                   /\ sent.args[a] = sent.approved[sent.fields[a]]

\* "Access granted" is said only when the record was on the platform as the
\* read-back after the write was answered: never on the word of the write call.
NoFalseSuccess == told # None => told.inForce

\* The comment on walk-back edits: "its field is cleared and re-asked; dependent
\* steps downstream re-run".  So a write's choices are of lists that were fetched
\* and filtered for the answers it carries.
DependentsRerun == sent # None => sent.fits

\* What holds of it: a run that one definition served from its start to the write,
\* whatever edits, restarts and interrupted turns are in between, does re-run them
\* (advance, _walk).  Two workers that know different versions may not.
WriteFitsAnswers == sent # None /\ (\E v \in Versions : sent.under = {v}) => sent.fits

\* A turn that has begun to walk ends: the graphs have no cycle of silent nodes.
TurnsEnd == turn # None ~> turn = None
====
