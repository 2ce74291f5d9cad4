----------------------------- MODULE FlowRouting -----------------------------
(***************************************************************************)
(* Who answers a message (services/chat_service.py, services/flows.py):    *)
(* the active guided flow, a flow the message opens, a read, or the model; *)
(* and when a message makes the active flow step aside.                    *)
(*                                                                         *)
(* A message is the set of cues its patterns find in it, with the entity   *)
(* it names, the workflow it triggers and the skill it resolves to; what a *)
(* flow does with an answer is in the flow's own module.  The offer of a   *)
(* workflow to switch does not keep its message: when it is taken, any     *)
(* message that such an offer may quote is routed afresh.                  *)
(***************************************************************************)
EXTENDS Naturals, FiniteSetsExt

CONSTANTS
  Entities,    \* what entity_create creates, and "user"
  Workflows,   \* the registered node-graph workflows
  MaxFeatures, \* bound: cues, entity, workflow and skill of one message
  None         \* absence: no flow, no entity, no workflow, no skill

VARIABLES
  flow,    \* session.metadata["flow"]
  admin,   \* whether the caller holds an admin role in Administration
  last     \* the last turn: its message, the flow it met, the one it opened, who answered

vars == <<flow, admin, last>>

-----------------------------------------------------------------------------
(* Messages.                                                               *)

\* What the patterns tell apart: commands of a session, kinds of questions, ...
Cues ==
  {"cancel", "restart", "field", "yes", "no", "secret",                \* _is_cancel, _RESTART_RE, ...
   "query", "question", "read", "fresh", "meta",                        \* _FLOW_QUERY_RE, _QUESTION_RE, ...
   "details", "list", "definition",                                     \* reads of baselines
   "skill", "baseline", "remove",                                       \* what starts a flow
   "standalone", "email", "paraphrase"}                                 \* of an entity; of a skill

Nouns  == Entities \cup {"AMBIGUOUS"}
Skills == {"create_user", "generate_report", "baseline", "role", "assign_access"}

\* _EC_NOT: a message about baselines is about no entity; a standalone create is about one
\* and starts as no question of _FLOW_QUERY_RE does.
Possible(m) ==
  /\ m.entity # None => m.cues \cap {"baseline", "details", "list", "definition"} = {}
  /\ "standalone" \in m.cues => m.entity \in Entities /\ "query" \notin m.cues
  /\ "paraphrase" \in m.cues => m.skill # None

Count(m) ==
  Cardinality(m.cues) + Cardinality({f \in {"entity", "trigger", "skill"} : m[f] # None})

Messages ==
  {m \in [cues : UNION {kSubset(k, Cues) : k \in 0 .. MaxFeatures},
          entity : Nouns \cup {None}, trigger : Workflows \cup {None}, skill : Skills \cup {None}] :
     Count(m) <= MaxFeatures /\ Possible(m)}

Has(m, cue) == cue \in m.cues

\* skills.match finds it by its keywords, not only by its meaning.
Keyword(m) == IF Has(m, "paraphrase") THEN None ELSE m.skill

-----------------------------------------------------------------------------
(* Flows.                                                                  *)

\* "mode" is where create_user has not asked for a field yet, "review" where a baseline or
\* an entity waits to be confirmed.
Flow(name, entity, stage) == [name |-> name, entity |-> entity, stage |-> stage, offered |-> FALSE]

Opened(name)    == Flow(name, None, IF name = "create_user" THEN "mode" ELSE "collect")
Creating(e)     == IF e = "user" THEN Opened("create_user") ELSE Flow("entity_create", e, "collect")
Disambiguating  == Flow("entity_create", None, "collect")
Workflow(w)     == Flow("workflow", w, "collect")
Read            == Flow("a read of baselines", None, "answered")   \* opens nothing

\* _ONBOARDING_FLOWS
Onboarding == {"create_user", "entity_create", "onboard", "remove_role"}

Init ==
  /\ flow = None
  /\ admin \in BOOLEAN
  /\ last = None

\* What one check of maybe_start opens.
When(holds, opens) == {f \in {opens} : holds}

\* Mutant of Arms: one of the checks lost the guard against questions.
ArmsUnguarded(m) ==
  << When(m.trigger # None, Workflow(m.trigger)),
     When(Has(m, "details") /\ ~Has(m, "definition"), Read),
     When(Has(m, "list") /\ ~Has(m, "definition"), Read),
     When(Has(m, "skill") /\ ~Has(m, "query"), Opened("create_skill")),
     When(Has(m, "baseline") /\ ~Has(m, "query"), Opened("formulation_baseline")),
     When(Has(m, "remove"), Opened("remove_role")),
     When(m.entity \in Entities /\ ~Has(m, "query"), Creating(m.entity)) >>

\* What maybe_start looks for, in its order, and what each check opens.
Arms(m) ==
  LET asks == Has(m, "query")
  IN << When(m.trigger # None, Workflow(m.trigger)),      \* looked at before the guard applies
        When(Has(m, "details") /\ ~Has(m, "definition"), Read),
        When(Has(m, "list") /\ ~Has(m, "definition"), Read),
        When(Has(m, "skill") /\ ~asks, Opened("create_skill")),
        When((Has(m, "baseline") \/ m.skill = "baseline") /\ ~asks, Opened("formulation_baseline")),
        When(Has(m, "remove") /\ ~asks, Opened("remove_role")),
        When(m.entity = "user" /\ ~asks /\ ~Has(m, "email"), Opened("create_user")),
        When(m.entity \in Entities \ {"user"} /\ ~asks, Creating(m.entity)),
        When(m.entity = "AMBIGUOUS" /\ ~asks /\ Keyword(m) \in {None, "create_user"}, Disambiguating),
        When(m.skill = "create_user" /\ ~asks /\ ~Has(m, "email"), Opened("create_user")),
        When(m.skill = "role" /\ ~asks, Creating("role")) >>

\* maybe_start: the first that applies.
MaybeStart(m) ==
  LET arms == Arms(m)
      hits == {i \in DOMAIN arms : arms[i] # {}}
  IN  IF hits = {} THEN None ELSE CHOOSE f \in arms[Min(hits)] : TRUE

\* _should_break_out: the first intent that the message starts a flow with decides; a read or
\* a question belongs to no flow.
ShouldBreakOut(f, m) ==
  LET asks == Has(m, "read") \/ Has(m, "question")
  IN  IF Has(m, "query") THEN asks
      ELSE IF Has(m, "remove") THEN f.name # "remove_role"
      ELSE IF m.entity \in Entities THEN
             LET same == \/ f.name = "entity_create" /\ f.entity = m.entity
                         \/ f.name = "create_user" /\ m.entity = "user"
             IN  same => Has(m, "standalone")
      ELSE IF Has(m, "skill") THEN f.name # "create_skill"
      ELSE IF Has(m, "baseline") THEN f.name # "formulation_baseline"
      ELSE asks

\* _is_new_intent: of a workflow, which manages its own switch.
IsNewIntent(f, m) == Has(m, "fresh") \/ m.trigger \notin {None, f.entity}

-----------------------------------------------------------------------------
(* Turns.                                                                  *)

Answered(m, source, opened) ==
  last' = [msg |-> m, met |-> flow, opened |-> opened, source |-> source]

\* No flow is active, or the one that was has stepped aside: introspection, a flow, a read
\* of the ecosystem, an access skill refused up front, the model.
Fresh(m) ==
  LET start == MaybeStart(m)
      gated == start \notin {None, Read} /\ start.name \in Onboarding /\ ~admin
  IN  IF Has(m, "meta") THEN flow' = None /\ Answered(m, "meta", None)
      ELSE CASE gated -> flow' = None /\ Answered(m, "denied", None)        \* _gate_onboarding
             [] ~gated /\ start = Read -> flow' = None /\ Answered(m, "flow", None)
             [] ~gated /\ start \notin {None, Read} -> flow' = start /\ Answered(m, "flow", start)
             [] start = None ->
                  /\ flow' = None
                  /\ \E source \in
                       {"ecosystem", IF m.skill \in {"create_user", "role", "assign_access"} /\ ~admin
                                     THEN "denied" ELSE "model"} :
                       Answered(m, source, None)

\* credential_refusal, before anything else.
Refuse(m) == Has(m, "secret") /\ Answered(m, "guard", None) /\ UNCHANGED flow

FreshTurn(m) == ~Has(m, "secret") /\ flow = None /\ Fresh(m)

\* handle: from here a flow is active, and the message is looked at in this order.
Active(m)  == ~Has(m, "secret") /\ flow # None
Cancels(m) == Active(m) /\ Has(m, "cancel")

Cancel(m) == Cancels(m) /\ flow' = None /\ Answered(m, "flow", None)

\* A review's field may be named in a question, and an intake is navigated with one.
Owned(m) ==
  \/ flow.name = "formulation_baseline" /\ flow.stage = "review" /\ ~Has(m, "baseline") /\ Has(m, "field")
  \/ flow.name = "create_user" /\ flow.stage # "mode" /\ Has(m, "restart")

BreaksOut(m) == Active(m) /\ ~Cancels(m) /\ flow.name # "workflow" /\ ~Owned(m) /\ ShouldBreakOut(flow, m)

BreakOut(m) == BreaksOut(m) /\ Fresh(m)

\* An onboarding ends when another task is asked for by its keywords.
Pivots(m) == flow.name = "onboard" /\ Keyword(m) \in {"create_user", "generate_report"}

Pivot(m) == Active(m) /\ ~Cancels(m) /\ ~BreaksOut(m) /\ Pivots(m) /\ Fresh(m)

InWorkflow(m) == Active(m) /\ ~Cancels(m) /\ flow.name = "workflow"

\* The switch is offered, and offered again, for a new intent.
OfferSwitch(m) ==
  /\ InWorkflow(m)
  /\ flow.offered => ~Has(m, "yes") /\ ~Has(m, "no")
  /\ IsNewIntent(flow, m)
  /\ flow' = [flow EXCEPT !.offered = TRUE]
  /\ Answered(m, "flow", None)

\* A yes to the offer: what it quotes is routed, the workflow left.
Switch(quoted) ==
  /\ InWorkflow(quoted) /\ flow.offered
  /\ IsNewIntent(flow, quoted)
  /\ Fresh(quoted)

Stay(m) ==
  /\ InWorkflow(m) /\ flow.offered /\ Has(m, "no") /\ ~Has(m, "yes")
  /\ flow' = [flow EXCEPT !.offered = FALSE]
  /\ Answered(m, "flow", None)

Advance(m) ==
  /\ InWorkflow(m) /\ ~IsNewIntent(flow, m)
  /\ flow.offered => ~Has(m, "yes") /\ ~Has(m, "no")
  /\ flow' \in {None, [flow EXCEPT !.offered = FALSE]}
  /\ Answered(m, "flow", None)

\* The message is the flow's: it goes on, reaches a review, learns its entity, or ends.
Answer(m) ==
  /\ Active(m) /\ ~Cancels(m) /\ ~BreaksOut(m) /\ ~Pivots(m)
  /\ flow.name # "workflow"
  /\ \/ flow' = None
     \/ flow' \in {[flow EXCEPT !.stage = s] : s \in {"collect", "review"}}
     \/ flow = Disambiguating /\ flow' \in {Creating(e) : e \in Entities}
  /\ Answered(m, "flow", None)

Turn(m) ==
  /\ \/ Refuse(m) \/ FreshTurn(m) \/ Cancel(m) \/ BreakOut(m) \/ Pivot(m)
     \/ OfferSwitch(m) \/ Switch(m) \/ Stay(m) \/ Advance(m) \/ Answer(m)
  /\ UNCHANGED admin

\* The reply is shown; the next message comes after it.
Shown == last # None /\ last' = None /\ UNCHANGED <<flow, admin>>

\* A confirmed card: a created user is onboarded, a data call guided, other flows end.
Confirmed ==
  /\ last = None
  /\ flow' \in {None, Opened("onboard"), Opened("data_call")}
  /\ UNCHANGED <<admin, last>>

\* The caller's roles change on the platform.
RolesChange == last = None /\ admin' = ~admin /\ UNCHANGED <<flow, last>>

Next ==
  \/ last = None /\ \E m \in Messages : Turn(m)
  \/ Shown \/ Confirmed \/ RolesChange

Spec == Init /\ [][Next]_vars

-----------------------------------------------------------------------------
(* Properties.                                                             *)

\* maybe_start: "A question / read / status / cancel that merely mentions a workflow's subject
\* must never OPEN a mutation flow", whatever flow it met, left or was quoted in.  The
\* node-graph workflows look at the message before that guard, and do open.
QuestionsOpenNothing ==
  last # None /\ last.opened # None /\ Has(last.msg, "query") => last.opened.name = "workflow"

\* What a message asks to open, by its words or by the skill it resolves to.
Intents(m) ==
  {Opened("create_skill") : x \in m.cues \cap {"skill"}}
  \cup {Opened("formulation_baseline") : x \in m.cues \cap {"baseline"}}
  \cup {Opened("remove_role") : x \in m.cues \cap {"remove"}}
  \cup {Creating(e) : e \in Entities \cap {m.entity}}
  \cup {Opened(s) : s \in {"create_user"} \cap {m.skill}}
  \cup {Opened("formulation_baseline") : s \in {"baseline"} \cap {m.skill}}
  \cup {Creating(s) : s \in {"role"} \cap {m.skill}}

\* A command and nothing else; "please" and "can you" make it no question.
Command(m) ==
  /\ Cardinality(Intents(m)) = 1
  /\ m.trigger = None /\ m.skill = None /\ m.entity # "AMBIGUOUS"
  /\ m.cues \subseteq {"skill", "baseline", "remove", "standalone", "question", "yes", "no"}

\* _should_break_out: "so a stale/abandoned flow can't swallow it ... or let it fall through to
\* the LLM".  A command meets any flow: it opens what it names, is refused for want of the
\* authority, is an answer of that same flow, or waits in a workflow's offer.
CommandsLand ==
  last # None /\ Command(last.msg) =>
    LET named == CHOOSE f \in Intents(last.msg) : TRUE
    IN  \/ last.opened = named
        \/ last.source = "denied" /\ named.name \in Onboarding
        \/ /\ last.met # None
           /\ last.source = "flow"
           /\ \/ last.met.name = "workflow"
              \/ last.met.name = named.name /\ last.met.entity = named.entity

\* "legitimate field value rarely trips it": a flow is opened over itself, its answers lost,
\* only by a standalone command, by a question, or by a message of several intents.
ReopenedOnPurpose ==
  (/\ last # None
   /\ last.met # None /\ last.opened # None /\ last.met.name # "workflow"
   /\ last.met.name = last.opened.name /\ last.met.entity = last.opened.entity) =>
    \/ last.msg.cues \cap {"standalone", "question", "read"} # {}
    \/ Cardinality(Intents(last.msg)) > 1
====
