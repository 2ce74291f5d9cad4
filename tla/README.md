# A verification project for gc_agent

gc_agent is a chat agent in front of a government-contracting platform: a FastAPI service that answers
questions with a language model and the platform's MCP tools, and that changes things on the platform
only through *cards* a user confirms. These modules model its core logic in TLA+. TLC checks them on
small instances, and TLAPS proves the theorems listed below for every instance.

Paths are relative to `src/app/` unless they start with `src/`.

## 1. The system

Two uvicorn worker processes serve requests (`src/Dockerfile`,
`src/deploy/supervisor/ai-agent-service.conf`). Everything that outlives a request is in one shared
key-value store (OpenSearch or redis behind `connections.redis_client`), read and written a whole document
at a time, without locks or versions, or in flat files of the shared working directory. So two handlers
interleave at every store operation, and within a worker at every `await`.

| Component | State it keeps | Operations | Interacts with | What is hard | What makes it correct |
|---|---|---|---|---|---|
| Chat turns and the confirmation gate (`services/chat_service.py`, `routers/chat.py`, `routers/platform.py`) | the live session: messages, `pending_action_id`, `metadata.pending_actions`, `metadata.flow` | turn, confirm and decline (streamed and sync), new chat, delete | session store, flows, model, tools | overlapping whole-document saves, disconnects, failing saves, an exception between the tool's effect and the save | what was settled stays settled, a card runs once, a card is answerable until it is disposed of, requests end |
| Flow routing (`flows.maybe_start`, `flows.handle`, the routing part of `reply_stream` and `chat`) | none of its own | open, answer, break out, switch, cancel, refuse | every flow, skills, the model | two functions with two orders, one message with several intents, stale flows | a question opens nothing, a command lands, an answer does not restart its flow |
| Guided flows (`services/flows.py`: create user, onboard, baseline, data call, entities, remove role, create skill) | `metadata.flow`: the flow's name, stage and answers | start, answer, back, restart, cancel, edit, decline, after-confirm steps | the gate (arms cards), the platform (lists to pick from) | cards that outlive their flow, confirms that resume the wrong flow, edits that leave dependants stale, failed fetches | a card asks for what the user reviewed, no mandatory answer is missing, a flow records only what happened |
| Baseline reads (`flows.list_baselines`, `baseline_details`) | none | list, details | the platform, fund group by fund group | a group whose call fails, changes by others in between | the list has what was there, the baseline that was meant is opened |
| Workflow engine (`services/workflow.py`, `workflow_store.py`) | a running workflow in `metadata.flow` | open, answer, edit, switch, walk, write, read back; save and delete definitions | flows, tools, admin console | user-authored graphs that change under a run, writes with an unknown outcome | the write is what was confirmed, success is never claimed without the record, turns end |
| Session store and history (`services/session_service.py`, history endpoints of `routers/platform.py`) | `session:<id>` (expires), its mirror `history:<id>`, archives `history:<id>:<ms>` | load, save, archive, clear, delete, list, hint | key-value store | two documents per save, a crash between them, expiry, errors that look like absence, one history per application and day | no answered turn is lost, a cleared conversation stays cleared, each turn is listed once |
| Background tasks (`services/task_service.py`, `chat_service.run_background_task`, `main.create_app`) | `task:<id>` | start, progress, finish, fail, reconcile at start-up | key-value store, tools, worker life cycle | read-modify-write from several processes, crashes, capped key scans | every task settles, an interrupted task is really dead, only a success whose report's answer was lost is taken back |
| Key-value clients (`connections.py`) | the documents; an in-memory fallback | get, set, delete, keys, lists | everything above | errors hidden as "not there", lazy expiry, 10000-document scans | as seen by the modules above |
| Tool catalogue and MCP client (`mcp/`) | cached catalogue, stored copy, embedding index | refresh, drop, restore, select, scope | tool server, both workers | failed and empty listings, partial maps of modules | what counts as fresh was listed; the user's own tools are offered |
| Session model, prompt window, model client (`models/session.py`, `services/llm_service.py`, the rounds of `chat_service`) | messages | append, window, call, gate, execute | chat turns, catalogue | calls and results split by the window or by late confirms; text that is a call; cut-off answers | the question is in the prompt, calls and results stay in pairs, the risky writes the model was given wait for a card |
| Access changes by name (`services/skills.py`, `mcp/tool_registry.py` resolvers, `_skill_chain_events`) | none of its own: the platform's assignment rows | assign, change, edit and remove a role, remove an application | the gate (cards), the platform | names resolved after the confirm, full-row replacement, two calls for one removal | only what the card names changes, one field at a time; a removal is complete |
| Skills of users (`services/skills.py`, `lookups.py`, `ui_blocks.py`) | a cached list of codes | call, check, card, complete, create, read, related reads | gate, platform | time between check, card and call; lost answers; default scope | what is told, shown and created is the caller's own and as the card said |
| Stores of the operator (`skill_store.py`, `workflow_store.py`, `balloon_store.py`, `seasonal_store.py`, `runtime_config.py`) | a document and a flat file each, a view per worker | load, save, delete, reset | admin console, create-skill flow | truncating writes, silent failures, stale views, overlapping saves | what is read is what was acknowledged, in every worker after a time to live |
| Logging and audit (`commons/logger.py`, `commons/metrics.py`) | a ring and a queue per worker, a trail file, archives, an index | record, rotate, prune, drain, rehydrate | admin console | two workers on one file, failed bulk calls, restarts | a record leaves the files only with an archive, none is indexed twice; answered turns are shown done |
| Ecosystem Q&A, intent classification, authentication, backup and health, presentation, evaluation scripts | mostly none | | | text, presentation and I/O | |

## 2. Modules

| Module | Models | Extends / uses |
|---|---|---|
| `ConfirmProtocol` | what the confirmation gate promises of a card, abstractly | |
| `ChatSession` | turns, confirms, new chat and delete as the steps of overlapping handlers | refines `ConfirmProtocol` (`Protocol == INSTANCE ... WITH state <- CardState`) |
| `FlowRouting` | which flow, skill or model answers a message, and which flow it opens or leaves | |
| `UserOnboarding` | the create-user intake and the onboarding flow, with their cards | |
| `BaselineFlow` | the picker flow that generates a budget baseline | |
| `BaselineReads` | "list the baselines" and "details of the baseline" | |
| `DataCall` | the guidance after a data call is created: attendees and reminder | |
| `EntityFlow` | the flows that create applications, roles, menus and privileges, and the one that removes a role | |
| `Workflow` | the workflow engine, its definitions and their stores | |
| `OverrideStore` | the five stores of what an operator changes at run time | |
| `SkillAuthoring` | the create-skill flow | `OverrideStore` |
| `UserAccess` | confirmed changes of a user's access, from names to rows to calls | |
| `SkillRun` | reading and creating users through their skills | |
| `SessionHistory` | the live document, its mirror and the archives, operation by operation | |
| `Conversations` | session ids, history lists and the resume hint, request by request | |
| `BackgroundTasks` | task documents, their runners, and workers that end and restart | |
| `AuditTrail` | ring, trail file, queue and index of the audit records | |
| `ToolRegistry` | the tool catalogue and what of it is offered | |
| `Transcript` | the messages of a session and the window of the prompt | |
| `ModelCall` | the rounds between model and tools, both ways | `ToolRegistry`, `Transcript` |
| `UserFlows`, `Formulation`, `AccessAndSkills`, `Histories` | modules checked and proved about together, with their joint properties | `UserOnboarding`, `EntityFlow` and `FlowRouting`; `BaselineFlow`, `DataCall` and `BaselineReads`; `UserAccess` and `SkillRun`; `SessionHistory` and `Conversations` |
| `ChatSessionProofs`, `UserOnboardingProofs`, `BaselineFlowProofs`, `SessionHistoryProofs`, `SharedStateProofs`, `UserAccessProofs`, `TrailAndWorkflowProofs`, `ModelCallProofs` | theorems about the module named, `SharedStateProofs` about `SkillAuthoring`, the `OverrideStore` it extends, and `BackgroundTasks`; `UserOnboardingProofs` also about `FlowRouting` and `EntityFlow`, `BaselineFlowProofs` about `DataCall` and `BaselineReads`, `UserAccessProofs` about `SkillRun`, `SessionHistoryProofs` about `Conversations`, and `TrailAndWorkflowProofs` about `AuditTrail` and `Workflow`, which share nothing | TLAPS |
| `MC...` | instances for TLC | |

Operators with a comment "Mutant of X" are deliberately wrong variants of the definition X that
follows them. No specification uses them; each is substituted for X to show that a property notices.

Some runs check two or three modules at once. A composition module (`UserFlows`, `Formulation`, `AccessAndSkills`, `Histories`) has a variable (`which`, `view`) that is chosen at the
start and never changes, and its next-state relation is the disjunction of "this module steps, the rest stands
still". Such modules share no state in the code either (a session holds one flow at a time; a list of baselines has
no flow), so the run explores the sum of what each reaches. Properties named in a composition are conjunctions of
properties stated, with their reason, in the modules, and its assumptions on the constants are those of the proofs.

### ChatSession

`store` is the document `session:<id>`. Each request has a stage `pc`, and `snap`, the private copy its
handler loaded. An action is one stretch of the handler between two suspension points or store operations:

| Code | Actions |
|---|---|
| `get_or_create` | `Load`, `Create` |
| `reply_stream`: save of the message; flows, gates and direct answers; hand-over to the model | `SaveMessage`; `RouteFlow`, `RouteFlowCard`, `RouteCancel`, `RouteFresh`; `RouteModel` |
| `_stream_loop`: a round saved, a card armed, an answer, the end | `LoopRound`, `LoopCard`, `LoopAnswer`, `LoopEnds` |
| `confirm_stream`, `confirm_action`: look up; decline; authority; tool; what follows | `RefuseConfirm`; `Decline`, `DeclineFails`; `Approve`, `Authorize`, `DenyAccess`; `RunTool`, `ToolRefused`; `AfterAccepted`, `AfterRejected`, `AfterRunCard`, `AfterRunFails` |
| `_flow_chunks`, `_flow_response`, final save | `SaveReply` |
| `clear_messages`, `delete` | `LoadClear`, `SaveClear`, `Delete` |
| a store write that raises, a client that leaves | `SaveFails`, `Disconnect` |

`tool`, `shown`, `ran`, `taken`, `fate`, `answered` and `alone` are history: what the user was shown, what took effect,
how a *saved* answer disposed of a card, and which cards were settled while no other request was in flight. The model's answers, the routing of a message and the outcome
of a tool are nondeterministic choices. The flows `create_skill` and `workflow` arm no card and have
modules of their own.

### UserOnboarding

One session, one request at a time, every save succeeds: a turn or a confirm is one step. `flow` is
`metadata.flow`, `pend` the arguments of every waiting card, `accounts` and `access` what the platform has.
Each question of the intake (`_create`, `_create_nav`), each step of the onboarding (`_onboard`) and each way
a confirm ends (`Decline`, `Deny`, `Reject`, `AcceptCreate`, `AcceptAssign`) is an action. The six answers are
alike but for the user name, so only that has a value. A message that makes the agent repeat itself is a stutter.

### BaselineFlow

The picker engine (`_baseline`, `_advance_baseline`, `_baseline_finalize`) over eight of its steps: the ones left
out are treated exactly as ones that are kept. A fetch returns the platform's options, or nothing when it fails;
`GoTo` resolves a step without asking (a sole option, a dependent step with nothing to narrow). The review may
`Edit` one field; a rejected generate comes back with a new card (`Reject`).

### EntityFlow

As in `UserOnboarding`, a turn or a confirm is one step. A create flow is its entity, the field it stands at (`idx`) and
what was given (`data`); `_ENTITY_CREATE` is the operator `Fields`, in which `details` stands for every field nothing
else depends on. `NewMenu` puts the role flow into the menu flow's `resume`, and `ResumeRole` takes it out when *any* menu
card is confirmed. `roles`, `menus` and `apps` are the platform's, which refuses what breaks its unique columns and
references (`Feasible`); `Lists`, `Taken` and `RoleIndex` are what the flow's guards read of them. A menu's name and its code are
unique in its application. Some applications are disabled (`Disabled`): `_apps` passes over them, so their codes look free (`Enabled`). A role's code is made
from its name with a number that makes it unique (`UniqueCode`); `CodeOf` gives two names one code.

### UserAccess

A confirm is a read, in which the names on the card become rows (`Assign`, `Unassign`, `RemoveApplication`, `ChangeRole`,
`EditAccess`), and a call (`Accepted`, `Refused`) that asks for what was found: `body`. The removal of an application goes
on with its chain (`ChainParent`). Two confirms interleave between the two. `Covers` is the containment by which names
match; the platform's order is not known, so the first that matches is any that matches. A card of a removal may hold ids of rows,
which the model may add although no schema shows them: they are taken as they are (`ById`). A row that is put back is a copy in which flags that were not
set have their defaults (`Copied`). `clean` is history.

### SessionHistory

`save` is `SetLive` then `SetMirror`. A turn that finds no session archives what the mirror holds before
it creates one (`Peek`, `Archive`); a new chat archives the conversation before it clears it (`GetForClear`).
`Expire` is the time to live and the delete; `Crash` ends a request between two writes, and leaves it `dead`. A failed write of an archive or of
the mirror is passed over (`SetArchive`, `SetMirror`), and a read that fails is "no such document" (`Reads`). `missed` is history: the turns of which
the last write that was to keep them failed, or the read of what was to be archived; so is `behind`: the mirror was not written.

### BackgroundTasks

An update is a read (`Begin`, `Report`, `Finish`, `Fail`) and a `Write` of what was read. A worker that starts
lists the keys (`Restart`), reads each document (`Inspect`) and overwrites it (`Interrupt`), and only then takes
requests (`Ready`). `Die` ends a worker and its runners. A read or a key scan that fails answers "nothing". A write that raises may have been made or
not (`WriteFails`, `StartFails`, `InterruptFails`): the runner whose report of success raises goes on to report a failure.

### FlowRouting

A message is a set of cues - what the regular expressions and the skill matcher would find in it - of at most `MaxFeatures`:
question, read, "standalone", cancel, the nouns and verbs of the flows, a skill, a workflow's trigger. `Arms` is
`maybe_start`, `ShouldBreakOut` is `_should_break_out`, in the code's orders; `Turn` is the routing of `reply_stream` and `chat`.
The variables say which flow is active and what the last turn did; what flows collect is the other modules' part.

### BaselineReads, DataCall

`ReadGroup` is one call of the loop over fund groups, which fails or answers as of that moment (`OthersChange` runs in
between); `Target` the one candidate that is left. `steady` is history: what was on the platform all along. In `DataCall`, `CallId` is
the search for the row that was just created: the newest with the title, or the newest of all; `OthersCreate`, under any title, the user's own
included, and a list that lags (`Listed`) make it another user's. `created`, `listed` and `crossed` are history: the call that was made, whether the list of its
lookup had it, and that a card other than the current one was answered.

### Workflow

`Graph` gives every definition as data: the shipped `grant_access.json` node by node, an edited version and an authored one. A turn
starts with an answer (`ChooseOption`, `TypeAnswer`, `ConfirmIt`, `EditStep`, ...) and walks silent nodes one step each (`WalkFetch`,
`WalkFilter`, `WalkBranch`, `WalkMutate`, `WalkVerify`) until it asks, confirms or ends. The bag of answers, the console's saves and
deletes, both workers' registries and the platform's facts are state; `sent` and `told` are history: the last write and
the last claim of success; so are, in a flow, `shown` (the summary in the conversation), `basis` (the answers the list behind a choice was fetched and
kept for) and `under` (the versions of the definition that served the run, since the workers may know different ones).
`advance` takes "change <step>" at any ask or confirm node, while the chips that send it are on the summary only; `EditAnywhere` is the difference.

What the properties ask of a definition is stated beside them. `Guarded`: a write is reached from a confirm node only, whose summary names its
arguments, and versions of one workflow agree on what a waiting node is for. `Identifies`: a row that the read-back of a write matches is the record it wrote.
`Certifies`: a certificate says which answers each list and each choice depend on and which of them are of the current answers at each node, and every edge of
the graph carries it over. `MCWorkflow` assumes these of the shipped, the edited and the authored definition (`MCGuarded`, `MCIdentifies` on bags with one
value a field, `MCCertifies` when `EditAnywhere` is false), and TLC evaluates them.

### OverrideStore, SkillAuthoring

A change (`Save`, `Delete`, `SetConfig`) is the code's sequence of store write, opening (and emptying) of the file, writing it, and
the worker's own view, each a step a worker may die between; the stores pass over a failure of either write, of the document (`set_fails`, `delete_fails`) or of the
file (`file_fails`: it cannot be opened, or keeps what it held). `Merge` is a load from both, file first. `allowed` is history: the
contents a reader may find under a key. `SkillAuthoring` adds the conversation; its last answer is `Save` with `store = "skill"`.

### SkillRun

A skill's run: the call is complete or asks (`Missing`), is checked (`Check`), waits for its card, is completed (`Filled`,
`Resolved`) and posted (`Outcome`: created, refused, or lost on the way back). `Resolved` is `lookups.resolve`: the list's own word, else the first label that
contains it (in an order of the platform's, so any of them), else the word itself; the list may be an old one (`Relist`) or empty (`NoList`). A lookup reads, reads what is related
(`Related`) and shows cards. `Scoped` is the default user of the resolver.

### AuditTrail

Every record is appended to the ring, the file and the queue of its worker (`Emit`); after `CheckEvery` of them the file's lines
are counted (`Count`), renamed (`Replace`) and old archives pruned (`Prune`), with the other worker in between. An archive is named by the
second: until `NextSecond`, another rotation takes the name, and the place, of the last. `Drain` takes a batch and
sends it, whatever comes of it; `Rehydrated` fills the ring of a worker that starts, from file or index.

### ToolRegistry, Transcript, ModelCall

A turn asks, lists the tools (`ListTools`), selects and scopes them (`Select`), and goes round with the model: an answer, an empty
one that is nudged, calls that are executed or become cards (`CallStream`, `CallSync`), and the next round. Between steps the server's
list, the cache and the stored copy change. `Transcript` is the list of messages by role, size and call id; `WindowStart` is
`_windowed_messages`. The classification of a tool is the constants `Mutations` and `Risky`; `gating` is `TOOL_RISK_CONFIRMATION`, which an operator may
switch (`SwitchGate`). An answer asks for tools by the model's ids or, when they are recovered from its text, by `tc_<name>` (`Asks`, `CallId`), so ids repeat.
`given` is history: the risky tools the model was given from the listing that still holds.

### Conversations

`Ask` is a turn through `agent_reply` or its stream, with the session id each of them makes of application, user and echo; `NewChat`,
`Switch`, `Expire` and `NextDay` change what the next one finds. `ListHistory`, `Entries`, `OfDay` and `Detail` are the endpoints' pure part.

## 3. Runs

| Run | Instance | Shows |
|---|---|---|
| `MCChatSession_serial` | 4 requests, 2 cards, 2 flows that re-arm, one request at a time, no fault, fairness | what an answer says of a card is so (`AnswersAreTrue`: each runs once, declined and cancelled ones never, a run is recorded, a decline disposes); the gate implements `ConfirmProtocol`; every request ends |
| `MCChatSession_faults` | 4 requests, 2 cards, every flow, tool and kind of request, disconnects and failing saves | no shown card vanishes, no answered turn is lost, a settled card never runs |
| `MCChatSession_workers` | 3 overlapping requests, 2 cards, both faults | the current action can always be looked up; a card settled while no other request was in flight stays settled, whatever overlaps later (`SettledAloneIsFinal`) |
| `MCUserOnboarding_cards` | 2 users, 2 applications, 1 role, 3 cards, failing look-ups; or every message of up to 3 cues, 2 entities, 2 workflows; or 2 applications, 2 names with one code, 1 protected role, 1 disabled application, every entity, 3 cards, failing lists | no hole in the intake, the current card is what the flow summarised; messages reach their flow (`MessagesReachTheirFlow`); no field is passed over, a menu is of its role's application, the current card is the flow's and feasible as far as the flow can know (`EntityCardHolds`) |
| `MCBaselineFlow_review` | 2 titles, 2 years, 2 offices, a sole fund group, failing fetches, rejections, 2 cards; or a data call with 3 cards, 3 calls, others' of the same title, lists that fail or lag; or reads of 2 fund groups and 2 baselines with 2 changes | no step is passed over, a full review is complete, the current card is what the review shows (`ReviewIsWhole`); the guidance is of the call that was created, but when the list lacked it or a later one has its title (`CallIsFoundAndTold`); lists and details are right (`ReadsAreExact`) |
| `Histories_serial` | 4 requests one at a time, crashes, failing reads and writes, expiry; or 3 turns, 2 applications, 2 days, both endpoints, no fault | an answered turn is lost only where the last write that was to keep it, or the read of it, failed; no other write drops one; the mirror is current unless a save was cut off before it; a cleared conversation stays cleared; each turn is listed once and in its application |
| `MCBackgroundTasks_workers` | 2 workers, 2 tasks, 2 worker ends, fairness; or 1 worker, 2 tasks, 2 ends and every store fault | no orphan when a worker takes requests again, every runner's end is on record, every task settles; a single worker marks only dead tasks and takes back no final status but a success whose report raised (`SoloMarksTheDead`) |
| `MCSkillAuthoring_stores` | 5 stores, 2 workers, 2 keys, 3 changes, 1 crash, one kind of failure, 2 conversations | what is read was acknowledged, cut short, or left behind by a write that failed, and every worker comes to serve it (`StoresAgree`); a skill is what was last shown |
| `MCUserAccess_overlap` | 2 overlapping confirms, 2 users, 2 applications, 3 roles of which one word names two, ids on cards, unset flags, failing reads, refusals, clients that leave; or 2 callers, 3 names, 2 runs, 2 lists of types | only rows of the card's user and application, or of its ids, change, one field at a time; an undisturbed removal is complete; "created" is said to the one who created, lists are the named user's; an account is as its card said, its type as typed or as a list gave it |
| `MCWorkflow_grant` | 2 workers, 3 definitions, 1 confirm, 1 console change, 1 change by others, every fault, fairness | a write is what the user said yes to (`WriteWasConfirmed`), with choices of lists fetched for it where one version served the run (`WriteFitsAnswers`); success is said of a record that is there; turns end |
| `AuditTrail_rotate` | 2 workers, 2 turns of 3 records, files of 2 lines, 1 rotation kept, 1 crash, an index that is up, failing or absent, fairness | a record leaves the files only with an archive that was pruned or overwritten within its second, and is indexed at most once; queues drain, answered turns show as done |
| `MCModelCall_turns` | 3 tools of which 2 are known, 2 turns of 2 rounds, 1 event, a budget of 3, fairness | fresh is what the server lists, own tools are offered; a risky write the model was given waits for its card (`GivenWritesWait`); question, calls and results in the prompt; turns finish |

The bounds. Every property is about one card, one turn, one task or one document against whatever else happens,
so two cards, two tasks and two workers show each interference, and a third or fourth request leaves room for
setting it up (a turn that opens a flow, one that arms the card, the two that compete). In `EntityFlow` the longest
story is three cards: a menu for the role, the role, and what another card changed meanwhile. In `UserAccess` a change
needs one other change to be disturbed. In `OverrideStore` a change, its overwriting and its return are three. In
`AuditTrail` two turns of three records with files of two lines rotate the file more than once. Three cues make every pair of intents with a
question, a read or a cancel. `MaxRounds`, `MaxCards`, `MaxCrashes`, `MaxChanges`, `MaxTurns` and their like bound counters the code
bounds by configuration (`LLM_MAX_ITERATIONS`) or not at all; a request is used once, so that a behaviour has as many
requests as the instance. Deadlock is not checked: a behaviour stops when its requests, cards or tasks are used up.

`Locks` in `UserAccess` is an assumption on the platform: every replaced row carries the `versionNumber` that was read,
and the platform refuses an old one. With `Locks = FALSE` the later of two edits undoes the earlier and `OnlyWhatIsNamed`
is violated: the run shows that the code puts back what it read, and leaves the overlap to the platform. `Serial` in `OverrideStore` starts a change when none is under way: of two that overlap, one is lost (below).

Symmetry is used in safety runs only, for sets that are compared for equality only.

Fairness. `ChatSession!FairSpec` is weak fairness of each request's server side (`Serve`): handlers await calls that
have timeouts and loop at most `LLM_MAX_ITERATIONS` times. Users need not send anything. `ModelCall!FairSpec` and
`Workflow!FairSpec` assume the same of a turn that has begun, for the same reason. `BackgroundTasks!TasksFairSpec`
is weak fairness of each runner, whose tool calls have timeouts, and of each worker's start: uvicorn's supervisor
replaces a worker that ended. `AuditTrail!TrailFairSpec` is weak fairness of what an emitted
record goes through (`Persist`) and of the periodic drain that `main.lifespan` starts (`Drain`). No worker has to end, no task has to be started and nobody has to ask.

### Disagreements met while modelling

Claims of the code that the code does not keep, each stated as a property in its module. The first group is shown by
`tlc -config <name>.cfg <module>`, the module being the name before the underscore; for the second, replace the properties of the run's cfg by the property named and, where
given, change the constant.

| Instance | Property | What happens |
|---|---|---|
| `MCChatSession_cancel` | `CancelledNeverRuns` | a cancel handled while a confirm is in flight says "nothing was saved"; the mutation runs |
| `MCChatSession_decline` | `DeclineDisposes` | `on_decline` knows no branch for `create_user` and `remove_role`: declining an old card there raises and the card stays |
| `MCChatSession_resume` | `RunsAreRecorded` | an assignment confirmed during an intake takes effect and `after_assign` raises before the save |
| `BackgroundTasks_live` | `InterruptedIsDead` | each worker reconciles the shared tasks when it starts, the other's running ones included, whereas `task_service.py:64-65` says their runner "died with the previous process" |
| `BackgroundTasks_dropped` | `EndIsRecorded` | an update whose read fails is dropped, the final one included |
| `BackgroundTasks_capped` | `NoOrphans` | a key scan that misses a task leaves it running for ever |

`SoloMarksTheDead` (one worker) is the small instance of the theorems `SoloInterruptsTheDead` and `SoloTakesBackOnlySuccess`. That a task is told as failed
that had succeeded is what the code does: the write of `succeeded` is made, its answer is late, `update` raises (`services/chat_service.py:1165`) and
the except clause writes `failed`.

| Run to change | Property | What happens |
|---|---|---|
| `MCUserOnboarding_cards` | `AssignStepHasCard`, `CreateStepHasCard` | a denied or rejected confirm leaves its flow at a confirm step that has no card |
| `MCUserOnboarding_cards` | `AssignedIsGranted` | an older card confirmed at a later confirm step is credited as the flow's assignment |
| `MCBaselineFlow_review`, `FundOf <- MCFundOf`, `Funds = {g1, g2}` | `OfficesInFundGroup` | an edit of the fund group keeps the offices of the old one |
| `MCBaselineFlow_review` | `FundNeverBlank` | a rejected card of an abandoned run is re-armed from the new run's unfinished data |
| `MCBaselineFlow_review` | `TitlesUnique` | two waiting cards with one title both generate |
| `MCBaselineFlow_review` | `OfficesExplicit` | "All" during a failed fetch is the empty list |
| `MCUserOnboarding_cards` | `CardWouldPass` | the question is "A unique **application code**?" (`services/flows.py:2533`), and the code of a disabled application passes its check, since `_apps` leaves those out |
| `AuditTrail_rotate` | `NeverDropped` | "ROTATE (never drop)" (`commons/logger.py:236`), but an archive is named by the second (`248`): two workers that both counted rename within it, and the second replaces the archive of the first |
| `MCUserAccess_overlap` | `TypeIsValid` | `lookups.resolve` is to "return the valid lookupValueCode for value, else None"; an unmatched word goes out as it is, since `None` leaves the argument alone |
| `MCUserAccess_overlap` | `RemovesItsOwn` | an id on a card is taken as it is, whoever's row it is of, whereas `mcp/tool_registry.py:456` says "find that exact row in the user's roles" |
| `MCUserAccess_overlap` | `UnassignsExactRow` | "Super Admin" is removed for "Admin", though the user has both |
| `MCUserAccess_overlap` | `ChangesTheRoleItNames` | the role a change is to be made from is ignored when the user has only one, another one |
| `MCUserAccess_overlap` | `ChangeRoleTakesEffect` | `execute` chooses a resolver by the argument `action` (`mcp/tool_registry.py:759`) and fills in its default only afterwards, so a change of role whose card has none changes nothing, whereas `services/skills.py:329` says the default "pins the change-role resolver" |
| `MCUserAccess_overlap`, `Locks = FALSE` | `OnlyWhatIsNamed` | the later of two edits undoes the earlier |
| `MCWorkflow_grant` | `DependentsRerun` | an answer is changed in a worker that knows one version of a definition, the choice that depends on it is made in the worker that knows the other, from the old list, whereas `services/workflow.py:218-220` says dependent steps re-run |
| `MCWorkflow_grant`, `EditAnywhere = TRUE` | `WriteFitsAnswers` | a graph with an edit that forwards past a fetch keeps the choice made from the old list, whereas `services/workflow.py:218-220` says dependent steps re-run |
| `Histories_serial`, `Serial = FALSE` | `NothingLost`, `MirrorIsLatest`, `ClearedStaysCleared` | of two overlapping turns the one that saves last removes the other's; two saves cross; a turn loaded before a new chat brings the old conversation back |

### What the models say of the code beside the properties

Behaviour that is in the models because it is in the code, and that a reader of the code would want to know of.

- *Flow routing.* Workflows look at a message before the guard against questions, of which the comment says "applied to every arming check".
  The order in which `_should_break_out` tries the intents is not `maybe_start`'s: in `create_skill` a message with a skill and a
  remove-role intent restarts `create_skill`, in `remove_role` it is swallowed. A polite question that matches the create-user skill restarts
  `create_user`. A skill that resolves to the baseline tool, with a remove intent, reopens the baseline flow.
- *Data call.* The title search takes the newest row with that title, and any newest row if there is none yet: attendees and reminder may go
  to another user's call, when the list lags or somebody used the same title in between. Confirming an older attendee card credits the group chosen now. Attendee and reminder cards act on
  whatever flow is active (`dc_after_attendee` asks only `is_active`).
- *Baseline reads.* A group whose call fails is left out without a word, though the reply says "Your N baselines"; if all fail it says there are
  none. When the second match is in such a group, the first one opens. Failed details read as "freshly generated".
- *History.* The stream endpoint takes the client's session id or `agent:user`: streamed chat is not kept per application. The prefix of an
  application is compared without a delimiter, so that codes of which one begins with the other share entries. An entry listed as current and opened
  after a new chat shows the new conversation.
- *Workflow engine.* "stay" at a confirm step raises in `_render`; a definition deleted under a run makes every message but a cancel raise; a
  required multi-choice can never be finished; a failed fetch of the user's roles offers roles already held; "nothing was changed" is said after a
  timeout that was applied; an optional "skip" keeps an older answer; a mutation without a confirm node, or a cycle of silent nodes, is accepted.
- *Operator's stores.* Of two overlapping saves the file's older copy wins; `set_many` from a stale or empty cached copy drops the other worker's
  parameters; a deleted item returns when the store's delete failed; when the file's write failed, the acknowledged change is
  undone at the next load, which takes the file's copy first; the other worker has a new skill only after a restart; a worker that dies before
  the flow is popped creates the skill a second time; an empty calendar is served as empty for a time to live.
- *Audit.* A failed batch is not re-queued, though a comment says it is tried again. Just after a
  rotation a restarted worker refills from a short file although archives exist. The page shows the answering worker's ring only, so a turn of
  a restarted worker stays open there; confirmed writes have no request id and never show.
- *Catalogue and model.* A 200 answer without a list empties the cache and the stored catalogue; a forced refresh that fails after such an answer takes the
  stored list for fresh, against `tool_registry.py:904-906`. A failed load of the map of modules is cached as empty. The sync way runs a mutation
  the catalogue does not list unconfirmed (`chat_service.py:1504-1512`), the one the model was given included when the listing was replaced in between. With
  `TOOL_RISK_CONFIRMATION` off everything runs. A single result larger than `MAX_HISTORY_CHARS` leaves the model with an empty
  prompt; a window without a user turn may begin with a result whose call is cut (`session.py:77-81`). A new message instead of a confirm leaves a
  call without a result.
- *Skills.* The uniqueness of a name is checked before the card only, and a check that fails passes. A create whose answer is lost is told as failed.
  A failed load of the codes is cached as empty for 600 s, and the user's own word goes to the platform, as does a word that no label contains; a word that several
  labels contain becomes the first of them. In a chain, a step's business
  error counts as done.

## 4. Theorems

All are about `Spec`, for any values of the constants that satisfy the modules' assumptions: finite or infinite sets of
requests, cards, users, rows, tasks, tools and workers, and any bounds. What a theorem assumes besides is named with it.

**ChatSessionProofs.** Five groups of results.

- `TypeCorrect`. `CurrentIsAlwaysPending`: from `CurrentInv`, which says it of the store and of every private copy at
  once; a save moves a copy to the store, so neither half is inductive alone.
- `SettledAloneStaysSettled`, for any requests that overlap and any fault: a card that was settled while its request was the only one in flight is in no copy that is
  still to be saved, and in no request that holds it to run it, since whoever loads the session afterwards loads it without the card.
- One request at a time (`Serial`). `SerialInvariant`: at most one request is in flight; at rest no copy is live; what
  the request in flight has taken or armed is apart from what it still lists; what is shown and undisposed is in
  the store; a disposed card is in neither. Its step is proved on what one request sees (`Local`) and the silence of
  the others (`OthersQuiet`), handler step by handler step. `SettledCardsNeverRun`, `CardsDoNotVanish` and
  `AnsweredTurnsStay` follow, with disconnects, failing saves and failing after-steps among the steps.
- `AnswersHold`: `AnswersAreTrue`, `OncePerCard` included, for `Serial` and behaviours in which none of the mishaps happens that the
  runs `MCChatSession_decline` and `_resume` show to break it: a save fails, a client leaves, `on_decline` or an
  after-step raises, the sync route is asked to decline a card that is no longer current (`NoMishap`, an action of the environment's choices;
  everything else may happen). A handler that ran or declined a card holds it until its answer is saved.
- `GateObeysProtocol`: under the same assumptions every step is a step of `ConfirmProtocol` under `state <- CardState`, or leaves its
  state alone. This is the safety half of the refinement that `MCChatSession_serial` checks with its liveness.

**UserOnboardingProofs.** `TypeCorrect`, `IntakeHasNoHoles`, `OnboardingHasAnAccount`, `ConfirmMatchesSummary`, from one
inductive invariant: the three properties (`OnboardsRealUser` is proved without a run of its own), the type invariant, and that a chosen role has a chosen application. `MessagesLand` is about
`FlowRouting`, for messages of any number of cues and any entities and workflows (`RoutingAssumption`: "user" and "role" are entities, absence is
none of the values). Its argument is about one turn: a message opens the first thing that `maybe_start` finds (`FirstArm`); that is something it
names, and what it names if that is one thing (`WhatStarts`, `CommandStarts`); a flow lets go of a message of its own kind only on purpose
(`StepsAsideOnPurpose`), and keeps a command only if it is its own (`KeptIfItsOwn`). The last needs that only the creation of a chosen entity, and a
workflow, are about anything (`FlowIsOf`), which is the inductive part. `EntityCardsHold` is about `EntityFlow`, for any applications, names,
codes and numbers of cards, finitely many protected roles (`EntityAssumption`; absence is no card), and the faults of the run: a list that fails to load reads
as empty, a read of what must be unique succeeds. Its invariant (`EntityInv`) is that *everything the active flow was told is still so* (`StillTrue`): names
and codes are free, menus and roles exist, the index of an application's roles is what it has. That holds although any card may be confirmed at any time,
because a confirmed card ends the flow it finds, whatever it was about; a menu is the one exception, and touches nothing a suspended role flow has
collected. A suspended flow is a role flow at its menu (`SuspendsRole`), the orders of applications have a bound, and there are finitely many roles, so that the
largest order and the first free code (`UniqueCodeIsFree`) exist. What a complete flow asks for is then feasible (`CompleteIsPossible`).

**BaselineFlowProofs.** `ReviewHolds`: no question is passed over, a review of a flow that was asked everything has every mandatory field, and
the current card is what the review shows. A field that was asked and is mandatory is filled (`Filled`), the questions are asked in
their order except during an edit (`InTurn`), and what is selected in a multi-select step is of the field it stands at (`Picked`): every way to
another field clears the selection. `CardsComplete`: if the platform rejects no generate, no card lacks a mandatory field and none has a blank fund
group; so the blank fund group of `FundNeverBlank` (section 3) has no other cause than the re-armed card. `ReadsHold` is about `BaselineReads`, for finitely
many baselines: a baseline that has not changed since the read began is in a group still to be read, in one that was passed over, or among
the rows that were read (`Covered`), and a reply is drawn from those rows (`Drawn`). `GuidanceHolds` is about `DataCall`, for any data calls of others,
under the user's titles too, and lists that lag: between a create and its lookup only others create, so a later call of the same title is another's; and the
lookup takes the newest of the title when the list has the one it is after. The current card asks for what the flow has noted (`CurrentAsks`), so that its acceptance notes what was confirmed.

**SessionHistoryProofs.** With one request at a time (`Serial`) and any failures: `HistoryIsKept`, that
every answered turn is in the mirror or an archive but one whose last write, or the read of it, failed (`missed`), `HistoryOnlyGrows`, that no write drops another, and
`MirrorFollowsLive`, that the mirror is the live session unless a save was cut off before it, and a cleared conversation stays away. The
invariant says what is safe to overwrite: the mirror of a live session is covered by it except while it is half
saved, what a request is about to overwrite is already archived, in its copy, or missed. `HistoriesAreTrue` is about `Conversations`, without an assumption on
the store (a request is one step there): the mirror is the live session where there is one (`Mirrored`), so that each turn is in one document and no
other (`HeldOnce`), of its own application when it was sent to the endpoint that knows it (`OfItsApp`), and the newest question of a live session was asked
where the session was last used (`LastUsed`).

**SharedStateProofs.** `StoresAreExplained`, for any workers, keys, contents, changes, crashes, time to live and kind of failure, under `Serial` and with
at most one mishap at a time, as the property says (`TwoMishaps`; two are more than the code survives). What a reader finds is the file's copy or the store's, and
a crash or a failed write disturbs one of the two. A file whose write fails keeps an older content that masks the store, and `allowed` has it (`LeftBehind`). So the
invariant does not speak of what is read: as long as writes of the store succeed, *each* copy is
explained by itself, and so is the one in the memory of a worker that has the file open (`Undamaged`), whatever is torn; if the store may miss a
change, the file explains what it masks (`Unstored`). Beside that: what a worker is about to write back is what the file has (`Copied`), the calendar is alone
in its file (`OneCalendar`), who acknowledged a change holds it (`Served`), and what was cached since the last write is what a read finds (`Settled`), from which
convergence follows. `Explained` and `Possible` only grow until the change of the key itself is acknowledged (`PossibleGrows`). `SkillIsAsShown`: the flow's
summary is what was shown as long as it waits for an answer (`Shown`). The assumption is that absence is no skill and no change (`NoneAssumption`).

Of `BackgroundTasks`: with a store that answers (`Trusted`) and any number of workers, `WorkersHaveNoOrphans` and
`RunnersEndOnRecord`; with one worker and any faults (`Solo`), `SoloInterruptsTheDead` and
`SoloTakesBackOnlySuccess`, that of the final statuses only `succeeded` is ever replaced, by `failed` and by the runner whose report of it raised. The
invariants relate the scan of a starting worker to its dead runners: a task left unfinished is still to be
scanned (`TasksSwept`), and a runner is alive only in a worker that is up (`TasksQuiet`).

**UserAccessProofs.** For any number of confirms that overlap. `TouchesOnlyItsCard`, without an assumption: the user and the application of a
row never change, so the rows a call names are still its card's when the call is made (`Named`). `ChangesOnlyWhatIsNamed` needs `Locks`, a platform
that refuses an old version: the row a `PUT` carries is then the current one but for one field and the defaults of what was not set. `RemovalCompletes`: while a removal is
undisturbed, what it has read, or has done so far, is still so (`Removals`). The same module proves the skills of users (`SkillRun`, by
`INSTANCE`) for any callers, names, types, codes, lookups that fail and answers that are lost. `NoneIsApart` says that absence is none of the values: in the code it is
Python's `None`. `TruthIsTold`, `OneCallerIsTold` and `CardIsCreated`: an account that is there is never changed (`AccountsStay`), so what a run found or
created still holds when it is told, and an account carries the number of the call that created it, which is one caller's (`Numbered`). What is sent for a word is
the word or what a list the platform has had gives for it (`Means`), since what is cached is such a list or none.

**TrailAndWorkflowProofs.** Of `AuditTrail`, for any number of workers, any limits and sizes of batches: `TrailKeepsRecords`: a record is new when it is logged (`Fresh`), so no
queue holds one twice or one that is in the index (`Waiting`), and a rotation moves to `overwritten` what it overwrites. `ConsoleShowsAnswers`: the records of a turn stay in their order in the file, the archives and every
ring filled from the file (`InOrder`), so that whatever a bounded ring has dropped, the last record of a turn is dropped last.

Of `Workflow`, for any workers, definitions, messages, answers of the platform, faults and bounds. `RunsAreTyped` needs only what `from_dict` checks (`GraphAssumption`).
`WritesAreConfirmed`, for definitions that are `Guarded`: wherever a run may be about to write, in a turn or in a flow that waits, the summary
the user saw names every argument with the value in the bag (`ConfirmOK`, by `AtWrite` and `Shown`); edits, restarts, lost turns and replaced definitions
keep it, since a flow only comes to a write through a confirm node. `SuccessIsReadBack`, for definitions that `Identifies` holds of: a turn that reads back
remembers the record it wrote, and one that went on after a write found it (`ReadBackOK`). `WritesFitAnswers`, for definitions that have a
certificate: at each node the lists it calls current and the choices it calls safe are of the answers held there (`Sound`), in the stored flow and
in the turn's copy, as long as one version served the run (`FitsOK`). One lemma for each way an answer, a fetch or a filter changes the bag shows that
the certificate carries over (`SoundOver`, `SoundChoice`, `SoundFetch`, `SoundFilter`). The hypotheses are about data only, can be decided for a given
definition, and hold of the shipped one; what they exclude the code accepts: `from_dict` does not ask for a confirm node before a write.

**ModelCallProofs.** For any tools, listings, maps of modules, budgets and numbers of messages, rounds and events. `OffersHold` and
`WritesWait`: the tools that are offered are chosen in the step that opens the turn (`Chosen`), what the model was given of the risky ones is in the listing until
that is replaced, and no risky write that was given has run in the meantime (`Looked`). `PromptHolds`: the question is where it was put (`Placed`); every addition to a session brings the result of each call it
makes or the card of the one that waits, and a card leaves with a result or is settled (`Pairs`, of the handler's session and the stored one at once,
since either may become the other); a window begins with the session or with a user's turn (`WindowBegins`), which is what separates a call that
is cut off from its result.

Only model-checked: everything under fairness (`EveryRequestEnds`, `EveryTaskSettles`, `TurnsEnd`, `TurnsFinish`, `RecordsAreDrained`, the
liveness half of `ImplementsProtocol`), which is beyond the prover as `ENABLED` is. That the shipped definitions have what the theorems about `Workflow`
ask of them is evaluated by TLC. No module uses recursion; induction over data is beyond the installed provers, so that `SizeFrom`, a fold over the
messages, is in `PromptHolds` a number nothing is assumed of.

## 5. What is not modelled, and the plan

Left out of the modules above: the text of prompts and replies, progress rails and chips, the layout of blocks and pages;
the streaming of partial answers; the in-memory fallback of the store; a write of the live document that was made although its answer was late; the window between an expired document's read and its deletion; two archives
of one session in one millisecond; redaction; the validation of parameters. Not modelled at all: the ecosystem catalogue and its answers (a cache of reads
with a time to live, and text), intent classification (text; its outcome is a choice in the models), authentication (an answer, allowed or not, computed
per request), backup and health (calls to the snapshot API and reports), the evaluation scripts. The data-call, entity and onboarding cards are checked flow by flow:
a card confirmed under another flow is in `ChatSession`, by name only.

Next, in this order:

1. Cards across flows: one model of a card that is confirmed while another flow, of its own module, is active.
2. The ecosystem catalogue's cache, when its answers come to decide anything.
3. A condition on a definition's edges, for `from_dict` to check, that makes `Guarded` and the existence of a certificate follow.
