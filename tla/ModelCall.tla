------------------------------ MODULE ModelCall ------------------------------
(***************************************************************************)
(* A turn that reaches the model (services/chat_service.py: chat and       *)
(* confirm_action, "sync"; reply_stream's loop and confirm_stream,         *)
(* "stream"), composed with the tool registry of its worker and the        *)
(* transcript of its session: which tools and which messages the model is  *)
(* given, which of its calls run at once and which wait for a card, and    *)
(* what of them the transcript keeps.                                      *)
(*                                                                         *)
(* Requests of one session come one at a time (ChatSession has those that  *)
(* overlap).  A call has the id the model gave it, here the place of its   *)
(* message and of the call in it; one without an id, or recovered from the *)
(* text of the answer, is called after its tool (tc_<name>).               *)
(***************************************************************************)
EXTENDS ToolRegistry, Transcript

CONSTANTS
  Skills,      \* the tool of the skill a message matches
  Focused,     \* those offered alone although they only read (Skill.focused)
  Asks,        \* the answers that call tools: which, and whether they came without ids
  Results_,    \* lengths of what a tool returns
  MaxRounds,   \* LLM_MAX_ITERATIONS
  MaxTurns,    \* bound: messages of the session
  MaxEvents    \* bound: changes to the catalogue from outside the turns, and restarts

ASSUME CallAssumption ==
  /\ Skills \subseteq Tools /\ Focused \subseteq Skills /\ Results_ \subseteq Nat
  /\ Asks \subseteq [tools : Seq(Tools) \ {<<>>}, spelled : BOOLEAN]
  /\ MaxRounds \in Nat \ {0} /\ MaxTurns \in Nat /\ MaxEvents \in Nat

VARIABLES
  session,   \* the handler's session: messages, cards, and whether one is current
  saved,     \* the session in the store
  stage,     \* where the turn is
  path,      \* "sync" or "stream"
  asked,     \* the place of the turn's message
  answer,    \* what the server answered to list_tools
  wanted,    \* the tools chosen for the question, before scoping
  offered,   \* those the model is given (both as the first round begins)
  rounds, nudged,
  calls,     \* the calls of the round that are left
  spelled,   \* these calls came without ids
  done,      \* the calls that ran: in the round ("stream") or the turn ("sync")
  gated,     \* the call that waits for a card, or <<>>
  settled,   \* calls whose card was refused, or answered under another id
  gating,    \* TOOL_RISK_CONFIRMATION (no code sets a session's bypass_confirmation)
  given,     \* the risky tools the turn's model was given, while their listing holds
  turns, events

turn  == <<path, asked, answer, wanted, offered, rounds, nudged, calls, spelled, done, gated>>
world == <<gating, turns, events>>
vars  == <<registry, session, saved, stage, turn, settled, given, world>>
Idle  == stage = "idle"

Clear == wanted' = {} /\ offered' = {} /\ answer' = {} /\ rounds' = 0 /\ nudged' = FALSE
         /\ calls' = <<>> /\ spelled' = FALSE /\ done' = <<>> /\ gated' = <<>> /\ asked' = 0
         /\ given' = {}

Init ==
  /\ InitRegistry
  /\ session = [msgs |-> <<>>, cards |-> {}, current |-> FALSE]
  /\ saved = session
  /\ stage = "idle" /\ path = "sync" /\ asked = 0 /\ answer = {}
  /\ wanted = {} /\ offered = {} /\ rounds = 0 /\ nudged = FALSE
  /\ calls = <<>> /\ spelled = FALSE /\ done = <<>> /\ gated = <<>>
  /\ settled = {} /\ gating = TRUE /\ given = {} /\ turns = 0 /\ events = 0

Adding(msgs) == [session EXCEPT !.msgs = @ \o msgs]

\* The turn ends with the session s saved.
EndWith(s) ==
  /\ session' = s /\ saved' = s
  /\ stage' = "idle"
  /\ Clear

-----------------------------------------------------------------------------
(* The question and the tools.                                             *)

Ask ==
  /\ Idle /\ turns < MaxTurns
  /\ turns' = turns + 1
  /\ path' \in {"sync", "stream"}
  /\ session' = Adding(<<User(1)>>) /\ saved' = session'
  /\ asked' = Len(session'.msgs)
  /\ stage' = "tools"
  /\ UNCHANGED <<registry, answer, wanted, offered, rounds, nudged, calls, spelled, done, gated,
                 settled, gating, given, events>>

\* Another request may change the catalogue before the server's answer is used.
ListTools ==
  /\ stage = "tools" /\ ~fresh
  /\ answer' \in Answers
  /\ stage' = "listing"
  /\ UNCHANGED <<registry, session, saved, path, asked, wanted, offered, rounds, nudged, calls,
                 spelled, done, gated, settled, given, world>>

\* The modules that may be offered, and those whose tools are known: what became
\* of the maps that were asked for.
Maps == {Allowed(apps, configured) : apps \in BOOLEAN, configured \in SUBSET Modules}
        \X SUBSET Modules

\* What select_tools makes of the listing: for a skill that acts or is focused, its tool
\* alone.
Offers(listed, skill) ==
  /\ rounds' = 0 /\ stage' = "model"
  /\ \/ /\ skill \cap listed \cap (Mutations \cup Focused) # {}
        /\ wanted' = skill \cap listed
        /\ offered' = wanted'
     \/ /\ skill \cap listed \cap (Mutations \cup Focused) = {}
        /\ \E hits \in {{}} \cup {{t} : t \in Tools} :
             wanted' = Retrieved(listed, hits, skill)
        /\ offered' \in {Scope(wanted', maps[1], maps[2]) : maps \in Maps}

\* Mutant of Select: the server is asked until it answers.
SelectRetries ==
  /\ \/ /\ stage = "tools" /\ fresh
        /\ UNCHANGED registry
     \/ /\ stage = "listing" /\ Refresh(answer)
  /\ IF stage = "listing" /\ answer = Failed
     THEN stage' = "tools" /\ UNCHANGED <<rounds, wanted, offered, given>>
     ELSE /\ \E skill \in {{}} \cup {{t} : t \in Skills} : Offers(cache', skill)
          /\ given' = IF fresh' THEN offered' \cap Risky ELSE {}
  /\ answer' = {}
  /\ UNCHANGED <<session, saved, path, asked, nudged, calls, spelled, done, gated, settled, world>>

\* select_tools: the list it was given does not change under it.
Select ==
  /\ \/ /\ stage = "tools" /\ fresh
        /\ UNCHANGED registry
     \/ /\ stage = "listing" /\ Refresh(answer)
  /\ \E skill \in {{}} \cup {{t} : t \in Skills} : Offers(cache', skill)
  /\ given' = IF fresh' THEN offered' \cap Risky ELSE {}
  /\ answer' = {}
  /\ UNCHANGED <<session, saved, path, asked, nudged, calls, spelled, done, gated, settled, world>>

-----------------------------------------------------------------------------
(* A round of the model.                                                   *)

\* It answers, or calls a skill's tool with values that do not pass.
Answer_ ==
  /\ stage = "model"
  /\ EndWith(Adding(<<Assistant(<<>>)>>))
  /\ UNCHANGED <<registry, path, settled, world>>

\* "I will fetch...": it is told to, once.
NudgeIt ==
  /\ stage = "model" /\ path = "stream" /\ ~nudged
  /\ session' = Adding(<<Assistant(<<>>), Nudge>>) /\ saved' = session'
  /\ IF rounds + 1 = MaxRounds THEN stage' = "idle" /\ Clear
     ELSE /\ stage' = "model" /\ nudged' = TRUE /\ rounds' = rounds + 1
          /\ wanted' = {} /\ offered' = {}
          /\ UNCHANGED <<asked, answer, calls, spelled, done, gated, given>>
  /\ UNCHANGED <<registry, path, settled, world>>

\* Of tools that were offered, or of others, and of one twice.
CallTools ==
  /\ stage = "model"
  /\ \E a \in Asks : calls' = a.tools /\ spelled' = a.spelled
  /\ stage' = "calls"
  /\ done' = IF path = "stream" THEN <<>> ELSE done
  /\ wanted' = {} /\ offered' = {}
  /\ UNCHANGED <<registry, session, saved, path, asked, answer, rounds, nudged,
                 gated, settled, given, world>>

\* The model fails or the client leaves: what was not saved is gone.
Dropped ==
  /\ stage \in {"model", "calls"}
  /\ EndWith(saved)
  /\ UNCHANGED <<registry, path, settled, world>>

-----------------------------------------------------------------------------
(* Its calls.                                                              *)

\* Mutant of NeedsCard: a tool that is not listed needs none, whoever asks.
NeedsCardListed(t, listed) == gating /\ t \in listed \cap Risky

\* _process_tool_calls, _stream_loop: unless the gate is switched off; for a tool the
\* catalogue does not have only the stream looks at the name.
NeedsCard(t, listed) ==
  /\ gating
  /\ IF t \in listed \/ path = "sync" THEN t \in listed \cap Risky ELSE t \in Mutations

\* A new id: of the k-th call of the next message, or, k = 0, of the card the stream makes.
NextId(k) == <<Len(session.msgs) + 1, k>>

\* The id of the k-th call, of the tool t.
CallId(k, t) == IF spelled THEN <<0, t>> ELSE NextId(k)

\* Without a token of the user: the server may well reject the listing.
GateAnswers == IF fresh THEN {Failed} ELSE Answers

Execute(t, n) == done' = Append(done, [tool |-> t, size |-> n, gate |-> gating])

CallSync ==
  /\ stage = "calls" /\ path = "sync" /\ calls # <<>>
  /\ \E a \in GateAnswers : GetTools(a)
  /\ LET t == Head(calls)
         id == NextId(1)
     IN IF NeedsCard(t, cache')
        THEN    EndWith([Adding(<<Assistant(<<id>>)>>) EXCEPT
                           !.cards = @ \cup {[id |-> id, tool |-> t, call |-> id]},
                           !.current = TRUE])
        ELSE /\ \E n \in Results_ :
                  /\ Execute(t, n)
                  /\ session' = Adding(<<Assistant(<<CallId(1, t)>>), ToolResult(CallId(1, t), n)>>)
             /\ calls' = Tail(calls)
             /\ UNCHANGED <<saved, stage, asked, answer, wanted, offered, rounds, nudged, spelled,
                            gated, given>>
  /\ UNCHANGED <<path, settled, world>>

CallStream ==
  /\ stage = "calls" /\ path = "stream" /\ calls # <<>> /\ gated = <<>>
  /\ \E a \in GateAnswers : GetTools(a)
  /\ IF NeedsCard(Head(calls), cache')
     THEN gated' = <<Head(calls)>> /\ UNCHANGED <<calls, done>>
     ELSE /\ \E n \in Results_ : Execute(Head(calls), n)
          /\ calls' = Tail(calls)
          /\ UNCHANGED gated
  /\ UNCHANGED <<session, saved, stage, path, asked, answer, wanted, offered, rounds, nudged,
                 spelled, settled, given, world>>

\* Mutant of Handled: every call of the answer is recorded.
HandledAll == Len(done) + Len(calls)

\* The calls the stream records: those that ran and the one that waits.
Handled == Len(done) + Len(gated)

\* Recorded: the message with the calls, then the results.
HandledId(k) == CallId(k, IF k <= Len(done) THEN done[k].tool ELSE gated[1])
Recorded ==
  Adding(<<Assistant([k \in 1 .. Handled |-> HandledId(k)])>>
         \o [k \in 1 .. Len(done) |-> ToolResult(HandledId(k), done[k].size)])

\* The results of reads may be answer enough, with a lead-in of their own.
Renders == done # <<>> /\ \A k \in 1 .. Len(done) : done[k].tool \notin Mutations

NextRound(s) ==
  /\ session' = s
  /\ stage' = "model" /\ rounds' = rounds + 1 /\ gated' = <<>> /\ calls' = <<>>
  /\ UNCHANGED <<asked, answer, wanted, offered, nudged, spelled, done, given>>

RoundStream ==
  /\ stage = "calls" /\ path = "stream" /\ (calls = <<>> \/ gated # <<>>)
  /\ IF gated # <<>>
     THEN EndWith([Recorded EXCEPT
                     !.cards = @ \cup {[id |-> NextId(0), tool |-> gated[1], call |-> HandledId(Handled)]},
                     !.current = TRUE])
     ELSE \/ Renders /\ EndWith([Recorded EXCEPT !.msgs = Append(@, Assistant(<<>>))])
          \/ /\ rounds + 1 < MaxRounds
             /\ NextRound(Recorded) /\ saved' = Recorded
          \/ rounds + 1 = MaxRounds /\ EndWith(Recorded)
  /\ UNCHANGED <<registry, path, settled, world>>

RoundSync ==
  /\ stage = "calls" /\ path = "sync" /\ calls = <<>>
  /\ \/ /\ Renders \/ rounds + 1 = MaxRounds
        /\ EndWith(Adding(<<Assistant(<<>>)>>))
     \/ /\ rounds + 1 < MaxRounds
        /\ NextRound(session) /\ UNCHANGED saved
  /\ UNCHANGED <<registry, path, settled, world>>

-----------------------------------------------------------------------------
(* The answer to a card, by either way, at any later time.                 *)

Confirm(card, way, verdict) ==
  /\ Idle /\ card \in session.cards
  /\ way = "sync" => session.current
  /\ verdict = "refused" => card.tool \in Mutations
  /\ LET id == IF way = "stream" THEN card.call ELSE card.id
         answered == [session EXCEPT !.cards = @ \ {card}, !.current = FALSE]
     IN /\ \/ verdict = "refused" /\ EndWith(answered)
           \/ /\ verdict = "declined"
              /\ EndWith([answered EXCEPT !.msgs = Append(@, ToolResult(id, 1))])
           \/ /\ verdict = "run"
              /\ \E n \in Results_ :
                   EndWith([answered EXCEPT !.msgs = @ \o <<ToolResult(id, n), Assistant(<<>>)>>])
        /\ settled' = IF verdict = "refused" \/ id # card.call THEN settled \cup {card.call} ELSE settled
  /\ UNCHANGED <<registry, path, world>>

\* The worker dies and starts again: the turn it was in is gone.
Restart ==
  /\ events < MaxEvents /\ events' = events + 1
  /\ Restarted
  /\ EndWith(saved)
  /\ UNCHANGED <<path, settled, gating, turns>>

-----------------------------------------------------------------------------
\* An operator switches the gate off, or on again.
SwitchGate == gating' = ~gating /\ UNCHANGED registry

Environment ==
  /\ events < MaxEvents /\ events' = events + 1
  /\ \/ (ServerChanges \/ Expire \/ OtherRequest \/ OtherWorker) /\ UNCHANGED gating
     \/ SwitchGate
  /\ given' = IF cache' = cache /\ fresh' = fresh THEN given ELSE {}
  /\ UNCHANGED <<session, saved, stage, turn, settled, turns>>

Step == ListTools \/ Select \/ Answer_ \/ NudgeIt \/ CallTools \/ Dropped
        \/ CallSync \/ CallStream \/ RoundStream \/ RoundSync

Next ==
  \/ Ask \/ Step \/ Environment \/ Restart
  \/ \E card \in session.cards, way \in {"sync", "stream"}, verdict \in {"run", "declined", "refused"} :
       Confirm(card, way, verdict)

Spec == Init /\ [][Next]_vars

\* The server and the model are asked with a time limit, and a request runs on.
FairSpec == Spec /\ WF_vars(Step)

-----------------------------------------------------------------------------
(* Properties.                                                             *)

\* A listing that counts as current is one the server gave this worker: what was
\* left over by a failure, a restart or the other worker is asked for again.  (But
\* when its last answer was without a list, a forced refresh that fails takes the
\* stored one for the time that answer was good for.)
FreshIsListed == fresh => (cache = heard \/ heard = {})

\* The model is not left without the tools of the application the user is in,
\* however incomplete the maps of modules are, nor without any when there are some.
OwnToolsOffered ==
  stage = "model" =>
    /\ \A t \in wanted : ModuleOf[t] = Own => t \in offered
    /\ wanted # {} => offered # {}

\* get_tools and select_tools: a fresh catalogue is what the server lists, and scoping never
\* withholds a tool of the caller's own module.
OffersAreRight == FreshIsListed /\ OwnToolsOffered

\* While TOOL_RISK_CONFIRMATION is on, a risky write that the model was given waits for its
\* card, even if the gate asks the catalogue for it rounds later: by the stream whatever
\* becomes of the catalogue in between and whatever tool the model names, by the sync way
\* unless the listing the tool was given from was replaced, or ran out, in between.
GivenWritesWait ==
  \A k \in 1 .. Len(done) :
    done[k].gate /\ done[k].tool \in Mutations \cap Risky =>
      path = "sync" /\ done[k].tool \notin given

\* The model is given the question whenever the turn's own messages fit.
QuestionIsInPrompt ==
  (stage = "model" /\ (Budget = 0 \/ SizeFrom(session.msgs, asked) <= Budget)) =>
    WindowStart(session.msgs) <= asked

\* A result in the prompt has its call before it in the prompt, unless a later
\* message came between them or the sync way answered a card of the stream; and a
\* call that is kept has a result, a card that is open, or one that was refused.
CallsAndResults ==
  LET msgs == saved.msgs
      prompt == WindowStart(msgs)
  IN /\ \A r \in Results(msgs) :
          (r.at >= prompt /\ UsersFrom(msgs, prompt) # {}) =>
            \/ \E c \in Calls(msgs) : c.id = r.id /\ prompt <= c.at /\ c.at < r.at
            \/ \E c \in Calls(msgs) : c.id = r.id /\ \E u \in c.at .. r.at : msgs[u].role = "user"
            \/ r.id[2] = 0
     /\ \A c \in Calls(msgs) :
          \/ \E r \in Results(msgs) : r.id = c.id /\ r.at > c.at
          \/ \E card \in saved.cards : card.call = c.id
          \/ c.id \in settled

\* _windowed_messages and to_llm_messages: the model is given the question, and calls and
\* results stay in pairs.
PromptIsWhole == QuestionIsInPrompt /\ CallsAndResults

\* A turn ends, whatever the server and the model answer.
TurnsFinish == ~Idle ~> Idle
=============================================================================
