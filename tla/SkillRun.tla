------------------------------ MODULE SkillRun ------------------------------
(***************************************************************************)
(* A skill the model calls (services/skills.py, services/chat_service.py,  *)
(* ToolRegistry.execute): user_lookup, a read of the users it names, and   *)
(* create_user, which is checked, put on a card, completed from defaults   *)
(* and lookups when it runs, and followed by a read of what it created.    *)
(*                                                                         *)
(* Every await is a step; the callers share the platform, and in a worker  *)
(* its cache of lookup codes.  An account's id stands for its name.  Of    *)
(* the fields of a user there is one of each kind: the unique name, one    *)
(* with a lookup, one with a default and one derived from the name.        *)
(***************************************************************************)
EXTENDS Naturals

CONSTANTS
  Callers,   \* signed-in users, with an account
  Names,     \* user names, the callers' among them
  TypeWords, \* what users call the types of an account
  Lists,     \* the lists of types the platform may have: aliases, and the code of each
  Within,    \* pairs of a word and an alias it is a part of
  MaxRuns,   \* bound: calls of a skill
  Faults,    \* which of "read_fails", "refused", "lost" may happen
  None       \* absence: no account, no value, no answer

VARIABLES
  users,     \* the platform's accounts, by name
  types,     \* the platform's list of types
  had,       \* history: the lists it has had
  lookups,   \* _CACHE of lookups.py: a list, NoList (a load that failed) or None
  run,       \* what each caller's skill is doing
  count      \* calls so far

platform == <<users, types, had>>
vars == <<platform, lookups, run, count>>

-----------------------------------------------------------------------------
Fields == {"userName", "accountType", "emailFlag", "ssoUserName"}

\* SKILLS create_user
Required == {"userName", "accountType"}
Defaults == [accountType |-> "L", emailFlag |-> "N"]

\* What the model may call create_user with; it is not shown the derived field.
CreateArgs ==
  [userName : Names \cup {None}, accountType : TypeWords \cup {None},
   emailFlag : {"Y", None}, ssoUserName : {None}]

NoArgs == [f \in Fields |-> None]

\* card and sent: history, what was confirmed and what the platform was given.
Account(by, card, sent) == [by |-> by, card |-> card, sent |-> sent]

Idle ==
  [stage |-> "idle", number |-> 0, args |-> NoArgs, sent |-> NoArgs,
   outs |-> [n \in Names |-> "unread"], answer |-> None, cards |-> {}]

Init ==
  /\ users = [n \in Names |-> IF n \in Callers THEN Account(0, NoArgs, NoArgs) ELSE None]
  /\ types \in Lists /\ had = {types}
  /\ lookups = None
  /\ run = [c \in Callers |-> Idle]
  /\ count = 0

At(c, stage) == run[c].stage = stage

\* A step of c's run from a stage to the next, with what it changes.
Advance(c, r) == run' = [run EXCEPT ![c] = r]
To(c, stage)  == [run[c] EXCEPT !.stage = stage]

\* The end of a turn: what the user is told, and the cards below it.
Show(c, answer, cards) ==
  Advance(c, [To(c, "shown") EXCEPT !.answer = answer, !.cards = cards])

\* A read of the platform may fail, or answer with a business error.
Reads(value) == {value} \cup (IF "read_fails" \in Faults THEN {"failed"} ELSE {})

-----------------------------------------------------------------------------
(* The call: missing_required, then validate_inputs, then the card.        *)

Missing(args) == {f \in Required : args[f] = None}

\* A call that lacks a required field is asked for it; any other goes on.
Called(c, lacks, called) ==
  /\ run[c].stage \in {"idle", "shown"}
  /\ count < MaxRuns
  /\ count' = count + 1
  /\ Advance(c, IF lacks THEN [Idle EXCEPT !.stage = "shown", !.answer = "asked"] ELSE called)
  /\ UNCHANGED <<platform, lookups>>

CallCreate(c) ==
  \E args \in CreateArgs :
    Called(c, Missing(args) # {}, [Idle EXCEPT !.stage = "check", !.number = count + 1, !.args = args])

\* user_lookup; a round may name several users, in a call each.
CallLookup(c) ==
  \E asked \in SUBSET Names :
    Called(c, asked = {},
           [Idle EXCEPT !.stage = "read", !.number = count + 1,
                        !.outs = [n \in Names |-> IF n \in asked THEN "asked" ELSE "unread"]])

\* The name must not be taken; a check that fails passes.
Check(c) ==
  /\ At(c, "check")
  /\ \E seen \in Reads(IF users[run[c].args["userName"]] = None THEN "free" ELSE "taken") :
       IF seen = "taken" THEN Show(c, "exists", {}) ELSE Advance(c, To(c, "card"))
  /\ UNCHANGED <<platform, lookups, count>>

Decline(c) == At(c, "card") /\ Show(c, "declined", {}) /\ UNCHANGED <<platform, lookups, count>>

\* The authority gate, then the tool.
Confirm(c) ==
  /\ At(c, "card")
  /\ \/ Show(c, "denied", {})
     \/ Advance(c, To(c, "lookup"))
  /\ UNCHANGED <<platform, lookups, count>>

-----------------------------------------------------------------------------
(* ToolRegistry.execute.                                                   *)

\* apply_defaults: what was given stays.
Filled(args) ==
  LET given == {f \in Fields : args[f] # None}
  IN  [f \in Fields |->
         CASE f \in given                    -> args[f]
           [] f \in DOMAIN Defaults \ given  -> Defaults[f]
           [] f \in {"ssoUserName"} \ given  -> args["userName"]
           [] OTHER                          -> None]

\* A list that could not be read has no alias.
NoList == <<>>

\* Mutant of Resolved: a label the word is a part of is as good as the word itself.
ResolvedLoosely(word, found) ==
  LET near == {a \in DOMAIN found : a = word \/ <<word, a>> \in Within}
  IN  IF near = {} THEN {word} ELSE {found[a] : a \in near}

\* lookups.resolve: the word itself, else the first label it is a part of, in the order of
\* the platform, which is not known; any other word goes out as it is.
Resolved(word, found) ==
  LET near == {a \in DOMAIN found : <<word, a>> \in Within}
  IN  IF word \in DOMAIN found THEN {found[word]}
      ELSE IF near = {} THEN {word}
      ELSE {found[a] : a \in near}

\* lookups._aliases: what was read is served for a time to live, an empty list in place of
\* one that could not be read.
Lookup(c) ==
  /\ At(c, "lookup")
  /\ lookups' \in IF lookups # None THEN {lookups}
                  ELSE {IF l = "failed" THEN NoList ELSE types : l \in Reads("loaded")}
  /\ LET filled == Filled(run[c].args)
     IN  \E code \in Resolved(filled["accountType"], lookups') :
           Advance(c, [To(c, "post") EXCEPT !.sent = [filled EXCEPT !["accountType"] = code]])
  /\ UNCHANGED <<platform, count>>

Expire == lookups # None /\ lookups' = None /\ UNCHANGED <<platform, run, count>>

\* An administrator changes the platform's list of types.
Relist ==
  /\ types' \in Lists \ {types}
  /\ had' = had \cup {types'}
  /\ UNCHANGED <<users, lookups, run, count>>

\* Mutant of Accepted: what was delivered was done.
AcceptedDelivered(out) == out # "failed"

\* Transport success is not enough: the envelope may carry a business error.
Accepted(out) == out = "done"

\* The platform creates a name once; it may refuse anything, and its answer may be lost.
Outcome(out, creates, free) ==
  \/ out = "done"     /\ creates  /\ free
  \/ out = "rejected" /\ ~creates /\ (~free \/ "refused" \in Faults)
  \/ out = "failed"   /\ (creates => free) /\ "lost" \in Faults

Post(c) ==
  /\ At(c, "post")
  /\ LET name == run[c].sent["userName"]
     IN  \E out \in {"done", "rejected", "failed"}, creates \in BOOLEAN :
           /\ Outcome(out, creates, users[name] = None)
           /\ users' = IF creates
                       THEN [users EXCEPT ![name] = Account(run[c].number, run[c].args, run[c].sent)]
                       ELSE users
           /\ IF Accepted(out) THEN Advance(c, To(c, "follow")) ELSE Show(c, out, {})
  /\ UNCHANGED <<types, had, lookups, count>>

-----------------------------------------------------------------------------
(* What is shown of a user.                                                *)

\* A record, or an application or role list, of one user, shown under a name.
Card(name, of) == [name |-> name, of |-> of]

\* _apply_default_user_scope: a tool that filters by user and is given none is the caller's.
Scoped(c, user) == IF user = None THEN c ELSE user

\* _skill_chain_events: the step reads the name the card collected, and what it renders is
\* shown in place of the entry's output; a step that fails leaves that, which is no user.
Follow(c) ==
  /\ At(c, "follow")
  /\ LET name == run[c].args["userName"]
     IN  \E seen \in Reads(IF users[name] = None THEN "empty" ELSE "found") :
           Show(c, "created", {Card(name, name) : x \in {"found"} \cap {seen}})
  /\ UNCHANGED <<platform, lookups, count>>

\* One of the calls of the round.
Read(c, n) ==
  /\ At(c, "read") /\ run[c].outs[n] = "asked"
  /\ \E seen \in Reads(IF users[n] = None THEN "empty" ELSE "found") :
       Advance(c, [run[c] EXCEPT !.outs[n] = seen])
  /\ UNCHANGED <<platform, lookups, count>>

\* _detailed_extras: applications and roles of the users that were found.
Related(c) == {Card(n, Scoped(c, n)) : n \in {n \in Names : run[c].outs[n] = "found"}}

\* _synthesize_answer, blocks_from_outputs and _apply_detail, once all of the round have run:
\* no card, the records, or with them the extras, each read by itself and left out on failure.
Answer(c) ==
  /\ At(c, "read") /\ \A n \in Names : run[c].outs[n] # "asked"
  /\ LET outs    == {run[c].outs[n] : n \in Names} \ {"unread"}
         records == {Card(n, n) : n \in {n \in Names : run[c].outs[n] = "found"}}
     IN  \E cards \in {{}, records} \cup {records \cup extras : extras \in SUBSET Related(c)} :
           Show(c, IF outs = {"failed"} THEN "failed" ELSE "answered", cards)
  /\ UNCHANGED <<platform, lookups, count>>

Next ==
  \/ \E c \in Callers :
       \/ CallCreate(c) \/ CallLookup(c) \/ Check(c) \/ Decline(c) \/ Confirm(c)
       \/ Lookup(c) \/ Post(c) \/ Follow(c) \/ Answer(c)
       \/ \E n \in Names : Read(c, n)
  \/ Expire \/ Relist

Spec == Init /\ [][Next]_vars

-----------------------------------------------------------------------------
(* Properties.                                                             *)

\* confirm_stream: "so the agent never claims created ... on a rejected write".  Two callers
\* may be given cards for one name, both checked while it was free: only the one whose own
\* call created the account is told so.
SuccessIsOwn ==
  \A c \in Callers : run[c].answer = "created" =>
    LET account == users[run[c].args["userName"]]
    IN  account # None /\ account.by = run[c].number

\* "'my apps/roles' means mine": the caller's own lists never appear under another's name, and
\* a record is shown of a user that was asked about.
ShownIsAskedFor ==
  \A c \in Callers : \A card \in run[c].cards :
    /\ card.of = card.name
    /\ users[card.name] # None
    /\ card.name = run[c].args["userName"] \/ run[c].outs[card.name] = "found"

\* What a word may be taken for, by a list: itself, or what it is a part of.
Means(word, code, l) ==
  \E a \in DOMAIN l :
    /\ l[a] = code
    /\ a = word \/ (<<word, a>> \in Within /\ word \notin DOMAIN l)

\* apply_defaults and the lookups complete a confirmed card and change nothing of it: the
\* word for a type goes out as it is or as a code that a list of the platform has had for
\* that word, and never as the code of a longer label that merely contains it while the list
\* has the word itself; only a field left open gets a default.
CreatedAsConfirmed ==
  \A n \in Names : users[n] # None /\ users[n].by # 0 =>
    LET card == users[n].card
        sent == users[n].sent
    IN  /\ card["userName"] = n
        /\ \/ sent["accountType"] = card["accountType"]
           \/ \E l \in had : Means(card["accountType"], sent["accountType"], l)
        /\ \A f \in Fields \ {"accountType"} :
             IF card[f] # None THEN sent[f] = card[f] ELSE sent[f] # None

\* "Return the valid lookupValueCode for value, else None": what goes out of a field that
\* has a list is a code of it.
TypeIsValid ==
  \A n \in Names : users[n] # None /\ users[n].by # 0 =>
    \E l \in had : \E a \in DOMAIN l : l[a] = users[n].sent["accountType"]
====
