---------------------------- MODULE BaselineReads ----------------------------
(***************************************************************************)
(* "List the baselines" and "details of the baseline ..."                  *)
(* (services/flows.py, list_baselines and baseline_details): reads with    *)
(* no flow, one call of the platform per fund group, while other users     *)
(* generate, publish and delete baselines.                                 *)
(*                                                                         *)
(* Every call may fail, and a group whose call fails is passed over.       *)
(***************************************************************************)
EXTENDS Naturals, FiniteSets

CONSTANTS
  Groups,      \* every fund group
  Retired,     \* those of them that are disabled
  Own,         \* the caller's
  Titles, Years,
  Masters,     \* ids of baselines
  MaxChanges,  \* bound: changes by other users
  Fails,       \* whether calls may fail
  None         \* absence: no baseline, no wish, no reply

VARIABLES
  masters,     \* the platform's baselines, by masterId
  changes,     \* changes so far
  ask,         \* the read that is under way
  got,         \* the rows collected
  unread,      \* the fund groups still to be read
  passed,      \* history: the groups a failed call passes over
  steady,      \* history: what has been on the platform, unchanged, since the read began
  reply        \* what the user is told

reading == <<ask, got, unread, passed, reply>>
vars    == <<masters, changes, steady, reading>>

-----------------------------------------------------------------------------
\* lines: what its program offices have: no line, lines without a request, or some.
Baseline == [group : Groups, title : Titles, year : Years, status : {"D", "P"},
             lines : {"none", "zero", "some"}]

\* A request for details names a year, a title, both or neither.
Asks ==
  [kind : {"list"}, year : {None}, title : {None}]
  \cup [kind : {"details"}, year : Years \cup {None}, title : Titles \cup {None}]

Idle == ask = None

Init ==
  /\ masters \in [Masters -> {None} \cup {b \in Baseline : b.status = "D" /\ b.lines # "none"}]
  /\ changes = 0
  /\ ask = None /\ got = {} /\ unread = {} /\ passed = {} /\ steady = {} /\ reply = None

Present == {m \in Masters : masters[m] # None}

Source(groups, failed) == [groups |-> groups, failed |-> failed]
Fallbacks == IF Fails THEN {Source(Own, TRUE), Source({}, TRUE)} ELSE {}

\* _baseline_fund_groups: every fund group, disabled ones too; the caller's, if that fails;
\* and none, if that fails as well.
FundGroups == {Source(Groups, FALSE)} \cup Fallbacks

\* maybe_start hands the message over; nothing is kept of an earlier read.
Start ==
  /\ Idle
  /\ ask' \in Asks
  /\ \E source \in FundGroups :
       /\ unread' = source.groups
       /\ passed' = IF source.failed THEN Groups \ source.groups ELSE {}
  /\ got' = {}
  /\ steady' = Present
  /\ reply' = IF unread' = {} THEN [kind |-> "no groups"] ELSE None
  /\ UNCHANGED <<masters, changes>>

\* A row of getBaseLineMasterHeaders_1_post, as it is shown.
Row(m) == [id |-> m, group |-> masters[m].group, title |-> masters[m].title,
           year |-> masters[m].year, status |-> masters[m].status]

\* One fund group; the platform decides on their order.
ReadGroup(g) ==
  /\ g \in unread /\ reply = None
  /\ unread' = unread \ {g}
  /\ LET rows == {Row(m) : m \in {m \in Present : masters[m].group = g}}
     IN  \/ got' = got \cup rows /\ passed' = passed
         \/ Fails /\ got' = got /\ passed' = passed \cup {g}
  /\ UNCHANGED <<masters, changes, ask, steady, reply>>

Read == ask # None /\ reply = None /\ unread = {}

Tell(what) == reply' = what /\ UNCHANGED <<masters, changes, steady, ask, got, unread, passed>>

ShowList ==
  /\ Read /\ ask.kind = "list"
  /\ Tell(IF got = {} THEN [kind |-> "none"] ELSE [kind |-> "list", rows |-> got])

\* baseline_details._matches
Matches(row) == ask.year \in {None, row.year} /\ ask.title \in {None, row.title}

Candidates == {row \in got : Matches(row)}

\* Mutant of Target: the first that matches is opened.
TargetFirst == IF Candidates = {} THEN None ELSE CHOOSE row \in Candidates : TRUE

\* The baseline to open: one that matches alone.
Target == IF Cardinality(Candidates) = 1 THEN CHOOSE row \in Candidates : TRUE ELSE None

Undecided ==
  /\ Read /\ ask.kind = "details" /\ Target = None
  /\ Tell(IF got = {} THEN [kind |-> "none"]
          ELSE IF Candidates = {} THEN [kind |-> "no match"]
          ELSE [kind |-> "which", rows |-> Candidates])

\* Its offices' lines, by its id: a call that fails, and a baseline deleted by now, have none.
OpenIt ==
  /\ Read /\ ask.kind = "details" /\ Target # None
  /\ \E lines \in {IF masters[Target.id] = None THEN "none" ELSE masters[Target.id].lines}
                   \cup {l \in {"none"} : Fails} :
       Tell([kind |-> "details", row |-> Target, lines |-> lines])

Shown ==
  /\ reply # None
  /\ ask' = None /\ got' = {} /\ unread' = {} /\ passed' = {} /\ steady' = {} /\ reply' = None
  /\ UNCHANGED <<masters, changes>>

\* Other users: generate, publish or fill, delete.
OthersChange(m) ==
  /\ changes < MaxChanges
  /\ changes' = changes + 1
  /\ \/ masters[m] = None
        /\ masters' \in {[masters EXCEPT ![m] = b] :
                           b \in {b \in Baseline : b.status = "D" /\ b.lines # "some"}}
     \/ /\ masters[m] # None
        /\ masters' \in {[masters EXCEPT ![m] = b] :
                           b \in {None, [masters[m] EXCEPT !.status = "P"], [masters[m] EXCEPT !.lines = "some"]}}
  /\ steady' = IF masters' = masters THEN steady ELSE steady \ {m}
  /\ UNCHANGED reading

Next ==
  \/ Start \/ ShowList \/ Undecided \/ OpenIt \/ Shown
  \/ \E g \in Groups : ReadGroup(g)
  \/ \E m \in Masters : OthersChange(m)

Spec == Init /\ [][Next]_vars

-----------------------------------------------------------------------------
(* Properties.                                                             *)

\* What was there all the time, in the groups that no failed call passed over.
Seen == {m \in steady : masters[m].group \notin passed}

\* _baseline_fund_groups: "'show all' is the baseline list's whole point".  A list shows what
\* the platform had all the while it was read, whatever the fund group; only a failed call
\* leaves a group out, and then the reply does not say so.
ListShowsAll ==
  reply # None /\ reply.kind \in {"list", "none"} =>
    {Row(m) : m \in Seen} \subseteq IF reply.kind = "list" THEN reply.rows ELSE {}

\* "Resolve the master": details are shown of a baseline that was asked for, and of no other
\* than the one that could be meant: none that was there all the while matches as well.
OpensTheOneMeant ==
  reply # None /\ reply.kind = "details" =>
    /\ Matches(reply.row)
    /\ \A m \in Seen : Matches(Row(m)) => m = reply.row.id
====
