--------------------------- MODULE AccessAndSkills ---------------------------
(***************************************************************************)
(* UserAccess and SkillRun side by side: what a confirmed card of an       *)
(* access skill does to the rows of the platform, and what the skills of   *)
(* users do and show.  They share no state, and a behaviour follows one of *)
(* them, so that the reachable states are the sum of theirs.               *)
(***************************************************************************)
EXTENDS UserAccess

CONSTANTS Callers, Names, TypeWords, Lists, Within, MaxRuns, SkillFaults

VARIABLES
  which,   \* the module this behaviour follows
  users, types, had, lookups, run, count

Skill == INSTANCE SkillRun WITH Faults <- SkillFaults

skillVars == <<users, types, had, lookups, run, count>>
bothVars  == <<vars, which, skillVars>>

\* What is put in a field, what a card may hold, and what there is of an account.
Codes    == UNION {{l[a] : a \in DOMAIN l} : l \in Lists}
Values   == Names \cup TypeWords \cup Codes \cup {"Y", "N", "L", None}
Cardable == Skill!CreateArgs \cup {Skill!NoArgs}
Accounts == [by : Nat, card : Cardable, sent : [Skill!Fields -> Values]]
Answers  == {"asked", "exists", "declined", "denied", "rejected", "failed", "created", "answered"}

\* Absence is no name, word, list, flag, answer or account.
ASSUME NoneIsApart ==
  /\ None \notin Names \cup TypeWords \cup {"Y", "N", "L"} \cup Answers
  /\ None \notin Lists \cup {Skill!NoList}
  /\ None \notin Accounts

BothInit == which \in {"access", "skill"} /\ Init /\ Skill!Init

BothNext ==
  \/ which = "access" /\ Next       /\ UNCHANGED <<which, skillVars>>
  \/ which = "skill"  /\ Skill!Next /\ UNCHANGED <<which, vars>>

BothSpec == BothInit /\ [][BothNext]_bothVars

-----------------------------------------------------------------------------
\* confirm_stream and _detailed_extras: "created" is said to the caller whose call created,
\* and no list of the caller's is shown under another user's name.
ToldAndShownTruly == Skill!SuccessIsOwn /\ Skill!ShownIsAskedFor

\* apply_defaults, lookups.resolve: an account is what its card said.
CreatedAsConfirmed == Skill!CreatedAsConfirmed

\* The claim of lookups.resolve that it does not keep (SkillRun).
TypeIsValid == Skill!TypeIsValid
====
