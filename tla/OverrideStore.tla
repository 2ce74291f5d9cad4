---------------------------- MODULE OverrideStore ----------------------------
(***************************************************************************)
(* What an operator changes at run time, and how it is kept: authored      *)
(* skills and workflows, pinned balloons, the seasonal calendar and the    *)
(* configuration overrides (services/skill_store.py, workflow_store.py,    *)
(* balloon_store.py, seasonal_store.py, runtime_config.py).                *)
(*                                                                         *)
(* All but the configuration are written twice: to the shared key-value    *)
(* store and to a flat file both worker processes share, which is read,    *)
(* changed and rewritten whole.  Reading merges the two and the file wins. *)
(* A worker serves its own view: skills and workflows are registered in    *)
(* the worker that saved them and otherwise loaded at start; the rest is   *)
(* cached for TTL.  The configuration is one document in the store, written*)
(* from the worker's cached copy.                                          *)
(*                                                                         *)
(* A behaviour follows one of the five stores, and meets one kind of       *)
(* failure; both are chosen at the start.                                  *)
(***************************************************************************)
EXTENDS Naturals

CONSTANTS
  Workers,      \* the worker processes
  Keys,         \* skill names, workflow ids, application codes, parameters
  SeasonKey,    \* the one key of the calendar, which is a single list
  Contents,     \* what an operator may store under a key
  Stores,       \* which of the five stores this instance follows
  Shipped,      \* what the repository provides for a key, or None
  TTL,          \* _TTL, _CACHE_TTL: how many ticks a cached copy serves
  Serial,       \* TRUE: a change is started when none is under way
  Failures,     \* the kinds of failure a behaviour may meet
  MaxChanges,   \* bound: changes that are started
  MaxCrashes,   \* bound: workers that die
  None          \* absence

Live   == {"skill", "workflow"}        \* registered, and loaded at start
Cached == {"balloon", "season", "config"}
Filed  == {"skill", "workflow", "balloon", "season"}
AllFailures == {"none", "get_fails", "set_fails", "delete_fails", "file_fails"}

ASSUME StoresAssumption ==
  /\ Stores \subseteq Live \cup Cached
  /\ Failures \subseteq AllFailures
  /\ SeasonKey \in Keys /\ None \notin Contents
  /\ Shipped \in [Keys -> Contents \cup {None}]
  /\ TTL \in Nat \ {0} /\ MaxChanges \in Nat /\ MaxCrashes \in Nat
  /\ Serial \in BOOLEAN

VARIABLES
  store,     \* which of the stores this behaviour follows
  failure,   \* the failure it may meet
  kv,        \* the key-value store: a content or None per key
  file,      \* the flat file: a content or None per key
  view,      \* what each worker has registered or cached
  age,       \* ticks since a worker filled its cache; TTL: it has none
  change,    \* the change a worker is making, or None
  owned,     \* _custom_ids of each worker
  allowed,   \* what a reader may find under each key
  by,        \* the worker that last acknowledged a change of a key, or None
  quiet,     \* ticks since something was last written
  changes, crashes   \* counters of the bounds

vars == <<store, failure, kv, file, view, age, change, owned, allowed, by, quiet,
          changes, crashes>>

Nothing == [k \in Keys |-> None]

Init ==
  /\ store \in Stores
  /\ failure \in Failures
  /\ kv = Nothing /\ file = Nothing
  /\ view = [w \in Workers |-> IF store = "config" THEN Nothing ELSE Shipped]
  /\ age = [w \in Workers |-> TTL]
  /\ change = [w \in Workers |-> None]
  /\ owned = [w \in Workers |-> {}]
  /\ allowed = [k \in Keys |-> {Shipped[k]}]
  /\ by = [k \in Keys |-> None]
  /\ quiet = 0
  /\ changes = 0 /\ crashes = 0

-----------------------------------------------------------------------------
(* Reading.                                                                *)

\* Mutant of Merge: the copy in the key-value store wins over the file.
MergeStoreFirst(found, held) ==
  [k \in Keys |-> IF found[k] # None THEN found[k]
                  ELSE IF held[k] # None THEN held[k] ELSE Shipped[k]]

\* load_custom_skills, load_custom_workflows, _load, get_seasons: what the file
\* holds wins over what was found in the store, and that over what is shipped.
Merge(found, held) ==
  [k \in Keys |-> IF held[k] # None THEN held[k]
                  ELSE IF found[k] # None THEN found[k] ELSE Shipped[k]]

Loaded == Merge(kv, file)

\* A failed read or key scan of the store is an empty answer.
Found == {kv} \cup (IF failure = "get_fails" THEN {Nothing} ELSE {})

\* What a cache holds after a read: the configuration keeps the raw document.
Cache(found) == IF store = "config" THEN found ELSE Merge(found, file)

\* What the worker answers with for a key, when nothing fails.
Serves(w, k) ==
  LET seen == IF store \in Live \/ age[w] < TTL THEN view[w] ELSE Cache(kv)
  IN IF store = "config" /\ seen[k] = None THEN Shipped[k] ELSE seen[k]

\* Any read after the copy has expired: _overrides, _load, get_seasons.
Refresh(w) ==
  /\ store \in Cached /\ age[w] = TTL /\ change[w] = None
  /\ \E found \in Found : view' = [view EXCEPT ![w] = Cache(found)]
  /\ age' = [age EXCEPT ![w] = 0]
  /\ UNCHANGED <<store, failure, kv, file, change, owned, allowed, by, quiet,
                 changes, crashes>>

Tick ==
  /\ store \in Cached
  /\ \E w \in Workers : age[w] < TTL
  /\ age' = [w \in Workers |-> IF age[w] < TTL THEN age[w] + 1 ELSE TTL]
  /\ quiet' = IF quiet < TTL THEN quiet + 1 ELSE TTL
  /\ UNCHANGED <<store, failure, kv, file, view, change, owned, allowed, by,
                 changes, crashes>>

-----------------------------------------------------------------------------
(* Changing.  A change is synchronous in its worker; the other workers run *)
(* between its accesses to the store and to the file.                      *)

Starts(w, k, c, op, at, copy) ==
  /\ change[w] = None
  /\ changes < MaxChanges
  /\ Serial => \A x \in Workers : change[x] = None
  /\ change' = [change EXCEPT ![w] = [key |-> k, content |-> c, op |-> op,
                                      at |-> at, copy |-> copy]]
  /\ changes' = changes + 1
  /\ UNCHANGED <<store, failure, kv, file, view, age, owned, allowed, by, quiet, crashes>>

\* save_custom_skill, save_workflow, set_overrides, set_seasons.  An empty list
\* of balloons or of seasons is written as a content that reads as none.
Save(w, k, c) ==
  /\ store \in Filed
  /\ store = "season" => k = SeasonKey
  /\ c = None => store \in {"balloon", "season"}
  /\ Starts(w, k, c, "set", "store", Nothing)

\* delete_workflow (only an id this worker owns), delete_overrides and the reset
\* of the calendar.  No code of the program calls delete_custom_skill.
Delete(w, k) ==
  /\ store \in Filed \ {"skill"}
  /\ store = "season" => k = SeasonKey
  /\ store = "workflow" => k \in owned[w]
  /\ Starts(w, k, None, "delete", "store", Nothing)

\* set_many (None clears the parameter): the document is the worker's cached one,
\* read from the store when that has expired.
SetConfig(w, k, c) ==
  /\ store = "config"
  /\ \E found \in Found :
       LET doc == IF age[w] < TTL THEN view[w] ELSE found
       IN Starts(w, k, c, "set", "persist", [doc EXCEPT ![k] = c])

\* reset of the configuration.
ResetConfig(w) ==
  /\ store = "config"
  /\ \E k \in Keys : Starts(w, k, None, "set", "persist", Nothing)

\* The store is written first; a failure is logged, or swallowed, and the change
\* goes on.  What stays in the store then is another thing a reader may find.
WriteStore(w) ==
  /\ change[w] # None /\ change[w].at = "store"
  /\ LET k == change[w].key
     IN \/ /\ kv' = [kv EXCEPT ![k] = change[w].content]
           /\ UNCHANGED allowed
        \/ /\ \/ change[w].op = "set" /\ failure = "set_fails"
              \/ change[w].op = "delete" /\ failure = "delete_fails"
           /\ allowed' = [allowed EXCEPT ![k] = @ \cup {kv[k]}]
           /\ UNCHANGED kv
  /\ change' = [change EXCEPT ![w].at =
                  IF store # "season" THEN "read"
                  ELSE IF change[w].op = "delete" THEN "fill" ELSE "rewrite"]
  /\ quiet' = 0
  /\ UNCHANGED <<store, failure, file, view, age, owned, by, changes, crashes>>

\* The file is read whole; clearing balloons that are not in it leaves it alone.
ReadFile(w) ==
  /\ change[w] # None /\ change[w].at = "read"
  /\ LET absent == store = "balloon" /\ change[w].op = "delete" /\ file[change[w].key] = None
     IN change' = [change EXCEPT ![w].at = IF absent THEN "keep" ELSE "rewrite",
                                 ![w].copy = file]
  /\ UNCHANGED <<store, failure, kv, file, view, age, owned, allowed, by, quiet,
                 changes, crashes>>

\* Opening the file for writing empties it: until it is filled, and for good if
\* the worker dies, it does not parse and is read as empty.  When it cannot be opened
\* that is logged, and the file stays as it was.
OpenFile(w) ==
  /\ change[w] # None /\ change[w].at = "rewrite"
  /\ \/ /\ file' = Nothing
        /\ change' = [change EXCEPT ![w].at = "fill"]
     \/ /\ failure = "file_fails"
        /\ change' = [change EXCEPT ![w].at = "keep"]
        /\ UNCHANGED file
  /\ UNCHANGED <<store, failure, kv, view, age, owned, allowed, by, quiet, changes, crashes>>

\* How the worker's own view follows: registered or dropped; the calendar is
\* cached as written, or read again after a reset; balloons are dropped from the
\* cache and read again for the console's answer.
Acknowledged(w, newFile) ==
  IF store \in Live \/ (store = "season" /\ change[w].op = "set")
    THEN [view EXCEPT ![w][change[w].key] = change[w].content]
    ELSE [view EXCEPT ![w] = Merge(kv, newFile)]

\* After a deleted workflow nothing is registered; the shipped one returns with
\* a restart.  An empty calendar is served as such until the cache expires.
Explained(w) ==
  LET k == change[w].key
  IN IF change[w].content # None THEN {change[w].content}
     ELSE IF store \in {"workflow", "season"} THEN {None, Shipped[k]} ELSE {Shipped[k]}

\* What the file holds in the end: what was read before and the one key changed, or
\* what it held, when it is left alone or the write fails (as its removal may).
Filled(w) ==
  IF change[w].at = "keep" THEN {file}
  ELSE {[change[w].copy EXCEPT ![change[w].key] = change[w].content]}
       \cup (IF failure = "file_fails" THEN {file} ELSE {})

\* What a failure leaves of an older content: in the file, which wins, or in the store.
LeftBehind(w, newFile) ==
  LET k == change[w].key
  IN IF failure = "file_fails" THEN {newFile[k]} \ {None}
     ELSE IF /\ failure \in {"set_fails", "delete_fails"}
             /\ kv[k] # change[w].content /\ newFile[k] = None
          THEN {kv[k]} ELSE {}

\* The file is filled, the worker's own view follows, and the change is acknowledged,
\* whatever became of the file.
FillFile(w) ==
  /\ change[w] # None /\ change[w].at \in {"fill", "keep"}
  /\ \E newFile \in Filled(w) :
     LET k == change[w].key
     IN /\ file' = newFile
        /\ view' = Acknowledged(w, newFile)
        /\ owned' = [owned EXCEPT ![w] = IF store # "workflow" THEN @
                                         ELSE IF change[w].op = "delete" THEN @ \ {k}
                                         ELSE @ \cup {k}]
        /\ allowed' = [allowed EXCEPT ![k] = Explained(w) \cup LeftBehind(w, newFile)]
        /\ by' = [by EXCEPT ![k] = w]
  /\ age' = [age EXCEPT ![w] = IF store \in Cached THEN 0 ELSE @]
  /\ change' = [change EXCEPT ![w] = None]
  /\ quiet' = 0
  /\ UNCHANGED <<store, failure, kv, changes, crashes>>

\* _persist: the store may fail, the worker's cache takes the document anyway.
PersistConfig(w) ==
  /\ change[w] # None /\ change[w].at = "persist"
  /\ \/ kv' = change[w].copy
     \/ failure = "set_fails" /\ UNCHANGED kv
  /\ view' = [view EXCEPT ![w] = change[w].copy]
  /\ age' = [age EXCEPT ![w] = 0]
  /\ by' = [by EXCEPT ![change[w].key] = w]
  /\ change' = [change EXCEPT ![w] = None]
  /\ quiet' = 0
  /\ UNCHANGED <<store, failure, file, owned, allowed, changes, crashes>>

\* A worker dies and is started again: it loads the stores.  The change it was
\* making is never acknowledged, and may have been made.
Crash(w) ==
  /\ crashes < MaxCrashes
  /\ \E found \in Found :
       /\ view' = [view EXCEPT ![w] = IF store \in Live THEN Merge(found, file)
                                      ELSE IF store = "config" THEN Nothing ELSE Shipped]
       /\ owned' = [owned EXCEPT ![w] =
                      IF store # "workflow" THEN @
                      ELSE {k \in Keys : file[k] # None \/ found[k] # None}]
  /\ age' = [age EXCEPT ![w] = TTL]
  /\ allowed' = IF change[w] = None THEN allowed
                ELSE [allowed EXCEPT ![change[w].key] = @ \cup Explained(w)]
  /\ change' = [change EXCEPT ![w] = None]
  /\ crashes' = crashes + 1
  /\ quiet' = 0
  /\ UNCHANGED <<store, failure, kv, file, by, changes>>

-----------------------------------------------------------------------------

\* Of the operators: the console's forms.
Operate(w) ==
  \/ \E k \in Keys, c \in Contents \cup {None} : store # "skill" /\ Save(w, k, c)
  \/ \E k \in Keys : Delete(w, k)
  \/ \E k \in Keys, c \in Contents \cup {None} : SetConfig(w, k, c)
  \/ ResetConfig(w)

\* Of the worker itself.
Work(w) == Refresh(w) \/ WriteStore(w) \/ ReadFile(w) \/ OpenFile(w) \/ PersistConfig(w)

-----------------------------------------------------------------------------
(* Properties.                                                             *)

\* The store failed to take a change, and the file that has it is being
\* rewritten or was torn by a crash: two mishaps, which nothing survives.
TwoMishaps ==
  /\ failure \notin {"none", "file_fails"}
  /\ \/ \E w \in Workers : change[w] # None /\ change[w].at = "fill"
     \/ crashes > 0

\* What a reader may find under a key: a change under way may show already.
Possible(k) ==
  allowed[k] \cup UNION {Explained(w) : w \in {x \in Workers : change[x] # None /\ change[x].key = k}}

\* Whatever a store or a crash interrupts, what a reader finds under a key is
\* the last acknowledged change of it, or one that was cut short, or what the store or
\* the file still holds of it because it failed to take that change: a change of another
\* key brings none back, and neither does a file that is torn.
LoadIsExplained ==
  (Serial /\ store \in Filed /\ ~TwoMishaps) => \A k \in Keys : Loaded[k] \in Possible(k)

\* The worker that acknowledged the last change of a key serves that change, with
\* its cached copy or its registry, before as after the copy expires (a cache may
\* hold a failed read for a TTL).
AckedIsServed ==
  (Serial /\ store \in Filed /\ ~TwoMishaps /\ (failure \in {"none", "file_fails"} \/ store \in Live)) =>
    \A k \in Keys : by[k] # None /\ change[by[k]] = None => Serves(by[k], k) \in Possible(k)

\* Once nothing was written for a TTL no worker serves an old copy: what is
\* cached is what a read would find, in every worker.
Converged ==
  (quiet = TTL /\ failure # "get_fails" /\ \A w \in Workers : change[w] = None) =>
    \A w \in Workers : age[w] < TTL => view[w] = Cache(kv)

\* _persist, _load and the stores' saves: what a reader finds is explained by what was
\* acknowledged or cut short, who acknowledged a change serves it, and caches converge.
StoresAgree == LoadIsExplained /\ AckedIsServed /\ Converged
=============================================================================
