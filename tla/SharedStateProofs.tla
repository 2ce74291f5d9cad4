--------------------------- MODULE SharedStateProofs ---------------------------
(***************************************************************************)
(* What the worker processes keep in files and documents they share.       *)
(*                                                                         *)
(* The stores of the operator and the flow that authors a skill, for any   *)
(* workers, keys, contents, changes, crashes and times to live.  What a    *)
(* reader finds is the file's copy or the store's, so each copy, and the   *)
(* one in the memory of a worker that rewrites the file, is explained by   *)
(* itself as long as only one mishap can meet them (Undamaged, Unstored).  *)
(*                                                                         *)
(* The documents of the background tasks they run (BackgroundTasks) are    *)
(* the subject of the last part.                                           *)
(***************************************************************************)
EXTENDS SkillAuthoring, BackgroundTasks, WellFoundedInduction, TLAPS

TypeOK ==
  /\ store \in Stores /\ failure \in Failures
  /\ kv \in [Keys -> Values] /\ file \in [Keys -> Values]
  /\ view \in [Workers -> [Keys -> Values]]
  /\ age \in [Workers -> 0 .. TTL] /\ quiet \in 0 .. TTL
  /\ change \in [Workers -> Changes \cup {None}]
  /\ allowed \in [Keys -> SUBSET Values] /\ by \in [Keys -> Workers \cup {None}]
  /\ crashes \in Nat

\* A change is made at a time.
OneChange == Serial => \A w, x \in Workers : change[w] # None /\ change[x] # None => w = x

\* The steps of a change that are still to be made.
InStep ==
  \A w \in Workers : change[w] # None =>
    /\ change[w].at = "persist" <=> store = "config"
    /\ change[w].content = None => store # "skill"
    /\ change[w].op = "delete" => change[w].content = None
    /\ store = "season" => change[w].key = SeasonKey /\ change[w].copy = Nothing
    /\ change[w].at = "store" => change[w].copy = Nothing
    /\ change[w].at = "read" => store # "season"

\* The calendar is all there is in its file, and all that is acknowledged.
OneCalendar ==
  store = "season" => \A k \in Keys \ {SeasonKey} : file[k] = None /\ by[k] = None

\* What a worker is about to write back is what the file has; the file is left alone when
\* it has nothing to clear, or when it cannot be opened.
Copied ==
  Serial => \A w \in Workers : change[w] # None =>
    /\ change[w].at = "rewrite" => \A k \in Keys \ {change[w].key} : change[w].copy[k] = file[k]
    /\ change[w].at = "keep" /\ failure # "file_fails" =>
         change[w].content = None /\ file[change[w].key] = None

Filling == \E w \in Workers : change[w] # None /\ change[w].at = "fill"

\* Each copy is explained.
CopiesExplained ==
  \A k \in Keys :
    /\ Merge(kv, Nothing)[k] \in Possible(k)
    /\ file[k] # None => file[k] \in Possible(k)

\* So is what a worker is about to fill the file with, and the store has its change.
ChangesExplained ==
  \A w \in Workers : change[w] # None =>
    /\ change[w].at # "store" => kv[change[w].key] = change[w].content
    /\ change[w].at = "fill" =>
         \A k \in Keys \ {change[w].key} :
           change[w].copy[k] # None => change[w].copy[k] \in Possible(k)

\* Writes of the store succeed: each copy is explained, whatever is torn.
Undamaged ==
  (Serial /\ store \in Filed /\ failure \notin {"set_fails", "delete_fails"}) =>
    CopiesExplained /\ ChangesExplained

\* The store may miss a change, but nothing is torn: the file explains what it masks.
Unstored ==
  (Serial /\ store \in Filed /\ failure \in {"set_fails", "delete_fails"} /\ crashes = 0) =>
    /\ ~Filling => \A k \in Keys : Loaded[k] \in Possible(k)
    /\ \A w \in Workers : change[w] # None /\ change[w].at = "fill" =>
         \A k \in Keys \ {change[w].key} : Merge(kv, change[w].copy)[k] \in Possible(k)

\* What the worker that acknowledged a key's last change holds of it.
Served ==
  (Serial /\ store \in Filed
     /\ (failure \in {"none", "file_fails"} \/ (store \in Live /\ crashes = 0))) =>
    \A k \in Keys : by[k] # None /\ (store \in Live \/ age[by[k]] < TTL) =>
      view[by[k]][k] \in Possible(k)

\* What was cached since the last write is what a read finds, unless the file is open.
Settled ==
  (failure # "get_fails" /\ ~Filling) =>
    \A w \in Workers : age[w] < quiet => view[w] = Cache(kv)

\* What the user is asked to confirm is what was shown.
Shown == store = "skill" /\ flow # None /\ flow.stage = "confirm" => shown = Summary(flow)

FlowOK ==
  flow # None => flow \in [stage : Stages, tool : Tools \cup {None}, asks : SUBSET SkillFields,
                           offered : BOOLEAN]

StoreInv ==
  /\ TypeOK /\ OneChange /\ InStep /\ OneCalendar /\ Copied
  /\ Undamaged /\ Unstored /\ Served /\ Settled

Inv == StoreInv /\ FlowOK /\ Shown

-----------------------------------------------------------------------------
(* What a reader may find.                                                 *)

\* The copies explain what is merged from them.
LEMMA MergeExplained ==
  ASSUME NEW found, NEW inFile, NEW k \in Keys, NEW P,
         Merge(found, Nothing)[k] \in P, inFile[k] # None => inFile[k] \in P
  PROVE  Merge(found, inFile)[k] \in P
  BY DEF Merge, Nothing

\* A change that is made explains what it left in a copy, or what is shipped.
LEMMA ExplainedIs ==
  ASSUME NEW w \in Workers, change[w] # None
  PROVE  /\ change[w].content # None => change[w].content \in Explained(w)
         /\ change[w].content = None => Shipped[change[w].key] \in Explained(w)
         /\ change[w].content = None /\ store \in {"workflow", "season"} => None \in Explained(w)
  BY DEF Explained

LEMMA ExplainedType ==
  ASSUME NEW w \in Workers, change[w] \in Changes
  PROVE  Explained(w) \subseteq Values
  BY StoresAssumption DEF Explained, Changes, Values

\* The change of w explains v under k.
Explains(w, k, v) == change[w] # None /\ change[w].key = k /\ v \in Explained(w)

LEMMA PossibleIs ==
  \A k, v : v \in Possible(k) <=> v \in allowed[k] \/ \E w \in Workers : Explains(w, k, v)
  BY DEF Possible, Explains

LEMMA PossibleWillBe ==
  \A k, v : v \in Possible(k)' <=> v \in allowed'[k] \/ \E w \in Workers : Explains(w, k, v)'
  BY DEF Possible, Explains

\* A change of w goes on, or what it explains stays possible.
Remains(w, k) ==
  change[w] # None /\ change[w].key = k =>
    \/ change'[w] # None /\ change'[w].key = k /\ change'[w].content = change[w].content
    \/ Explained(w) \subseteq allowed'[k]

\* What was possible stays possible, if every change remains.
LEMMA PossibleGrows ==
  ASSUME NEW k, store' = store, allowed[k] \subseteq allowed'[k],
         \A w \in Workers : Remains(w, k)
  PROVE  Possible(k) \subseteq Possible(k)'
<1> SUFFICES ASSUME NEW v \in Possible(k) PROVE v \in Possible(k)'
  OBVIOUS
<1>1. ASSUME NEW w \in Workers, Explains(w, k, v) PROVE v \in allowed'[k] \/ Explains(w, k, v)'
  <2>1. Remains(w, k)
    OBVIOUS
  <2>2. CASE Explained(w) \subseteq allowed'[k]
    BY <1>1, <2>2 DEF Explains
  <2>3. CASE change'[w] # None /\ change'[w].key = k /\ change'[w].content = change[w].content
    BY <1>1, <2>3 DEF Explains, Explained
  <2> QED
    BY <1>1, <2>1, <2>2, <2>3 DEF Remains, Explains
<1> QED
  BY <1>1, PossibleIs, PossibleWillBe

-----------------------------------------------------------------------------
(* The initial states.                                                     *)

LEMMA InitStores == Init => StoreInv
<1> SUFFICES ASSUME Init PROVE StoreInv
  OBVIOUS
<1> USE StoresAssumption DEF Init, Nothing
<1>1. TypeOK /\ OneChange /\ InStep /\ OneCalendar /\ Copied /\ Served /\ Settled
  BY DEF TypeOK, OneChange, InStep, OneCalendar, Copied, Served, Settled, Values
<1>2. \A k \in Keys : Shipped[k] \in Possible(k)
  BY PossibleIs
<1>3. ~Filling
  BY DEF Filling
<1>4. Undamaged
  BY <1>2 DEF Undamaged, CopiesExplained, ChangesExplained, Merge
<1>5. Unstored
  BY <1>2 DEF Unstored, Loaded, Merge
<1> QED
  BY <1>1, <1>4, <1>5 DEF StoreInv

-----------------------------------------------------------------------------
(* The steps of a change.                                                  *)

Places == {"store", "read", "rewrite", "fill", "keep", "persist"}

\* The change of w is now at a, with the copy c of the file.
Moved(w, a, c) ==
  /\ change' \in [Workers -> Changes \cup {None}]
  /\ change[w] # None /\ change[w] \in Changes /\ change'[w] # None
  /\ change'[w].key = change[w].key /\ change'[w].content = change[w].content
  /\ change'[w].op = change[w].op /\ change'[w].at = a /\ change'[w].copy = c
  /\ \A x \in Workers : x # w => change'[x] = change[x]

LEMMA MovedIs ==
  ASSUME NEW w \in Workers, change \in [Workers -> Changes \cup {None}], change[w] # None,
         NEW a \in Places, change' = [change EXCEPT ![w].at = a]
  PROVE  Moved(w, a, change[w].copy)
<1>1. change'[w] = [change[w] EXCEPT !.at = a] /\ change[w] \in Changes
  OBVIOUS
<1>2. [change[w] EXCEPT !.at = a] \in Changes
  BY <1>1 DEF Changes, Places
<1>3. change'[w].key = change[w].key /\ change'[w].content = change[w].content
      /\ change'[w].op = change[w].op /\ change'[w].at = a /\ change'[w].copy = change[w].copy
  BY <1>1 DEF Changes
<1>4. change'[w] # None
  BY <1>1, <1>2, NoneAssumption
<1>5. change' \in [Workers -> Changes \cup {None}]
  BY <1>1, <1>2
<1> QED
  BY <1>1, <1>3, <1>4, <1>5 DEF Moved

LEMMA MovedWithCopy ==
  ASSUME NEW w \in Workers, change \in [Workers -> Changes \cup {None}], change[w] # None,
         NEW a \in Places, NEW c \in [Keys -> Values],
         change' = [change EXCEPT ![w].at = a, ![w].copy = c]
  PROVE  Moved(w, a, c)
<1>1. change'[w] = [change[w] EXCEPT !.at = a, !.copy = c] /\ change[w] \in Changes
  OBVIOUS
<1>2. [change[w] EXCEPT !.at = a, !.copy = c] \in Changes
  BY <1>1 DEF Changes, Places
<1>3. change'[w].key = change[w].key /\ change'[w].content = change[w].content
      /\ change'[w].op = change[w].op /\ change'[w].at = a /\ change'[w].copy = c
  BY <1>1 DEF Changes
<1>4. change'[w] # None
  BY <1>1, <1>2, NoneAssumption
<1>5. change' \in [Workers -> Changes \cup {None}]
  BY <1>1, <1>2
<1> QED
  BY <1>1, <1>3, <1>4, <1>5 DEF Moved

\* A change that moves is still possible.
LEMMA MovedRemains ==
  ASSUME NEW w \in Workers, NEW a, NEW c, Moved(w, a, c), store' = store,
         NEW k, allowed[k] \subseteq allowed'[k]
  PROVE  Possible(k) \subseteq Possible(k)'
<1>1. \A x \in Workers : Remains(x, k)
  BY DEF Moved, Remains
<1> QED
  BY <1>1, PossibleGrows

\* Nobody else is at it.
LEMMA OnlyOne ==
  ASSUME OneChange, Serial, NEW w \in Workers, change[w] # None
  PROVE  \A x \in Workers : x # w => change[x] = None
  BY DEF OneChange

-----------------------------------------------------------------------------
(* One lemma per step of the stores.                                       *)

\* A read fills the cache with what the copies have.
LEMMA RefreshKeeps ==
  ASSUME StoreInv, NEW w \in Workers, Refresh(w)
  PROVE  StoreInv'
<1> USE StoresAssumption DEF StoreInv
<1>1. PICK found \in Found : view' = [view EXCEPT ![w] = Cache(found)]
  BY DEF Refresh
<1>2. Cache(found) \in [Keys -> Values] /\ view' \in [Workers -> [Keys -> Values]]
  <2>1. found \in [Keys -> Values]
    BY DEF TypeOK, Found, Nothing, Values
  <2>2. Merge(found, file) \in [Keys -> Values]
    BY <2>1 DEF Merge, TypeOK, Values
  <2> QED
    BY <1>1, <2>1, <2>2 DEF Cache, TypeOK
<1>3. TypeOK'
  BY <1>2 DEF TypeOK, Refresh
<1>4. OneChange' /\ InStep' /\ OneCalendar' /\ Copied'
  BY DEF Refresh, OneChange, InStep, OneCalendar, Copied
<1>5. \A k : Possible(k)' = Possible(k)
  BY DEF Refresh, Possible, Explained
<1>6. Undamaged' /\ Unstored'
  BY <1>5 DEF Refresh, Undamaged, CopiesExplained, ChangesExplained, Unstored,
     Filling, Loaded, Merge, Nothing
<1>7. failure # "get_fails" => found = kv
  BY DEF Found
<1>8. Served'
  <2> SUFFICES ASSUME Serial, store \in Filed, failure \in {"none", "file_fails"},
                      NEW k \in Keys, by[k] = w
               PROVE  view'[w][k] \in Possible(k)
    BY <1>1, <1>5 DEF Served, Refresh, TypeOK, Live, Cached
  <2>1. view'[w] = Merge(kv, file)
    BY <1>1, <1>7 DEF TypeOK, Cache, Filed
  <2>2. Merge(kv, Nothing)[k] \in Possible(k) /\ (file[k] # None => file[k] \in Possible(k))
    BY DEF Undamaged, CopiesExplained, ChangesExplained
  <2> QED
    BY <2>1, <2>2, MergeExplained
<1>9. Settled'
  <2>1. Cache(kv)' = Cache(kv) /\ (Filling <=> Filling')
    BY DEF Refresh, Cache, Merge, Filling
  <2>2. /\ failure # "get_fails" => view'[w] = Cache(kv)
        /\ \A x \in Workers : x # w => view'[x] = view[x] /\ age'[x] = age[x]
    BY <1>1, <1>7 DEF Refresh, TypeOK
  <2> QED
    BY <2>1, <2>2 DEF Refresh, Settled
<1> QED
  BY <1>3, <1>4, <1>6, <1>8, <1>9

\* Caches grow older, and the last write longer ago.
LEMMA TickKeeps ==
  ASSUME StoreInv, Tick
  PROVE  StoreInv'
<1> USE StoresAssumption DEF StoreInv
<1>1. TypeOK'
  BY DEF TypeOK, Tick
<1>2. OneChange' /\ InStep' /\ OneCalendar' /\ Copied'
  BY DEF Tick, OneChange, InStep, OneCalendar, Copied
<1>3. \A k : Possible(k)' = Possible(k)
  BY DEF Tick, Possible, Explained
<1>4. Undamaged' /\ Unstored'
  BY <1>3 DEF Tick, Undamaged, CopiesExplained, ChangesExplained, Unstored,
     Filling, Loaded, Merge, Nothing
<1>5. \A w \in Workers : /\ age'[w] < TTL => age[w] < TTL
                         /\ age'[w] < quiet' => age[w] < quiet
  BY DEF Tick, TypeOK
<1>6. Served'
  BY <1>3, <1>5 DEF Tick, Served, TypeOK
<1>7. Settled'
  BY <1>5 DEF Tick, Settled, Filling, Cache, Merge
<1> QED
  BY <1>1, <1>2, <1>4, <1>6, <1>7

\* What is started is a change of the store that is followed.
Startable(k, c, op, at, copy) ==
  /\ k \in Keys /\ c \in Values /\ op \in {"set", "delete"} /\ copy \in [Keys -> Values]
  /\ \/ at = "persist" /\ store = "config"
     \/ at = "store" /\ store # "config" /\ copy = Nothing
  /\ c = None => store # "skill"
  /\ op = "delete" => c = None
  /\ store = "season" => k = SeasonKey

LEMMA StartsKeeps ==
  ASSUME StoreInv, NEW w \in Workers, NEW k, NEW c, NEW op, NEW at, NEW copy,
         Startable(k, c, op, at, copy), Starts(w, k, c, op, at, copy)
  PROVE  StoreInv'
<1> DEFINE new == [key |-> k, content |-> c, op |-> op, at |-> at, copy |-> copy]
<1> USE StoresAssumption DEF StoreInv
<1>1. new \in Changes /\ new # None
  BY NoneAssumption DEF Startable, Changes
<1>2. /\ change' \in [Workers -> Changes \cup {None}]
      /\ change[w] = None /\ change'[w] = new
      /\ \A x \in Workers : x # w => change'[x] = change[x]
  BY <1>1 DEF Starts, TypeOK
<1>3. /\ new.key = k /\ new.content = c /\ new.op = op /\ new.at = at /\ new.copy = copy
      /\ at \in {"store", "persist"}
  BY DEF Startable
<1>4. /\ UNCHANGED <<store, failure, kv, file, view, age, owned, allowed, by, quiet, crashes>>
      /\ Serial => \A x \in Workers : change[x] = None
  BY DEF Starts
<1> HIDE DEF new
<1>5. TypeOK'
  BY <1>2, <1>4 DEF TypeOK
<1>6. OneChange' /\ OneCalendar'
  BY <1>2, <1>4 DEF OneChange, OneCalendar
<1>7. InStep'
  BY <1>2, <1>3, <1>4 DEF InStep, Startable, Nothing
<1>8. Copied'
  BY <1>2, <1>3, <1>4 DEF Copied
<1>9. \A j : Possible(j) \subseteq Possible(j)'
  <2>1. \A j : \A x \in Workers : Remains(x, j)
    BY <1>2 DEF Remains
  <2> QED
    BY <2>1, <1>4, PossibleGrows
<1>10. Filling <=> Filling'
  BY <1>2, <1>3 DEF Filling
<1>11. Undamaged'
  <2> SUFFICES ASSUME Serial, store \in Filed, CopiesExplained
               PROVE  CopiesExplained' /\ ChangesExplained'
    BY <1>4 DEF Undamaged
  <2>1. \A x \in Workers : change'[x] # None => change'[x].at = "store"
    BY <1>2, <1>3, <1>4 DEF Startable, Filed
  <2>2. ChangesExplained'
    BY <2>1 DEF ChangesExplained
  <2>3. CopiesExplained'
    BY <1>4, <1>9 DEF CopiesExplained, Merge, Nothing
  <2> QED
    BY <2>2, <2>3
<1>12. Unstored'
  BY <1>2, <1>3, <1>4, <1>9, <1>10 DEF Unstored, Loaded, Merge
<1>13. Served'
  BY <1>4, <1>9 DEF Served, TypeOK
<1>14. Settled'
  BY <1>4, <1>10 DEF Settled, Cache, Merge
<1> QED
  BY <1>5, <1>6, <1>7, <1>8, <1>11, <1>12, <1>13, <1>14

\* Whatever an operator starts is such a change.
LEMMA OperateKeeps ==
  ASSUME StoreInv, NEW w \in Workers, Operate(w)
  PROVE  StoreInv'
<1> USE StoresAssumption
<1>1. Nothing \in [Keys -> Values] /\ \A c \in Contents \cup {None} : c \in Values
  BY DEF Nothing, Values
<1>2. ASSUME NEW k \in Keys, NEW c \in Contents \cup {None}, store # "skill", Save(w, k, c)
      PROVE  StoreInv'
  <2>1. Startable(k, c, "set", "store", Nothing)
    BY <1>1, <1>2 DEF Save, Startable, Filed
  <2> QED
    BY <1>2, <2>1, StartsKeeps DEF Save
<1>3. ASSUME NEW k \in Keys, Delete(w, k) PROVE StoreInv'
  <2>1. Startable(k, None, "delete", "store", Nothing)
    BY <1>1, <1>3 DEF Delete, Startable, Filed
  <2> QED
    BY <1>3, <2>1, StartsKeeps DEF Delete
<1>4. ASSUME NEW k \in Keys, NEW c \in Contents \cup {None}, SetConfig(w, k, c)
      PROVE  StoreInv'
  <2> DEFINE document(found) == IF age[w] < TTL THEN view[w] ELSE found
  <2>1. PICK found \in Found : Starts(w, k, c, "set", "persist", [document(found) EXCEPT ![k] = c])
    BY <1>4 DEF SetConfig
  <2>2. document(found) \in [Keys -> Values]
    BY <1>1 DEF StoreInv, TypeOK, Found
  <2> HIDE DEF document
  <2>3. [document(found) EXCEPT ![k] = c] \in [Keys -> Values]
    BY <1>1, <2>2
  <2>4. Startable(k, c, "set", "persist", [document(found) EXCEPT ![k] = c])
    BY <1>1, <1>4, <2>3 DEF SetConfig, Startable
  <2> QED
    BY <2>1, <2>4, StartsKeeps
<1>5. ASSUME ResetConfig(w) PROVE StoreInv'
  <2>1. PICK k \in Keys : Starts(w, k, None, "set", "persist", Nothing)
    BY <1>5 DEF ResetConfig
  <2>2. Startable(k, None, "set", "persist", Nothing)
    BY <1>1, <1>5 DEF ResetConfig, Startable
  <2> QED
    BY <2>1, <2>2, StartsKeeps
<1> QED
  BY <1>2, <1>3, <1>4, <1>5 DEF Operate

\* The store takes a change, or fails to and keeps what it has.
LEMMA WriteKeeps ==
  ASSUME StoreInv, NEW w \in Workers, WriteStore(w)
  PROVE  StoreInv'
<1> PICK k : k = change[w].key
  OBVIOUS
<1> DEFINE next == IF store # "season" THEN "read"
                   ELSE IF change[w].op = "delete" THEN "fill" ELSE "rewrite"
<1> USE StoresAssumption DEF StoreInv
<1>1. /\ change[w] # None /\ change[w].at = "store" /\ change[w] \in Changes
      /\ UNCHANGED <<store, failure, file, view, age, owned, by, changes, crashes>>
      /\ quiet' = 0
  BY DEF WriteStore, TypeOK
<1>2. /\ Moved(w, next, change[w].copy) /\ change[w].copy = Nothing
      /\ next \in {"read", "fill", "rewrite"}
  BY <1>1, MovedIs DEF WriteStore, TypeOK, Places, InStep
<1>3. k \in Keys /\ change[w].content \in Values
  BY <1>1 DEF Changes
<1>4. \/ /\ kv' = [kv EXCEPT ![k] = change[w].content]
         /\ UNCHANGED allowed
      \/ /\ failure \in {"set_fails", "delete_fails"}
         /\ allowed' = [allowed EXCEPT ![k] = @ \cup {kv[k]}]
         /\ UNCHANGED kv
  BY DEF WriteStore
<1>5. store = "season" => k = SeasonKey
  BY <1>1 DEF InStep
<1>6. next = "fill" => store = "season"
  OBVIOUS
<1>7. store # "config" /\ (next = "read" => store # "season")
  BY <1>1 DEF InStep
<1>8. next = "rewrite" => store = "season"
  OBVIOUS
<1> HIDE DEF next
<1>9. TypeOK'
  <2>1. kv' \in [Keys -> Values] /\ allowed' \in [Keys -> SUBSET Values]
    <3>1. kv \in [Keys -> Values] /\ allowed \in [Keys -> SUBSET Values] /\ kv[k] \in Values
      BY <1>3 DEF TypeOK
    <3>2. allowed[k] \cup {kv[k]} \in SUBSET Values
      BY <1>3, <3>1
    <3> QED
      BY <3>1, <3>2, <1>3, <1>4
  <2>2. quiet' \in 0 .. TTL /\ change' \in [Workers -> Changes \cup {None}]
    BY <1>1, <1>2 DEF Moved
  <2> QED
    BY <1>1, <2>1, <2>2 DEF TypeOK
<1>10. OneChange' /\ OneCalendar'
  BY <1>1, <1>2 DEF OneChange, OneCalendar, Moved
<1>11. InStep'
  BY <1>1, <1>2, <1>6, <1>7, <1>8 DEF InStep, Moved
<1>12. Copied'
  <2> SUFFICES ASSUME Serial, NEW x \in Workers, change'[x] # None
               PROVE  /\ change'[x].at = "rewrite" =>
                           \A j \in Keys \ {change'[x].key} : change'[x].copy[j] = file'[j]
                      /\ change'[x].at = "keep" /\ failure # "file_fails" =>
                           change'[x].content = None /\ file'[change'[x].key] = None
    BY <1>1, <1>2 DEF Copied, Moved
  <2>1. x = w
    BY <1>1, <1>2, OnlyOne DEF Moved
  <2>2. next = "rewrite" => \A j \in Keys \ {k} : Nothing[j] = file[j]
    BY <1>5, <1>8 DEF OneCalendar, Nothing
  <2> QED
    BY <2>1, <2>2, <1>1, <1>2 DEF Moved
<1>13. \A j \in Keys : Possible(j) \subseteq Possible(j)'
  <2>1. \A j \in Keys : allowed[j] \subseteq allowed'[j]
    BY <1>3, <1>4 DEF TypeOK
  <2> QED
    BY <1>1, <1>2, <2>1, MovedRemains
<1>14. /\ change[w].content # None => change[w].content \in Possible(k)'
       /\ change[w].content = None => Shipped[k] \in Possible(k)'
  <2>1. \A v \in Explained(w) : v \in Possible(k)
    BY <1>1, PossibleIs DEF Explains
  <2> QED
    BY <1>1, <1>3, <1>13, <2>1, ExplainedIs
<1>15. Serial => \A x \in Workers : x # w => change'[x] = None
  BY <1>1, <1>2, OnlyOne DEF Moved
<1>16. Undamaged'
  <2> SUFFICES ASSUME Serial, store \in Filed, failure \notin {"set_fails", "delete_fails"}
               PROVE  /\ \A j \in Keys :
                           /\ Merge(kv', Nothing)[j] \in Possible(j)'
                           /\ file[j] # None => file[j] \in Possible(j)'
                      /\ kv'[k] = change[w].content
                      /\ \A j \in Keys : change[w].copy[j] = None
    BY <1>1, <1>2, <1>15 DEF Undamaged, CopiesExplained, ChangesExplained, Moved, Merge, Nothing
  <2>1. kv' = [kv EXCEPT ![k] = change[w].content]
    BY <1>4
  <2>2. \A j \in Keys : Merge(kv, Nothing)[j] \in Possible(j)
                        /\ (file[j] # None => file[j] \in Possible(j))
    BY DEF Undamaged, CopiesExplained, ChangesExplained
  <2>3. \A j \in Keys \ {k} : Merge(kv', Nothing)[j] = Merge(kv, Nothing)[j]
    BY <2>1, <1>3 DEF Merge, TypeOK
  <2>4. Merge(kv', Nothing)[k] = IF change[w].content # None THEN change[w].content
                                 ELSE Shipped[k]
    BY <2>1, <1>3 DEF Merge, Nothing, TypeOK
  <2>5. \A j \in Keys : change[w].copy[j] = None
    BY <1>2 DEF Nothing
  <2>6. kv'[k] = change[w].content
    BY <2>1, <1>3 DEF TypeOK
  <2>7. Merge(kv', Nothing)[k] \in Possible(k)'
    BY <2>4, <1>14
  <2> QED
    BY <2>2, <2>3, <2>5, <2>6, <2>7, <1>13
<1>17. Unstored'
  <2> SUFFICES ASSUME Serial, store \in Filed, failure \in {"set_fails", "delete_fails"},
                      crashes = 0
               PROVE  /\ \A j \in Keys : Merge(kv', file)[j] \in Possible(j)'
                      /\ next = "fill" =>
                           \A j \in Keys \ {k} : Merge(kv', Nothing)[j] \in Possible(j)'
    BY <1>1, <1>2, <1>15 DEF Unstored, Moved, Loaded, Merge
  <2>1. ~Filling
    BY <1>1, OnlyOne DEF Filling
  <2>2. \A j \in Keys : Merge(kv, file)[j] \in Possible(j)
    BY <2>1 DEF Unstored, Loaded
  <2>3. \A j \in Keys \ {k} : Merge(kv', file)[j] = Merge(kv, file)[j]
    BY <1>3, <1>4 DEF Merge, TypeOK
  <2>4. Merge(kv', file)[k] \in Possible(k)'
    <3>1. CASE kv' = kv
      BY <3>1, <2>2, <1>3, <1>13
    <3>2. CASE kv' = [kv EXCEPT ![k] = change[w].content] /\ file[k] # None
      <4>1. Merge(kv', file)[k] = Merge(kv, file)[k]
        BY <3>2, <1>3 DEF Merge
      <4> QED
        BY <4>1, <2>2, <1>3, <1>13
    <3>3. CASE kv' = [kv EXCEPT ![k] = change[w].content] /\ file[k] = None
      <4>1. Merge(kv', file)[k] = IF change[w].content # None THEN change[w].content
                                  ELSE Shipped[k]
        BY <3>3, <1>3 DEF Merge, TypeOK
      <4> QED
        BY <4>1, <1>14
    <3> QED
      BY <3>1, <3>2, <3>3, <1>4
  <2>5. next = "fill" => \A j \in Keys \ {k} : Merge(kv', Nothing)[j] = Merge(kv', file)[j]
    BY <1>5, <1>6 DEF OneCalendar, Merge, Nothing
  <2>6. \A j \in Keys : Merge(kv', file)[j] \in Possible(j)'
    BY <2>2, <2>3, <2>4, <1>13
  <2> QED
    BY <2>5, <2>6
<1>18. Served'
  BY <1>1, <1>13 DEF Served, TypeOK
<1>19. Settled'
  BY <1>1, <1>9 DEF Settled, TypeOK
<1> QED
  BY <1>9, <1>10, <1>11, <1>12, <1>16, <1>17, <1>18, <1>19

\* The file is read whole.
LEMMA ReadKeeps ==
  ASSUME StoreInv, NEW w \in Workers, ReadFile(w)
  PROVE  StoreInv'
<1> PICK k : k = change[w].key
  OBVIOUS
<1> PICK next : next = IF store = "balloon" /\ change[w].op = "delete" /\ file[k] = None
                       THEN "keep" ELSE "rewrite"
  OBVIOUS
<1> USE StoresAssumption DEF StoreInv
<1>1. /\ change[w] # None /\ change[w].at = "read" /\ change[w] \in Changes
      /\ UNCHANGED <<store, failure, kv, file, view, age, owned, allowed, by, quiet,
                     changes, crashes>>
  BY DEF ReadFile, TypeOK
<1>2. Moved(w, next, file) /\ next \in {"keep", "rewrite"}
  <2>1. change' = [change EXCEPT ![w].at = next, ![w].copy = file]
    BY DEF ReadFile
  <2> QED
    BY <1>1, <2>1, MovedWithCopy DEF TypeOK, Places
<1>3. store # "config" /\ store # "season"
  BY <1>1 DEF InStep
<1>4. next = "keep" => change[w].content = None /\ file[k] = None
  BY <1>1 DEF InStep
<1>5. TypeOK' /\ OneChange' /\ OneCalendar'
  BY <1>1, <1>2 DEF TypeOK, OneChange, OneCalendar, Moved
<1>6. InStep'
  BY <1>1, <1>2, <1>3 DEF InStep, Moved
<1>7. Serial => \A x \in Workers : x # w => change'[x] = None
  BY <1>1, <1>2, OnlyOne DEF Moved
<1>8. Copied'
  BY <1>1, <1>2, <1>4, <1>7 DEF Copied, Moved
<1>9. \A j : Possible(j) \subseteq Possible(j)'
  BY <1>1, <1>2, MovedRemains
<1>10. Undamaged'
  <2> SUFFICES ASSUME Serial, store \in Filed, CopiesExplained, ChangesExplained
               PROVE  CopiesExplained' /\ ChangesExplained'
    BY <1>1 DEF Undamaged
  <2>1. CopiesExplained'
    BY <1>1, <1>9 DEF CopiesExplained, Merge, Nothing
  <2>2. ChangesExplained'
    BY <1>1, <1>2, <1>7 DEF ChangesExplained, Moved
  <2> QED
    BY <2>1, <2>2
<1>11. Filling <=> Filling'
  BY <1>1, <1>2 DEF Filling, Moved
<1>12. Unstored'
  <2> SUFFICES ASSUME Serial, ~Filling => \A j \in Keys : Loaded[j] \in Possible(j)
               PROVE  /\ ~Filling => \A j \in Keys : (Loaded[j] \in Possible(j))'
                      /\ \A x \in Workers : ~(change'[x] # None /\ change'[x].at = "fill")
    BY <1>1, <1>11 DEF Unstored
  <2>1. \A j : Loaded[j]' = Loaded[j]
    BY <1>1 DEF Loaded, Merge
  <2> QED
    BY <2>1, <1>2, <1>7, <1>9 DEF Moved
<1>13. Served' /\ Settled'
  BY <1>1, <1>9, <1>11 DEF Served, Settled, TypeOK, Cache, Merge
<1> QED
  BY <1>5, <1>6, <1>8, <1>10, <1>12, <1>13

\* Opening the file empties it; the worker's copy has what it had.  When it cannot be
\* opened nothing changes.
LEMMA OpenKeeps ==
  ASSUME StoreInv, NEW w \in Workers, OpenFile(w)
  PROVE  StoreInv'
<1> PICK k : k = change[w].key
  OBVIOUS
<1> PICK copy : copy = change[w].copy
  OBVIOUS
<1> USE StoresAssumption DEF StoreInv
<1>1. /\ change[w] # None /\ change[w].at = "rewrite" /\ change[w] \in Changes
      /\ UNCHANGED <<store, failure, kv, view, age, owned, allowed, by, quiet, changes, crashes>>
  BY DEF OpenFile, TypeOK
<1>2. \/ file' = Nothing /\ Moved(w, "fill", copy)
      \/ failure = "file_fails" /\ file' = file /\ Moved(w, "keep", copy)
  BY <1>1, MovedIs DEF OpenFile, TypeOK, Places
<1>3. store # "config"
  BY <1>1 DEF InStep
<1>4. Serial => \A j \in Keys \ {k} : copy[j] = file[j]
  BY <1>1 DEF Copied
<1>5. TypeOK' /\ OneChange' /\ OneCalendar'
  BY <1>1, <1>2 DEF TypeOK, OneChange, OneCalendar, Moved, Nothing, Values
<1>6. InStep'
  BY <1>1, <1>2, <1>3 DEF InStep, Moved
<1>7. Serial => \A x \in Workers : x # w => change'[x] = None
  BY <1>1, <1>2, OnlyOne DEF Moved
<1>8. Copied'
  BY <1>1, <1>2, <1>7 DEF Copied, Moved
<1>9. \A j : Possible(j) \subseteq Possible(j)'
  BY <1>1, <1>2, MovedRemains
<1>10. Undamaged'
  <2> SUFFICES ASSUME Serial, store \in Filed, CopiesExplained, ChangesExplained
               PROVE  CopiesExplained' /\ ChangesExplained'
    BY <1>1 DEF Undamaged
  <2>1. CopiesExplained'
    BY <1>1, <1>2, <1>9 DEF CopiesExplained, Merge, Nothing
  <2>2. \A j \in Keys \ {k} : copy[j] # None => copy[j] \in Possible(j)'
    BY <1>4, <1>9 DEF CopiesExplained
  <2>3. kv'[k] = change[w].content
    BY <1>1 DEF ChangesExplained
  <2>4. ChangesExplained'
    BY <2>2, <2>3, <1>2, <1>7 DEF ChangesExplained, Moved
  <2> QED
    BY <2>1, <2>4
<1>11. ~Filling => Filling' \/ (file' = file /\ failure = "file_fails")
  BY <1>2 DEF Filling, Moved
<1>12. Unstored'
  <2> SUFFICES ASSUME Serial, failure \in {"set_fails", "delete_fails"},
                      ~Filling => \A j \in Keys : Loaded[j] \in Possible(j)
               PROVE  /\ Filling'
                      /\ \A j \in Keys \ {k} : Merge(kv, copy)[j] \in Possible(j)'
    BY <1>1, <1>2, <1>7 DEF Unstored, Moved, Merge
  <2>1. ~Filling
    BY <1>1, OnlyOne DEF Filling
  <2>2. \A j \in Keys \ {k} : Merge(kv, copy)[j] = Loaded[j]
    BY <1>4 DEF Loaded, Merge
  <2> QED
    BY <2>1, <2>2, <1>9, <1>11
<1>13. Served'
  BY <1>1, <1>9 DEF Served, TypeOK
<1>14. Settled'
  <2> SUFFICES ASSUME failure # "get_fails", ~Filling', NEW x \in Workers, age[x] < quiet
               PROVE  view'[x] = Cache(kv)'
    BY <1>1 DEF Settled
  <2>1. file' = file /\ Moved(w, "keep", copy)
    BY <1>2 DEF Filling, Moved
  <2>2. ~Filling
    BY <2>1, <1>1 DEF Filling, Moved
  <2> QED
    BY <2>1, <2>2, <1>1 DEF Settled, Cache, Merge
<1> QED
  BY <1>5, <1>6, <1>8, <1>10, <1>12, <1>13, <1>14

\* The change of w is over.
Ended(w) ==
  /\ change' \in [Workers -> Changes \cup {None}] /\ change'[w] = None
  /\ \A x \in Workers : x # w => change'[x] = change[x]

LEMMA EndedIs ==
  ASSUME NEW w \in Workers, TypeOK, change' = [change EXCEPT ![w] = None]
  PROVE  Ended(w)
  BY DEF Ended, TypeOK

\* A change that ended leaves no other in its way.
LEMMA EndedKeeps ==
  ASSUME OneChange, InStep, NEW w \in Workers, Ended(w), store' = store
  PROVE  OneChange' /\ InStep'
  BY DEF OneChange, InStep, Ended

\* The configuration is written to the store alone.
LEMMA PersistKeeps ==
  ASSUME StoreInv, NEW w \in Workers, PersistConfig(w)
  PROVE  StoreInv'
<1> USE StoresAssumption DEF StoreInv
<1>1. /\ change[w] # None /\ change[w].at = "persist" /\ change[w] \in Changes
      /\ UNCHANGED <<store, failure, file, owned, allowed, changes, crashes>>
      /\ quiet' = 0
  BY DEF PersistConfig, TypeOK
<1>2. Ended(w)
  BY EndedIs DEF PersistConfig
<1>3. store = "config"
  BY <1>1 DEF InStep
<1>4. change[w].copy \in [Keys -> Values] /\ change[w].key \in Keys
  BY <1>1 DEF Changes
<1>5. TypeOK'
  <2>1. kv' \in [Keys -> Values] /\ view' \in [Workers -> [Keys -> Values]]
    BY <1>4 DEF PersistConfig, TypeOK
  <2>2. age' \in [Workers -> 0 .. TTL] /\ by' \in [Keys -> Workers \cup {None}]
    BY <1>4 DEF PersistConfig, TypeOK
  <2> QED
    BY <1>1, <1>2, <2>1, <2>2 DEF TypeOK, Ended
<1>6. OneChange' /\ InStep' /\ OneCalendar'
  BY <1>1, <1>2, <1>3, EndedKeeps DEF OneCalendar
<1>7. Copied'
  BY <1>1, <1>2 DEF Copied, Ended
<1>8. Undamaged' /\ Unstored' /\ Served'
  BY <1>1, <1>3 DEF Undamaged, Unstored, Served, Filed
<1>9. Settled'
  BY <1>1, <1>5 DEF Settled, TypeOK
<1> QED
  BY <1>5, <1>6, <1>7, <1>8, <1>9

\* A worker that dies leaves its change half made, and loads what is there.
LEMMA CrashKeeps ==
  ASSUME StoreInv, NEW w \in Workers, Crash(w)
  PROVE  StoreInv'
<1> PICK k : k = change[w].key
  OBVIOUS
<1> USE StoresAssumption DEF StoreInv
<1>1. /\ UNCHANGED <<store, failure, kv, file, by, changes>>
      /\ quiet' = 0 /\ crashes' = crashes + 1 /\ age' = [age EXCEPT ![w] = TTL]
  BY DEF Crash
<1>2. Ended(w)
  BY EndedIs DEF Crash
<1>3. change[w] # None => k \in Keys /\ Explained(w) \subseteq Values
  BY ExplainedType DEF TypeOK, Changes
<1>4. allowed' = IF change[w] = None THEN allowed
                 ELSE [allowed EXCEPT ![k] = @ \cup Explained(w)]
  BY DEF Crash
<1>5. PICK found \in Found :
        view' = [view EXCEPT ![w] = IF store \in Live THEN Merge(found, file)
                                    ELSE IF store = "config" THEN Nothing ELSE Shipped]
  BY DEF Crash
<1>6. TypeOK'
  <2>1. allowed' \in [Keys -> SUBSET Values]
    <3>1. CASE change[w] = None
      BY <3>1, <1>4 DEF TypeOK
    <3>2. CASE change[w] # None
      <4>1. allowed[k] \cup Explained(w) \in SUBSET Values
        BY <3>2, <1>3 DEF TypeOK
      <4> QED
        BY <3>2, <4>1, <1>3, <1>4 DEF TypeOK
    <3> QED
      BY <3>1, <3>2
  <2>2. Merge(found, file) \in [Keys -> Values] /\ Nothing \in [Keys -> Values]
        /\ Shipped \in [Keys -> Values]
    BY DEF Merge, Found, Nothing, TypeOK, Values
  <2>3. view' \in [Workers -> [Keys -> Values]]
    BY <1>5, <2>2 DEF TypeOK
  <2>4. age' \in [Workers -> 0 .. TTL] /\ quiet' \in 0 .. TTL /\ crashes' \in Nat
    BY <1>1 DEF TypeOK
  <2> QED
    BY <1>1, <1>2, <2>1, <2>3, <2>4 DEF TypeOK, Ended
<1>7. OneChange' /\ InStep' /\ OneCalendar'
  BY <1>1, <1>2, EndedKeeps DEF OneCalendar
<1>8. Copied'
  BY <1>1, <1>2 DEF Copied, Ended
<1>9. \A j \in Keys : Possible(j) \subseteq Possible(j)'
  <2> SUFFICES ASSUME NEW j \in Keys PROVE Possible(j) \subseteq Possible(j)'
    OBVIOUS
  <2>1. allowed[j] \subseteq allowed'[j]
    BY <1>3, <1>4 DEF TypeOK
  <2>2. \A x \in Workers : x # w => Remains(x, j)
    BY <1>2 DEF Ended, Remains
  <2>3. Remains(w, j)
    BY <1>3, <1>4 DEF Remains, TypeOK
  <2> QED
    BY <1>1, <2>1, <2>2, <2>3, PossibleGrows
<1>10. Undamaged'
  <2> SUFFICES ASSUME CopiesExplained, ChangesExplained
               PROVE  CopiesExplained' /\ ChangesExplained'
    BY <1>1 DEF Undamaged
  <2>1. CopiesExplained'
    BY <1>1, <1>9 DEF CopiesExplained, Merge, Nothing
  <2>2. kv' = kv /\ \A x \in Workers : x # w => change'[x] = change[x]
    BY <1>1, <1>2 DEF Ended
  <2>3. \A x \in Workers : change[x] # None => change[x] \in Changes
    BY DEF TypeOK
  <2>4. ChangesExplained'
    BY <2>2, <2>3, <1>2, <1>9 DEF ChangesExplained, Ended, Changes
  <2> QED
    BY <2>1, <2>4
<1>11. Unstored'
  BY <1>1 DEF Unstored, TypeOK
<1>12. Served'
  <2> SUFFICES ASSUME Serial, store \in Filed, failure \in {"none", "file_fails"}, NEW j \in Keys,
                      by[j] # None, store \in Live \/ age'[by[j]] < TTL
               PROVE  view'[by[j]][j] \in Possible(j)'
    BY <1>1 DEF Served, TypeOK
  <2>1. CASE by[j] # w
    BY <2>1, <1>1, <1>5, <1>9 DEF Served, TypeOK
  <2>2. CASE by[j] = w
    <3>1. view'[w] = Merge(kv, file)
      BY <2>2, <1>1, <1>5 DEF TypeOK, Found
    <3>2. Merge(kv, Nothing)[j] \in Possible(j) /\ (file[j] # None => file[j] \in Possible(j))
      BY DEF Undamaged, CopiesExplained
    <3>3. Merge(kv, file)[j] \in Possible(j)
      BY <3>2, MergeExplained
    <3> QED
      BY <2>2, <3>1, <3>3, <1>9
  <2> QED
    BY <2>1, <2>2
<1>13. Settled'
  BY <1>1, <1>6 DEF Settled, TypeOK
<1> QED
  BY <1>6, <1>7, <1>8, <1>10, <1>11, <1>12, <1>13

\* The file is filled, the worker's view follows and the change is acknowledged.
LEMMA FillKeeps ==
  ASSUME StoreInv, NEW w \in Workers, FillFile(w)
  PROVE  StoreInv'
<1> PICK k : k = change[w].key
  OBVIOUS
<1> PICK c : c = change[w].content
  OBVIOUS
<1> PICK newFile \in Filled(w) :
        /\ file' = newFile /\ view' = Acknowledged(w, newFile)
        /\ allowed' = [allowed EXCEPT ![k] = Explained(w) \cup LeftBehind(w, newFile)]
        /\ by' = [by EXCEPT ![k] = w]
  BY DEF FillFile
<1> PICK kept : kept = LeftBehind(w, newFile)
  OBVIOUS
<1> PICK now : now = Explained(w)
  OBVIOUS
<1> USE StoresAssumption DEF StoreInv
<1>1. /\ change[w] # None /\ change[w].at \in {"fill", "keep"} /\ change[w] \in Changes
      /\ UNCHANGED <<store, failure, kv, changes, crashes>>
      /\ file' = newFile /\ view' = Acknowledged(w, newFile)
      /\ by' = [by EXCEPT ![k] = w]
      /\ age' = [age EXCEPT ![w] = IF store \in Cached THEN 0 ELSE @]
      /\ quiet' = 0
  BY DEF FillFile, TypeOK
<1>2. allowed' = [allowed EXCEPT ![k] = now \cup kept]
  OBVIOUS
<1>3. Ended(w)
  BY EndedIs DEF FillFile
<1>4. k \in Keys /\ c \in Values /\ change[w].copy \in [Keys -> Values]
  BY <1>1 DEF Changes
<1>5. newFile \in [Keys -> Values]
  BY <1>4 DEF TypeOK, Filled
<1>6. now \subseteq Values /\ kept \subseteq Values
  <2>1. kept \subseteq {newFile[k], kv[k]}
    BY DEF LeftBehind
  <2>2. newFile[k] \in Values /\ kv[k] \in Values
    BY <1>4, <1>5 DEF TypeOK
  <2>3. now \subseteq Values
    BY <1>1, ExplainedType
  <2> QED
    BY <2>1, <2>2, <2>3
<1>7. /\ c # None => c \in now
      /\ c = None => Shipped[k] \in now
      /\ c = None /\ store \in {"workflow", "season"} => None \in now
  BY <1>1, ExplainedIs
<1>8. Acknowledged(w, newFile) =
        IF store \in Live \/ (store = "season" /\ change[w].op = "set")
          THEN [view EXCEPT ![w][k] = c] ELSE [view EXCEPT ![w] = Merge(kv, newFile)]
  BY DEF Acknowledged
<1>9. store = "season" => k = SeasonKey
  BY <1>1 DEF InStep
<1>10. TypeOK'
  <2>1. Merge(kv, newFile) \in [Keys -> Values]
    BY <1>5 DEF Merge, TypeOK, Values
  <2>2. [view EXCEPT ![w][k] = c] \in [Workers -> [Keys -> Values]]
    BY <1>4 DEF TypeOK
  <2>3. view' \in [Workers -> [Keys -> Values]]
    <3>1. \/ view' = [view EXCEPT ![w][k] = c]
          \/ view' = [view EXCEPT ![w] = Merge(kv, newFile)]
      BY <1>1, <1>8
    <3>2. [view EXCEPT ![w] = Merge(kv, newFile)] \in [Workers -> [Keys -> Values]]
      BY <2>1 DEF TypeOK
    <3> QED
      BY <3>1, <3>2, <2>2
  <2>4. allowed' \in [Keys -> SUBSET Values]
    <3>1. now \cup kept \in SUBSET Values
      BY <1>6
    <3> QED
      BY <3>1, <1>2, <1>4 DEF TypeOK
  <2>5. age' \in [Workers -> 0 .. TTL] /\ by' \in [Keys -> Workers \cup {None}]
    BY <1>1, <1>4 DEF TypeOK
  <2>6. quiet' \in 0 .. TTL /\ crashes' \in Nat /\ kv' \in [Keys -> Values]
    BY <1>1 DEF TypeOK
  <2> QED
    BY <1>1, <1>3, <1>5, <2>3, <2>4, <2>5, <2>6 DEF TypeOK, Ended
<1>11. OneChange' /\ InStep'
  BY <1>1, <1>3, EndedKeeps
<1>12. OneCalendar'
  <2> SUFFICES ASSUME store = "season", NEW j \in Keys \ {SeasonKey}
               PROVE  newFile[j] = None /\ by'[j] = None
    BY <1>1 DEF OneCalendar
  <2>1. k = SeasonKey /\ change[w].copy = Nothing /\ file[j] = None /\ by[j] = None
    BY <1>1, <1>9 DEF InStep, OneCalendar
  <2>2. newFile[j] = file[j] \/ newFile[j] = change[w].copy[j]
    BY <2>1, <1>4 DEF Filled
  <2> QED
    BY <2>1, <2>2, <1>1, <1>4 DEF Nothing, TypeOK
<1>13. Serial => \A x \in Workers : change'[x] = None
  BY <1>1, <1>3, OnlyOne DEF Ended
<1>14. Copied'
  BY <1>13 DEF Copied
<1>15. \A j \in Keys \ {k} : Possible(j) \subseteq Possible(j)'
  <2> SUFFICES ASSUME NEW j \in Keys \ {k} PROVE Possible(j) \subseteq Possible(j)'
    OBVIOUS
  <2>1. allowed[j] \subseteq allowed'[j]
    BY <1>2 DEF TypeOK
  <2>2. \A x \in Workers : Remains(x, j)
    BY <1>1, <1>3 DEF Ended, Remains
  <2> QED
    BY <1>1, <2>1, <2>2, PossibleGrows
<1>16. now \cup kept \subseteq Possible(k)'
  <2>1. allowed'[k] = now \cup kept
    BY <1>2, <1>4 DEF TypeOK
  <2> QED
    BY <2>1, PossibleWillBe
<1>17. \/ newFile[k] = c \/ (Serial => newFile[k] = None /\ c = None)
       \/ failure = "file_fails" /\ (newFile[k] # None => newFile[k] \in kept)
  BY <1>1, <1>4 DEF Copied, Filled, LeftBehind
<1>18. \A j \in Keys \ {k} :
         \/ newFile[j] = IF change[w].at = "keep" THEN file[j] ELSE change[w].copy[j]
         \/ failure = "file_fails" /\ newFile[j] = file[j]
  BY <1>4 DEF Filled
<1>19. Undamaged'
  <2> SUFFICES ASSUME Serial, CopiesExplained, ChangesExplained
               PROVE  CopiesExplained' /\ ChangesExplained'
    BY <1>1 DEF Undamaged
  <2>1. ChangesExplained'
    BY <1>13 DEF ChangesExplained
  <2>2. kv[k] = c
    BY <1>1 DEF ChangesExplained
  <2>3. Merge(kv', Nothing)[k] \in Possible(k)'
    BY <2>2, <1>1, <1>4, <1>7, <1>16 DEF Merge, Nothing
  <2>4. newFile[k] # None => newFile[k] \in Possible(k)'
    BY <1>7, <1>16, <1>17
  <2>5. \A j \in Keys \ {k} : Merge(kv', Nothing)[j] = Merge(kv, Nothing)[j]
    BY <1>1
  <2>6. \A j \in Keys \ {k} : newFile[j] # None => newFile[j] \in Possible(j)
    BY <1>1, <1>18 DEF CopiesExplained, ChangesExplained
  <2>7. \A j \in Keys \ {k} : Merge(kv', Nothing)[j] \in Possible(j)'
    BY <2>5, <1>15 DEF CopiesExplained
  <2>8. \A j \in Keys : Merge(kv', Nothing)[j] \in Possible(j)'
    BY <2>3, <2>7
  <2>9. \A j \in Keys : newFile[j] # None => newFile[j] \in Possible(j)'
    BY <2>4, <2>6, <1>15
  <2>10. CopiesExplained'
    BY <2>8, <2>9, <1>1 DEF CopiesExplained, Merge, Nothing
  <2> QED
    BY <2>1, <2>10
<1>20. Unstored'
  <2> SUFFICES ASSUME Serial, store \in Filed, failure \in {"set_fails", "delete_fails"},
                      crashes = 0
               PROVE  \A j \in Keys : Merge(kv, newFile)[j] \in Possible(j)'
    BY <1>1, <1>13 DEF Unstored, Loaded, Merge
  <2>1. Merge(kv, newFile)[k] \in Possible(k)'
    <3>1. Merge(kv, newFile)[k] = IF newFile[k] # None THEN newFile[k]
                                  ELSE IF kv[k] # None THEN kv[k] ELSE Shipped[k]
      BY <1>4 DEF Merge
    <3>2. c # None => newFile[k] # None
      BY <1>17
    <3>3. newFile[k] # None => newFile[k] = c
      BY <1>17
    <3>4. newFile[k] = None /\ kv[k] # None => kv[k] \in kept
      BY <3>2 DEF LeftBehind
    <3> QED
      BY <3>1, <3>2, <3>3, <3>4, <1>7, <1>16
  <2>2. ASSUME NEW j \in Keys \ {k} PROVE Merge(kv, newFile)[j] \in Possible(j)
    <3>1. CASE change[w].at = "fill"
      <4>1. Merge(kv, change[w].copy)[j] \in Possible(j)
        BY <3>1, <1>1 DEF Unstored
      <4>2. Merge(kv, newFile)[j] = Merge(kv, change[w].copy)[j]
        BY <3>1, <1>18 DEF Merge
      <4> QED
        BY <4>1, <4>2
    <3>2. CASE change[w].at = "keep"
      <4>1. ~Filling
        BY <3>2, <1>1, OnlyOne DEF Filling
      <4>2. Merge(kv, newFile)[j] = Loaded[j]
        BY <3>2, <1>18 DEF Merge, Loaded
      <4> QED
        BY <4>1, <4>2 DEF Unstored
    <3> QED
      BY <3>1, <3>2, <1>1
  <2> QED
    BY <2>1, <2>2, <1>15
<1>21. Served'
  <2> SUFFICES ASSUME Serial, store \in Filed,
                      failure \in {"none", "file_fails"} \/ (store \in Live /\ crashes = 0),
                      NEW j \in Keys, by'[j] # None, store \in Live \/ age'[by'[j]] < TTL
               PROVE  view'[by'[j]][j] \in Possible(j)'
    BY <1>1 DEF Served
  <2>1. CASE by'[j] # w
    <3>1. j # k /\ by'[j] = by[j] /\ by[j] \in Workers
      BY <2>1, <1>1, <1>4 DEF TypeOK
    <3>2. view'[by[j]] = view[by[j]] /\ age'[by[j]] = age[by[j]]
      BY <2>1, <3>1, <1>1, <1>8 DEF TypeOK
    <3>3. view[by[j]][j] \in Possible(j)
      BY <3>1, <3>2 DEF Served
    <3> QED
      BY <3>1, <3>2, <3>3, <1>15
  <2>2. CASE by'[j] = w /\ (store \in Live \/ (store = "season" /\ change[w].op = "set"))
    <3>1. view'[w] = [view[w] EXCEPT ![k] = c]
      BY <2>2, <1>1, <1>8 DEF TypeOK
    <3>2. CASE j = k
      <4>1. view'[w][k] = c
        BY <3>1, <1>4 DEF TypeOK
      <4>2. c = None => store \in {"workflow", "season"}
        BY <2>2, <1>1 DEF InStep, Live
      <4> QED
        BY <2>2, <3>2, <4>1, <4>2, <1>7, <1>16
    <3>3. CASE j # k
      <4>1. by[j] = w
        BY <2>2, <3>3, <1>1 DEF TypeOK
      <4>2. store \in Live
        BY <2>2, <3>3, <4>1, <1>9 DEF OneCalendar
      <4>3. view[w][j] \in Possible(j)
        BY <2>2, <4>1, <4>2 DEF Served
      <4> QED
        BY <2>2, <3>1, <3>3, <4>3, <1>15 DEF TypeOK
    <3> QED
      BY <3>2, <3>3
  <2>3. CASE by'[j] = w /\ ~(store \in Live \/ (store = "season" /\ change[w].op = "set"))
    <3>1. view'[w] = Merge(kv, newFile) /\ failure \in {"none", "file_fails"}
      BY <2>3, <1>1, <1>8 DEF TypeOK
    <3>2. CopiesExplained'
      BY <3>1, <1>1, <1>19 DEF Undamaged
    <3>3. /\ Merge(kv, Nothing)[j] \in Possible(j)'
          /\ newFile[j] # None => newFile[j] \in Possible(j)'
      BY <3>2, <1>1 DEF CopiesExplained, Merge, Nothing
    <3>4. Merge(kv, newFile)[j] \in Possible(j)'
      BY <3>3, MergeExplained
    <3> QED
      BY <2>3, <3>1, <3>4
  <2> QED
    BY <2>1, <2>2, <2>3
<1>22. Settled'
  BY <1>1, <1>10 DEF Settled, TypeOK
<1> QED
  BY <1>10, <1>11, <1>12, <1>14, <1>19, <1>20, <1>21, <1>22

-----------------------------------------------------------------------------
(* The flow that authors a skill, and the theorems.                        *)

\* Nothing of the stores changes.
LEMMA StayKeeps == StoreInv /\ UNCHANGED vars => StoreInv'
<1> SUFFICES ASSUME StoreInv, UNCHANGED vars PROVE StoreInv'
  OBVIOUS
<1>1. TypeOK' /\ OneChange' /\ InStep' /\ OneCalendar' /\ Copied'
  BY DEF StoreInv, vars, TypeOK, OneChange, InStep, OneCalendar, Copied
<1>2. (\A k : Possible(k)' = Possible(k)) /\ (Filling <=> Filling')
  BY DEF vars, Possible, Explained, Filling
<1>3. Undamaged'
  BY <1>2 DEF StoreInv, vars, Undamaged, CopiesExplained, ChangesExplained, Merge
<1>4. Unstored'
  BY <1>2 DEF StoreInv, vars, Unstored, Loaded, Merge
<1>5. Served' /\ Settled'
  BY <1>2 DEF StoreInv, vars, Served, Settled, Cache, Merge
<1> QED
  BY <1>1, <1>3, <1>4, <1>5 DEF StoreInv

\* The name that is tried first of those that are free.
LEMMA SlugIsFree ==
  ASSUME NEW w \in Workers, Slug(w) # None
  PROVE  Slug(w) \in Keys /\ view[w][Slug(w)] = None
<1> PICK free : free = {i \in 1 .. Len(Names) : view[w][Names[i]] = None}
  OBVIOUS
<1>1. free # {} /\ Slug(w) = Names[CHOOSE i \in free : \A j \in free : i <= j]
  BY DEF Slug
<1>2. free \subseteq Nat /\ \A i \in free : Names[i] \in Keys /\ view[w][Names[i]] = None
  BY AuthoringAssumption
<1>3. PICK i \in free : \A j \in free : ~(<<j, i>> \in OpToRel(<, Nat))
  BY <1>1, <1>2, NatLessThanWellFounded, WFMin
<1>4. \A j \in free : i <= j
  <2> SUFFICES ASSUME NEW j \in free, ~(i <= j) PROVE FALSE
    OBVIOUS
  <2>1. i \in Nat /\ j \in Nat /\ j < i
    BY <1>2
  <2> QED
    BY <2>1, <1>3 DEF OpToRel
<1> QED
  BY <1>1, <1>2, <1>4

\* A skill is saved as it was shown, under a name that was free.
LEMMA CreateIsOfTheShown ==
  ASSUME Inv, NEW w \in Workers, Create(w)
  PROVE  /\ Slug(w) \in Keys /\ view[w][Slug(w)] = None
         /\ shown \in Authored /\ shown # None
         /\ Starts(w, Slug(w), shown, "set", "store", Nothing)
<1>1. shown = Summary(flow)
  BY DEF Inv, Shown, Create, In
<1>2. Summary(flow) \in Authored
  BY DEF Inv, FlowOK, Create, In, Summary, Authored
<1> QED
  BY <1>1, <1>2, SlugIsFree, NoneAssumption DEF Create, Save

\* Every step of the conversation keeps the invariant.
LEMMA AuthorKeeps ==
  ASSUME Inv, NEW w \in Workers, Author(w)
  PROVE  Inv'
<1>1. CASE Create(w)
  <2>1. Nothing \in [Keys -> Values] /\ shown \in Values
    BY <1>1, CreateIsOfTheShown DEF Nothing, Values
  <2>2. store = "skill"
    BY <1>1 DEF Create, In
  <2>3. Startable(Slug(w), shown, "set", "store", Nothing)
    BY <1>1, <2>1, <2>2, CreateIsOfTheShown DEF Startable
  <2>4. StoreInv'
    BY <1>1, <2>3, CreateIsOfTheShown, StartsKeeps DEF Inv
  <2>5. UNCHANGED <<flow, shown, store>>
    BY <1>1 DEF Create, Save, Starts
  <2> QED
    BY <2>4, <2>5 DEF Inv, FlowOK, Shown, Summary
<1>2. CASE ~Create(w)
  <2>1. UNCHANGED vars
    BY <1>2 DEF Author, StartFlow, Purpose, Keywords, PickTool, Review, EditFields, Leave
  <2>2. StoreInv' /\ store' = store
    BY <2>1, StayKeeps DEF Inv, vars
  <2>3. FlowOK /\ Shown
    BY DEF Inv
  <2>4. CASE StartFlow(w)
    <3>1. PICK first \in {"purpose", "keywords"} :
            flow' = [stage |-> first, tool |-> None, asks |-> {}, offered |-> FALSE]
      BY <2>4 DEF StartFlow
    <3> QED
      BY <2>2, <3>1 DEF Inv, FlowOK, Shown, Stages
  <2>5. CASE Purpose(w) \/ Leave(w)
    BY <2>2, <2>3, <2>5 DEF Inv, FlowOK, Shown, Purpose, Leave, In, Stages
  <2>6. CASE Keywords(w)
    BY <2>2, <2>3, <2>6 DEF Inv, FlowOK, Shown, Keywords, Suggested, In, Stages
  <2>7. CASE PickTool(w)
    <3>1. PICK t \in Tools, asks \in SUBSET SkillFields :
            flow' = [flow EXCEPT !.stage = "review", !.tool = t, !.asks = asks]
      BY <2>7, AuthoringAssumption DEF PickTool, AsksOf
    <3>2. flow # None
      BY <2>7 DEF PickTool, In
    <3> QED
      BY <2>2, <2>3, <3>1, <3>2 DEF Inv, FlowOK, Shown, Stages
  <2>8. CASE Review(w)
    BY <2>2, <2>3, <2>8 DEF Inv, FlowOK, Shown, Summary, Review, In, Stages
  <2>9. CASE EditFields(w)
    BY <2>2, <2>3, <2>9 DEF Inv, FlowOK, Shown, Summary, EditFields, In, Stages
  <2> QED
    BY <1>2, <2>4, <2>5, <2>6, <2>7, <2>8, <2>9 DEF Author
<1> QED
  BY <1>1, <1>2

LEMMA InitInv == InitAll => Inv
  BY InitStores DEF InitAll, Inv, FlowOK, Shown

LEMMA NextInv == Inv /\ [Next]_all => Inv'
<1> SUFFICES ASSUME Inv, [Next]_all PROVE Inv'
  OBVIOUS
<1>1. ASSUME NEW w \in Workers, Author(w) PROVE Inv'
  BY <1>1, AuthorKeeps
<1>2. ASSUME NEW w \in Workers, Fill(w) PROVE Inv'
  <2>1. StoreInv' /\ store' = store /\ shown' = shown
    BY <1>2, FillKeeps DEF Fill, FillFile, Inv
  <2>2. store' = "skill" => flow' = None
    BY <1>2, <2>1 DEF Fill
  <2>3. flow' = flow \/ flow' = None
    BY <1>2 DEF Fill
  <2> QED
    BY <2>1, <2>2, <2>3 DEF Inv, FlowOK, Shown
<1>3. ASSUME NEW w \in Workers, Operate(w) \/ Work(w) \/ Crash(w), UNCHANGED <<flow, shown, flows>>
      PROVE  Inv'
  <2>1. StoreInv'
    BY <1>3, OperateKeeps, RefreshKeeps, WriteKeeps, ReadKeeps, OpenKeeps, PersistKeeps,
       CrashKeeps DEF Work, Inv
  <2>2. store' = store
    BY <1>3 DEF Operate, Work, Save, Delete, SetConfig, ResetConfig, Starts, Refresh, WriteStore,
                ReadFile, OpenFile, PersistConfig, Crash
  <2> QED
    BY <1>3, <2>1, <2>2 DEF Inv, FlowOK, Shown, Summary
<1>4. ASSUME Tick, UNCHANGED <<flow, shown, flows>> PROVE Inv'
  <2>1. StoreInv' /\ store' = store
    BY <1>4, TickKeeps DEF Tick, Inv
  <2> QED
    BY <1>4, <2>1 DEF Inv, FlowOK, Shown, Summary
<1>5. ASSUME UNCHANGED all PROVE Inv'
  <2>1. StoreInv' /\ store' = store
    BY <1>5, StayKeeps DEF all, vars, Inv
  <2> QED
    BY <1>5, <2>1 DEF all, Inv, FlowOK, Shown, Summary
<1> QED
  BY <1>1, <1>2, <1>3, <1>4, <1>5 DEF Next

\* Whatever may be interrupted, the copies agree as the property says.
LEMMA InvAgree == Inv => StoresAgree
<1> SUFFICES ASSUME Inv PROVE StoresAgree
  OBVIOUS
<1>1. ~TwoMishaps => failure \in {"none", "file_fails"} \/ (~Filling /\ crashes = 0)
  BY DEF TwoMishaps, Filling, Inv, StoreInv, TypeOK
<1>2. ASSUME Serial, store \in Filed, ~TwoMishaps, NEW k \in Keys
      PROVE  Loaded[k] \in Possible(k)
  <2>1. CASE failure \in {"set_fails", "delete_fails"}
    BY <1>1, <1>2, <2>1 DEF Inv, StoreInv, Unstored
  <2>2. CASE failure \notin {"set_fails", "delete_fails"}
    <3>1. Merge(kv, Nothing)[k] \in Possible(k) /\ (file[k] # None => file[k] \in Possible(k))
      BY <1>2, <2>2 DEF Inv, StoreInv, Undamaged, CopiesExplained
    <3> QED
      BY <3>1, MergeExplained DEF Loaded
  <2> QED
    BY <2>1, <2>2
<1>3. LoadIsExplained
  BY <1>2 DEF LoadIsExplained
<1>4. AckedIsServed
  <2> SUFFICES ASSUME Serial, store \in Filed, ~TwoMishaps,
                      failure \in {"none", "file_fails"} \/ store \in Live,
                      NEW k \in Keys, by[k] # None
               PROVE  Serves(by[k], k) \in Possible(k)
    BY DEF AckedIsServed
  <2>1. CASE store \in Live \/ age[by[k]] < TTL
    <3>1. view[by[k]][k] \in Possible(k)
      BY <2>1, <1>1 DEF Inv, StoreInv, Served
    <3> QED
      BY <2>1, <3>1 DEF Serves, Filed
  <2>2. CASE ~(store \in Live \/ age[by[k]] < TTL)
    BY <2>2, <1>2 DEF Serves, Filed, Cache, Loaded
  <2> QED
    BY <2>1, <2>2
<1>5. Converged
  BY DEF Converged, Filling, Inv, StoreInv, Settled
<1> QED
  BY <1>3, <1>4, <1>5 DEF StoresAgree

\* What load_custom_skills, load_custom_workflows, _load and get_seasons find is the last
\* acknowledged change of a key, one that was cut short, or what a store or a file that failed
\* to take that change still holds of the key;
\* the worker that acknowledged it serves it; and caches converge, whatever the changes of
\* the operators, the failures of the store and the workers that die.
THEOREM StoresAreExplained == Spec => []StoresAgree
  BY InitInv, NextInv, InvAgree, PTL DEF Spec

\* A step of _finish_create_skill saves what was summarised last, under a free name.
LEMMA NextLearns ==
  Inv /\ [Next]_all =>
    \A w \in Workers : (store = "skill" /\ change'[w] # change[w] /\ change[w] = None) =>
      change'[w].content = shown /\ view[w][change'[w].key] = None
<1> SUFFICES ASSUME Inv, [Next]_all, NEW x \in Workers, store = "skill",
                    change'[x] # change[x], change[x] = None
             PROVE  change'[x].content = shown /\ view[x][change'[x].key] = None
  OBVIOUS
<1> USE DEF Inv, StoreInv
<1>1. ASSUME NEW w \in Workers, Create(w)
      PROVE  change'[x].content = shown /\ view[x][change'[x].key] = None
  <2>1. PICK k \in Keys : k = Slug(w)
    BY <1>1, CreateIsOfTheShown
  <2>2. view[w][k] = None /\ Starts(w, k, shown, "set", "store", Nothing)
    BY <1>1, <2>1, CreateIsOfTheShown
  <2>3. x = w
    BY <2>2 DEF Starts, TypeOK
  <2>4. change'[w] = [key |-> k, content |-> shown, op |-> "set", at |-> "store", copy |-> Nothing]
    BY <2>2 DEF Starts, TypeOK
  <2> QED
    BY <2>2, <2>3, <2>4
<1>2. ASSUME NEW w \in Workers, Author(w), ~Create(w) PROVE FALSE
  BY <1>2 DEF Author, StartFlow, Purpose, Keywords, PickTool, Review, EditFields, Leave, vars
<1>3. ASSUME NEW w \in Workers, Operate(w) PROVE FALSE
  BY <1>3 DEF Operate, Delete, SetConfig, ResetConfig
<1>4. ASSUME NEW w \in Workers, Ended(w) PROVE FALSE
  BY <1>4 DEF Ended
<1>5. ASSUME NEW w \in Workers, Refresh(w) \/ WriteStore(w) \/ ReadFile(w) \/ OpenFile(w)
      PROVE  FALSE
  BY <1>5 DEF Refresh, WriteStore, ReadFile, OpenFile, TypeOK
<1>6. ASSUME NEW w \in Workers, Fill(w) \/ PersistConfig(w) \/ Crash(w) PROVE FALSE
  BY <1>4, <1>6, EndedIs DEF Fill, FillFile, PersistConfig, Crash
<1>7. ASSUME Tick PROVE FALSE
  BY <1>7 DEF Tick
<1> QED
  BY <1>1, <1>2, <1>3, <1>5, <1>6, <1>7 DEF Next, Work, all, vars

\* However often fields were edited or workers died in between, what the create_skill flow
\* saves is the skill its user last saw summarised, under a name that was free.
THEOREM SkillIsAsShown == Spec => LearnsWhatWasShown
<1>1. Inv /\ [Next]_all =>
        [\A w \in Workers : (store = "skill" /\ change'[w] # change[w] /\ change[w] = None) =>
           change'[w].content = shown /\ view[w][change'[w].key] = None]_all
  BY NextLearns
<1> QED
  BY <1>1, InitInv, NextInv, PTL DEF Spec, LearnsWhatWasShown


-----------------------------------------------------------------------------
(* Background tasks, whose documents are shared as the stores are.  With a *)
(* store that can be trusted and any number of workers, no worker that     *)
(* takes requests has an orphan, and a runner that ended has left a final  *)
(* status.  The argument is TasksSwept: an unfinished task without a       *)
(* runner belongs to a worker that is down, or that has its key still to   *)
(* look at.  With ONE worker, whatever the store does, an interrupted task *)
(* has no runner, and a final status changes only when a success whose     *)
(* report raised is taken back: while the only worker reconciles, nothing  *)
(* runs (TasksQuiet).                                                      *)

\* A task has an owner once it is stored; only a worker that is up has runners.
TasksOwned ==
  \A t \in Tasks :
    /\ stage[t] = "none" <=> status[t] = Absent
    /\ stage[t] # "none" => owner[t] \in Processes
    /\ stage[t] \in Alive => up[owner[t]] = "up"

\* A runner that is writing has read a document, and its last write is a final one.
TaskDocs ==
  \A t \in Tasks :
    /\ stage[t] \in Writing => doc[t] # Absent
    /\ stage[t] \in {"finishing", "closing"} => doc[t] \in Terminal

\* Only a starting worker is about to mark a task, and the task is stored.
TaskMarking ==
  \A w \in Processes : held[w] # Absent => up[w] = "starting" /\ status[held[w]] # Absent

\* An unfinished task without a runner is still to be looked at.
TasksSwept ==
  \A t \in Tasks :
    status[t] \in Active /\ stage[t] = "dead" =>
      \/ up[owner[t]] = "down"
      \/ up[owner[t]] = "starting" /\ (t \in scan[owner[t]] \/ held[owner[t]] = t)

TasksInv == TasksTypeOK /\ TasksOwned /\ TaskDocs /\ TaskMarking /\ EndIsRecorded /\ TasksSwept

\* The assumption of the first results.
Trusted == Faults = {}

\* Nothing is stored and no worker runs.
LEMMA InitTasks == TasksInit => TasksInv
  BY TasksAssumption DEF TasksInit, TasksInv, TasksTypeOK, TasksOwned, TaskDocs, TaskMarking,
     EndIsRecorded, TasksSwept, Alive, Writing, Active, Terminal

\* Every step keeps the invariant when reads, writes and key scans do what they say.
LEMMA NextTasks == Trusted /\ TasksInv /\ [TasksNext]_taskVars => TasksInv'
<1> SUFFICES ASSUME Trusted, TasksInv, [TasksNext]_taskVars PROVE TasksInv'
  OBVIOUS
<1> USE TasksAssumption DEF Trusted, Active, Terminal, Alive, Writing, workers, runners, TasksInv,
        TasksTypeOK, TasksOwned, TaskDocs, TaskMarking, EndIsRecorded, TasksSwept
<1>1. \A t \in Tasks : Reads(t) = {status[t]}
  BY DEF Reads
<1>2. ASSUME NEW w \in Processes, NEW t \in Tasks, Start(w, t) PROVE TasksInv'
  BY <1>2 DEF Start
<1>3. ASSUME NEW t \in Tasks, Begin(t) PROVE TasksInv'
  BY <1>3, <1>1 DEF Begin, Update
<1>4. ASSUME NEW t \in Tasks, Report(t) PROVE TasksInv'
  BY <1>4, <1>1 DEF Report, Update
<1>5. ASSUME NEW t \in Tasks, Finish(t) PROVE TasksInv'
  BY <1>5, <1>1 DEF Finish, Update
<1>6. ASSUME NEW t \in Tasks, Raise(t) PROVE TasksInv'
  BY <1>6 DEF Raise
<1>7. ASSUME NEW t \in Tasks, Fail(t) PROVE TasksInv'
  BY <1>7, <1>1 DEF Fail, Update
<1>8. ASSUME NEW t \in Tasks, Write(t) PROVE TasksInv'
  BY <1>8 DEF Write
<1>9. ASSUME NEW t \in Tasks, WriteFails(t) PROVE TasksInv'
  BY <1>9 DEF WriteFails
<1>10. ASSUME NEW w \in Processes, Restart(w) PROVE TasksInv'
  BY <1>10 DEF Restart
<1>11. ASSUME NEW w \in Processes, Inspect(w) PROVE TasksInv'
  BY <1>11, <1>1 DEF Inspect
<1>12. ASSUME NEW w \in Processes, Interrupt(w) PROVE TasksInv'
  BY <1>12 DEF Interrupt
<1>13. ASSUME NEW w \in Processes, InterruptFails(w) PROVE TasksInv'
  BY <1>13 DEF InterruptFails
<1>14. ASSUME NEW w \in Processes, Ready(w) PROVE TasksInv'
  BY <1>14 DEF Ready
<1>15. ASSUME NEW w \in Processes, Die(w) PROVE TasksInv'
  BY <1>15 DEF Die
<1>16. ASSUME NEW w \in Processes, NEW t \in Tasks, StartFails(w, t) PROVE TasksInv'
  BY <1>16 DEF StartFails
<1>17. CASE UNCHANGED taskVars
  BY <1>17 DEF taskVars
<1> QED
  BY <1>2, <1>3, <1>4, <1>5, <1>6, <1>7, <1>8, <1>9, <1>10, <1>11, <1>12, <1>13, <1>14, <1>15,
     <1>16, <1>17 DEF TasksNext, Runner, Reconcile

\* The inductive invariant of the first results holds in every behaviour.
LEMMA TasksHold ==
  ASSUME Trusted
  PROVE  TasksSpec => []TasksInv
  BY InitTasks, NextTasks, PTL DEF TasksSpec

\* reconcile_interrupted leaves a worker that takes requests without an orphan: each of
\* its queued or running tasks has its runner, however the workers interleave.
THEOREM WorkersHaveNoOrphans ==
  ASSUME Trusted
  PROVE  TasksSpec => []NoOrphans
<1>1. TasksInv => NoOrphans
  BY TasksAssumption DEF TasksInv, TasksOwned, EndIsRecorded, TasksSwept, NoOrphans, TasksTypeOK,
     Alive, Writing, Active, Terminal
<1> QED
  BY <1>1, TasksHold, PTL

\* run_background_task never ends with a task that a poll would wait for.
THEOREM RunnersEndOnRecord ==
  ASSUME Trusted
  PROVE  TasksSpec => []EndIsRecorded
<1>1. TasksInv => EndIsRecorded
  BY DEF TasksInv
<1> QED
  BY <1>1, TasksHold, PTL

-----------------------------------------------------------------------------
(* One worker.                                                             *)

\* Without the worker up nothing runs, and only a starting worker marks tasks.
TasksQuiet ==
  \A w \in Processes :
    /\ up[w] # "up" => \A t \in Tasks : stage[t] \notin Alive
    /\ held[w] # Absent => up[w] = "starting" /\ status[held[w]] \in Active

\* A runner at work has an unfinished task, unless its report was stored and raised; it
\* has nothing but a result to store, and after a failure nothing but that.
TasksAtWork ==
  \A t \in Tasks :
    /\ stage[t] \in Alive \ {"failing", "closing"} => status[t] \in Active
    /\ stage[t] \in {"failing", "closing"} => status[t] \in Active \cup {"succeeded", "failed"}
    /\ stage[t] = "closing" => doc[t] = "failed"
    /\ stage[t] = "finishing" => doc[t] \in {"succeeded", "failed"}
    /\ stage[t] \in {"begun", "reporting"} => doc[t] \in Active

\* A runner's owner is a worker, and a task that is stored was started.
TasksStarted ==
  \A t \in Tasks :
    /\ stage[t] \in Alive => owner[t] \in Processes
    /\ stage[t] = "none" => status[t] = Absent

SoloInv == TasksTypeOK /\ TasksQuiet /\ TasksAtWork /\ TasksStarted

\* The assumption of the second results.
Solo == \A w, x \in Processes : w = x

\* Nothing is stored and the worker is down.
LEMMA InitSolo == TasksInit => SoloInv
  BY TasksAssumption DEF TasksInit, SoloInv, TasksTypeOK, TasksQuiet, TasksAtWork, TasksStarted,
     Alive, Writing, Active, Terminal

\* What a step of the only worker does to the final statuses.
TakesBackOnly ==
  \A t \in Tasks :
    status[t] \in Terminal /\ status'[t] # status[t] =>
      /\ status[t] = "succeeded" /\ status'[t] = "failed"
      /\ stage[t] = "closing" /\ stage'[t] = "ended"

\* Every step of the only worker keeps the invariant, and changes no final status but that
\* of a success whose report raised.
LEMMA NextSolo ==
  Solo /\ SoloInv /\ [TasksNext]_taskVars =>
    SoloInv' /\ TakesBackOnly
<1> SUFFICES ASSUME Solo, SoloInv, [TasksNext]_taskVars PROVE SoloInv' /\ TakesBackOnly
  OBVIOUS
<1> USE TasksAssumption DEF Solo, Active, Terminal, Alive, Writing, workers, runners, SoloInv,
        TasksTypeOK, TasksQuiet, TasksAtWork, TasksStarted, TakesBackOnly
<1>1. \A t \in Tasks : Reads(t) \subseteq {status[t], Absent}
  BY DEF Reads
<1>2. ASSUME NEW w \in Processes, NEW t \in Tasks, Start(w, t) PROVE SoloInv' /\ TakesBackOnly
  BY <1>2 DEF Start
<1>3. ASSUME NEW t \in Tasks, Begin(t) PROVE SoloInv' /\ TakesBackOnly
  BY <1>3, <1>1 DEF Begin, Update
<1>4. ASSUME NEW t \in Tasks, Report(t) PROVE SoloInv' /\ TakesBackOnly
  BY <1>4, <1>1 DEF Report, Update
<1>5. ASSUME NEW t \in Tasks, Finish(t) PROVE SoloInv' /\ TakesBackOnly
  BY <1>5, <1>1 DEF Finish, Update
<1>6. ASSUME NEW t \in Tasks, Raise(t) PROVE SoloInv' /\ TakesBackOnly
  BY <1>6 DEF Raise
<1>7. ASSUME NEW t \in Tasks, Fail(t) PROVE SoloInv' /\ TakesBackOnly
  BY <1>7, <1>1 DEF Fail, Update
<1>8. ASSUME NEW t \in Tasks, Write(t) PROVE SoloInv' /\ TakesBackOnly
  BY <1>8 DEF Write
<1>9. ASSUME NEW t \in Tasks, WriteFails(t) PROVE SoloInv' /\ TakesBackOnly
  BY <1>9 DEF WriteFails
<1>10. ASSUME NEW w \in Processes, Restart(w) PROVE SoloInv' /\ TakesBackOnly
  BY <1>10 DEF Restart
<1>11. ASSUME NEW w \in Processes, Inspect(w) PROVE SoloInv' /\ TakesBackOnly
  BY <1>11, <1>1 DEF Inspect
<1>12. ASSUME NEW w \in Processes, Interrupt(w) PROVE SoloInv' /\ TakesBackOnly
  BY <1>12 DEF Interrupt
<1>13. ASSUME NEW w \in Processes, InterruptFails(w) PROVE SoloInv' /\ TakesBackOnly
  BY <1>13 DEF InterruptFails
<1>14. ASSUME NEW w \in Processes, Ready(w) PROVE SoloInv' /\ TakesBackOnly
  BY <1>14 DEF Ready
<1>15. ASSUME NEW w \in Processes, Die(w) PROVE SoloInv' /\ TakesBackOnly
  BY <1>15 DEF Die
<1>16. ASSUME NEW w \in Processes, NEW t \in Tasks, StartFails(w, t) PROVE SoloInv' /\ TakesBackOnly
  BY <1>16 DEF StartFails
<1>17. CASE UNCHANGED taskVars
  BY <1>17 DEF taskVars
<1> QED
  BY <1>2, <1>3, <1>4, <1>5, <1>6, <1>7, <1>8, <1>9, <1>10, <1>11, <1>12, <1>13, <1>14, <1>15,
     <1>16, <1>17 DEF TasksNext, Runner, Reconcile

\* With one worker process an interrupted task has no runner, even with a store that
\* fails reads, writes and key scans.
THEOREM SoloInterruptsTheDead ==
  ASSUME Solo
  PROVE  TasksSpec => []InterruptedIsDead
<1>1. SoloInv => InterruptedIsDead
  BY DEF SoloInv, TasksAtWork, InterruptedIsDead, Active, Alive, Writing
<1> QED
  BY <1>1, InitSolo, NextSolo, PTL DEF TasksSpec

\* With one worker process, whatever its store fails (and makes of a write that raises), no
\* step changes a final status but the failure report of a runner whose success report
\* raised after it was stored (run_background_task's except clause).
THEOREM SoloTakesBackOnlySuccess ==
  ASSUME Solo
  PROVE  TasksSpec => OnlySuccessIsTakenBack
<1>1. SoloInv /\ [TasksNext]_taskVars =>
        [\A t \in Tasks :
           status[t] \in Terminal /\ status'[t] # status[t] =>
             /\ status[t] = "succeeded" /\ status'[t] = "failed"
             /\ stage[t] = "closing" /\ stage'[t] = "ended"]_taskVars
  BY NextSolo DEF TakesBackOnly
<1>2. SoloInv /\ [TasksNext]_taskVars => SoloInv'
  BY NextSolo
<1> QED
  BY <1>1, <1>2, InitSolo, PTL DEF TasksSpec, OnlySuccessIsTakenBack
=============================================================================
