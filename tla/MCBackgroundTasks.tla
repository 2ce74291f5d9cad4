--------------------------- MODULE MCBackgroundTasks ---------------------------
(***************************************************************************)
(* Instances of BackgroundTasks for TLC.  A behaviour is one of two: of    *)
(* the Processes, whose store answers, or of a single one whose store may  *)
(* fail in every way.                                                      *)
(***************************************************************************)
EXTENDS BackgroundTasks

CONSTANTS w1, t1, t2

VARIABLES
  which,  \* "workers" or "solo": what this behaviour is of
  soloUp, soloScan, soloHeld, soloEnds,
  soloStatus, soloOwner, soloStage, soloDoc, soloLeft

Solo == INSTANCE BackgroundTasks WITH
  Processes <- {w1}, Tasks <- {t1, t2}, ChainLength <- 1, MaxEnds <- 2,
  Faults <- {"read_fails", "write_fails", "keys_capped"},
  up <- soloUp, scan <- soloScan, held <- soloHeld, ends <- soloEnds,
  status <- soloStatus, owner <- soloOwner, stage <- soloStage, doc <- soloDoc, left <- soloLeft

soloVars == <<soloUp, soloScan, soloHeld, soloEnds,
              soloStatus, soloOwner, soloStage, soloDoc, soloLeft>>
bothVars == <<which, taskVars, soloVars>>

BothInit == which \in {"workers", "solo"} /\ TasksInit /\ Solo!TasksInit

OfWorkers == which = "workers" /\ UNCHANGED <<which, soloVars>>
OfSolo    == which = "solo"    /\ UNCHANGED <<which, taskVars>>

BothNext ==
  \/ TasksNext      /\ OfWorkers
  \/ Solo!TasksNext /\ OfSolo

BothFairSpec ==
  /\ BothInit /\ [][BothNext]_bothVars
  /\ \A t \in Tasks : WF_bothVars(Runner(t) /\ OfWorkers)
  /\ \A w \in Processes : WF_bothVars(Reconcile(w) /\ OfWorkers)

\* reconcile_interrupted and the runner's updates: with one worker, whatever its store fails,
\* an interrupted task's runner is dead, and no final status changes but for the success of
\* a runner that did not learn that its report was stored.
SoloMarksTheDead == []Solo!InterruptedIsDead /\ Solo!OnlySuccessIsTakenBack
====
