-------------------------- MODULE MCSkillAuthoring --------------------------
(***************************************************************************)
(* An instance of SkillAuthoring, which extends OverrideStore, for TLC.    *)
(***************************************************************************)
EXTENDS SkillAuthoring

CONSTANTS k1, k2, t1, t2, f1, c1, c2

MCShipped == [k \in {k1, k2} |-> IF k = k1 THEN c1 ELSE None]
MCNames == <<k1, k2>>
MCRequired == [t \in {t1, t2} |-> IF t = t1 THEN {f1} ELSE {}]
=============================================================================
