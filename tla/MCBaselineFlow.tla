---------------------------- MODULE MCBaselineFlow ----------------------------
(***************************************************************************)
(* An instance of Formulation for TLC.                                     *)
(***************************************************************************)
EXTENDS Formulation, TLC

CONSTANTS g1, g2, o1, o2, y1, v1, d1, d2, p1, p3

\* Each fund group has an office, and the request type its vehicle.
MCFundOf == (o1 :> g1) @@ (o2 :> g2)
MCTypeOf == v1 :> y1

\* A single fund group: the step that picks it without asking.
MCOneFund == (o1 :> g1) @@ (o2 :> g1)

\* Application p2 has no distribution group of its own.
MCAppOf == (d1 :> p1) @@ (d2 :> p3)
====
