--------------------------- MODULE MCUserOnboarding ---------------------------
(***************************************************************************)
(* An instance of UserFlows for TLC.                                       *)
(***************************************************************************)
EXTENDS UserFlows, TLC

CONSTANTS p1, n1, n2

\* Two names with one code; the platform protects one role of the first application, and
\* one application is disabled.
MCCodeOf == (n1 :> n1) @@ (n2 :> n1)
MCSeeded == {<<p1, n1>>}
MCDisabled == {[code |-> n1, order |-> 1]}

\* User names are only compared for equality.
Symmetry == Permutations(Users)
====
