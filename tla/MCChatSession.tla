---------------------------- MODULE MCChatSession ----------------------------
(* Instances of ChatSession for TLC. *)
EXTENDS ChatSession, TLC

\* Requests and identifiers are interchangeable: no action compares or orders them.
Symmetry == Permutations(Requests) \cup Permutations(Actions)
====
