------------------------------ MODULE Transcript ------------------------------
(***************************************************************************)
(* The messages of a session and the part of them the model is given       *)
(* (models/session.py).  A message is its role, the ids of the calls it    *)
(* makes or of the one it answers, and the length of its content.          *)
(***************************************************************************)
EXTENDS Naturals, Integers, Sequences, SequencesExt, FiniteSetsExt

CONSTANT Budget    \* MAX_HISTORY_CHARS; 0: no limit

ASSUME BudgetAssumption == Budget \in Nat

User(n)          == [role |-> "user", ids |-> <<>>, size |-> n]
Nudge            == [role |-> "user", ids |-> <<>>, size |-> 0]
Assistant(ids)   == [role |-> "assistant", ids |-> ids, size |-> IF ids = <<>> THEN 1 ELSE 0]
ToolResult(id, n) == [role |-> "tool", ids |-> <<id>>, size |-> n]

SizeFrom(msgs, i) == FoldLeft(LAMBDA n, m : n + m.size, 0, SubSeq(msgs, i, Len(msgs)))

\* Where the newest messages that fit begin; behind the last one when it does not.
Fitting(msgs) ==
  IF Budget = 0 \/ Len(msgs) <= 1 THEN 1
  ELSE Min({i \in 1 .. Len(msgs) : SizeFrom(msgs, i) <= Budget} \cup {Len(msgs) + 1})

UsersFrom(msgs, i) == {j \in i .. Len(msgs) : msgs[j].role = "user"}

\* _windowed_messages: from the first user turn that fits; without one, all that fits.
WindowStart(msgs) ==
  LET i == Fitting(msgs)
  IN IF Budget = 0 \/ Len(msgs) <= 1 \/ UsersFrom(msgs, i) = {} THEN i
     ELSE Min(UsersFrom(msgs, i))

\* The calls of a session and the results, with their places.
Calls(msgs) ==
  UNION {{[at |-> i, id |-> msgs[i].ids[k]] : k \in 1 .. Len(msgs[i].ids)} :
           i \in {j \in 1 .. Len(msgs) : msgs[j].role = "assistant"}}
Results(msgs) ==
  {[at |-> i, id |-> msgs[i].ids[1]] : i \in {j \in 1 .. Len(msgs) : msgs[j].role = "tool"}}
=============================================================================
