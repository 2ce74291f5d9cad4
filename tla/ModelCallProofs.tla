---------------------------- MODULE ModelCallProofs ----------------------------
(***************************************************************************)
(* What the model is offered and given, and what of its calls runs and is  *)
(* kept, for any tools, listings, maps of modules, limits and numbers of   *)
(* messages, and any changes to the catalogue.                             *)
(*                                                                         *)
(* The argument: the model is called with the tools chosen in the same     *)
(* step (Chosen); what it was given stays listed while its listing holds,  *)
(* so that the calls that ran were looked up in it (Looked); the turn's    *)
(* message stays where it was put (Placed); and every addition to a        *)
(* session brings the results of the calls it makes, or the card of the    *)
(* one that waits (Pairs).                                                 *)
(***************************************************************************)
EXTENDS ModelCall, WellFoundedInduction, TLAPS

-----------------------------------------------------------------------------
(* The invariant.                                                          *)

Id      == Nat \X (Nat \cup Tools)
Message == [role : {"user", "assistant", "tool"}, ids : Seq(Id), size : Nat]
Card    == [id : Id, tool : Tools, call : Id]
Session == [msgs : Seq(Message), cards : SUBSET Card, current : BOOLEAN]
Ran     == [tool : Tools, size : Nat, gate : BOOLEAN]

Shape ==
  /\ session \in Session /\ saved \in Session
  /\ stage \in {"idle", "tools", "listing", "model", "calls"} /\ path \in {"sync", "stream"}
  /\ calls \in Seq(Tools) /\ done \in Seq(Ran)
  /\ gated = <<>> \/ \E t \in Tools : gated = <<t>>
  /\ gating \in BOOLEAN

\* When the model is called, with what was chosen; nothing is kept of it for the calls.
Chosen ==
  /\ OwnToolsOffered
  /\ stage = "calls" => wanted = {}

\* The listing the model was given tools from is the one the gate still looks at, and
\* nothing has run before the model is called.
Looked ==
  /\ GivenWritesWait
  /\ given # {} => fresh
  /\ given \subseteq cache \cap Risky
  /\ stage \in {"idle", "tools", "listing"} => done = <<>>

\* The turn's message is where it was put.
Placed == ~Idle => asked \in 1 .. Len(session.msgs) /\ session.msgs[asked].role = "user"

\* The message at i makes, or answers, the call id.
Makes(msgs, i, id) ==
  /\ i \in 1 .. Len(msgs) /\ msgs[i].role = "assistant"
  /\ \E k \in 1 .. Len(msgs[i].ids) : msgs[i].ids[k] = id
Gives(msgs, i, id) ==
  i \in 1 .. Len(msgs) /\ msgs[i].role = "tool" /\ msgs[i].ids[1] = id

\* The results of a session follow their calls, and its calls are answered, open or settled.
ResultsFollow(msgs) ==
  \A j \in Nat : \A id : Gives(msgs, j, id) =>
    id[2] = 0 \/ \E i \in Nat : i < j /\ Makes(msgs, i, id)
CallsEnd(msgs, cards, gone) ==
  \A i \in Nat : \A id : Makes(msgs, i, id) =>
    \/ \E j \in Nat : i < j /\ Gives(msgs, j, id)
    \/ \E c \in cards : c.call = id
    \/ id \in gone
CardsCalled(msgs, cards) ==
  \A c \in cards : /\ c.id = c.call \/ c.id[2] = 0
                   /\ \E i \in Nat : Makes(msgs, i, c.call)

Paired(msgs, cards, gone) ==
  ResultsFollow(msgs) /\ CallsEnd(msgs, cards, gone) /\ CardsCalled(msgs, cards)
Pairs(s) == Paired(s.msgs, s.cards, settled)

Inv == /\ Shape /\ FreshIsListed /\ Chosen /\ Looked /\ Placed
       /\ Pairs(session) /\ Pairs(saved)

-----------------------------------------------------------------------------
(* Sets of numbers and sequences of messages.                              *)

\* A set of natural numbers that is not empty has a least member.
LEMMA MinIsLeast ==
  ASSUME NEW S \in SUBSET Nat, S # {}
  PROVE  Min(S) \in S /\ \A y \in S : Min(S) <= y
<1>1. IsWellFoundedOn(OpToRel(<, Nat), Nat)
  BY NatLessThanWellFounded
<1>2. PICK x \in S : \A y \in S : <<y, x>> \notin OpToRel(<, Nat)
  BY <1>1, WFMin
<1>3. \A y \in S : x <= y
  <2> TAKE y \in S
  <2>1. ~ (y < x)
    BY <1>2 DEF OpToRel
  <2> QED
    BY <2>1
<1> QED
  BY <1>3 DEF Min

\* A message of m followed by n is one of m or one of n.
LEMMA Followed ==
  ASSUME NEW m \in Seq(Message), NEW n \in Seq(Message)
  PROVE  /\ Len(m) \in Nat /\ Len(n) \in Nat
         /\ m \o n \in Seq(Message) /\ Len(m \o n) = Len(m) + Len(n)
         /\ \A i \in 1 .. Len(m) : (m \o n)[i] = m[i]
         /\ \A i \in 1 .. Len(n) : (m \o n)[Len(m) + i] = n[i]
OBVIOUS

\* The calls and results of m followed by n are those of both.
LEMMA BothMake ==
  ASSUME NEW m \in Seq(Message), NEW n \in Seq(Message)
  PROVE  \A i, id : /\ Makes(m, i, id) => Makes(m \o n, i, id)
                    /\ Gives(m, i, id) => Gives(m \o n, i, id)
                    /\ Makes(n, i, id) => Makes(m \o n, Len(m) + i, id)
                    /\ Gives(n, i, id) => Gives(m \o n, Len(m) + i, id)
<1> SUFFICES ASSUME NEW i, NEW id
             PROVE  /\ Makes(m, i, id) => Makes(m \o n, i, id)
                    /\ Gives(m, i, id) => Gives(m \o n, i, id)
                    /\ Makes(n, i, id) => Makes(m \o n, Len(m) + i, id)
                    /\ Gives(n, i, id) => Gives(m \o n, Len(m) + i, id)
  OBVIOUS
<1> DEFINE mn == m \o n
<1>1. /\ Len(m) \in Nat /\ Len(n) \in Nat /\ Len(mn) = Len(m) + Len(n)
      /\ \A j \in 1 .. Len(m) : mn[j] = m[j]
      /\ \A j \in 1 .. Len(n) : mn[Len(m) + j] = n[j]
  BY Followed
<1> HIDE DEF mn
<1>2. i \in 1 .. Len(m) => i \in 1 .. Len(mn) /\ mn[i] = m[i]
  BY <1>1
<1>3. i \in 1 .. Len(n) => Len(m) + i \in 1 .. Len(mn) /\ mn[Len(m) + i] = n[i]
  BY <1>1
<1>4. /\ Makes(m, i, id) => Makes(mn, i, id)
      /\ Gives(m, i, id) => Gives(mn, i, id)
  BY <1>2 DEF Makes, Gives
<1>5. /\ Makes(n, i, id) => Makes(mn, Len(m) + i, id)
      /\ Gives(n, i, id) => Gives(mn, Len(m) + i, id)
  BY <1>3 DEF Makes, Gives
<1> QED
  BY <1>4, <1>5 DEF mn

\* There are no others.
LEMMA NoneElseMakes ==
  ASSUME NEW m \in Seq(Message), NEW n \in Seq(Message), NEW i \in Nat, NEW id
  PROVE  /\ Makes(m \o n, i, id) => \/ Makes(m, i, id)
                                    \/ \E j \in Nat : i = Len(m) + j /\ Makes(n, j, id)
         /\ Gives(m \o n, i, id) => \/ Gives(m, i, id)
                                    \/ \E j \in Nat : i = Len(m) + j /\ Gives(n, j, id)
<1> DEFINE mn == m \o n
<1>1. /\ Len(m) \in Nat /\ Len(n) \in Nat /\ Len(mn) = Len(m) + Len(n)
      /\ \A j \in 1 .. Len(m) : mn[j] = m[j]
      /\ \A j \in 1 .. Len(n) : mn[Len(m) + j] = n[j]
  BY Followed
<1> HIDE DEF mn
<1>2. CASE i \in 1 .. Len(m)
  BY <1>1, <1>2 DEF Makes, Gives, mn
<1>3. CASE i \in Len(m) + 1 .. Len(m) + Len(n)
  <2> DEFINE j == i - Len(m)
  <2>1. j \in 1 .. Len(n) /\ j \in Nat /\ i = Len(m) + j /\ mn[i] = n[j]
    BY <1>1, <1>3
  <2> HIDE DEF j
  <2>2. Makes(mn, i, id) => Makes(n, j, id)
    BY <2>1 DEF Makes
  <2>3. Gives(mn, i, id) => Gives(n, j, id)
    BY <2>1 DEF Gives
  <2> QED
    BY <2>1, <2>2, <2>3 DEF mn
<1>4. CASE i \notin 1 .. Len(mn)
  BY <1>4 DEF Makes, Gives, mn
<1> QED
  BY <1>1, <1>2, <1>3, <1>4

\* Where the calls and the results of a session are.
LEMMA CallsAndResultsAre ==
  ASSUME NEW m \in Seq(Message)
  PROVE  /\ \A c \in Calls(m) : c.at \in Nat /\ c.id \in Id /\ Makes(m, c.at, c.id)
         /\ \A i \in Nat : \A id : Makes(m, i, id) => [at |-> i, id |-> id] \in Calls(m)
         /\ \A r \in Results(m) : r.at \in 1 .. Len(m) /\ Gives(m, r.at, r.id) /\ r.id = m[r.at].ids[1]
         /\ \A j \in Nat : \A id : Gives(m, j, id) => [at |-> j, id |-> id] \in Results(m)
<1>1. ASSUME NEW c \in Calls(m)
      PROVE  c.at \in Nat /\ c.id \in Id /\ Makes(m, c.at, c.id)
  <2>1. PICK i \in {j \in 1 .. Len(m) : m[j].role = "assistant"} :
          c \in {[at |-> i, id |-> m[i].ids[k]] : k \in 1 .. Len(m[i].ids)}
    BY DEF Calls
  <2>2. PICK k \in 1 .. Len(m[i].ids) : c = [at |-> i, id |-> m[i].ids[k]]
    BY <2>1
  <2>3. m[i] \in Message
    BY <2>1
  <2>4. m[i].ids[k] \in Id
    BY <2>2, <2>3 DEF Message
  <2> QED
    BY <2>1, <2>2, <2>4 DEF Makes
<1>2. ASSUME NEW i \in Nat, NEW id, Makes(m, i, id)
      PROVE  [at |-> i, id |-> id] \in Calls(m)
  <2>1. PICK k \in 1 .. Len(m[i].ids) : m[i].ids[k] = id
    BY <1>2 DEF Makes
  <2>2. i \in {j \in 1 .. Len(m) : m[j].role = "assistant"}
    BY <1>2 DEF Makes
  <2>3. [at |-> i, id |-> id] \in {[at |-> i, id |-> m[i].ids[x]] : x \in 1 .. Len(m[i].ids)}
    BY <2>1
  <2> QED
    BY <2>2, <2>3 DEF Calls
<1>3. ASSUME NEW r \in Results(m)
      PROVE  r.at \in 1 .. Len(m) /\ Gives(m, r.at, r.id) /\ r.id = m[r.at].ids[1]
  BY DEF Results, Gives
<1>4. ASSUME NEW j \in Nat, NEW id, Gives(m, j, id)
      PROVE  [at |-> j, id |-> id] \in Results(m)
  BY <1>4 DEF Results, Gives
<1> QED
  BY <1>1, <1>2, <1>3, <1>4

-----------------------------------------------------------------------------
(* What is added to a session.                                             *)

\* The messages n, the cards new and the calls gone may follow m, cards and settled calls old.
Completes(n, new, gone, m, cards, old) ==
  /\ old \subseteq gone
  /\ \A j \in Nat : \A id : Gives(n, j, id) =>
       \/ id[2] = 0
       \/ \E i \in Nat : i < j /\ Makes(n, i, id)
       \/ \E i \in Nat : Makes(m, i, id)
  /\ \A i \in Nat : \A id : Makes(n, i, id) =>
       \/ \E j \in Nat : i < j /\ Gives(n, j, id)
       \/ \E c \in new : c.call = id
       \/ id \in gone
  /\ \A c \in cards : c \in new \/ c.call \in gone \/ \E j \in Nat : Gives(n, j, c.call)
  /\ \A c \in new : c \in cards \/ /\ c.id = c.call \/ c.id[2] = 0
                                   /\ \E i \in Nat : Makes(n, i, c.call)

\* What completes itself keeps calls and results in pairs.
LEMMA StayPaired ==
  ASSUME NEW m \in Seq(Message), NEW n \in Seq(Message), NEW cards, NEW new, NEW old, NEW gone,
         Paired(m, cards, old), Completes(n, new, gone, m, cards, old)
  PROVE  Paired(m \o n, new, gone)
<1> DEFINE mn == m \o n
           L == Len(m)
<1>0. L \in Nat
  BY Followed
<1>1. \A i \in Nat : \A id : Makes(m, i, id) => i \in 1 .. L /\ Makes(mn, i, id)
  BY BothMake DEF Makes
<1>2. \A j \in Nat : \A id : Gives(m, j, id) => j \in 1 .. L /\ Gives(mn, j, id)
  BY BothMake DEF Gives
<1>3. \A i \in Nat : \A id : Makes(n, i, id) => i \in 1 .. Len(n) /\ L + i \in Nat /\ Makes(mn, L + i, id)
  BY <1>0, BothMake DEF Makes
<1>4. \A j \in Nat : \A id : Gives(n, j, id) => j \in 1 .. Len(n) /\ L + j \in Nat /\ Gives(mn, L + j, id)
  BY <1>0, BothMake DEF Gives
<1>5. \A i \in Nat : \A id : Makes(mn, i, id) =>
        Makes(m, i, id) \/ \E k \in Nat : i = L + k /\ Makes(n, k, id)
  BY NoneElseMakes
<1>6. \A j \in Nat : \A id : Gives(mn, j, id) =>
        Gives(m, j, id) \/ \E k \in Nat : j = L + k /\ Gives(n, k, id)
  BY NoneElseMakes
<1>7. Len(n) \in Nat
  OBVIOUS
<1> HIDE DEF mn, L
<1>8. ResultsFollow(mn)
  <2> SUFFICES ASSUME NEW j \in Nat, NEW id, Gives(mn, j, id), id[2] # 0
               PROVE  \E i \in Nat : i < j /\ Makes(mn, i, id)
    BY DEF ResultsFollow
  <2>1. CASE Gives(m, j, id)
    <3>1. PICK i \in Nat : i < j /\ Makes(m, i, id)
      BY <2>1 DEF Paired, ResultsFollow
    <3> QED
      BY <3>1, <1>1
  <2>2. CASE \E k \in Nat : j = L + k /\ Gives(n, k, id)
    <3>1. PICK k \in Nat : j = L + k /\ Gives(n, k, id)
      BY <2>2
    <3>2. CASE \E i \in Nat : i < k /\ Makes(n, i, id)
      <4>1. PICK i \in Nat : i < k /\ Makes(n, i, id)
        BY <3>2
      <4>2. L + i \in Nat /\ Makes(mn, L + i, id) /\ L + i < j
        BY <4>1, <3>1, <1>3, <1>0
      <4> QED
        BY <4>2
    <3>3. CASE \E i \in Nat : Makes(m, i, id)
      <4>1. PICK i \in Nat : Makes(m, i, id)
        BY <3>3
      <4>2. i \in 1 .. L /\ Makes(mn, i, id) /\ k \in 1 .. Len(n)
        BY <4>1, <3>1, <1>1, <1>4
      <4> QED
        BY <4>2, <3>1, <1>0, <1>7
    <3> QED
      BY <3>1, <3>2, <3>3 DEF Completes
  <2> QED
    BY <2>1, <2>2, <1>6
<1>9. CallsEnd(mn, new, gone)
  <2> SUFFICES ASSUME NEW i \in Nat, NEW id, Makes(mn, i, id)
               PROVE  \/ \E j \in Nat : i < j /\ Gives(mn, j, id)
                      \/ \E c \in new : c.call = id
                      \/ id \in gone
    BY DEF CallsEnd
  <2>1. CASE Makes(m, i, id)
    <3>1. CASE \E j \in Nat : i < j /\ Gives(m, j, id)
      BY <3>1, <1>2
    <3>2. CASE \E c \in cards : c.call = id
      <4>1. PICK c \in cards : c.call = id
        BY <3>2
      <4>2. c \in new \/ c.call \in gone \/ \E j \in Nat : Gives(n, j, c.call)
        BY DEF Completes
      <4>3. ASSUME NEW j \in Nat, Gives(n, j, id)
            PROVE  L + j \in Nat /\ i < L + j /\ Gives(mn, L + j, id)
        <5>1. i \in 1 .. L /\ j \in 1 .. Len(n) /\ L + j \in Nat /\ Gives(mn, L + j, id)
          BY <2>1, <4>3, <1>1, <1>4
        <5> QED
          BY <5>1, <1>0, <1>7
      <4> QED
        BY <4>1, <4>2, <4>3
    <3>3. CASE id \in old
      BY <3>3 DEF Completes
    <3> QED
      BY <2>1, <3>1, <3>2, <3>3 DEF Paired, CallsEnd
  <2>2. CASE \E k \in Nat : i = L + k /\ Makes(n, k, id)
    <3>1. PICK k \in Nat : i = L + k /\ Makes(n, k, id)
      BY <2>2
    <3>2. ASSUME NEW j \in Nat, k < j, Gives(n, j, id)
          PROVE  L + j \in Nat /\ i < L + j /\ Gives(mn, L + j, id)
      BY <3>1, <3>2, <1>4, <1>0
    <3> QED
      BY <3>1, <3>2 DEF Completes
  <2> QED
    BY <2>1, <2>2, <1>5
<1>10. CardsCalled(mn, new)
  <2> SUFFICES ASSUME NEW c \in new
               PROVE  /\ c.id = c.call \/ c.id[2] = 0
                      /\ \E i \in Nat : Makes(mn, i, c.call)
    BY DEF CardsCalled
  <2>1. CASE c \in cards
    BY <2>1, <1>1 DEF Paired, CardsCalled
  <2>2. CASE /\ c.id = c.call \/ c.id[2] = 0
             /\ \E i \in Nat : Makes(n, i, c.call)
    BY <2>2, <1>3
  <2> QED
    BY <2>1, <2>2 DEF Completes
<1> QED
  BY <1>8, <1>9, <1>10 DEF Paired, mn

\* The messages the code adds.
LEMMA Messages ==
  /\ User(1) \in Message /\ Nudge \in Message
  /\ \A ids \in Seq(Id) : /\ Assistant(ids) \in Message
                          /\ Assistant(ids).role = "assistant" /\ Assistant(ids).ids = ids
  /\ \A id \in Id, n \in Nat : /\ ToolResult(id, n) \in Message
                               /\ ToolResult(id, n).role = "tool" /\ ToolResult(id, n).ids[1] = id
  /\ User(1).role = "user" /\ Nudge.role = "user"
<1>1. User(1) \in Message /\ Nudge \in Message /\ User(1).role = "user" /\ Nudge.role = "user"
  BY DEF User, Nudge, Message
<1>2. ASSUME NEW ids \in Seq(Id)
      PROVE  /\ Assistant(ids) \in Message
             /\ Assistant(ids).role = "assistant" /\ Assistant(ids).ids = ids
  BY DEF Assistant, Message
<1>3. ASSUME NEW id \in Id, NEW n \in Nat
      PROVE  /\ ToolResult(id, n) \in Message
             /\ ToolResult(id, n).role = "tool" /\ ToolResult(id, n).ids[1] = id
  <2>1. <<id>> \in Seq(Id) /\ <<id>>[1] = id
    OBVIOUS
  <2> QED
    BY <2>1 DEF ToolResult, Message
<1> QED
  BY <1>1, <1>2, <1>3

\* Messages that make and answer no call.
Quiet(n) == \A i \in Nat : \A id : ~Makes(n, i, id) /\ ~Gives(n, i, id)

\* The user's turn, the answer and the nudge are such.
LEMMA QuietOnes ==
  /\ <<User(1)>> \in Seq(Message) /\ Quiet(<<User(1)>>)
  /\ <<Assistant(<<>>)>> \in Seq(Message) /\ Quiet(<<Assistant(<<>>)>>)
  /\ <<Assistant(<<>>), Nudge>> \in Seq(Message) /\ Quiet(<<Assistant(<<>>), Nudge>>)
<1>1. <<>> \in Seq(Id)
  OBVIOUS
<1>2. /\ Assistant(<<>>) \in Message /\ Assistant(<<>>).role = "assistant" /\ Len(Assistant(<<>>).ids) = 0
      /\ User(1) \in Message /\ User(1).role = "user" /\ Nudge \in Message /\ Nudge.role = "user"
  <2> DEFINE e == <<>>
  <2>1. e \in Seq(Id) /\ Len(e) = 0
    BY <1>1
  <2> HIDE DEF e
  <2>2. /\ Assistant(e) \in Message /\ Assistant(e).role = "assistant" /\ Assistant(e).ids = e
        /\ User(1) \in Message /\ User(1).role = "user" /\ Nudge \in Message /\ Nudge.role = "user"
    BY <2>1, Messages
  <2>3. Len(Assistant(e).ids) = 0
    BY <2>1, <2>2
  <2> QED
    BY <2>2, <2>3 DEF e
<1>3. ASSUME NEW a \in Message, a.role = "user" \/ (a.role = "assistant" /\ Len(a.ids) = 0)
      PROVE  <<a>> \in Seq(Message) /\ Quiet(<<a>>)
  <2> DEFINE q == <<a>>
  <2>1. q \in Seq(Message) /\ Len(q) = 1 /\ q[1] = a
    OBVIOUS
  <2> HIDE DEF q
  <2>2. ASSUME NEW i \in Nat, i \in 1 .. Len(q)
        PROVE  q[i] = a
    BY <2>1, <2>2
  <2>3. \A i \in Nat : \A id : ~Makes(q, i, id)
    BY <1>3, <2>2 DEF Makes
  <2>4. \A i \in Nat : \A id : ~Gives(q, i, id)
    BY <1>3, <2>2 DEF Gives
  <2> QED
    BY <2>1, <2>3, <2>4 DEF Quiet, q
<1>4. ASSUME NEW a \in Message, NEW b \in Message, a.role = "assistant", Len(a.ids) = 0, b.role = "user"
      PROVE  <<a, b>> \in Seq(Message) /\ Quiet(<<a, b>>)
  <2> DEFINE q == <<a, b>>
  <2>1. q \in Seq(Message) /\ Len(q) = 2 /\ q[1] = a /\ q[2] = b
    OBVIOUS
  <2> HIDE DEF q
  <2>2. ASSUME NEW i \in Nat, i \in 1 .. Len(q)
        PROVE  q[i] = a \/ q[i] = b
    BY <2>1, <2>2
  <2>3. \A i \in Nat : \A id : ~Makes(q, i, id)
    BY <1>4, <2>2 DEF Makes
  <2>4. \A i \in Nat : \A id : ~Gives(q, i, id)
    BY <1>4, <2>2 DEF Gives
  <2> QED
    BY <2>1, <2>3, <2>4 DEF Quiet, q
<1>5. <<User(1)>> \in Seq(Message) /\ Quiet(<<User(1)>>)
  BY <1>2, <1>3
<1>6. <<Assistant(<<>>)>> \in Seq(Message) /\ Quiet(<<Assistant(<<>>)>>)
  BY <1>2, <1>3
<1>7. <<Assistant(<<>>), Nudge>> \in Seq(Message) /\ Quiet(<<Assistant(<<>>), Nudge>>)
  BY <1>2, <1>4
<1> QED
  BY <1>5, <1>6, <1>7

\* The closing message.
LEMMA ClosingMessage == Assistant(<<>>) \in Message
<1>1. <<>> \in Seq(Id)
  OBVIOUS
<1> QED
  BY <1>1 DEF Assistant, Message

Good(s, gone) == s \in Session /\ Paired(s.msgs, s.cards, gone)

\* Adding changes the messages alone.
LEMMA AddingIs ==
  ASSUME session \in Session, NEW n \in Seq(Message)
  PROVE  /\ Adding(n) \in Session
         /\ Adding(n).msgs = session.msgs \o n /\ Adding(n).cards = session.cards
<1>1. /\ session = [msgs |-> session.msgs, cards |-> session.cards, current |-> session.current]
      /\ session.msgs \in Seq(Message) /\ session.cards \in SUBSET Card /\ session.current \in BOOLEAN
  BY DEF Session
<1>2. session.msgs \o n \in Seq(Message)
  BY <1>1
<1>3. Adding(n) = [msgs |-> session.msgs \o n, cards |-> session.cards, current |-> session.current]
  <2> DEFINE x == session.msgs \o n
  <2>1. Adding(n) = [session EXCEPT !.msgs = x]
    BY DEF Adding
  <2> HIDE DEF x
  <2>2. [session EXCEPT !.msgs = x] = [msgs |-> x, cards |-> session.cards, current |-> session.current]
    BY DEF Session
  <2> QED
    BY <2>1, <2>2 DEF x
<1> QED
  BY <1>1, <1>2, <1>3 DEF Session

\* Messages that complete themselves, with the cards new, make a good session of a good one.
LEMMA StayGood ==
  ASSUME NEW s, NEW old, NEW gone, NEW n \in Seq(Message), NEW new, NEW t \in Session,
         Good(s, old), t.msgs = s.msgs \o n, t.cards = new,
         Completes(n, new, gone, s.msgs, s.cards, old)
  PROVE  Good(t, gone)
<1>1. s.msgs \in Seq(Message)
  BY DEF Good, Session
<1>2. Paired(s.msgs \o n, new, gone)
  BY <1>1, StayPaired DEF Good
<1> QED
  BY <1>2 DEF Good

\* Quiet messages keep a session good.
LEMMA QuietIsGood ==
  ASSUME NEW s, NEW gone, Good(s, gone), NEW n \in Seq(Message), Quiet(n),
         NEW t \in Session, t.msgs = s.msgs \o n, t.cards = s.cards
  PROVE  Good(t, gone)
<1>1. Completes(n, s.cards, gone, s.msgs, s.cards, gone)
  BY DEF Completes, Quiet
<1> QED
  BY <1>1, StayGood

\* What one message calls and answers, alone or with another.
LEMMA OneMessage ==
  ASSUME NEW a \in Message, NEW b \in Message
  PROVE  /\ <<a>> \in Seq(Message) /\ <<a, b>> \in Seq(Message)
         /\ \A i \in Nat : \A x :
              /\ Makes(<<a>>, i, x) <=> i = 1 /\ Makes(<<a>>, 1, x)
              /\ Gives(<<a>>, i, x) <=> i = 1 /\ a.role = "tool" /\ a.ids[1] = x
              /\ Makes(<<a, b>>, i, x) <=> \/ i = 1 /\ Makes(<<a>>, 1, x)
                                           \/ i = 2 /\ Makes(<<b>>, 1, x)
              /\ Gives(<<a, b>>, i, x) <=> \/ i = 1 /\ a.role = "tool" /\ a.ids[1] = x
                                           \/ i = 2 /\ b.role = "tool" /\ b.ids[1] = x
<1> DEFINE p == <<a>>
           r == <<b>>
           q == <<a, b>>
<1>1. p \in Seq(Message) /\ Len(p) = 1 /\ p[1] = a
  OBVIOUS
<1>2. q \in Seq(Message) /\ Len(q) = 2 /\ q[1] = a /\ q[2] = b
  OBVIOUS
<1>3. r \in Seq(Message) /\ Len(r) = 1 /\ r[1] = b
  OBVIOUS
<1> HIDE DEF p, q, r
<1>4. ASSUME NEW i \in Nat, NEW x
      PROVE  /\ Makes(p, i, x) <=> i = 1 /\ Makes(p, 1, x)
             /\ Gives(p, i, x) <=> i = 1 /\ a.role = "tool" /\ a.ids[1] = x
  <2>1. i \in 1 .. 1 <=> i = 1
    OBVIOUS
  <2> QED
    BY <1>1, <2>1 DEF Makes, Gives
<1>5. ASSUME NEW i \in Nat, NEW x
      PROVE  /\ Makes(q, i, x) <=> \/ i = 1 /\ Makes(p, 1, x)
                                   \/ i = 2 /\ Makes(r, 1, x)
             /\ Gives(q, i, x) <=> \/ i = 1 /\ a.role = "tool" /\ a.ids[1] = x
                                   \/ i = 2 /\ b.role = "tool" /\ b.ids[1] = x
  <2>1. (i \in 1 .. 2 <=> i = 1 \/ i = 2) /\ 1 \in 1 .. 1
    OBVIOUS
  <2> QED
    BY <1>1, <1>2, <1>3, <2>1 DEF Makes, Gives
<1> QED
  BY <1>1, <1>2, <1>4, <1>5 DEF p, q, r

\* A message with one call; a result; the answer.
LEMMA OneCall ==
  ASSUME NEW id \in Id, NEW n \in Nat
  PROVE  /\ Assistant(<<id>>) \in Message /\ Assistant(<<id>>).role = "assistant"
         /\ Assistant(<<>>) \in Message /\ Assistant(<<>>).role = "assistant"
         /\ ToolResult(id, n) \in Message /\ ToolResult(id, n).role = "tool"
         /\ ToolResult(id, n).ids[1] = id
         /\ \A x : /\ Makes(<<Assistant(<<id>>)>>, 1, x) <=> x = id
                   /\ ~Makes(<<Assistant(<<>>)>>, 1, x)
                   /\ ~Makes(<<ToolResult(id, n)>>, 1, x)
<1> DEFINE e == <<id>>
           a == Assistant(e)
           r == ToolResult(id, n)
           p == <<a>>
           q == <<r>>
<1>1. e \in Seq(Id) /\ Len(e) = 1 /\ e[1] = id
  OBVIOUS
<1>2. <<>> \in Seq(Id)
  OBVIOUS
<1> HIDE DEF e
<1>3. a \in Message /\ a.role = "assistant" /\ a.ids = e
  BY <1>1, Messages
<1>4. r \in Message /\ r.role = "tool" /\ r.ids[1] = id
  BY Messages
<1>5. Assistant(<<>>) \in Message /\ Assistant(<<>>).role = "assistant"
  BY <1>2, Messages
<1> HIDE DEF a, r
<1>6. Len(p) = 1 /\ p[1] = a /\ Len(q) = 1 /\ q[1] = r
  OBVIOUS
<1> HIDE DEF p, q
<1>7. ASSUME NEW x
      PROVE  Makes(p, 1, x) <=> x = id
  <2>1. 1 \in 1 .. Len(p)
    BY <1>6
  <2>2. (\E k \in 1 .. Len(e) : e[k] = x) <=> x = id
    BY <1>1
  <2> QED
    BY <1>3, <1>6, <2>1, <2>2 DEF Makes
<1>8. ASSUME NEW x
      PROVE  ~Makes(q, 1, x)
  BY <1>4, <1>6 DEF Makes
<1>9. \A x : ~Makes(<<Assistant(<<>>)>>, 1, x)
  <2>1. Quiet(<<Assistant(<<>>)>>) /\ 1 \in Nat
    BY QuietOnes
  <2> QED
    BY <2>1 DEF Quiet
<1> QED
  BY <1>3, <1>4, <1>5, <1>7, <1>8, <1>9 DEF p, q, a, r, e

\* A card that is put up changes the cards alone, and makes the session current.
LEMMA CardPutUp ==
  ASSUME NEW t \in Session, NEW c \in Card
  PROVE  LET u == [t EXCEPT !.cards = @ \cup {c}, !.current = TRUE]
         IN u \in Session /\ u.msgs = t.msgs /\ u.cards = t.cards \cup {c}
BY DEF Session

\* The ids of the next calls, and of a card made of them.
LEMMA NextIds ==
  ASSUME session \in Session, NEW k \in Nat
  PROVE  /\ NextId(k) \in Id /\ NextId(k)[2] = k
         /\ \A t \in Tools : CallId(k, t) \in Id
<1>1. NextId(k) \in Id /\ NextId(k)[2] = k
  BY DEF NextId, Id, Session
<1>2. ASSUME NEW t \in Tools
      PROVE  CallId(k, t) \in Id
  BY <1>1 DEF CallId, Id
<1> QED
  BY <1>1, <1>2

\* A call that waits for its card completes itself.
LEMMA CardCompletes ==
  ASSUME NEW m, NEW cards, NEW id \in Id, NEW c, c.id = id, c.call = id
  PROVE  /\ <<Assistant(<<id>>)>> \in Seq(Message)
         /\ Completes(<<Assistant(<<id>>)>>, cards \cup {c}, settled, m, cards, settled)
<1> DEFINE a == Assistant(<<id>>)
           n == <<a>>
<1>1. /\ a \in Message /\ a.role = "assistant"
      /\ \A x : Makes(n, 1, x) <=> x = id
  BY OneCall
<1> HIDE DEF a
<1>2. /\ n \in Seq(Message)
      /\ \A i \in Nat : \A x : /\ Makes(n, i, x) <=> i = 1 /\ Makes(n, 1, x)
                               /\ Gives(n, i, x) <=> i = 1 /\ a.role = "tool" /\ a.ids[1] = x
  BY <1>1, OneMessage
<1> HIDE DEF n
<1>3. \A i \in Nat : \A x : (Makes(n, i, x) <=> i = 1 /\ x = id) /\ ~Gives(n, i, x)
  BY <1>1, <1>2
<1>4. Completes(n, cards \cup {c}, settled, m, cards, settled)
  <2>1. \A d \in cards \cup {c} : d \in cards \/ (d.id = d.call /\ Makes(n, 1, d.call))
    BY <1>3
  <2>2. \A i \in Nat : \A x : Makes(n, i, x) => \E d \in cards \cup {c} : d.call = x
    BY <1>3
  <2> QED
    BY <1>3, <2>1, <2>2 DEF Completes
<1> QED
  BY <1>2, <1>4 DEF n, a

\* A call that runs at once completes itself.
LEMMA RunCompletes ==
  ASSUME NEW m, NEW cards, NEW id \in Id, NEW k \in Nat
  PROVE  /\ <<Assistant(<<id>>), ToolResult(id, k)>> \in Seq(Message)
         /\ Completes(<<Assistant(<<id>>), ToolResult(id, k)>>, cards, settled, m, cards, settled)
<1> DEFINE a == Assistant(<<id>>)
           b == ToolResult(id, k)
           n == <<a, b>>
<1>1. /\ a \in Message /\ a.role = "assistant" /\ b \in Message /\ b.role = "tool" /\ b.ids[1] = id
      /\ \A x : (Makes(<<a>>, 1, x) <=> x = id) /\ ~Makes(<<b>>, 1, x)
  BY OneCall
<1> HIDE DEF a, b
<1>2. /\ n \in Seq(Message)
      /\ \A i \in Nat : \A x :
           /\ Makes(n, i, x) <=> \/ i = 1 /\ Makes(<<a>>, 1, x)
                                 \/ i = 2 /\ Makes(<<b>>, 1, x)
           /\ Gives(n, i, x) <=> \/ i = 1 /\ a.role = "tool" /\ a.ids[1] = x
                                 \/ i = 2 /\ b.role = "tool" /\ b.ids[1] = x
  BY <1>1, OneMessage
<1> HIDE DEF n
<1>3. \A i \in Nat : \A x : (Makes(n, i, x) <=> i = 1 /\ x = id) /\ (Gives(n, i, x) <=> i = 2 /\ x = id)
  BY <1>1, <1>2
<1>4. Completes(n, cards, settled, m, cards, settled)
  <2>1. \A j \in Nat : \A x : Gives(n, j, x) => 1 < j /\ Makes(n, 1, x)
    BY <1>3
  <2>2. \A i \in Nat : \A x : Makes(n, i, x) => i < 2 /\ Gives(n, 2, x)
    BY <1>3
  <2> QED
    BY <2>1, <2>2 DEF Completes
<1> QED
  BY <1>2, <1>4 DEF n, a, b

\* The result of an answered card completes the session without the card.
LEMMA AnswerCompletes ==
  ASSUME NEW m, NEW cards \in SUBSET Card, CardsCalled(m, cards), NEW card \in cards,
         NEW id \in Id, NEW k \in Nat, NEW gone, settled \subseteq gone,
         \/ id = card.call
         \/ id = card.id /\ (id # card.call => card.call \in gone),
         NEW n, n = <<ToolResult(id, k)>> \/ n = <<ToolResult(id, k), Assistant(<<>>)>>
  PROVE  n \in Seq(Message) /\ Completes(n, cards \ {card}, gone, m, cards, settled)
<1> DEFINE a == ToolResult(id, k)
           b == Assistant(<<>>)
<1>1. /\ a \in Message /\ a.role = "tool" /\ a.ids[1] = id /\ b \in Message /\ b.role = "assistant"
      /\ \A x : ~Makes(<<a>>, 1, x) /\ ~Makes(<<b>>, 1, x)
  <2>1. a \in Message /\ a.role = "tool" /\ a.ids[1] = id
    BY Messages
  <2>2. b \in Message /\ b.role = "assistant"
    BY OneCall
  <2>3. \A x : ~Makes(<<a>>, 1, x)
    BY OneCall
  <2>4. \A x : ~Makes(<<b>>, 1, x)
    BY OneCall
  <2> HIDE DEF a, b
  <2> QED
    BY <2>1, <2>2, <2>3, <2>4
<1>2. n = <<a>> \/ n = <<a, b>>
  OBVIOUS
<1> HIDE DEF a, b
<1>3. /\ n \in Seq(Message)
      /\ \A i \in Nat : \A x : ~Makes(n, i, x) /\ (Gives(n, i, x) <=> i = 1 /\ x = id)
  <2>1. CASE n = <<a>>
    <3>1. /\ n \in Seq(Message)
          /\ \A i \in Nat : \A x :
               /\ Makes(n, i, x) <=> i = 1 /\ Makes(<<a>>, 1, x)
               /\ Gives(n, i, x) <=> i = 1 /\ a.role = "tool" /\ a.ids[1] = x
      BY <1>1, <2>1, OneMessage
    <3> QED
      BY <1>1, <3>1
  <2>2. CASE n = <<a, b>>
    <3>1. /\ n \in Seq(Message)
          /\ \A i \in Nat : \A x :
               /\ Makes(n, i, x) <=> \/ i = 1 /\ Makes(<<a>>, 1, x)
                                     \/ i = 2 /\ Makes(<<b>>, 1, x)
               /\ Gives(n, i, x) <=> \/ i = 1 /\ a.role = "tool" /\ a.ids[1] = x
                                     \/ i = 2 /\ b.role = "tool" /\ b.ids[1] = x
      BY <1>1, <2>2, OneMessage
    <3> QED
      BY <1>1, <3>1
  <2> QED
    BY <1>2, <2>1, <2>2
<1>4. card.id = card.call \/ card.id[2] = 0
  BY DEF CardsCalled
<1>5. \E i \in Nat : Makes(m, i, card.call)
  BY DEF CardsCalled
<1>6. id = card.call \/ (id = card.id /\ id[2] = 0 /\ card.call \in gone)
  BY <1>4
<1>7. id[2] = 0 \/ \E i \in Nat : Makes(m, i, id)
  BY <1>5, <1>6
<1>8. \A c \in cards : c \in cards \ {card} \/ c.call \in gone \/ Gives(n, 1, c.call)
  BY <1>3, <1>6
<1>9. Completes(n, cards \ {card}, gone, m, cards, settled)
  BY <1>3, <1>7, <1>8 DEF Completes
<1> QED
  BY <1>3, <1>9

-----------------------------------------------------------------------------
(* What a streamed round records.                                          *)

RoundIds  == [k \in 1 .. Handled |-> HandledId(k)]
RoundRest == [k \in 1 .. Len(done) |-> ToolResult(HandledId(k), done[k].size)]
RoundAll  == <<Assistant(RoundIds)>> \o RoundRest

\* The calls that are recorded are those that ran and the one that waits.
LEMMA HandledIs ==
  ASSUME Shape
  PROVE  /\ Handled \in Nat /\ Len(done) \in Nat
         /\ gated = <<>> => Handled = Len(done)
         /\ gated # <<>> => Handled = Len(done) + 1 /\ gated[1] \in Tools
<1>1. Len(done) \in Nat
  BY DEF Shape
<1>2. CASE gated = <<>>
  <2>1. Len(gated) = 0
    BY <1>2
  <2> QED
    BY <1>1, <1>2, <2>1 DEF Handled
<1>3. CASE \E t \in Tools : gated = <<t>>
  <2>1. PICK t \in Tools : gated = <<t>>
    BY <1>3
  <2>2. Len(gated) = 1 /\ gated[1] = t /\ gated # <<>>
    BY <2>1
  <2> QED
    BY <1>1, <2>2 DEF Handled
<1> QED
  BY <1>2, <1>3 DEF Shape

\* They have the ids of the calls.
LEMMA HandledIds ==
  ASSUME Shape
  PROVE  \A k \in 1 .. Handled : HandledId(k) \in Id
<1> SUFFICES ASSUME NEW k \in 1 .. Handled
             PROVE  HandledId(k) \in Id
  OBVIOUS
<1>1. k \in Nat /\ (k <= Len(done) => done[k] \in Ran) /\ (~(k <= Len(done)) => gated[1] \in Tools)
  BY HandledIs DEF Shape
<1>2. \A t \in Tools : CallId(k, t) \in Id
  BY <1>1, NextIds DEF Shape
<1> QED
  BY <1>1, <1>2 DEF HandledId, Ran

\* Where the recorded calls and results are.
LEMMA RoundMessages ==
  ASSUME Shape
  PROVE  /\ RoundAll \in Seq(Message)
         /\ \A i \in Nat : \A x :
              /\ Makes(RoundAll, i, x) <=> i = 1 /\ \E k \in 1 .. Handled : x = HandledId(k)
              /\ Gives(RoundAll, i, x) <=> \E k \in 1 .. Len(done) : i = 1 + k /\ x = HandledId(k)
<1> DEFINE a == Assistant(RoundIds)
           p == <<a>>
           r == RoundRest
           n == RoundAll
<1>1. Handled \in Nat /\ Len(done) \in Nat
  BY HandledIs
<1>2. \A k \in 1 .. Handled : HandledId(k) \in Id
  BY HandledIds
<1>3. RoundIds \in Seq(Id) /\ Len(RoundIds) = Handled /\ \A k \in 1 .. Handled : RoundIds[k] = HandledId(k)
  BY <1>1, <1>2 DEF RoundIds
<1>4. a \in Message /\ a.role = "assistant" /\ a.ids = RoundIds
  BY <1>3, Messages
<1>5. \A k \in 1 .. Len(done) :
        /\ ToolResult(HandledId(k), done[k].size) \in Message
        /\ ToolResult(HandledId(k), done[k].size).role = "tool"
        /\ ToolResult(HandledId(k), done[k].size).ids[1] = HandledId(k)
  <2> TAKE k \in 1 .. Len(done)
  <2>1. done[k] \in Ran
    BY DEF Shape
  <2>2. done[k].size \in Nat /\ k \in 1 .. Handled
    BY <1>1, <2>1, HandledIs DEF Ran
  <2> QED
    BY <1>2, <2>2, Messages
<1>6. /\ r \in Seq(Message) /\ Len(r) = Len(done)
      /\ \A k \in 1 .. Len(done) : r[k].role = "tool" /\ r[k].ids[1] = HandledId(k)
  BY <1>1, <1>5 DEF RoundRest
<1> HIDE DEF a, r
<1>7. p \in Seq(Message) /\ Len(p) = 1 /\ p[1] = a
  BY <1>4
<1>8. n = p \o r
  BY DEF RoundAll, a, r
<1> HIDE DEF p, n
<1>9. \A x : Makes(p, 1, x) <=> \E k \in 1 .. Handled : x = HandledId(k)
  <2>1. 1 \in 1 .. Len(p)
    BY <1>7
  <2> QED
    BY <1>3, <1>4, <1>7, <2>1 DEF Makes
<1>10. ASSUME NEW i \in Nat, NEW x
       PROVE  (Makes(p, i, x) => i = 1) /\ ~Gives(p, i, x) /\ ~Makes(r, i, x)
  <2>1. i \in 1 .. Len(p) => i = 1
    BY <1>7
  <2>2. i \in 1 .. Len(r) => r[i].role = "tool"
    BY <1>6
  <2> QED
    BY <1>4, <1>7, <2>1, <2>2 DEF Makes, Gives
<1>11. \A k \in Nat : \A x : Gives(r, k, x) <=> k \in 1 .. Len(done) /\ x = HandledId(k)
  BY <1>6 DEF Gives
<1>12. n \in Seq(Message)
  BY <1>6, <1>7, <1>8, Followed
<1>13. ASSUME NEW i \in Nat, NEW x
       PROVE  Makes(n, i, x) <=> i = 1 /\ \E k \in 1 .. Handled : x = HandledId(k)
  <2>1. Makes(n, i, x) => i = 1 /\ Makes(p, 1, x)
    BY <1>6, <1>7, <1>8, <1>10, NoneElseMakes
  <2>2. Makes(p, 1, x) => Makes(n, 1, x)
    BY <1>6, <1>7, <1>8, BothMake
  <2> QED
    BY <1>9, <2>1, <2>2
<1>14. ASSUME NEW i \in Nat, NEW x
       PROVE  Gives(n, i, x) <=> \E k \in 1 .. Len(done) : i = 1 + k /\ x = HandledId(k)
  <2>1. Gives(n, i, x) => \E k \in Nat : i = 1 + k /\ Gives(r, k, x)
    <3>1. Gives(p \o r, i, x) => Gives(p, i, x) \/ \E k \in Nat : i = Len(p) + k /\ Gives(r, k, x)
      BY <1>6, <1>7, NoneElseMakes
    <3> QED
      BY <3>1, <1>7, <1>8, <1>10
  <2>2. ASSUME NEW k \in 1 .. Len(done), i = 1 + k, x = HandledId(k)
        PROVE  Gives(n, i, x)
    <3>1. k \in Nat /\ Gives(r, k, x)
      BY <1>1, <1>11, <2>2
    <3>2. Gives(n, Len(p) + k, x)
      BY <3>1, <1>6, <1>7, <1>8, BothMake
    <3> QED
      BY <3>2, <2>2, <1>7
  <2> QED
    BY <1>11, <2>1, <2>2
<1> QED
  BY <1>12, <1>13, <1>14 DEF n

\* The session a round leaves is good: its calls have their results, or the last of them a card.
LEMMA RecordedIsGood ==
  ASSUME Shape, Good(session, settled)
  PROVE  /\ Recorded \in Session
         /\ gated = <<>> => Good(Recorded, settled)
         /\ gated # <<>> =>
              LET c == [id |-> NextId(0), tool |-> gated[1], call |-> HandledId(Handled)]
              IN Good([Recorded EXCEPT !.cards = @ \cup {c}, !.current = TRUE], settled)
<1> DEFINE n == RoundAll
<1>1. /\ n \in Seq(Message)
      /\ \A i \in Nat : \A x :
           /\ Makes(n, i, x) <=> i = 1 /\ \E k \in 1 .. Handled : x = HandledId(k)
           /\ Gives(n, i, x) <=> \E k \in 1 .. Len(done) : i = 1 + k /\ x = HandledId(k)
  BY RoundMessages
<1>2. Recorded = Adding(n)
  BY DEF Recorded, RoundAll, RoundIds, RoundRest
<1> HIDE DEF n
<1>3. /\ Recorded \in Session
      /\ Recorded.msgs = session.msgs \o n /\ Recorded.cards = session.cards
  BY <1>1, <1>2, AddingIs DEF Good
<1>4. /\ Handled \in Nat /\ Len(done) \in Nat
      /\ gated = <<>> => Handled = Len(done)
      /\ gated # <<>> => Handled = Len(done) + 1 /\ gated[1] \in Tools
  BY HandledIs
<1>5. \A j \in Nat : \A x : Gives(n, j, x) => 1 < j /\ Makes(n, 1, x)
  BY <1>1, <1>4
<1>6. ASSUME NEW k \in 1 .. Len(done), NEW x, x = HandledId(k)
      PROVE  1 + k \in Nat /\ 1 < 1 + k /\ Gives(n, 1 + k, x)
  BY <1>1, <1>4, <1>6
<1>7. CASE gated = <<>>
  <2>1. Handled = Len(done)
    BY <1>4, <1>7
  <2>2. \A i \in Nat : \A x : Makes(n, i, x) => \E j \in Nat : i < j /\ Gives(n, j, x)
    BY <1>1, <1>6, <2>1
  <2>3. Completes(n, session.cards, settled, session.msgs, session.cards, settled)
    BY <1>5, <2>2 DEF Completes
  <2>4. Good(Recorded, settled)
    BY <1>1, <1>3, <2>3, StayGood
  <2> QED
    BY <1>3, <1>7, <2>4
<1>8. CASE gated # <<>>
  <2> DEFINE c == [id |-> NextId(0), tool |-> gated[1], call |-> HandledId(Handled)]
             new == session.cards \cup {c}
             t == [Recorded EXCEPT !.cards = @ \cup {c}, !.current = TRUE]
  <2>1. Handled = Len(done) + 1 /\ gated[1] \in Tools
    BY <1>4, <1>8
  <2>2. NextId(0) \in Id /\ NextId(0)[2] = 0 /\ HandledId(Handled) \in Id
    <3>1. Handled \in 1 .. Handled
      BY <1>4, <2>1
    <3> QED
      BY <3>1, HandledIds, NextIds DEF Good
  <2>3. c \in Card /\ c.id[2] = 0 /\ c.call = HandledId(Handled) /\ c \in new
    BY <2>1, <2>2 DEF Card
  <2> HIDE DEF c
  <2>4. t \in Session /\ t.msgs = Recorded.msgs /\ t.cards = Recorded.cards \cup {c}
    BY <2>3, <1>3, CardPutUp
  <2>5. t.msgs = session.msgs \o n /\ t.cards = new
    BY <1>3, <2>4
  <2> HIDE DEF t
  <2>6. ASSUME NEW i \in Nat, NEW x, Makes(n, i, x)
        PROVE  (\E j \in Nat : i < j /\ Gives(n, j, x)) \/ x = c.call
    <3>1. PICK k \in 1 .. Handled : x = HandledId(k)
      BY <1>1, <2>6
    <3>2. i = 1
      BY <1>1, <2>6
    <3>3. k \in 1 .. Len(done) \/ k = Handled
      BY <1>4, <2>1
    <3> QED
      BY <1>6, <2>3, <3>1, <3>2, <3>3
  <2>7. Makes(n, 1, c.call)
    BY <1>1, <1>4, <2>1, <2>3
  <2>8. \A d \in new : d \in session.cards \/ (d.id[2] = 0 /\ Makes(n, 1, d.call))
    BY <2>3, <2>7
  <2>9. \A i \in Nat : \A x : Makes(n, i, x) =>
          (\E j \in Nat : i < j /\ Gives(n, j, x)) \/ \E d \in new : d.call = x
    BY <2>3, <2>6
  <2> HIDE DEF new
  <2>10. session.cards \subseteq new
    BY DEF new
  <2>11. Completes(n, new, settled, session.msgs, session.cards, settled)
    BY <1>5, <2>8, <2>9, <2>10 DEF Completes
  <2>12. Good(t, settled)
    BY <1>1, <2>4, <2>5, <2>11, StayGood
  <2> QED
    BY <1>3, <1>8, <2>12 DEF t, c
<1> QED
  BY <1>7, <1>8

-----------------------------------------------------------------------------
(* The steps, and the sessions they leave.                                 *)

\* Values the environment and the settings may take.
LEMMA ResultSizes == \A n \in Results_ : n \in Nat
BY CallAssumption

GoodSessions == Good(session, settled) /\ Good(saved, settled)

\* Where the handler's session does not change or is dropped, nothing is to be shown.
LEMMA OldSessions ==
  ASSUME GoodSessions, session' \in {session, saved}, saved' \in {session, saved}, settled' = settled
  PROVE  Good(session', settled') /\ Good(saved', settled')
BY DEF GoodSessions

\* A session that is left with quiet messages more.
LEMMA QuietAdded ==
  ASSUME Good(session, settled), NEW n \in Seq(Message), Quiet(n)
  PROVE  Good(Adding(n), settled)
BY AddingIs, QuietIsGood DEF Good

\* A call that waits, or runs.
LEMMA CallSyncLeaves ==
  ASSUME Shape, GoodSessions, CallSync
  PROVE  Good(session', settled') /\ Good(saved', settled')
<1> DEFINE t == Head(calls)
           id == NextId(1)
           rid == CallId(1, t)
<1>1. t \in Tools
  BY DEF CallSync, Shape
<1>2. id \in Id /\ rid \in Id
  BY <1>1, NextIds DEF Shape
<1>3. session \in Session /\ settled' = settled
  BY DEF Shape, CallSync
<1>4. CASE NeedsCard(t, cache')
  <2> DEFINE c == [id |-> id, tool |-> t, call |-> id]
             n == <<Assistant(<<id>>)>>
             s == [Adding(n) EXCEPT !.cards = @ \cup {c}, !.current = TRUE]
  <2>1. session' = s /\ saved' = s
    BY <1>4 DEF CallSync, EndWith
  <2>2. c \in Card /\ c.id = id /\ c.call = id
    BY <1>1, <1>2 DEF Card
  <2> HIDE DEF t, id, rid, c
  <2>3. /\ n \in Seq(Message)
        /\ Completes(n, session.cards \cup {c}, settled, session.msgs, session.cards, settled)
    BY <1>2, <2>2, CardCompletes
  <2> HIDE DEF n
  <2>4. Adding(n) \in Session /\ Adding(n).msgs = session.msgs \o n /\ Adding(n).cards = session.cards
    BY <1>3, <2>3, AddingIs
  <2>5. s \in Session /\ s.msgs = Adding(n).msgs /\ s.cards = Adding(n).cards \cup {c}
    BY <2>2, <2>4, CardPutUp
  <2> HIDE DEF s
  <2>6. Good(s, settled)
    BY <2>3, <2>4, <2>5, StayGood DEF GoodSessions
  <2> QED
    BY <1>3, <2>1, <2>6
<1>5. CASE ~NeedsCard(t, cache')
  <2>1. PICK k \in Results_ : session' = Adding(<<Assistant(<<rid>>), ToolResult(rid, k)>>)
    BY <1>5 DEF CallSync
  <2>2. saved' = saved
    BY <1>5 DEF CallSync
  <2> DEFINE n == <<Assistant(<<rid>>), ToolResult(rid, k)>>
  <2> HIDE DEF rid
  <2>3. /\ n \in Seq(Message)
        /\ Completes(n, session.cards, settled, session.msgs, session.cards, settled)
    BY <1>2, ResultSizes, RunCompletes
  <2>4. session' = Adding(n)
    BY <2>1
  <2> HIDE DEF n
  <2>5. Adding(n) \in Session /\ Adding(n).msgs = session.msgs \o n /\ Adding(n).cards = session.cards
    BY <1>3, <2>3, AddingIs
  <2>6. Good(Adding(n), settled)
    BY <2>3, <2>5, StayGood DEF GoodSessions
  <2> QED
    BY <1>3, <2>2, <2>4, <2>6 DEF GoodSessions
<1> QED
  BY <1>4, <1>5

\* A streamed round that is recorded.
LEMMA RoundLeaves ==
  ASSUME Shape, GoodSessions, RoundStream
  PROVE  Good(session', settled') /\ Good(saved', settled')
<1> DEFINE c == [id |-> NextId(0), tool |-> gated[1], call |-> HandledId(Handled)]
<1>0. settled' = settled
  BY DEF RoundStream
<1>1. /\ Recorded \in Session
      /\ gated = <<>> => Good(Recorded, settled)
      /\ gated # <<>> => Good([Recorded EXCEPT !.cards = @ \cup {c}, !.current = TRUE], settled)
  BY RecordedIsGood DEF GoodSessions
<1>2. CASE gated # <<>>
  <2>1. /\ session' = [Recorded EXCEPT !.cards = @ \cup {c}, !.current = TRUE]
        /\ saved' = session'
    BY <1>2 DEF RoundStream, EndWith
  <2> QED
    BY <1>0, <1>1, <1>2, <2>1
<1>3. CASE gated = <<>>
  <2> DEFINE a == <<Assistant(<<>>)>>
             s == [Recorded EXCEPT !.msgs = Append(@, Assistant(<<>>))]
  <2>1. session' \in {Recorded, s} /\ saved' = session'
    BY <1>3 DEF RoundStream, EndWith, NextRound
  <2>2. a \in Seq(Message) /\ Quiet(a) /\ Assistant(<<>>) \in Message
    BY QuietOnes, ClosingMessage
  <2>3. Recorded.msgs \in Seq(Message)
    BY <1>1 DEF Session
  <2>4. Append(Recorded.msgs, Assistant(<<>>)) = Recorded.msgs \o a
    BY <2>2, <2>3
  <2>5. Append(Recorded.msgs, Assistant(<<>>)) \in Seq(Message)
    BY <2>2, <2>3
  <2> DEFINE x == Append(Recorded.msgs, Assistant(<<>>))
  <2>6. s = [Recorded EXCEPT !.msgs = x]
    OBVIOUS
  <2> HIDE DEF x
  <2>7. s \in Session /\ s.msgs = x /\ s.cards = Recorded.cards
    BY <1>1, <2>5, <2>6 DEF Session, x
  <2>8. s.msgs = Recorded.msgs \o a
    BY <2>4, <2>7 DEF x
  <2> HIDE DEF a, s
  <2>9. Good(s, settled)
    BY <1>1, <1>3, <2>2, <2>7, <2>8, QuietIsGood
  <2> QED
    BY <1>0, <1>1, <1>3, <2>1, <2>9
<1> QED
  BY <1>2, <1>3

\* A card that is answered: it goes, and its call is answered or settled.
LEMMA ConfirmLeaves ==
  ASSUME Shape, GoodSessions, NEW card \in session.cards,
         NEW way \in {"sync", "stream"}, NEW verdict \in {"run", "declined", "refused"},
         Confirm(card, way, verdict)
  PROVE  Good(session', settled') /\ Good(saved', settled')
<1> DEFINE id == IF way = "stream" THEN card.call ELSE card.id
           answered == [session EXCEPT !.cards = @ \ {card}, !.current = FALSE]
           gone == IF verdict = "refused" \/ id # card.call THEN settled \cup {card.call} ELSE settled
           cards == session.cards
           m == session.msgs
<1>1. settled' = gone
  BY DEF Confirm
<1>2. cards \in SUBSET Card /\ m \in Seq(Message)
  BY DEF Shape, Session
<1>3. card \in Card
  BY <1>2
<1>4. id \in Id
  BY <1>3 DEF Card
<1>5. /\ settled \subseteq gone
      /\ id = card.call \/ (id = card.id /\ (id # card.call => card.call \in gone))
      /\ verdict = "refused" => card.call \in gone
  OBVIOUS
<1>6. CardsCalled(m, cards)
  BY DEF GoodSessions, Good, Paired
<1>7. answered \in Session /\ answered.msgs = m /\ answered.cards = cards \ {card}
  BY DEF Shape, Session
<1>8. \/ verdict = "refused" /\ session' = answered
      \/ session' = [answered EXCEPT !.msgs = Append(@, ToolResult(id, 1))]
      \/ \E k \in Results_ :
           session' = [answered EXCEPT !.msgs = @ \o <<ToolResult(id, k), Assistant(<<>>)>>]
  BY DEF Confirm, EndWith
<1>9. saved' = session'
  <2>1. ASSUME NEW s, EndWith(s)
        PROVE  saved' = session'
    BY <2>1 DEF EndWith
  <2>2. \/ verdict = "refused" /\ EndWith(answered)
        \/ EndWith([answered EXCEPT !.msgs = Append(@, ToolResult(id, 1))])
        \/ \E k \in Results_ :
             EndWith([answered EXCEPT !.msgs = @ \o <<ToolResult(id, k), Assistant(<<>>)>>])
    BY DEF Confirm
  <2> QED
    BY <2>1, <2>2
<1> HIDE DEF id, answered, gone, cards
<1>10. ASSUME NEW n \in Seq(Message), Completes(n, cards \ {card}, gone, m, cards, settled),
              session' = [answered EXCEPT !.msgs = m \o n]
       PROVE  Good(session', gone)
  <2> DEFINE x == m \o n
  <2>1. x \in Seq(Message)
    BY <1>2
  <2>2. session' = [answered EXCEPT !.msgs = x]
    BY <1>10
  <2> HIDE DEF x
  <2>3. session' \in Session /\ session'.msgs = x /\ session'.cards = cards \ {card}
    BY <1>7, <2>1, <2>2 DEF Session
  <2>4. session'.msgs = session.msgs \o n
    BY <2>3 DEF x, m
  <2>5. Good(session, settled)
    BY DEF GoodSessions
  <2> DEFINE t == session'
             new == cards \ {card}
  <2>6. t \in Session /\ t.msgs = session.msgs \o n /\ t.cards = new
    BY <2>3, <2>4
  <2>7. Completes(n, new, gone, session.msgs, session.cards, settled)
    BY <1>10 DEF m, cards
  <2> HIDE DEF t, new
  <2>8. Good(t, gone)
    BY <2>5, <2>6, <2>7, StayGood
  <2> QED
    BY <2>8 DEF t
<1>11. ASSUME NEW k \in Nat, NEW n, n = <<ToolResult(id, k)>> \/ n = <<ToolResult(id, k), Assistant(<<>>)>>
       PROVE  n \in Seq(Message) /\ Completes(n, cards \ {card}, gone, m, cards, settled)
  BY <1>2, <1>4, <1>5, <1>6, <1>11, AnswerCompletes DEF cards
<1>12. CASE verdict = "refused" /\ session' = answered
  <2>1. <<>> \in Seq(Message) /\ Len(<<>>) = 0 /\ m \o <<>> = m
    BY <1>2
  <2>2. \A i \in Nat : \A x : ~Makes(<<>>, i, x) /\ ~Gives(<<>>, i, x)
    BY <2>1 DEF Makes, Gives
  <2>3. Completes(<<>>, cards \ {card}, gone, m, cards, settled)
    BY <1>5, <1>12, <2>2 DEF Completes
  <2>4. answered = [answered EXCEPT !.msgs = m]
    BY <1>7 DEF Session
  <2> QED
    BY <1>1, <1>9, <1>10, <1>12, <2>1, <2>3, <2>4
<1>13. CASE session' = [answered EXCEPT !.msgs = Append(@, ToolResult(id, 1))]
  <2> DEFINE n == <<ToolResult(id, 1)>>
  <2>1. n \in Seq(Message) /\ Completes(n, cards \ {card}, gone, m, cards, settled)
    BY <1>11
  <2>2. ToolResult(id, 1) \in Message
    BY <1>4, Messages
  <2>3. Append(m, ToolResult(id, 1)) = m \o n
    BY <1>2, <2>2
  <2>4. session' = [answered EXCEPT !.msgs = m \o n]
    BY <1>7, <1>13, <2>3
  <2> HIDE DEF n
  <2> QED
    BY <1>1, <1>9, <1>10, <2>1, <2>4
<1>14. CASE \E k \in Results_ :
              session' = [answered EXCEPT !.msgs = @ \o <<ToolResult(id, k), Assistant(<<>>)>>]
  <2>1. PICK k \in Results_ :
          session' = [answered EXCEPT !.msgs = @ \o <<ToolResult(id, k), Assistant(<<>>)>>]
    BY <1>14
  <2> DEFINE n == <<ToolResult(id, k), Assistant(<<>>)>>
  <2>2. n \in Seq(Message) /\ Completes(n, cards \ {card}, gone, m, cards, settled)
    BY <1>11, ResultSizes
  <2>3. session' = [answered EXCEPT !.msgs = m \o n]
    BY <1>7, <2>1
  <2> HIDE DEF n
  <2> QED
    BY <1>1, <1>9, <1>10, <2>2, <2>3
<1> QED
  BY <1>8, <1>12, <1>13, <1>14

\* Every step leaves good sessions.
LEMMA SessionsStayGood ==
  ASSUME Shape, GoodSessions, [Next]_vars
  PROVE  GoodSessions'
<1> SUFFICES Good(session', settled') /\ Good(saved', settled')
  BY DEF GoodSessions, Good, Paired, ResultsFollow, CallsEnd, CardsCalled
<1>0. Good(session, settled) /\ Good(saved, settled)
  BY DEF GoodSessions
<1>1. CASE Ask
  <2>1. session' = Adding(<<User(1)>>) /\ saved' = session' /\ settled' = settled
    BY <1>1 DEF Ask
  <2> QED
    BY <1>0, <2>1, QuietAdded, QuietOnes
<1>2. CASE ListTools
  BY <1>2, OldSessions DEF ListTools
<1>3. CASE Select
  BY <1>3, OldSessions DEF Select
<1>4. CASE Answer_
  <2>1. session' = Adding(<<Assistant(<<>>)>>) /\ saved' = session' /\ settled' = settled
    BY <1>4 DEF Answer_, EndWith
  <2> QED
    BY <1>0, <2>1, QuietAdded, QuietOnes
<1>5. CASE NudgeIt
  <2>1. session' = Adding(<<Assistant(<<>>), Nudge>>) /\ saved' = session' /\ settled' = settled
    BY <1>5 DEF NudgeIt
  <2> QED
    BY <1>0, <2>1, QuietAdded, QuietOnes
<1>6. CASE CallTools
  BY <1>6, OldSessions DEF CallTools
<1>7. CASE Dropped
  BY <1>7, OldSessions DEF Dropped, EndWith
<1>8. CASE CallSync
  BY <1>8, CallSyncLeaves
<1>9. CASE CallStream
  BY <1>9, OldSessions DEF CallStream
<1>10. CASE RoundStream
  BY <1>10, RoundLeaves
<1>11. CASE RoundSync
  <2>1. CASE session' = Adding(<<Assistant(<<>>)>>) /\ saved' = session' /\ settled' = settled
    BY <1>0, <2>1, QuietAdded, QuietOnes
  <2>2. CASE session' = session /\ saved' = saved /\ settled' = settled
    BY <2>2, OldSessions
  <2> QED
    BY <1>11, <2>1, <2>2 DEF RoundSync, EndWith, NextRound
<1>12. CASE Environment
  BY <1>12, OldSessions DEF Environment
<1>13. CASE Restart
  BY <1>13, OldSessions DEF Restart, EndWith
<1>14. CASE \E card \in session.cards, way \in {"sync", "stream"},
              verdict \in {"run", "declined", "refused"} : Confirm(card, way, verdict)
  BY <1>14, ConfirmLeaves
<1>15. CASE UNCHANGED vars
  BY <1>15, OldSessions DEF vars
<1> QED
  BY <1>1, <1>2, <1>3, <1>4, <1>5, <1>6, <1>7, <1>8, <1>9, <1>10, <1>11, <1>12, <1>13, <1>14, <1>15
     DEF Next, Step

\* The calls of an answer are calls of tools.
LEMMA AnswerCalls ==
  ASSUME NEW a \in Asks
  PROVE  a.tools \in Seq(Tools)
BY CallAssumption

\* A call that runs is added to those that ran, and leaves one less.
LEMMA OneRuns ==
  ASSUME Shape, calls # <<>>, NEW n \in Results_, Execute(Head(calls), n)
  PROVE  /\ done' \in Seq(Ran) /\ Head(calls) \in Tools /\ Tail(calls) \in Seq(Tools)
         /\ Len(done') = Len(done) + 1 /\ done'[Len(done) + 1].tool = Head(calls)
         /\ done'[Len(done) + 1].gate = gating
         /\ \A k \in 1 .. Len(done) : done'[k] = done[k]
<1>1. Head(calls) \in Tools /\ Tail(calls) \in Seq(Tools) /\ done \in Seq(Ran)
  BY DEF Shape
<1> DEFINE e == [tool |-> Head(calls), size |-> n, gate |-> gating]
<1>2. e \in Ran /\ e.tool = Head(calls) /\ e.gate = gating
  BY <1>1, ResultSizes DEF Ran, Shape
<1>3. done' = Append(done, e)
  BY DEF Execute
<1> HIDE DEF e
<1>4. Append(done, e) \in Seq(Ran) /\ Len(Append(done, e)) = Len(done) + 1
      /\ Append(done, e)[Len(done) + 1] = e
      /\ \A k \in 1 .. Len(done) : Append(done, e)[k] = done[k]
  BY <1>1, <1>2
<1> QED
  BY <1>1, <1>2, <1>3, <1>4

\* The turn is over.
LEMMA TurnEnds ==
  ASSUME NEW s, EndWith(s)
  PROVE  /\ stage' = "idle" /\ calls' = <<>> /\ done' = <<>> /\ gated' = <<>>
         /\ wanted' = {} /\ offered' = {} /\ given' = {} /\ calls' \in Seq(Tools) /\ done' \in Seq(Ran)
<1>1. /\ stage' = "idle" /\ calls' = <<>> /\ done' = <<>> /\ gated' = <<>>
      /\ wanted' = {} /\ offered' = {} /\ given' = {}
  BY DEF EndWith, Clear
<1>2. <<>> \in Seq(Tools) /\ <<>> \in Seq(Ran)
  OBVIOUS
<1> QED
  BY <1>1, <1>2

\* What the parts of a turn are besides the sessions.
TurnShape ==
  /\ stage \in {"idle", "tools", "listing", "model", "calls"} /\ path \in {"sync", "stream"}
  /\ calls \in Seq(Tools) /\ done \in Seq(Ran)
  /\ gated = <<>> \/ \E t \in Tools : gated = <<t>>
  /\ gating \in BOOLEAN

\* Every step keeps the shape of the turn.
LEMMA TurnShapeStays ==
  ASSUME Shape, [Next]_vars
  PROVE  TurnShape'
<1>0. /\ TurnShape /\ <<>> \in Seq(Tools) /\ <<>> \in Seq(Ran)
  BY DEF Shape, TurnShape
<1>e. ASSUME NEW s, EndWith(s), path' = path, gating' = gating
      PROVE  TurnShape'
  BY <1>0, <1>e, TurnEnds DEF TurnShape
<1>1. CASE Ask
  BY <1>0, <1>1 DEF Ask, world, TurnShape
<1>2. CASE ListTools
  BY <1>0, <1>2 DEF ListTools, world, TurnShape
<1>3. CASE Select
  BY <1>0, <1>3 DEF Select, Offers, world, TurnShape
<1>4. CASE Answer_
  BY <1>4, <1>e DEF Answer_, world
<1>5. CASE NudgeIt
  BY <1>0, <1>5 DEF NudgeIt, world, Clear, TurnShape
<1>6. CASE CallTools
  BY <1>0, <1>6, AnswerCalls DEF CallTools, world, TurnShape
<1>7. CASE Dropped
  BY <1>7, <1>e DEF Dropped, world
<1>8. CASE CallSync
  <2>1. path' = path /\ gating' = gating
    BY <1>8 DEF CallSync, world
  <2>2. CASE NeedsCard(Head(calls), cache')
    BY <1>8, <1>e, <2>1, <2>2 DEF CallSync
  <2>3. CASE ~NeedsCard(Head(calls), cache')
    <3>1. PICK n \in Results_ : Execute(Head(calls), n)
      BY <1>8, <2>3 DEF CallSync
    <3>2. /\ calls # <<>> /\ calls' = Tail(calls)
          /\ stage' = stage /\ gated' = gated
      BY <1>8, <2>3 DEF CallSync
    <3> QED
      BY <1>0, <2>1, <3>1, <3>2, OneRuns DEF TurnShape
  <2> QED
    BY <2>2, <2>3
<1>9. CASE CallStream
  <2>1. path' = path /\ gating' = gating /\ stage' = stage /\ calls # <<>>
    BY <1>9 DEF CallStream, world
  <2>2. CASE NeedsCard(Head(calls), cache')
    <3>1. gated' = <<Head(calls)>> /\ calls' = calls /\ done' = done
      BY <1>9, <2>2 DEF CallStream
    <3>2. Head(calls) \in Tools
      BY <1>0, <2>1 DEF TurnShape
    <3> QED
      BY <1>0, <2>1, <3>1, <3>2 DEF TurnShape
  <2>3. CASE ~NeedsCard(Head(calls), cache')
    <3>1. PICK n \in Results_ : Execute(Head(calls), n)
      BY <1>9, <2>3 DEF CallStream
    <3>2. calls' = Tail(calls) /\ gated' = gated
      BY <1>9, <2>3 DEF CallStream
    <3> QED
      BY <1>0, <2>1, <3>1, <3>2, OneRuns DEF TurnShape
  <2> QED
    BY <2>2, <2>3
<1>10. CASE RoundStream
  <2>1. path' = path /\ gating' = gating
    BY <1>10 DEF RoundStream, world
  <2>2. (\E s : EndWith(s)) \/ (\E s : NextRound(s))
    BY <1>10 DEF RoundStream
  <2>3. ASSUME NEW s, NextRound(s)
        PROVE  TurnShape'
    BY <1>0, <2>1, <2>3 DEF NextRound, TurnShape
  <2> QED
    BY <1>e, <2>1, <2>2, <2>3
<1>11. CASE RoundSync
  <2>1. path' = path /\ gating' = gating
    BY <1>11 DEF RoundSync, world
  <2>2. (\E s : EndWith(s)) \/ (\E s : NextRound(s))
    BY <1>11 DEF RoundSync
  <2>3. ASSUME NEW s, NextRound(s)
        PROVE  TurnShape'
    BY <1>0, <2>1, <2>3 DEF NextRound, TurnShape
  <2> QED
    BY <1>e, <2>1, <2>2, <2>3
<1>12. CASE Environment
  BY <1>0, <1>12 DEF Environment, SwitchGate, turn, TurnShape
<1>13. CASE Restart
  BY <1>13, <1>e DEF Restart, world
<1>14. CASE \E card \in session.cards, way \in {"sync", "stream"},
              verdict \in {"run", "declined", "refused"} : Confirm(card, way, verdict)
  <2>1. path' = path /\ gating' = gating /\ \E s : EndWith(s)
    BY <1>14 DEF Confirm, world
  <2> QED
    BY <1>e, <2>1
<1>15. CASE UNCHANGED vars
  BY <1>0, <1>15 DEF vars, turn, world, TurnShape
<1> QED
  BY <1>1, <1>2, <1>3, <1>4, <1>5, <1>6, <1>7, <1>8, <1>9, <1>10, <1>11, <1>12, <1>13, <1>14, <1>15
     DEF Next, Step

-----------------------------------------------------------------------------
(* What each part of the invariant rests on.                               *)

\* A listing that is used answers for what is in the cache.
LEMMA RefreshListsTruly ==
  ASSUME FreshIsListed, NEW a, Refresh(a)
  PROVE  FreshIsListed'
<1>1. CASE a = Failed
  BY <1>1 DEF Refresh, FreshIsListed
<1>2. CASE a # Failed
  BY <1>2 DEF Refresh, FreshIsListed
<1> QED
  BY <1>1, <1>2

\* Every step keeps a fresh catalogue what the server listed.
LEMMA FreshStays ==
  ASSUME FreshIsListed, [Next]_vars
  PROVE  FreshIsListed'
<1>1. CASE UNCHANGED registry
  BY <1>1 DEF registry, FreshIsListed
<1>2. CASE \E a : Refresh(a)
  BY <1>2, RefreshListsTruly
<1>3. CASE \E a : GetTools(a)
  BY <1>1, <1>2, <1>3 DEF GetTools
<1>4. CASE ServerChanges \/ Expire \/ OtherRequest \/ OtherWorker
  BY <1>2, <1>4 DEF ServerChanges, Expire, OtherRequest, OtherWorker, FreshIsListed
<1>5. CASE Restarted
  BY <1>5 DEF Restarted, FreshIsListed
<1>6. \/ UNCHANGED registry \/ (\E a : Refresh(a)) \/ (\E a : GetTools(a))
      \/ ServerChanges \/ Expire \/ OtherRequest \/ OtherWorker \/ Restarted
  <2>1. CASE Step
    BY <2>1 DEF Step, ListTools, Select, Answer_, NudgeIt, CallTools, Dropped, CallSync, CallStream,
                RoundStream, RoundSync
  <2>2. CASE Ask \/ Environment \/ Restart
    BY <2>2 DEF Ask, Environment, SwitchGate, Restart
  <2>3. CASE \E card \in session.cards, way \in {"sync", "stream"},
               verdict \in {"run", "declined", "refused"} : Confirm(card, way, verdict)
    BY <2>3 DEF Confirm
  <2>4. CASE UNCHANGED vars
    BY <2>4 DEF vars
  <2> QED
    BY <2>1, <2>2, <2>3, <2>4 DEF Next
<1> QED
  BY <1>1, <1>2, <1>3, <1>4, <1>5, <1>6

\* Scoping keeps the tools of the caller's own module, and does not leave nothing.
LEMMA ScopeKeeps ==
  ASSUME NEW picked, NEW maps \in Maps
  PROVE  /\ \A t \in picked : ModuleOf[t] = Own => t \in Scope(picked, maps[1], maps[2])
         /\ picked # {} => Scope(picked, maps[1], maps[2]) # {}
<1> DEFINE allowed == maps[1]
           kept == {t \in picked : ModuleOf[t] \in allowed \/ ModuleOf[t] \notin maps[2]}
<1>1. allowed = {} \/ Own \in allowed
  BY DEF Maps, Allowed
<1>2. Scope(picked, maps[1], maps[2]) = IF allowed = {} \/ kept = {} THEN picked ELSE kept
  BY DEF Scope
<1>3. Own \in allowed => \A t \in picked : ModuleOf[t] = Own => t \in kept
  OBVIOUS
<1> HIDE DEF allowed, kept
<1>4. kept \subseteq picked
  BY DEF kept
<1> QED
  BY <1>1, <1>2, <1>3, <1>4

\* The model is called with what was chosen for it.
LEMMA ChosenStays ==
  ASSUME Chosen, [Next]_vars
  PROVE  Chosen'
<1>e. ASSUME NEW s, EndWith(s)
      PROVE  Chosen'
  BY <1>e, TurnEnds DEF Chosen, OwnToolsOffered
<1>n. ASSUME NEW s, NextRound(s), stage = "calls"
      PROVE  Chosen'
  BY <1>n DEF NextRound, Chosen, OwnToolsOffered
<1>1. CASE Ask
  BY <1>1 DEF Ask, Chosen, OwnToolsOffered
<1>2. CASE ListTools
  BY <1>2 DEF ListTools, Chosen, OwnToolsOffered
<1>3. CASE Select
  <2>1. PICK skill \in {{}} \cup {{t} : t \in Skills} : Offers(cache', skill)
    BY <1>3 DEF Select
  <2>2. stage' = "model"
    BY <2>1 DEF Offers
  <2>3. CASE offered' = wanted'
    BY <2>2, <2>3 DEF Chosen, OwnToolsOffered
  <2>4. CASE \E maps \in Maps : offered' = Scope(wanted', maps[1], maps[2])
    <3>1. PICK maps \in Maps : offered' = Scope(wanted', maps[1], maps[2])
      BY <2>4
    <3>2. /\ \A t \in wanted' : ModuleOf[t] = Own => t \in offered'
          /\ wanted' # {} => offered' # {}
      BY <3>1, ScopeKeeps
    <3> QED
      BY <2>2, <3>2 DEF Chosen, OwnToolsOffered
  <2>5. offered' = wanted' \/ \E maps \in Maps : offered' = Scope(wanted', maps[1], maps[2])
    BY <2>1 DEF Offers
  <2> QED
    BY <2>3, <2>4, <2>5
<1>4. CASE Answer_
  BY <1>4, <1>e DEF Answer_
<1>5. CASE NudgeIt
  BY <1>5 DEF NudgeIt, Clear, Chosen, OwnToolsOffered
<1>6. CASE CallTools
  BY <1>6 DEF CallTools, Chosen, OwnToolsOffered
<1>7. CASE Dropped
  BY <1>7, <1>e DEF Dropped
<1>8. CASE CallSync
  <2>1. (\E s : EndWith(s)) \/ (stage' = "calls" /\ stage = "calls" /\ wanted' = wanted)
    BY <1>8 DEF CallSync
  <2> QED
    BY <1>e, <2>1 DEF Chosen, OwnToolsOffered
<1>9. CASE CallStream
  BY <1>9 DEF CallStream, Chosen, OwnToolsOffered
<1>10. CASE RoundStream
  BY <1>10, <1>e, <1>n DEF RoundStream
<1>11. CASE RoundSync
  BY <1>11, <1>e, <1>n DEF RoundSync
<1>12. CASE Environment
  BY <1>12 DEF Environment, turn, Chosen, OwnToolsOffered
<1>13. CASE Restart
  BY <1>13, <1>e DEF Restart
<1>14. CASE \E card \in session.cards, way \in {"sync", "stream"},
              verdict \in {"run", "declined", "refused"} : Confirm(card, way, verdict)
  BY <1>14, <1>e DEF Confirm
<1>15. CASE UNCHANGED vars
  BY <1>15 DEF vars, turn, Chosen, OwnToolsOffered
<1> QED
  BY <1>1, <1>2, <1>3, <1>4, <1>5, <1>6, <1>7, <1>8, <1>9, <1>10, <1>11, <1>12, <1>13, <1>14, <1>15
     DEF Next, Step

\* What the model may be given is listed.
LEMMA OffersAreListed ==
  ASSUME NEW listed, NEW skill, Offers(listed, skill)
  PROVE  offered' \subseteq listed
<1>1. Visible(listed) \subseteq listed
  BY DEF Visible
<1>2. \A hits : Retrieved(listed, hits, skill) \subseteq listed
  BY <1>1 DEF Retrieved
<1>3. \A picked, allowed, mapped : Scope(picked, allowed, mapped) \subseteq picked
  BY DEF Scope
<1>4. CASE offered' = wanted' /\ wanted' = skill \cap listed
  BY <1>4
<1>5. CASE /\ \E hits \in {{}} \cup {{t} : t \in Tools} : wanted' = Retrieved(listed, hits, skill)
           /\ offered' \in {Scope(wanted', maps[1], maps[2]) : maps \in Maps}
  BY <1>2, <1>3, <1>5
<1> QED
  BY <1>4, <1>5 DEF Offers

\* The tools that were given stay listed while their listing holds.
GivenAreListed == (given # {} => fresh) /\ given \subseteq cache \cap Risky

\* Where the tools and the calls that ran stay as they are.
LEMMA LookedKept ==
  ASSUME Looked, GivenAreListed', done' = done, path' = path, given' \subseteq given,
         stage' \in {"idle", "tools", "listing"} => stage \in {"idle", "tools", "listing"}
  PROVE  Looked'
BY DEF Looked, GivenAreListed, GivenWritesWait

\* A call that runs: of a risky write only when it was not given, by the sync way, or the gate
\* is off.
LEMMA LookedRuns ==
  ASSUME Shape, Looked, calls # <<>>, stage = "calls", NEW n \in Results_, Execute(Head(calls), n),
         path' = path, stage' = "calls", given' = given, GivenAreListed',
         gating /\ Head(calls) \in Mutations \cap Risky => path = "sync" /\ Head(calls) \notin given
  PROVE  Looked'
<1>1. /\ done' \in Seq(Ran)
      /\ Len(done') = Len(done) + 1 /\ done'[Len(done) + 1].tool = Head(calls)
      /\ done'[Len(done) + 1].gate = gating
      /\ \A k \in 1 .. Len(done) : done'[k] = done[k]
  BY OneRuns
<1>2. Len(done) \in Nat
  BY DEF Shape
<1>3. \A k \in 1 .. Len(done') : k \in 1 .. Len(done) \/ k = Len(done) + 1
  BY <1>1, <1>2
<1>4. \A k \in 1 .. Len(done) :
        done[k].gate /\ done[k].tool \in Mutations \cap Risky => path = "sync" /\ done[k].tool \notin given
  BY DEF Looked, GivenWritesWait
<1>5. GivenWritesWait'
  BY <1>1, <1>3, <1>4 DEF GivenWritesWait
<1> QED
  BY <1>5 DEF Looked, GivenAreListed

\* What runs was looked up as it ran.
LEMMA LookedStays ==
  ASSUME Shape, Looked, [Next]_vars
  PROVE  Looked'
<1>0. GivenAreListed /\ done \in Seq(Ran)
  BY DEF Shape, Looked, GivenAreListed
<1>d. ASSUME done' = <<>>, GivenAreListed'
      PROVE  Looked'
  <2>1. Len(done') = 0
    BY <1>d
  <2> QED
    BY <1>d, <2>1 DEF Looked, GivenAreListed, GivenWritesWait
<1>e. ASSUME NEW s, EndWith(s)
      PROVE  Looked'
  BY <1>d, <1>e, TurnEnds DEF GivenAreListed
<1>g. ASSUME given' = given, UNCHANGED registry \/ \E a : GetTools(a)
      PROVE  GivenAreListed'
  BY <1>0, <1>g DEF GivenAreListed, registry, GetTools, Refresh
<1>u. ASSUME done' = done, path' = path, given' = given, UNCHANGED registry,
             stage' \in {"idle", "tools", "listing"} => stage \in {"idle", "tools", "listing"}
      PROVE  Looked'
  BY <1>g, <1>u, LookedKept
<1>1. CASE Ask
  <2>1. GivenAreListed' /\ done = <<>> /\ done' = done
    BY <1>1, <1>g DEF Ask, Idle, Looked
  <2> QED
    BY <1>d, <2>1
<1>2. CASE ListTools
  BY <1>2, <1>u DEF ListTools
<1>3. CASE Select
  <2>1. PICK skill \in {{}} \cup {{t} : t \in Skills} : Offers(cache', skill)
    BY <1>3 DEF Select
  <2>2. given' = (IF fresh' THEN offered' \cap Risky ELSE {}) /\ done' = done /\ done = <<>>
    BY <1>3 DEF Select, Looked
  <2>3. GivenAreListed'
    BY <2>1, <2>2, OffersAreListed DEF GivenAreListed
  <2> QED
    BY <1>d, <2>2, <2>3
<1>4. CASE Answer_
  BY <1>4, <1>e DEF Answer_
<1>5. CASE NudgeIt
  <2>1. CASE rounds + 1 = MaxRounds
    <3>1. done' = <<>> /\ given' = {}
      BY <1>5, <2>1 DEF NudgeIt, Clear
    <3> QED
      BY <1>d, <3>1 DEF GivenAreListed
  <2>2. CASE rounds + 1 # MaxRounds
    BY <1>5, <1>u, <2>2 DEF NudgeIt
  <2> QED
    BY <2>1, <2>2
<1>6. CASE CallTools
  <2>1. GivenAreListed'
    BY <1>6, <1>g DEF CallTools, world
  <2> QED
    BY <1>6, <1>d, <1>u, <2>1 DEF CallTools
<1>7. CASE Dropped
  BY <1>7, <1>e DEF Dropped
<1>8. CASE CallSync
  <2>1. /\ path' = path /\ path = "sync" /\ stage = "calls" /\ calls # <<>>
        /\ \E a : GetTools(a)
    BY <1>8 DEF CallSync
  <2>2. CASE NeedsCard(Head(calls), cache')
    BY <1>8, <1>e, <2>2 DEF CallSync
  <2>3. CASE ~NeedsCard(Head(calls), cache')
    <3>1. PICK n \in Results_ : Execute(Head(calls), n)
      BY <1>8, <2>3 DEF CallSync
    <3>2. stage' = stage /\ given' = given
      BY <1>8, <2>3 DEF CallSync
    <3>3. GivenAreListed'
      BY <1>g, <2>1, <3>2
    <3>4. gating => Head(calls) \notin cache' \cap Risky
      BY <2>1, <2>3 DEF NeedsCard
    <3>5. gating => Head(calls) \notin given
      BY <3>2, <3>3, <3>4 DEF GivenAreListed
    <3> QED
      BY <2>1, <3>1, <3>2, <3>3, <3>5, LookedRuns
  <2> QED
    BY <2>2, <2>3
<1>9. CASE CallStream
  <2>1. /\ path' = path /\ path = "stream" /\ stage' = stage /\ stage = "calls" /\ calls # <<>>
        /\ given' = given /\ \E a : GetTools(a)
    BY <1>9 DEF CallStream
  <2>2. GivenAreListed'
    BY <1>g, <2>1
  <2>3. CASE NeedsCard(Head(calls), cache')
    <3>1. done' = done
      BY <1>9, <2>3 DEF CallStream
    <3> QED
      BY <2>1, <2>2, <3>1, LookedKept
  <2>4. CASE ~NeedsCard(Head(calls), cache')
    <3>1. PICK n \in Results_ : Execute(Head(calls), n)
      BY <1>9, <2>4 DEF CallStream
    <3>2. ~(gating /\ Head(calls) \in Mutations \cap Risky)
      BY <2>1, <2>4 DEF NeedsCard
    <3> QED
      BY <2>1, <2>2, <3>1, <3>2, LookedRuns
  <2> QED
    BY <2>3, <2>4
<1>10. CASE RoundStream
  <2>1. path' = path /\ stage = "calls" /\ UNCHANGED registry
    BY <1>10 DEF RoundStream
  <2>2. (\E s : EndWith(s)) \/ (done' = done /\ given' = given /\ stage' = "model")
    BY <1>10 DEF RoundStream, NextRound
  <2> QED
    BY <1>e, <1>u, <2>1, <2>2
<1>11. CASE RoundSync
  <2>1. path' = path /\ stage = "calls" /\ UNCHANGED registry
    BY <1>11 DEF RoundSync
  <2>2. (\E s : EndWith(s)) \/ (done' = done /\ given' = given /\ stage' = "model")
    BY <1>11 DEF RoundSync, NextRound
  <2> QED
    BY <1>e, <1>u, <2>1, <2>2
<1>12. CASE Environment
  <2>1. done' = done /\ path' = path /\ stage' = stage
    BY <1>12 DEF Environment, turn
  <2>2. \/ given' = {}
        \/ given' = given /\ cache' = cache /\ fresh' = fresh
    BY <1>12 DEF Environment
  <2>3. GivenAreListed' /\ given' \subseteq given
    BY <1>0, <2>2 DEF GivenAreListed
  <2> QED
    BY <2>1, <2>3, LookedKept
<1>13. CASE Restart
  BY <1>13, <1>e DEF Restart
<1>14. CASE \E card \in session.cards, way \in {"sync", "stream"},
              verdict \in {"run", "declined", "refused"} : Confirm(card, way, verdict)
  BY <1>14, <1>e DEF Confirm
<1>15. CASE UNCHANGED vars
  BY <1>15, <1>u DEF vars, turn
<1> QED
  BY <1>1, <1>2, <1>3, <1>4, <1>5, <1>6, <1>7, <1>8, <1>9, <1>10, <1>11, <1>12, <1>13, <1>14, <1>15
     DEF Next, Step

\* Where a message is in a session that has been added to.
LEMMA StaysWhereItIs ==
  ASSUME session \in Session, NEW n \in Seq(Message), NEW i \in 1 .. Len(session.msgs)
  PROVE  i \in 1 .. Len(Adding(n).msgs) /\ Adding(n).msgs[i] = session.msgs[i]
<1> DEFINE m == session.msgs
<1>1. m \in Seq(Message) /\ Adding(n).msgs = m \o n
  BY AddingIs DEF Session
<1> HIDE DEF m
<1>2. /\ Len(m) \in Nat /\ Len(n) \in Nat /\ Len(m \o n) = Len(m) + Len(n)
      /\ \A k \in 1 .. Len(m) : (m \o n)[k] = m[k]
  BY <1>1, Followed
<1>3. i \in 1 .. Len(m)
  BY DEF m
<1> QED
  BY <1>1, <1>2, <1>3 DEF m

\* The turn's message stays where it was put.
LEMMA PlacedStays ==
  ASSUME Shape, Placed, [Next]_vars
  PROVE  Placed'
<1>0. session \in Session
  BY DEF Shape
<1>e. ASSUME NEW s, EndWith(s)
      PROVE  Placed'
  BY <1>e, TurnEnds DEF Placed, Idle
<1>u. ASSUME session' = session, asked' = asked, stage # "idle" \/ stage' = "idle"
      PROVE  Placed'
  BY <1>u DEF Placed, Idle
<1>a. ASSUME NEW n \in Seq(Message), session' = Adding(n), asked' = asked, stage # "idle"
      PROVE  Placed'
  <2>1. asked \in 1 .. Len(session.msgs) /\ session.msgs[asked].role = "user"
    BY <1>a DEF Placed, Idle
  <2>2. asked \in 1 .. Len(Adding(n).msgs) /\ Adding(n).msgs[asked] = session.msgs[asked]
    BY <1>0, <2>1, StaysWhereItIs
  <2> QED
    BY <1>a, <2>1, <2>2 DEF Placed
<1>1. CASE Ask
  <2> DEFINE n == <<User(1)>>
             m == session.msgs
  <2>1. session' = Adding(n) /\ asked' = Len(session'.msgs)
    BY <1>1 DEF Ask
  <2>2. User(1) \in Message /\ User(1).role = "user"
    BY Messages
  <2>3. n \in Seq(Message) /\ Len(n) = 1 /\ n[1] = User(1) /\ m \in Seq(Message)
    BY <1>0, <2>2 DEF Session
  <2>4. session'.msgs = m \o n
    BY <1>0, <2>1, <2>3, AddingIs
  <2> HIDE DEF m, n
  <2>5. Len(m) \in Nat /\ Len(m \o n) = Len(m) + 1 /\ (m \o n)[Len(m) + 1] = User(1)
    BY <2>3, Followed
  <2>6. asked' \in 1 .. Len(session'.msgs) /\ session'.msgs[asked'] = User(1)
    BY <2>1, <2>4, <2>5
  <2> QED
    BY <2>2, <2>6 DEF Placed
<1>2. CASE ListTools
  BY <1>2, <1>u DEF ListTools
<1>3. CASE Select
  BY <1>3, <1>u DEF Select
<1>4. CASE Answer_
  BY <1>4, <1>e DEF Answer_
<1>5. CASE NudgeIt
  <2>1. session' = Adding(<<Assistant(<<>>), Nudge>>) /\ stage # "idle"
    BY <1>5 DEF NudgeIt
  <2>2. stage' = "idle" \/ asked' = asked
    BY <1>5 DEF NudgeIt
  <2> QED
    BY <1>a, <2>1, <2>2, QuietOnes DEF Placed, Idle
<1>6. CASE CallTools
  BY <1>6, <1>u DEF CallTools
<1>7. CASE Dropped
  BY <1>7, <1>e DEF Dropped
<1>8. CASE CallSync
  <2>1. CASE NeedsCard(Head(calls), cache')
    BY <1>8, <1>e, <2>1 DEF CallSync
  <2>2. CASE ~NeedsCard(Head(calls), cache')
    <3> DEFINE id == CallId(1, Head(calls))
    <3>1. PICK k \in Results_ : session' = Adding(<<Assistant(<<id>>), ToolResult(id, k)>>)
      BY <1>8, <2>2 DEF CallSync
    <3>2. asked' = asked /\ stage # "idle"
      BY <1>8, <2>2 DEF CallSync
    <3>3. id \in Id
      <4>1. Head(calls) \in Tools /\ 1 \in Nat
        BY <1>8 DEF CallSync, Shape
      <4> QED
        BY <1>0, <4>1, NextIds
    <3> HIDE DEF id
    <3>4. <<Assistant(<<id>>), ToolResult(id, k)>> \in Seq(Message)
      BY <3>3, ResultSizes, RunCompletes
    <3> QED
      BY <1>a, <3>1, <3>2, <3>4
  <2> QED
    BY <2>1, <2>2
<1>9. CASE CallStream
  BY <1>9, <1>u DEF CallStream
<1>10. CASE RoundStream
  <2>1. (\E s : EndWith(s)) \/ (session' = Recorded /\ asked' = asked /\ stage # "idle")
    BY <1>10 DEF RoundStream, NextRound
  <2>2. RoundAll \in Seq(Message) /\ Recorded = Adding(RoundAll)
    BY RoundMessages DEF Recorded, RoundAll, RoundIds, RoundRest
  <2> QED
    BY <1>a, <1>e, <2>1, <2>2
<1>11. CASE RoundSync
  <2>1. (\E s : EndWith(s)) \/ (session' = session /\ asked' = asked /\ stage # "idle")
    BY <1>11 DEF RoundSync, NextRound
  <2> QED
    BY <1>e, <1>u, <2>1
<1>12. CASE Environment
  BY <1>12, <1>u DEF Environment, turn
<1>13. CASE Restart
  BY <1>13, <1>e DEF Restart
<1>14. CASE \E card \in session.cards, way \in {"sync", "stream"},
              verdict \in {"run", "declined", "refused"} : Confirm(card, way, verdict)
  BY <1>14, <1>e DEF Confirm
<1>15. CASE UNCHANGED vars
  BY <1>15, <1>u DEF vars, turn
<1> QED
  BY <1>1, <1>2, <1>3, <1>4, <1>5, <1>6, <1>7, <1>8, <1>9, <1>10, <1>11, <1>12, <1>13, <1>14, <1>15
     DEF Next, Step

-----------------------------------------------------------------------------
(* The theorems.                                                           *)

\* At the start there is nothing.
LEMMA InitInv == Init => Inv
<1> SUFFICES ASSUME Init
             PROVE  Inv
  OBVIOUS
<1> DEFINE e == [msgs |-> <<>>, cards |-> {}, current |-> FALSE]
<1>1. session = e /\ saved = e /\ stage = "idle" /\ path = "sync" /\ calls = <<>> /\ done = <<>>
      /\ gated = <<>> /\ ~fresh /\ gating = TRUE /\ given = {}
  BY DEF Init, InitRegistry
<1>2. <<>> \in Seq(Message) /\ <<>> \in Seq(Tools) /\ <<>> \in Seq(Ran) /\ Len(<<>>) = 0
  OBVIOUS
<1>3. e \in Session
  BY <1>2 DEF Session
<1>4. Shape
  BY <1>1, <1>2, <1>3 DEF Shape
<1>5. FreshIsListed /\ Chosen /\ Looked /\ Placed
  BY <1>1, <1>2 DEF FreshIsListed, Chosen, OwnToolsOffered, Looked, GivenWritesWait, Placed, Idle
<1>6. Pairs(session) /\ Pairs(saved)
  <2>1. session.msgs = <<>> /\ saved.msgs = <<>> /\ session.cards = {} /\ saved.cards = {}
    BY <1>1
  <2>2. \A i \in Nat : \A x : ~Makes(<<>>, i, x) /\ ~Gives(<<>>, i, x)
    BY <1>2 DEF Makes, Gives
  <2> QED
    BY <2>1, <2>2 DEF Pairs, Paired, ResultsFollow, CallsEnd, CardsCalled
<1> QED
  BY <1>4, <1>5, <1>6 DEF Inv

\* Every step keeps the invariant.
LEMMA NextInv == Inv /\ [Next]_vars => Inv'
<1> SUFFICES ASSUME Inv, [Next]_vars
             PROVE  Inv'
  OBVIOUS
<1>1. GoodSessions
  BY DEF Inv, Shape, Pairs, GoodSessions, Good
<1>2. GoodSessions'
  BY <1>1, SessionsStayGood DEF Inv
<1>3. session' \in Session /\ saved' \in Session /\ Pairs(session)' /\ Pairs(saved)'
  BY <1>2 DEF GoodSessions, Good, Pairs
<1>4. TurnShape'
  BY TurnShapeStays DEF Inv
<1>5. Shape'
  BY <1>3, <1>4 DEF Shape, TurnShape
<1>6. FreshIsListed' /\ Chosen' /\ Looked' /\ Placed'
  BY FreshStays, ChosenStays, LookedStays, PlacedStays DEF Inv
<1> QED
  BY <1>3, <1>5, <1>6 DEF Inv

\* The invariant holds in every state.
LEMMA Invariance == Spec => []Inv
BY InitInv, NextInv, PTL DEF Spec

\* get_tools and select_tools: a catalogue that counts as current is what the server listed, and
\* the model keeps the tools of the caller's own module, whatever the maps of modules lack.
THEOREM OffersHold == Spec => []OffersAreRight
<1>1. Inv => OffersAreRight
  BY DEF Inv, Chosen, OffersAreRight
<1> QED
  BY <1>1, Invariance, PTL

\* _stream_loop and _process_tool_calls: while the gate is on, a risky write runs without its card
\* neither in a streamed turn nor, while the listing holds that the model was given its tools from,
\* in the other, for any catalogues and any changes to them between the offer and the call.
THEOREM WritesWait == Spec => []GivenWritesWait
<1>1. Inv => GivenWritesWait
  BY DEF Inv, Looked
<1> QED
  BY <1>1, Invariance, PTL

\* The window begins no later than the question, when what follows it fits.
LEMMA QuestionFits ==
  ASSUME Inv
  PROVE  QuestionIsInPrompt
<1> DEFINE m == session.msgs
           first == Fitting(m)
           users == UsersFrom(m, first)
<1> SUFFICES ASSUME stage = "model", Budget = 0 \/ SizeFrom(m, asked) <= Budget
             PROVE  WindowStart(m) <= asked
  BY DEF QuestionIsInPrompt
<1>1. asked \in 1 .. Len(m) /\ m[asked].role = "user"
  BY DEF Inv, Placed, Idle
<1>2. Len(m) \in Nat
  BY DEF Inv, Shape, Session
<1> HIDE DEF m
<1>3. asked \in Nat /\ 1 <= asked
  BY <1>1, <1>2
<1>4. CASE Budget = 0 \/ Len(m) <= 1
  BY <1>3, <1>4 DEF WindowStart, Fitting
<1>5. CASE ~(Budget = 0 \/ Len(m) <= 1)
  <2> DEFINE S == {i \in 1 .. Len(m) : SizeFrom(m, i) <= Budget} \cup {Len(m) + 1}
  <2>1. SizeFrom(m, asked) <= Budget
    BY <1>5
  <2>2. asked \in S /\ S \in SUBSET Nat
    BY <1>1, <1>2, <2>1
  <2>3. first = Min(S)
    BY <1>5 DEF Fitting
  <2> HIDE DEF S
  <2>4. first \in Nat /\ first <= asked
    BY <2>2, <2>3, MinIsLeast
  <2> HIDE DEF first
  <2>5. asked \in users /\ users \in SUBSET Nat
    BY <1>1, <1>2, <2>4 DEF UsersFrom
  <2>6. WindowStart(m) = Min(users)
    BY <1>5, <2>5 DEF WindowStart, first
  <2> HIDE DEF users
  <2> QED
    BY <2>5, <2>6, MinIsLeast
<1> QED
  BY <1>4, <1>5

\* The messages that fit begin at one of them, or behind them.
LEMMA FittingIsAPlace ==
  ASSUME NEW m \in Seq(Message)
  PROVE  Fitting(m) \in Nat \ {0}
<1>1. CASE Budget = 0 \/ Len(m) <= 1
  BY <1>1 DEF Fitting
<1>2. CASE ~(Budget = 0 \/ Len(m) <= 1)
  <2> DEFINE S == {i \in 1 .. Len(m) : SizeFrom(m, i) <= Budget} \cup {Len(m) + 1}
  <2>1. S \in SUBSET (Nat \ {0}) /\ S # {}
    OBVIOUS
  <2>2. Fitting(m) = Min(S)
    BY <1>2 DEF Fitting
  <2> HIDE DEF S
  <2> QED
    BY <2>1, <2>2, MinIsLeast
<1> QED
  BY <1>1, <1>2

\* A window with a user's turn in it begins with one, unless it is all of the session.
LEMMA WindowBegins ==
  ASSUME NEW m \in Seq(Message), UsersFrom(m, WindowStart(m)) # {}
  PROVE  WindowStart(m) = 1 \/ (WindowStart(m) \in Nat /\ m[WindowStart(m)].role = "user")
<1> DEFINE first == Fitting(m)
           users == UsersFrom(m, first)
<1>1. CASE Budget = 0 \/ Len(m) <= 1
  BY <1>1 DEF WindowStart, Fitting
<1>2. CASE ~(Budget = 0 \/ Len(m) <= 1) /\ users = {}
  BY <1>2 DEF WindowStart
<1>3. CASE ~(Budget = 0 \/ Len(m) <= 1) /\ users # {}
  <2>1. WindowStart(m) = Min(users)
    BY <1>3 DEF WindowStart
  <2>2. first \in Nat /\ Len(m) \in Nat
    BY FittingIsAPlace
  <2> HIDE DEF first
  <2>3. users \in SUBSET Nat /\ \A j \in users : m[j].role = "user"
    BY <2>2 DEF UsersFrom
  <2> HIDE DEF users
  <2>4. Min(users) \in users
    BY <1>3, <2>3, MinIsLeast
  <2> QED
    BY <2>1, <2>3, <2>4
<1> QED
  BY <1>1, <1>2, <1>3

\* A result whose call is before the window has a user's turn between them.
LEMMA PairsInWindow ==
  ASSUME NEW m \in Seq(Message), NEW cards, Paired(m, cards, settled),
         NEW r \in Results(m), r.at >= WindowStart(m), UsersFrom(m, WindowStart(m)) # {}
  PROVE  \/ \E c \in Calls(m) : c.id = r.id /\ WindowStart(m) <= c.at /\ c.at < r.at
         \/ \E c \in Calls(m) : c.id = r.id /\ \E u \in c.at .. r.at : m[u].role = "user"
         \/ r.id[2] = 0
<1> DEFINE start == WindowStart(m)
<1>1. /\ r.at \in 1 .. Len(m) /\ Len(m) \in Nat
      /\ Gives(m, r.at, r.id) /\ r.id = m[r.at].ids[1]
  BY CallsAndResultsAre
<1>2. start = 1 \/ (start \in Nat /\ m[start].role = "user")
  BY WindowBegins
<1>3. r.at >= start
  OBVIOUS
<1> HIDE DEF start
<1>5. ASSUME r.id[2] # 0
      PROVE  \E i \in Nat : i < r.at /\ Makes(m, i, r.id)
  <2>1. r.at \in Nat
    BY <1>1
  <2> QED
    BY <1>1, <1>5, <2>1 DEF Paired, ResultsFollow
<1>6. ASSUME NEW i \in Nat, i < r.at, Makes(m, i, r.id)
      PROVE  \/ \E c \in Calls(m) : c.id = r.id /\ start <= c.at /\ c.at < r.at
             \/ \E c \in Calls(m) : c.id = r.id /\ \E u \in c.at .. r.at : m[u].role = "user"
  <2> DEFINE c == [at |-> i, id |-> r.id]
  <2>1. c \in Calls(m)
    BY <1>6, CallsAndResultsAre
  <2>2. c.at = i /\ c.id = r.id /\ i >= 1
    BY <1>6 DEF Makes
  <2> HIDE DEF c
  <2>3. CASE start <= i
    BY <1>6, <2>1, <2>2, <2>3
  <2>4. CASE ~(start <= i)
    <3>1. start \in Nat /\ m[start].role = "user"
      BY <1>2, <2>2, <2>4
    <3>2. start \in i .. r.at
      BY <1>1, <1>3, <2>4, <3>1
    <3> QED
      BY <2>1, <2>2, <3>1, <3>2
  <2> QED
    BY <2>3, <2>4
<1> QED
  BY <1>5, <1>6 DEF start

\* What the store has keeps its calls and results together.
LEMMA PairsInStore ==
  ASSUME Inv
  PROVE  CallsAndResults
<1> DEFINE m == saved.msgs
<1>1. m \in Seq(Message) /\ Paired(m, saved.cards, settled)
  BY DEF Inv, Shape, Session, Pairs
<1> HIDE DEF m
<1>2. \A r \in Results(m) :
        (r.at >= WindowStart(m) /\ UsersFrom(m, WindowStart(m)) # {}) =>
          \/ \E c \in Calls(m) : c.id = r.id /\ WindowStart(m) <= c.at /\ c.at < r.at
          \/ \E c \in Calls(m) : c.id = r.id /\ \E u \in c.at .. r.at : m[u].role = "user"
          \/ r.id[2] = 0
  BY <1>1, PairsInWindow
<1>3. ASSUME NEW c \in Calls(m)
      PROVE  \/ \E r \in Results(m) : r.id = c.id /\ r.at > c.at
             \/ \E card \in saved.cards : card.call = c.id
             \/ c.id \in settled
  <2>1. c.at \in Nat /\ c.id \in Id /\ Makes(m, c.at, c.id)
    BY <1>1, CallsAndResultsAre
  <2>2. ASSUME NEW j \in Nat, c.at < j, Gives(m, j, c.id)
        PROVE  \E r \in Results(m) : r.id = c.id /\ r.at > c.at
    <3> DEFINE r == [at |-> j, id |-> c.id]
    <3>1. r \in Results(m)
      BY <1>1, <2>1, <2>2, CallsAndResultsAre
    <3>2. r.id = c.id /\ r.at > c.at
      BY <2>1, <2>2
    <3> QED
      BY <3>1, <3>2
  <2> QED
    BY <1>1, <2>1, <2>2 DEF Paired, CallsEnd
<1> QED
  BY <1>2, <1>3 DEF CallsAndResults, m

\* _windowed_messages and to_llm_messages: the model is given the question when its turn fits, and
\* the calls it is shown have their results, whatever way each card was answered.
THEOREM PromptHolds == Spec => []PromptIsWhole
<1>1. Inv => PromptIsWhole
  BY QuestionFits, PairsInStore DEF PromptIsWhole
<1> QED
  BY <1>1, Invariance, PTL
=============================================================================
