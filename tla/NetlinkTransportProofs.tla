------------------------ MODULE NetlinkTransportProofs ------------------------
(***************************************************************************)
(* Proofs about the calls on a netlink socket, for every width of the      *)
(* sequence numbers from 2 on, every timeout and any number of messages    *)
(* under way: a call tells its caller the answer to its own request, in    *)
(* full, or that it does not know.  The argument is InOrder of module      *)
(* NetlinkTransport: while nothing was dropped, what the call has read,    *)
(* the datagrams in the buffer and what the kernel owes make up the        *)
(* answer.                                                                 *)
(***************************************************************************)
EXTENDS NetlinkTransport, FiniteSetTheorems, SequenceTheorems, TLAPS

Numbers == 0..(SeqRange - 1)

\* The number a call has given its request is the one it expects in the reply.
LEMMA ExpectedIsLast ==
    ASSUME seq \in Numbers
    PROVE  /\ NextSeq \in Numbers
           /\ (NextSeq + SeqRange - 1) % SeqRange = seq
<1>1. CASE seq + 1 < SeqRange
  <2>1. NextSeq = seq + 1
    BY <1>1, SeqRangeAssumption DEF NextSeq, Numbers
  <2>2. (seq + SeqRange) % SeqRange = seq
    BY SeqRangeAssumption DEF Numbers
  <2> QED
    BY <1>1, <2>1, <2>2, SeqRangeAssumption DEF Numbers
<1>2. CASE seq + 1 = SeqRange
  <2>1. NextSeq = 0
    BY <1>2, SeqRangeAssumption DEF NextSeq, Numbers
  <2>2. (0 + SeqRange - 1) % SeqRange = seq
    BY <1>2, SeqRangeAssumption DEF Numbers
  <2> QED
    BY <2>1, <2>2, SeqRangeAssumption DEF Numbers
<1> QED
  BY <1>1, <1>2, SeqRangeAssumption DEF Numbers

Types == {"ack", "err", "data", "done"}

LEMMA TypesAre == "ack" \in Types /\ "err" \in Types /\ "data" \in Types /\ "done" \in Types
  BY DEF Types

\* An answer of one to three messages whose last one, and no other, ends a call
\* of kind k.
Complete(k, a) ==
    /\ a \in Seq(Types)
    /\ Len(a) \in 1..3
    /\ \A i \in 1..Len(a) : Ends(k, a[i]) <=> i = Len(a)

LEMMA OneMessage ==
    ASSUME NEW k, NEW x \in Types, Ends(k, x)
    PROVE  Complete(k, <<x>>)
  BY DEF Complete

LEMMA TwoMessages ==
    ASSUME NEW k, NEW x \in Types, NEW y \in Types, ~Ends(k, x), Ends(k, y)
    PROVE  Complete(k, <<x, y>>)
  BY DEF Complete

LEMMA ThreeMessages ==
    ASSUME NEW k, NEW x \in Types, NEW y \in Types, NEW z \in Types,
           ~Ends(k, x), ~Ends(k, y), Ends(k, z)
    PROVE  Complete(k, <<x, y, z>>)
  BY DEF Complete

\* Every answer the kernel may give is complete.
LEMMA LastEnds ==
    ASSUME NEW k \in Kinds, NEW a \in Answers(k)
    PROVE  Complete(k, a)
<1> USE TypesAre
<1>1. CASE k = "recv"
  <2>1. a \in {<<"ack">>, <<"err">>, <<"data">>}
    BY <1>1 DEF Answers
  <2>2. Ends(k, "ack") /\ Ends(k, "err") /\ Ends(k, "data")
    BY <1>1 DEF Ends
  <2> QED
    BY <2>1, <2>2, OneMessage
<1>2. CASE k = "ack"
  <2>1. a \in {<<"ack">>, <<"err">>}
    BY <1>2 DEF Answers
  <2>2. Ends(k, "ack") /\ Ends(k, "err")
    BY <1>2 DEF Ends
  <2> QED
    BY <2>1, <2>2, OneMessage
<1>3. CASE k = "flush"
  <2>1. a \in {<<"ack">>, <<"err">>, <<"data", "ack">>}
    BY <1>3 DEF Answers
  <2>2. Ends(k, "ack") /\ Ends(k, "err") /\ ~Ends(k, "data")
    BY <1>3 DEF Ends
  <2> QED
    BY <2>1, <2>2, OneMessage, TwoMessages
<1>4. CASE k = "dump"
  <2>1. a \in {<<"done">>, <<"err">>, <<"data", "done">>,
               <<"data", "data", "done">>, <<"data", "err">>}
    BY <1>4 DEF Answers
  <2>2. Ends(k, "done") /\ Ends(k, "err") /\ ~Ends(k, "data")
    BY <1>4 DEF Ends
  <2> QED
    BY <2>1, <2>2, OneMessage, TwoMessages, ThreeMessages
<1> QED
  BY <1>1, <1>2, <1>3, <1>4 DEF Kinds

\* What an answer stands for is an outcome the caller knows.
LEMMA OutcomeKnown ==
    ASSUME NEW k \in Kinds, NEW a \in Answers(k)
    PROVE  OutcomeOf(k, a) \in Outcomes
<1>1. Len(a) - 1 \in 0..2
  BY LastEnds DEF Complete
<1>2. \A type : Status(type) \in {"ok", "error"}
  BY DEF Status
<1> QED
  BY <1>1, <1>2 DEF OutcomeOf, Outcome, Outcomes, Counts

LEMMA BelowThree ==
    ASSUME NEW l \in 1..3, NEW m \in 0..l, m # l
    PROVE  m \in 0..2
  OBVIOUS

LEMMA NextMessages ==
    ASSUME NEW l \in 1..3, NEW o \in Nat, NEW m \in 0..l, m = l - o,
           NEW n \in 1..3, n <= o
    PROVE  m + n \in 0..l
  OBVIOUS

LEMMA CardinalityUpTo ==
    ASSUME NEW n \in Nat
    PROVE  Cardinality(1..n) = n
  BY FS_Interval

-----------------------------------------------------------------------------
(* The invariant *)

LEMMA InitInv == Init => Inv
<1> SUFFICES ASSUME Init PROVE Inv
  OBVIOUS
<1>1. TypeOK
  <2>1. overrun \in BOOLEAN
    BY Zenon DEF Init
  <2>2. Unknown \in Outcomes \cup {Unknown}
    OBVIOUS
  <2> QED
    BY <2>1, <2>2, SeqRangeAssumption, TimeoutAssumption DEF Init, TypeOK, Kinds
<1>2. InOrder
  BY DEF Init, InOrder
<1> QED
  BY <1>1, <1>2 DEF Inv

\* A step that leaves the call, the messages and the answer alone keeps their order.
LEMMA SameMessages ==
    ASSUME InOrder, UNCHANGED <<seq, kind, got, owed, rcv, overrun, answer>>
    PROVE  InOrder'
  BY DEF InOrder, Continues, Carries, Stale, Expected

-----------------------------------------------------------------------------
(* A request *)

LEMMA CallInv ==
    ASSUME Inv, NEW k \in Kinds, Call(k)
    PROVE  Inv'
<1> USE DEF Numbers
<1>1. PICK a \in Answers(k) :
        /\ owed' = owed \o [i \in DOMAIN a |-> [seq |-> seq, type |-> a[i]]]
        /\ answer' = OutcomeOf(k, a)
  BY DEF Call
<1> DEFINE new == [i \in DOMAIN a |-> [seq |-> seq, type |-> a[i]]]
<1>2. a \in Seq(Types) /\ Len(a) \in 1..3
  BY LastEnds DEF Complete
<1>3. new \in Seq(Messages) /\ Len(new) = Len(a)
  <2>1. DOMAIN a = 1..Len(a) /\ Len(a) \in Nat
    BY <1>2, LenProperties
  <2>2. \A i \in 1..Len(a) : [seq |-> seq, type |-> a[i]] \in Messages
    BY <1>2 DEF Messages, Types, Inv, TypeOK
  <2> QED
    BY <2>1, <2>2
<1>4. seq \in Numbers /\ owed \in Seq(Messages) /\ rcv \in Seq(Seq(Messages))
  BY DEF Inv, TypeOK
<1>5. /\ owed' \in Seq(Messages)
      /\ Len(owed') = Len(owed) + Len(a)
      /\ \A i \in 1..Len(owed) : owed'[i] = owed[i]
      /\ \A i \in (Len(owed) + 1)..Len(owed') : owed'[i] = new[i - Len(owed)]
  <2>1. owed' = owed \o new
    BY <1>1
  <2> HIDE DEF new
  <2>2. /\ owed' \in Seq(Messages)
        /\ Len(owed') = Len(owed) + Len(new)
        /\ \A i \in 1..(Len(owed) + Len(new)) :
             owed'[i] = IF i <= Len(owed) THEN owed[i] ELSE new[i - Len(owed)]
    BY <2>1, <1>3, <1>4, ConcatProperties, ZenonT(30)
  <2>3. Len(owed) \in Nat /\ Len(new) \in Nat
    BY <1>3, <1>4, LenProperties
  <2> QED
    BY <2>2, <2>3, <1>3
<1>6. NextSeq \in Numbers /\ Expected' = seq
  BY <1>4, ExpectedIsLast DEF Call, Expected
<1>7. TypeOK'
  <2>1. answer' \in Outcomes
    BY <1>1, OutcomeKnown
  <2> QED
    BY <2>1, <1>5, <1>6, TimeoutAssumption DEF Call, Inv, TypeOK
<1>8. InOrder'
  <2>0. PICK at \in [1..(Len(rcv) + 1) -> 0..Len(a)], e \in 0..Len(owed) :
          at = [j \in 1..(Len(rcv) + 1) |-> 0] /\ e = Len(owed)
    <3>1. [j \in 1..(Len(rcv) + 1) |-> 0] \in [1..(Len(rcv) + 1) -> 0..Len(a)]
      BY <1>2
    <3>2. Len(owed) \in 0..Len(owed)
      BY <1>4
    <3> QED
      BY <3>1, <3>2
  <2>1. \A j \in DOMAIN rcv : \A i \in DOMAIN rcv[j] : rcv[j][i].seq # Expected'
    <3> SUFFICES ASSUME NEW j \in DOMAIN rcv, NEW i \in DOMAIN rcv[j]
                 PROVE  rcv[j][i].seq # seq
      BY <1>6
    <3>1. rcv[j][i] \in UnderWay
      BY DEF UnderWay, ToSet
    <3> QED
      BY <3>1 DEF Call, Fresh
  <2>2. \A i \in 1..e : owed'[i].seq # Expected'
    <3> SUFFICES ASSUME NEW i \in 1..e
                 PROVE  owed[i].seq # seq
      BY <1>5, <1>6, <2>0
    <3>1. owed[i] \in UnderWay
      BY <1>4, <2>0, SMTT(30) DEF UnderWay, ToSet
    <3> QED
      BY <3>1 DEF Call, Fresh
  <2>3. ASSUME NEW i \in (e + 1)..Len(owed')
        PROVE  /\ owed'[i].seq = Expected'
               /\ owed'[i].type = a[Len(a) - Len(owed') + i]
    <3>1. i - e \in DOMAIN a /\ i - e = Len(a) - Len(owed') + i
      BY <1>2, <1>4, <1>5, <2>0, LenProperties
    <3>2. owed'[i] = [seq |-> seq, type |-> a[i - e]]
      BY <3>1, <1>4, <1>5, <2>0
    <3> QED
      BY <3>1, <3>2, <1>6
  <2>4. at \in [1..(Len(rcv') + 1) -> 0..Len(a)] /\ e \in 0..Len(owed')
    BY <1>2, <1>4, <1>5, <2>0 DEF Call
  <2>5. Continues(a, at, e)'
    <3>1. at[1] = got' /\ at[Len(rcv) + 1] = 0
      BY <1>4, <2>0 DEF Call
    <3>2. \A j \in DOMAIN rcv : at[j + 1] = at[j]
      BY <1>4, <2>0
    <3>3. at[Len(rcv) + 1] + Len(owed') - e = Len(a)
      BY <3>1, <1>2, <1>4, <1>5, <2>0
    <3>4. rcv' = rcv
      BY DEF Call
    <3> QED
      BY <3>1, <3>2, <3>3, <3>4, <2>1, <2>2, <2>3 DEF Continues, Stale
  <2>6. kind' = k
    BY DEF Call
  <2> QED
    BY <1>1, <2>4, <2>5, <2>6 DEF InOrder
<1> QED
  BY <1>7, <1>8 DEF Inv

-----------------------------------------------------------------------------
(* A datagram is read *)

\* The call ends with the answer, or it goes on and has read the messages of the
\* datagram with its number; the rest stays in order.
LEMMA ReceiveInOrder ==
    ASSUME Inv, Receive
    PROVE  \/ kind' = "none" /\ told' = answer /\ got' = 0 /\ waited' = waited
           \/ /\ kind' = kind /\ told' = told /\ waited' = 0
              /\ got' \in 0..2 /\ InOrder'
<1>0. kind \in Kinds /\ ~overrun /\ rcv # <<>>
  BY DEF Receive, Inv, TypeOK
<1>1. PICK a \in Answers(kind) :
        /\ answer = OutcomeOf(kind, a)
        /\ \E at \in [1..(Len(rcv) + 1) -> 0..Len(a)], e \in 0..Len(owed) :
             Continues(a, at, e)
  BY <1>0 DEF Inv, InOrder, Kinds
<1>2. PICK at \in [1..(Len(rcv) + 1) -> 0..Len(a)], e \in 0..Len(owed) :
        Continues(a, at, e)
  BY <1>1
<1>3. Complete(kind, a) /\ Len(a) \in 1..3
  BY <1>0, LastEnds DEF Complete
<1> DEFINE d == Head(rcv)
           mine == Mine(d)
           last == {i \in mine : Ends(kind, d[i].type)}
           Before(n) == Cardinality({i \in mine : i < n})
<1>4. /\ rcv \in Seq(Seq(Messages)) /\ owed \in Seq(Messages)
      /\ got \in 0..2
      /\ Len(rcv) \in Nat /\ Len(rcv) >= 1 /\ DOMAIN rcv = 1..Len(rcv)
      /\ d \in Seq(Messages) /\ d = rcv[1]
      /\ Len(d) \in Nat /\ DOMAIN d = 1..Len(d)
  <2>1. rcv \in Seq(Seq(Messages)) /\ owed \in Seq(Messages) /\ got \in 0..2
    BY DEF Inv, TypeOK
  <2> QED
    BY <2>1, <1>0, LenProperties, HeadTailProperties
<1>5. /\ rcv' = Tail(rcv) /\ Len(rcv') = Len(rcv) - 1
      /\ \A j \in 1..Len(rcv') : rcv'[j] = rcv[j + 1]
      /\ DOMAIN rcv' = 1..Len(rcv')
      /\ UNCHANGED <<seq, owed, overrun, answer>>
  <2>1. rcv' = Tail(rcv) /\ UNCHANGED <<seq, owed, overrun, answer>>
    BY DEF Receive
  <2> QED
    BY <2>1, <1>0, <1>4, LenProperties, HeadTailProperties
<1>6. IF last # {}
      THEN /\ Return(Outcome(Status(d[Min(last)].type),
                             IF Counts(kind) THEN got + Before(Min(last)) ELSE 0))
           /\ got' = 0 /\ waited' = waited
      ELSE /\ got' = got + Cardinality(mine)
           /\ waited' = 0 /\ kind' = kind /\ told' = told
  BY DEF Receive
\* What is left in the buffer continues where this datagram ends.
<1>7. ASSUME kind' = kind, got' = at[2], got' \in 0..2
      PROVE  InOrder'
  <2>1. PICK at2 \in [1..(Len(rcv') + 1) -> 0..Len(a)] :
          at2 = [j \in 1..(Len(rcv') + 1) |-> at[j + 1]]
    <3>1. [j \in 1..(Len(rcv') + 1) |-> at[j + 1]] \in [1..(Len(rcv') + 1) -> 0..Len(a)]
      BY <1>4, <1>5
    <3> QED
      BY <3>1
  <2>2. at2[1] = got' /\ at2[Len(rcv') + 1] = at[Len(rcv) + 1]
    BY <1>4, <1>5, <1>7, <2>1
  <2>3. \A j \in DOMAIN rcv' : /\ at2[j] = at[j + 1] /\ at2[j + 1] = at[(j + 1) + 1]
                               /\ j + 1 \in DOMAIN rcv /\ rcv'[j] = rcv[j + 1]
    BY <1>4, <1>5, <2>1
  <2>4. Expected' = Expected
    BY <1>5 DEF Expected
  <2>5. ASSUME NEW j \in DOMAIN rcv'
        PROVE  (\/ Carries(rcv[j], a, at2[j], at2[j + 1])
                \/ Stale(rcv[j]) /\ at2[j + 1] = at2[j])'
    <3>1. \/ Carries(rcv[j + 1], a, at[j + 1], at[(j + 1) + 1])
          \/ Stale(rcv[j + 1]) /\ at[(j + 1) + 1] = at[j + 1]
      BY <1>2, <2>3 DEF Continues
    <3> QED
      BY <3>1, <2>3, <2>4 DEF Carries, Stale
  <2>6. Continues(a, at2, e)'
    BY <1>2, <1>5, <2>2, <2>4, <2>5 DEF Continues, Carries, Stale
  <2> QED
    BY <1>1, <1>5, <1>7, <2>1, <2>6 DEF InOrder
<1>8. 1 \in DOMAIN rcv /\ at[1] = got /\ 2 \in 1..(Len(rcv) + 1)
  BY <1>2, <1>4 DEF Continues
\* The datagram has no message with the number of the call.
<1>9. CASE Stale(d) /\ at[2] = at[1]
  <2>1. mine = {}
    BY <1>9 DEF Stale, Mine
  <2>2. last = {} /\ Cardinality(mine) = 0
    BY <2>1, FS_EmptySet
  <2> HIDE DEF mine, last
  <2>3. got' = at[2] /\ waited' = 0 /\ kind' = kind /\ told' = told /\ got' \in 0..2
    BY <1>4, <1>6, <1>8, <1>9, <2>2
  <2> QED
    BY <2>3, <1>7
\* It has the next messages of the answer.
<1>10. CASE Carries(d, a, at[1], at[2])
  <2>1. /\ mine = 1..Len(d)
        /\ at[2] = got + Len(d) /\ at[2] <= Len(a)
        /\ \A i \in 1..Len(d) : d[i].type = a[got + i]
    BY <1>2, <1>3, <1>4, <1>8, <1>10, SMTT(30) DEF Carries, Mine
  <2>2. ASSUME NEW i \in 1..Len(d)
        PROVE  Ends(kind, d[i].type) <=> got + i = Len(a)
    <3>1. got + i \in 1..Len(a)
      BY <1>3, <1>4, <2>1
    <3> QED
      BY <3>1, <1>3, <2>1 DEF Complete
  <2>3. last = {i \in 1..Len(d) : got + i = Len(a)}
    BY <2>1, <2>2
  <2>4. CASE Len(d) # 0 /\ at[2] = Len(a)
    <3>1. last = {Len(d)}
      BY <1>3, <1>4, <2>1, <2>3, <2>4, SMTT(30)
    <3>2. Min(last) = Len(d)
      BY <3>1, <1>4 DEF Min
    <3>3. {i \in mine : i < Len(d)} = 1..(Len(d) - 1)
      BY <2>1, <1>4
    <3>4. Before(Min(last)) = Len(d) - 1
      <4>1. Cardinality(1..(Len(d) - 1)) = Len(d) - 1
        BY <1>4, <2>4, FS_Interval
      <4> QED
        BY <4>1, <3>2, <3>3
    <3>5. d[Len(d)].type = Last(a) /\ got + (Len(d) - 1) = Len(a) - 1
      BY <1>3, <1>4, <2>1, <2>4 DEF Last
    <3> HIDE DEF d, mine, last, Before
    <3>6. /\ Return(OutcomeOf(kind, a)) /\ got' = 0 /\ waited' = waited
      BY <1>6, <3>1, <3>2, <3>4, <3>5 DEF OutcomeOf
    <3> QED
      BY <3>6, <1>1 DEF Return
  <2>5. CASE Len(d) = 0 \/ at[2] # Len(a)
    <3>1. last = {}
      BY <1>3, <1>4, <2>1, <2>3, <2>5
    <3>2. Cardinality(mine) = Len(d)
      <4>1. Cardinality(1..Len(d)) = Len(d)
        <5>1. Len(d) \in Nat
          BY <1>4
        <5> HIDE DEF d
        <5> QED
          BY <5>1, CardinalityUpTo
      <4> QED
        BY <4>1, <2>1
    <3>3. at[2] \in 0..2
      <4>1. CASE Len(d) = 0
        BY <4>1, <1>4, <2>1
      <4>2. CASE at[2] # Len(a)
        <5>1. at[2] \in 0..Len(a)
          BY <1>2, <1>8
        <5> QED
          BY <4>2, <5>1, <1>3, BelowThree
      <4> QED
        BY <4>1, <4>2, <2>5
    <3> HIDE DEF d, mine, last
    <3>4. got' = at[2] /\ waited' = 0 /\ kind' = kind /\ told' = told /\ got' \in 0..2
      BY <1>6, <2>1, <3>1, <3>2, <3>3
    <3> QED
      BY <3>4, <1>7
  <2> QED
    BY <2>4, <2>5
<1>11. \/ Carries(d, a, at[1], at[2])
       \/ Stale(d) /\ at[2] = at[1]
  <2>1. \/ Carries(rcv[1], a, at[1], at[1 + 1])
        \/ Stale(rcv[1]) /\ at[1 + 1] = at[1]
    BY <1>2, <1>8 DEF Continues
  <2> QED
    BY <2>1, <1>4
<1> QED
  BY <1>9, <1>10, <1>11

LEMMA ReceiveInv ==
    ASSUME Inv, Receive
    PROVE  Inv'
<1>1. CASE kind' = "none" /\ told' = answer /\ got' = 0 /\ waited' = waited
  <2>1. InOrder'
    BY <1>1 DEF InOrder
  <2>2. rcv' \in Seq(Seq(Messages)) /\ UNCHANGED <<seq, owed, overrun, answer, total>>
    BY HeadTailProperties DEF Receive, Inv, TypeOK
  <2> QED
    BY <1>1, <2>1, <2>2 DEF Inv, TypeOK
<1>2. CASE /\ kind' = kind /\ told' = told /\ waited' = 0
           /\ got' \in 0..2 /\ InOrder'
  <2>1. rcv' \in Seq(Seq(Messages)) /\ UNCHANGED <<seq, owed, overrun, answer, total>>
    BY HeadTailProperties DEF Receive, Inv, TypeOK
  <2> QED
    BY <1>2, <2>1, TimeoutAssumption DEF Inv, TypeOK
<1> QED
  BY <1>1, <1>2, ReceiveInOrder

-----------------------------------------------------------------------------
(* The other steps of a call *)

\* A call that gives up leaves the messages where they are, or reads a datagram of
\* them and loses it.
LEMMA GiveUpInv ==
    ASSUME Inv, ReceiveFails \/ ReceiveTruncated \/ PollInterrupted \/ PollTimesOut
    PROVE  Inv'
<1>1. /\ kind' = "none" /\ told' = Unknown /\ got' = 0 /\ overrun' \in BOOLEAN
      /\ (rcv' = rcv) \/ (rcv # <<>> /\ rcv' = Tail(rcv))
      /\ UNCHANGED <<seq, owed, answer, waited, total>>
  BY DEF ReceiveFails, ReceiveTruncated, PollInterrupted, PollTimesOut, Return, kernelVars,
         Inv, TypeOK
<1>2. TypeOK'
  <2>1. rcv' \in Seq(Seq(Messages))
    BY <1>1, HeadTailProperties DEF Inv, TypeOK
  <2> QED
    BY <1>1, <2>1 DEF Inv, TypeOK
<1>3. InOrder'
  BY <1>1 DEF InOrder
<1> QED
  BY <1>2, <1>3 DEF Inv

LEMMA TickInv ==
    ASSUME Inv, Tick
    PROVE  Inv'
<1>1. /\ waited < Timeout /\ waited' = waited + 1
      /\ total' = IF total <= Timeout THEN total + 1 ELSE total
      /\ UNCHANGED <<seq, kind, got, told, owed, rcv, overrun, answer>>
  BY DEF Tick, kernelVars
<1>2. TypeOK'
  BY <1>1, TimeoutAssumption DEF Inv, TypeOK
<1>3. InOrder'
  BY <1>1, SameMessages DEF Inv
<1> QED
  BY <1>2, <1>3 DEF Inv

LEMMA SendFailsInv ==
    ASSUME Inv, SendFails
    PROVE  Inv'
<1>1. /\ kind' = "none" /\ got' = 0 /\ told' = Unknown /\ answer' = Unknown
      /\ seq' \in {seq, NextSeq} /\ UNCHANGED <<owed, rcv, overrun, waited, total>>
  BY DEF SendFails, kernelVars
<1>2. NextSeq \in Numbers
  BY ExpectedIsLast DEF Inv, TypeOK, Numbers
<1>3. TypeOK'
  BY <1>1, <1>2 DEF Inv, TypeOK, Numbers
<1>4. InOrder'
  BY <1>1 DEF InOrder
<1> QED
  BY <1>3, <1>4 DEF Inv

-----------------------------------------------------------------------------
(* The kernel *)

\* What is dropped is missed by the call, which the overrun tells it.
LEMMA DropInv ==
    ASSUME Inv, Drop
    PROVE  Inv'
<1>1. owed' \in Seq(Messages)
  BY HeadTailProperties DEF Drop, Inv, TypeOK
<1>2. TypeOK'
  BY <1>1 DEF Drop, Inv, TypeOK
<1>3. InOrder'
  BY DEF Drop, InOrder
<1> QED
  BY <1>2, <1>3 DEF Inv

\* A datagram takes the next messages: those left of earlier answers, or those
\* that continue the answer to the call.
LEMMA DeliverInv ==
    ASSUME Inv, NEW n \in 1..3, Deliver(n)
    PROVE  Inv'
<1> DEFINE d == SubSeq(owed, 1, n)
<1>1. /\ owed \in Seq(Messages) /\ rcv \in Seq(Seq(Messages))
      /\ Len(owed) \in Nat /\ n <= Len(owed) /\ Len(rcv) \in Nat
      /\ DOMAIN rcv = 1..Len(rcv)
      /\ \A i \in 1..Len(owed) : owed[i] \in Messages
  BY ElementOfSeq, LenProperties DEF Inv, TypeOK, Deliver
<1>2. /\ d \in Seq(Messages) /\ Len(d) = n /\ DOMAIN d = 1..n
      /\ \A i \in 1..n : d[i] = owed[i]
  <2>1. /\ d \in Seq(Messages) /\ Len(d) = n
        /\ \A i \in 1..n : d[i] = owed[i]
    BY <1>1, SubSeqProperties
  <2> QED
    BY <2>1, LenProperties
<1>3. /\ owed' \in Seq(Messages) /\ Len(owed') = Len(owed) - n
      /\ \A i \in 1..Len(owed') : owed'[i] = owed[n + i]
  <2>1. owed' = SubSeq(owed, n + 1, Len(owed))
    BY DEF Deliver
  <2>2. \A i \in (n + 1)..Len(owed) : owed[i] \in Messages
    BY <1>1
  <2>3. /\ owed' \in Seq(Messages)
        /\ Len(owed') = IF n + 1 <= Len(owed) THEN Len(owed) - (n + 1) + 1 ELSE 0
        /\ \A i \in 1..(Len(owed) - (n + 1) + 1) : owed'[i] = owed[(n + 1) + i - 1]
    BY <1>1, <2>1, <2>2, SubSeqProperties
  <2> QED
    BY <1>1, <2>3
<1>4. /\ rcv' \in Seq(Seq(Messages)) /\ Len(rcv') = Len(rcv) + 1
      /\ \A j \in 1..Len(rcv) : rcv'[j] = rcv[j]
      /\ rcv'[Len(rcv) + 1] = d
      /\ DOMAIN rcv' = 1..(Len(rcv) + 1)
  <2>1. rcv' = Append(rcv, d)
    BY DEF Deliver
  <2> HIDE DEF d
  <2> QED
    BY <1>1, <1>2, <2>1, AppendProperties, LenProperties
<1>5. UNCHANGED <<seq, kind, got, told, overrun, answer, waited, total>>
  BY DEF Deliver
<1> HIDE DEF d
<1>6. TypeOK'
  BY <1>3, <1>4, <1>5 DEF Inv, TypeOK
<1>7. ASSUME kind # "none", ~overrun
      PROVE  InOrder'
  <2>1. PICK a \in Answers(kind) :
          /\ answer = OutcomeOf(kind, a)
          /\ \E at \in [1..(Len(rcv) + 1) -> 0..Len(a)], e \in 0..Len(owed) :
               Continues(a, at, e)
    BY <1>7 DEF Inv, InOrder
  <2>2. PICK at \in [1..(Len(rcv) + 1) -> 0..Len(a)], e \in 0..Len(owed) :
          Continues(a, at, e)
    BY <2>1
  <2>3. Len(a) \in 1..3
    BY <1>7, LastEnds DEF Complete, Inv, TypeOK
  <2>4. Expected' = Expected
    BY <1>5 DEF Expected
  <2>5. \A i \in 1..n : owed[i].seq = owed[1].seq
    BY DEF Deliver
  <2>6. /\ at[1] = got
        /\ at[Len(rcv) + 1] + Len(owed) - e = Len(a)
        /\ \A i \in 1..e : owed[i].seq # Expected
        /\ \A i \in (e + 1)..Len(owed) :
             owed[i].seq = Expected /\ owed[i].type = a[Len(a) - Len(owed) + i]
    BY <2>2 DEF Continues
  \* In both cases: where the new datagram ends, and what is owed after it.
  <2>7. ASSUME NEW m \in 0..Len(a), NEW f \in 0..Len(owed'),
               \/ Carries(d, a, at[Len(rcv) + 1], m)
               \/ Stale(d) /\ m = at[Len(rcv) + 1],
               m + Len(owed') - f = Len(a),
               \A i \in 1..f : owed'[i].seq # Expected,
               \A i \in (f + 1)..Len(owed') :
                 /\ owed'[i].seq = Expected
                 /\ owed'[i].type = a[Len(a) - Len(owed') + i]
        PROVE  InOrder'
    <3>1. PICK at2 \in [1..(Len(rcv') + 1) -> 0..Len(a)] :
            at2 = [j \in 1..(Len(rcv') + 1) |-> IF j <= Len(rcv) + 1 THEN at[j] ELSE m]
      <4>1. [j \in 1..(Len(rcv') + 1) |-> IF j <= Len(rcv) + 1 THEN at[j] ELSE m]
              \in [1..(Len(rcv') + 1) -> 0..Len(a)]
        BY <1>1, <1>4
      <4> QED
        BY <4>1
    <3>2. /\ at2[1] = got'
          /\ at2[Len(rcv') + 1] = m
          /\ at2[Len(rcv) + 1] = at[Len(rcv) + 1] /\ at2[(Len(rcv) + 1) + 1] = m
          /\ \A j \in 1..Len(rcv) : at2[j] = at[j] /\ at2[j + 1] = at[j + 1]
      <4>1. /\ 1 \in 1..(Len(rcv') + 1) /\ 1 <= Len(rcv) + 1
            /\ Len(rcv) + 1 \in 1..(Len(rcv') + 1)
            /\ Len(rcv') + 1 = (Len(rcv) + 1) + 1
            /\ (Len(rcv) + 1) + 1 \in 1..(Len(rcv') + 1)
        BY <1>1, <1>4
      <4>2. \A j \in 1..Len(rcv) : /\ j \in 1..(Len(rcv') + 1) /\ j <= Len(rcv) + 1
                                   /\ j + 1 \in 1..(Len(rcv') + 1) /\ j + 1 <= Len(rcv) + 1
        <5>1. Len(rcv') = Len(rcv) + 1 /\ Len(rcv) \in Nat
          BY <1>1, <1>4
        <5> QED
          BY <5>1
      <4>3. /\ at2[1] = at[1]
            /\ at2[Len(rcv) + 1] = at[Len(rcv) + 1]
            /\ at2[(Len(rcv) + 1) + 1] = m
        BY <1>1, <3>1, <4>1
      <4>4. \A j \in 1..Len(rcv) : at2[j] = at[j] /\ at2[j + 1] = at[j + 1]
        BY <3>1, <4>2
      <4> QED
        BY <1>5, <2>6, <4>1, <4>3, <4>4
    <3>3. ASSUME NEW j \in DOMAIN rcv'
          PROVE  (\/ Carries(rcv[j], a, at2[j], at2[j + 1])
                  \/ Stale(rcv[j]) /\ at2[j + 1] = at2[j])'
      <4>1. CASE j = Len(rcv) + 1
        BY <1>4, <2>4, <2>7, <3>2, <4>1 DEF Carries, Stale
      <4>2. CASE j \in 1..Len(rcv)
        <5>1. \/ Carries(rcv[j], a, at[j], at[j + 1])
              \/ Stale(rcv[j]) /\ at[j + 1] = at[j]
          BY <1>1, <2>2, <4>2 DEF Continues
        <5> QED
          BY <5>1, <1>4, <2>4, <3>2, <4>2 DEF Carries, Stale
      <4> QED
        BY <1>1, <1>4, <4>1, <4>2
    <3>4. Continues(a, at2, f)'
      BY <2>4, <2>7, <3>2, <3>3 DEF Continues
    <3> QED
      BY <1>5, <2>1, <3>1, <3>4 DEF InOrder
  <2>8. CASE owed[1].seq = Expected
    <3>1. e = 0
      <4>1. e \in Nat /\ ~(1 \in 1..e)
        BY <2>2, <2>6, <2>8
      <4> QED
        BY <4>1
    <3>2. PICK m \in 0..Len(a) : m = at[Len(rcv) + 1] /\ m = Len(a) - Len(owed)
      <4>1. at[Len(rcv) + 1] \in 0..Len(a)
        BY <1>1, <2>2
      <4> QED
        BY <4>1, <1>1, <2>3, <2>6, <3>1
    <3>3. m + n \in 0..Len(a)
      BY <1>1, <2>3, <3>2, NextMessages
    <3>4. Carries(d, a, m, m + n)
      <4>1. ASSUME NEW i \in 1..n
            PROVE  d[i].seq = Expected /\ d[i].type = a[m + i]
        <5>1. i \in (e + 1)..Len(owed) /\ d[i] = owed[i]
          BY <1>1, <1>2, <3>1
        <5>2. Len(a) - Len(owed) + i = m + i
          BY <3>2
        <5> QED
          BY <2>6, <5>1, <5>2
      <4> QED
        BY <1>2, <4>1 DEF Carries
    <3>5. m + n + Len(owed') - e = Len(a) /\ e \in 0..Len(owed')
      BY <1>1, <1>3, <2>3, <3>1, <3>2
    <3>6. ASSUME NEW i \in (e + 1)..Len(owed')
          PROVE  /\ owed'[i].seq = Expected
                 /\ owed'[i].type = a[Len(a) - Len(owed') + i]
      <4>1. /\ n + i \in (e + 1)..Len(owed) /\ i \in 1..Len(owed')
            /\ owed'[i] = owed[n + i]
        BY <1>1, <1>3, <3>1
      <4>2. Len(a) - Len(owed) + (n + i) = Len(a) - Len(owed') + i
        BY <1>1, <1>3, <2>3, <4>1
      <4> QED
        BY <2>6, <4>1, <4>2
    <3>7. \A i \in 1..e : owed'[i].seq # Expected
      BY <3>1
    <3> QED
      BY <2>7, <3>2, <3>3, <3>4, <3>5, <3>6, <3>7
  <2>9. CASE owed[1].seq # Expected
    <3>1. n <= e
      <4>1. owed[n].seq # Expected /\ n \in 1..Len(owed)
        BY <1>1, <2>5, <2>9
      <4> QED
        BY <1>1, <2>6, <4>1
    <3>2. Stale(d)
      BY <1>2, <2>5, <2>9 DEF Stale
    <3>3. at[Len(rcv) + 1] \in 0..Len(a) /\ e - n \in 0..Len(owed')
      BY <1>1, <1>3, <2>2, <3>1
    <3>4. at[Len(rcv) + 1] + Len(owed') - (e - n) = Len(a)
      BY <1>1, <1>3, <2>3, <2>6, <3>3, SMTT(30)
    <3>5. ASSUME NEW i \in 1..(e - n)
          PROVE  owed'[i].seq # Expected
      <4>1. n + i \in 1..e /\ i \in 1..Len(owed')
        BY <1>1, <1>3, <2>2, <3>1
      <4> QED
        BY <1>3, <2>6, <4>1
    <3>6. ASSUME NEW i \in ((e - n) + 1)..Len(owed')
          PROVE  /\ owed'[i].seq = Expected
                 /\ owed'[i].type = a[Len(a) - Len(owed') + i]
      <4>1. n + i \in (e + 1)..Len(owed) /\ owed'[i] = owed[n + i]
        BY <1>1, <1>3, <3>1, SMTT(30)
      <4>2. Len(a) - Len(owed) + (n + i) = Len(a) - Len(owed') + i
        BY <1>1, <1>3, <2>3, <4>1
      <4> QED
        BY <2>6, <4>1, <4>2
    <3> QED
      BY <2>7, <3>2, <3>3, <3>4, <3>5, <3>6
  <2> QED
    BY <2>8, <2>9
<1>8. InOrder'
  BY <1>5, <1>7 DEF InOrder
<1> QED
  BY <1>6, <1>8 DEF Inv

-----------------------------------------------------------------------------
(* Theorems *)

LEMMA NextInv == Inv /\ [Next]_vars => Inv'
<1> SUFFICES ASSUME Inv, [Next]_vars PROVE Inv'
  OBVIOUS
<1>1. CASE Client
  BY <1>1, ReceiveInv, GiveUpInv, TickInv DEF Client
<1>2. CASE Kernel
  BY <1>2, DropInv, DeliverInv DEF Kernel
<1>3. CASE SendFails
  BY <1>3, SendFailsInv
<1>4. CASE \E k \in Kinds : Call(k)
  BY <1>4, CallInv
<1>5. CASE UNCHANGED vars
  <2>1. TypeOK'
    BY <1>5 DEF vars, kernelVars, Inv, TypeOK
  <2>2. InOrder'
    BY <1>5, SameMessages DEF vars, kernelVars, Inv
  <2> QED
    BY <2>1, <2>2 DEF Inv
<1> QED
  BY <1>1, <1>2, <1>3, <1>4, <1>5 DEF Next

\* Whatever is late, dropped or left over: the numbers stay in their range, and
\* as long as nothing was dropped, what the call under way has read, the
\* datagrams with its number and the messages the kernel still owes make up the
\* answer to its request, in order and without a gap.
THEOREM InvHolds == Spec => []Inv
  BY InitInv, NextInv, PTL DEF Spec

\* The calls are those of RequestReply.
LEMMA StepIsCall ==
    ASSUME Inv, [Next]_vars
    PROVE  [RR!Next]_(RR!vars)
<1> DEFINE asking == kind # "none"
<1>1. ASSUME NEW k \in Kinds, Call(k)
      PROVE  RR!Ask
  <2>1. kind = "none" /\ kind' # "none" /\ told' = Unknown
    BY <1>1 DEF Call, Kinds
  <2>2. answer' \in Outcomes
    BY <1>1, OutcomeKnown DEF Call
  <2>3. ~asking /\ asking'
    BY <2>1
  <2> QED
    BY Zenon, <2>1, <2>2, <2>3 DEF RR!Ask
<1>2. CASE SendFails
  <2>1. kind = "none" /\ kind' = kind /\ told' = Unknown /\ answer' = Unknown
    BY <1>2 DEF SendFails
  <2> QED
    BY Zenon, <2>1 DEF RR!Next, RR!NotSent
<1>3. CASE ReceiveFails \/ ReceiveTruncated \/ PollInterrupted \/ PollTimesOut
  <2>1. kind # "none" /\ kind' = "none" /\ told' = Unknown /\ answer' = answer
    BY <1>3 DEF ReceiveFails, ReceiveTruncated, PollInterrupted, PollTimesOut, Return, Quiet
  <2>2. (kind' # "none") = FALSE
    BY <2>1
  <2> QED
    BY Zenon, <2>1, <2>2 DEF RR!Next, RR!GiveUp
<1>4. CASE Receive
  <2>1. kind # "none" /\ answer' = answer
    BY <1>4 DEF Receive
  <2>2. CASE kind' = "none" /\ told' = answer
    <3>1. (kind' # "none") = FALSE
      BY <2>2
    <3> QED
      BY Zenon, <2>1, <2>2, <3>1 DEF RR!Next, RR!Tell
  <2>3. CASE kind' = kind /\ told' = told
    BY Zenon, <2>1, <2>3 DEF RR!vars
  <2> QED
    BY <1>4, <2>2, <2>3, ReceiveInOrder
<1>5. CASE Tick \/ Kernel \/ UNCHANGED vars
  <2>1. kind' = kind /\ told' = told /\ answer' = answer
    BY <1>5 DEF Tick, Kernel, Drop, Deliver, vars
  <2> QED
    BY Zenon, <2>1 DEF RR!vars
<1> QED
  BY <1>1, <1>2, <1>3, <1>4, <1>5 DEF Next, Client, RR!Next

\* A call tells the whole answer to its own request, or that it does not know:
\* never the answer to another request, nor a part of one as if it were all.
THEOREM ImplementsRequestReply == Spec => AnswersOwnRequest
<1>1. Init => RR!Init
  BY Zenon DEF Init, RR!Init
<1>2. Inv /\ [Next]_vars => [RR!Next]_(RR!vars)
  BY StepIsCall
<1> QED
  BY <1>1, <1>2, InitInv, NextInv, PTL DEF Spec, AnswersOwnRequest, RR!Spec
=============================================================================
