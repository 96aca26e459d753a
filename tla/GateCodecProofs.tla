---------------------------- MODULE GateCodecProofs ----------------------------
(***************************************************************************)
(* The messages of src/gate_msg.c, for every schedule.  Each fits the      *)
(* buffer made for it, up to the 2044 entries that the 16-bit length of    *)
(* the enclosing nest allows (module GateMessageSize).  And a schedule     *)
(* comes back from the kernel as it was sent (module GateCodec): what the  *)
(* parser finds in a message is computed from the parts the message was    *)
(* put together from, with the lemmas on Places and Value below.           *)
(***************************************************************************)
EXTENDS GateCodec, FiniteSetTheorems, SequenceTheorems, WellFoundedInduction, TLAPS

(* The size of a message. *)

\* The sizes of the attributes a request is made of.
LEMMA AttrSizes ==
    /\ AttrSize(0) = 4 /\ AttrSize(4) = 8 /\ AttrSize(5) = 12
    /\ AttrSize(8) = 12 /\ AttrSize(20) = 24
  BY DEF AttrSize

\* No more entries are open than there are.
LEMMA OpenEntries ==
  ASSUME NEW entries, Len(entries) \in Nat
  PROVE  LET open == {i \in 1..Len(entries) : entries[i].gate_state}
         IN  Cardinality(open) \in 0..Len(entries)
<1> DEFINE open == {i \in 1..Len(entries) : entries[i].gate_state}
<1>1. IsFiniteSet(1..Len(entries)) /\ Cardinality(1..Len(entries)) = Len(entries)
  <2>1. /\ IsFiniteSet(1..Len(entries))
        /\ Cardinality(1..Len(entries)) = IF 1 > Len(entries) THEN 0 ELSE Len(entries) - 1 + 1
    BY FS_Interval
  <2> QED BY <2>1
<1>2. open \subseteq 1..Len(entries)
  OBVIOUS
<1>3. IsFiniteSet(open) /\ Cardinality(open) <= Cardinality(1..Len(entries))
  BY <1>1, <1>2, FS_Subset
<1>4. Cardinality(open) \in Nat
  BY <1>3, FS_CardinalityType
<1> QED BY <1>1, <1>3, <1>4

\* An entry takes up to 32 bytes, what surrounds the entries up to 120.
LEMMA TabBound ==
  ASSUME NEW r, Len(r.entries) \in Nat
  PROVE  TabSize(r) \in 0..120 + 32 * Len(r.entries)
<1> DEFINE open == {i \in 1..Len(r.entries) : r.entries[i].gate_state}
           n == Len(r.entries)
<1>1. NestSize = 4 /\ NameSize = 20 /\ FixedSize = 56
  BY AttrSizes DEF NestSize, NameSize, FixedSize
<1>2. /\ OptionSize(r.cycle_time_ext # 0, 8) \in 0..12
      /\ OptionSize(r.priority # -1, 4) \in 0..8
      /\ OptionSize(r.flags # 0, 4) \in 0..8
  BY AttrSizes DEF OptionSize
<1>3. Cardinality(open) \in 0..n
  BY OpenEntries
<1>4. EntriesSize(r.entries) \in 0..4 + 32 * n
  <2>1. CASE r.entries = <<>>
    BY <2>1 DEF EntriesSize
  <2>2. CASE r.entries # <<>>
    <3>1. EntriesSize(r.entries) = 4 + n * 28 + Cardinality(open) * 4
      BY <2>2, AttrSizes, <1>1 DEF EntriesSize
    <3> HIDE DEF n, open
    <3>2. n \in Nat
      BY DEF n
    <3> QED BY <3>1, <3>2, <1>3
  <2> QED BY <2>1, <2>2
<1> HIDE DEF n
<1>5. n \in Nat
  BY DEF n
<1> DEFINE ext == OptionSize(r.cycle_time_ext # 0, 8)
           prio == OptionSize(r.priority # -1, 4)
           flags == OptionSize(r.flags # 0, 4)
           list == EntriesSize(r.entries)
<1>6. TabSize(r) = 12 + 20 + 56 + ext + prio + flags + list
  BY <1>1 DEF TabSize
<1>7. ext \in 0..12 /\ prio \in 0..8 /\ flags \in 0..8 /\ list \in 0..4 + 32 * n
  BY <1>2, <1>4 DEF n
<1> HIDE DEF ext, prio, flags, list
<1>8. 12 + 20 + 56 + ext + prio + flags + list \in 0..120 + 32 * n
  BY <1>5, <1>7
<1> QED BY <1>6, <1>8 DEF n

\* A buffer made for n entries holds 2048 bytes and 96 for each of them.
LEMMA CapacityBound ==
  ASSUME NEW n \in Nat, n <= 2044
  PROVE  /\ gate_msg_capacity(n) \in Nat
         /\ gate_msg_capacity(n) >= 2048 + 96 * n
<1> DEFINE least == AtLeast(2048 + AtMost(96 * n, 1024 * 1024), SocketBuffer)
<1>1. least \in Nat /\ least >= 2048 + 96 * n
  BY SocketBufferAssumption DEF AtLeast, AtMost
<1>2. gate_msg_capacity(n) = PageAligned(least)
  BY DEF gate_msg_capacity
<1> HIDE DEF least
<1>3. PageAligned(least) \in Nat /\ PageAligned(least) >= least
  BY <1>1 DEF PageAligned
<1> DEFINE aligned == PageAligned(least)
<1>4. aligned \in Nat /\ aligned >= least
  BY <1>3
<1> HIDE DEF aligned
<1>5. aligned >= 2048 + 96 * n
  BY <1>1, <1>4
<1> QED BY <1>2, <1>4, <1>5 DEF aligned

\* build_gate_newaction never writes beyond a buffer of gate_msg_capacity of as
\* many entries or more, and no nest outgrows its 16 bits, up to 2044 entries.
THEOREM BuffersHold ==
  ASSUME NEW r, NEW n \in Nat, n <= 2044, Len(r.entries) \in Nat, Len(r.entries) <= n
  PROVE  Fits(r, gate_msg_capacity(n))
<1> DEFINE tab == TabSize(r)
           capacity == gate_msg_capacity(n)
           count == Len(r.entries)
<1>1. count \in Nat /\ n \in Nat /\ count <= n /\ n <= 2044
  OBVIOUS
<1>2. tab \in Nat /\ tab <= 120 + 32 * count
  BY <1>1, TabBound
<1>3. NewActionSize(r) = 20 + tab
  BY DEF NewActionSize, HeaderSize
<1>4. capacity \in Nat /\ capacity >= 2048 + 96 * n
  <2>1. gate_msg_capacity(n) \in Nat /\ gate_msg_capacity(n) >= 2048 + 96 * n
    BY <1>1, CapacityBound
  <2> QED BY <2>1
<1> HIDE DEF tab, capacity, count
<1>5. 20 + tab <= capacity /\ tab <= 65535
  BY <1>1, <1>2, <1>4
<1> QED BY <1>3, <1>5 DEF Fits, MaxAttr, tab, capacity

\* The other builders write into buffers of 1024 bytes.
THEOREM PlainBuffersHold == PlainSize <= PlainCapacity /\ RootSize <= PlainCapacity
  BY AttrSizes DEF PlainSize, RootSize, PlainCapacity, HeaderSize, NestSize, NameSize

-----------------------------------------------------------------------------
(* Sequences of attributes, whatever their values are. *)

IsSeq(s) == \E S : s \in Seq(S)

LEMMA SeqConcat ==
  ASSUME NEW a, NEW b, IsSeq(a), IsSeq(b)
  PROVE  /\ IsSeq(a \o b)
         /\ Len(a) \in Nat /\ Len(b) \in Nat
         /\ Len(a \o b) = Len(a) + Len(b)
         /\ \A i \in 1..Len(a) + Len(b) :
              (a \o b)[i] = IF i <= Len(a) THEN a[i] ELSE b[i - Len(a)]
<1>1. PICK S, T : a \in Seq(S) /\ b \in Seq(T)
  BY DEF IsSeq
<1>2. a \in Seq(S \cup T) /\ b \in Seq(S \cup T)
  BY <1>1
<1> QED BY <1>2, ConcatProperties DEF IsSeq

LEMMA SeqOf ==
  ASSUME NEW n \in Nat, NEW s, DOMAIN s = 1..n, s = [i \in 1..n |-> s[i]]
  PROVE  IsSeq(s) /\ Len(s) = n
<1>1. PICK S : S = {s[i] : i \in 1..n}
  OBVIOUS
<1>2. s \in [1..n -> S]
  BY <1>1
<1>3. s \in Seq(S) /\ Len(s) = n
  BY <1>2
<1> QED BY <1>3 DEF IsSeq

LEMMA SeqEmpty == IsSeq(<<>>) /\ Len(<<>>) = 0
<1>1. <<>> \in Seq({}) /\ Len(<<>>) = 0
  OBVIOUS
<1> QED BY <1>1 DEF IsSeq

LEMMA SeqOne ==
  ASSUME NEW x
  PROVE  IsSeq(<<x>>) /\ Len(<<x>>) = 1 /\ <<x>>[1] = x
<1>1. <<x>> \in Seq({x}) /\ Len(<<x>>) = 1 /\ <<x>>[1] = x
  OBVIOUS
<1> QED BY <1>1 DEF IsSeq

\* A set of naturals that is not empty has a least element.
LEMMA LeastElement ==
  ASSUME NEW S \in SUBSET Nat, S # {}
  PROVE  \E n \in S : \A m \in S : n <= m
<1>1. PICK n \in S : \A m \in S : <<m, n>> \notin OpToRel(<, Nat)
  BY NatLessThanWellFounded, WFMin
<1>2. \A m \in S : ~ (m < n)
  BY <1>1 DEF OpToRel
<1> QED BY <1>2

\* A set of places that is not empty has a last one.
LEMMA LastPlace ==
  ASSUME NEW n \in Nat, NEW S \in SUBSET (1..n), S # {}
  PROVE  Max(S) \in S /\ \A i \in S : i <= Max(S)
<1> DEFINE T == {m \in Nat : \A i \in S : i <= m}
<1>1. n \in T
  OBVIOUS
<1>2. PICK m \in T : \A k \in T : m <= k
  <2>1. T \in SUBSET Nat /\ T # {}
    BY <1>1
  <2> QED BY <2>1, LeastElement
<1>3. \A k \in T : ~ (k < m)
  BY <1>2
<1>3a. m \in Nat /\ \A i \in S : i \in Nat /\ i <= m
  <2>1. \A i \in S : i \in Nat
    OBVIOUS
  <2>2. m \in Nat /\ \A i \in S : i <= m
    OBVIOUS
  <2> QED BY <2>1, <2>2
<1>4. m \in S
  <2> SUFFICES ASSUME m \notin S PROVE FALSE
    OBVIOUS
  <2>1. \A i \in S : i \in Nat /\ i < m
    BY <1>3a
  <2>2. PICK i \in S : i \in Nat /\ i < m
    BY <2>1
  <2>3. m - 1 \in Nat /\ m - 1 < m
    BY <1>3a, <2>2
  <2>4. \A j \in S : j <= m - 1
    BY <1>3a, <2>1
  <2>5. m - 1 \in T
    BY <2>3, <2>4
  <2> QED BY <1>3, <2>3, <2>5
<1>5. \A i \in S : m >= i
  BY <1>2
<1>6. \A x \in S : (\A y \in S : x >= y) => x = m
  BY <1>4, <1>5
<1>7. Max(S) = m
  BY <1>4, <1>5, <1>6 DEF Max
<1> QED BY <1>4, <1>5, <1>7

Has(attrs, type) == Places(attrs, type) # {}

\* k is the last place of a type.
LastAt(attrs, k, type) ==
    /\ k \in 1..Len(attrs)
    /\ attrs[k].type = type
    /\ \A i \in (k + 1)..Len(attrs) : attrs[i].type # type

\* The value of a type is the one at its last place.
LEMMA ValueAt ==
  ASSUME NEW attrs, Len(attrs) \in Nat, NEW type, NEW default, NEW k, LastAt(attrs, k, type)
  PROVE  Value(attrs, type, default) = attrs[k].value /\ Has(attrs, type)
<1>0. PICK n \in Nat : n = Len(attrs)
  OBVIOUS
<1> DEFINE P == Places(attrs, type)
<1>1. /\ P \in SUBSET (1..n) /\ k \in P /\ k \in 1..n
      /\ \A i \in (k + 1)..n : attrs[i].type # type
  BY <1>0 DEF Places, LastAt
<1>2. Max(P) \in P /\ \A i \in P : i <= Max(P)
  BY <1>1, LastPlace
<1>3. Max(P) \in 1..n /\ attrs[Max(P)].type = type /\ k <= Max(P)
  BY <1>0, <1>1, <1>2 DEF Places
<1>4. Max(P) = k
  <2>1. Max(P) \notin (k + 1)..n
    BY <1>1, <1>3
  <2> QED BY <1>1, <1>3, <2>1
<1> QED BY <1>1, <1>4 DEF Value, Has

LEMMA ValueDefault ==
  ASSUME NEW attrs, NEW type, NEW default, ~ Has(attrs, type)
  PROVE  Value(attrs, type, default) = default
  BY DEF Value, Has

LEMMA ValueEmpty ==
  ASSUME NEW type, NEW default
  PROVE  ~ Has(<<>>, type) /\ Value(<<>>, type, default) = default
<1>1. ~ Has(<<>>, type)
  BY SeqEmpty DEF Has, Places
<1> QED BY <1>1, ValueDefault

LEMMA ValueOne ==
  ASSUME NEW name, NEW value, NEW type, NEW default
  PROVE  /\ Has(<<Attr(name, value)>>, type) <=> name = type
         /\ Value(<<Attr(name, value)>>, type, default)
              = IF name = type THEN value ELSE default
<1> DEFINE a == <<Attr(name, value)>>
<1>1. Len(a) = 1 /\ a[1] = Attr(name, value)
  BY SeqOne
<1>2. a[1].type = name /\ a[1].value = value
  BY <1>1 DEF Attr
<1> HIDE DEF a
<1>3. CASE name = type
  <2>1. LastAt(a, 1, type)
    BY <1>1, <1>2, <1>3 DEF LastAt
  <2>2. Value(a, type, default) = a[1].value /\ Has(a, type)
    BY <1>1, <2>1, ValueAt
  <2> QED BY <1>2, <1>3, <2>2 DEF a
<1>4. CASE name # type
  <2>1. ~ Has(a, type)
    BY <1>1, <1>2, <1>4 DEF Has, Places
  <2> QED BY <1>4, <2>1, ValueDefault DEF a
<1> QED BY <1>3, <1>4

\* Of two parts the later one decides, when it has the type.
LEMMA ValueConcat ==
  ASSUME NEW a, NEW b, IsSeq(a), IsSeq(b), NEW type, NEW default
  PROVE  /\ Has(a \o b, type) <=> Has(a, type) \/ Has(b, type)
         /\ Value(a \o b, type, default)
              = IF Has(b, type) THEN Value(b, type, default) ELSE Value(a, type, default)
<1>0. PICK m \in Nat, n \in Nat : m = Len(a) /\ n = Len(b)
  BY SeqConcat
<1>1. PICK c : c = a \o b /\ m = Len(a) /\ n = Len(b)
  BY <1>0
<1>2. /\ Len(c) = m + n
      /\ \A i \in 1..m + n : c[i] = IF i <= m THEN a[i] ELSE b[i - m]
  BY <1>1, SeqConcat
<1>3. \A i \in 1..n : m + i \in 1..m + n /\ c[m + i] = b[i]
  BY <1>2
<1>4. \A i \in 1..m : i \in 1..m + n /\ c[i] = a[i]
  BY <1>2
<1>5. CASE Has(b, type)
  <2>1. PICK k \in 1..n : b[k].type = type /\ \A i \in (k + 1)..n : b[i].type # type
    <3> DEFINE P == Places(b, type)
    <3>1. P \in SUBSET (1..n) /\ P # {}
      BY <1>1, <1>5 DEF Has, Places
    <3>2. Max(P) \in P /\ \A i \in P : i <= Max(P)
      BY <3>1, LastPlace
    <3>3. Max(P) \in 1..n /\ b[Max(P)].type = type
      BY <3>1, <3>2 DEF Places
    <3>4. \A i \in (Max(P) + 1)..n : b[i].type # type
      <4>1. ASSUME NEW i \in (Max(P) + 1)..n, b[i].type = type PROVE FALSE
        <5>1. i \in P
          BY <1>1, <3>3, <4>1 DEF Places
        <5> QED BY <3>2, <3>3, <5>1
      <4> QED BY <4>1
    <3> QED BY <3>3, <3>4
  <2>2. Value(b, type, default) = b[k].value
    <3>1. Len(b) \in Nat /\ LastAt(b, k, type)
      BY <1>1, <2>1 DEF LastAt
    <3> QED BY <3>1, ValueAt
  <2>3. /\ m + k \in 1..m + n /\ c[m + k].type = type
        /\ \A i \in ((m + k) + 1)..(m + n) : c[i].type # type
    <3>1. ASSUME NEW i \in ((m + k) + 1)..(m + n) PROVE c[i].type # type
      <4>1. i - m \in (k + 1)..n /\ i - m \in 1..n /\ m + (i - m) = i
        OBVIOUS
      <4> QED BY <1>3, <2>1, <4>1
    <3> QED BY <1>3, <2>1, <3>1
  <2>4. Value(c, type, default) = c[m + k].value /\ Has(c, type)
    <3>1. Len(c) \in Nat /\ LastAt(c, m + k, type)
      BY <1>2, <2>3 DEF LastAt
    <3> QED BY <3>1, ValueAt
  <2> QED BY <1>1, <1>3, <1>5, <2>2, <2>4
<1>6. CASE ~ Has(b, type)
  <2>1. Places(c, type) = Places(a, type)
    <3>1. \A i \in 1..n : b[i].type # type
      BY <1>1, <1>6 DEF Has, Places
    <3>2. ASSUME NEW i \in Places(c, type) PROVE i \in Places(a, type)
      <4>1. i \in 1..m + n /\ c[i].type = type
        BY <1>2 DEF Places
      <4>2. i <= m
        <5>1. CASE i > m
          <6>1. i - m \in 1..n /\ m + (i - m) = i
            BY <4>1, <5>1
          <6> QED BY <1>3, <3>1, <4>1, <6>1
        <5> QED BY <4>1, <5>1
      <4> QED BY <1>1, <1>4, <4>1, <4>2 DEF Places
    <3>3. ASSUME NEW i \in Places(a, type) PROVE i \in Places(c, type)
      BY <1>1, <1>2, <1>4 DEF Places
    <3> QED BY <3>2, <3>3
  <2>2. CASE Places(a, type) = {}
    BY <1>1, <1>6, <2>1, <2>2 DEF Value, Has
  <2>3. CASE Places(a, type) # {}
    <3>1. Max(Places(a, type)) \in 1..m
      <4>1. Places(a, type) \in SUBSET (1..m)
        BY <1>1 DEF Places
      <4> QED BY <2>3, <4>1, LastPlace
    <3>2. c[Max(Places(a, type))] = a[Max(Places(a, type))]
      BY <1>4, <3>1
    <3> QED BY <1>1, <1>6, <2>1, <2>3, <3>2 DEF Value, Has
  <2> QED BY <2>2, <2>3
<1> QED BY <1>5, <1>6

LEMMA ValueOptional ==
  ASSUME NEW present \in BOOLEAN, NEW name, NEW value, NEW type, NEW default
  PROVE  /\ IsSeq(Optional(present, name, value))
         /\ Has(Optional(present, name, value), type) <=> present /\ name = type
         /\ Value(Optional(present, name, value), type, default)
              = IF present /\ name = type THEN value ELSE default
<1>1. CASE present
  <2>1. Optional(present, name, value) = <<Attr(name, value)>>
    BY <1>1 DEF Optional
  <2>2. /\ Has(<<Attr(name, value)>>, type) <=> name = type
        /\ Value(<<Attr(name, value)>>, type, default)
             = IF name = type THEN value ELSE default
    BY ValueOne
  <2>3. IsSeq(<<Attr(name, value)>>)
    BY SeqOne
  <2> QED BY <1>1, <2>1, <2>2, <2>3
<1>2. CASE ~ present
  <2>1. Optional(present, name, value) = <<>>
    BY <1>2 DEF Optional
  <2> QED BY <1>2, <2>1, ValueEmpty, SeqEmpty
<1> QED BY <1>1, <1>2

\* Some attributes of a type, after p of other types.
StartsAt(list, p, n, type) ==
    /\ Len(list) = p + n
    /\ \A i \in 1..p : list[i].type # type
    /\ \A i \in (p + 1)..(p + n) : list[i].type = type

LEMMA NestedAfter ==
  ASSUME NEW list, NEW p \in Nat, NEW n \in Nat, NEW type, StartsAt(list, p, n, type),
         NEW rest, rest = [k \in 1..n |-> list[p + k]]
  PROVE  Nested(list, type) = rest
<1> DEFINE P == Places(list, type)
           rank(i) == Cardinality({j \in P : j <= i})
<1>1. P = (p + 1)..(p + n)
  <2>1. ASSUME NEW i \in P PROVE i \in (p + 1)..(p + n)
    <3>1. i \in 1..(p + n) /\ list[i].type = type
      BY DEF Places, StartsAt
    <3>2. i \notin 1..p
      BY <3>1 DEF StartsAt
    <3> QED BY <3>1, <3>2
  <2>2. ASSUME NEW i \in (p + 1)..(p + n) PROVE i \in P
    BY DEF Places, StartsAt
  <2> QED BY <2>1, <2>2
<1>2. \A i \in Nat : p <= i => Cardinality((p + 1)..i) = i - p
  <2>1. ASSUME NEW i \in Nat, p <= i PROVE Cardinality((p + 1)..i) = i - p
    <3>1. Cardinality((p + 1)..i) = IF p + 1 > i THEN 0 ELSE i - (p + 1) + 1
      BY FS_Interval
    <3> QED BY <2>1, <3>1
  <2> QED BY <2>1
<1>3. Cardinality(P) = n
  BY <1>1, <1>2
<1>4. \A i \in P : i \in Nat /\ rank(i) = i - p
  <2>1. ASSUME NEW i \in P PROVE i \in Nat /\ rank(i) = i - p
    <3>1. i \in (p + 1)..(p + n)
      BY <1>1
    <3>2. {j \in P : j <= i} = (p + 1)..i
      BY <1>1, <3>1
    <3>3. i \in Nat /\ p <= i
      BY <3>1
    <3>4. Cardinality((p + 1)..i) = i - p
      BY <1>2, <3>3
    <3> QED BY <3>2, <3>3, <3>4
  <2> QED BY <2>1
<1>5. ASSUME NEW k \in 1..n
      PROVE  (CHOOSE i \in P : i >= k /\ rank(i) = k) = p + k
  <2>1. p + k \in P /\ p + k >= k /\ rank(p + k) = k
    <3>1. p + k \in P /\ p + k >= k /\ (p + k) - p = k
      BY <1>1
    <3> QED BY <1>4, <3>1
  <2>2. \A i \in P : rank(i) = k => i = p + k
    BY <1>1, <1>4
  <2> HIDE DEF rank, P
  <2> QED BY <2>1, <2>2
<1>6. Nested(list, type)
        = [k \in 1..n |-> list[CHOOSE i \in P : i >= k /\ rank(i) = k]]
  BY <1>3 DEF Nested
<1> QED BY <1>5, <1>6

-----------------------------------------------------------------------------
(* What is parsed from a message. *)

Newer == {<<>>, <<Attr("UNKNOWN", 0)>>}

LEMMA NewerIs ==
  ASSUME NEW newer \in Newer
  PROVE  /\ IsSeq(newer) /\ Len(newer) \in {0, 1}
         /\ \A i \in 1..Len(newer) : newer[i].type = "UNKNOWN"
         /\ \A type : type # "UNKNOWN" => ~ Has(newer, type)
<1>1. CASE newer = <<>>
  BY <1>1, SeqEmpty, ValueEmpty
<1>2. CASE newer = <<Attr("UNKNOWN", 0)>>
  <2>1. IsSeq(newer) /\ Len(newer) = 1 /\ newer[1].type = "UNKNOWN"
    BY <1>2, SeqOne DEF Attr
  <2>2. \A type : type # "UNKNOWN" => ~ Has(newer, type)
    BY <2>1 DEF Has, Places
  <2> QED BY <2>1, <2>2
<1> QED BY <1>1, <1>2 DEF Newer

\* Attributes a newer kernel adds are not found.
LEMMA ValueAfterNewer ==
  ASSUME NEW newer \in Newer, NEW a, IsSeq(a), NEW type, type # "UNKNOWN", NEW default
  PROVE  /\ Value(newer \o a, type, default) = Value(a, type, default)
         /\ Value(a \o newer, type, default) = Value(a, type, default)
         /\ IsSeq(newer \o a) /\ IsSeq(a \o newer)
<1>1. IsSeq(newer) /\ ~ Has(newer, type)
  BY NewerIs
<1>2. Value(newer, type, default) = default
  BY <1>1, ValueDefault
<1>3. ~ Has(a, type) => Value(a, type, default) = default
  BY ValueDefault
<1>4. /\ Value(newer \o a, type, default)
          = IF Has(a, type) THEN Value(a, type, default) ELSE Value(newer, type, default)
      /\ Value(a \o newer, type, default)
          = IF Has(newer, type) THEN Value(newer, type, default) ELSE Value(a, type, default)
  BY <1>1, ValueConcat
<1>5. IsSeq(newer \o a) /\ IsSeq(a \o newer)
  BY <1>1, SeqConcat
<1> QED BY <1>1, <1>2, <1>3, <1>4, <1>5

\* The attributes of one action are those of its slot.
LEMMA ParsedMessage ==
  ASSUME NEW root, NEW index, NEW options,
         Value(root, "ACT_TAB", <<>>) = Value(Message(index, options), "ACT_TAB", <<>>)
  PROVE  Parsed(root) = ParsedOptions(index, options)
<1> DEFINE slot == <<Attr("KIND", "gate"), Attr("ACT_INDEX", index), Attr("OPTIONS", options)>>
           tab == <<Attr("SLOT", slot)>>
           gates == {i \in 1..Len(tab) : Value(tab[i].value, "KIND", "none") = "gate"}
<1>1. Value(root, "ACT_TAB", <<>>) = tab
  BY ValueOne DEF Message
<1>2. /\ Len(slot) = 3
      /\ slot[1] = Attr("KIND", "gate") /\ slot[2] = Attr("ACT_INDEX", index)
      /\ slot[3] = Attr("OPTIONS", options)
  OBVIOUS
<1>3. /\ slot[1].type = "KIND" /\ slot[1].value = "gate"
      /\ slot[2].type = "ACT_INDEX" /\ slot[2].value = index
      /\ slot[3].type = "OPTIONS" /\ slot[3].value = options
  BY <1>2 DEF Attr
<1> HIDE DEF slot
<1>4. /\ LastAt(slot, 1, "KIND") /\ LastAt(slot, 2, "ACT_INDEX") /\ LastAt(slot, 3, "OPTIONS")
  <2>1. /\ \A i \in (1 + 1)..3 : i = 2 \/ i = 3
        /\ \A i \in (2 + 1)..3 : i = 3
        /\ (3 + 1)..3 = {}
        /\ 1 \in 1..3 /\ 2 \in 1..3 /\ 3 \in 1..3
    OBVIOUS
  <2> QED BY <1>2, <1>3, <2>1 DEF LastAt
<1>5. \A d : /\ Value(slot, "KIND", d) = "gate" /\ Value(slot, "ACT_INDEX", d) = index
           /\ Value(slot, "OPTIONS", d) = options
  <2>1. Len(slot) \in Nat
    BY <1>2
  <2> QED BY <1>3, <1>4, <2>1, ValueAt
<1>6. Len(tab) = 1 /\ tab[1] = Attr("SLOT", slot)
  BY SeqOne
<1>7. tab[1].value = slot
  BY <1>6 DEF Attr
<1> HIDE DEF tab
<1>8. gates = {1}
  BY <1>5, <1>6, <1>7
<1>9. Max(gates) = 1
  <2>1. gates \in SUBSET (1..1) /\ gates # {}
    BY <1>8
  <2>2. Max(gates) \in gates
    BY <2>1, LastPlace
  <2> QED BY <1>8, <2>2
<1>10. Parsed(root) = ParsedOptions(Value(slot, "ACT_INDEX", 0), Value(slot, "OPTIONS", <<>>))
  BY <1>1, <1>7, <1>8, <1>9 DEF Parsed
<1> QED BY <1>5, <1>10

IsEntry(e) ==
    /\ e.gate_state \in BOOLEAN
    /\ e = [index |-> e.index, interval |-> e.interval, gate_state |-> e.gate_state,
            ipv |-> e.ipv, maxoctets |-> e.maxoctets]

\* What is built of an entry is parsed again, but for its number.
LEMMA EntryBuilt ==
  ASSUME NEW e, e.gate_state \in BOOLEAN
  PROVE  ParsedEntry(EntryAttrs(e))
           = [index |-> 0, interval |-> e.interval, gate_state |-> e.gate_state,
              ipv |-> e.ipv, maxoctets |-> e.maxoctets]
<1> DEFINE a == Optional(e.gate_state, "GATE", 0)
           b == <<Attr("INTERVAL", e.interval), Attr("IPV", e.ipv),
                  Attr("MAX_OCTETS", e.maxoctets)>>
<1>1. IsSeq(b) /\ Len(b) = 3
  <2>1. b = [i \in 1..3 |-> b[i]] /\ DOMAIN b = 1..3
    OBVIOUS
  <2> QED BY <2>1, SeqOf
<1>2. /\ b[1].type = "INTERVAL" /\ b[1].value = e.interval
      /\ b[2].type = "IPV" /\ b[2].value = e.ipv
      /\ b[3].type = "MAX_OCTETS" /\ b[3].value = e.maxoctets
  BY DEF Attr
<1> HIDE DEF b
<1>3. LastAt(b, 1, "INTERVAL") /\ LastAt(b, 2, "IPV") /\ LastAt(b, 3, "MAX_OCTETS")
  <2>1. /\ \A i \in (1 + 1)..3 : i = 2 \/ i = 3
        /\ \A i \in (2 + 1)..3 : i = 3
        /\ (3 + 1)..3 = {}
        /\ 1 \in 1..3 /\ 2 \in 1..3 /\ 3 \in 1..3
    OBVIOUS
  <2> QED BY <1>1, <1>2, <2>1 DEF LastAt
<1>4. ~ Has(b, "GATE") /\ ~ Has(b, "INDEX")
  <2>1. \A i \in 1..3 : i = 1 \/ i = 2 \/ i = 3
    OBVIOUS
  <2> QED BY <1>1, <1>2, <2>1 DEF Has, Places
<1>5. \A d : /\ Value(b, "INTERVAL", d) = e.interval /\ Value(b, "IPV", d) = e.ipv
           /\ Value(b, "MAX_OCTETS", d) = e.maxoctets
           /\ Has(b, "INTERVAL") /\ Has(b, "IPV") /\ Has(b, "MAX_OCTETS")
  <2>1. Len(b) \in Nat
    BY <1>1
  <2>2. \A d : /\ Value(b, "INTERVAL", d) = e.interval /\ Value(b, "IPV", d) = e.ipv
             /\ Value(b, "MAX_OCTETS", d) = e.maxoctets
    BY <1>2, <1>3, <2>1, ValueAt
  <2>3. Has(b, "INTERVAL") /\ Has(b, "IPV") /\ Has(b, "MAX_OCTETS")
    BY <1>3, <2>1, ValueAt
  <2> QED BY <2>2, <2>3
<1>6. /\ IsSeq(a) /\ (Has(a, "GATE") <=> e.gate_state) /\ ~ Has(a, "INDEX")
      /\ Value(a, "INDEX", 0) = 0
  <2>1. IsSeq(a) /\ (Has(a, "GATE") <=> e.gate_state /\ "GATE" = "GATE")
    BY ValueOptional
  <2>2. /\ Has(a, "INDEX") <=> e.gate_state /\ "GATE" = "INDEX"
        /\ Value(a, "INDEX", 0) = IF e.gate_state /\ "GATE" = "INDEX" THEN 0 ELSE 0
    BY ValueOptional
  <2> QED BY <2>1, <2>2
<1>7. EntryAttrs(e) = a \o b
  BY DEF EntryAttrs, b
<1> HIDE DEF a
<1>8. Value(a \o b, "INDEX", 0) = 0
  BY <1>1, <1>4, <1>6, ValueConcat
<1>9. /\ Value(a \o b, "INTERVAL", 0) = e.interval
      /\ Value(a \o b, "IPV", -1) = e.ipv
      /\ Value(a \o b, "MAX_OCTETS", -1) = e.maxoctets
  BY <1>1, <1>5, <1>6, ValueConcat
<1>10. Has(a \o b, "GATE") = e.gate_state
  <2>1. Has(a \o b, "GATE") <=> e.gate_state
    BY <1>1, <1>4, <1>6, ValueConcat
  <2> QED BY <2>1 DEF Has
<1> QED BY <1>7, <1>8, <1>9, <1>10 DEF ParsedEntry, Has

\* Where no type comes twice, the value of a type is the only one.
Distinct(f) == \A i, j \in 1..Len(f) : f[i].type = f[j].type => i = j

LEMMA DistinctValue ==
  ASSUME NEW f, Len(f) \in Nat, Distinct(f), NEW k \in 1..Len(f)
  PROVE  /\ \A default : Value(f, f[k].type, default) = f[k].value
         /\ Has(f, f[k].type)
<1>1. LastAt(f, k, f[k].type)
  <2>1. ASSUME NEW i \in (k + 1)..Len(f), f[i].type = f[k].type PROVE FALSE
    <3>1. i \in 1..Len(f) /\ i # k
      OBVIOUS
    <3> QED BY <2>1, <3>1 DEF Distinct
  <2> QED BY <2>1 DEF LastAt
<1>2. \A default : Value(f, f[k].type, default) = f[k].value
  BY <1>1, ValueAt
<1>3. Has(f, f[k].type)
  BY <1>1, ValueAt
<1> QED BY <1>2, <1>3

LEMMA Absent ==
  ASSUME NEW f, NEW type, \A i \in 1..Len(f) : f[i].type # type
  PROVE  ~ Has(f, type)
  BY DEF Has, Places

\* What is dumped of an entry is parsed again.
LEMMA EntryDumped ==
  ASSUME NEW e, IsEntry(e)
  PROVE  ParsedEntry(DumpedEntry(e).value) = e
<1> DEFINE a == Optional(e.gate_state, "GATE", 0)
           b == <<Attr("INDEX", e.index), Attr("INTERVAL", e.interval),
                  Attr("MAX_OCTETS", e.maxoctets), Attr("IPV", e.ipv)>>
<1>1. IsSeq(b) /\ Len(b) = 4
  <2>1. b = [i \in 1..4 |-> b[i]] /\ DOMAIN b = 1..4
    OBVIOUS
  <2> QED BY <2>1, SeqOf
<1>2. /\ b[1].type = "INDEX" /\ b[1].value = e.index
      /\ b[2].type = "INTERVAL" /\ b[2].value = e.interval
      /\ b[3].type = "MAX_OCTETS" /\ b[3].value = e.maxoctets
      /\ b[4].type = "IPV" /\ b[4].value = e.ipv
  BY DEF Attr
<1> HIDE DEF b
<1>3. \A i \in 1..4 : i = 1 \/ i = 2 \/ i = 3 \/ i = 4
  OBVIOUS
<1>4. Distinct(b)
  BY <1>1, <1>2, <1>3 DEF Distinct
<1>5. /\ \A d : Value(b, "INDEX", d) = e.index
      /\ \A d : Value(b, "INTERVAL", d) = e.interval
      /\ \A d : Value(b, "MAX_OCTETS", d) = e.maxoctets
      /\ \A d : Value(b, "IPV", d) = e.ipv
      /\ Has(b, "INDEX") /\ Has(b, "INTERVAL") /\ Has(b, "MAX_OCTETS") /\ Has(b, "IPV")
  <2>1. \A k \in 1..4 : (\A d : Value(b, b[k].type, d) = b[k].value) /\ Has(b, b[k].type)
    BY <1>1, <1>4, DistinctValue, SMTT(30)
  <2>2. 1 \in 1..4 /\ 2 \in 1..4 /\ 3 \in 1..4 /\ 4 \in 1..4
    OBVIOUS
  <2> QED BY <1>2, <2>1, <2>2
<1>6. ~ Has(b, "GATE")
  BY <1>1, <1>2, <1>3, Absent
<1>7. IsSeq(a) /\ (Has(a, "GATE") <=> e.gate_state)
  <2>1. IsSeq(a) /\ (Has(a, "GATE") <=> e.gate_state /\ "GATE" = "GATE")
    BY ValueOptional DEF IsEntry
  <2> QED BY <2>1
<1>8. DumpedEntry(e).value = a \o b
  BY DEF DumpedEntry, Attr, b
<1> HIDE DEF a
<1>9. /\ Value(a \o b, "INDEX", 0) = e.index
      /\ Value(a \o b, "INTERVAL", 0) = e.interval
      /\ Value(a \o b, "IPV", -1) = e.ipv
      /\ Value(a \o b, "MAX_OCTETS", -1) = e.maxoctets
  BY <1>1, <1>5, <1>7, ValueConcat
<1>10. Has(a \o b, "GATE") = e.gate_state
  <2>1. Has(a \o b, "GATE") <=> e.gate_state
    BY <1>1, <1>6, <1>7, ValueConcat
  <2> QED BY <2>1 DEF Has, IsEntry
<1>11. ParsedEntry(a \o b) = [index |-> e.index, interval |-> e.interval,
                             gate_state |-> e.gate_state, ipv |-> e.ipv,
                             maxoctets |-> e.maxoctets]
  BY <1>9, <1>10 DEF ParsedEntry, Has
<1> QED BY <1>8, <1>11 DEF IsEntry

\* A schedule with a list of entries: what a shape, a kernel and a dump have in common.
IsSchedule(s) ==
    /\ s = [index |-> s.index, clockid |-> s.clockid, base_time |-> s.base_time,
            cycle_time |-> s.cycle_time, cycle_time_ext |-> s.cycle_time_ext,
            flags |-> s.flags, priority |-> s.priority, entries |-> s.entries]
    /\ Len(s.entries) \in Nat
    /\ s.entries = [k \in 1..Len(s.entries) |-> s.entries[k]]
    /\ \A k \in 1..Len(s.entries) : IsEntry(s.entries[k])

\* A reply is parsed into the schedule it is about.
LEMMA AnswerParsed ==
  ASSUME NEW s, IsSchedule(s), NEW newer \in Newer
  PROVE  Parsed(Answer(s, newer)) = s
<1> DEFINE n == Len(s.entries)
           dumped == [k \in 1..n |-> DumpedEntry(s.entries[k])]
           list == newer \o dumped
           b == <<Attr("PARMS", s.index), Attr("BASE_TIME", s.base_time),
                  Attr("CYCLE_TIME", s.cycle_time), Attr("CYCLE_TIME_EXT", s.cycle_time_ext),
                  Attr("CLOCKID", s.clockid), Attr("FLAGS", s.flags),
                  Attr("PRIORITY", s.priority), Attr("ENTRY_LIST", list)>>
           options == (newer \o b) \o newer
<1>1. IsSeq(b) /\ Len(b) = 8
  <2>1. b = [i \in 1..8 |-> b[i]] /\ DOMAIN b = 1..8
    OBVIOUS
  <2> QED BY <2>1, SeqOf
<1>2. /\ b[1].type = "PARMS" /\ b[1].value = s.index
      /\ b[2].type = "BASE_TIME" /\ b[2].value = s.base_time
      /\ b[3].type = "CYCLE_TIME" /\ b[3].value = s.cycle_time
      /\ b[4].type = "CYCLE_TIME_EXT" /\ b[4].value = s.cycle_time_ext
      /\ b[5].type = "CLOCKID" /\ b[5].value = s.clockid
      /\ b[6].type = "FLAGS" /\ b[6].value = s.flags
      /\ b[7].type = "PRIORITY" /\ b[7].value = s.priority
      /\ b[8].type = "ENTRY_LIST" /\ b[8].value = list
  BY DEF Attr
<1>3. Answer(s, newer) = newer \o Message(s.index, options)
  BY DEF Answer
<1>4. n \in Nat /\ IsSeq(dumped) /\ Len(dumped) = n
      /\ \A k \in 1..n : dumped[k] = DumpedEntry(s.entries[k])
  <2>1. n \in Nat
    BY DEF IsSchedule
  <2>2. DOMAIN dumped = 1..n /\ dumped = [k \in 1..n |-> dumped[k]]
    OBVIOUS
  <2> QED BY <2>1, <2>2, SeqOf
<1> HIDE DEF b, n, dumped
<1>5. \A i \in 1..8 : i = 1 \/ i = 2 \/ i = 3 \/ i = 4 \/ i = 5 \/ i = 6 \/ i = 7 \/ i = 8
  OBVIOUS
<1>6. Distinct(b)
  BY <1>1, <1>2, <1>5 DEF Distinct
<1>7. /\ Value(b, "PARMS", s.index) = s.index
      /\ Value(b, "BASE_TIME", 0) = s.base_time
      /\ Value(b, "CYCLE_TIME", 0) = s.cycle_time
      /\ Value(b, "CYCLE_TIME_EXT", 0) = s.cycle_time_ext
      /\ Value(b, "CLOCKID", 0) = s.clockid
      /\ Value(b, "FLAGS", 0) = s.flags
      /\ Value(b, "PRIORITY", -1) = s.priority
      /\ Value(b, "ENTRY_LIST", <<>>) = list
  <2>1. \A k \in 1..8 : \A d : Value(b, b[k].type, d) = b[k].value
    BY <1>1, <1>6, DistinctValue, SMTT(30)
  <2>2. \A k \in {1, 2, 3, 4, 5, 6, 7, 8} : k \in 1..8
    OBVIOUS
  <2> HIDE DEF list
  <2> QED BY <1>2, <2>1, <2>2
<1>8. ASSUME NEW type, type # "UNKNOWN", NEW d
      PROVE  Value(options, type, d) = Value(b, type, d)
  <2>1. IsSeq(newer \o b) /\ Value(newer \o b, type, d) = Value(b, type, d)
    BY <1>1, <1>8, ValueAfterNewer
  <2>2. Value((newer \o b) \o newer, type, d) = Value(newer \o b, type, d)
    BY <1>8, <2>1, ValueAfterNewer
  <2> QED BY <2>1, <2>2
<1> HIDE DEF options, list
<1>9. Nested(list, "ONE_ENTRY") = dumped
  <2>1. PICK p \in Nat : p = Len(newer) /\ \A i \in 1..p : newer[i].type = "UNKNOWN"
    BY NewerIs
  <2>2. /\ Len(list) = p + n
        /\ \A i \in 1..p + n : list[i] = IF i <= p THEN newer[i] ELSE dumped[i - p]
    BY <1>4, <2>1, NewerIs, SeqConcat DEF list
  <2>3. \A i \in 1..p : list[i].type # "ONE_ENTRY"
    BY <1>4, <2>1, <2>2
  <2>4. \A i \in (p + 1)..(p + n) : list[i].type = "ONE_ENTRY"
    <3>1. ASSUME NEW i \in (p + 1)..(p + n) PROVE list[i].type = "ONE_ENTRY"
      <4>1. i \in 1..p + n /\ ~ (i <= p) /\ i - p \in 1..n
        BY <1>4
      <4>2. PICK j \in 1..n : j = i - p
        BY <4>1
      <4>3. list[i] = dumped[j]
        BY <2>2, <4>1, <4>2
      <4>4. list[i] = DumpedEntry(s.entries[j])
        BY <1>4, <4>3
      <4> QED BY <4>4 DEF DumpedEntry, Attr
    <3> QED BY <3>1
  <2>5. Nested(list, "ONE_ENTRY") = [k \in 1..n |-> list[p + k]]
    <3>1. StartsAt(list, p, n, "ONE_ENTRY")
      BY <2>2, <2>3, <2>4 DEF StartsAt
    <3>2. PICK l, m, rest : l = list /\ m = n /\ rest = [k \in 1..m |-> l[p + k]]
      OBVIOUS
    <3>3. m \in Nat /\ StartsAt(l, p, m, "ONE_ENTRY")
      BY <1>4, <3>1, <3>2
    <3>4. Nested(l, "ONE_ENTRY") = rest
      BY <3>2, <3>3, NestedAfter
    <3> QED BY <3>2, <3>4
  <2>6. \A k \in 1..n : list[p + k] = dumped[k]
    <3>1. ASSUME NEW k \in 1..n PROVE list[p + k] = dumped[k]
      <4>1. p + k \in 1..p + n /\ ~ (p + k <= p) /\ (p + k) - p = k
        BY <1>4
      <4> QED BY <2>2, <4>1
    <3> QED BY <3>1
  <2>7. dumped = [k \in 1..n |-> dumped[k]]
    BY DEF dumped
  <2> QED BY <2>5, <2>6, <2>7
<1>10. [k \in 1..Len(dumped) |-> ParsedEntry(dumped[k].value)] = s.entries
  <2>1. \A k \in 1..n : ParsedEntry(dumped[k].value) = s.entries[k]
    BY <1>4, EntryDumped DEF IsSchedule, n
  <2> QED BY <1>4, <2>1 DEF IsSchedule, n
<1>11. Parsed(Answer(s, newer)) = ParsedOptions(s.index, options)
  <2>1. IsSeq(Message(s.index, options))
    BY SeqOne DEF Message
  <2>2. Value(newer \o Message(s.index, options), "ACT_TAB", <<>>)
          = Value(Message(s.index, options), "ACT_TAB", <<>>)
    BY <2>1, ValueAfterNewer
  <2> QED BY <1>3, <2>2, ParsedMessage
<1>12. ParsedOptions(s.index, options)
         = [index |-> s.index, clockid |-> s.clockid, base_time |-> s.base_time,
            cycle_time |-> s.cycle_time, cycle_time_ext |-> s.cycle_time_ext,
            flags |-> s.flags, priority |-> s.priority, entries |-> s.entries]
  <2>1. /\ Value(options, "PARMS", s.index) = s.index
        /\ Value(options, "BASE_TIME", 0) = s.base_time
        /\ Value(options, "CYCLE_TIME", 0) = s.cycle_time
        /\ Value(options, "CYCLE_TIME_EXT", 0) = s.cycle_time_ext
        /\ Value(options, "CLOCKID", 0) = s.clockid
        /\ Value(options, "FLAGS", 0) = s.flags
        /\ Value(options, "PRIORITY", -1) = s.priority
        /\ Value(options, "ENTRY_LIST", <<>>) = list
    BY <1>7, <1>8
  <2> QED BY <1>9, <1>10, <2>1 DEF ParsedOptions
<1> QED BY <1>11, <1>12 DEF IsSchedule

\* Which types a part is made of.
Only(part, types) == IsSeq(part) /\ \A type : Has(part, type) => type \in types

LEMMA OnlyConcat ==
  ASSUME NEW a, NEW b, NEW S, NEW T, Only(a, S), Only(b, T)
  PROVE  Only(a \o b, S \cup T)
<1>1. IsSeq(a) /\ IsSeq(b)
  BY DEF Only
<1>2. IsSeq(a \o b)
  BY <1>1, SeqConcat
<1>3. ASSUME NEW type, Has(a \o b, type) PROVE type \in S \cup T
  <2>1. Has(a, type) \/ Has(b, type)
    BY <1>1, <1>3, ValueConcat
  <2> QED BY <2>1 DEF Only
<1> QED BY <1>2, <1>3 DEF Only

\* A part that has not got the type does not matter.
LEMMA ValueLeft ==
  ASSUME NEW a, NEW b, NEW S, NEW T, Only(a, S), Only(b, T), NEW type, type \notin T,
         NEW default
  PROVE  Value(a \o b, type, default) = Value(a, type, default)
<1>1. IsSeq(a) /\ IsSeq(b) /\ ~ Has(b, type)
  BY DEF Only
<1> QED BY <1>1, ValueConcat

LEMMA ValueRight ==
  ASSUME NEW a, NEW b, NEW S, NEW T, Only(a, S), Only(b, T), NEW type, type \notin S,
         NEW default
  PROVE  Value(a \o b, type, default) = Value(b, type, default)
<1>1. IsSeq(a) /\ IsSeq(b) /\ ~ Has(a, type)
  BY DEF Only
<1>2. Value(a \o b, type, default)
        = IF Has(b, type) THEN Value(b, type, default) ELSE Value(a, type, default)
  BY <1>1, ValueConcat
<1>3. ~ Has(b, type) => Value(b, type, default) = default
  BY ValueDefault
<1>4. Value(a, type, default) = default
  BY <1>1, ValueDefault
<1> QED BY <1>2, <1>3, <1>4

\* What is built has its value.
LEMMA PartBuilt ==
  ASSUME NEW name, NEW value, NEW default
  PROVE  /\ Only(Optional(TRUE, name, value), {name})
         /\ Value(Optional(TRUE, name, value), name, default) = value
<1>1. Optional(TRUE, name, value) = <<Attr(name, value)>>
  BY DEF Optional
<1>2. IsSeq(<<Attr(name, value)>>)
  BY SeqOne
<1>3. \A type : Has(<<Attr(name, value)>>, type) <=> name = type
  BY ValueOne
<1>4. Only(<<Attr(name, value)>>, {name})
  BY <1>2, <1>3, Zenon DEF Only
<1>5. Value(<<Attr(name, value)>>, name, default) = value
  BY ValueOne
<1> QED BY <1>1, <1>4, <1>5, Zenon

\* What is left out has the value the parser fills in.
LEMMA PartLeftOut ==
  ASSUME NEW name, NEW default
  PROVE  Only(<<>>, {name}) /\ Value(<<>>, name, default) = default
<1>1. IsSeq(<<>>) /\ \A type : ~ Has(<<>>, type)
  BY SeqEmpty, ValueEmpty
<1>2. Only(<<>>, {name})
  BY <1>1, Zenon DEF Only
<1> QED BY <1>2, ValueEmpty

\* An attribute that is left out for the default value is read as its value.
LEMMA OptionalValue ==
  ASSUME NEW name, NEW value, NEW default
  PROVE  /\ Only(Optional(value # default, name, value), {name})
         /\ Value(Optional(value # default, name, value), name, default) = value
<1>1. CASE value # default
  <2>1. Optional(value # default, name, value) = Optional(TRUE, name, value)
    BY <1>1 DEF Optional
  <2>2. /\ Only(Optional(TRUE, name, value), {name})
        /\ Value(Optional(TRUE, name, value), name, default) = value
    BY PartBuilt
  <2> QED BY <2>1, <2>2, Zenon
<1>2. CASE value = default
  <2>1. Optional(value # default, name, value) = <<>>
    BY <1>2 DEF Optional
  <2>2. Only(<<>>, {name}) /\ Value(<<>>, name, default) = default
    BY PartLeftOut
  <2> QED BY <1>2, <2>1, <2>2, Zenon
<1> QED BY <1>1, <1>2

\* The attributes of a request that a schedule may do without.
LEMMA OptionsBuilt ==
  ASSUME NEW r
  PROVE  /\ Only(OptionAttrs(r), {"CYCLE_TIME_EXT", "PRIORITY", "FLAGS"})
         /\ Value(OptionAttrs(r), "CYCLE_TIME_EXT", 0) = r.cycle_time_ext
         /\ Value(OptionAttrs(r), "PRIORITY", -1) = r.priority
         /\ Value(OptionAttrs(r), "FLAGS", 0) = r.flags
<1> DEFINE ext == Optional(r.cycle_time_ext # 0, "CYCLE_TIME_EXT", r.cycle_time_ext)
           prio == Optional(r.priority # -1, "PRIORITY", r.priority)
           flags == Optional(r.flags # 0, "FLAGS", r.flags)
<1>1. /\ Only(ext, {"CYCLE_TIME_EXT"})
      /\ Value(ext, "CYCLE_TIME_EXT", 0) = r.cycle_time_ext
  BY OptionalValue, ZenonT(30)
<1>2. Only(prio, {"PRIORITY"}) /\ Value(prio, "PRIORITY", -1) = r.priority
  BY OptionalValue, ZenonT(30)
<1>3. Only(flags, {"FLAGS"}) /\ Value(flags, "FLAGS", 0) = r.flags
  BY OptionalValue, ZenonT(30)
<1>4. OptionAttrs(r) = (ext \o prio) \o flags
  BY DEF OptionAttrs
<1> HIDE DEF ext, prio, flags
<1>5. PICK both : both = ext \o prio
  OBVIOUS
<1>6. /\ Only(both, {"CYCLE_TIME_EXT"} \cup {"PRIORITY"})
      /\ Value(both, "CYCLE_TIME_EXT", 0) = r.cycle_time_ext
      /\ Value(both, "PRIORITY", -1) = r.priority
  <2>1. "CYCLE_TIME_EXT" \notin {"PRIORITY"} /\ "PRIORITY" \notin {"CYCLE_TIME_EXT"}
    OBVIOUS
  <2>2. Only(ext \o prio, {"CYCLE_TIME_EXT"} \cup {"PRIORITY"})
    BY <1>1, <1>2, OnlyConcat
  <2>3. Value(ext \o prio, "CYCLE_TIME_EXT", 0) = Value(ext, "CYCLE_TIME_EXT", 0)
    BY <1>1, <1>2, <2>1, ValueLeft
  <2>4. Value(ext \o prio, "PRIORITY", -1) = Value(prio, "PRIORITY", -1)
    BY <1>1, <1>2, <2>1, ValueRight
  <2> QED BY <1>1, <1>2, <1>5, <2>2, <2>3, <2>4
<1> DEFINE S == {"CYCLE_TIME_EXT"} \cup {"PRIORITY"}
<1>7. /\ Only(both \o flags, S \cup {"FLAGS"})
      /\ Value(both \o flags, "CYCLE_TIME_EXT", 0) = r.cycle_time_ext
      /\ Value(both \o flags, "PRIORITY", -1) = r.priority
      /\ Value(both \o flags, "FLAGS", 0) = r.flags
  <2>1. "CYCLE_TIME_EXT" \notin {"FLAGS"} /\ "PRIORITY" \notin {"FLAGS"}
        /\ "FLAGS" \notin S
    OBVIOUS
  <2>2. Only(both, S)
    BY <1>6
  <2> HIDE DEF S
  <2>3. Only(both \o flags, S \cup {"FLAGS"})
    BY <1>3, <2>2, OnlyConcat
  <2>4. Value(both \o flags, "CYCLE_TIME_EXT", 0) = Value(both, "CYCLE_TIME_EXT", 0)
    BY <1>3, <2>1, <2>2, ValueLeft
  <2>5. Value(both \o flags, "PRIORITY", -1) = Value(both, "PRIORITY", -1)
    BY <1>3, <2>1, <2>2, ValueLeft
  <2>6. Value(both \o flags, "FLAGS", 0) = Value(flags, "FLAGS", 0)
    BY <1>3, <2>1, <2>2, ValueRight
  <2> QED BY <1>3, <1>6, <2>3, <2>4, <2>5, <2>6
<1>8. S \cup {"FLAGS"} = {"CYCLE_TIME_EXT", "PRIORITY", "FLAGS"}
  OBVIOUS
<1> HIDE DEF S
<1> QED BY <1>4, <1>5, <1>7, <1>8

\* What is parsed, or applied by the kernel, of a request.
LEMMA RequestParsed ==
  ASSUME NEW r, IsSchedule(r)
  PROVE  LET parsed == Parsed(NewAction(r))
         IN  /\ parsed = [index |-> r.index, clockid |-> r.clockid,
                          base_time |-> r.base_time, cycle_time |-> r.cycle_time,
                          cycle_time_ext |-> r.cycle_time_ext, flags |-> r.flags,
                          priority |-> r.priority, entries |-> parsed.entries]
             /\ Len(parsed.entries) = Len(r.entries)
             /\ \A k \in 1..Len(r.entries) :
                  parsed.entries[k] = [index |-> 0, interval |-> r.entries[k].interval,
                                       gate_state |-> r.entries[k].gate_state,
                                       ipv |-> r.entries[k].ipv,
                                       maxoctets |-> r.entries[k].maxoctets]
<1> DEFINE n == Len(r.entries)
           list == [k \in 1..n |-> Attr("ONE_ENTRY", EntryAttrs(r.entries[k]))]
           b == <<Attr("PARMS", r.index), Attr("CLOCKID", r.clockid),
                  Attr("BASE_TIME", r.base_time), Attr("CYCLE_TIME", r.cycle_time)>>
           last == Optional(r.entries # <<>>, "ENTRY_LIST", list)
           found == IF r.entries # <<>> THEN list ELSE <<>>
           oa == OptionAttrs(r)
           options == (b \o oa) \o last
<1>1. IsSeq(b) /\ Len(b) = 4
  <2>1. b = [i \in 1..4 |-> b[i]] /\ DOMAIN b = 1..4
    OBVIOUS
  <2> QED BY <2>1, SeqOf
<1>2. /\ b[1].type = "PARMS" /\ b[1].value = r.index
      /\ b[2].type = "CLOCKID" /\ b[2].value = r.clockid
      /\ b[3].type = "BASE_TIME" /\ b[3].value = r.base_time
      /\ b[4].type = "CYCLE_TIME" /\ b[4].value = r.cycle_time
  BY DEF Attr
<1>3. NewAction(r) = Message(r.index, options)
  BY DEF NewAction, GateOptions
<1>4. n \in Nat /\ Len(list) = n
      /\ \A k \in 1..n : list[k] = Attr("ONE_ENTRY", EntryAttrs(r.entries[k]))
  <2>1. n \in Nat
    BY DEF IsSchedule
  <2>2. DOMAIN list = 1..n /\ list = [k \in 1..n |-> list[k]]
    OBVIOUS
  <2>3. Len(list) = n
    BY <2>1, <2>2, SeqOf
  <2> QED BY <2>1, <2>3
<1> HIDE DEF b, n, list
<1>5. \A i \in 1..4 : i = 1 \/ i = 2 \/ i = 3 \/ i = 4
  OBVIOUS
<1>6. Distinct(b)
  BY <1>1, <1>2, <1>5 DEF Distinct
<1>7. /\ Value(b, "PARMS", r.index) = r.index
      /\ Value(b, "CLOCKID", 0) = r.clockid
      /\ Value(b, "BASE_TIME", 0) = r.base_time
      /\ Value(b, "CYCLE_TIME", 0) = r.cycle_time
      /\ Only(b, {"PARMS", "CLOCKID", "BASE_TIME", "CYCLE_TIME"})
  <2>1. \A k \in 1..4 : \A d : Value(b, b[k].type, d) = b[k].value
    BY <1>1, <1>6, DistinctValue
  <2>2. \A k \in {1, 2, 3, 4} : k \in 1..4
    OBVIOUS
  <2>3. /\ Value(b, "PARMS", r.index) = r.index
        /\ Value(b, "CLOCKID", 0) = r.clockid
        /\ Value(b, "BASE_TIME", 0) = r.base_time
        /\ Value(b, "CYCLE_TIME", 0) = r.cycle_time
    BY <1>2, <2>1, <2>2
  <2>4. ASSUME NEW type, Has(b, type)
        PROVE  type \in {"PARMS", "CLOCKID", "BASE_TIME", "CYCLE_TIME"}
    <3>1. PICK i \in 1..4 : b[i].type = type
      BY <1>1, <2>4 DEF Has, Places
    <3> QED BY <1>2, <1>5, <3>1
  <2> QED BY <1>1, <2>3, <2>4 DEF Only
<1>8. Only(last, {"ENTRY_LIST"}) /\ Value(last, "ENTRY_LIST", <<>>) = found
  <2>1. CASE r.entries # <<>>
    <3>1. last = Optional(TRUE, "ENTRY_LIST", found)
      BY <2>1 DEF Optional
    <3> HIDE DEF last, found
    <3> QED BY <3>1, PartBuilt, Zenon
  <2>2. CASE r.entries = <<>>
    <3>1. last = <<>> /\ found = <<>>
      BY <2>2 DEF Optional
    <3> HIDE DEF last, found
    <3>2. Only(<<>>, {"ENTRY_LIST"}) /\ Value(<<>>, "ENTRY_LIST", <<>>) = <<>>
      BY PartLeftOut
    <3> QED BY <3>1, <3>2, Zenon
  <2> QED BY <2>1, <2>2
<1>9. /\ Only(oa, {"CYCLE_TIME_EXT", "PRIORITY", "FLAGS"})
      /\ Value(oa, "CYCLE_TIME_EXT", 0) = r.cycle_time_ext
      /\ Value(oa, "PRIORITY", -1) = r.priority
      /\ Value(oa, "FLAGS", 0) = r.flags
  BY OptionsBuilt
<1>10. Len(found) = n /\ \A k \in 1..n :
         found[k] = Attr("ONE_ENTRY", EntryAttrs(r.entries[k]))
  <2>1. CASE r.entries # <<>>
    BY <1>4, <2>1
  <2>2. CASE r.entries = <<>>
    <3>1. n = 0 /\ Len(<<>>) = 0
      BY <2>2, SeqEmpty DEF n
    <3> QED BY <2>2, <3>1
  <2> QED BY <2>1, <2>2
<1> HIDE DEF last, oa, found
<1> DEFINE S == {"PARMS", "CLOCKID", "BASE_TIME", "CYCLE_TIME"}
           T == {"CYCLE_TIME_EXT", "PRIORITY", "FLAGS"}
<1>11. PICK front : front = b \o oa
  OBVIOUS
<1>12. /\ Only(front, S \cup T)
       /\ Value(front, "PARMS", r.index) = r.index
       /\ Value(front, "CLOCKID", 0) = r.clockid
       /\ Value(front, "BASE_TIME", 0) = r.base_time
       /\ Value(front, "CYCLE_TIME", 0) = r.cycle_time
       /\ Value(front, "CYCLE_TIME_EXT", 0) = r.cycle_time_ext
       /\ Value(front, "PRIORITY", -1) = r.priority
       /\ Value(front, "FLAGS", 0) = r.flags
  <2>1. /\ "PARMS" \notin T /\ "CLOCKID" \notin T
        /\ "BASE_TIME" \notin T /\ "CYCLE_TIME" \notin T
        /\ "CYCLE_TIME_EXT" \notin S /\ "PRIORITY" \notin S /\ "FLAGS" \notin S
    OBVIOUS
  <2>2. Only(b, S) /\ Only(oa, T)
    BY <1>7, <1>9
  <2> HIDE DEF S, T
  <2>3. Only(b \o oa, S \cup T)
    BY <2>2, OnlyConcat
  <2>4. ASSUME NEW type, type \notin T, NEW default
        PROVE  Value(b \o oa, type, default) = Value(b, type, default)
    BY <2>2, <2>4, ValueLeft
  <2>5. ASSUME NEW type, type \notin S, NEW default
        PROVE  Value(b \o oa, type, default) = Value(oa, type, default)
    BY <2>2, <2>5, ValueRight
  <2> QED BY <1>7, <1>9, <1>11, <2>1, <2>3, <2>4, <2>5
<1>13. options = front \o last
  BY <1>11
<1>14. /\ Value(options, "PARMS", r.index) = r.index
       /\ Value(options, "CLOCKID", 0) = r.clockid
       /\ Value(options, "BASE_TIME", 0) = r.base_time
       /\ Value(options, "CYCLE_TIME", 0) = r.cycle_time
       /\ Value(options, "CYCLE_TIME_EXT", 0) = r.cycle_time_ext
       /\ Value(options, "PRIORITY", -1) = r.priority
       /\ Value(options, "FLAGS", 0) = r.flags
       /\ Value(options, "ENTRY_LIST", <<>>) = found
  <2> DEFINE all == S \cup T
  <2>1. /\ "ENTRY_LIST" \notin all
        /\ \A type \in all : type \notin {"ENTRY_LIST"}
        /\ {"PARMS", "CLOCKID", "BASE_TIME", "CYCLE_TIME", "CYCLE_TIME_EXT", "PRIORITY",
            "FLAGS"} \subseteq all
    OBVIOUS
  <2>2. Only(front, all) /\ Only(last, {"ENTRY_LIST"})
    BY <1>8, <1>12
  <2> HIDE DEF all
  <2>3. ASSUME NEW type \in all, NEW default
        PROVE  Value(front \o last, type, default) = Value(front, type, default)
    BY <2>1, <2>2, ValueLeft
  <2>4. ASSUME NEW default
        PROVE  Value(front \o last, "ENTRY_LIST", default) = Value(last, "ENTRY_LIST", default)
    BY <2>1, <2>2, ValueRight
  <2> QED BY <1>8, <1>12, <1>13, <2>1, <2>3, <2>4
<1> HIDE DEF options, S, T
<1>15. PICK nested : nested = [k \in 1..n |-> found[0 + k]]
                     /\ Nested(found, "ONE_ENTRY") = nested
  <2>1. StartsAt(found, 0, n, "ONE_ENTRY")
    <3>1. ASSUME NEW k \in 1..n PROVE found[k].type = "ONE_ENTRY"
      <4>1. found[k] = Attr("ONE_ENTRY", EntryAttrs(r.entries[k]))
        BY <1>10
      <4> QED BY <4>1 DEF Attr
    <3>2. 1..0 = {} /\ (0 + 1)..(0 + n) = 1..n /\ Len(found) = 0 + n
      BY <1>4, <1>10
    <3> QED BY <3>1, <3>2 DEF StartsAt
  <2>2. PICK m, rest : m = n /\ rest = [k \in 1..m |-> found[0 + k]]
    OBVIOUS
  <2>3. m \in Nat /\ 0 \in Nat /\ StartsAt(found, 0, m, "ONE_ENTRY")
    BY <1>4, <2>1, <2>2
  <2>4. Nested(found, "ONE_ENTRY") = rest
    BY <2>2, <2>3, NestedAfter
  <2> QED BY <2>2, <2>4
<1>16. /\ Len(nested) = n
       /\ \A k \in 1..n : nested[k].value = EntryAttrs(r.entries[k])
  <2>1. DOMAIN nested = 1..n /\ nested = [k \in 1..n |-> nested[k]]
    BY <1>15
  <2>2. Len(nested) = n
    BY <1>4, <2>1, SeqOf
  <2>3. ASSUME NEW k \in 1..n PROVE nested[k].value = EntryAttrs(r.entries[k])
    <3>1. nested[k] = found[0 + k] /\ 0 + k = k
      BY <1>15
    <3>2. nested[k] = Attr("ONE_ENTRY", EntryAttrs(r.entries[k]))
      BY <1>10, <3>1
    <3> QED BY <3>2 DEF Attr
  <2> QED BY <2>2, <2>3
<1>17. PICK entries : entries = [k \in 1..n |-> ParsedEntry(nested[k].value)]
  OBVIOUS
<1>18. /\ Len(entries) = n
       /\ \A k \in 1..n :
            entries[k] = [index |-> 0, interval |-> r.entries[k].interval,
                          gate_state |-> r.entries[k].gate_state,
                          ipv |-> r.entries[k].ipv, maxoctets |-> r.entries[k].maxoctets]
  <2>1. DOMAIN entries = 1..n /\ entries = [k \in 1..n |-> entries[k]]
    BY <1>17
  <2>2. Len(entries) = n
    BY <1>4, <2>1, SeqOf
  <2>3. ASSUME NEW k \in 1..n
        PROVE  entries[k] = [index |-> 0, interval |-> r.entries[k].interval,
                             gate_state |-> r.entries[k].gate_state,
                             ipv |-> r.entries[k].ipv, maxoctets |-> r.entries[k].maxoctets]
    <3>1. entries[k] = ParsedEntry(EntryAttrs(r.entries[k]))
      BY <1>16, <1>17
    <3>2. r.entries[k].gate_state \in BOOLEAN
      BY DEF IsSchedule, IsEntry, n
    <3> QED BY <3>1, <3>2, EntryBuilt
  <2> QED BY <2>2, <2>3
<1>19. Parsed(NewAction(r)) = ParsedOptions(r.index, options)
  BY <1>3, ParsedMessage
<1>20. ParsedOptions(r.index, options)
         = [index |-> r.index, clockid |-> r.clockid, base_time |-> r.base_time,
            cycle_time |-> r.cycle_time, cycle_time_ext |-> r.cycle_time_ext,
            flags |-> r.flags, priority |-> r.priority, entries |-> entries]
  BY <1>14, <1>10, <1>15, <1>16, <1>17 DEF ParsedOptions
<1> QED BY <1>18, <1>19, <1>20 DEF n

-----------------------------------------------------------------------------
(* What the kernel applies. *)

\* A sum of intervals exists, and is a natural number.
Sums(entries, f, m) ==
    /\ f = [n \in 0..m |-> f[n]]
    /\ f[0] = 0
    /\ \A n \in 1..m : f[n] = f[n - 1] + entries[n].interval
    /\ \A n \in 0..m : f[n] \in Nat

LEMMA SumExists ==
  ASSUME NEW entries, Len(entries) \in Nat,
         \A k \in 1..Len(entries) : entries[k].interval \in Nat
  PROVE  \A m \in 0..Len(entries) : \E f : Sums(entries, f, m)
<1> DEFINE Bad == {m \in 0..Len(entries) : ~ \E f : Sums(entries, f, m)}
<1> SUFFICES ASSUME Bad # {} PROVE FALSE
  OBVIOUS
<1>1. PICK m \in Bad : \A k \in Bad : m <= k
  <2>1. Bad \in SUBSET Nat /\ Bad # {}
    OBVIOUS
  <2> QED BY <2>1, LeastElement
<1>3. m \in 0..Len(entries) /\ m \in Nat /\ ~ \E f : Sums(entries, f, m)
  OBVIOUS
<1>2. \A k \in Bad : ~ (k < m)
  <2>1. \A k \in Bad : k \in Nat
    OBVIOUS
  <2>2. m \in Nat
    BY <1>3
  <2>3. \A k \in Bad : m <= k
    BY <1>1
  <2> HIDE DEF Bad
  <2> QED BY <2>1, <2>2, <2>3
<1>4. m # 0
  <2> SUFFICES ASSUME m = 0 PROVE FALSE
    OBVIOUS
  <2>1. PICK f : f = [n \in 0..0 |-> 0]
    OBVIOUS
  <2>2. Sums(entries, f, 0)
    BY <2>1 DEF Sums
  <2> QED BY <1>3, <2>2
<1>5. m - 1 \in 0..Len(entries) /\ m - 1 < m
  BY <1>3, <1>4
<1>6. PICK f : Sums(entries, f, m - 1)
  <2>1. m - 1 \notin Bad
    BY <1>2, <1>5
  <2> QED BY <1>5, <2>1
<1>7. entries[m].interval \in Nat
  BY <1>3, <1>4
<1>8. PICK g : g = [n \in 0..m |-> IF n = m THEN f[m - 1] + entries[m].interval ELSE f[n]]
  OBVIOUS
<1>9. /\ g[m] = f[m - 1] + entries[m].interval
      /\ \A n \in 0..(m - 1) : g[n] = f[n]
  BY <1>3, <1>8
<1>10. f[m - 1] \in Nat /\ f[0] = 0
  BY <1>3, <1>4, <1>6 DEF Sums
<1>11. g = [n \in 0..m |-> g[n]]
  BY <1>8
<1>12. g[0] = 0
  BY <1>3, <1>4, <1>9, <1>10
<1>13. ASSUME NEW n \in 1..m PROVE g[n] = g[n - 1] + entries[n].interval
  <2>1. CASE n = m
    <3>1. g[m - 1] = f[m - 1]
      BY <1>3, <1>4, <1>9
    <3> QED BY <1>9, <2>1, <3>1
  <2>2. CASE n # m
    <3>1. n \in 1..(m - 1) /\ n \in 0..(m - 1) /\ n - 1 \in 0..(m - 1)
      BY <1>3, <2>2
    <3>2. f[n] = f[n - 1] + entries[n].interval
      BY <1>6, <3>1 DEF Sums
    <3> QED BY <1>9, <3>1, <3>2
  <2> QED BY <2>1, <2>2
<1>14. ASSUME NEW n \in 0..m PROVE g[n] \in Nat
  <2>1. CASE n = m
    BY <1>7, <1>9, <1>10, <2>1
  <2>2. CASE n # m
    <3>1. n \in 0..(m - 1)
      BY <1>3, <2>2
    <3>2. f[n] \in Nat
      BY <1>6, <3>1 DEF Sums
    <3> QED BY <1>9, <3>1, <3>2
  <2> QED BY <2>1, <2>2
<1>15. Sums(entries, g, m)
  BY <1>11, <1>12, <1>13, <1>14 DEF Sums
<1> QED BY <1>3, <1>15

LEMMA SumIsNat ==
  ASSUME NEW entries, Len(entries) \in Nat,
         \A k \in 1..Len(entries) : entries[k].interval \in Nat
  PROVE  SumOfIntervals(entries) \in Nat
<1>0. PICK m \in Nat : m = Len(entries)
  OBVIOUS
<1> DEFINE IsSum(f) ==
             f = [n \in 0..m |-> IF n = 0 THEN 0 ELSE f[n - 1] + entries[n].interval]
           sum == CHOOSE f : IsSum(f)
<1>1. SumOfIntervals(entries) = sum[m]
  BY <1>0 DEF SumOfIntervals
<1>2. PICK f : Sums(entries, f, m)
  <2>1. m \in 0..Len(entries)
    BY <1>0
  <2> QED BY <2>1, SumExists
<1>3. IsSum(f)
  <2>1. f = [n \in 0..m |-> f[n]]
    BY <1>2 DEF Sums
  <2>2. ASSUME NEW n \in 0..m
        PROVE  f[n] = IF n = 0 THEN 0 ELSE f[n - 1] + entries[n].interval
    <3>1. CASE n = 0
      BY <1>2, <3>1 DEF Sums
    <3>2. CASE n # 0
      <4>1. n \in 1..m
        BY <3>2
      <4> QED BY <1>2, <3>2, <4>1 DEF Sums
    <3> QED BY <3>1, <3>2
  <2>3. [n \in 0..m |-> f[n]]
          = [n \in 0..m |-> IF n = 0 THEN 0 ELSE f[n - 1] + entries[n].interval]
    BY <2>2
  <2> QED BY <2>1, <2>3
<1>4. IsSum(sum)
  BY <1>3
<1>5. PICK g : g = sum
  OBVIOUS
<1>6. g = [n \in 0..m |-> IF n = 0 THEN 0 ELSE g[n - 1] + entries[n].interval]
  BY <1>4, <1>5
<1> HIDE DEF sum, IsSum
<1>7. /\ g[0] = 0
      /\ \A n \in 1..m : g[n] = g[n - 1] + entries[n].interval
  <2>1. \A n \in 0..m : g[n] = IF n = 0 THEN 0 ELSE g[n - 1] + entries[n].interval
    BY <1>6
  <2>2. 0 \in 0..m
    OBVIOUS
  <2>3. \A n \in 1..m : n \in 0..m /\ n # 0
    OBVIOUS
  <2> QED BY <2>1, <2>2, <2>3
<1> DEFINE Bad == {n \in 0..m : g[n] \notin Nat}
<1>8. Bad = {}
  <2> SUFFICES ASSUME Bad # {} PROVE FALSE
    OBVIOUS
  <2>1. PICK k \in Bad : \A j \in Bad : k <= j
    <3>1. Bad \in SUBSET Nat /\ Bad # {}
      OBVIOUS
    <3> QED BY <3>1, LeastElement
  <2>2. \A j \in Bad : ~ (j < k)
    BY <2>1
  <2>3. k \in 0..m /\ g[k] \notin Nat
    BY <2>1
  <2>4. k # 0
    BY <1>7, <2>3
  <2>5. k - 1 \in 0..m /\ k - 1 < k /\ k \in 1..m
    BY <2>3, <2>4
  <2>6. g[k - 1] \in Nat
    BY <2>2, <2>5
  <2>7. g[k] = g[k - 1] + entries[k].interval /\ entries[k].interval \in Nat
    BY <1>0, <1>7, <2>5
  <2> QED BY <2>3, <2>6, <2>7
<1>9. m \in 0..m
  OBVIOUS
<1> QED BY <1>1, <1>5, <1>8, <1>9

\* A schedule of numbers that are not negative, of as many entries as there may be.
Sound(s) ==
    /\ IsSchedule(s)
    /\ Len(s.entries) <= MaxEntries
    /\ {s.index, s.clockid, s.base_time, s.cycle_time, s.cycle_time_ext, s.flags}
         \subseteq Nat
    /\ \A k \in 1..Len(s.entries) :
         s.entries[k].index \in Nat /\ s.entries[k].interval \in Nat

\* The entry with its place for a number.
At(e, k) == [index |-> k - 1, interval |-> e.interval, gate_state |-> e.gate_state,
             ipv |-> e.ipv, maxoctets |-> e.maxoctets]

\* s is the schedule r after it was applied.
AppliedFrom(s, r) ==
    /\ s.index = r.index /\ s.clockid = r.clockid /\ s.base_time = r.base_time
    /\ s.cycle_time_ext = r.cycle_time_ext /\ s.flags = r.flags /\ s.priority = r.priority
    /\ Len(s.entries) = Len(r.entries)
    /\ \A k \in 1..Len(r.entries) : s.entries[k] = At(r.entries[k], k)

LEMMA AppliedRequest ==
  ASSUME NEW r, Sound(r)
  PROVE  Sound(Applied(NewAction(r))) /\ AppliedFrom(Applied(NewAction(r)), r)
<1>1. PICK n \in Nat : n = Len(r.entries) /\ IsSchedule(r)
  BY DEF Sound, IsSchedule
<1>2. PICK asked : asked = Parsed(NewAction(r))
  OBVIOUS
<1>3. /\ asked = [index |-> r.index, clockid |-> r.clockid,
                  base_time |-> r.base_time, cycle_time |-> r.cycle_time,
                  cycle_time_ext |-> r.cycle_time_ext, flags |-> r.flags,
                  priority |-> r.priority, entries |-> asked.entries]
      /\ Len(asked.entries) = n
      /\ \A k \in 1..n :
           asked.entries[k] = [index |-> 0, interval |-> r.entries[k].interval,
                               gate_state |-> r.entries[k].gate_state,
                               ipv |-> r.entries[k].ipv,
                               maxoctets |-> r.entries[k].maxoctets]
  BY <1>1, <1>2, RequestParsed
<1>4. PICK entries : entries = [k \in 1..n |-> [asked.entries[k] EXCEPT !.index = k - 1]]
  OBVIOUS
<1>5. Len(entries) = n /\ entries = [k \in 1..n |-> entries[k]]
  <2>1. DOMAIN entries = 1..n /\ entries = [k \in 1..n |-> entries[k]]
    BY <1>4
  <2> QED BY <2>1, SeqOf
<1>6. ASSUME NEW k \in 1..n PROVE entries[k] = At(r.entries[k], k)
  <2>1. PICK e : e = asked.entries[k]
    OBVIOUS
  <2>2. e = [index |-> 0, interval |-> r.entries[k].interval,
             gate_state |-> r.entries[k].gate_state, ipv |-> r.entries[k].ipv,
             maxoctets |-> r.entries[k].maxoctets]
    BY <1>3, <2>1
  <2>3. entries[k] = [e EXCEPT !.index = k - 1]
    BY <1>4, <2>1
  <2> QED BY <2>2, <2>3 DEF At
<1>7. PICK cycle : cycle = IF asked.cycle_time = 0 THEN SumOfIntervals(asked.entries)
                           ELSE asked.cycle_time
  OBVIOUS
<1>8. PICK s : s = Applied(NewAction(r))
  OBVIOUS
<1>9. s = [asked EXCEPT !.entries = entries, !.cycle_time = cycle]
  BY <1>2, <1>3, <1>4, <1>7, <1>8 DEF Applied
<1>10. s = [index |-> r.index, clockid |-> r.clockid, base_time |-> r.base_time,
            cycle_time |-> cycle, cycle_time_ext |-> r.cycle_time_ext,
            flags |-> r.flags, priority |-> r.priority, entries |-> entries]
  <2>1. PICK old : old = asked.entries
    OBVIOUS
  <2>2. asked = [index |-> r.index, clockid |-> r.clockid,
                 base_time |-> r.base_time, cycle_time |-> r.cycle_time,
                 cycle_time_ext |-> r.cycle_time_ext, flags |-> r.flags,
                 priority |-> r.priority, entries |-> old]
    BY <1>3, <2>1
  <2> QED BY <1>9, <2>2
<1>11. cycle \in Nat
  <2>1. CASE asked.cycle_time = 0
    <3>1. ASSUME NEW k \in 1..Len(asked.entries) PROVE asked.entries[k].interval \in Nat
      <4>1. r.entries[k].interval \in Nat
        BY <1>1, <1>3 DEF Sound
      <4>2. k \in 1..n
        BY <1>3
      <4>3. PICK e : e = asked.entries[k]
        OBVIOUS
      <4>4. e = [index |-> 0, interval |-> r.entries[k].interval,
                 gate_state |-> r.entries[k].gate_state, ipv |-> r.entries[k].ipv,
                 maxoctets |-> r.entries[k].maxoctets]
        BY <1>3, <4>2, <4>3
      <4> QED BY <4>1, <4>3, <4>4
    <3>2. SumOfIntervals(asked.entries) \in Nat
      BY <1>3, <3>1, SumIsNat
    <3> QED BY <1>7, <2>1, <3>2
  <2>2. CASE asked.cycle_time # 0
    BY <1>3, <1>7, <2>2 DEF Sound
  <2> QED BY <2>1, <2>2
<1>12. /\ s.index = r.index /\ s.clockid = r.clockid /\ s.base_time = r.base_time
       /\ s.cycle_time = cycle /\ s.cycle_time_ext = r.cycle_time_ext
       /\ s.flags = r.flags /\ s.priority = r.priority /\ s.entries = entries
  BY <1>10
<1>13. ASSUME NEW k \in 1..n
       PROVE  /\ IsEntry(entries[k])
              /\ entries[k].index \in Nat /\ entries[k].interval \in Nat
  <2>1. PICK e : e = entries[k]
    OBVIOUS
  <2>2. /\ r.entries[k].gate_state \in BOOLEAN
        /\ r.entries[k].interval \in Nat
    BY <1>1 DEF Sound, IsSchedule, IsEntry
  <2>3. e = At(r.entries[k], k) /\ k - 1 \in Nat
    BY <1>6, <2>1
  <2>4. /\ e.index = k - 1 /\ e.interval = r.entries[k].interval
        /\ e.gate_state = r.entries[k].gate_state
        /\ e.ipv = r.entries[k].ipv /\ e.maxoctets = r.entries[k].maxoctets
    BY <2>3 DEF At
  <2>5. IsEntry(e)
    BY <2>2, <2>3, <2>4 DEF IsEntry, At
  <2> QED BY <2>1, <2>2, <2>3, <2>4, <2>5
<1>14. IsSchedule(s)
  BY <1>5, <1>10, <1>12, <1>13 DEF IsSchedule
<1>15. Sound(s)
  <2>1. Len(s.entries) <= MaxEntries
    BY <1>1, <1>5, <1>12 DEF Sound
  <2>2. {s.index, s.clockid, s.base_time, s.cycle_time, s.cycle_time_ext, s.flags}
          \subseteq Nat
    BY <1>11, <1>12 DEF Sound
  <2>3. \A k \in 1..Len(s.entries) :
          s.entries[k].index \in Nat /\ s.entries[k].interval \in Nat
    BY <1>5, <1>12, <1>13
  <2> QED BY <1>14, <2>1, <2>2, <2>3 DEF Sound
<1>16. AppliedFrom(s, r)
  BY <1>1, <1>5, <1>6, <1>12 DEF AppliedFrom
<1> QED BY <1>8, <1>15, <1>16

-----------------------------------------------------------------------------
(* The invariant. *)

LEMMA ShapesSound ==
  ASSUME NEW s \in Shapes
  PROVE  Sound(s) /\ s.base_time = 0
<1>1. /\ s = [index |-> s.index, clockid |-> s.clockid, base_time |-> s.base_time,
              cycle_time |-> s.cycle_time, cycle_time_ext |-> s.cycle_time_ext,
              flags |-> s.flags, priority |-> s.priority, entries |-> s.entries]
      /\ s.base_time = 0
      /\ {s.index, s.clockid, s.base_time, s.cycle_time, s.cycle_time_ext, s.flags}
           \subseteq Nat
      /\ s.entries \in EntryLists
  BY DEF Shapes
<1>2. PICK list : list = s.entries
  OBVIOUS
<1>3. PICK n \in 0..MaxEntries :
        /\ DOMAIN list = 1..n /\ list = [k \in 1..n |-> list[k]]
        /\ \A k \in 1..n : /\ IsEntry(list[k])
                           /\ list[k].index \in Nat /\ list[k].interval \in Nat
  <2>1. CASE \E n \in Counts, interval \in Intervals : list = Generated(n, interval)
    <3>1. PICK n \in Counts, interval \in Intervals : list = Generated(n, interval)
      BY <2>1
    <3>2. n \in 0..MaxEntries /\ interval \in Nat
      BY CountsAssumption, IntervalsAssumption
    <3>3. DOMAIN list = 1..n /\ list = [k \in 1..n |-> list[k]]
      BY <3>1 DEF Generated
    <3>4. ASSUME NEW k \in 1..n
          PROVE  IsEntry(list[k]) /\ list[k].index \in Nat /\ list[k].interval \in Nat
      <4>1. list[k] = FillEntry(k - 1, n, interval) /\ k - 1 \in Nat
        BY <3>1, <3>2 DEF Generated
      <4> DEFINE guard == n >= 10 /\ ((k - 1) + 1) % 10 = 0
                 v == CASE guard -> -1 [] (k - 1) % 2 = 0 -> 7 [] OTHER -> 0
                 o == CASE guard -> -1 [] (k - 1) % 2 = 0 -> 8192 [] OTHER -> 32768
      <4>2. list[k] = [index |-> k - 1, interval |-> interval, gate_state |-> ~ guard,
                       ipv |-> v, maxoctets |-> o]
        BY <4>1 DEF FillEntry
      <4>3. (~ guard) \in BOOLEAN
        OBVIOUS
      <4> HIDE DEF guard, v, o
      <4>4. PICK e, open : e = list[k] /\ open = ~ guard
        OBVIOUS
      <4>5. e = [index |-> k - 1, interval |-> interval, gate_state |-> open,
                 ipv |-> v, maxoctets |-> o]
        BY <4>2, <4>4
      <4>6. open \in BOOLEAN
        BY <4>3, <4>4
      <4>7. IsEntry(e) /\ e.index = k - 1 /\ e.interval = interval
        BY <4>5, <4>6 DEF IsEntry
      <4> QED BY <3>2, <4>1, <4>4, <4>7
    <3> QED BY <3>2, <3>3, <3>4
  <2>2. CASE \E n \in 0..ShortLists : list \in [1..n -> Arbitrary]
    <3>1. PICK n \in 0..ShortLists : list \in [1..n -> Arbitrary]
      BY <2>2
    <3>2. n \in 0..MaxEntries
      BY CountsAssumption, EntriesAssumption
    <3>3. ASSUME NEW k \in 1..n
          PROVE  IsEntry(list[k]) /\ list[k].index \in Nat /\ list[k].interval \in Nat
      <4>1. PICK e \in Arbitrary : e = list[k]
        BY <3>1
      <4>2. PICK interval \in Intervals, open \in BOOLEAN, ipv \in {-1, 3}, octets \in {-1, 0} :
              e = [index |-> 0, interval |-> interval, gate_state |-> open,
                   ipv |-> ipv, maxoctets |-> octets]
        BY DEF Arbitrary
      <4>3. interval \in Nat
        BY IntervalsAssumption
      <4>4. IsEntry(e) /\ e.index \in Nat /\ e.interval \in Nat
        BY <4>2, <4>3 DEF IsEntry
      <4> QED BY <4>1, <4>4
    <3> QED BY <3>1, <3>2, <3>3
  <2> QED BY <1>1, <1>2, <2>1, <2>2 DEF EntryLists
<1>4. n \in Nat /\ n <= MaxEntries
  BY EntriesAssumption
<1>5. Len(list) = n
  BY <1>3, <1>4, SeqOf
<1>6. IsSchedule(s)
  BY <1>1, <1>2, <1>3, <1>4, <1>5 DEF IsSchedule
<1> QED BY <1>1, <1>2, <1>3, <1>4, <1>5, <1>6 DEF Sound

\* A dump that gb_nl_gate_parse has only cleared.
LEMMA NothingSound == Sound(Nothing)
<1>1. PICK none : none = <<>>
  OBVIOUS
<1>2. \A type, default : Value(none, type, default) = default
  BY <1>1, ValueEmpty
<1>3. Len(none) = 0
  BY <1>1, SeqEmpty
<1>4. Nothing = ParsedOptions(0, none)
  <2>1. Value(none, "ACT_TAB", <<>>) = none
    BY <1>1, <1>2
  <2> QED BY <1>1, <1>3, <2>1 DEF Nothing, Parsed
<1>5. Value(none, "ENTRY_LIST", <<>>) = none
  BY <1>1, <1>2
<1>6. PICK nested : Nested(none, "ONE_ENTRY") = nested /\ Len(nested) = 0
  <2>1. PICK m, rest : m = 0 /\ rest = [k \in 1..m |-> none[0 + k]]
    OBVIOUS
  <2>2. m \in Nat /\ 0 \in Nat /\ StartsAt(none, 0, m, "ONE_ENTRY")
    BY <1>3, <2>1 DEF StartsAt
  <2>3. Nested(none, "ONE_ENTRY") = rest
    BY <2>1, <2>2, NestedAfter
  <2>4. DOMAIN rest = 1..m /\ rest = [k \in 1..m |-> rest[k]]
    BY <2>1
  <2>5. Len(rest) = m
    BY <2>2, <2>4, SeqOf
  <2> QED BY <2>1, <2>3, <2>5
<1>7. PICK entries : entries = [k \in 1..Len(nested) |-> ParsedEntry(nested[k].value)]
  OBVIOUS
<1>8. Nothing = [index |-> 0, clockid |-> 0, base_time |-> 0, cycle_time |-> 0,
                 cycle_time_ext |-> 0, flags |-> 0, priority |-> -1, entries |-> entries]
  BY <1>2, <1>4, <1>5, <1>6, <1>7 DEF ParsedOptions
<1>9. DOMAIN entries = 1..0 /\ entries = [k \in 1..0 |-> entries[k]] /\ Len(entries) = 0
  <2>1. DOMAIN entries = 1..0 /\ entries = [k \in 1..0 |-> entries[k]]
    BY <1>6, <1>7
  <2>2. Len(entries) = 0
    BY <2>1, SeqOf
  <2> QED BY <2>1, <2>2
<1>10. PICK s : s = Nothing
  OBVIOUS
<1>11. /\ s.index = 0 /\ s.clockid = 0 /\ s.base_time = 0 /\ s.cycle_time = 0
       /\ s.cycle_time_ext = 0 /\ s.flags = 0 /\ s.priority = -1 /\ s.entries = entries
  BY <1>8, <1>10
<1>12. IsSchedule(s)
  <2>1. Len(s.entries) = 0 /\ 1..0 = {}
    BY <1>9, <1>11
  <2>2. s.entries = [k \in 1..Len(s.entries) |-> s.entries[k]]
    BY <1>9, <1>11, <2>1
  <2>3. s = [index |-> 0, clockid |-> 0, base_time |-> 0, cycle_time |-> 0,
             cycle_time_ext |-> 0, flags |-> 0, priority |-> -1, entries |-> entries]
    BY <1>8, <1>10
  <2>4. s = [index |-> s.index, clockid |-> s.clockid, base_time |-> s.base_time,
             cycle_time |-> s.cycle_time, cycle_time_ext |-> s.cycle_time_ext,
             flags |-> s.flags, priority |-> s.priority, entries |-> s.entries]
    BY <1>11, <2>3
  <2> QED BY <2>1, <2>2, <2>4 DEF IsSchedule
<1>13. Sound(s)
  <2>1. /\ s.index \in Nat /\ s.clockid \in Nat /\ s.base_time \in Nat
        /\ s.cycle_time \in Nat /\ s.cycle_time_ext \in Nat /\ s.flags \in Nat
    BY <1>11
  <2>2. Len(s.entries) = 0 /\ 1..0 = {}
    BY <1>9, <1>11
  <2>3. 0 <= MaxEntries
    BY EntriesAssumption
  <2> QED BY <1>12, <2>1, <2>2, <2>3 DEF Sound
<1> QED BY <1>10, <1>13

\* The schedule with another base time is as sound, with the same entries.
LEMMA UpdatedSound ==
  ASSUME NEW asked, Sound(asked), NEW d, Sound(d), NEW clockid \in Nat
  PROVE  /\ Sound(Updated(asked, d, 5, clockid))
         /\ Updated(asked, d, 5, clockid).entries = d.entries
         /\ Updated(asked, d, 5, clockid).base_time = 5
<1>1. PICK entries, index : entries = d.entries /\ index = d.index
  OBVIOUS
<1>2. SumOfIntervals(entries) \in Nat
  BY <1>1, SumIsNat DEF Sound, IsSchedule
<1>3. PICK cycle \in Nat :
        cycle = LET sum == SumOfIntervals(entries)
                IN  CASE asked.cycle_time # 0 -> asked.cycle_time
                      [] asked.cycle_time = 0 /\ sum # 0 -> sum
                      [] OTHER -> interval_ns
  <2>1. asked.cycle_time \in Nat
    BY DEF Sound
  <2> QED BY <1>2, <2>1, IntervalsAssumption
<1>4. PICK s : s = Updated(asked, d, 5, clockid)
  OBVIOUS
<1>5. s = [d EXCEPT !.base_time = 5, !.clockid = clockid, !.cycle_time = cycle,
                    !.cycle_time_ext = asked.cycle_time_ext, !.flags = 0, !.priority = -1]
  BY <1>1, <1>3, <1>4 DEF Updated
<1>6. s = [index |-> index, clockid |-> clockid, base_time |-> 5,
           cycle_time |-> cycle, cycle_time_ext |-> asked.cycle_time_ext,
           flags |-> 0, priority |-> -1, entries |-> entries]
  <2>1. PICK clock, base, time, ext, flags, prio :
          d = [index |-> index, clockid |-> clock, base_time |-> base,
               cycle_time |-> time, cycle_time_ext |-> ext,
               flags |-> flags, priority |-> prio, entries |-> entries]
    BY <1>1 DEF Sound, IsSchedule
  <2> QED BY <1>5, <2>1
<1>7. /\ s.index = index /\ s.clockid = clockid /\ s.base_time = 5 /\ s.cycle_time = cycle
      /\ s.cycle_time_ext = asked.cycle_time_ext /\ s.flags = 0 /\ s.priority = -1
      /\ s.entries = entries
  BY <1>6
<1>8. IsSchedule(s)
  BY <1>1, <1>6, <1>7 DEF Sound, IsSchedule
<1>9. index \in Nat /\ asked.cycle_time_ext \in Nat
  BY <1>1 DEF Sound
<1>10. Sound(s)
  <2>1. {s.index, s.clockid, s.base_time, s.cycle_time, s.cycle_time_ext, s.flags}
          \subseteq Nat
    BY <1>7, <1>9
  <2> QED BY <1>1, <1>7, <1>8, <2>1 DEF Sound
<1> QED BY <1>1, <1>4, <1>7, <1>10

\* The entries of two schedules agree, but for their numbers.
SameEntries(s, r) ==
    /\ Len(s.entries) = Len(r.entries)
    /\ \A k \in 1..Len(r.entries) : Same(s.entries[k], r.entries[k])

\* The inductive invariant.  Every schedule on the way is sound, so that the
\* lemmas apply to it, and every message is one of the known forms, made of the
\* schedule it is about.
IInv ==
    /\ stage \in {"start", "built", "applied", "answered", "parsed", "sent back"}
    /\ Sound(shape) /\ shape.base_time = 0
    /\ Sound(kernel) /\ Sound(dump)
    /\ stage \notin {"start", "built"} =>
         \A k \in 1..Len(kernel.entries) : kernel.entries[k] = At(kernel.entries[k], k)
    /\ stage = "built" => message = NewAction(shape)
    /\ stage = "answered" => \E newer \in Newer : message = Answer(kernel, newer)
    /\ stage \in {"parsed", "sent back"} => dump = kernel
    /\ stage = "sent back" =>
         \E clockid \in Nat : message = NewAction(Updated(shape, dump, 5, clockid))
    /\ AppliedAsAsked

LEMMA InitIInv == Init => IInv
<1> SUFFICES ASSUME Init PROVE IInv
  OBVIOUS
<1>1. Sound(shape) /\ shape.base_time = 0
  BY ShapesSound DEF Init
<1>2. Sound(kernel) /\ Sound(dump)
  BY NothingSound DEF Init
<1>3. stage = "start"
  BY DEF Init
<1> QED BY <1>1, <1>2, <1>3 DEF IInv, AppliedAsAsked

\* After any schedule was applied the entries in the kernel are numbered.
LEMMA AppliedNumbered ==
  ASSUME NEW s, NEW r, AppliedFrom(s, r), Len(r.entries) \in Nat
  PROVE  \A k \in 1..Len(s.entries) : s.entries[k] = At(s.entries[k], k)
<1>1. ASSUME NEW k \in 1..Len(s.entries) PROVE s.entries[k] = At(s.entries[k], k)
  <2>1. s.entries[k] = At(r.entries[k], k)
    BY DEF AppliedFrom
  <2>2. PICK e, f : e = s.entries[k] /\ f = r.entries[k] /\ e = At(f, k)
    BY <2>1
  <2>3. e = At(e, k)
    BY <2>2 DEF At
  <2> QED BY <2>2, <2>3
<1> QED BY <1>1

LEMMA BuildKeeps == IInv /\ Build => IInv'
<1> SUFFICES ASSUME IInv, Build PROVE IInv'
  OBVIOUS
<1>1. /\ stage' = "built" /\ message' = NewAction(shape)
      /\ shape' = shape /\ kernel' = kernel /\ dump' = dump
  BY DEF Build
<1>2. Sound(shape)' /\ (shape.base_time = 0)' /\ Sound(kernel)' /\ Sound(dump)'
  BY <1>1 DEF IInv
<1>3. (message = NewAction(shape))'
  BY <1>1
<1>4. AppliedAsAsked'
  BY <1>1 DEF AppliedAsAsked
<1> QED BY <1>1, <1>2, <1>3, <1>4 DEF IInv

LEMMA ReplyKeeps == IInv /\ Reply => IInv'
<1> SUFFICES ASSUME IInv, Reply PROVE IInv'
  OBVIOUS
<1>1. /\ stage = "applied" /\ stage' = "answered"
      /\ shape' = shape /\ kernel' = kernel /\ dump' = dump
  BY DEF Reply
<1>2. PICK newer \in Newer : message' = Answer(kernel, newer)
  BY DEF Reply, Newer
<1>3. Sound(shape)' /\ (shape.base_time = 0)' /\ Sound(kernel)' /\ Sound(dump)'
  BY <1>1 DEF IInv
<1>4. (\E n \in Newer : message = Answer(kernel, n))'
  BY <1>1, <1>2
<1>5. AppliedAsAsked'
  BY <1>1 DEF AppliedAsAsked
<1>6. (\A k \in 1..Len(kernel.entries) : kernel.entries[k] = At(kernel.entries[k], k))'
  BY <1>1 DEF IInv
<1> QED BY <1>1, <1>3, <1>4, <1>5, <1>6 DEF IInv

LEMMA ParseKeeps == IInv /\ Parse => IInv'
<1> SUFFICES ASSUME IInv, Parse PROVE IInv'
  OBVIOUS
<1>1. /\ stage = "answered" /\ stage' = "parsed" /\ dump' = Parsed(message)
      /\ shape' = shape /\ kernel' = kernel /\ message' = message
  BY DEF Parse
<1>2. PICK newer \in Newer : message = Answer(kernel, newer)
  BY <1>1 DEF IInv
<1>3. dump' = kernel
  BY <1>1, <1>2, AnswerParsed DEF IInv, Sound
<1>4. Sound(shape)' /\ (shape.base_time = 0)' /\ Sound(kernel)' /\ Sound(dump)'
  BY <1>1, <1>3 DEF IInv
<1>5. (dump = kernel)'
  BY <1>1, <1>3
<1>6. AppliedAsAsked'
  BY <1>1 DEF AppliedAsAsked
<1>7. (\A k \in 1..Len(kernel.entries) : kernel.entries[k] = At(kernel.entries[k], k))'
  BY <1>1 DEF IInv
<1> QED BY <1>1, <1>4, <1>5, <1>6, <1>7 DEF IInv

LEMMA SendBackKeeps == IInv /\ SendBack => IInv'
<1> SUFFICES ASSUME IInv, SendBack PROVE IInv'
  OBVIOUS
<1>1. /\ stage = "parsed" /\ stage' = "sent back"
      /\ shape' = shape /\ kernel' = kernel /\ dump' = dump
  BY DEF SendBack
<1>2. PICK clockid \in SentClocks : message' = NewAction(Updated(shape, dump, 5, clockid))
  BY DEF SendBack
<1>3. clockid \in Nat
  <2>1. shape.clockid \in Nat
    BY DEF IInv, Sound
  <2> QED BY <2>1 DEF SentClocks
<1>4. (\E c \in Nat : message = NewAction(Updated(shape, dump, 5, c)))'
  <2>1. Updated(shape, dump, 5, clockid) = Updated(shape', dump', 5, clockid)
    BY <1>1
  <2>2. (message = NewAction(Updated(shape, dump, 5, clockid)))'
    BY <1>2, <2>1
  <2> QED BY <1>3, <2>2
<1>5. Sound(shape)' /\ (shape.base_time = 0)' /\ Sound(kernel)' /\ Sound(dump)'
  BY <1>1 DEF IInv
<1>6. (dump = kernel)'
  BY <1>1 DEF IInv
<1>7. AppliedAsAsked'
  BY <1>1 DEF AppliedAsAsked
<1>8. (\A k \in 1..Len(kernel.entries) : kernel.entries[k] = At(kernel.entries[k], k))'
  BY <1>1 DEF IInv
<1> QED BY <1>1, <1>4, <1>5, <1>6, <1>7, <1>8 DEF IInv

\* What is in the kernel after Apply is what one of the two builders asked for.
LEMMA WhatIsApplied ==
  IInv /\ Apply =>
    /\ stage' = "applied" /\ shape' = shape /\ dump' = dump
    /\ \E r : /\ Sound(r) /\ Sound(kernel') /\ AppliedFrom(kernel', r)
              /\ stage = "built" => r = shape
              /\ stage = "sent back" => r.entries = kernel.entries /\ r.base_time = 5
<1> SUFFICES ASSUME IInv, Apply
             PROVE  /\ stage' = "applied" /\ shape' = shape /\ dump' = dump
                    /\ \E r : /\ Sound(r) /\ Sound(kernel') /\ AppliedFrom(kernel', r)
                              /\ stage = "built" => r = shape
                              /\ stage = "sent back" =>
                                   r.entries = kernel.entries /\ r.base_time = 5
  OBVIOUS
<1>1. /\ stage \in {"built", "sent back"} /\ stage' = "applied" /\ kernel' = Applied(message)
      /\ shape' = shape /\ dump' = dump
  BY DEF Apply
<1>2. CASE stage = "built"
  <2>1. kernel' = Applied(NewAction(shape)) /\ Sound(shape)
    BY <1>1, <1>2 DEF IInv
  <2>2. Sound(kernel') /\ AppliedFrom(kernel', shape)
    BY <2>1, AppliedRequest
  <2> QED BY <1>1, <1>2, <2>1, <2>2
<1>3. CASE stage = "sent back"
  <2>1. PICK clockid \in Nat : message = NewAction(Updated(shape, dump, 5, clockid))
    BY <1>3 DEF IInv
  <2>2. dump = kernel /\ Sound(dump) /\ Sound(shape)
    BY <1>3 DEF IInv
  <2>3. PICK r : /\ r = Updated(shape, dump, 5, clockid)
                 /\ Sound(r) /\ r.entries = dump.entries /\ r.base_time = 5
    <3> DEFINE u == Updated(shape, dump, 5, clockid)
    <3>1. Sound(u) /\ u.entries = dump.entries /\ u.base_time = 5
      BY <2>2, UpdatedSound, ZenonT(30)
    <3> HIDE DEF u
    <3>2. PICK r : r = u
      OBVIOUS
    <3> QED BY <3>1, <3>2 DEF u
  <2>4. kernel' = Applied(NewAction(r))
    BY <1>1, <2>1, <2>3
  <2>5. Sound(kernel') /\ AppliedFrom(kernel', r)
    BY <2>3, <2>4, AppliedRequest
  <2> QED BY <1>1, <1>3, <2>2, <2>3, <2>5
<1> QED BY <1>1, <1>2, <1>3

LEMMA ApplyKeeps == IInv /\ Apply => IInv'
<1> SUFFICES ASSUME IInv, Apply PROVE IInv'
  OBVIOUS
<1>1. stage \in {"built", "sent back"}
  BY DEF Apply
<1>2. stage' = "applied" /\ shape' = shape /\ dump' = dump
  BY WhatIsApplied
<1>3. PICK r : /\ Sound(r) /\ Sound(kernel') /\ AppliedFrom(kernel', r)
               /\ stage = "built" => r = shape
               /\ stage = "sent back" => r.entries = kernel.entries /\ r.base_time = 5
  BY WhatIsApplied
<1>4. PICK s : s = kernel'
  OBVIOUS
<1>5. \A k \in 1..Len(s.entries) : s.entries[k] = At(s.entries[k], k)
  BY <1>3, <1>4, AppliedNumbered DEF Sound, IsSchedule
<1>6. (\A k \in 1..Len(kernel.entries) : kernel.entries[k] = At(kernel.entries[k], k))'
  BY <1>4, <1>5
<1>7. AppliedAsAsked'
  <2>1. CASE stage = "sent back"
    <3>1. s.base_time = 5 /\ shape.base_time = 0
      BY <1>3, <1>4, <2>1 DEF AppliedFrom, IInv
    <3>2. kernel'.base_time # shape'.base_time
      BY <1>2, <1>4, <3>1
    <3> QED BY <3>2 DEF AppliedAsAsked
  <2>2. CASE stage = "built"
    <3>1. PICK a : a = shape' /\ AppliedFrom(s, a)
      BY <1>2, <1>3, <1>4, <2>2
    <3>2. Len(s.entries) = Len(a.entries)
      BY <3>1 DEF AppliedFrom
    <3>3. ASSUME NEW k \in 1..Len(a.entries) PROVE Same(s.entries[k], a.entries[k])
      <4>1. IsEntry(a.entries[k])
        BY <1>2, <3>1 DEF IInv, Sound, IsSchedule
      <4>2. PICK e, f : e = s.entries[k] /\ f = a.entries[k] /\ e = At(f, k) /\ IsEntry(f)
        BY <3>1, <4>1 DEF AppliedFrom
      <4>3. PICK index, interval, open, ipv, octets :
              f = [index |-> index, interval |-> interval, gate_state |-> open,
                   ipv |-> ipv, maxoctets |-> octets]
        BY <4>2 DEF IsEntry
      <4>4. e = [index |-> k - 1, interval |-> interval, gate_state |-> open,
                 ipv |-> ipv, maxoctets |-> octets]
        BY <4>2, <4>3 DEF At
      <4>5. Same(e, f)
        BY <4>3, <4>4 DEF Same
      <4> QED BY <4>2, <4>5
    <3>4. \A f \in {"index", "clockid", "cycle_time_ext", "flags", "priority"} : s[f] = a[f]
      BY <3>1 DEF AppliedFrom
    <3> QED BY <1>4, <3>1, <3>2, <3>3, <3>4 DEF AppliedAsAsked
  <2> QED BY <1>1, <2>1, <2>2
<1>8. Sound(shape)' /\ (shape.base_time = 0)' /\ Sound(kernel)' /\ Sound(dump)'
  BY <1>2, <1>3 DEF IInv
<1> QED BY <1>2, <1>6, <1>7, <1>8 DEF IInv

LEMMA StepKeeps == IInv /\ [Next]_vars => IInv'
<1> SUFFICES ASSUME IInv, [Next]_vars PROVE IInv'
  OBVIOUS
<1>1. CASE UNCHANGED vars
  BY <1>1 DEF vars, IInv, AppliedAsAsked
<1> QED BY <1>1, BuildKeeps, ApplyKeeps, ReplyKeeps, ParseKeeps, SendBackKeeps DEF Next

LEMMA Invariance == Spec => []IInv
  BY InitIInv, StepKeeps, PTL DEF Spec

-----------------------------------------------------------------------------

\* The parsers and the kernel never put anything but a natural number where the
\* structures of the program have unsigned fields.
THEOREM TypeCorrect == Spec => []TypeOK
<1>1. IInv => TypeOK
  BY DEF IInv, Sound, TypeOK
<1> QED BY <1>1, Invariance, PTL

\* A sound schedule fits the buffer made for as many entries or more.
LEMMA SoundFits ==
  ASSUME NEW r, Sound(r), NEW n \in Nat, Len(r.entries) <= n, n <= MaxEntries
  PROVE  Fits(r, gate_msg_capacity(n))
<1>1. PICK m \in Nat, limit \in Nat :
        m = Len(r.entries) /\ limit = MaxEntries /\ limit <= 2044
  <2>1. MaxEntries \in Nat /\ MaxEntries <= 2044
    BY EntriesAssumption
  <2>2. Len(r.entries) \in Nat
    BY DEF Sound, IsSchedule
  <2> QED BY <2>1, <2>2
<1>2. m <= n /\ n <= limit
  BY <1>1
<1>3. n <= 2044 /\ Len(r.entries) \in Nat
  BY <1>1, <1>2
<1> QED BY <1>3, BuffersHold

\* No message outgrows the buffer it is built in, nor any attribute the 16 bits
\* of its length: neither what is asked for nor what a worker sends back.
THEOREM EveryMessageFits == Spec => []MessagesFit
<1>1. IInv => MessagesFit
  <2> SUFFICES ASSUME IInv PROVE MessagesFit
    OBVIOUS
  <2>1. Sound(shape) /\ Sound(dump)
    BY DEF IInv
  <2>2. MaxEntries \in Nat /\ MaxEntries <= MaxEntries
    BY EntriesAssumption
  <2>3. Fits(shape, gate_msg_capacity(Len(shape.entries)))
    <3>1. PICK r, n : r = shape /\ n = Len(shape.entries)
      OBVIOUS
    <3>2. n \in Nat /\ Len(r.entries) <= n /\ n <= MaxEntries
      BY <2>1, <3>1 DEF Sound, IsSchedule
    <3>3. Fits(r, gate_msg_capacity(n))
      BY <2>1, <3>1, <3>2, SoundFits
    <3> QED BY <3>1, <3>3
  <2>4. Fits(Updated(shape, dump, 5, shape.clockid), gate_msg_capacity(MaxEntries))
    <3>1. shape.clockid \in Nat
      BY <2>1 DEF Sound
    <3>2. PICK u : u = Updated(shape, dump, 5, shape.clockid)
      OBVIOUS
    <3>3. Sound(u)
      BY <2>1, <3>1, <3>2, UpdatedSound
    <3>4. Len(u.entries) <= MaxEntries
      BY <3>3 DEF Sound
    <3>5. Fits(u, gate_msg_capacity(MaxEntries))
      BY <2>2, <3>3, <3>4, SoundFits
    <3> QED BY <3>2, <3>5
  <2> QED BY <2>3, <2>4, PlainBuffersHold DEF MessagesFit
<1> QED BY <1>1, Invariance, PTL

\* A schedule of any number of entries comes back from the kernel as it is
\* there, and it is there as it was asked for.
THEOREM SchedulesSurvive == Spec => []RoundTrip
<1>1. IInv => RoundTrip
  BY DEF IInv, RoundTrip, ParsedIsKernels
<1> QED BY <1>1, Invariance, PTL

\* A worker that fetches a schedule and sends it back with another base time
\* leaves every entry, its number included, as it was.
THEOREM EntriesStay == Spec => SendBackKeepsEntries
<1>1. IInv /\ [Next]_vars => [stage = "sent back" => kernel'.entries = kernel.entries]_kernel
  <2> SUFFICES ASSUME IInv, [Next]_vars, kernel' # kernel, stage = "sent back"
               PROVE  kernel'.entries = kernel.entries
    OBVIOUS
  <2>1. Apply
    BY DEF Next, vars, Build, Reply, Parse, SendBack
  <2>2. PICK s, r : /\ s = kernel' /\ Sound(s) /\ AppliedFrom(s, r)
                    /\ r.entries = kernel.entries
    BY <2>1, WhatIsApplied
  <2>3. PICK n : /\ n = Len(kernel.entries) /\ Len(s.entries) = n
                 /\ kernel.entries = [k \in 1..n |-> kernel.entries[k]]
                 /\ s.entries = [k \in 1..n |-> s.entries[k]]
    <3>1. /\ s.entries = [k \in 1..Len(s.entries) |-> s.entries[k]]
          /\ Len(s.entries) = Len(r.entries)
      BY <2>2 DEF AppliedFrom, Sound, IsSchedule
    <3>2. kernel.entries = [k \in 1..Len(kernel.entries) |-> kernel.entries[k]]
      BY DEF IInv, Sound, IsSchedule
    <3>3. PICK m : m = Len(kernel.entries) /\ m = Len(s.entries)
      BY <2>2, <3>1
    <3> QED BY <3>1, <3>2, <3>3
  <2>4. ASSUME NEW k \in 1..n PROVE s.entries[k] = kernel.entries[k]
    <3>1. s.entries[k] = At(kernel.entries[k], k)
      BY <2>2, <2>3 DEF AppliedFrom
    <3>2. kernel.entries[k] = At(kernel.entries[k], k)
      BY <2>3 DEF IInv
    <3> QED BY <3>1, <3>2
  <2>5. s.entries = kernel.entries
    BY <2>3, <2>4
  <2> QED BY <2>2, <2>5
<1> QED BY <1>1, Invariance, PTL DEF Spec, SendBackKeepsEntries
=============================================================================
