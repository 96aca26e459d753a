--------------------------- MODULE RacePairingProofs ---------------------------
(***************************************************************************)
(* Proofs about the pairing of a phase of race mode: whatever the random   *)
(* numbers, every slot gets two workers on opposite sides, and the kinds   *)
(* of contention the README promises occur.  The argument is OnePlaceEach  *)
(* of module RacePairing: the shuffles are permutations, the candidates    *)
(* keep the eight workers apart, and the loop over the slots places each   *)
(* of them once.                                                           *)
(***************************************************************************)
EXTENDS RacePairing, FiniteSetTheorems, TLAPS

\* One exchange of a Fisher-Yates shuffle stays a function into the same set
\* and keeps the members apart.
LEMMA SwapInjective ==
    ASSUME NEW D, NEW R, NEW f \in [D -> R], NEW x \in D, NEW y \in D, Injective(f)
    PROVE  Swap(f, x, y) \in [D -> R] /\ Injective(Swap(f, x, y))
<1> DEFINE g == Swap(f, x, y)
<1>1. g \in [D -> R]
  BY DEF Swap
<1>2. /\ g[y] = f[x]
      /\ g[x] = f[y]
      /\ \A z \in D : z # x /\ z # y => g[z] = f[z]
  BY DEF Swap
<1> HIDE DEF g
<1>3. Injective(g)
  BY <1>1, <1>2 DEF Injective
<1> QED
  BY <1>1, <1>3 DEF g

\* It loses none of the slots either.
LEMMA SwapLosesNone ==
    ASSUME NEW f \in [Slots -> Slots], NEW x \in Slots, NEW y \in Slots,
           NEW s \in Slots, \E t \in Slots : f[t] = s
    PROVE  \E u \in Slots : Swap(f, x, y)[u] = s
  BY DEF Swap

LEMMA Names ==
    /\ "replace" # "basetime" /\ "replace" # "invalid" /\ "basetime" # "invalid"
    /\ "dump" # "get" /\ "dump" # "traffic" /\ "get" # "traffic"
    /\ "delete" # "traffic_sync"
    /\ Replacers \cap Readers = {}
    /\ "delete" \notin Replacers \cup Readers
    /\ "traffic_sync" \notin Replacers \cup Readers
    /\ Workers = Replacers \cup Readers \cup {"delete", "traffic_sync"}
    /\ Slots = 0..3 /\ NoSlot \notin Slots
  BY DEF Replacers, Readers, Workers, Slots, NoSlot

LEMMA InitInv == Init => Inv
<1> SUFFICES ASSUME Init PROVE Inv
  OBVIOUS
<1>1. /\ rep \in [0..2 -> Replacers] /\ Injective(rep)
  <2>1. rep = [k \in 0..2 |-> FirstReplacers[k + 1]]
    BY DEF Init
  <2>2. rep[0] = "replace" /\ rep[1] = "basetime" /\ rep[2] = "invalid" /\ DOMAIN rep = 0..2
    BY <2>1 DEF FirstReplacers
  <2>3. \A k \in 0..2 : rep[k] \in Replacers
    BY <2>2 DEF Replacers
  <2>4. rep \in [0..2 -> Replacers]
    BY <2>1, <2>3
  <2> QED
    BY <2>2, <2>4 DEF Injective
<1>2. /\ rd \in [0..2 -> Readers] /\ Injective(rd)
  <2>1. rd = [k \in 0..2 |-> FirstReaders[k + 1]]
    BY DEF Init
  <2>2. rd[0] = "dump" /\ rd[1] = "get" /\ rd[2] = "traffic" /\ DOMAIN rd = 0..2
    BY <2>1 DEF FirstReaders
  <2>3. \A k \in 0..2 : rd[k] \in Readers
    BY <2>2 DEF Readers
  <2>4. rd \in [0..2 -> Readers]
    BY <2>1, <2>3
  <2> QED
    BY <2>2, <2>4 DEF Injective
<1>3. /\ order \in [Slots -> Slots] /\ Injective(order)
      /\ \A s \in Slots : order[s] = s
  BY DEF Init, Injective
<1>4. /\ cand \in [Slots -> (Workers \cup {"none"}) \X (Workers \cup {"none"})]
      /\ slot \in [Workers -> Slots \cup {NoSlot}]
      /\ isA \in [Workers -> BOOLEAN]
      /\ \A w \in Workers : slot[w] = NoSlot
  BY DEF Init
<1>5. todo = "replacers" /\ i = 2
  BY DEF Init
<1>6. TypeOK
  BY <1>1, <1>2, <1>3, <1>4, <1>5 DEF TypeOK, Slots
<1>7. OnePlaceEach
  BY <1>1, <1>2, <1>3, <1>4, <1>5 DEF OnePlaceEach, Filled
<1> QED
  BY <1>6, <1>7 DEF Inv

-----------------------------------------------------------------------------
(* The shuffles and the candidates *)

\* As long as no slot is filled, every worker is without one.
LEMMA NobodyPlaced ==
    ASSUME OnePlaceEach, Filled = {}, Filled' = {}, UNCHANGED slot
    PROVE  /\ \A s \in Filled' :
                LET p == Pair(s)' IN
                slot'[p[1]] = s /\ slot'[p[2]] = s /\ isA'[p[1]] = ~isA'[p[2]]
           /\ \A w \in Workers :
                slot'[w] # NoSlot =>
                  slot'[w] \in Filled' /\ w \in {Pair(slot[w])'[1], Pair(slot[w])'[2]}
  BY DEF OnePlaceEach

LEMMA ReplacersInv ==
    ASSUME Inv, ShuffleReplacers
    PROVE  Inv'
<1>1. PICK j \in 0..i : rep' = Swap(rep, i, j)
  BY DEF ShuffleReplacers
<1>2. todo = "replacers" /\ i \in 1..2 /\ UNCHANGED <<rd, cand, order, slot, isA>>
  BY DEF ShuffleReplacers, Inv, OnePlaceEach
<1>3. \/ todo' = "replacers" /\ i' \in 1..2
      \/ todo' = "readers" /\ i' = 2
  BY <1>2 DEF ShuffleReplacers, CountDown
<1>4. rep' \in [0..2 -> Replacers] /\ Injective(rep')
  <2>1. rep \in [0..2 -> Replacers] /\ Injective(rep) /\ i \in 0..2 /\ j \in 0..2
    BY <1>2 DEF Inv, TypeOK, OnePlaceEach
  <2> QED
    BY <1>1, <2>1, SwapInjective
<1>5. TypeOK'
  BY <1>2, <1>3, <1>4 DEF Inv, TypeOK, Slots
<1>6. Filled = {} /\ Filled' = {}
  BY <1>2, <1>3 DEF Filled
<1>7. OnePlaceEach'
  BY <1>2, <1>3, <1>4, <1>6, NobodyPlaced DEF Inv, OnePlaceEach
<1> QED
  BY <1>5, <1>7 DEF Inv

LEMMA ReadersInv ==
    ASSUME Inv, ShuffleReaders
    PROVE  Inv'
<1>1. PICK j \in 0..i : rd' = Swap(rd, i, j)
  BY DEF ShuffleReaders
<1>2. todo = "readers" /\ i \in 1..2 /\ UNCHANGED <<rep, cand, order, slot, isA>>
  BY DEF ShuffleReaders, Inv, OnePlaceEach
<1>3. \/ todo' = "readers" /\ i' \in 1..2
      \/ todo' = "candidates" /\ i' = 0
  BY <1>2 DEF ShuffleReaders, CountDown
<1>4. rd' \in [0..2 -> Readers] /\ Injective(rd')
  <2>1. rd \in [0..2 -> Readers] /\ Injective(rd) /\ i \in 0..2 /\ j \in 0..2
    BY <1>2 DEF Inv, TypeOK, OnePlaceEach
  <2> QED
    BY <1>1, <2>1, SwapInjective
<1>5. TypeOK'
  BY <1>2, <1>3, <1>4 DEF Inv, TypeOK, Slots
<1>6. Filled = {} /\ Filled' = {}
  BY <1>2, <1>3 DEF Filled
<1>7. OnePlaceEach'
  BY <1>2, <1>3, <1>4, <1>6, NobodyPlaced DEF Inv, OnePlaceEach
<1> QED
  BY <1>5, <1>7 DEF Inv

\* The three replacement workers, the three readers, and the two others are
\* each in one place of the candidates.
LEMMA CandidatesKeepApart ==
    ASSUME Inv, Candidates
    PROVE  /\ cand' \in [Slots -> (Workers \cup {"none"}) \X (Workers \cup {"none"})]
           /\ CandidatesApart'
<1>1. PICK k \in {1, 2} :
        cand' = [s \in Slots |->
                   CASE s = 0 -> <<rep[0], rep[1]>>
                     [] s = 1 -> <<"delete", rd[0]>>
                     [] s = 2 -> <<rep[2], rd[k]>>
                     [] s = 3 -> <<rd[3 - k], "traffic_sync">>]
  BY DEF Candidates
<1>2. /\ cand'[0] = <<rep[0], rep[1]>>
      /\ cand'[1] = <<"delete", rd[0]>>
      /\ cand'[2] = <<rep[2], rd[k]>>
      /\ cand'[3] = <<rd[3 - k], "traffic_sync">>
      /\ DOMAIN cand' = Slots
  BY <1>1 DEF Slots
<1>3. /\ rep[0] \in Replacers /\ rep[1] \in Replacers /\ rep[2] \in Replacers
      /\ rep[0] # rep[1] /\ rep[0] # rep[2] /\ rep[1] # rep[2]
  <2>1. rep \in [0..2 -> Replacers] /\ Injective(rep)
    BY DEF Inv, TypeOK, OnePlaceEach
  <2> QED
    BY <2>1 DEF Injective
<1>4. /\ rd[0] \in Readers /\ rd[k] \in Readers /\ rd[3 - k] \in Readers
      /\ rd[0] # rd[k] /\ rd[0] # rd[3 - k] /\ rd[k] # rd[3 - k]
  <2>1. rd \in [0..2 -> Readers] /\ Injective(rd)
    BY DEF Inv, TypeOK, OnePlaceEach
  <2>2. k \in 0..2 /\ 3 - k \in 0..2 /\ k # 0 /\ 3 - k # 0 /\ k # 3 - k
    OBVIOUS
  <2> QED
    BY <2>1, <2>2 DEF Injective
<1>5. /\ cand'[0][1] = rep[0]   /\ cand'[0][2] = rep[1]
      /\ cand'[1][1] = "delete" /\ cand'[1][2] = rd[0]
      /\ cand'[2][1] = rep[2]   /\ cand'[2][2] = rd[k]
      /\ cand'[3][1] = rd[3 - k] /\ cand'[3][2] = "traffic_sync"
  BY <1>2
<1>6. cand' \in [Slots -> (Workers \cup {"none"}) \X (Workers \cup {"none"})]
  <2>1. \A s \in Slots : cand'[s] \in (Workers \cup {"none"}) \X (Workers \cup {"none"})
    BY <1>2, <1>3, <1>4, Names
  <2> QED
    BY <1>1, <2>1
<1>7. \A s, t \in Slots : \A x, y \in {1, 2} : cand'[s][x] = cand'[t][y] => s = t /\ x = y
  <2>1. ASSUME NEW s \in Slots, NEW t \in Slots, NEW x \in {1, 2}, NEW y \in {1, 2},
               cand'[s][x] = cand'[t][y]
        PROVE  s = t /\ x = y
    <3>1. CASE s = 0
      BY <2>1, <3>1, <1>3, <1>4, <1>5, Names
    <3>2. CASE s = 1
      BY <2>1, <3>2, <1>3, <1>4, <1>5, Names
    <3>3. CASE s = 2
      BY <2>1, <3>3, <1>3, <1>4, <1>5, Names
    <3>4. CASE s = 3
      BY <2>1, <3>4, <1>3, <1>4, <1>5, Names
    <3> QED
      BY <3>1, <3>2, <3>3, <3>4 DEF Slots
  <2> QED
    BY <2>1
<1> QED
  BY <1>3, <1>4, <1>5, <1>6, <1>7 DEF CandidatesApart

LEMMA CandidatesInv ==
    ASSUME Inv, Candidates
    PROVE  Inv'
<1>1. /\ todo = "candidates" /\ todo' = "order" /\ i' = 3
      /\ UNCHANGED <<rep, rd, order, slot, isA>>
  BY DEF Candidates
<1>2. TypeOK'
  BY <1>1, CandidatesKeepApart DEF Inv, TypeOK, Slots
<1>3. Filled = {} /\ Filled' = {}
  BY <1>1 DEF Filled
<1>4. OnePlaceEach'
  BY <1>1, <1>3, CandidatesKeepApart, NobodyPlaced DEF Inv, OnePlaceEach
<1> QED
  BY <1>2, <1>4 DEF Inv

LEMMA OrderInv ==
    ASSUME Inv, ShuffleOrder
    PROVE  Inv'
<1>1. PICK j \in 0..i : order' = Swap(order, i, j)
  BY DEF ShuffleOrder
<1>2. todo = "order" /\ i \in 1..3 /\ UNCHANGED <<rep, rd, cand, slot, isA>>
  BY DEF ShuffleOrder, Inv, OnePlaceEach
<1>3. \/ todo' = "order" /\ i' \in 1..3
      \/ todo' = "assign" /\ i' = 0
  BY <1>2 DEF ShuffleOrder, CountDown
<1>4. /\ order' \in [Slots -> Slots] /\ Injective(order')
      /\ \A s \in Slots : \E t \in Slots : order'[t] = s
  <2>1. order \in [Slots -> Slots] /\ Injective(order) /\ i \in Slots /\ j \in Slots
    BY <1>2 DEF Inv, TypeOK, OnePlaceEach, Slots
  <2>2. order' \in [Slots -> Slots] /\ Injective(order')
    BY <1>1, <2>1, SwapInjective
  <2>3. \A s \in Slots : \E t \in Slots : order[t] = s
    BY DEF Inv, OnePlaceEach
  <2>4. \A s \in Slots : \E t \in Slots : order'[t] = s
    <3> SUFFICES ASSUME NEW s \in Slots
                 PROVE  \E t \in Slots : order'[t] = s
      OBVIOUS
    <3>1. \E t \in Slots : order[t] = s
      BY <2>3
    <3>2. i \in Slots /\ j \in Slots /\ order \in [Slots -> Slots]
      BY <2>1
    <3>3. \E u \in Slots : Swap(order, i, j)[u] = s
      BY <3>1, <3>2, SwapLosesNone
    <3> QED
      BY <1>1, <3>3
  <2> QED
    BY <2>2, <2>4
<1>5. TypeOK'
  BY <1>2, <1>3, <1>4 DEF Inv, TypeOK, Slots
<1>6. Filled = {} /\ Filled' = {}
  BY <1>2, <1>3 DEF Filled
<1>7. CandidatesApart'
  BY <1>2 DEF CandidatesApart, Inv, OnePlaceEach
<1>8. OnePlaceEach'
  BY <1>2, <1>3, <1>4, <1>6, <1>7, NobodyPlaced DEF Inv, OnePlaceEach
<1> QED
  BY <1>5, <1>8 DEF Inv

-----------------------------------------------------------------------------
(* The slots are filled *)

\* Two slots never share a worker, and a slot has two of them.
LEMMA PairsApart ==
    ASSUME Inv, todo \in {"assign", "run"}
    PROVE  /\ \A s \in Slots : /\ Pair(s)[1] \in Workers /\ Pair(s)[2] \in Workers
                               /\ Pair(s)[1] # Pair(s)[2]
           /\ \A s, t \in Slots : \A x, y \in {1, 2} :
                Pair(s)[x] = Pair(t)[y] => s = t /\ x = y
<1>1. order \in [Slots -> Slots] /\ Injective(order) /\ CandidatesApart
  BY DEF Inv, TypeOK, OnePlaceEach
<1>2. \A c \in Slots : cand[c][1] \in Workers /\ cand[c][2] \in Workers
  <2>1. \A c \in Slots : c = 0 \/ c = 1 \/ c = 2 \/ c = 3
    BY DEF Slots
  <2> QED
    BY <1>1, <2>1, Names DEF CandidatesApart
<1>3. \A s, t \in Slots : \A x, y \in {1, 2} :
        Pair(s)[x] = Pair(t)[y] => s = t /\ x = y
  BY <1>1 DEF CandidatesApart, Injective, Pair
<1>4. \A s \in Slots : Pair(s)[1] \in Workers /\ Pair(s)[2] \in Workers
  BY <1>1, <1>2 DEF Pair
<1>5. \A s \in Slots : Pair(s)[1] # Pair(s)[2]
  BY <1>3
<1> QED
  BY <1>3, <1>4, <1>5

LEMMA AssignInv ==
    ASSUME Inv, Assign
    PROVE  Inv'
<1>1. /\ todo = "assign" /\ i \in Slots /\ i \in 0..3
      /\ UNCHANGED <<rep, rd, cand, order>>
      /\ slot \in [Workers -> Slots \cup {NoSlot}] /\ isA \in [Workers -> BOOLEAN]
  BY DEF Assign, Inv, TypeOK, Slots
<1>2. PICK firstIsA \in BOOLEAN :
        LET p == Pair(i) IN
        /\ slot' = [slot EXCEPT ![p[1]] = i, ![p[2]] = i]
        /\ isA' = [isA EXCEPT ![p[1]] = firstIsA, ![p[2]] = ~firstIsA]
  BY DEF Assign, Pair
<1>3. PICK v \in Workers, w \in Workers :
        v = Pair(i)[1] /\ w = Pair(i)[2] /\ v # w
  BY <1>1, PairsApart
<1>4. /\ slot' \in [Workers -> Slots \cup {NoSlot}] /\ isA' \in [Workers -> BOOLEAN]
      /\ slot'[v] = i /\ slot'[w] = i
      /\ isA'[v] = firstIsA /\ isA'[w] = ~firstIsA
      /\ \A u \in Workers : u # v /\ u # w => slot'[u] = slot[u] /\ isA'[u] = isA[u]
  BY <1>1, <1>2, <1>3
<1>5. Filled = 0..(i - 1)
  BY <1>1 DEF Filled
<1>6. /\ \/ todo' = "assign" /\ i' = i + 1 /\ i < 3
         \/ todo' = "run" /\ i' = 0 /\ i = 3
      /\ Filled' = 0..i
  <2>1. \/ todo' = "assign" /\ i' = i + 1 /\ i < 3
        \/ todo' = "run" /\ i' = 0 /\ i = 3
    BY <1>1 DEF Assign
  <2>2. CASE todo' = "assign" /\ i' = i + 1 /\ i < 3
    BY <1>1, <2>2 DEF Filled
  <2>3. CASE todo' = "run" /\ i' = 0 /\ i = 3
    BY <2>3 DEF Filled, Slots
  <2> QED
    BY <2>1, <2>2, <2>3
<1>7. TypeOK'
  BY <1>1, <1>4, <1>6 DEF Inv, TypeOK, Slots
<1>8. \A s \in Slots : Pair(s)' = Pair(s)
  BY <1>1 DEF Pair
<1>9. ASSUME NEW s \in 0..i
      PROVE  /\ slot'[Pair(s)[1]] = s /\ slot'[Pair(s)[2]] = s
             /\ isA'[Pair(s)[1]] = ~isA'[Pair(s)[2]]
  <2>1. CASE s = i
    BY <1>3, <1>4, <2>1
  <2>2. CASE s # i
    <3>1. s \in Filled /\ s \in Slots
      BY <1>1, <1>5, <2>2 DEF Slots
    <3>2. /\ slot[Pair(s)[1]] = s /\ slot[Pair(s)[2]] = s
          /\ isA[Pair(s)[1]] = ~isA[Pair(s)[2]]
      BY <3>1 DEF Inv, OnePlaceEach
    <3>3. \A x \in {1, 2} : /\ Pair(s)[x] \in Workers
                            /\ Pair(s)[x] # v /\ Pair(s)[x] # w
      BY <1>1, <1>3, <2>2, <3>1, PairsApart
    <3> QED
      BY <1>4, <3>2, <3>3
  <2> QED
    BY <2>1, <2>2
<1>10. ASSUME NEW u \in Workers, slot'[u] # NoSlot
       PROVE  slot'[u] \in 0..i /\ u \in {Pair(slot'[u])[1], Pair(slot'[u])[2]}
  <2>1. CASE u = v \/ u = w
    BY <1>1, <1>3, <1>4, <2>1
  <2>2. CASE u # v /\ u # w
    <3>1. slot'[u] = slot[u]
      BY <1>4, <2>2
    <3>2. slot[u] \in Filled /\ u \in {Pair(slot[u])[1], Pair(slot[u])[2]}
      BY <1>10, <3>1 DEF Inv, OnePlaceEach
    <3> QED
      BY <1>1, <1>5, <3>1, <3>2
  <2> QED
    BY <2>1, <2>2
<1>11. 0..i \subseteq Slots
  BY <1>1 DEF Slots
<1>12. OnePlaceEach'
  <2>1. /\ (Injective(rep) /\ Injective(rd) /\ Injective(order))'
        /\ (\A s \in Slots : \E t \in Slots : order[t] = s)'
        /\ CandidatesApart'
    BY <1>1 DEF Inv, OnePlaceEach, CandidatesApart
  <2>2. \A s \in Filled' : LET p == Pair(s)' IN
          slot'[p[1]] = s /\ slot'[p[2]] = s /\ isA'[p[1]] = ~isA'[p[2]]
    BY <1>6, <1>8, <1>9, <1>11
  <2>3. \A u \in Workers : slot'[u] # NoSlot =>
          slot'[u] \in Filled' /\ u \in {Pair(slot[u])'[1], Pair(slot[u])'[2]}
    BY <1>1, <1>6, <1>10 DEF Pair
  <2> QED
    BY <1>6, <2>1, <2>2, <2>3 DEF OnePlaceEach
<1> QED
  BY <1>7, <1>12 DEF Inv

LEMMA NextInv == Inv /\ [Next]_vars => Inv'
<1> SUFFICES ASSUME Inv, [Next]_vars PROVE Inv'
  OBVIOUS
<1>1. CASE UNCHANGED vars
  <2>1. TypeOK'
    BY <1>1 DEF vars, Inv, TypeOK
  <2>2. OnePlaceEach'
    BY <1>1 DEF vars, Inv, OnePlaceEach, CandidatesApart, Filled, Pair
  <2> QED
    BY <2>1, <2>2 DEF Inv
<1> QED
  BY <1>1, ReplacersInv, ReadersInv, CandidatesInv, OrderInv, AssignInv DEF Next, Running

-----------------------------------------------------------------------------
(* Theorems *)

\* The workers of a slot are the two members of its candidate.
LEMMA MembersArePair ==
    ASSUME Inv, todo = "run", NEW s \in Slots
    PROVE  /\ Members(s) = {Pair(s)[1], Pair(s)[2]}
           /\ Pair(s)[1] # Pair(s)[2]
           /\ isA[Pair(s)[1]] = ~isA[Pair(s)[2]]
<1>1. /\ Pair(s)[1] \in Workers /\ Pair(s)[2] \in Workers
      /\ Pair(s)[1] # Pair(s)[2]
  BY PairsApart
<1>2. Filled = Slots
  BY DEF Filled
<1>3. /\ slot[Pair(s)[1]] = s /\ slot[Pair(s)[2]] = s
      /\ isA[Pair(s)[1]] = ~isA[Pair(s)[2]]
  BY <1>2 DEF Inv, OnePlaceEach
<1>4. ASSUME NEW w \in Workers, slot[w] = s
      PROVE  w \in {Pair(s)[1], Pair(s)[2]}
  BY <1>4, Names DEF Inv, OnePlaceEach
<1> QED
  BY <1>1, <1>3, <1>4 DEF Members

\* The indices of the shuffles and of the loop over the slots stay inside the
\* arrays; the shuffles of gb_race_run_with_summary are permutations, and its loop
\* gives each filled slot the two members of its candidate, on opposite sides.
THEOREM InvHolds == Spec => []Inv
  BY InitInv, NextInv, PTL DEF Spec

\* Whatever rng_range returns, every sync pair of the phase gets exactly two
\* workers, one for each of its two counters.
THEOREM SlotsArePairs == Spec => []EverySlotIsAPair
<1>1. Inv => EverySlotIsAPair
  <2> SUFFICES ASSUME Inv, todo = "run", NEW s \in Slots
               PROVE  /\ Cardinality(Members(s)) = 2
                      /\ Cardinality({w \in Members(s) : isA[w]}) = 1
    BY DEF EverySlotIsAPair
  <2>1. PICK v, w : /\ Members(s) = {v, w} /\ v # w /\ isA[v] = ~isA[w]
    BY MembersArePair
  <2>2. Cardinality({v, w}) = 2
    <3>1. IsFiniteSet({v}) /\ Cardinality({v}) = 1
      BY FS_Singleton
    <3>2. Cardinality({v} \cup {w}) = IF w \in {v} THEN Cardinality({v}) ELSE Cardinality({v}) + 1
      BY <3>1, FS_AddElement
    <3>3. {v, w} = {v} \cup {w}
      OBVIOUS
    <3> QED
      BY <2>1, <3>1, <3>2, <3>3
  <2>3. \E u : {x \in Members(s) : isA[x]} = {u}
    <3>0. isA[w] \in BOOLEAN
      <4>1. w \in Workers /\ isA \in [Workers -> BOOLEAN]
        BY <2>1 DEF Members, Inv, TypeOK
      <4> QED
        BY <4>1
    <3>1. CASE isA[v]
      <4>1. {x \in Members(s) : isA[x]} = {v}
        BY Zenon, <2>1, <3>0, <3>1
      <4> QED
        BY <4>1
    <3>2. CASE ~isA[v]
      <4>1. {x \in Members(s) : isA[x]} = {w}
        BY Zenon, <2>1, <3>0, <3>2
      <4> QED
        BY <4>1
    <3> QED
      BY <3>1, <3>2
  <2> QED
    BY <2>1, <2>2, <2>3, FS_Singleton
<1> QED
  BY <1>1, InitInv, NextInv, PTL DEF Spec

\* Whatever rng_range returns, a phase has two replacement workers that meet, a
\* replacement worker that meets a reader, and the delete worker meets a reader.
THEOREM PolicyHolds == Spec => []ContentionCovered
<1>1. Inv => ContentionCovered
  <2> SUFFICES ASSUME Inv, todo = "run" PROVE ContentionCovered
    BY DEF ContentionCovered
  <2>1. CandidatesApart /\ \A c \in Slots : \E s \in Slots : order[s] = c
    BY DEF Inv, OnePlaceEach
  <2>2. ASSUME NEW c \in Slots
        PROVE  /\ cand[c][1] \in Workers /\ cand[c][2] \in Workers
               /\ cand[c][1] # cand[c][2] /\ slot[cand[c][1]] = slot[cand[c][2]]
    <3>1. PICK s \in Slots : order[s] = c
      BY <2>1
    <3>2. Members(s) = {cand[c][1], cand[c][2]} /\ cand[c][1] # cand[c][2]
      BY <3>1, MembersArePair DEF Pair
    <3> QED
      BY <3>2 DEF Members
  <2>3. 0 \in Slots /\ 1 \in Slots /\ 2 \in Slots
    BY DEF Slots
  <2>4. Meet(Replacers, Replacers)
    BY <2>1, <2>2, <2>3 DEF Meet, CandidatesApart
  <2>5. Meet({"delete"}, Readers)
    BY <2>1, <2>2, <2>3 DEF Meet, CandidatesApart
  <2>6. Meet(Replacers, Readers)
    BY <2>1, <2>2, <2>3 DEF Meet, CandidatesApart
  <2> QED
    BY <2>4, <2>5, <2>6 DEF ContentionCovered
<1> QED
  BY <1>1, InitInv, NextInv, PTL DEF Spec
=============================================================================
