----------------------------- MODULE RacePairing -----------------------------
(***************************************************************************)
(* How one phase of race mode distributes its eight workers over the four  *)
(* sync pairs (src/race.c, gb_race_run_with_summary): two Fisher-Yates     *)
(* shuffles choose which replacement and which reader workers meet, a      *)
(* third one the slots of the pairs, and a coin the sides.  Every call of  *)
(* rng_range(seed, n) may return any number below n.                       *)
(***************************************************************************)
EXTENDS Integers, FiniteSets

Replacers == {"replace", "basetime", "invalid"}
Readers == {"dump", "get", "traffic"}
Workers == Replacers \cup Readers \cup {"delete", "traffic_sync"}

Slots == 0..3
NoSlot == 4    \* sync_pair = NULL, before the first phase

VARIABLES
    todo,    \* the loop the code is in
    i,       \* its index
    rep,     \* replacement_workers
    rd,      \* reader_workers, in the order they are drawn from it after the shuffle
    cand,    \* candidate_pairs
    order,   \* pair_order
    slot,    \* *worker_pair_refs: the slot of each worker
    isA      \* *worker_side_refs: whether it is side A of its pair

vars == <<todo, i, rep, rd, cand, order, slot, isA>>

\* The order in which enum race_worker_id lists them.
FirstReplacers == <<"replace", "basetime", "invalid">>
FirstReaders == <<"dump", "get", "traffic">>

Init ==
    /\ todo = "replacers"
    /\ i = 2
    /\ rep = [k \in 0..2 |-> FirstReplacers[k + 1]]
    /\ rd = [k \in 0..2 |-> FirstReaders[k + 1]]
    /\ cand = [s \in Slots |-> <<"none", "none">>]
    /\ order = [s \in Slots |-> s]
    /\ slot = [w \in Workers |-> NoSlot]
    /\ isA = [w \in Workers |-> TRUE]

Swap(a, x, y) == [a EXCEPT ![x] = a[y], ![y] = a[x]]

CountDownPastZero(next, from) ==
    IF i >= 0 THEN i' = i - 1 /\ todo' = todo
              ELSE i' = from /\ todo' = next

\* One turn of a loop "for (i = n; i > 0; i--)", and then the next loop.
CountDown(next, from) ==
    IF i > 1 THEN i' = i - 1 /\ todo' = todo
             ELSE i' = from /\ todo' = next

ShuffleReplacers ==
    /\ todo = "replacers"
    /\ \E j \in 0..i : rep' = Swap(rep, i, j)
    /\ CountDown("readers", 2)
    /\ UNCHANGED <<rd, cand, order, slot, isA>>

ShuffleReaders ==
    /\ todo = "readers"
    /\ \E j \in 0..i : rd' = Swap(rd, i, j)
    /\ CountDown("candidates", 0)
    /\ UNCHANGED <<rep, cand, order, slot, isA>>

CandidatesReusingReader ==
    /\ todo = "candidates"
    /\ \E k \in {1, 2} :
         cand' = [s \in Slots |->
                    CASE s = 0 -> <<rep[0], rep[1]>>
                      [] s = 1 -> <<"delete", rd[0]>>
                      [] s = 2 -> <<rep[2], rd[k]>>
                      [] s = 3 -> <<rd[k], "traffic_sync">>]
    /\ todo' = "order" /\ i' = 3
    /\ UNCHANGED <<rep, rd, order, slot, isA>>

CandidatesWithoutDelete ==
    /\ todo = "candidates"
    /\ \E k \in {1, 2} :
         cand' = [s \in Slots |->
                    CASE s = 0 -> <<rep[0], rep[1]>>
                      [] s = 1 -> <<"delete", "traffic_sync">>
                      [] s = 2 -> <<rep[2], rd[k]>>
                      [] s = 3 -> <<rd[3 - k], rd[0]>>]
    /\ todo' = "order" /\ i' = 3
    /\ UNCHANGED <<rep, rd, order, slot, isA>>

\* The pairs that always occur, and the coin for the two readers left.
Candidates ==
    /\ todo = "candidates"
    /\ \E k \in {1, 2} :
         cand' = [s \in Slots |->
                    CASE s = 0 -> <<rep[0], rep[1]>>
                      [] s = 1 -> <<"delete", rd[0]>>
                      [] s = 2 -> <<rep[2], rd[k]>>
                      [] s = 3 -> <<rd[3 - k], "traffic_sync">>]
    /\ todo' = "order" /\ i' = 3
    /\ UNCHANGED <<rep, rd, order, slot, isA>>

ShuffleOrder ==
    /\ todo = "order"
    /\ \E j \in 0..i : order' = Swap(order, i, j)
    /\ CountDown("assign", 0)
    /\ UNCHANGED <<rep, rd, cand, slot, isA>>

AssignSameSide ==
    /\ todo = "assign"
    /\ \E firstIsA \in BOOLEAN :
         LET p == cand[order[i]] IN
         /\ slot' = [slot EXCEPT ![p[1]] = i, ![p[2]] = i]
         /\ isA' = [isA EXCEPT ![p[1]] = firstIsA, ![p[2]] = firstIsA]
    /\ IF i < 3 THEN i' = i + 1 /\ todo' = todo ELSE i' = 0 /\ todo' = "run"
    /\ UNCHANGED <<rep, rd, cand, order>>

\* One turn of the loop over the slots.
Assign ==
    /\ todo = "assign"
    /\ \E firstIsA \in BOOLEAN :
         LET p == cand[order[i]] IN
         /\ slot' = [slot EXCEPT ![p[1]] = i, ![p[2]] = i]
         /\ isA' = [isA EXCEPT ![p[1]] = firstIsA, ![p[2]] = ~firstIsA]
    /\ IF i < 3 THEN i' = i + 1 /\ todo' = todo ELSE i' = 0 /\ todo' = "run"
    /\ UNCHANGED <<rep, rd, cand, order>>

Running == todo = "run" /\ UNCHANGED vars

Next == ShuffleReplacers \/ ShuffleReaders \/ Candidates \/ ShuffleOrder \/ Assign \/ Running

Spec == Init /\ [][Next]_vars

-----------------------------------------------------------------------------
\* The indices stay inside their arrays, whose members are worker numbers.
TypeOK ==
    /\ todo \in {"replacers", "readers", "candidates", "order", "assign", "run"}
    /\ i \in Slots
    /\ rep \in [0..2 -> Replacers]
    /\ rd \in [0..2 -> Readers]
    /\ cand \in [Slots -> (Workers \cup {"none"}) \X (Workers \cup {"none"})]
    /\ order \in [Slots -> Slots]
    /\ slot \in [Workers -> Slots \cup {NoSlot}]
    /\ isA \in [Workers -> BOOLEAN]

Members(s) == {w \in Workers : slot[w] = s}

\* When the workers are created every slot holds exactly two of them, one on
\* each side: two threads on the same side would increment the same counter.
EverySlotIsAPair ==
    todo = "run" =>
        \A s \in Slots : /\ Cardinality(Members(s)) = 2
                         /\ Cardinality({w \in Members(s) : isA[w]}) = 1

Meet(S, T) == \E v \in S, w \in T : v # w /\ slot[v] = slot[w]

\* README: the per-phase pairing policy always includes replacement against
\* reader, delete against reader, and replacement against replacement.
ContentionCovered ==
    todo = "run" => /\ Meet(Replacers, Readers)
                    /\ Meet({"delete"}, Readers)
                    /\ Meet(Replacers, Replacers)

Injective(f) == \A x, y \in DOMAIN f : f[x] = f[y] => x = y

\* The four candidates keep the eight workers apart, with the members the
\* pairing policy promises.
CandidatesApart ==
    /\ \A s, t \in Slots : \A x, y \in {1, 2} : cand[s][x] = cand[t][y] => s = t /\ x = y
    /\ cand[0][1] \in Replacers /\ cand[0][2] \in Replacers
    /\ cand[1][1] = "delete"    /\ cand[1][2] \in Readers
    /\ cand[2][1] \in Replacers /\ cand[2][2] \in Readers
    /\ cand[3][1] \in Readers   /\ cand[3][2] = "traffic_sync"

\* The slots the loop has filled.
Filled ==
    IF todo = "assign" THEN 0..(i - 1) ELSE IF todo = "run" THEN Slots ELSE {}

Pair(s) == cand[order[s]]

\* The shuffles only reorder, and each filled slot holds the two members of its
\* candidate, on opposite sides, and nobody else.
OnePlaceEach ==
    /\ Injective(rep) /\ Injective(rd) /\ Injective(order)
    /\ \A s \in Slots : \E t \in Slots : order[t] = s
    /\ todo \in {"replacers", "readers"} => i \in 1..2
    /\ todo = "order" => i \in 1..3
    /\ todo \in {"order", "assign", "run"} => CandidatesApart
    /\ \A s \in Filled : LET p == Pair(s) IN
         slot[p[1]] = s /\ slot[p[2]] = s /\ isA[p[1]] = ~isA[p[2]]
    /\ \A w \in Workers :
         slot[w] # NoSlot => slot[w] \in Filled /\ w \in {Pair(slot[w])[1], Pair(slot[w])[2]}

\* The indices stay inside their arrays, and the shuffles and the loop over the
\* slots never lose a worker or use one twice.
Inv == TypeOK /\ OnePlaceEach
=============================================================================
