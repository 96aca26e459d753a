--------------------------- MODULE FuzzySyncProofs ---------------------------
(***************************************************************************)
(* Proofs about the fuzzy sync pair, for every value of MaxC from 2 on,    *)
(* INT_MAX among them.  Everything rests on one invariant, Inv of module   *)
(* FuzzySync; this module shows that the initial states satisfy it, that   *)
(* every step of a worker or of the main thread keeps it, and that the     *)
(* safety properties and the refinement of Rendezvous follow from it.      *)
(***************************************************************************)
EXTENDS FuzzySync, TLAPS

USE MaxCAssumption, MaxSpinsAssumption

\* Each thread has exactly one other, and is the other's other.
LEMMA OtherThread ==
    /\ "A" # "B"
    /\ \A t \in Threads : Other(t) \in Threads /\ Other(t) # t /\ Other(Other(t)) = t
    /\ \A t \in Threads : \A u \in Threads : u = t \/ u = Other(t)
  BY DEF Threads, Other

\* The lead of a thread is the deficit of the other one.
LEMMA AheadOfOther ==
    ASSUME lead \in Int
    PROVE  \A t \in Threads : Ahead(t) \in Int /\ Ahead(Other(t)) = 0 - Ahead(t)
  BY DEF Threads, Other, Ahead

\* The pair as race_sync_pair_init leaves it satisfies the invariant.
LEMMA InitInv == Init => Inv
<1> SUFFICES ASSUME Init PROVE Inv
  OBVIOUS
<1>1. TypeOK
  <2>1. 0 \in 0..MaxC /\ 0 \in 0..MaxSpins
    OBVIOUS
  <2>2. exit \in BOOLEAN /\ stop \in BOOLEAN
    BY Zenon DEF Init
  <2>3. /\ pc \in [Threads -> Outside \cup Waiting \cup {"Race"}]
        /\ site \in [Threads -> {"start", "end"}]
        /\ adding \in [Threads -> {"no", "load", "store"}]
    BY DEF Init, Outside
  <2>4. /\ cntr \in [Threads -> 0..MaxC]
        /\ loaded \in [Threads -> 0..MaxSpins]
        /\ lead \in Int
        /\ spins \in 0..MaxSpins
    BY <2>1 DEF Init
  <2> QED
    BY <2>2, <2>3, <2>4 DEF Init, TypeOK
<1>2. PlaceInv
  BY OtherThread DEF Init, PlaceInv, PlaceOK, Outside, Wrapping
<1>3. LockstepInv
  <2>1. lead \in {0 - 1, 0, 1}
    BY DEF Init
  <2>2. ASSUME NEW t \in Threads
        PROVE  Ahead(t) = 0 /\ pc[t] = "Absent" /\ cntr[t] = 0 /\ site[t] = "end"
    BY <2>2 DEF Init, Ahead
  <2>3. ASSUME NEW t \in Threads
        PROVE  Count(t) = 0 /\ pc[t] \notin Wrapping
    BY <2>2, OtherThread DEF Count, Wrapping
  <2> QED
    BY <2>1, <2>2, <2>3, OtherThread DEF LockstepInv, Lockstep, EvenOK
<1> QED
  BY <1>1, <1>2, <1>3 DEF Inv

-----------------------------------------------------------------------------
(* Every step keeps the types. *)

LEMMA WorkerKeepsTypes ==
    ASSUME Inv, NEW t \in Threads, Worker(t)
    PROVE  TypeOK'
<1> USE DEF Inv, TypeOK, Goto, Outside, Waiting
<1>1. CASE SetUp(t)
  BY <1>1 DEF SetUp
<1>2. CASE TestStop(t)
  BY <1>2 DEF TestStop
<1>3. CASE TestExit(t)
  BY <1>3 DEF TestExit
<1>4. CASE PairUpdate(t)
  BY <1>4 DEF PairUpdate
<1>5. CASE SignalExit(t)
  BY <1>5 DEF SignalExit
<1>6. CASE Arrive(t)
  <2>1. cntr[Other(t)] \in 0..MaxC /\ cntr[Other(t)] # MaxC
    BY <1>6, OtherThread DEF Arrive, PlaceInv, PlaceOK, Wrapping
  <2>2. cntr[Other(t)] + 1 \in 0..MaxC
    BY <2>1
  <2> QED
    BY <1>6, <2>2, OtherThread DEF Arrive
<1>7. CASE Spin(t)
  BY <1>7 DEF Spin
<1>8. CASE SpinsLoad(t)
  BY <1>8 DEF SpinsLoad
<1>9. CASE SpinsStore(t)
  <2>1. loaded[t] \in 0..MaxSpins
    OBVIOUS
  <2>2. (IF loaded[t] < MaxSpins THEN loaded[t] + 1 ELSE loaded[t]) \in 0..MaxSpins
    BY <2>1
  <2>3. 0 \in 0..MaxSpins
    OBVIOUS
  <2> QED
    BY <1>9, <2>2, <2>3 DEF SpinsStore
<1>10. CASE StopSpinning(t)
  BY <1>10 DEF StopSpinning
<1>11. CASE ResetCounter(t)
  BY <1>11, OtherThread DEF ResetCounter
<1> QED
  BY <1>1, <1>2, <1>3, <1>4, <1>5, <1>6, <1>7, <1>8, <1>9, <1>10, <1>11 DEF Worker

LEMMA MainKeepsTypes ==
    ASSUME Inv, Main
    PROVE  TypeOK'
<1> USE DEF Inv, TypeOK, Goto, Outside
<1>1. CASE CreateFails
  BY <1>1 DEF CreateFails
<1>2. CASE PhaseEnds
  BY <1>2 DEF PhaseEnds
<1>3. CASE MainSignalsExit
  BY <1>3 DEF MainSignalsExit
<1>4. CASE Join
  BY <1>4 DEF Join
<1>5. CASE \E t \in Threads : CreateWorker(t)
  BY <1>5 DEF CreateWorker
<1> QED
  BY <1>1, <1>2, <1>3, <1>4, <1>5 DEF Main

-----------------------------------------------------------------------------
(* Every step keeps what the places say of the sites and the counters. *)

\* A step that moves one thread without touching the counters keeps PlaceInv
\* if it leaves alone the thread's being in a wrap, and if what PlaceInv says
\* of the place the thread reaches is true there.
LEMMA MoveKeepsPlace ==
    ASSUME Inv, NEW t \in Threads, NEW p, Goto(t, p), UNCHANGED <<site, cntr>>,
           p \in Outside => site[t] = "end",
           p = "Race" => site[t] = "start",
           p \in Wrapping <=> pc[t] \in Wrapping,
           p = "Wait" => pc[t] = "Wait",
           p = "Drain" => pc[t] = "Drain"
    PROVE  PlaceInv'
<1> SUFFICES ASSUME NEW u \in Threads
             PROVE  PlaceOK(u)'
  BY DEF PlaceInv
<1>1. PlaceOK(u)
  BY DEF Inv, PlaceInv
<1>2. pc'[u] = IF u = t THEN p ELSE pc[u]
  BY DEF Goto, Inv, TypeOK
<1> QED
  BY <1>1, <1>2 DEF PlaceOK

LEMMA WorkerKeepsPlace ==
    ASSUME Inv, NEW t \in Threads, Worker(t)
    PROVE  PlaceInv'
<1>a. /\ pc[t] \in Outside => site[t] = "end"
      /\ pc[t] = "Race" => site[t] = "start"
      /\ site[t] \in {"start", "end"}
  BY DEF Inv, PlaceInv, PlaceOK, TypeOK
<1>1. CASE SetUp(t)
  <2>1. PICK p \in {"CheckStop", "Out"} : Goto(t, p)
    BY <1>1 DEF SetUp
  <2> QED
    BY <1>1, <1>a, <2>1, MoveKeepsPlace DEF SetUp, Outside, Wrapping
<1>2. CASE TestStop(t)
  BY <1>2, <1>a, MoveKeepsPlace DEF TestStop, Outside, Wrapping
<1>3. CASE TestExit(t)
  BY <1>3, <1>a, MoveKeepsPlace DEF TestExit, Outside, Wrapping
<1>4. CASE PairUpdate(t)
  BY <1>4, <1>a, MoveKeepsPlace DEF PairUpdate, Outside, Wrapping
<1>5. CASE SignalExit(t)
  BY <1>5, <1>a, MoveKeepsPlace DEF SignalExit, Outside, Wrapping
<1>6. CASE Arrive(t)
  <2>1. cntr[Other(t)] \in 0..MaxC /\ cntr[Other(t)] # MaxC
    BY <1>6, OtherThread DEF Arrive, Inv, TypeOK, PlaceInv, PlaceOK, Wrapping
  <2>2. cntr'[Other(t)] = cntr[Other(t)] + 1 /\ cntr'[t] = cntr[t]
    BY <1>6, OtherThread DEF Arrive, Inv, TypeOK
  <2>3. /\ pc'[t] = (IF cntr[Other(t)] + 1 = MaxC THEN "Full" ELSE "Wait")
        /\ pc'[Other(t)] = pc[Other(t)] /\ site'[Other(t)] = site[Other(t)]
    BY <1>6, OtherThread DEF Arrive, Goto, Inv, TypeOK
  <2>4. ASSUME NEW u \in Threads, u = t
        PROVE  PlaceOK(u)'
    BY <2>1, <2>2, <2>3, <2>4 DEF PlaceOK, Outside, Wrapping
  <2>5. ASSUME NEW u \in Threads, u = Other(t)
        PROVE  PlaceOK(u)'
    BY <2>2, <2>3, <2>5, OtherThread DEF Inv, PlaceInv, PlaceOK
  <2> QED
    BY <2>4, <2>5, OtherThread DEF PlaceInv
<1>7. CASE Spin(t)
  BY <1>7 DEF Spin, Inv, PlaceInv, PlaceOK, Outside, Wrapping
<1>8. CASE SpinsLoad(t)
  BY <1>8 DEF SpinsLoad, Inv, PlaceInv, PlaceOK, Outside, Wrapping
<1>9. CASE SpinsStore(t)
  BY <1>9 DEF SpinsStore, Inv, PlaceInv, PlaceOK, Outside, Wrapping
<1>10. CASE StopSpinning(t)
  BY <1>10, <1>a, MoveKeepsPlace DEF StopSpinning, Outside, Wrapping
<1>11. CASE ResetCounter(t)
  <2>1. /\ cntr'[Other(t)] = 0 /\ cntr'[t] = cntr[t]
        /\ pc'[t] = "Drain" /\ pc'[Other(t)] = pc[Other(t)]
        /\ site' = site
    BY <1>11, OtherThread DEF ResetCounter, Goto, Inv, TypeOK
  <2>2. ASSUME NEW u \in Threads, u = t
        PROVE  PlaceOK(u)'
    BY <2>1, <2>2 DEF PlaceOK, Outside, Wrapping
  <2>3. ASSUME NEW u \in Threads, u = Other(t)
        PROVE  PlaceOK(u)'
    BY <2>1, <2>3, OtherThread DEF Inv, PlaceInv, PlaceOK
  <2> QED
    BY <2>2, <2>3, OtherThread DEF PlaceInv
<1> QED
  BY <1>1, <1>2, <1>3, <1>4, <1>5, <1>6, <1>7, <1>8, <1>9, <1>10, <1>11 DEF Worker

LEMMA MainKeepsPlace ==
    ASSUME Inv, Main
    PROVE  PlaceInv'
<1>1. CASE CreateFails \/ PhaseEnds \/ MainSignalsExit \/ Join
  BY <1>1 DEF CreateFails, PhaseEnds, MainSignalsExit, Join, Inv, PlaceInv, PlaceOK,
              Outside, Wrapping
<1>2. CASE \E t \in Threads : CreateWorker(t)
  <2>1. PICK t \in Threads : CreateWorker(t)
    BY <1>2
  <2>2. site[t] = "end"
    BY <2>1 DEF CreateWorker, Inv, PlaceInv, PlaceOK, Outside
  <2> QED
    BY <2>1, <2>2, MoveKeepsPlace DEF CreateWorker, Outside, Wrapping
<1> QED
  BY <1>1, <1>2 DEF Main

-----------------------------------------------------------------------------
(* Every step keeps the threads in lockstep, as long as exit is not raised. *)

\* What a state with exit low says of a thread and of the other one.
LEMMA LockstepOf ==
    ASSUME Inv, ~exit, NEW t \in Threads
    PROVE  /\ Ahead(t) \in {0 - 1, 0, 1}
           /\ Ahead(Other(t)) = 0 - Ahead(t)
           /\ Ahead(t) = 0 => EvenOK(t) /\ EvenOK(Other(t))
           /\ Ahead(t) = 1 => InFrontOK(t)
           /\ Ahead(t) = 0 - 1 => InFrontOK(Other(t))
<1>1. Lockstep /\ lead \in {0 - 1, 0, 1} /\ lead \in Int
  BY DEF Inv, LockstepInv, Lockstep, TypeOK
<1>2. Ahead(t) \in {0 - 1, 0, 1} /\ Ahead(Other(t)) = 0 - Ahead(t)
  BY <1>1, AheadOfOther DEF Ahead
<1> QED
  BY <1>1, <1>2, OtherThread DEF Lockstep

\* And what is enough for the next state to be in lockstep.
LEMMA LockstepFrom ==
    ASSUME NEW t \in Threads,
           lead' \in {0 - 1, 0, 1},
           Ahead(t)' = 0 => EvenOK(t)' /\ EvenOK(Other(t))',
           Ahead(t)' = 1 => InFrontOK(t)',
           Ahead(t)' = 0 - 1 => InFrontOK(Other(t))'
    PROVE  Lockstep'
<1>1. Ahead(Other(t))' = 0 - Ahead(t)' /\ Ahead(t)' \in {0 - 1, 0, 1}
  <2>1. PICK n \in {0 - 1, 0, 1} : lead' = n
    OBVIOUS
  <2>2. Ahead(t)' = (IF t = "A" THEN n ELSE 0 - n)
    BY <2>1 DEF Ahead
  <2>3. Ahead(Other(t))' = (IF t = "A" THEN 0 - n ELSE n)
    BY <2>1 DEF Ahead, Other, Threads
  <2> QED
    BY <2>2, <2>3
<1>2. Ahead(Other(t))' = 0 => Ahead(t)' = 0
  BY <1>1
<1>3. Ahead(Other(t))' = 1 => Ahead(t)' = 0 - 1
  BY <1>1
<1> QED
  BY <1>2, <1>3, OtherThread DEF Lockstep

\* A thread that moves from outside the barrier to outside the barrier.
LEMMA MoveKeepsLockstep ==
    ASSUME Inv, ~exit, NEW t \in Threads, NEW p, Goto(t, p),
           UNCHANGED <<site, cntr, lead>>,
           pc[t] \notin Waiting, p \notin Waiting
    PROVE  Lockstep'
<1> DEFINE o == Other(t)
<1>1. pc'[t] = p /\ pc'[o] = pc[o] /\ o \in Threads /\ Other(o) = t
  BY OtherThread DEF Goto, Inv, TypeOK
<1>2. Ahead(t)' = Ahead(t) /\ lead' \in {0 - 1, 0, 1}
  BY DEF Ahead, Inv, LockstepInv, Lockstep
<1>3. Ahead(t) # 1
  BY LockstepOf DEF InFrontOK, Waiting
<1>4. ASSUME Ahead(t) = 0
      PROVE  EvenOK(t)' /\ EvenOK(o)'
  BY <1>1, <1>4, LockstepOf DEF EvenOK, Count, Waiting, Wrapping
<1>5. ASSUME Ahead(t) = 0 - 1
      PROVE  InFrontOK(o)'
  BY <1>1, <1>5, LockstepOf DEF InFrontOK, Count, Succ, Waiting, Wrapping
<1> QED
  BY <1>2, <1>3, <1>4, <1>5, LockstepFrom

\* The increment: from even the thread comes in front, from behind it draws level.
LEMMA ArriveKeepsLockstep ==
    ASSUME Inv, ~exit, NEW t \in Threads, Arrive(t)
    PROVE  Lockstep'
<1> DEFINE o == Other(t)
<1> DEFINE c == cntr[o]
<1>1. o \in Threads /\ Other(o) = t /\ o # t
  BY OtherThread
<1>2. /\ pc'[t] = (IF c + 1 = MaxC THEN "Full" ELSE "Wait")
      /\ pc'[o] = pc[o]
      /\ site'[t] = (IF pc[t] = "Start" THEN "start" ELSE "end")
      /\ site'[o] = site[o]
      /\ cntr'[o] = c + 1 /\ cntr'[t] = cntr[t]
  BY <1>1 DEF Arrive, Goto, Inv, TypeOK
<1>3. /\ c \in 0..MaxC /\ c # MaxC /\ cntr[t] \in 0..MaxC
      /\ pc[t] \in {"Start", "Race"}
      /\ site[t] = (IF pc[t] = "Start" THEN "end" ELSE "start")
      /\ site[o] \in {"start", "end"}
  BY <1>1 DEF Arrive, Inv, TypeOK, PlaceInv, PlaceOK, Outside, Wrapping
<1>4. Count(t) = c /\ Count(t)' = Succ(c)
  <2>1. Count(t) = c
    BY <1>3 DEF Count, Wrapping
  <2>2. CASE c + 1 = MaxC
    BY <1>2, <1>3, <2>2 DEF Count, Succ, Wrapping
  <2>3. CASE c + 1 # MaxC
    BY <1>2, <1>3, <2>3 DEF Count, Succ, Wrapping
  <2> QED
    BY <2>1, <2>2, <2>3
<1>5. Count(o)' = Count(o)
  BY <1>1, <1>2 DEF Count
<1>6. Ahead(t) \in {0 - 1, 0} /\ Ahead(t)' = Ahead(t) + 1
  <2>1. Ahead(t) \in {0 - 1, 0}
    BY <1>3, LockstepOf DEF InFrontOK
  <2>2. PICK n \in {0 - 1, 0, 1} : lead = n
    BY DEF Inv, LockstepInv, Lockstep
  <2>3. lead' = (IF t = "A" THEN n + 1 ELSE n - 1)
    BY <2>2 DEF Arrive
  <2>4. Ahead(t)' = (IF t = "A" THEN n + 1 ELSE 0 - (n - 1))
    BY <2>3 DEF Ahead
  <2>5. Ahead(t) = (IF t = "A" THEN n ELSE 0 - n)
    BY <2>2 DEF Ahead
  <2> QED
    BY <2>1, <2>4, <2>5
<1>7. lead' \in {0 - 1, 0, 1}
  <2>1. PICK n \in {0 - 1, 0} : Ahead(t) = n
    BY <1>6
  <2>2. lead = (IF t = "A" THEN n ELSE 0 - n)
    BY <2>1 DEF Ahead, Inv, TypeOK
  <2> QED
    BY <2>2 DEF Arrive
<1>8. CASE Ahead(t) = 0
  <2>1. EvenOK(t)
    BY <1>8, LockstepOf
  <2>2. InFrontOK(t)'
    BY <1>1, <1>2, <1>3, <1>4, <1>5, <2>1 DEF EvenOK, InFrontOK, Succ, Waiting, Wrapping
  <2> QED
    BY <1>6, <1>7, <1>8, <2>2, LockstepFrom
<1>9. CASE Ahead(t) = 0 - 1
  <2>1. InFrontOK(o)
    BY <1>9, LockstepOf
  <2>2. EvenOK(t)' /\ EvenOK(o)'
    BY <1>1, <1>2, <1>3, <1>4, <1>5, <2>1 DEF EvenOK, InFrontOK, Succ, Waiting, Wrapping
  <2> QED
    BY <1>6, <1>7, <1>9, <2>2, LockstepFrom
<1> QED
  BY <1>6, <1>8, <1>9

\* The end of a spin loop: its condition is false, so the thread is not in
\* front, and the other thread has got over the wrap if this one has.
LEMMA StopKeepsLockstep ==
    ASSUME Inv, ~exit, NEW t \in Threads, StopSpinning(t)
    PROVE  Lockstep'
<1> DEFINE o == Other(t)
<1>1. o \in Threads /\ Other(o) = t /\ o # t
  BY OtherThread
<1>2. /\ pc[t] \in {"Wait", "Full", "Drain"} /\ ~Behind(t)
      /\ pc'[t] = (IF pc[t] = "Full" THEN "Reset"
                   ELSE IF site[t] = "start" THEN "Race" ELSE "CheckStop")
      /\ pc'[o] = pc[o]
      /\ site' = site /\ cntr' = cntr /\ lead' = lead /\ Ahead(t)' = Ahead(t)
  BY <1>1 DEF StopSpinning, Spinning, Goto, Inv, TypeOK, Ahead
<1>3. /\ cntr[t] \in 0..MaxC /\ cntr[o] \in 0..MaxC
      /\ pc[t] \in Wrapping <=> cntr[o] = MaxC
      /\ pc[o] \in Wrapping <=> cntr[t] = MaxC
      /\ pc[t] = "Wait" => cntr[o] > 0
      /\ pc[t] = "Drain" => cntr[o] = 0
  BY <1>1 DEF Inv, TypeOK, PlaceInv, PlaceOK
<1>4. Count(t)' = Count(t) /\ Count(o)' = Count(o)
  BY <1>1, <1>2 DEF Count, Wrapping
<1>5. Ahead(t) # 1
  <2> SUFFICES ASSUME InFrontOK(t) PROVE FALSE
    BY LockstepOf
  <2>1. Count(o) = cntr[t] /\ cntr[t] # MaxC
    BY <1>1, <1>3 DEF InFrontOK, Count
  <2>2. CASE pc[t] = "Wait"
    BY <1>2, <1>3, <2>1, <2>2 DEF InFrontOK, Count, Succ, Behind, Wrapping
  <2>3. CASE pc[t] = "Full"
    BY <1>2, <1>3, <2>1, <2>3 DEF InFrontOK, Count, Succ, Behind, Wrapping
  <2> QED
    BY <2>2, <2>3 DEF InFrontOK
<1>6. ASSUME Ahead(t) = 0
      PROVE  EvenOK(t)' /\ EvenOK(o)'
  <2>1. EvenOK(t) /\ EvenOK(o)
    BY <1>6, LockstepOf
  <2>2. pc[t] # "Full" => pc[o] \notin Wrapping
    BY <1>1, <1>2, <1>3, <2>1 DEF EvenOK, Count, Behind, Wrapping
  <2> QED
    BY <1>1, <1>2, <1>4, <2>1, <2>2 DEF EvenOK, Waiting, Wrapping
<1>7. ASSUME Ahead(t) = 0 - 1
      PROVE  InFrontOK(o)'
  BY <1>1, <1>2, <1>4, <1>7, LockstepOf DEF InFrontOK, Succ, Wrapping
<1>8. lead' \in {0 - 1, 0, 1}
  BY <1>2 DEF Inv, LockstepInv, Lockstep
<1> QED
  BY <1>2, <1>5, <1>6, <1>7, <1>8, LockstepFrom

LEMMA ResetKeepsLockstep ==
    ASSUME Inv, ~exit, NEW t \in Threads, ResetCounter(t)
    PROVE  Lockstep'
<1> DEFINE o == Other(t)
<1>1. o \in Threads /\ Other(o) = t /\ o # t
  BY OtherThread
<1>2. /\ pc[t] = "Reset" /\ pc'[t] = "Drain" /\ pc'[o] = pc[o]
      /\ cntr'[o] = 0 /\ cntr'[t] = cntr[t]
      /\ site' = site /\ lead' = lead /\ Ahead(t)' = Ahead(t)
  BY <1>1 DEF ResetCounter, Goto, Inv, TypeOK, Ahead
<1>3. Count(t)' = Count(t) /\ Count(o)' = Count(o)
  BY <1>1, <1>2 DEF Count, Wrapping
<1>4. Ahead(t) = 0
  BY <1>1, <1>2, LockstepOf DEF InFrontOK, Wrapping
<1>5. EvenOK(t)' /\ EvenOK(o)'
  BY <1>1, <1>2, <1>3, <1>4, LockstepOf DEF EvenOK, Waiting, Wrapping
<1>6. lead' \in {0 - 1, 0, 1}
  BY <1>2 DEF Inv, LockstepInv, Lockstep
<1> QED
  BY <1>2, <1>4, <1>5, <1>6, LockstepFrom

LEMMA StepKeepsLockstep ==
    ASSUME Inv, [Next]_vars
    PROVE  LockstepInv'
<1> SUFFICES ASSUME ~exit' PROVE Lockstep'
  BY DEF LockstepInv
<1>1. ASSUME NEW t \in Threads, Worker(t)
      PROVE  Lockstep'
  <2>1. CASE Arrive(t)
    <3>1. ~exit
      BY <2>1 DEF Arrive
    <3> QED
      BY <2>1, <3>1, ArriveKeepsLockstep
  <2>2. CASE StopSpinning(t)
    <3>1. ~exit
      BY <2>2 DEF StopSpinning
    <3> QED
      BY <2>2, <3>1, StopKeepsLockstep
  <2>3. CASE ResetCounter(t)
    <3>1. ~exit
      BY <2>3 DEF ResetCounter
    <3> QED
      BY <2>3, <3>1, ResetKeepsLockstep
  <2>4. CASE SetUp(t) \/ TestStop(t) \/ TestExit(t) \/ PairUpdate(t)
    <3>1. /\ ~exit /\ UNCHANGED <<site, cntr, lead>> /\ pc[t] \notin Waiting
      BY <2>4 DEF SetUp, TestStop, TestExit, PairUpdate, Waiting
    <3>2. PICK p \in Outside : Goto(t, p)
      BY <2>4 DEF SetUp, TestStop, TestExit, PairUpdate, Outside
    <3> QED
      BY <3>1, <3>2, MoveKeepsLockstep DEF Outside, Waiting
  <2>5. CASE SignalExit(t)
    BY <2>5 DEF SignalExit
  <2>6. CASE Spin(t) \/ SpinsLoad(t) \/ SpinsStore(t)
    BY <2>6 DEF Spin, SpinsLoad, SpinsStore, Inv, LockstepInv, Lockstep, EvenOK, InFrontOK,
                Ahead, Count, Succ
  <2> QED
    BY <1>1, <2>1, <2>2, <2>3, <2>4, <2>5, <2>6 DEF Worker
<1>2. CASE Main
  <2>1. CASE CreateFails \/ PhaseEnds \/ Join
    BY <2>1 DEF CreateFails, PhaseEnds, Join, Inv, LockstepInv, Lockstep, EvenOK, InFrontOK,
                Ahead, Count, Succ
  <2>2. CASE MainSignalsExit
    BY <2>2 DEF MainSignalsExit
  <2>3. CASE \E t \in Threads : CreateWorker(t)
    <3>1. PICK t \in Threads : CreateWorker(t)
      BY <2>3
    <3> QED
      BY <3>1, MoveKeepsLockstep DEF CreateWorker, Waiting
  <2> QED
    BY <1>2, <2>1, <2>2, <2>3 DEF Main
<1>3. CASE UNCHANGED vars
  BY <1>3 DEF vars, Inv, LockstepInv, Lockstep, EvenOK, InFrontOK, Ahead, Count, Succ
<1> QED
  BY <1>1, <1>2, <1>3 DEF Next, Finished

-----------------------------------------------------------------------------
(* The theorems. *)

LEMMA InvInductive == Inv /\ [Next]_vars => Inv'
<1> SUFFICES ASSUME Inv, [Next]_vars PROVE Inv'
  OBVIOUS
<1>1. CASE \E t \in Threads : Worker(t)
  BY <1>1, WorkerKeepsTypes, WorkerKeepsPlace, StepKeepsLockstep DEF Inv
<1>2. CASE Main
  BY <1>2, MainKeepsTypes, MainKeepsPlace, StepKeepsLockstep DEF Inv
<1>3. CASE UNCHANGED vars
  <2>1. TypeOK'
    BY <1>3 DEF vars, Inv, TypeOK
  <2>2. PlaceInv'
    BY <1>3 DEF vars, Inv, PlaceInv, PlaceOK
  <2> QED
    BY <2>1, <2>2, StepKeepsLockstep DEF Inv
<1> QED
  BY <1>1, <1>2, <1>3 DEF Next, Finished

\* The invariant of the pair, types included: in particular the counters stay
\* between 0 and INT_MAX for ever, also after exit has been raised.
THEOREM InvHolds == Spec => []Inv
<1> QED
  BY InitInv, InvInductive, PTL DEF Spec

\* No int of the pair is incremented at INT_MAX.
THEOREM NoOverflow == Spec => []CounterNeverOverflows
<1>1. Inv => CounterNeverOverflows
  <2> SUFFICES ASSUME Inv, NEW t \in Threads, pc[t] \in {"Start", "Race"}
               PROVE  cntr[Other(t)] < MaxC
    BY DEF CounterNeverOverflows
  <2>1. cntr[Other(t)] \in 0..MaxC
    BY OtherThread DEF Inv, TypeOK
  <2>2. cntr[Other(t)] # MaxC
    BY DEF Inv, PlaceInv, PlaceOK, Wrapping
  <2> QED
    BY <2>1, <2>2
<1> QED
  BY <1>1, InvHolds, PTL

\* Until exit is raised, no thread leaves the barrier before the other one came.
THEOREM BarrierHolds == Spec => []NobodyLeavesEarly
<1>1. Inv => NobodyLeavesEarly
  <2> SUFFICES ASSUME Inv, ~exit, NEW t \in Threads, pc[t] \notin Waiting
               PROVE  Ahead(t) <= 0
    BY DEF NobodyLeavesEarly
  <2>1. Ahead(t) # 1
    BY LockstepOf DEF InFrontOK, Waiting
  <2> QED
    BY <2>1, LockstepOf
<1> QED
  BY <1>1, InvHolds, PTL

\* Until exit is raised, a racing worker has a rival between the same start and
\* end, so the two never meet at different ends of a race.
THEOREM RivalsMeet == Spec => []RacesOverlap
<1>1. Inv => RacesOverlap
  <2> SUFFICES ASSUME Inv, ~exit, NEW t \in Threads, pc[t] = "Race",
                      pc[Other(t)] \notin Waiting, pc[Other(t)] # "Race"
               PROVE  FALSE
    BY DEF RacesOverlap
  <2>1. site[t] = "start" /\ pc[Other(t)] \in Outside
    BY OtherThread DEF Inv, TypeOK, PlaceInv, PlaceOK
  <2>2. site[Other(t)] = "end"
    BY <2>1, OtherThread DEF Inv, PlaceInv, PlaceOK
  <2>3. Ahead(t) # 1
    BY LockstepOf DEF InFrontOK
  <2>4. Ahead(t) # 0 - 1
    BY <2>1, LockstepOf DEF InFrontOK, Waiting, Outside
  <2>5. Ahead(t) = 0
    BY <2>3, <2>4, LockstepOf
  <2> QED
    BY <2>1, <2>2, <2>5, LockstepOf DEF EvenOK
<1> QED
  BY <1>1, InvHolds, PTL

\* Until exit is raised, a counter is reset only when both threads have arrived.
THEOREM ResetsAreLevel == Spec => []ResetOnlyWhenBothArrived
<1>1. Inv => ResetOnlyWhenBothArrived
  <2> SUFFICES ASSUME Inv, ~exit, NEW t \in Threads, pc[t] = "Reset"
               PROVE  lead = 0
    BY DEF ResetOnlyWhenBothArrived
  <2>1. Ahead(t) # 1 /\ Ahead(t) # 0 - 1
    BY OtherThread, LockstepOf DEF InFrontOK, Wrapping
  <2>2. Ahead(t) = 0
    BY <2>1, LockstepOf
  <2>3. PICK n \in {0 - 1, 0, 1} : lead = n
    BY DEF Inv, LockstepInv, Lockstep
  <2> QED
    BY <2>2, <2>3 DEF Ahead
<1> QED
  BY <1>1, InvHolds, PTL

-----------------------------------------------------------------------------
(* The pair implements the rendezvous. *)

LEMMA InitRefines == Init => R!Init
<1> SUFFICES ASSUME Init PROVE R!Init
  OBVIOUS
<1>1. ASSUME NEW t \in Threads PROVE (pc[t] \in Waiting) = FALSE
  BY DEF Init, Waiting
<1>2. [t \in Threads |-> pc[t] \in Waiting] = [t \in Threads |-> FALSE]
  BY <1>1, Zenon
<1>3. exit = FALSE /\ lead = 0
  BY Zenon DEF Init
<1> QED
  BY <1>2, <1>3, Zenon DEF R!Init, R!Threads, Threads

\* A step that moves no thread into or out of the barrier, counts no arrival
\* and raises no flag is a stutter of the rendezvous.
LEMMA StutterRefines ==
    ASSUME \A u \in Threads : (pc'[u] \in Waiting) = (pc[u] \in Waiting),
           UNCHANGED <<lead, exit>>
    PROVE  UNCHANGED R!vars
<1>1. [u \in Threads |-> pc'[u] \in Waiting] = [u \in Threads |-> pc[u] \in Waiting]
  BY Zenon
<1> QED
  BY <1>1, Zenon DEF R!vars

\* So is the step that raises exit, if it moves no thread either, a breaking of
\* the barrier, or nothing when it was broken before.
LEMMA BreakRefines ==
    ASSUME \A u \in Threads : (pc'[u] \in Waiting) = (pc[u] \in Waiting),
           lead' = lead, exit \in BOOLEAN, exit' = TRUE
    PROVE  [R!Next]_(R!vars)
<1>1. [u \in Threads |-> pc'[u] \in Waiting] = [u \in Threads |-> pc[u] \in Waiting]
  BY Zenon
<1>2. CASE exit = TRUE
  <2>1. exit' = exit
    BY <1>2
  <2> QED
    BY <1>1, <2>1, Zenon DEF R!vars
<1>3. CASE ~exit
  <2>1. R!Break
    BY <1>1, <1>3, Zenon DEF R!Break
  <2> QED
    BY <2>1, Zenon DEF R!Next
<1> QED
  BY <1>2, <1>3, Zenon

LEMMA ArriveRefines ==
    ASSUME Inv, NEW t \in Threads, Arrive(t)
    PROVE  R!Come(t)
<1>1. pc[t] \notin Waiting /\ pc'[t] \in Waiting
  BY DEF Arrive, Goto, Inv, TypeOK, Waiting
<1>2. \A u \in Threads : u # t => pc'[u] = pc[u]
  BY DEF Arrive, Goto, Inv, TypeOK
<1>3. [u \in Threads |-> pc'[u] \in Waiting]
        = [[u \in Threads |-> pc[u] \in Waiting] EXCEPT ![t] = TRUE]
  BY <1>1, <1>2, Zenon
<1>4. /\ lead' = (IF t = "A" THEN lead + 1 ELSE lead - 1)
      /\ exit' = exit
  BY DEF Arrive
<1>5. ~([u \in Threads |-> pc[u] \in Waiting])[t]
  BY <1>1, Zenon
<1> QED
  BY <1>3, <1>4, <1>5, Zenon DEF R!Come

LEMMA StopRefines ==
    ASSUME Inv, NEW t \in Threads, StopSpinning(t), pc[t] # "Full"
    PROVE  R!GoOn(t)
<1>1. pc[t] \in Waiting /\ pc'[t] \notin Waiting
  BY DEF StopSpinning, Goto, Inv, TypeOK, Waiting
<1>2. \A u \in Threads : u # t => pc'[u] = pc[u]
  BY DEF StopSpinning, Goto, Inv, TypeOK
<1>3. [u \in Threads |-> pc'[u] \in Waiting]
        = [[u \in Threads |-> pc[u] \in Waiting] EXCEPT ![t] = FALSE]
  <2>1. ASSUME NEW u \in Threads
        PROVE  (pc'[u] \in Waiting) = (IF u = t THEN FALSE ELSE pc[u] \in Waiting)
    <3>1. CASE u = t
      <4>1. (pc'[u] \in Waiting) = FALSE
        BY <1>1, <3>1
      <4> QED
        BY <3>1, <4>1, Zenon
    <3>2. CASE u # t
      BY <1>2, <3>2, Zenon
    <3> QED
      BY <3>1, <3>2
  <2> QED
    BY <2>1, Zenon
<1>4. lead' = lead /\ exit' = exit
  BY DEF StopSpinning
<1>5. ([u \in Threads |-> pc[u] \in Waiting])[t]
  BY <1>1, Zenon
<1>6. exit \/ Ahead(t) <= 0
  <2> SUFFICES ASSUME ~exit PROVE Ahead(t) <= 0
    OBVIOUS
  <2>1. Lockstep' /\ ~exit'
    BY <1>4, StopKeepsLockstep
  <2>2. (Ahead(t) = 1 => InFrontOK(t))'
    BY <2>1 DEF Lockstep
  <2>3. Ahead(t)' = Ahead(t)
    BY <1>4 DEF Ahead
  <2>4. Ahead(t) # 1
    BY <1>1, <2>2, <2>3 DEF InFrontOK, Waiting
  <2> QED
    BY <2>4, LockstepOf
<1>7. Ahead(t) = R!Ahead(t)
  BY DEF Ahead, R!Ahead
<1> QED
  BY <1>3, <1>4, <1>5, <1>6, <1>7, Zenon DEF R!GoOn

LEMMA WorkerRefines ==
    ASSUME Inv, NEW t \in Threads, Worker(t)
    PROVE  [R!Next]_(R!vars)
<1>1. CASE Arrive(t)
  BY <1>1, ArriveRefines, Zenon DEF R!Next, R!Threads, Threads
<1>2. CASE StopSpinning(t) /\ pc[t] # "Full"
  BY <1>2, StopRefines, Zenon DEF R!Next, R!Threads, Threads
<1>3. CASE SignalExit(t)
  <2>1. \A u \in Threads : (pc'[u] \in Waiting) = (pc[u] \in Waiting)
    BY <1>3 DEF SignalExit, Goto, Inv, TypeOK, Waiting
  <2>2. lead' = lead /\ exit \in BOOLEAN /\ exit' = TRUE
    BY <1>3, Zenon DEF SignalExit, Inv, TypeOK
  <2> QED
    BY <2>1, <2>2, BreakRefines
<1>4. CASE StopSpinning(t) /\ pc[t] = "Full"
  <2>1. \A u \in Threads : (pc'[u] \in Waiting) = (pc[u] \in Waiting)
    BY <1>4 DEF StopSpinning, Goto, Inv, TypeOK, Waiting
  <2>2. UNCHANGED <<lead, exit>>
    BY <1>4 DEF StopSpinning
  <2> QED
    BY <2>1, <2>2, StutterRefines
<1>5. CASE SetUp(t) \/ TestStop(t) \/ TestExit(t) \/ PairUpdate(t) \/ ResetCounter(t)
  <2>1. \A u \in Threads : (pc'[u] \in Waiting) = (pc[u] \in Waiting)
    BY <1>5 DEF SetUp, TestStop, TestExit, PairUpdate, ResetCounter, Goto, Inv, TypeOK, Waiting
  <2>2. UNCHANGED <<lead, exit>>
    BY <1>5 DEF SetUp, TestStop, TestExit, PairUpdate, ResetCounter
  <2> QED
    BY <2>1, <2>2, StutterRefines
<1>6. CASE Spin(t) \/ SpinsLoad(t) \/ SpinsStore(t)
  BY <1>6, StutterRefines DEF Spin, SpinsLoad, SpinsStore
<1> QED
  BY <1>1, <1>2, <1>3, <1>4, <1>5, <1>6 DEF Worker

LEMMA MainRefines ==
    ASSUME Inv, Main
    PROVE  [R!Next]_(R!vars)
<1>1. CASE CreateFails \/ PhaseEnds \/ Join
  BY <1>1, StutterRefines DEF CreateFails, PhaseEnds, Join
<1>2. CASE MainSignalsExit
  <2>1. lead' = lead /\ exit \in BOOLEAN /\ exit' = TRUE /\ pc' = pc
    BY <1>2, Zenon DEF MainSignalsExit, Inv, TypeOK
  <2> QED
    BY <2>1, BreakRefines
<1>3. CASE \E t \in Threads : CreateWorker(t)
  <2>1. PICK t \in Threads : CreateWorker(t)
    BY <1>3
  <2>2. \A u \in Threads : (pc'[u] \in Waiting) = (pc[u] \in Waiting)
    BY <2>1 DEF CreateWorker, Goto, Inv, TypeOK, Waiting
  <2> QED
    BY <2>1, <2>2, StutterRefines DEF CreateWorker
<1> QED
  BY <1>1, <1>2, <1>3 DEF Main

\* The pair is a rendezvous of its two threads until exit is raised, whatever
\* number the counters wrap at.
THEOREM PairIsRendezvous == Spec => RendezvousSpec
<1>1. Inv /\ [Next]_vars => [R!Next]_(R!vars)
  <2> SUFFICES ASSUME Inv, [Next]_vars PROVE [R!Next]_(R!vars)
    OBVIOUS
  <2>1. CASE \E t \in Threads : Worker(t)
    BY <2>1, WorkerRefines
  <2>2. CASE Main
    BY <2>2, MainRefines
  <2>3. CASE UNCHANGED vars
    BY <2>3, StutterRefines DEF vars
  <2> QED
    BY <2>1, <2>2, <2>3 DEF Next, Finished
<1> QED
  BY <1>1, InitRefines, InvHolds, PTL DEF Spec, RendezvousSpec, R!Spec
=============================================================================
