--------------------------- MODULE RacePhasesProofs ---------------------------
(***************************************************************************)
(* PhaseInv is an inductive invariant of RacePhases, for any number of     *)
(* pairs and phases, and the safety properties follow from it.             *)
(***************************************************************************)
EXTENDS RacePhases, TLAPS

\* The initial states satisfy the invariant.
LEMMA PhaseInit == Init => PhaseInv
  <1> SUFFICES ASSUME Init PROVE PhaseInv
    OBVIOUS
  <1>1. TypeOK
    <2>1. /\ stage = "pair" /\ ret = "ok" /\ left \in 0..Phases /\ created \in 0..N
          /\ joined \in 0..created /\ signalled \in 0..P
      BY PhasesAssumption, PAssumption, NAssumption DEF Init
    <2>2. /\ slot \in Pairings /\ stop \in BOOLEAN /\ exit \in [Pairs -> BOOLEAN]
          /\ gaveUp \subseteq Workers
      BY DEF Init
    <2>3. /\ pc \in [Workers -> InLoop \cup {"absent", "setup", "out", "done"}]
          /\ lead \in [Workers -> Int]
      BY DEF Init
    <2> QED
      BY <2>1, <2>2, <2>3 DEF TypeOK
  <1>2. Reaped /\ Counted /\ FlagsOfThisPhase /\ LeavesForAReason
    BY PhasesAssumption DEF Init, Reaped, Counted, FlagsOfThisPhase, LeavesForAReason, Workers
  <1> QED
    BY <1>1, <1>2 DEF PhaseInv

-----------------------------------------------------------------------------
(* The steps of the main thread *)

\* The pairing, on pairs nobody uses.
LEMMA PairUpKeeps == PhaseInv /\ PairUp => PhaseInv'
  <1> SUFFICES ASSUME PhaseInv, PairUp PROVE PhaseInv'
    OBVIOUS
  <1> USE DEF PhaseInv, PairUp
  <1>1. \A w \in Workers : pc[w] = "absent"
    BY DEF TypeOK, Reaped, Counted, Workers
  <1>2. TypeOK'
    BY NAssumption, PAssumption DEF TypeOK
  <1>3. Reaped' /\ Counted'
    BY <1>1 DEF TypeOK, Reaped, Counted
  <1>4. FlagsOfThisPhase' /\ LeavesForAReason'
    BY DEF FlagsOfThisPhase, LeavesForAReason
  <1> QED
    BY <1>2, <1>3, <1>4

\* The steps that leave the workers and their flags alone.
LEMMA LowerStopKeeps == PhaseInv /\ LowerStop => PhaseInv'
  <1> SUFFICES ASSUME PhaseInv, LowerStop PROVE PhaseInv'
    OBVIOUS
  <1> USE DEF PhaseInv, LowerStop
  <1>1. \A w \in Workers : pc[w] = "absent"
    BY DEF TypeOK, Reaped, Counted, Workers
  <1>2. stop' \in BOOLEAN
    OBVIOUS
  <1>3. TypeOK'
    BY <1>2 DEF TypeOK
  <1>4. Reaped' /\ Counted'
    BY DEF TypeOK, Reaped, Counted
  <1>5. FlagsOfThisPhase' /\ LeavesForAReason'
    BY <1>1 DEF FlagsOfThisPhase, LeavesForAReason
  <1> QED
    BY <1>3, <1>4, <1>5

\* The thread that is created is the next one.
LEMMA CreateKeeps == PhaseInv /\ Create => PhaseInv'
  <1> SUFFICES ASSUME PhaseInv, Create PROVE PhaseInv'
    OBVIOUS
  <1> USE DEF PhaseInv, Create
  <1>1. /\ created \in 0..N /\ joined = 0 /\ created' = created + 1 /\ created' \in 1..N
        /\ pc' = [pc EXCEPT ![created'] = "setup"]
    BY NAssumption, PAssumption DEF TypeOK, Counted
  <1>2. TypeOK'
    BY <1>1, NAssumption, PAssumption DEF TypeOK, Workers
  <1>3. Reaped' /\ Counted'
    BY <1>1 DEF TypeOK, Reaped, Counted, Workers
  <1>4. FlagsOfThisPhase'
    BY DEF FlagsOfThisPhase, Abandoned
  <1>5. LeavesForAReason'
    BY <1>1 DEF TypeOK, LeavesForAReason, Abandoned, Workers
  <1> QED
    BY <1>2, <1>3, <1>4, <1>5

\* A creation that fails, the sleep, and stop going up: no worker moves.
LEMMA EndOfPhaseKeeps == PhaseInv /\ (CreateFails \/ Sleep \/ RaiseStop) => PhaseInv'
  <1> SUFFICES ASSUME PhaseInv, CreateFails \/ Sleep \/ RaiseStop PROVE PhaseInv'
    OBVIOUS
  <1> USE DEF PhaseInv, CreateFails, Sleep, RaiseStop
  <1>1. /\ stage' \in {"stop", "signal"} /\ ret' \in {"ok", "failed"}
        /\ signalled' \in 0..P /\ UNCHANGED <<left, created, joined, slot, exit, pc, lead, gaveUp>>
    BY PAssumption DEF TypeOK
  <1>2. stop' \in BOOLEAN
    BY DEF TypeOK
  <1>3. TypeOK'
    BY <1>1, <1>2 DEF TypeOK
  <1>4. Reaped' /\ Counted'
    BY PAssumption DEF Reaped, Counted
  <1>5. FlagsOfThisPhase' /\ LeavesForAReason'
    BY DEF FlagsOfThisPhase, LeavesForAReason, Abandoned
  <1> QED
    BY <1>3, <1>4, <1>5

\* By now stop is up, and the flags need no reason.
LEMMA SignalPairKeeps == PhaseInv /\ SignalPair => PhaseInv'
  <1> SUFFICES ASSUME PhaseInv, SignalPair PROVE PhaseInv'
    OBVIOUS
  <1> USE DEF PhaseInv, SignalPair
  <1>1. signalled \in 0..P /\ signalled < P /\ signalled' \in 0..P
    BY PAssumption DEF TypeOK, Counted
  <1>2. exit' \in [Pairs -> BOOLEAN]
    BY DEF TypeOK
  <1>3. TypeOK'
    BY <1>1, <1>2 DEF TypeOK
  <1>4. Reaped' /\ Counted'
    BY <1>1, PAssumption DEF Reaped, Counted
  <1>5. FlagsOfThisPhase' /\ LeavesForAReason'
    BY DEF FlagsOfThisPhase, LeavesForAReason
  <1> QED
    BY <1>3, <1>4, <1>5

\* The thread that is joined is the next one, and it is gone.
LEMMA JoinKeeps == PhaseInv /\ Join => PhaseInv'
  <1> SUFFICES ASSUME PhaseInv, Join PROVE PhaseInv'
    OBVIOUS
  <1> USE DEF PhaseInv, Join
  <1>1. /\ created \in 0..N /\ joined \in 0..created /\ joined' = joined + 1
        /\ joined' \in 1..created /\ pc' = [pc EXCEPT ![joined'] = "absent"]
    BY NAssumption, PAssumption DEF TypeOK
  <1>2. TypeOK'
    BY <1>1, NAssumption, PAssumption DEF TypeOK, Workers
  <1>3. Reaped' /\ Counted'
    BY <1>1, NAssumption, PAssumption DEF TypeOK, Reaped, Counted, Workers
  <1>4. FlagsOfThisPhase' /\ LeavesForAReason'
    BY DEF FlagsOfThisPhase, LeavesForAReason
  <1> QED
    BY <1>2, <1>3, <1>4

\* Everybody is joined.
LEMMA PhaseOverKeeps == PhaseInv /\ (PhaseOver \/ Return) => PhaseInv'
  <1> SUFFICES ASSUME PhaseInv, PhaseOver \/ Return PROVE PhaseInv'
    OBVIOUS
  <1> USE DEF PhaseInv, PhaseOver, Return
  <1>1. TypeOK'
    BY PhasesAssumption DEF TypeOK, Counted
  <1>2. Reaped' /\ Counted'
    BY PhasesAssumption DEF TypeOK, Reaped, Counted
  <1>3. FlagsOfThisPhase' /\ LeavesForAReason'
    BY DEF FlagsOfThisPhase, LeavesForAReason
  <1> QED
    BY <1>1, <1>2, <1>3

-----------------------------------------------------------------------------
(* The steps of a worker *)

\* A worker that moves exists.
LEMMA Alive ==
    ASSUME PhaseInv, NEW w \in Workers, pc[w] # "absent"
    PROVE  joined < w /\ w <= created
  BY NAssumption, PAssumption DEF PhaseInv, TypeOK, Reaped, Workers

\* A worker takes a step that changes no flag and lets nobody out of a loop.
LEMMA MoveKeeps ==
    ASSUME PhaseInv, NEW w \in Workers, NEW p \in InLoop, pc[w] # "absent",
           Goto(w, p), UNCHANGED <<mainVars, stop, exit, gaveUp>>,
           lead' \in [Workers -> Int]
    PROVE  PhaseInv'
  <1> USE DEF PhaseInv, Goto, mainVars
  <1>1. TypeOK'
    BY DEF TypeOK
  <1>2. Reaped' /\ Counted'
    BY Alive DEF TypeOK, Reaped, Counted, Workers
  <1>3. FlagsOfThisPhase'
    BY DEF FlagsOfThisPhase, Abandoned
  <1>4. LeavesForAReason'
    BY DEF TypeOK, LeavesForAReason, Abandoned, InLoop
  <1> QED
    BY <1>1, <1>2, <1>3, <1>4

\* A worker goes to its out: label for a reason.
LEMMA LeaveKeeps ==
    ASSUME PhaseInv, NEW w \in Workers, pc[w] # "absent",
           Goto(w, "out"), UNCHANGED <<mainVars, stop, exit, lead>>,
           gaveUp \subseteq gaveUp', gaveUp' \subseteq Workers,
           stage \in {"create", "stop"} => \E v \in gaveUp' : slot[v] = slot[w]
    PROVE  PhaseInv'
  <1> USE DEF PhaseInv, Goto, mainVars
  <1>1. TypeOK'
    BY DEF TypeOK
  <1>2. Reaped' /\ Counted'
    BY Alive DEF TypeOK, Reaped, Counted, Workers
  <1>3. FlagsOfThisPhase'
    BY DEF FlagsOfThisPhase, Abandoned
  <1>4. LeavesForAReason'
    BY DEF TypeOK, LeavesForAReason, Abandoned
  <1> QED
    BY <1>1, <1>2, <1>3, <1>4

\* A worker whose set-up fails is itself the reason for which it leaves.
LEMMA SetUpKeeps ==
    ASSUME PhaseInv, NEW w \in Workers, SetUp(w) PROVE PhaseInv'
  <1>1. CASE Goto(w, "head") /\ UNCHANGED gaveUp
    <2>1. lead' \in [Workers -> Int] /\ pc[w] # "absent" /\ "head" \in InLoop
      BY DEF PhaseInv, TypeOK, SetUp, InLoop
    <2> QED
      BY <1>1, <2>1, MoveKeeps DEF SetUp
  <1>2. CASE Goto(w, "out") /\ gaveUp' = gaveUp \cup {w}
    <2>1. /\ pc[w] # "absent" /\ gaveUp \subseteq gaveUp' /\ gaveUp' \subseteq Workers
          /\ w \in gaveUp'
      BY <1>2 DEF PhaseInv, TypeOK, SetUp
    <2> QED
      BY <1>2, <2>1, LeaveKeeps DEF SetUp
  <1> QED
    BY <1>1, <1>2 DEF SetUp

\* A flag found up is the flag of the own pair, and went up for a reason.
LEMMA SeesFlagKeeps ==
    ASSUME PhaseInv, NEW w \in Workers, SeesFlag(w) PROVE PhaseInv'
  <1>1. slot[w] \in Pairs
    BY DEF PhaseInv, TypeOK, Pairings
  <1>2. stage \in {"create", "stop"} => \E v \in gaveUp' : slot[v] = slot[w]
    BY <1>1 DEF SeesFlag, PhaseInv, FlagsOfThisPhase, Abandoned
  <1>3. pc[w] # "absent" /\ gaveUp \subseteq gaveUp' /\ gaveUp' \subseteq Workers
    BY DEF SeesFlag, PhaseInv, TypeOK
  <1> QED
    BY <1>2, <1>3, LeaveKeeps DEF SeesFlag

\* Arrivals keep the leads numbers.
LEMMA ArriveCounts ==
    ASSUME NEW w \in Workers, lead \in [Workers -> Int], Arrive(w)
    PROVE  lead' \in [Workers -> Int]
  BY DEF Arrive

\* The steps of the race itself raise no flag.
LEMMA RaceKeeps ==
    ASSUME PhaseInv, NEW w \in Workers,
           StartRace(w) \/ EnterRace(w) \/ EndRace(w) \/ LeaveRace(w)
    PROVE  PhaseInv'
  <1>1. lead \in [Workers -> Int]
    BY DEF PhaseInv, TypeOK
  <1>2. CASE StartRace(w)
    <2>1. lead' \in [Workers -> Int] /\ "at start" \in InLoop /\ pc[w] # "absent"
      BY <1>1, <1>2, ArriveCounts DEF StartRace, InLoop
    <2> QED
      BY <1>2, <2>1, MoveKeeps DEF StartRace
  <1>3. CASE EnterRace(w)
    <2>1. lead' \in [Workers -> Int] /\ "race" \in InLoop /\ pc[w] # "absent"
      BY <1>1, <1>3 DEF EnterRace, InLoop
    <2> QED
      BY <1>3, <2>1, MoveKeeps DEF EnterRace
  <1>4. CASE EndRace(w)
    <2>1. lead' \in [Workers -> Int] /\ "at end" \in InLoop /\ pc[w] # "absent"
      BY <1>1, <1>4, ArriveCounts DEF EndRace, InLoop
    <2> QED
      BY <1>4, <2>1, MoveKeeps DEF EndRace
  <1>5. CASE LeaveRace(w)
    <2>1. lead' \in [Workers -> Int] /\ "head" \in InLoop /\ pc[w] # "absent"
      BY <1>1, <1>5 DEF LeaveRace, InLoop
    <2> QED
      BY <1>5, <2>1, MoveKeeps DEF LeaveRace
  <1> QED
    BY <1>2, <1>3, <1>4, <1>5

\* The flag of the own pair goes up, for the reason the worker left its loop.
LEMMA SignalExitKeeps ==
    ASSUME PhaseInv, NEW w \in Workers, SignalExit(w) PROVE PhaseInv'
  <1> USE DEF PhaseInv, SignalExit, Goto, mainVars
  <1>1. /\ slot[w] \in Pairs /\ exit \in [Pairs -> BOOLEAN]
        /\ exit' = [exit EXCEPT ![slot[w]] = TRUE]
    BY DEF TypeOK, Pairings
  <1>2. exit' \in [Pairs -> BOOLEAN]
    BY <1>1
  <1>3. TypeOK'
    BY <1>2 DEF TypeOK
  <1>4. Reaped' /\ Counted'
    BY Alive DEF TypeOK, Reaped, Counted, Workers
  <1>5. stage \in {"create", "stop"} => Abandoned(slot[w])
    BY DEF LeavesForAReason
  <1>6. stage # "lower"
    BY Alive, NAssumption, PAssumption DEF TypeOK, Counted, Workers
  <1>7. \A q \in Pairs : exit'[q] => q = slot[w] \/ exit[q]
    BY <1>1
  <1>8. FlagsOfThisPhase'
    BY <1>5, <1>6, <1>7 DEF FlagsOfThisPhase, Abandoned
  <1>9. LeavesForAReason'
    BY DEF TypeOK, LeavesForAReason, Abandoned
  <1> QED
    BY <1>3, <1>4, <1>8, <1>9

-----------------------------------------------------------------------------
(* The theorems *)

\* Every step keeps the invariant.
LEMMA PhaseStep == PhaseInv /\ [Next]_vars => PhaseInv'
  <1> SUFFICES ASSUME PhaseInv, [Next]_vars PROVE PhaseInv'
    OBVIOUS
  <1>1. CASE Main
    BY <1>1, PairUpKeeps, LowerStopKeeps, CreateKeeps, EndOfPhaseKeeps, SignalPairKeeps,
       JoinKeeps, PhaseOverKeeps DEF Main
  <1>2. ASSUME NEW w \in Workers, Worker(w) PROVE PhaseInv'
    BY <1>2, SetUpKeeps, SeesFlagKeeps, RaceKeeps, SignalExitKeeps DEF Worker
  <1>3. CASE UNCHANGED vars
    BY <1>3 DEF vars, mainVars, PhaseInv, TypeOK, Reaped, Counted, FlagsOfThisPhase,
       LeavesForAReason, Abandoned
  <1> QED
    BY <1>1, <1>2, <1>3 DEF Next, Returned

\* Types, loop bounds and the reasons of raised flags, for any number of pairs
\* and phases.
THEOREM PhaseInvHolds == Spec => []PhaseInv
  <1> QED
    BY PhaseInit, PhaseStep, PTL DEF Spec

\* No worker lives when the pairs are re-initialised and when the counters are
\* read: the workers of a phase are gone before the next one.
THEOREM QuietHolds == Spec => []QuietBetweenPhases
  <1>1. PhaseInv => QuietBetweenPhases
    BY NAssumption, PAssumption DEF PhaseInv, TypeOK, Reaped, Counted, QuietBetweenPhases, Workers
  <1> QED
    BY <1>1, PhaseInvHolds, PTL

\* A worker leaves its loop before the end of the phase only when its own pair
\* has a member that could not set itself up in this phase.
THEOREM ReasonHolds == Spec => []LeavesForAReason
  <1>1. PhaseInv => LeavesForAReason
    BY DEF PhaseInv
  <1> QED
    BY <1>1, PhaseInvHolds, PTL
=============================================================================
