------------------------------ MODULE FuzzySync ------------------------------
(***************************************************************************)
(* One fuzzy sync pair (include/tst_fuzzy_sync.h) driven by two race       *)
(* workers (src/race.c) and by the main thread that runs one phase: it     *)
(* creates the workers, sleeps, raises the stop flag and the exit flag of  *)
(* the pair, and joins.                                                    *)
(*                                                                         *)
(* A worker repeats: test stop, test exit, start the race (thread A first  *)
(* runs pair_update), make its system call, end the race.  Both the start  *)
(* and the end of a race are a call of tst_fzsync_pair_wait, the lock-free *)
(* barrier whose two counters wrap at INT_MAX (here MaxC).                 *)
(*                                                                         *)
(* Every load, store and increment of a shared cell is a step of its own.  *)
(* The wait conditions of the code load a counter and then the exit flag;  *)
(* they are one step here, since exit is never lowered while the threads   *)
(* live and the counter of the other operand is written only by the thread *)
(* that tests it, so the value of the condition is the one it had when the *)
(* counter was loaded.  The first loop of the INT_MAX branch loads its     *)
(* counter twice; when that finds INT_MAX and then 0 the code makes one    *)
(* turn more, which may add 1 to spins and is left out: the next turn      *)
(* finds 0 and the loop ends all the same.                                 *)
(***************************************************************************)
EXTENDS Integers

CONSTANTS
    MaxC,       \* the value at which the counters wrap: INT_MAX in the code
    MaxSpins    \* bound of the model: the spin count stops growing here

ASSUME MaxCAssumption == MaxC \in Nat /\ MaxC >= 2
ASSUME MaxSpinsAssumption == MaxSpins \in Nat

Threads == {"A", "B"}

Other(t) == IF t = "A" THEN "B" ELSE "A"

VARIABLES
    pc,      \* where each worker is
    site,    \* the call of pair_wait each worker made last: of the start or of the end of a race
    cntr,    \* cntr["A"] is a_cntr, cntr["B"] is b_cntr: each is written by the other thread
    exit,    \* the exit flag of the pair
    stop,    \* the stop flag of the phase
    main,    \* where the main thread is
    spins,   \* the shared, non-atomic spin count
    adding,  \* how far each worker is in (*spins)++
    loaded,  \* the value each worker loaded for it
    lead     \* history: arrivals of A at the barrier minus arrivals of B

vars == <<pc, site, cntr, exit, stop, main, spins, adding, loaded, lead>>

\* Inside tst_fzsync_pair_wait.
Waiting == {"Wait", "Full", "Reset", "Drain"}

\* Between two races: the worker has ended its last race and not started the next.
Outside == {"Absent", "Setup", "CheckStop", "CheckExit", "Update", "Start", "Out", "Done"}

TypeOK ==
    /\ pc \in [Threads -> Outside \cup Waiting \cup {"Race"}]
    /\ site \in [Threads -> {"start", "end"}]
    /\ cntr \in [Threads -> 0..MaxC]
    /\ exit \in BOOLEAN
    /\ stop \in BOOLEAN
    /\ main \in {"create", "signal", "join", "joined"}
    /\ spins \in 0..MaxSpins
    /\ adding \in [Threads -> {"no", "load", "store"}]
    /\ loaded \in [Threads -> 0..MaxSpins]
    /\ lead \in Int

\* The pair as race_sync_pair_init leaves it, no worker created yet.
Init ==
    /\ pc = [t \in Threads |-> "Absent"]
    /\ site = [t \in Threads |-> "end"]
    /\ cntr = [t \in Threads |-> 0]
    /\ exit = FALSE
    /\ stop = FALSE
    /\ main = "create"
    /\ spins = 0
    /\ adding = [t \in Threads |-> "no"]
    /\ loaded = [t \in Threads |-> 0]
    /\ lead = 0

-----------------------------------------------------------------------------
(* The worker loop of race.c. *)

Goto(t, p) == pc' = [pc EXCEPT ![t] = p]

\* Open the socket, allocate, build the constant requests: any of it may fail.
SetUp(t) ==
    /\ pc[t] = "Setup"
    /\ Goto(t, "CheckStop") \/ Goto(t, "Out")
    /\ UNCHANGED <<site, cntr, exit, stop, main, spins, adding, loaded, lead>>

TestStop(t) ==
    /\ pc[t] = "CheckStop"
    /\ Goto(t, IF stop THEN "Out" ELSE "CheckExit")
    /\ UNCHANGED <<site, cntr, exit, stop, main, spins, adding, loaded, lead>>

\* race_sync_exit_requested, then the call of race_sync_start.
TestExit(t) ==
    /\ pc[t] = "CheckExit"
    /\ Goto(t, IF exit THEN "Out" ELSE IF t = "A" THEN "Update" ELSE "Start")
    /\ UNCHANGED <<site, cntr, exit, stop, main, spins, adding, loaded, lead>>

\* tst_fzsync_pair_update, by A only: it reads the times and the spins of the
\* race that ended, and starts a new spin count.
PairUpdate(t) ==
    /\ pc[t] = "Update"
    /\ spins' = 0
    /\ Goto(t, "Start")
    /\ UNCHANGED <<site, cntr, exit, stop, main, adding, loaded, lead>>

SignalExitForgotten(t) ==
    /\ pc[t] = "Out"
    /\ Goto(t, "Done")
    /\ UNCHANGED <<site, cntr, exit, stop, main, spins, adding, loaded, lead>>

\* The out: label: release the other worker of the pair.
SignalExit(t) ==
    /\ pc[t] = "Out"
    /\ exit' = TRUE
    /\ Goto(t, "Done")
    /\ UNCHANGED <<site, cntr, stop, main, spins, adding, loaded, lead>>

-----------------------------------------------------------------------------
(* tst_fzsync_pair_wait: our counter is cntr[t], the other one cntr[Other(t)]. *)

ArriveNeverWraps(t) ==
    /\ pc[t] \in {"Start", "Race"}
    /\ cntr' = [cntr EXCEPT ![Other(t)] = @ + 1]
    /\ Goto(t, "Wait")
    /\ site' = [site EXCEPT ![t] = IF pc[t] = "Start" THEN "start" ELSE "end"]
    /\ lead' = IF t = "A" THEN lead + 1 ELSE lead - 1
    /\ UNCHANGED <<exit, stop, main, spins, adding, loaded>>

\* tst_atomic_inc(other_cntr), and the branch on INT_MAX.
Arrive(t) ==
    /\ pc[t] \in {"Start", "Race"}
    /\ cntr' = [cntr EXCEPT ![Other(t)] = @ + 1]
    /\ Goto(t, IF cntr[Other(t)] + 1 = MaxC THEN "Full" ELSE "Wait")
    /\ site' = [site EXCEPT ![t] = IF pc[t] = "Start" THEN "start" ELSE "end"]
    /\ lead' = IF t = "A" THEN lead + 1 ELSE lead - 1
    /\ UNCHANGED <<exit, stop, main, spins, adding, loaded>>

BehindWithoutDrain(t) ==
    \/ pc[t] = "Wait" /\ cntr[t] < cntr[Other(t)]
    \/ pc[t] = "Full" /\ 0 < cntr[t] /\ cntr[t] < MaxC

BehindWithoutFull(t) ==
    \/ pc[t] = "Wait" /\ cntr[t] < cntr[Other(t)]
    \/ pc[t] = "Drain" /\ cntr[t] > 1

BehindByMoreThanOne(t) ==
    \/ pc[t] = "Wait" /\ cntr[t] + 1 < cntr[Other(t)]
    \/ pc[t] = "Full" /\ 0 < cntr[t] /\ cntr[t] < MaxC
    \/ pc[t] = "Drain" /\ cntr[t] > 1

BehindDrainsToZero(t) ==
    \/ pc[t] = "Wait" /\ cntr[t] < cntr[Other(t)]
    \/ pc[t] = "Full" /\ 0 < cntr[t] /\ cntr[t] < MaxC
    \/ pc[t] = "Drain" /\ cntr[t] > 0

\* The conditions of the three spin loops, without the exit flag.
Behind(t) ==
    \/ pc[t] = "Wait" /\ cntr[t] < cntr[Other(t)]
    \/ pc[t] = "Full" /\ 0 < cntr[t] /\ cntr[t] < MaxC
    \/ pc[t] = "Drain" /\ cntr[t] > 1

SpinningThroughExit(t) == Behind(t)

Spinning(t) == Behind(t) /\ ~exit

\* One turn of a spin loop that counts.  The calls of the start of a race pass
\* no spin counter, and the last loop never counts: their turns change nothing.
Spin(t) ==
    /\ pc[t] \in {"Wait", "Full"} /\ site[t] = "end"
    /\ adding[t] = "no"
    /\ Spinning(t)
    /\ adding' = [adding EXCEPT ![t] = "load"]
    /\ UNCHANGED <<pc, site, cntr, exit, stop, main, spins, loaded, lead>>

\* (*spins)++ on a plain int that both threads may be changing: a load, then a store.
SpinsLoad(t) ==
    /\ adding[t] = "load"
    /\ loaded' = [loaded EXCEPT ![t] = spins]
    /\ adding' = [adding EXCEPT ![t] = "store"]
    /\ UNCHANGED <<pc, site, cntr, exit, stop, main, spins, lead>>

SpinsStore(t) ==
    /\ adding[t] = "store"
    /\ spins' = IF loaded[t] < MaxSpins THEN loaded[t] + 1 ELSE loaded[t]
    /\ loaded' = [loaded EXCEPT ![t] = 0]
    /\ adding' = [adding EXCEPT ![t] = "no"]
    /\ UNCHANGED <<pc, site, cntr, exit, stop, main, lead>>

StopSpinningSkipsReset(t) ==
    /\ pc[t] \in {"Wait", "Full", "Drain"}
    /\ adding[t] = "no"
    /\ ~Spinning(t)
    /\ Goto(t, IF pc[t] = "Full" /\ ~exit THEN "Reset"
               ELSE IF site[t] = "start" THEN "Race" ELSE "CheckStop")
    /\ UNCHANGED <<site, cntr, exit, stop, main, spins, adding, loaded, lead>>

\* A spin loop ends: the caller goes on into or out of its race, except after
\* the first loop of the INT_MAX branch, which the reset of the counter follows.
StopSpinning(t) ==
    /\ pc[t] \in {"Wait", "Full", "Drain"}
    /\ adding[t] = "no"
    /\ ~Spinning(t)
    /\ Goto(t, IF pc[t] = "Full" THEN "Reset"
               ELSE IF site[t] = "start" THEN "Race" ELSE "CheckStop")
    /\ UNCHANGED <<site, cntr, exit, stop, main, spins, adding, loaded, lead>>

\* tst_atomic_store(0, other_cntr)
ResetCounter(t) ==
    /\ pc[t] = "Reset"
    /\ cntr' = [cntr EXCEPT ![Other(t)] = 0]
    /\ Goto(t, "Drain")
    /\ UNCHANGED <<site, exit, stop, main, spins, adding, loaded, lead>>

Worker(t) ==
    \/ SetUp(t) \/ TestStop(t) \/ TestExit(t) \/ PairUpdate(t) \/ SignalExit(t)
    \/ Arrive(t) \/ Spin(t) \/ SpinsLoad(t) \/ SpinsStore(t)
    \/ StopSpinning(t) \/ ResetCounter(t)

-----------------------------------------------------------------------------
(* The main thread: one phase of gb_race_run_with_summary. *)

\* The workers are created one after the other; which side of the pair comes
\* first depends on the shuffled pairing.
CreateWorker(t) ==
    /\ main = "create"
    /\ pc[t] = "Absent"
    /\ Goto(t, "Setup")
    /\ UNCHANGED <<site, cntr, exit, stop, main, spins, adding, loaded, lead>>

\* pthread_create fails: no more workers, straight to the end of the phase.
CreateFails ==
    /\ main = "create"
    /\ \E t \in Threads : pc[t] = "Absent"
    /\ stop' = TRUE
    /\ main' = "signal"
    /\ UNCHANGED <<pc, site, cntr, exit, spins, adding, loaded, lead>>

\* gb_util_sleep_ns returns.
PhaseEnds ==
    /\ main = "create"
    /\ \A t \in Threads : pc[t] # "Absent"
    /\ stop' = TRUE
    /\ main' = "signal"
    /\ UNCHANGED <<pc, site, cntr, exit, spins, adding, loaded, lead>>

MainSignalsExit ==
    /\ main = "signal"
    /\ exit' = TRUE
    /\ main' = "join"
    /\ UNCHANGED <<pc, site, cntr, stop, spins, adding, loaded, lead>>

Join ==
    /\ main = "join"
    /\ \A t \in Threads : pc[t] \in {"Absent", "Done"}
    /\ main' = "joined"
    /\ UNCHANGED <<pc, site, cntr, exit, stop, spins, adding, loaded, lead>>

\* After the join the main thread has the pair for itself.
Finished == main = "joined" /\ UNCHANGED vars

Main == CreateFails \/ PhaseEnds \/ MainSignalsExit \/ Join \/ \E t \in Threads : CreateWorker(t)

Next == Main \/ Finished \/ \E t \in Threads : Worker(t)

Spec == Init /\ [][Next]_vars

\* The scheduler runs every thread, and every system call of a worker returns
\* (netlink receives poll with a timeout, the traffic socket has a send
\* timeout).  The main thread creates its workers and, once it has raised stop,
\* finishes the phase; nothing is assumed of the length of its sleep.
FairWorkers == \A t \in Threads : WF_vars(Worker(t))

Creation == CreateFails \/ \E t \in Threads : CreateWorker(t)

FairSpec == Spec /\ FairWorkers /\ WF_vars(Creation) /\ WF_vars(MainSignalsExit \/ Join)

-----------------------------------------------------------------------------
(* Properties *)

\* How many more times thread t has arrived at the barrier than the other one.
Ahead(t) == IF t = "A" THEN lead ELSE 0 - lead

\* Until exit is raised, nobody leaves tst_fzsync_pair_wait before the other
\* thread has called it as often: the counters may wrap in between.
NobodyLeavesEarly == exit \/ \A t \in Threads : pc[t] \notin Waiting => Ahead(t) <= 0

\* Until exit is raised, a worker makes its racing call only while the other
\* one is between the same start and the same end.  So the call always has a
\* rival, and thread A is never in pair_update, which reads the times B
\* stores and writes the delay B reads, while B races.
RacesOverlap ==
    exit \/ \A t \in Threads : pc[t] = "Race" => pc[Other(t)] \in Waiting \cup {"Race"}

\* "We must wait here to ensure the other thread has at least reached the line
\* above": until exit is raised, a counter is taken back to 0 only when both
\* threads have come to the barrier equally often.
ResetOnlyWhenBothArrived == exit \/ \A t \in Threads : pc[t] = "Reset" => lead = 0

\* The int a worker is about to increment is below INT_MAX, whatever way the
\* waits before it ended: also when exit broke the INT_MAX branch off.
CounterNeverOverflows ==
    \A t \in Threads : pc[t] \in {"Start", "Race"} => cntr[Other(t)] < MaxC

\* The comment of the field spins: the number of spins while waiting for the
\* slower thread.  While both threads are in the race nobody has waited for
\* its end, so the count is still 0.
SpinsOfThisRace == exit \/ pc["A"] # "Race" \/ pc["B"] # "Race" \/ spins = 0

\* A worker that gives up, say because its socket does not open, does not
\* leave the other one spinning, however long the main thread sleeps.
PartnerReleased ==
    \A t \in Threads : pc[t] = "Done" ~> (pc[Other(t)] = "Done" \/ main = "joined")

\* A worker that enters tst_fzsync_pair_wait leaves it: when the other one
\* comes, or gives up, or was never created and the phase is abandoned.
EveryWaitEnds == \A t \in Threads : pc[t] \in Waiting ~> pc[t] \notin Waiting

\* Once stop is raised the main thread joins its workers.
PhaseFinishes == stop ~> main = "joined"

-----------------------------------------------------------------------------
(* The inductive invariant behind the safety properties. *)

Wrapping == {"Full", "Reset"}

\* What a worker's place in its loop says of the call it made last and of the
\* counter it writes: the counter stands at MaxC exactly while the worker is
\* between the increment that reached MaxC and the reset.
PlaceOK(t) ==
    /\ pc[t] \in Outside => site[t] = "end"
    /\ pc[t] = "Race" => site[t] = "start"
    /\ pc[t] \in Wrapping <=> cntr[Other(t)] = MaxC
    /\ pc[t] = "Wait" => cntr[Other(t)] > 0
    /\ pc[t] = "Drain" => cntr[Other(t)] = 0

PlaceInv == \A t \in Threads : PlaceOK(t)

\* The arrivals of thread t modulo MaxC, and the successor in that arithmetic.
Count(t) == IF pc[t] \in Wrapping THEN 0 ELSE cntr[Other(t)]

Succ(n) == IF n = MaxC - 1 THEN 0 ELSE n + 1

\* Until exit is raised the threads are at most one arrival apart, the counters
\* say so, and the one in front is held in a spin loop.
EvenOK(t) ==
    /\ Count(t) = Count(Other(t))
    /\ site[t] = site[Other(t)]
    /\ pc[t] \notin Waiting => pc[Other(t)] \notin Wrapping

InFrontOK(t) ==
    /\ Count(t) = Succ(Count(Other(t)))
    /\ site[t] # site[Other(t)]
    /\ pc[t] \in {"Wait", "Full"}
    /\ pc[Other(t)] \notin Wrapping

Lockstep ==
    /\ lead \in {0 - 1, 0, 1}
    /\ \A t \in Threads : /\ Ahead(t) = 0 => EvenOK(t)
                          /\ Ahead(t) = 1 => InFrontOK(t)

LockstepInv == exit \/ Lockstep

\* TypeOK, PlaceInv and LockstepInv together are inductive: every safety
\* property above follows from them.
Inv == TypeOK /\ PlaceInv /\ LockstepInv

\* The pair is a rendezvous broken by exit.
R == INSTANCE Rendezvous WITH
        at <- [t \in Threads |-> pc[t] \in Waiting],
        lead <- lead,
        broken <- exit

RendezvousSpec == R!Spec
RendezvousFairSpec == R!FairSpec
=============================================================================
