------------------------------ MODULE RacePhases ------------------------------
(***************************************************************************)
(* Race mode as a sequence of fork-join phases: gb_race_run_with_summary   *)
(* and the loops of its workers (src/race.c).  In each phase the main      *)
(* thread distributes the workers over the sync pairs, re-initialises the  *)
(* pairs, lowers stop, creates the threads in a fixed order, sleeps,       *)
(* raises stop, raises the exit flag of one pair after the other, and      *)
(* joins the threads it created.                                           *)
(*                                                                         *)
(* A pair is used through what module Rendezvous promises of it, which     *)
(* module FuzzySync shows the code to deliver.  RacePairing shows that the *)
(* pairing is one of Pairings.                                             *)
(***************************************************************************)
EXTENDS Integers, FiniteSets

CONSTANTS
    N,       \* RACE_THREAD_COUNT
    P,       \* RACE_PAIR_COUNT
    Phases   \* how many slices of RACE_PAIR_SWAP_SLICE_NS race_seconds makes

ASSUME PAssumption == P \in Nat \ {0}
ASSUME NAssumption == N = 2 * P
ASSUME PhasesAssumption == Phases \in Nat \ {0}

Workers == 1..N     \* in the order of creation
Pairs == 1..P       \* the slots of sync_pairs

Pairings == {f \in [Workers -> Pairs] :
               \A p \in Pairs : Cardinality({w \in Workers : f[w] = p}) = 2}

VARIABLES
    stage,     \* where the main thread is
    left,      \* remaining_ns, in slices
    created,   \* how many threads of this phase were created
    joined,    \* how many of them were joined
    signalled, \* how many pairs had their exit flag raised by the main thread
    ret,       \* "ok", or that a pthread_create failed
    slot,      \* the pair of each worker
    stop,      \* the stop flag
    exit,      \* the exit flag of each pair
    pc,        \* where each worker is
    lead,      \* how many more times a worker has arrived at the barrier than its partner
    gaveUp     \* history: the workers whose set-up failed in this phase

mainVars == <<stage, left, created, joined, signalled, ret, slot>>
vars == <<mainVars, stop, exit, pc, lead, gaveUp>>

Init ==
    /\ stage = "pair"
    /\ left = Phases
    /\ created = 0
    /\ joined = 0
    /\ signalled = 0
    /\ ret = "ok"
    /\ slot \in Pairings             \* NULL in the code: nobody reads it before PairUp
    /\ stop = FALSE
    /\ exit \in [Pairs -> BOOLEAN]     \* sync_pairs is uninitialised before the first phase
    /\ pc = [w \in Workers |-> "absent"]
    /\ lead = [w \in Workers |-> 0]
    /\ gaveUp = {}

-----------------------------------------------------------------------------
(* The main thread *)

PairUpKeepsExit ==
    /\ stage = "pair" /\ left > 0
    /\ slot' \in Pairings
    /\ lead' = [w \in Workers |-> 0]
    /\ gaveUp' = {}
    /\ created' = 0 /\ joined' = 0
    /\ stage' = "lower"
    /\ UNCHANGED <<left, signalled, ret, stop, exit, pc>>

\* The assignment of the pairs, and race_sync_pair_init of each of them.
PairUp ==
    /\ stage = "pair" /\ left > 0
    /\ slot' \in Pairings
    /\ exit' = [p \in Pairs |-> FALSE]
    /\ lead' = [w \in Workers |-> 0]
    /\ gaveUp' = {}
    /\ created' = 0 /\ joined' = 0
    /\ stage' = "lower"
    /\ UNCHANGED <<left, signalled, ret, stop, pc>>

LowerStop ==
    /\ stage = "lower"
    /\ stop' = FALSE
    /\ stage' = "create"
    /\ UNCHANGED <<left, created, joined, signalled, ret, slot, exit, pc, lead, gaveUp>>

CreateOneTooMany ==
    /\ stage = "create" /\ created <= N
    /\ created' = created + 1
    /\ pc' = [w \in Workers |-> IF w = created' THEN "setup" ELSE pc[w]]
    /\ UNCHANGED <<stage, left, joined, signalled, ret, slot, stop, exit, lead, gaveUp>>

\* One turn of the loop that creates the threads.
Create ==
    /\ stage = "create" /\ created < N
    /\ created' = created + 1
    /\ pc' = [pc EXCEPT ![created'] = "setup"]
    /\ UNCHANGED <<stage, left, joined, signalled, ret, slot, stop, exit, lead, gaveUp>>

\* pthread_create fails: the loop is left and the sleep skipped.
CreateFails ==
    /\ stage = "create" /\ created < N
    /\ ret' = "failed"
    /\ stage' = "stop"
    /\ UNCHANGED <<left, created, joined, signalled, slot, stop, exit, pc, lead, gaveUp>>

\* gb_util_sleep_ns(phase_ns), once all threads were created.
Sleep ==
    /\ stage = "create" /\ created = N
    /\ stage' = "stop"
    /\ UNCHANGED <<left, created, joined, signalled, ret, slot, stop, exit, pc, lead, gaveUp>>

RaiseStop ==
    /\ stage = "stop"
    /\ stop' = TRUE
    /\ signalled' = 0
    /\ stage' = "signal"
    /\ UNCHANGED <<left, created, joined, ret, slot, exit, pc, lead, gaveUp>>

\* race_sync_signal_exit of the next pair.
SignalPair ==
    /\ stage = "signal"
    /\ signalled' = signalled + 1
    /\ exit' = [exit EXCEPT ![signalled'] = TRUE]
    /\ stage' = IF signalled' = P THEN "join" ELSE "signal"
    /\ UNCHANGED <<left, created, joined, ret, slot, stop, pc, lead, gaveUp>>

\* pthread_join of the next thread, which returns when that thread has ended.
Join ==
    /\ stage = "join" /\ joined < created
    /\ pc[joined + 1] = "done"
    /\ joined' = joined + 1
    /\ pc' = [pc EXCEPT ![joined'] = "absent"]
    /\ UNCHANGED <<stage, left, created, signalled, ret, slot, stop, exit, lead, gaveUp>>

PhaseOverOneEarly ==
    /\ stage = "join" /\ joined + 1 >= created
    /\ IF ret = "ok"
       THEN left' = left - 1 /\ stage' = IF left' > 0 THEN "pair" ELSE "summary"
       ELSE stage' = "summary" /\ UNCHANGED left
    /\ UNCHANGED <<created, joined, signalled, ret, slot, stop, exit, pc, lead, gaveUp>>

\* All joined (tst_fzsync_pair_cleanup has no thread_b to join): the next
\* phase, or the summary when the time is up or a creation failed.
PhaseOver ==
    /\ stage = "join" /\ joined = created
    /\ IF ret = "ok"
       THEN left' = left - 1 /\ stage' = IF left' > 0 THEN "pair" ELSE "summary"
       ELSE stage' = "summary" /\ UNCHANGED left
    /\ UNCHANGED <<created, joined, signalled, ret, slot, stop, exit, pc, lead, gaveUp>>

\* The counters of the workers are read into the summary and printed.
Return ==
    /\ stage = "summary"
    /\ stage' = "returned"
    /\ UNCHANGED <<left, created, joined, signalled, ret, slot, stop, exit, pc, lead, gaveUp>>

Returned == stage = "returned" /\ UNCHANGED vars

Main ==
    \/ PairUp \/ LowerStop \/ Create \/ CreateFails \/ Sleep \/ RaiseStop
    \/ SignalPair \/ Join \/ PhaseOver \/ Return

-----------------------------------------------------------------------------
(* The workers *)

Goto(w, p) == pc' = [pc EXCEPT ![w] = p]

\* Socket, buffers, constant requests: on failure the worker goes to out:.
SetUp(w) ==
    /\ pc[w] = "setup"
    /\ \/ Goto(w, "head") /\ UNCHANGED gaveUp
       \/ Goto(w, "out") /\ gaveUp' = gaveUp \cup {w}
    /\ UNCHANGED <<mainVars, stop, exit, lead>>

\* One of the two flags is up at the head of the loop.  The code loads stop and
\* then exit; within a phase both only rise, so that one look at both, at one
\* of the two instants, finds what the two loads find.
SeesFlag(w) ==
    /\ pc[w] = "head" /\ (stop \/ exit[slot[w]])
    /\ Goto(w, "out")
    /\ UNCHANGED <<mainVars, stop, exit, lead, gaveUp>>

\* Arrival at the barrier.
Arrive(w) ==
    lead' = [v \in Workers |-> IF v = w THEN lead[v] + 1
                               ELSE IF slot[v] = slot[w] THEN lead[v] - 1 ELSE lead[v]]

StartRace(w) ==
    /\ pc[w] = "head" /\ ~stop /\ ~exit[slot[w]]
    /\ Goto(w, "at start")
    /\ Arrive(w)
    /\ UNCHANGED <<mainVars, stop, exit, gaveUp>>

PassThroughExit(w) == lead[w] <= 0

\* Rendezvous!GoOn
MayPass(w) == lead[w] <= 0 \/ exit[slot[w]]

EnterRace(w) ==
    /\ pc[w] = "at start" /\ MayPass(w)
    /\ Goto(w, "race")
    /\ UNCHANGED <<mainVars, stop, exit, lead, gaveUp>>

\* The system call returns and the worker comes to the barrier of the end.
EndRace(w) ==
    /\ pc[w] = "race"
    /\ Goto(w, "at end")
    /\ Arrive(w)
    /\ UNCHANGED <<mainVars, stop, exit, gaveUp>>

LeaveRace(w) ==
    /\ pc[w] = "at end" /\ MayPass(w)
    /\ Goto(w, "head")
    /\ UNCHANGED <<mainVars, stop, exit, lead, gaveUp>>

SignalExitEverywhere(w) ==
    /\ pc[w] = "out"
    /\ exit' = [p \in Pairs |-> TRUE]
    /\ Goto(w, "done")
    /\ UNCHANGED <<mainVars, stop, lead, gaveUp>>

\* The out: label: raise the exit flag of the own pair, free, return.
SignalExit(w) ==
    /\ pc[w] = "out"
    /\ exit' = [exit EXCEPT ![slot[w]] = TRUE]
    /\ Goto(w, "done")
    /\ UNCHANGED <<mainVars, stop, lead, gaveUp>>

Worker(w) ==
    \/ SetUp(w) \/ SeesFlag(w) \/ StartRace(w)
    \/ EnterRace(w) \/ EndRace(w) \/ LeaveRace(w) \/ SignalExit(w)

Next == Main \/ Returned \/ \E w \in Workers : Worker(w)

Spec == Init /\ [][Next]_vars

\* Every thread is scheduled, every system call of a worker and the sleep of
\* the main thread return.
FairSpec == Spec /\ WF_vars(Main) /\ \A w \in Workers : WF_vars(Worker(w))

-----------------------------------------------------------------------------
(* Properties *)

InLoop == {"head", "at start", "race", "at end"}

\* Types, and the bounds of the loops that create and join.
TypeOK ==
    /\ stage \in {"pair", "lower", "create", "stop", "signal", "join", "summary", "returned"}
    /\ left \in 0..Phases
    /\ created \in 0..N
    /\ joined \in 0..created
    /\ signalled \in 0..P
    /\ ret \in {"ok", "failed"}
    /\ slot \in Pairings
    /\ stop \in BOOLEAN
    /\ exit \in [Pairs -> BOOLEAN]
    /\ pc \in [Workers -> InLoop \cup {"absent", "setup", "out", "done"}]
    /\ lead \in [Workers -> Int]
    /\ gaveUp \subseteq Workers

\* The pairs are wiped with memset and handed to other workers, and the
\* contexts are read into the summary (and go out of scope) with plain loads
\* and stores: only while no worker of any phase is alive, also after a
\* pthread_create that failed half-way.
QuietBetweenPhases ==
    stage \in {"pair", "lower", "summary", "returned"} => \A w \in Workers : pc[w] = "absent"

\* A pair has a member that gave up in this phase.
Abandoned(p) == \E v \in gaveUp : slot[v] = p

\* Before the main thread raises stop, a worker leaves its loop only if it or
\* its partner of this phase could not set itself up: no flag of an earlier
\* phase and no worker of another pair ends it.
LeavesForAReason ==
    \A w \in Workers :
        pc[w] \in {"out", "done"} /\ stage \in {"create", "stop"} =>
            Abandoned(slot[w])

\* gb_race_run_with_summary returns, whatever mixture of workers failed to set
\* up and whichever creation failed.
RunReturns == <>(stage = "returned")

-----------------------------------------------------------------------------
(* The inductive invariant behind the safety properties. *)

\* The threads that exist are those created and not yet joined.
Reaped == \A w \in Workers : w <= joined \/ w > created => pc[w] = "absent"

\* What the place of the main thread says of its counters.
Counted ==
    /\ stage \in {"pair", "summary", "returned"} => joined = created
    /\ stage = "lower" => created = 0
    /\ stage \in {"create", "stop", "signal"} => joined = 0
    /\ stage \notin {"summary", "returned"} => left > 0
    /\ stage = "signal" => signalled < P

\* Before the main thread raises stop, a flag is up only for a reason.
FlagsOfThisPhase ==
    /\ stage = "lower" => \A p \in Pairs : ~exit[p]
    /\ stage \in {"create", "stop"} => ~stop /\ \A p \in Pairs : exit[p] => Abandoned(p)

\* TypeOK, with what makes it and the two safety properties inductive.
PhaseInv == TypeOK /\ Reaped /\ Counted /\ FlagsOfThisPhase /\ LeavesForAReason
=============================================================================
