----------------------------- MODULE Rendezvous -----------------------------
(***************************************************************************)
(* What a fuzzy sync pair promises its two threads: a reusable two-party   *)
(* barrier.  A thread comes to the barrier, and may go on once the other   *)
(* one has come as often as it has; after the barrier is broken (the exit  *)
(* flag is raised) nobody is held any more.                                *)
(*                                                                         *)
(* Only the difference of the two arrival counts matters, so it is what    *)
(* the specification keeps: the state space is finite although the threads *)
(* meet for ever.                                                          *)
(***************************************************************************)
EXTENDS Integers

VARIABLES
    at,      \* at[t]: thread t has come to the barrier and not yet gone on
    lead,    \* arrivals of thread A minus arrivals of thread B
    broken   \* the barrier no longer holds anybody

vars == <<at, lead, broken>>

Threads == {"A", "B"}

Other(t) == IF t = "A" THEN "B" ELSE "A"

\* How many more times thread t has arrived than the other thread.
Ahead(t) == IF t = "A" THEN lead ELSE 0 - lead

TypeOK ==
    /\ at \in [Threads -> BOOLEAN]
    /\ lead \in Int
    /\ broken \in BOOLEAN

Init ==
    /\ at = [t \in Threads |-> FALSE]
    /\ lead = 0
    /\ broken = FALSE

Come(t) ==
    /\ ~at[t]
    /\ at' = [at EXCEPT ![t] = TRUE]
    /\ lead' = IF t = "A" THEN lead + 1 ELSE lead - 1
    /\ UNCHANGED broken

GoOn(t) ==
    /\ at[t]
    /\ broken \/ Ahead(t) <= 0
    /\ at' = [at EXCEPT ![t] = FALSE]
    /\ UNCHANGED <<lead, broken>>

Break ==
    /\ ~broken
    /\ broken' = TRUE
    /\ UNCHANGED <<at, lead>>

Next == Break \/ \E t \in Threads : Come(t) \/ GoOn(t)

Spec == Init /\ [][Next]_vars

\* Nobody is kept at the barrier who may go on.
FairSpec == Spec /\ \A t \in Threads : WF_vars(GoOn(t))
=============================================================================
