------------------------------ MODULE GateKernel ------------------------------
(***************************************************************************)
(* The gate actions of the kernel as the requests of the program see them. *)
(* The kernel is not part of the repository: what a request does to the    *)
(* action at its index is what the selftests and tests/expected.json       *)
(* require of it, and the ways a request can end are those the calls of    *)
(* src/nl.c distinguish, which module NetlinkTransport models.             *)
(***************************************************************************)
CONSTANT Absent      \* there is no action at the index

Create(act, new) ==
    IF act = Absent THEN [ret |-> "ok", gate |-> new]
                    ELSE [ret |-> "EEXIST", gate |-> act]

\* A replace without an existing action creates one.
Replace(act, new) == [ret |-> "ok", gate |-> new]

Delete(act) ==
    IF act = Absent THEN [ret |-> "ENOENT", gate |-> Absent]
                    ELSE [ret |-> "ok", gate |-> Absent]

Read(act) == [ret |-> IF act = Absent THEN "ENOENT" ELSE "ok", gate |-> act]

\* The request was refused for a reason of its own.
Refused(act) == [ret |-> "refused", gate |-> act]

\* How a request can end that finds act and would end as done: as done; refused
\* by the kernel; not sent; or without an answer, done or not.
Fates(act, done) ==
    {done, Refused(act)}
    \cup {[ret |-> "unsent", gate |-> act]}
    \cup {[ret |-> "timeout", gate |-> g] : g \in {act, done.gate}}
=============================================================================
