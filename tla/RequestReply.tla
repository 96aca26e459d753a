----------------------------- MODULE RequestReply -----------------------------
(***************************************************************************)
(* What the netlink transport promises a caller: one request at a time;    *)
(* the call either tells what the kernel answered to this very request, in *)
(* full, or says that it does not know (a timeout, a failed send, poll or  *)
(* receive).  It never tells the answer to another request, nor a part of  *)
(* an answer as if it were the whole.                                      *)
(***************************************************************************)
CONSTANTS
    Outcomes,   \* what the kernel may answer
    Unknown     \* what a call tells when it does not know

VARIABLES
    asking,     \* a call is under way
    answer,     \* the outcome the kernel decided for the last request
    told        \* what the last call told

vars == <<asking, answer, told>>

Init == ~asking /\ answer = Unknown /\ told = Unknown

\* The request reaches the kernel, which decides its outcome.
Ask ==
    /\ ~asking
    /\ asking' = TRUE
    /\ answer' \in Outcomes
    /\ told' = Unknown

\* The request is not sent.
NotSent ==
    /\ ~asking
    /\ told' = Unknown
    /\ answer' = Unknown
    /\ UNCHANGED asking

Tell ==
    /\ asking
    /\ asking' = FALSE
    /\ told' = answer
    /\ UNCHANGED answer

GiveUp ==
    /\ asking
    /\ asking' = FALSE
    /\ told' = Unknown
    /\ UNCHANGED answer

Next == Ask \/ NotSent \/ Tell \/ GiveUp

Spec == Init /\ [][Next]_vars
=============================================================================
