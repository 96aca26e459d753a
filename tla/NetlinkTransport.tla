--------------------------- MODULE NetlinkTransport ---------------------------
(***************************************************************************)
(* One netlink socket and the calls made on it, one at a time (src/nl.c).  *)
(* A call numbers its request, sends it and reads datagrams until one ends *)
(* the call: gb_nl_send_recv at the first message with the number of the   *)
(* request, gb_nl_send_recv_ack and gb_nl_send_recv_flush at an error (or  *)
(* ack) message, gb_nl_dump_action at an error or the done message.        *)
(* Messages with another number are skipped, and each poll waits for the   *)
(* whole timeout again.                                                    *)
(*                                                                         *)
(* The kernel answers in order but as late as it likes, packs one or       *)
(* several messages of an answer into a datagram, and drops messages when  *)
(* the receive buffer overruns: then the next receive fails.  Replies of a *)
(* request that timed out may therefore meet later calls.                  *)
(***************************************************************************)
EXTENDS Integers, Sequences, SequencesExt, FiniteSetsExt

CONSTANTS
    SeqRange,      \* sequence numbers wrap here: 2^32 in the code
    Timeout,     \* timeout_ms, in ticks
    MaxPending   \* bound of the model: no new call while more messages than this are under way

ASSUME SeqRangeAssumption == SeqRange \in Nat /\ SeqRange >= 2
ASSUME TimeoutAssumption == Timeout \in Nat \ {0}

VARIABLES
    seq,      \* sock->seq, the number of the next request
    kind,     \* the call under way, or "none"
    got,      \* payload messages the call has read: reply_msgs of a dump, fcnt_out of a flush
    told,     \* what the last call returned
    owed,     \* messages the kernel has yet to put into the receive buffer, in order
    rcv,      \* datagrams in the receive buffer
    overrun,  \* the buffer overran: the next receive fails with ENOBUFS
    answer,   \* history: the outcome the kernel decided for the last request
    waited,   \* ticks since the poll began
    total     \* history: ticks since the call began, up to one more than Timeout

kernelVars == <<owed, rcv, overrun>>
vars == <<seq, kind, got, told, kernelVars, answer, waited, total>>

-----------------------------------------------------------------------------
(* Requests and answers *)

Kinds == {"recv", "ack", "flush", "dump"}

\* What the kernel answers to the requests the program makes with each call:
\* the types of the messages, "data" being any message with a payload of its own.
Answers(k) ==
    CASE k = "recv"  -> {<<"ack">>, <<"err">>, <<"data">>}
      [] k = "ack"   -> {<<"ack">>, <<"err">>}
      [] k = "flush" -> {<<"ack">>, <<"err">>, <<"data", "ack">>}
      [] k = "dump"  -> {<<"done">>, <<"err">>, <<"data", "done">>,
                         <<"data", "data", "done">>, <<"data", "err">>}

Status(type) == IF type = "err" THEN "error" ELSE "ok"

\* The message of a datagram at which a call of kind k returns.
Ends(k, type) ==
    CASE k = "recv"             -> TRUE
      [] k \in {"ack", "flush"} -> type \in {"ack", "err"}
      [] k = "dump"             -> type \in {"err", "done"}

\* The outcome of a call: its status, and the payload messages before the last
\* one as far as the caller is told of them.
Outcome(status, n) == [status |-> status, got |-> n]

Counts(k) == k \in {"flush", "dump"}

Unknown == Outcome("unknown", 0)

Outcomes == [status : {"ok", "error"}, got : 0..2]

OutcomeOf(k, a) == Outcome(Status(Last(a)), IF Counts(k) THEN Len(a) - 1 ELSE 0)

Init ==
    /\ seq = 1
    /\ kind = "none"
    /\ got = 0
    /\ told = Unknown
    /\ owed = <<>>
    /\ rcv = <<>>
    /\ overrun = FALSE
    /\ answer = Unknown
    /\ waited = 0
    /\ total = 0

-----------------------------------------------------------------------------
(* The calls *)

Pending == Len(owed) + Len(FlattenSeq(rcv))

UnderWay == ToSet(owed) \cup UNION {ToSet(d) : d \in ToSet(rcv)}

\* An assumption about the run, no guard of the code, whose counter just wraps: the
\* number of the next request is not that of a message under way.  A number comes
\* again after SeqRange calls, all that time with an answer to the first unread.
Fresh == \A m \in UnderWay : m.seq # seq

\* gb_nl_next_seq
NextSeq == (seq + 1) % SeqRange

Call(k) ==
    /\ kind = "none"
    /\ Pending <= MaxPending /\ Fresh
    /\ kind' = k
    /\ seq' = NextSeq
    /\ got' = 0
    /\ told' = Unknown
    /\ \E a \in Answers(k) :
         /\ owed' = owed \o [i \in DOMAIN a |-> [seq |-> seq, type |-> a[i]]]
         /\ answer' = OutcomeOf(k, a)
    /\ waited' = 0 /\ total' = 0
    /\ UNCHANGED <<rcv, overrun>>

\* The call returns before it sends anything: the request does not fit its buffer, or
\* gb_nl_dump_action has no memory for the reply.  Or mnl_socket_sendto fails or sends
\* less than the request, and the number is used up.
SendFails ==
    /\ kind = "none"
    /\ seq' \in {seq, NextSeq}
    /\ got' = 0
    /\ told' = Unknown
    /\ answer' = Unknown
    /\ UNCHANGED <<kind, kernelVars, waited, total>>

Return(outcome) == kind' = "none" /\ told' = outcome

\* The number of the request of the call under way.
Expected == (seq + SeqRange - 1) % SeqRange

MineIgnoresSeq(d) == DOMAIN d

\* Where in a datagram the messages with that number are.
Mine(d) == {i \in DOMAIN d : d[i].seq = Expected}

\* poll says POLLIN, and the datagram is read and scanned: either one of the
\* messages ends the call, or the call polls again.
Receive ==
    /\ kind # "none" /\ ~overrun /\ rcv # <<>>
    /\ LET d    == Head(rcv)
           mine == Mine(d)
           last == {i \in mine : Ends(kind, d[i].type)}
           Before(n) == Cardinality({i \in mine : i < n})
       IN  IF last # {}
           THEN LET n == Min(last) IN
                /\ Return(Outcome(Status(d[n].type),
                                  IF Counts(kind) THEN got + Before(n) ELSE 0))
                /\ got' = 0
                /\ UNCHANGED waited
           ELSE /\ got' = got + Cardinality(mine)
                /\ waited' = 0
                /\ UNCHANGED <<kind, told>>
    /\ rcv' = Tail(rcv)
    /\ UNCHANGED <<seq, owed, overrun, answer, total>>

ReceiveMissesOverrun ==
    /\ kind # "none" /\ overrun
    /\ overrun' = FALSE
    /\ waited' = 0
    /\ UNCHANGED <<seq, kind, got, told, owed, rcv, answer, total>>

\* mnl_socket_recvfrom fails with ENOBUFS.
ReceiveFails ==
    /\ kind # "none" /\ overrun
    /\ overrun' = FALSE
    /\ Return(Unknown)
    /\ got' = 0
    /\ UNCHANGED <<seq, owed, rcv, answer, waited, total>>

\* The datagram is longer than the buffer of the call (ENOSPC) and lost.
ReceiveTruncated ==
    /\ kind # "none" /\ ~overrun /\ rcv # <<>>
    /\ Return(Unknown)
    /\ got' = 0
    /\ rcv' = Tail(rcv)
    /\ UNCHANGED <<seq, owed, overrun, answer, waited, total>>

\* A signal interrupts poll, or poll or the receive fails and no datagram is read.
PollInterrupted ==
    /\ kind # "none"
    /\ Return(Unknown)
    /\ got' = 0
    /\ UNCHANGED <<seq, kernelVars, answer, waited, total>>

Quiet == kind # "none" /\ ~overrun /\ rcv = <<>>

\* Time passes while poll waits.
Tick ==
    /\ Quiet /\ waited < Timeout
    /\ waited' = waited + 1
    /\ total' = IF total <= Timeout THEN total + 1 ELSE total
    /\ UNCHANGED <<seq, kind, got, told, kernelVars, answer>>

PollTimesOutAgain ==
    /\ Quiet /\ waited = Timeout
    /\ waited' = 0
    /\ UNCHANGED <<seq, kind, got, told, kernelVars, answer, total>>

\* poll returns 0: ETIMEDOUT.
PollTimesOut ==
    /\ Quiet /\ waited = Timeout
    /\ Return(Unknown)
    /\ got' = 0
    /\ UNCHANGED <<seq, kernelVars, answer, waited, total>>

-----------------------------------------------------------------------------
(* The kernel *)

\* A datagram with the next n messages it owes, all of one answer.
Deliver(n) ==
    /\ n <= Len(owed)
    /\ \A i \in 1..n : owed[i].seq = owed[1].seq
    /\ rcv' = Append(rcv, SubSeq(owed, 1, n))
    /\ owed' = SubSeq(owed, n + 1, Len(owed))
    /\ UNCHANGED <<seq, kind, got, told, overrun, answer, waited, total>>

\* The next message does not fit the receive buffer and is dropped.
Drop ==
    /\ owed # <<>>
    /\ owed' = Tail(owed)
    /\ overrun' = TRUE
    /\ UNCHANGED <<seq, kind, got, told, rcv, answer, waited, total>>

Kernel == Drop \/ \E n \in 1..3 : Deliver(n)

Client ==
    \/ Receive \/ ReceiveFails \/ ReceiveTruncated
    \/ PollInterrupted \/ Tick \/ PollTimesOut

Next == Client \/ Kernel \/ SendFails \/ \E k \in Kinds : Call(k)

Spec == Init /\ [][Next]_vars

\* Time passes, and a call that can go on does.
FairSpec == Spec /\ WF_vars(Receive \/ ReceiveFails) /\ WF_vars(Tick \/ PollTimesOut)

-----------------------------------------------------------------------------
(* Properties *)

Messages == [seq : 0..(SeqRange - 1), type : {"ack", "err", "data", "done"}]

\* Types; a call never reads more payload messages than the largest answer has.
TypeOK ==
    /\ seq \in 0..(SeqRange - 1)
    /\ kind \in Kinds \cup {"none"}
    /\ got \in 0..2
    /\ told \in Outcomes \cup {Unknown}
    /\ owed \in Seq(Messages)
    /\ rcv \in Seq(Seq(Messages))
    /\ overrun \in BOOLEAN
    /\ answer \in Outcomes \cup {Unknown}
    /\ waited \in 0..Timeout
    /\ total \in 0..(Timeout + 1)

Stale(d) == \A i \in DOMAIN d : d[i].seq # Expected

\* The datagram holds the messages m + 1 .. n of answer a to the call under way.
Carries(d, a, m, n) ==
    /\ n = m + Len(d)
    /\ \A i \in DOMAIN d : d[i].seq = Expected /\ d[i].type = a[m + i]

\* The call has read at[1] messages of answer a, the datagrams continue with it
\* from there, and what the kernel owes after the first e messages is the rest.
Continues(a, at, e) ==
    /\ at[1] = got
    /\ \A j \in DOMAIN rcv : \/ Carries(rcv[j], a, at[j], at[j + 1])
                             \/ Stale(rcv[j]) /\ at[j + 1] = at[j]
    /\ at[Len(rcv) + 1] + Len(owed) - e = Len(a)
    /\ \A i \in 1..e : owed[i].seq # Expected
    /\ \A i \in (e + 1)..Len(owed) : /\ owed[i].seq = Expected
                                     /\ owed[i].type = a[Len(a) - Len(owed) + i]

\* As long as nothing was dropped, what the call has read, what is in the buffer
\* with its number and what the kernel still owes make up the answer, in order
\* and without a gap, in between what is left of the answers to earlier requests.
InOrder ==
    kind # "none" /\ ~overrun =>
        \E a \in Answers(kind) :
            /\ answer = OutcomeOf(kind, a)
            /\ \E at \in [1..(Len(rcv) + 1) -> 0..Len(a)], e \in 0..Len(owed) :
                 Continues(a, at, e)

\* The types, and where the answer to the call under way is: what a call may
\* rely on at every moment, and why what it tells is right.
Inv == TypeOK /\ InOrder

\* README: the netlink receive timeout is per request.
TimeoutPerRequest == total <= Timeout

\* What a call tells is the whole answer to its own request or nothing, whatever
\* timed out, was dropped or was interrupted before: the calls are those of
\* RequestReply.
RR == INSTANCE RequestReply WITH asking <- kind # "none"

AnswersOwnRequest == RR!Spec

\* A call returns although each skipped datagram starts its timeout anew, and
\* also when the message that would end it never comes.
EveryCallReturns == kind # "none" ~> kind = "none"
=============================================================================
