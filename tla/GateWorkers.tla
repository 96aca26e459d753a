----------------------------- MODULE GateWorkers -----------------------------
(***************************************************************************)
(* The netlink workers of race mode and the gate actions they fight over   *)
(* (src/race.c): each goes round its loop, one request after the other,    *)
(* all of them on the live index but the junk of the invalid worker, which *)
(* goes to scratch indices above it.                                       *)
(*                                                                         *)
(* A request is atomic in the kernel, which serialises them.  The barriers *)
(* of the pairs only restrict who goes when, so they are left out: the     *)
(* requests come in any order.  Of a reply the model keeps whether it      *)
(* carries an extack text; of a schedule, which one it is.                 *)
(***************************************************************************)
EXTENDS Integers, GateKernel

CONSTANTS
    Schedules,     \* the entry lists race_fill_entries makes
    Junk,          \* what a kernel makes of a malformed request it accepts
    IndexRange,    \* 2^32
    ScratchOffset, \* 0x10000
    Cases,         \* RACE_INVALID_CASES
    Index          \* cfg->index

ASSUME ContentsAssumption ==
    Absent \notin Schedules /\ Junk \notin Schedules /\ Absent # Junk
ASSUME CasesAssumption == Cases \in Nat \ {0}
ASSUME IndexAssumption ==
    /\ IndexRange \in Nat /\ ScratchOffset \in Nat \ {0}
    /\ ScratchOffset + Cases < IndexRange
    /\ Index \in 0..IndexRange - 1

Indices == 0..IndexRange - 1
Fetchers == {"basetime", "invalid"}
Buffered == {"replace", "get", "delete", "basetime", "invalid"}
Workers == Buffered \cup {"dump"}

VARIABLES
    table,    \* the gate action at each index
    pc,       \* where each worker is in its loop
    fetched,  \* the schedule a worker is about to send back
    odd,      \* the invalid worker has done an odd number of turns
    which,    \* the case of its junk under way
    resp,     \* what the response buffer of each worker that has one holds
    late,     \* the workers that may still read a reply they have given up waiting for
    event,    \* what the last turn put into the error counters
    spoiled   \* history: the indices whose worker failed to put them right last time

vars == <<table, pc, fetched, odd, which, resp, late, event, spoiled>>

\* All but the buffers and what is counted from them: no step depends on those, so a
\* run that is not about them takes states that differ in nothing else for one.
Requests == <<table, pc, fetched, odd, which, spoiled>>

\* Whether the last turn counted an error; whether it counted an extack text with
\* it, and whether that text was of the reply to the failed request.
NoEvent == [error |-> FALSE, text |-> FALSE, own |-> FALSE]

InvalidBaseAtLive == Index

\* The scratch indices start above the live one, or at it when that wraps; the
\* index of a case is computed in 32 bits again.
InvalidBase ==
    LET base == (Index + ScratchOffset) % IndexRange
    IN  IF base < Index THEN Index ELSE base

Scratch(c) == (InvalidBase + c) % IndexRange

JunkIndexLive == Index

\* The scratch index of the case under way.
JunkIndex == Scratch(which)

\* Above this the junk of the first case goes to the live index.
NoWrap == Index + ScratchOffset < IndexRange

\* A message with an extack text, or another one.
Buffer == {"text", "plain"}

\* Indices above ours belong to nobody else.  No reply has been received yet: the
\* buffers are not initialised, but there is no extack text for them to hold.
Init ==
    /\ \E act \in {Absent} \cup Schedules :
         table = [i \in Indices |-> IF i = Index THEN act ELSE Absent]
    /\ pc = [w \in Workers |-> "top"]
    /\ fetched = [w \in Fetchers |-> Absent]
    /\ odd = FALSE
    /\ which = 0
    /\ resp = [w \in Buffered |-> "plain"]
    /\ late = {}
    /\ event = NoEvent
    /\ spoiled = IF table[Index] = Absent THEN {Index} ELSE {}

-----------------------------------------------------------------------------
(* Requests, replies and the error counters *)

\* The buffer after a request: the reply to it, which has a text or not when it is
\* an error; or, without one, what it held, or a late reply to another request that
\* was read and skipped.
Buffers(w, ret) ==
    CASE ret = "ok"      -> {"plain"}
      [] ret = "unsent"  -> {resp[w]}
      [] ret = "timeout" -> {resp[w]} \cup IF w \in late THEN Buffer ELSE {}
      [] OTHER           -> Buffer

\* Replies come in the order of the requests, on the one socket of the worker.
LateAfter(w, ret) ==
    CASE ret = "unsent"  -> late
      [] ret = "timeout" -> late \cup {w}
      [] OTHER           -> late \ {w}

\* race_record_err: an error without a look at the buffer.
CountError == event' = [error |-> TRUE, text |-> FALSE, own |-> FALSE]

\* race_record_nl_error, which parses the buffer whatever the error is.
CountReply(w, own) ==
    LET text == resp'[w] = "text"
    IN  event' = [error |-> TRUE, text |-> text, own |-> text /\ own]

Answered(ret) == ret \notin {"unsent", "timeout"}

\* How a loop treats the end of a request whose reply is in the buffer of w.
CountUnless(tolerated, w, ret) ==
    IF ret \in {"ok"} \cup tolerated
      THEN event' = NoEvent
      ELSE CountReply(w, Answered(ret))

\* The request of w about index i that ended as end, its reply in the buffer of w.
Exchange(w, i, end) ==
    /\ table' = [table EXCEPT ![i] = end.gate]
    /\ \E buffer \in Buffers(w, end.ret) : resp' = [resp EXCEPT ![w] = buffer]
    /\ late' = LateAfter(w, end.ret)

Ends(i, done) == Fates(table[i], done)

Goto(w, place) == pc' = [pc EXCEPT ![w] = place]

-----------------------------------------------------------------------------
(* race_replace_thread, race_get_thread, race_dump_thread *)

ReplaceLive ==
    /\ \E s \in Schedules : \E end \in Ends(Index, Replace(table[Index], s)) :
         /\ Exchange("replace", Index, end)
         /\ CountUnless({"EEXIST", "ENOENT"}, "replace", end.ret)
    /\ UNCHANGED <<pc, fetched, odd, which, spoiled>>

GetLive ==
    /\ \E end \in Ends(Index, Read(table[Index])) :
         /\ Exchange("get", Index, end)
         /\ \/ CountUnless({"ENOENT"}, "get", end.ret)
            \/ end.ret = "ok" /\ CountError   \* gb_nl_gate_parse
    /\ UNCHANGED <<pc, fetched, odd, which, spoiled>>

\* gb_nl_dump_action has buffers of its own, and finds nothing an answer too.
DumpLive ==
    /\ \E ret \in {"ok", "refused", "unsent", "timeout"} :
         IF ret = "ok" THEN event' = NoEvent ELSE CountError
    /\ UNCHANGED <<table, pc, fetched, odd, which, resp, late, spoiled>>

-----------------------------------------------------------------------------
(* race_delete_thread: the delete in the race, the create after it *)

DeleteLive ==
    /\ pc["delete"] = "top"
    /\ \E end \in Ends(Index, Delete(table[Index])) :
         /\ Exchange("delete", Index, end)
         /\ CountUnless({"ENOENT"}, "delete", end.ret)
    /\ Goto("delete", "deleted")
    /\ UNCHANGED <<fetched, odd, which, spoiled>>

CreateLive ==
    /\ pc["delete"] = "deleted"
    /\ \E s \in Schedules : \E end \in Ends(Index, Create(table[Index], s)) :
         /\ Exchange("delete", Index, end)
         /\ CountUnless({"EEXIST"}, "delete", end.ret)
         /\ spoiled' = IF end.ret \in {"ok", "EEXIST"} THEN spoiled \ {Index}
                                                     ELSE spoiled \cup {Index}
    /\ Goto("delete", "top")
    /\ UNCHANGED <<fetched, odd, which>>

-----------------------------------------------------------------------------
(* race_basetime_thread, and race_send_timerstart_replace_live of the       *)
(* invalid worker: fetch the live schedule, send it back with another base  *)
(* time.                                                                    *)

MayFetch(w) == pc[w] = "top" /\ (w = "invalid" => ~odd)

\* gb_nl_get_action has buffers of its own; an error of it is counted by the
\* basetime worker as it is, by the invalid worker with the text of its buffer.
Fetch(w) ==
    /\ MayFetch(w)
    /\ UNCHANGED <<table, which, resp, spoiled>>
    /\ \E end \in Ends(Index, Read(table[Index])) :
         /\ late' = LateAfter(w, end.ret)
         /\ IF end.ret = "ok"
              THEN /\ fetched' = [fetched EXCEPT ![w] = end.gate]
                   /\ Goto(w, "fetched")
                   /\ event' = NoEvent
                   /\ UNCHANGED odd
              ELSE /\ odd' = (odd \/ w = "invalid")
                   /\ UNCHANGED <<fetched, pc>>
                   /\ CASE end.ret = "ENOENT" -> event' = NoEvent
                        [] end.ret # "ENOENT" /\ w = "basetime" -> CountError
                        [] OTHER -> CountReply(w, FALSE)

\* race_send_basetime_update
SendBack(w) ==
    /\ pc[w] = "fetched"
    /\ \E end \in Ends(Index, Replace(table[Index], fetched[w])) :
         /\ Exchange(w, Index, end)
         /\ CountUnless({"ENOENT"}, w, end.ret)
    /\ fetched' = [fetched EXCEPT ![w] = Absent]
    /\ odd' = (odd \/ w = "invalid")
    /\ Goto(w, "top")
    /\ UNCHANGED <<which, spoiled>>

-----------------------------------------------------------------------------
(* race_invalid_thread, every other turn: junk, which it deletes again *)

JunkCasesOneMore == 0..Cases
JunkCases == 0..Cases - 1

\* The creates with one attribute of a wrong size or value, which the kernel
\* should refuse; the last case, race_send_bad_interval, starts with one in order.
JunkEnds(i) == Ends(i, Create(table[i], Junk))

\* race_send_bad_interval goes on to a replace with a bad interval.
GoesOn(c, end) == c = Cases - 1 /\ end.ret \in {"ok", "EEXIST"}

AfterJunkIfMade(c, end) ==
    IF GoesOn(c, end) THEN "replace" ELSE IF end.ret = "ok" THEN "remove" ELSE "top"

AfterJunk(c, end) == IF GoesOn(c, end) THEN "replace" ELSE "remove"

SendJunk ==
    /\ pc["invalid"] = "top" /\ odd
    /\ \E c \in JunkCases : \E end \in JunkEnds(Scratch(c)) :
         /\ which' = c
         /\ Exchange("invalid", Scratch(c), end)
         /\ IF GoesOn(c, end) THEN event' = NoEvent ELSE CountUnless({}, "invalid", end.ret)
         /\ Goto("invalid", AfterJunk(c, end))
    /\ UNCHANGED <<fetched, odd, spoiled>>

ReplaceJunk ==
    /\ pc["invalid"] = "replace"
    /\ \E end \in Ends(JunkIndex, Replace(table[JunkIndex], Junk)) :
         /\ Exchange("invalid", JunkIndex, end)
         /\ CountUnless({}, "invalid", end.ret)
    /\ Goto("invalid", "remove")
    /\ UNCHANGED <<fetched, odd, which, spoiled>>

\* The result of this delete is not looked at.
RemoveJunk ==
    /\ pc["invalid"] = "remove"
    /\ \E end \in Ends(JunkIndex, Delete(table[JunkIndex])) :
         /\ Exchange("invalid", JunkIndex, end)
         /\ spoiled' = IF end.ret \in {"ok", "ENOENT"} THEN spoiled \ {JunkIndex}
                                                       ELSE spoiled \cup {JunkIndex}
    /\ event' = NoEvent
    /\ odd' = FALSE
    /\ which' = 0
    /\ Goto("invalid", "top")
    /\ UNCHANGED fetched

-----------------------------------------------------------------------------

\* A worker leaves at the top of its loop; the one of the next phase has a new
\* socket and a new buffer, which may be the memory of one that was freed, and goes
\* on with the count of turns.
NextPhase(w) ==
    /\ pc[w] = "top"
    /\ \E buffer \in {"plain"} \cup {resp[v] : v \in Buffered} :
         resp' = [resp EXCEPT ![w] = buffer]
    /\ late' = late \ {w}
    /\ event' = NoEvent
    /\ UNCHANGED <<table, pc, fetched, odd, which, spoiled>>

Next ==
    \/ ReplaceLive \/ GetLive \/ DumpLive
    \/ DeleteLive \/ CreateLive
    \/ \E w \in Fetchers : Fetch(w) \/ SendBack(w)
    \/ SendJunk \/ ReplaceJunk \/ RemoveJunk
    \/ \E w \in Buffered : NextPhase(w)

Spec == Init /\ [][Next]_vars

-----------------------------------------------------------------------------
(* Properties *)

Contents == {Absent, Junk} \cup Schedules

TypeOK ==
    /\ table \in [Indices -> Contents]
    /\ pc \in [Workers -> {"top", "deleted", "fetched", "replace", "remove"}]
    /\ fetched \in [Fetchers -> Contents]
    /\ odd \in BOOLEAN
    /\ which \in 0..Cases - 1
    /\ resp \in [Buffered -> Buffer]
    /\ late \subseteq Buffered
    /\ event \in [error : BOOLEAN, text : BOOLEAN, own : BOOLEAN]
    /\ spoiled \subseteq Indices

JunkUnderWay(i) == pc["invalid"] \in {"replace", "remove"} /\ i = Scratch(which)

\* The junk leaves nothing behind, also when the kernel accepts it or when the
\* first of two requests fails: outside the turn that put it there, a scratch
\* index holds no action, unless the delete did not get through.
ScratchClean ==
    NoWrap => \A c \in 0..Cases - 1 :
      Scratch(c) \in spoiled \/ JunkUnderWay(Scratch(c)) \/ table[Scratch(c)] = Absent

\* The live action is one of the schedules the workers send on purpose: neither
\* junk nor what a fetch and a send-back make of junk ever gets to its index.
LiveIsASchedule == NoWrap => table[Index] \in {Absent} \cup Schedules

\* Whatever the order of the workers, the live action is missing only between
\* the delete and the create of the delete worker, unless that create failed:
\* nobody else, the invalid worker least of all, deletes it.
MissingOnlyInWindow ==
    NoWrap /\ table[Index] = Absent => pc["delete"] = "deleted" \/ Index \in spoiled

\* The "extack breakdown" race.c:426 prints for each worker, which README.md:126
\* says to look at ("error/extack breakdown concentration by thread"), is one of the
\* errors: a text that is counted is one the kernel sent with the error counted.
ExtackOfThisError == event.text => event.own
=============================================================================
