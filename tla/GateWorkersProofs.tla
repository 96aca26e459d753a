--------------------------- MODULE GateWorkersProofs ---------------------------
(***************************************************************************)
(* Proofs about the workers of race mode and the gate actions they share,  *)
(* for any schedules, any index, and any number of cases of junk: module   *)
(* GateWorkers.                                                            *)
(***************************************************************************)
EXTENDS GateWorkers, TLAPS

USE ContentsAssumption, CasesAssumption, IndexAssumption

Rets == {"ok", "EEXIST", "ENOENT", "refused", "unsent", "timeout"}

Events == [error : BOOLEAN, text : BOOLEAN, own : BOOLEAN]

\* What a worker is about to send back is a schedule.
FetchedIsASchedule ==
    NoWrap => \A w \in Fetchers : pc[w] = "fetched" => fetched[w] \in Schedules

\* The inductive invariant.
IInv ==
    /\ TypeOK
    /\ FetchedIsASchedule
    /\ ScratchClean
    /\ LiveIsASchedule
    /\ MissingOnlyInWindow

-----------------------------------------------------------------------------
(* Indices *)

LEMMA ModType ==
  ASSUME NEW n \in Nat \ {0}, NEW x \in Nat
  PROVE  x % n \in 0..n - 1
  OBVIOUS

\* Less than twice around, the remainder is at most one turn less.
LEMMA ModOnce ==
  ASSUME NEW n \in Nat \ {0}, NEW x \in Nat, x < 2 * n
  PROVE  x % n = x \/ x % n = x - n
  OBVIOUS

LEMMA LiveIndex == Index \in Indices /\ IndexRange \in Nat \ {0}
  BY DEF Indices

LEMMA ScratchIndex ==
  ASSUME NEW c \in 0..Cases - 1
  PROVE  Scratch(c) \in Indices
<1>1. InvalidBase \in Nat
  <2>1. (Index + ScratchOffset) % IndexRange \in 0..IndexRange - 1
    BY ModType
  <2> QED BY <2>1 DEF InvalidBase
<1>2. InvalidBase + c \in Nat
  BY <1>1
<1> QED BY <1>2, ModType DEF Scratch, Indices

\* The junk never goes to the live index: a case would have to be a whole turn
\* above it.
LEMMA ScratchIsNotLive ==
  ASSUME NoWrap, NEW c \in 0..Cases - 1
  PROVE  Scratch(c) # Index
<1>1. InvalidBase = Index + ScratchOffset
  <2> DEFINE base == Index + ScratchOffset
  <2>1. base \in Nat /\ base < IndexRange /\ base < 2 * IndexRange /\ ~(base < Index)
    BY DEF NoWrap
  <2>2. InvalidBase = IF base % IndexRange < Index THEN Index ELSE base % IndexRange
    BY DEF InvalidBase
  <2> HIDE DEF base
  <2>3. base % IndexRange = base \/ base % IndexRange = base - IndexRange
    BY <2>1, LiveIndex, ModOnce
  <2>4. base % IndexRange \in 0..IndexRange - 1
    BY <2>1, LiveIndex, ModType
  <2>5. base % IndexRange = base
    BY <2>1, <2>3, <2>4
  <2> QED BY <2>1, <2>2, <2>5 DEF base
<1> DEFINE x == Index + ScratchOffset + c
<1>2. x \in Nat /\ x < 2 * IndexRange /\ x > Index /\ x - IndexRange < Index
  BY DEF NoWrap
<1>3. Scratch(c) = x % IndexRange
  BY <1>1 DEF Scratch
<1> HIDE DEF x
<1>4. x % IndexRange = x \/ x % IndexRange = x - IndexRange
  BY <1>2, LiveIndex, ModOnce
<1> QED BY <1>2, <1>3, <1>4

-----------------------------------------------------------------------------
(* Requests *)

\* A request ends with what it did and its answer, or with neither refused nor
\* unanswered anything else than the action as it was or as it would have been.
LEMMA EndOf ==
  ASSUME NEW act, NEW done, NEW end \in Fates(act, done),
         done.ret \in {"ok", "EEXIST", "ENOENT"}
  PROVE  /\ end.ret \in {"ok", "EEXIST", "ENOENT", "refused", "unsent", "timeout"}
         /\ end.gate \in {act, done.gate}
         /\ end.ret \in {"ok", "EEXIST", "ENOENT"} => end.gate = done.gate /\ end.ret = done.ret
<1>1. CASE end = done
  BY <1>1
<1>2. CASE end = Refused(act)
  BY <1>2 DEF Refused
<1>3. CASE end = [ret |-> "unsent", gate |-> act]
  BY <1>3
<1>4. ASSUME NEW g \in {act, done.gate}, end = [ret |-> "timeout", gate |-> g]
      PROVE  end.ret = "timeout" /\ end.gate \in {act, done.gate}
  BY <1>4
<1> QED BY <1>1, <1>2, <1>3, <1>4 DEF Fates

LEMMA CreateDone ==
  ASSUME NEW act, NEW new
  PROVE  /\ Create(act, new).ret \in {"ok", "EEXIST"}
         /\ Create(act, new).gate = IF act = Absent THEN new ELSE act
  BY DEF Create

LEMMA ReplaceDone ==
  ASSUME NEW act, NEW new
  PROVE  Replace(act, new).ret = "ok" /\ Replace(act, new).gate = new
  BY DEF Replace

LEMMA DeleteDone ==
  ASSUME NEW act
  PROVE  Delete(act).ret \in {"ok", "ENOENT"} /\ Delete(act).gate = Absent
  BY DEF Delete

LEMMA ReadDone ==
  ASSUME NEW act
  PROVE  /\ Read(act).ret \in {"ok", "ENOENT"}
         /\ Read(act).ret = "ok" => act # Absent
         /\ Read(act).gate = act
  BY DEF Read

-----------------------------------------------------------------------------
(* Replies and counters *)

LEMMA CountTypes ==
  /\ event' = NoEvent => event' \in Events
  /\ CountError => event' \in Events
  /\ \A w \in Buffered : \A own \in BOOLEAN : CountReply(w, own) => event' \in Events
  /\ \A w \in Buffered : \A tolerated, ret : CountUnless(tolerated, w, ret) => event' \in Events
<1>1. event' = NoEvent => event' \in Events
  BY DEF NoEvent, Events
<1>2. CountError => event' \in Events
  BY DEF CountError, Events
<1>3. ASSUME NEW w \in Buffered, NEW own \in BOOLEAN, CountReply(w, own)
      PROVE  event' \in Events
  <2>1. /\ (resp'[w] = "text") \in BOOLEAN
        /\ (resp'[w] = "text" /\ own) \in BOOLEAN
    BY Zenon
  <2>2. event' = [error |-> TRUE, text |-> (resp'[w] = "text"), own |-> (resp'[w] = "text" /\ own)]
    BY <1>3, Zenon DEF CountReply
  <2>3. ASSUME NEW text \in BOOLEAN, NEW mine \in BOOLEAN
        PROVE  [error |-> TRUE, text |-> text, own |-> mine] \in Events
    BY DEF Events
  <2> QED BY <2>1, <2>2, <2>3, Zenon
<1>4. \A ret : Answered(ret) \in BOOLEAN
  BY Zenon DEF Answered
<1>5. \A w \in Buffered : \A tolerated, ret : CountUnless(tolerated, w, ret) => event' \in Events
  BY <1>1, <1>3, <1>4, Zenon DEF CountUnless
<1> QED BY <1>1, <1>2, <1>3, <1>5, Zenon

LEMMA LateTypes ==
  ASSUME late \subseteq Buffered, NEW w \in Buffered, NEW ret
  PROVE  LateAfter(w, ret) \subseteq Buffered
  BY DEF LateAfter

LEMMA BufferTypes ==
  ASSUME resp \in [Buffered -> Buffer], NEW w \in Buffered, NEW i, NEW end, Exchange(w, i, end)
  PROVE  resp' \in [Buffered -> Buffer]
<1>1. PICK buffer \in Buffers(w, end.ret) : resp' = [resp EXCEPT ![w] = buffer]
  BY DEF Exchange
<1>2. buffer \in Buffer
  BY DEF Buffers, Buffer
<1> QED BY <1>1, <1>2

-----------------------------------------------------------------------------
(* What a request changes: the live action, or one scratch index. *)

\* A request about the live action leaves the scratch indices as they are.
LEMMA LiveKeepsScratch ==
  ASSUME TypeOK, ScratchClean, NEW g, table' = [table EXCEPT ![Index] = g],
         which' = which,
         pc["invalid"] \in {"replace", "remove"} <=> pc'["invalid"] \in {"replace", "remove"},
         \A i \in Indices : i # Index => (i \in spoiled' <=> i \in spoiled)
  PROVE  ScratchClean'
<1> SUFFICES ASSUME NoWrap, NEW c \in 0..Cases - 1
             PROVE  \/ Scratch(c) \in spoiled'
                    \/ JunkUnderWay(Scratch(c))'
                    \/ table'[Scratch(c)] = Absent
  BY DEF ScratchClean, NoWrap, Scratch, InvalidBase
<1>1. Scratch(c) \in Indices /\ Scratch(c) # Index
  BY ScratchIndex, ScratchIsNotLive
<1>2. table'[Scratch(c)] = table[Scratch(c)]
  BY <1>1 DEF TypeOK
<1>3. JunkUnderWay(Scratch(c)) <=> JunkUnderWay(Scratch(c))'
  BY DEF JunkUnderWay, Scratch, InvalidBase
<1>4. Scratch(c) \in spoiled \/ JunkUnderWay(Scratch(c)) \/ table[Scratch(c)] = Absent
  BY DEF ScratchClean
<1> QED BY <1>1, <1>2, <1>3, <1>4

\* A request about a scratch index leaves the live action as it is.
LEMMA JunkKeepsLive ==
  ASSUME TypeOK, LiveIsASchedule, MissingOnlyInWindow, FetchedIsASchedule,
         NEW c \in 0..Cases - 1, NEW g, table' = [table EXCEPT ![Scratch(c)] = g],
         fetched' = fetched, pc'["delete"] = pc["delete"],
         \A w \in Fetchers : pc'[w] = "fetched" => pc[w] = "fetched",
         NoWrap => (Index \in spoiled' <=> Index \in spoiled)
  PROVE  LiveIsASchedule' /\ MissingOnlyInWindow' /\ FetchedIsASchedule'
<1>1. NoWrap => table'[Index] = table[Index]
  BY ScratchIsNotLive, LiveIndex DEF TypeOK
<1>2. LiveIsASchedule'
  BY <1>1 DEF LiveIsASchedule, NoWrap
<1>3. MissingOnlyInWindow'
  BY <1>1 DEF MissingOnlyInWindow, NoWrap
<1>4. FetchedIsASchedule'
  BY DEF FetchedIsASchedule, NoWrap
<1> QED BY <1>2, <1>3, <1>4

\* The types of everything a request about index i may change.
LEMMA RequestTypes ==
  ASSUME TypeOK, NEW w \in Buffered, NEW i \in Indices, NEW end, Exchange(w, i, end),
         end.gate \in Contents
  PROVE  /\ table' = [table EXCEPT ![i] = end.gate]
         /\ table' \in [Indices -> Contents]
         /\ table'[i] = end.gate
         /\ resp' \in [Buffered -> Buffer]
         /\ late' \subseteq Buffered
<1>1. table' = [table EXCEPT ![i] = end.gate] /\ late' = LateAfter(w, end.ret)
  BY DEF Exchange
<1>2. resp' \in [Buffered -> Buffer] /\ late' \subseteq Buffered
  BY <1>1, BufferTypes, LateTypes DEF TypeOK
<1> QED BY <1>1, <1>2 DEF TypeOK

-----------------------------------------------------------------------------
(* The steps *)

LEMMA InitIInv == Init => IInv
<1> SUFFICES ASSUME Init PROVE IInv
  OBVIOUS
<1>1. PICK act \in {Absent} \cup Schedules :
        table = [i \in Indices |-> IF i = Index THEN act ELSE Absent]
  BY DEF Init
<1>2. TypeOK
  <2>1. odd \in BOOLEAN
    BY Zenon DEF Init
  <2>2. event \in Events
    BY DEF Init, NoEvent, Events
  <2>3. table \in [Indices -> Contents]
    BY <1>1 DEF Contents
  <2>4. /\ pc \in [Workers -> {"top", "deleted", "fetched", "replace", "remove"}]
        /\ fetched \in [Fetchers -> Contents]
        /\ which \in 0..Cases - 1
        /\ resp \in [Buffered -> Buffer]
        /\ late \subseteq Buffered
        /\ spoiled \subseteq Indices
    BY LiveIndex DEF Init, Contents, Buffer
  <2> QED BY <2>1, <2>2, <2>3, <2>4 DEF TypeOK, Events
<1>3. FetchedIsASchedule
  BY DEF Init, FetchedIsASchedule, Fetchers, Workers, Buffered
<1>4. ScratchClean
  BY <1>1, ScratchIndex, ScratchIsNotLive DEF ScratchClean
<1>5. LiveIsASchedule /\ MissingOnlyInWindow
  BY <1>1, LiveIndex DEF Init, LiveIsASchedule, MissingOnlyInWindow
<1> QED BY <1>2, <1>3, <1>4, <1>5 DEF IInv

LEMMA ReplaceLiveKeeps == IInv /\ ReplaceLive => IInv'
<1> SUFFICES ASSUME IInv, ReplaceLive PROVE IInv'
  OBVIOUS
<1>0. PICK s \in Schedules : \E end \in Ends(Index, Replace(table[Index], s)) :
        /\ Exchange("replace", Index, end)
        /\ CountUnless({"EEXIST", "ENOENT"}, "replace", end.ret)
  BY DEF ReplaceLive
<1>1. PICK end \in Ends(Index, Replace(table[Index], s)) :
        /\ Exchange("replace", Index, end)
        /\ CountUnless({"EEXIST", "ENOENT"}, "replace", end.ret)
  BY <1>0
<1>2. UNCHANGED <<pc, fetched, odd, which, spoiled>>
  BY DEF ReplaceLive
<1>3. end.ret \in Rets /\ end.gate \in {table[Index], s}
  BY <1>1, EndOf, ReplaceDone DEF Ends, Rets
<1>4. end.gate \in Contents
  BY <1>3, LiveIndex DEF IInv, TypeOK, Contents
<1>5. /\ table' = [table EXCEPT ![Index] = end.gate]
      /\ table' \in [Indices -> Contents] /\ table'[Index] = end.gate
      /\ resp' \in [Buffered -> Buffer] /\ late' \subseteq Buffered
  BY <1>1, <1>4, LiveIndex, RequestTypes DEF IInv, Buffered
<1>6. TypeOK'
  <2>1. event' \in Events
    BY <1>1, CountTypes DEF Buffered
  <2> QED BY <1>2, <1>5, <2>1 DEF IInv, TypeOK, Events, Contents
<1>7. FetchedIsASchedule'
  BY <1>2 DEF IInv, FetchedIsASchedule, NoWrap
<1>8. ScratchClean'
  BY <1>2, <1>5, LiveKeepsScratch DEF IInv
<1>9. LiveIsASchedule' /\ MissingOnlyInWindow'
  BY <1>2, <1>3, <1>5 DEF IInv, LiveIsASchedule, MissingOnlyInWindow, NoWrap
<1> QED BY <1>6, <1>7, <1>8, <1>9 DEF IInv

LEMMA GetLiveKeeps == IInv /\ GetLive => IInv'
<1> SUFFICES ASSUME IInv, GetLive PROVE IInv'
  OBVIOUS
<1>1. PICK end \in Ends(Index, Read(table[Index])) :
        /\ Exchange("get", Index, end)
        /\ \/ CountUnless({"ENOENT"}, "get", end.ret)
           \/ end.ret = "ok" /\ CountError
  BY DEF GetLive
<1>2. UNCHANGED <<pc, fetched, odd, which, spoiled>>
  BY DEF GetLive
<1>3. end.ret \in Rets /\ end.gate = table[Index]
  BY <1>1, EndOf, ReadDone DEF Ends, Rets
<1>4. end.gate \in Contents
  BY <1>3, LiveIndex DEF IInv, TypeOK
<1>5. /\ table' = [table EXCEPT ![Index] = end.gate]
      /\ table' \in [Indices -> Contents] /\ table'[Index] = end.gate
      /\ resp' \in [Buffered -> Buffer] /\ late' \subseteq Buffered
  BY <1>1, <1>4, LiveIndex, RequestTypes DEF IInv, Buffered
<1>6. TypeOK'
  <2>1. event' \in Events
    BY <1>1, CountTypes DEF Buffered
  <2> QED BY <1>2, <1>5, <2>1 DEF IInv, TypeOK, Events, Contents
<1>7. FetchedIsASchedule'
  BY <1>2 DEF IInv, FetchedIsASchedule, NoWrap
<1>8. ScratchClean'
  BY <1>2, <1>5, LiveKeepsScratch DEF IInv
<1>9. LiveIsASchedule' /\ MissingOnlyInWindow'
  BY <1>2, <1>3, <1>5 DEF IInv, LiveIsASchedule, MissingOnlyInWindow, NoWrap
<1> QED BY <1>6, <1>7, <1>8, <1>9 DEF IInv

LEMMA DumpLiveKeeps == IInv /\ DumpLive => IInv'
<1> SUFFICES ASSUME IInv, DumpLive PROVE IInv'
  OBVIOUS
<1>1. PICK ret \in {"ok", "refused", "unsent", "timeout"} :
        IF ret = "ok" THEN event' = NoEvent ELSE CountError
  BY DEF DumpLive
<1>2. UNCHANGED <<table, pc, fetched, odd, which, resp, late, spoiled>>
  BY DEF DumpLive
<1>3. event' \in Events
  BY <1>1, CountTypes
<1>4. TypeOK'
  BY <1>2, <1>3 DEF IInv, TypeOK, Events, Contents
<1>5. FetchedIsASchedule' /\ LiveIsASchedule' /\ MissingOnlyInWindow'
  BY <1>2 DEF IInv, FetchedIsASchedule, LiveIsASchedule, MissingOnlyInWindow, NoWrap
<1>6. ScratchClean'
  BY <1>2 DEF IInv, ScratchClean, JunkUnderWay, NoWrap, Scratch, InvalidBase
<1> QED BY <1>4, <1>5, <1>6 DEF IInv

LEMMA DeleteLiveKeeps == IInv /\ DeleteLive => IInv'
<1> SUFFICES ASSUME IInv, DeleteLive PROVE IInv'
  OBVIOUS
<1>1. PICK end \in Ends(Index, Delete(table[Index])) :
        /\ Exchange("delete", Index, end)
        /\ CountUnless({"ENOENT"}, "delete", end.ret)
  BY DEF DeleteLive
<1>2. UNCHANGED <<fetched, odd, which, spoiled>> /\ pc' = [pc EXCEPT !["delete"] = "deleted"]
  BY DEF DeleteLive, Goto
<1>3. end.ret \in Rets /\ end.gate \in {table[Index], Absent}
  BY <1>1, EndOf, DeleteDone DEF Ends, Rets
<1>4. end.gate \in Contents
  BY <1>3, LiveIndex DEF IInv, TypeOK, Contents
<1>5. /\ table' = [table EXCEPT ![Index] = end.gate]
      /\ table' \in [Indices -> Contents] /\ table'[Index] = end.gate
      /\ resp' \in [Buffered -> Buffer] /\ late' \subseteq Buffered
  BY <1>1, <1>4, LiveIndex, RequestTypes DEF IInv, Buffered
<1>6. /\ pc' \in [Workers -> {"top", "deleted", "fetched", "replace", "remove"}]
      /\ pc'["delete"] = "deleted"
      /\ \A w \in Workers \ {"delete"} : pc'[w] = pc[w]
  BY <1>2 DEF IInv, TypeOK, Workers, Buffered
<1>7. TypeOK'
  <2>1. event' \in Events
    BY <1>1, CountTypes DEF Buffered
  <2> QED BY <1>2, <1>5, <1>6, <2>1 DEF IInv, TypeOK, Events, Contents
<1>8. FetchedIsASchedule'
  BY <1>2, <1>6 DEF IInv, FetchedIsASchedule, NoWrap, Fetchers, Workers, Buffered
<1>9. ScratchClean'
  BY <1>2, <1>5, <1>6, LiveKeepsScratch DEF IInv, Workers, Buffered
<1>10. LiveIsASchedule' /\ MissingOnlyInWindow'
  BY <1>3, <1>5, <1>6 DEF IInv, LiveIsASchedule, MissingOnlyInWindow, NoWrap
<1> QED BY <1>7, <1>8, <1>9, <1>10 DEF IInv

\* Either the create makes an action or finds one, or the index is spoiled.
LEMMA CreateLiveKeeps == IInv /\ CreateLive => IInv'
<1> SUFFICES ASSUME IInv, CreateLive PROVE IInv'
  OBVIOUS
<1>0. PICK s \in Schedules : \E end \in Ends(Index, Create(table[Index], s)) :
        /\ Exchange("delete", Index, end)
        /\ CountUnless({"EEXIST"}, "delete", end.ret)
        /\ spoiled' = IF end.ret \in {"ok", "EEXIST"} THEN spoiled \ {Index}
                                                    ELSE spoiled \cup {Index}
  BY DEF CreateLive
<1>1. PICK end \in Ends(Index, Create(table[Index], s)) :
        /\ Exchange("delete", Index, end)
        /\ CountUnless({"EEXIST"}, "delete", end.ret)
        /\ spoiled' = IF end.ret \in {"ok", "EEXIST"} THEN spoiled \ {Index}
                                                    ELSE spoiled \cup {Index}
  BY <1>0
<1>2. UNCHANGED <<fetched, odd, which>> /\ pc' = [pc EXCEPT !["delete"] = "top"]
  BY DEF CreateLive, Goto
<1>3. /\ end.ret \in Rets
      /\ end.gate \in {table[Index], s}
      /\ end.ret \in {"ok", "EEXIST"} => end.gate # Absent
  BY <1>1, EndOf, CreateDone DEF Ends, Rets
<1>4. end.gate \in Contents
  BY <1>3, LiveIndex DEF IInv, TypeOK, Contents
<1>5. /\ table' = [table EXCEPT ![Index] = end.gate]
      /\ table' \in [Indices -> Contents] /\ table'[Index] = end.gate
      /\ resp' \in [Buffered -> Buffer] /\ late' \subseteq Buffered
  BY <1>1, <1>4, LiveIndex, RequestTypes DEF IInv, Buffered
<1>6. /\ pc' \in [Workers -> {"top", "deleted", "fetched", "replace", "remove"}]
      /\ \A w \in Workers \ {"delete"} : pc'[w] = pc[w]
  BY <1>2 DEF IInv, TypeOK, Workers, Buffered
<1>7. TypeOK'
  <2>1. event' \in Events
    BY <1>1, CountTypes DEF Buffered
  <2>2. spoiled' \subseteq Indices
    BY <1>1, LiveIndex DEF IInv, TypeOK
  <2> QED BY <1>2, <1>5, <1>6, <2>1, <2>2 DEF IInv, TypeOK, Events, Contents
<1>8. FetchedIsASchedule'
  BY <1>2, <1>6 DEF IInv, FetchedIsASchedule, NoWrap, Fetchers, Workers, Buffered
<1>9. ScratchClean'
  BY <1>1, <1>2, <1>5, <1>6, LiveKeepsScratch DEF IInv, Workers, Buffered
<1>10. LiveIsASchedule'
  BY <1>3, <1>5 DEF IInv, LiveIsASchedule, NoWrap
<1>11. MissingOnlyInWindow'
  BY <1>1, <1>3, <1>5 DEF MissingOnlyInWindow
<1> QED BY <1>7, <1>8, <1>9, <1>10, <1>11 DEF IInv

\* What is fetched is the live action, which is a schedule.
LEMMA FetchKeeps == ASSUME IInv, NEW w \in Fetchers, Fetch(w) PROVE IInv'
<1>1. PICK end \in Ends(Index, Read(table[Index])) :
        /\ late' = LateAfter(w, end.ret)
        /\ IF end.ret = "ok"
             THEN /\ fetched' = [fetched EXCEPT ![w] = end.gate]
                  /\ Goto(w, "fetched")
                  /\ event' = NoEvent
                  /\ UNCHANGED odd
             ELSE /\ odd' = (odd \/ w = "invalid")
                  /\ UNCHANGED <<fetched, pc>>
                  /\ CASE end.ret = "ENOENT" -> event' = NoEvent
                       [] end.ret # "ENOENT" /\ w = "basetime" -> CountError
                       [] OTHER -> CountReply(w, FALSE)
  BY DEF Fetch
<1>2. UNCHANGED <<table, which, resp, spoiled>> /\ pc[w] = "top"
  BY DEF Fetch, MayFetch
<1>3. /\ end.ret \in Rets
      /\ end.gate = table[Index]
      /\ end.ret = "ok" => table[Index] # Absent
  BY <1>1, EndOf, ReadDone DEF Ends, Rets
<1>4. w \in Workers /\ w \in Buffered /\ w # "delete"
  BY DEF Fetchers, Workers, Buffered
<1>5. event' \in Events
  <2>1. event' = NoEvent \/ CountError \/ CountReply(w, FALSE)
    BY <1>1
  <2> QED BY <1>4, <2>1, CountTypes
<1>6. odd' \in BOOLEAN
  <2>1. odd' = odd \/ odd' = (odd \/ w = "invalid")
    BY <1>1
  <2> QED BY <2>1, Zenon DEF IInv, TypeOK
<1>7. /\ fetched' \in [Fetchers -> Contents]
      /\ late' \subseteq Buffered
      /\ pc' \in [Workers -> {"top", "deleted", "fetched", "replace", "remove"}]
      /\ \A v \in Workers \ {w} : pc'[v] = pc[v]
      /\ pc'[w] \in {"top", "fetched"}
  <2>0. late' \subseteq Buffered
    BY <1>1, <1>4, LateTypes DEF IInv, TypeOK
  <2>1. CASE end.ret = "ok"
    <3>1. /\ fetched' = [fetched EXCEPT ![w] = end.gate]
          /\ pc' = [pc EXCEPT ![w] = "fetched"]
      BY <1>1, <2>1 DEF Goto
    <3>2. end.gate \in Contents
      BY <1>3, LiveIndex DEF IInv, TypeOK
    <3> QED BY <1>4, <2>0, <3>1, <3>2 DEF IInv, TypeOK
  <2>2. CASE end.ret # "ok"
    <3>1. fetched' = fetched /\ pc' = pc
      BY <1>1, <2>2
    <3> QED BY <1>2, <1>4, <2>0, <3>1 DEF IInv, TypeOK
  <2> QED BY <2>1, <2>2
<1>8. TypeOK'
  BY <1>2, <1>5, <1>6, <1>7 DEF IInv, TypeOK, Events, Contents
<1>9. FetchedIsASchedule'
  <2> SUFFICES ASSUME NoWrap, NEW v \in Fetchers, pc'[v] = "fetched"
               PROVE  fetched'[v] \in Schedules
    BY DEF FetchedIsASchedule, NoWrap
  <2>1. CASE v = w
    <3>1. end.ret = "ok"
      BY <1>1, <1>2, <2>1
    <3>2. fetched'[w] = table[Index]
      BY <1>1, <1>3, <3>1 DEF IInv, TypeOK
    <3> QED BY <1>3, <2>1, <3>1, <3>2 DEF IInv, LiveIsASchedule
  <2>2. CASE v # w
    <3>1. v \in Workers /\ pc[v] = "fetched"
      BY <1>7, <2>2 DEF Fetchers, Workers, Buffered
    <3>2. fetched'[v] = fetched[v]
      BY <1>1, <2>2 DEF IInv, TypeOK
    <3> QED BY <3>1, <3>2 DEF IInv, FetchedIsASchedule
  <2> QED BY <2>1, <2>2
<1>10. ScratchClean'
  <2>1. pc["invalid"] \in {"replace", "remove"} <=> pc'["invalid"] \in {"replace", "remove"}
    BY <1>2, <1>7 DEF Workers, Buffered
  <2> QED BY <1>2, <2>1 DEF IInv, ScratchClean, JunkUnderWay, NoWrap, Scratch, InvalidBase
<1>11. LiveIsASchedule' /\ MissingOnlyInWindow'
  <2>1. pc'["delete"] = pc["delete"]
    BY <1>4, <1>7 DEF Workers, Buffered
  <2> QED BY <1>2, <2>1 DEF IInv, LiveIsASchedule, MissingOnlyInWindow, NoWrap
<1> QED BY <1>8, <1>9, <1>10, <1>11 DEF IInv

\* What is sent back is the schedule fetched.
LEMMA SendBackKeeps == ASSUME IInv, NEW w \in Fetchers, SendBack(w) PROVE IInv'
<1>1. PICK end \in Ends(Index, Replace(table[Index], fetched[w])) :
        /\ Exchange(w, Index, end)
        /\ CountUnless({"ENOENT"}, w, end.ret)
  BY DEF SendBack
<1>2. /\ pc[w] = "fetched"
      /\ UNCHANGED <<which, spoiled>>
      /\ fetched' = [fetched EXCEPT ![w] = Absent]
      /\ pc' = [pc EXCEPT ![w] = "top"]
      /\ odd' = (odd \/ w = "invalid")
  BY DEF SendBack, Goto
<1>3. end.ret \in Rets /\ end.gate \in {table[Index], fetched[w]}
  BY <1>1, EndOf, ReplaceDone DEF Ends, Rets
<1>4. NoWrap => fetched[w] \in Schedules
  BY <1>2 DEF IInv, FetchedIsASchedule
<1>5. w \in Workers /\ w \in Buffered /\ w # "delete"
  BY DEF Fetchers, Workers, Buffered
<1>6. end.gate \in Contents
  BY <1>3, LiveIndex DEF IInv, TypeOK
<1>7. /\ table' = [table EXCEPT ![Index] = end.gate]
      /\ table' \in [Indices -> Contents] /\ table'[Index] = end.gate
      /\ resp' \in [Buffered -> Buffer] /\ late' \subseteq Buffered
  BY <1>1, <1>5, <1>6, LiveIndex, RequestTypes DEF IInv
<1>8. /\ pc' \in [Workers -> {"top", "deleted", "fetched", "replace", "remove"}]
      /\ pc'[w] = "top"
      /\ \A v \in Workers \ {w} : pc'[v] = pc[v]
  BY <1>2, <1>5 DEF IInv, TypeOK
<1>9. /\ fetched' \in [Fetchers -> Contents]
      /\ \A v \in Fetchers \ {w} : fetched'[v] = fetched[v]
  BY <1>2 DEF IInv, TypeOK, Contents
<1>10. TypeOK'
  <2>1. event' \in Events
    BY <1>1, <1>5, CountTypes
  <2>2. odd' \in BOOLEAN
    BY <1>2, Zenon
  <2> QED BY <1>2, <1>7, <1>8, <1>9, <2>1, <2>2 DEF IInv, TypeOK, Events, Contents
<1>11. FetchedIsASchedule'
  BY <1>8, <1>9 DEF IInv, FetchedIsASchedule, NoWrap, Fetchers, Workers, Buffered
<1>12. ScratchClean'
  <2>1. pc["invalid"] \in {"replace", "remove"} <=> pc'["invalid"] \in {"replace", "remove"}
    BY <1>2, <1>8 DEF Workers, Buffered
  <2> QED BY <1>2, <1>7, <2>1, LiveKeepsScratch DEF IInv
<1>13. LiveIsASchedule'
  BY <1>3, <1>4, <1>7 DEF IInv, LiveIsASchedule, NoWrap
<1>14. MissingOnlyInWindow'
  <2>1. pc'["delete"] = pc["delete"]
    BY <1>5, <1>8 DEF Workers, Buffered
  <2>2. NoWrap /\ table'[Index] = Absent => table[Index] = Absent
    BY <1>3, <1>4, <1>7, ContentsAssumption
  <2> QED BY <1>2, <2>1, <2>2 DEF IInv, MissingOnlyInWindow, NoWrap
<1> QED BY <1>10, <1>11, <1>12, <1>13, <1>14 DEF IInv

\* The invalid worker alone moves, from one place of its loop to another, and is
\* not about to send anything back.
LEMMA InvalidMoves ==
  ASSUME TypeOK, NEW place \in {"top", "replace", "remove"}, Goto("invalid", place)
  PROVE  /\ pc' \in [Workers -> {"top", "deleted", "fetched", "replace", "remove"}]
         /\ pc'["invalid"] = place
         /\ pc'["delete"] = pc["delete"]
         /\ \A w \in Fetchers : pc'[w] = "fetched" => pc[w] = "fetched"
  BY DEF TypeOK, Goto, Fetchers, Workers, Buffered

\* The junk is under way at the index it went to, which is the only one touched.
LEMMA SendJunkKeeps == IInv /\ SendJunk => IInv'
<1> SUFFICES ASSUME IInv, SendJunk PROVE IInv'
  OBVIOUS
<1>0. PICK c \in JunkCases : \E end \in JunkEnds(Scratch(c)) :
        /\ which' = c
        /\ Exchange("invalid", Scratch(c), end)
        /\ IF GoesOn(c, end) THEN event' = NoEvent ELSE CountUnless({}, "invalid", end.ret)
        /\ Goto("invalid", AfterJunk(c, end))
  BY DEF SendJunk
<1>1. PICK end \in JunkEnds(Scratch(c)) :
        /\ which' = c
        /\ Exchange("invalid", Scratch(c), end)
        /\ IF GoesOn(c, end) THEN event' = NoEvent ELSE CountUnless({}, "invalid", end.ret)
        /\ Goto("invalid", AfterJunk(c, end))
  BY <1>0
<1>2. UNCHANGED <<fetched, odd, spoiled>> /\ pc["invalid"] = "top"
  BY DEF SendJunk
<1>3. c \in 0..Cases - 1 /\ Scratch(c) \in Indices /\ "invalid" \in Buffered /\ "invalid" \in Workers
  BY ScratchIndex DEF JunkCases, Buffered, Workers
<1>4. end.ret \in Rets /\ end.gate \in {table[Scratch(c)], Junk}
  BY <1>1, EndOf, CreateDone DEF JunkEnds, Ends, Rets
<1>5. end.gate \in Contents
  BY <1>3, <1>4 DEF IInv, TypeOK, Contents
<1>6. /\ table' = [table EXCEPT ![Scratch(c)] = end.gate]
      /\ table' \in [Indices -> Contents]
      /\ resp' \in [Buffered -> Buffer] /\ late' \subseteq Buffered
  BY <1>1, <1>3, <1>5, RequestTypes DEF IInv
<1>7. AfterJunk(c, end) \in {"replace", "remove"}
  BY DEF AfterJunk
<1>8. /\ pc' \in [Workers -> {"top", "deleted", "fetched", "replace", "remove"}]
      /\ pc'["invalid"] \in {"replace", "remove"}
      /\ pc'["delete"] = pc["delete"]
      /\ \A w \in Fetchers : pc'[w] = "fetched" => pc[w] = "fetched"
  BY <1>1, <1>7, InvalidMoves DEF IInv
<1>9. TypeOK'
  <2>1. event' \in Events
    BY <1>1, <1>3, CountTypes
  <2>2. which' \in 0..Cases - 1
    BY <1>1, <1>3
  <2> QED BY <1>2, <1>6, <1>8, <2>1, <2>2 DEF IInv, TypeOK, Events, Contents
<1>10. LiveIsASchedule' /\ MissingOnlyInWindow' /\ FetchedIsASchedule'
  BY <1>2, <1>3, <1>6, <1>8, JunkKeepsLive DEF IInv
<1>11. ScratchClean'
  <2> SUFFICES ASSUME NoWrap, NEW d \in 0..Cases - 1, Scratch(d) # Scratch(c)
               PROVE  Scratch(d) \in spoiled' \/ table'[Scratch(d)] = Absent
    BY <1>1, <1>8 DEF ScratchClean, JunkUnderWay, NoWrap, Scratch, InvalidBase
  <2>1. table'[Scratch(d)] = table[Scratch(d)]
    BY <1>6, ScratchIndex DEF IInv, TypeOK
  <2>2. ~JunkUnderWay(Scratch(d))
    BY <1>2 DEF JunkUnderWay
  <2> QED BY <1>2, <2>1, <2>2 DEF IInv, ScratchClean
<1> QED BY <1>9, <1>10, <1>11 DEF IInv

LEMMA ReplaceJunkKeeps == IInv /\ ReplaceJunk => IInv'
<1> SUFFICES ASSUME IInv, ReplaceJunk PROVE IInv'
  OBVIOUS
<1>1. PICK end \in Ends(Scratch(which), Replace(table[Scratch(which)], Junk)) :
        /\ Exchange("invalid", Scratch(which), end)
        /\ CountUnless({}, "invalid", end.ret)
  BY DEF ReplaceJunk, JunkIndex
<1>2. /\ UNCHANGED <<fetched, odd, which, spoiled>>
      /\ pc["invalid"] = "replace"
      /\ Goto("invalid", "remove")
  BY DEF ReplaceJunk
<1>3. /\ which \in 0..Cases - 1 /\ Scratch(which) \in Indices
      /\ "invalid" \in Buffered /\ "invalid" \in Workers
  BY ScratchIndex DEF IInv, TypeOK, Buffered, Workers
<1>4. end.ret \in Rets /\ end.gate \in {table[Scratch(which)], Junk}
  BY <1>1, EndOf, ReplaceDone DEF Ends, Rets
<1>5. end.gate \in Contents
  BY <1>3, <1>4 DEF IInv, TypeOK, Contents
<1>6. /\ table' = [table EXCEPT ![Scratch(which)] = end.gate]
      /\ table' \in [Indices -> Contents]
      /\ resp' \in [Buffered -> Buffer] /\ late' \subseteq Buffered
  BY <1>1, <1>3, <1>5, RequestTypes DEF IInv
<1>7. /\ pc' \in [Workers -> {"top", "deleted", "fetched", "replace", "remove"}]
      /\ pc'["invalid"] = "remove"
      /\ pc'["delete"] = pc["delete"]
      /\ \A w \in Fetchers : pc'[w] = "fetched" => pc[w] = "fetched"
  BY <1>2, InvalidMoves DEF IInv
<1>8. TypeOK'
  <2>1. event' \in Events
    BY <1>1, <1>3, CountTypes
  <2> QED BY <1>2, <1>6, <1>7, <2>1 DEF IInv, TypeOK, Events, Contents
<1>9. LiveIsASchedule' /\ MissingOnlyInWindow' /\ FetchedIsASchedule'
  BY <1>2, <1>3, <1>6, <1>7, JunkKeepsLive DEF IInv
<1>10. ScratchClean'
  <2> SUFFICES ASSUME NoWrap, NEW d \in 0..Cases - 1, Scratch(d) # Scratch(which)
               PROVE  Scratch(d) \in spoiled' \/ table'[Scratch(d)] = Absent
    BY <1>2, <1>7 DEF ScratchClean, JunkUnderWay, NoWrap, Scratch, InvalidBase
  <2>1. table'[Scratch(d)] = table[Scratch(d)]
    BY <1>6, ScratchIndex DEF IInv, TypeOK
  <2> QED BY <1>2, <2>1 DEF IInv, ScratchClean, JunkUnderWay
<1> QED BY <1>8, <1>9, <1>10 DEF IInv

\* After the delete the index is empty, or spoiled.
LEMMA RemoveJunkKeeps == IInv /\ RemoveJunk => IInv'
<1> SUFFICES ASSUME IInv, RemoveJunk PROVE IInv'
  OBVIOUS
<1>1. PICK end \in Ends(Scratch(which), Delete(table[Scratch(which)])) :
        /\ Exchange("invalid", Scratch(which), end)
        /\ spoiled' = IF end.ret \in {"ok", "ENOENT"} THEN spoiled \ {Scratch(which)}
                                                      ELSE spoiled \cup {Scratch(which)}
  BY DEF RemoveJunk, JunkIndex
<1>2. /\ fetched' = fetched /\ odd' = FALSE /\ which' = 0 /\ event' = NoEvent
      /\ pc["invalid"] = "remove"
      /\ Goto("invalid", "top")
  BY DEF RemoveJunk
<1>3. /\ which \in 0..Cases - 1 /\ Scratch(which) \in Indices
      /\ "invalid" \in Buffered /\ "invalid" \in Workers
  BY ScratchIndex DEF IInv, TypeOK, Buffered, Workers
<1>4. /\ end.ret \in Rets
      /\ end.gate \in {table[Scratch(which)], Absent}
      /\ end.ret \in {"ok", "ENOENT"} => end.gate = Absent
  BY <1>1, EndOf, DeleteDone DEF Ends, Rets
<1>5. end.gate \in Contents
  BY <1>3, <1>4 DEF IInv, TypeOK, Contents
<1>6. /\ table' = [table EXCEPT ![Scratch(which)] = end.gate]
      /\ table' \in [Indices -> Contents]
      /\ table'[Scratch(which)] = end.gate
      /\ resp' \in [Buffered -> Buffer] /\ late' \subseteq Buffered
  BY <1>1, <1>3, <1>5, RequestTypes DEF IInv
<1>7. /\ pc' \in [Workers -> {"top", "deleted", "fetched", "replace", "remove"}]
      /\ pc'["delete"] = pc["delete"]
      /\ \A w \in Fetchers : pc'[w] = "fetched" => pc[w] = "fetched"
  BY <1>2, InvalidMoves DEF IInv
<1>8. TypeOK'
  <2>1. event' \in Events
    BY <1>2, CountTypes
  <2>2. odd' \in BOOLEAN
    BY <1>2, Zenon
  <2>3. spoiled' \subseteq Indices
    BY <1>1, <1>3 DEF IInv, TypeOK
  <2>4. which' \in 0..Cases - 1
    BY <1>2
  <2> QED BY <1>2, <1>6, <1>7, <2>1, <2>2, <2>3, <2>4 DEF IInv, TypeOK, Events, Contents
<1>9. LiveIsASchedule' /\ MissingOnlyInWindow' /\ FetchedIsASchedule'
  <2>1. NoWrap => (Index \in spoiled' <=> Index \in spoiled)
    BY <1>1, <1>3, ScratchIsNotLive
  <2> QED BY <1>2, <1>3, <1>6, <1>7, <2>1, JunkKeepsLive DEF IInv
<1>10. ScratchClean'
  <2> SUFFICES ASSUME NoWrap, NEW d \in 0..Cases - 1
               PROVE  Scratch(d) \in spoiled' \/ table'[Scratch(d)] = Absent
    BY DEF ScratchClean, NoWrap, Scratch, InvalidBase
  <2>1. CASE Scratch(d) = Scratch(which)
    BY <1>1, <1>4, <1>6, <2>1
  <2>2. CASE Scratch(d) # Scratch(which)
    <3>1. table'[Scratch(d)] = table[Scratch(d)]
      BY <1>6, <2>2, ScratchIndex DEF IInv, TypeOK
    <3>2. Scratch(d) \in spoiled \/ table[Scratch(d)] = Absent
      BY <2>2 DEF IInv, ScratchClean, JunkUnderWay
    <3>3. Scratch(d) \in spoiled => Scratch(d) \in spoiled'
      BY <1>1, <2>2
    <3> QED BY <3>1, <3>2, <3>3
  <2> QED BY <2>1, <2>2
<1> QED BY <1>8, <1>9, <1>10 DEF IInv

LEMMA NextPhaseKeeps == ASSUME IInv, NEW w \in Buffered, NextPhase(w) PROVE IInv'
<1>1. PICK buffer \in {"plain"} \cup {resp[v] : v \in Buffered} :
        resp' = [resp EXCEPT ![w] = buffer]
  BY DEF NextPhase
<1>2. /\ UNCHANGED <<table, pc, fetched, odd, which, spoiled>>
      /\ event' = NoEvent /\ late' = late \ {w}
  BY DEF NextPhase
<1>3. TypeOK'
  <2>1. event' \in Events
    BY <1>2 DEF NoEvent, Events
  <2>2. resp' \in [Buffered -> Buffer]
    BY <1>1 DEF IInv, TypeOK, Buffer
  <2> QED BY <1>2, <2>1, <2>2 DEF IInv, TypeOK, Events, Contents
<1>4. FetchedIsASchedule' /\ LiveIsASchedule' /\ MissingOnlyInWindow'
  BY <1>2 DEF IInv, FetchedIsASchedule, LiveIsASchedule, MissingOnlyInWindow, NoWrap
<1>5. ScratchClean'
  BY <1>2 DEF IInv, ScratchClean, JunkUnderWay, NoWrap, Scratch, InvalidBase
<1> QED BY <1>3, <1>4, <1>5 DEF IInv

LEMMA StutterKeeps == IInv /\ UNCHANGED vars => IInv'
<1> SUFFICES ASSUME IInv, UNCHANGED vars PROVE IInv'
  OBVIOUS
<1>1. UNCHANGED <<table, pc, fetched, odd, which, resp, late, event, spoiled>>
  BY DEF vars
<1>2. TypeOK'
  BY <1>1 DEF IInv, TypeOK, Contents
<1>3. FetchedIsASchedule' /\ LiveIsASchedule' /\ MissingOnlyInWindow'
  BY <1>1 DEF IInv, FetchedIsASchedule, LiveIsASchedule, MissingOnlyInWindow, NoWrap
<1>4. ScratchClean'
  BY <1>1 DEF IInv, ScratchClean, JunkUnderWay, NoWrap, Scratch, InvalidBase
<1> QED BY <1>2, <1>3, <1>4 DEF IInv

LEMMA StepKeeps == IInv /\ [Next]_vars => IInv'
<1> SUFFICES ASSUME IInv, [Next]_vars PROVE IInv'
  OBVIOUS
<1>1. CASE ReplaceLive BY <1>1, ReplaceLiveKeeps
<1>2. CASE GetLive BY <1>2, GetLiveKeeps
<1>3. CASE DumpLive BY <1>3, DumpLiveKeeps
<1>4. CASE DeleteLive BY <1>4, DeleteLiveKeeps
<1>5. CASE CreateLive BY <1>5, CreateLiveKeeps
<1>6. ASSUME NEW w \in Fetchers, Fetch(w) PROVE IInv'
  BY <1>6, FetchKeeps
<1>7. ASSUME NEW w \in Fetchers, SendBack(w) PROVE IInv'
  BY <1>7, SendBackKeeps
<1>8. CASE SendJunk BY <1>8, SendJunkKeeps
<1>9. CASE ReplaceJunk BY <1>9, ReplaceJunkKeeps
<1>10. CASE RemoveJunk BY <1>10, RemoveJunkKeeps
<1>11. ASSUME NEW w \in Buffered, NextPhase(w) PROVE IInv'
  BY <1>11, NextPhaseKeeps
<1>12. CASE UNCHANGED vars BY <1>12, StutterKeeps
<1> QED BY <1>1, <1>2, <1>3, <1>4, <1>5, <1>6, <1>7, <1>8, <1>9, <1>10, <1>11, <1>12 DEF Next

-----------------------------------------------------------------------------
(* The theorems *)

\* The inductive invariant holds in every behaviour of the workers.
THEOREM IInvHolds == Spec => []IInv
  BY InitIInv, StepKeeps, PTL DEF Spec

\* Whatever the workers do and however their requests end, the kernel's table,
\* the loops, the buffers and the last error counted keep their shape.
THEOREM TypesHold == Spec => []TypeOK
<1>1. IInv => TypeOK
  BY DEF IInv
<1> QED BY <1>1, IInvHolds, PTL

\* The junk of race_invalid_thread leaves no action at a scratch index but while
\* its turn is under way or when its delete failed, for any number of cases and
\* any index whose scratch range does not wrap.
THEOREM ScratchStaysClean == Spec => []ScratchClean
<1>1. IInv => ScratchClean
  BY DEF IInv
<1> QED BY <1>1, IInvHolds, PTL

\* No order of the workers puts anything but a schedule at the live index: what
\* race_basetime_thread and race_invalid_thread send back is what they fetched.
THEOREM LiveStaysASchedule == Spec => []LiveIsASchedule
<1>1. IInv => LiveIsASchedule
  BY DEF IInv
<1> QED BY <1>1, IInvHolds, PTL

\* The live action is missing only between the two requests of
\* race_delete_thread, or after a create of it that failed.
THEOREM DeletedOnlyInWindow == Spec => []MissingOnlyInWindow
<1>1. IInv => MissingOnlyInWindow
  BY DEF IInv
<1> QED BY <1>1, IInvHolds, PTL
=============================================================================
