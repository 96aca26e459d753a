------------------------------ MODULE GateCodec ------------------------------
(***************************************************************************)
(* A schedule on its way through the messages of src/gate_msg.c: built     *)
(* into a NEWACTION request, applied by the kernel, read back with a       *)
(* GETACTION, parsed, and sent back with another base time, as the         *)
(* workers of race mode do.                                                *)
(*                                                                         *)
(* A message is the tree of its attributes: a sequence of types with their *)
(* values, a nest having a sequence for its value.  Of the kernel, which   *)
(* is not part of the program, the model keeps that it numbers the entries *)
(* in order, replies with every attribute of the schedule, and may add     *)
(* ones the program does not know.                                         *)
(***************************************************************************)
EXTENDS GateMessageSize, FiniteSetsExt

CONSTANTS
    MaxEntries,    \* GB_MAX_ENTRIES
    Counts,        \* the numbers of entries of generated schedules
    Intervals,     \* the intervals of the entries looked at
    interval_ns,   \* the configured interval; gb_cli_parse refuses 0
    ShortLists     \* the longest list of arbitrary entries looked at

\* 2044 entries are the most the 16-bit length of the tab has room for.
ASSUME EntriesAssumption == MaxEntries \in 0..2044
ASSUME CountsAssumption == Counts \subseteq 0..MaxEntries /\ ShortLists \in 0..MaxEntries
ASSUME IntervalsAssumption == Intervals \subseteq Nat /\ interval_ns \in Nat \ {0}

VARIABLES
    stage,       \* "start", "built", "applied", "answered", "parsed" or "sent back"
    shape,       \* the schedule asked for
    message,     \* the attributes of the last request or reply
    kernel,      \* the schedule in the kernel
    dump         \* what the program parsed

vars == <<stage, shape, message, kernel, dump>>

-----------------------------------------------------------------------------
(* Schedules *)

\* gb_fill_entries: every tenth entry of a long list is a closed guard slot.
FillEntry(i, n, interval) ==
    LET guard == n >= 10 /\ (i + 1) % 10 = 0
    IN  [index |-> i, interval |-> interval, gate_state |-> ~guard,
         ipv |-> CASE guard -> -1 [] i % 2 = 0 -> 7 [] OTHER -> 0,
         maxoctets |-> CASE guard -> -1 [] i % 2 = 0 -> 8192 [] OTHER -> 32768]

Generated(n, interval) == [k \in 1..n |-> FillEntry(k - 1, n, interval)]

Arbitrary ==
    [index : {0}, interval : Intervals, gate_state : BOOLEAN, ipv : {-1, 3},
     maxoctets : {-1, 0}]

EntryLists ==
    {Generated(n, interval) : n \in Counts, interval \in Intervals}
    \cup UNION {[1..n -> Arbitrary] : n \in 0..ShortLists}

Shapes ==
    [index : {1}, clockid : {11}, base_time : {0}, cycle_time : {0, 9},
     cycle_time_ext : {0, 2}, flags : {0, 1}, priority : {-1, 6},
     entries : EntryLists]

-----------------------------------------------------------------------------
(* Building and parsing *)

Attr(type, value) == [type |-> type, value |-> value]
Optional(present, type, value) == IF present THEN <<Attr(type, value)>> ELSE <<>>

EntryAttrsIpvIfPositive(e) ==
    Optional(e.gate_state, "GATE", 0)
    \o <<Attr("INTERVAL", e.interval)>>
    \o Optional(e.ipv > 0, "IPV", e.ipv) \o <<Attr("MAX_OCTETS", e.maxoctets)>>

EntryAttrs(e) ==
    Optional(e.gate_state, "GATE", 0)
    \o <<Attr("INTERVAL", e.interval), Attr("IPV", e.ipv), Attr("MAX_OCTETS", e.maxoctets)>>

OptionAttrsSwapped(r) ==
    Optional(r.cycle_time_ext # 0, "CYCLE_TIME_EXT", r.cycle_time_ext)
    \o Optional(r.flags # -1, "PRIORITY", r.flags)
    \o Optional(r.priority # 0, "FLAGS", r.priority)

OptionAttrs(r) ==
    Optional(r.cycle_time_ext # 0, "CYCLE_TIME_EXT", r.cycle_time_ext)
    \o Optional(r.priority # -1, "PRIORITY", r.priority)
    \o Optional(r.flags # 0, "FLAGS", r.flags)

\* One action of the kind gate in its slot of the tab.
Message(index, options) ==
    <<Attr("ACT_TAB", <<Attr("SLOT", <<Attr("KIND", "gate"), Attr("ACT_INDEX", index),
                                       Attr("OPTIONS", options)>>)>>)>>

\* What the defaults stand for is left out.
GateOptions(r) ==
    <<Attr("PARMS", r.index), Attr("CLOCKID", r.clockid),
      Attr("BASE_TIME", r.base_time), Attr("CYCLE_TIME", r.cycle_time)>>
    \o OptionAttrs(r)
    \o Optional(r.entries # <<>>, "ENTRY_LIST",
                [k \in 1..Len(r.entries) |-> Attr("ONE_ENTRY", EntryAttrs(r.entries[k]))])

\* build_gate_newaction
NewAction(r) == Message(r.index, GateOptions(r))

Places(attrs, type) == {i \in 1..Len(attrs) : attrs[i].type = type}

\* parse_attrs_limited keeps the last attribute of a type.
Value(attrs, type, default) ==
    IF Places(attrs, type) = {} THEN default ELSE attrs[Max(Places(attrs, type))].value

\* The attributes of a type in their order.
Nested(attrs, type) ==
    LET places == Places(attrs, type)
        rank(i) == Cardinality({j \in places : j <= i})
    IN  [k \in 1..Cardinality(places) |-> attrs[CHOOSE i \in places : i >= k /\ rank(i) = k]]

\* parse_gate_entries_cb
ParsedEntry(attrs) ==
    [index |-> Value(attrs, "INDEX", 0), interval |-> Value(attrs, "INTERVAL", 0),
     gate_state |-> Places(attrs, "GATE") # {}, ipv |-> Value(attrs, "IPV", -1),
     maxoctets |-> Value(attrs, "MAX_OCTETS", -1)]

\* parse_gate_options, into a dump that gb_nl_gate_parse has cleared and
\* parse_action_prio_cb has given the index of the slot.
ParsedOptions(index, attrs) ==
    LET list == Nested(Value(attrs, "ENTRY_LIST", <<>>), "ONE_ENTRY")
    IN  [index |-> Value(attrs, "PARMS", index), clockid |-> Value(attrs, "CLOCKID", 0),
         base_time |-> Value(attrs, "BASE_TIME", 0),
         cycle_time |-> Value(attrs, "CYCLE_TIME", 0),
         cycle_time_ext |-> Value(attrs, "CYCLE_TIME_EXT", 0),
         flags |-> Value(attrs, "FLAGS", 0), priority |-> Value(attrs, "PRIORITY", -1),
         entries |-> [k \in 1..Len(list) |-> ParsedEntry(list[k].value)]]

\* gb_nl_gate_parse; slots of another kind are skipped.
Parsed(root) ==
    LET tab == Value(root, "ACT_TAB", <<>>)
        gates == {i \in 1..Len(tab) : Value(tab[i].value, "KIND", "none") = "gate"}
        slot == tab[Max(gates)].value
    IN  IF gates = {}
          THEN ParsedOptions(0, <<>>)
          ELSE ParsedOptions(Value(slot, "ACT_INDEX", 0), Value(slot, "OPTIONS", <<>>))

-----------------------------------------------------------------------------
(* The kernel *)

SumOfIntervals(entries) ==
    LET sum[n \in 0..Len(entries)] ==
          IF n = 0 THEN 0 ELSE sum[n - 1] + entries[n].interval
    IN  sum[Len(entries)]

\* The schedule a request asks for, its entries numbered in their order.
Applied(request) ==
    LET asked == Parsed(request)
    IN  [asked EXCEPT
           !.entries = [k \in 1..Len(asked.entries) |->
                          [asked.entries[k] EXCEPT !.index = k - 1]],
           !.cycle_time = IF @ = 0 THEN SumOfIntervals(asked.entries) ELSE @]

DumpedEntry(e) ==
    Attr("ONE_ENTRY",
         Optional(e.gate_state, "GATE", 0)
         \o <<Attr("INDEX", e.index), Attr("INTERVAL", e.interval),
              Attr("MAX_OCTETS", e.maxoctets), Attr("IPV", e.ipv)>>)

\* Every attribute of the schedule, and perhaps ones of a newer kernel.
Answer(s, newer) == newer \o Message(s.index,
    newer
    \o <<Attr("PARMS", s.index), Attr("BASE_TIME", s.base_time),
         Attr("CYCLE_TIME", s.cycle_time), Attr("CYCLE_TIME_EXT", s.cycle_time_ext),
         Attr("CLOCKID", s.clockid), Attr("FLAGS", s.flags), Attr("PRIORITY", s.priority),
         Attr("ENTRY_LIST", newer \o [k \in 1..Len(s.entries) |-> DumpedEntry(s.entries[k])])>>
    \o newer)

-----------------------------------------------------------------------------

Nothing == Parsed(<<>>)

Init ==
    /\ stage = "start"
    /\ shape \in Shapes
    /\ message = <<>>
    /\ kernel = Nothing /\ dump = Nothing

Build ==
    /\ stage = "start"
    /\ message' = NewAction(shape)
    /\ stage' = "built"
    /\ UNCHANGED <<shape, kernel, dump>>

Apply ==
    /\ stage \in {"built", "sent back"}
    /\ kernel' = Applied(message)
    /\ stage' = "applied"
    /\ UNCHANGED <<shape, message, dump>>

Reply ==
    /\ stage = "applied"
    /\ \E newer \in {<<>>, <<Attr("UNKNOWN", 0)>>} : message' = Answer(kernel, newer)
    /\ stage' = "answered"
    /\ UNCHANGED <<shape, kernel, dump>>

Parse ==
    /\ stage = "answered"
    /\ dump' = Parsed(message)
    /\ stage' = "parsed"
    /\ UNCHANGED <<shape, message, kernel>>

UpdatedBare(asked, d, base, clockid) ==
    [d EXCEPT !.base_time = base, !.clockid = clockid, !.cycle_time = 9,
              !.cycle_time_ext = asked.cycle_time_ext,
              !.flags = 0, !.priority = -1, !.entries = <<>>]

\* race_send_basetime_update: the cycle time is the configured one or the sum of
\* the intervals, or the configured interval when there is nothing to sum; flags
\* and priority are left out.
Updated(asked, d, base, clockid) ==
    LET sum == SumOfIntervals(d.entries)
        cycle == CASE asked.cycle_time # 0 -> asked.cycle_time
                   [] asked.cycle_time = 0 /\ sum # 0 -> sum
                   [] OTHER -> interval_ns
    IN  [d EXCEPT !.base_time = base, !.clockid = clockid, !.cycle_time = cycle,
                  !.cycle_time_ext = asked.cycle_time_ext,
                  !.flags = 0, !.priority = -1]

\* The basetime worker sends the configured clock; the timer-start worker one of
\* two, CLOCK_TAI and CLOCK_MONOTONIC, and nothing without entries.
SentClocks ==
    {shape.clockid} \cup IF Len(dump.entries) \in 1..MaxEntries THEN {11, 1} ELSE {}

SendBack ==
    /\ stage = "parsed"
    /\ dump.base_time = 0      \* bound of the model: once
    /\ \E clockid \in SentClocks : message' = NewAction(Updated(shape, dump, 5, clockid))
    /\ stage' = "sent back"
    /\ UNCHANGED <<shape, kernel, dump>>

Next == Build \/ Apply \/ Reply \/ Parse \/ SendBack

Spec == Init /\ [][Next]_vars

-----------------------------------------------------------------------------
(* Properties *)

TypeOK ==
    /\ stage \in {"start", "built", "applied", "answered", "parsed", "sent back"}
    /\ \A s \in {kernel, dump} :
         /\ {s.index, s.clockid, s.base_time, s.cycle_time, s.cycle_time_ext, s.flags} \subseteq Nat
         /\ \A k \in 1..Len(s.entries) :
              s.entries[k].index \in Nat /\ s.entries[k].interval \in Nat

\* No builder writes beyond the buffer its caller made, nor a nest longer than
\* its 16 bits say: the first request goes into gate_msg_capacity of its own
\* entries, what is sent back into that of GB_MAX_ENTRIES.
MessagesFit ==
    /\ stage = "built" => Fits(shape, gate_msg_capacity(Len(shape.entries)))
    /\ stage = "parsed" => Fits(Updated(shape, dump, 5, shape.clockid), gate_msg_capacity(MaxEntries))
    /\ PlainSize <= PlainCapacity /\ RootSize <= PlainCapacity

\* What is parsed is the schedule in the kernel, in every field and entry: what
\* a builder leaves out and what a parser fills in agree, and attributes of a
\* newer kernel change nothing.
ParsedIsKernels == stage = "parsed" => dump = kernel

Same(e, f) == [e EXCEPT !.index = 0] = [f EXCEPT !.index = 0]

\* The schedule that was asked for is the one that is applied, up to the number
\* of each entry and a derived cycle time.
AppliedAsAsked ==
    stage = "applied" /\ kernel.base_time = shape.base_time =>
      /\ Len(kernel.entries) = Len(shape.entries)
      /\ \A k \in 1..Len(shape.entries) : Same(kernel.entries[k], shape.entries[k])
      /\ \A f \in {"index", "clockid", "cycle_time_ext", "flags", "priority"} :
           kernel[f] = shape[f]

\* A schedule survives the way to the kernel and back.
RoundTrip == AppliedAsAsked /\ ParsedIsKernels

\* Fetching a schedule and sending it back with another base time changes none
\* of its entries.
SendBackKeepsEntries == [][stage = "sent back" => kernel'.entries = kernel.entries]_kernel
=============================================================================
