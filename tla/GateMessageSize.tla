--------------------------- MODULE GateMessageSize ---------------------------
(***************************************************************************)
(* How long the messages of src/gate_msg.c get, and how large the buffers  *)
(* are made for them.  The builders write without looking at the capacity  *)
(* of the buffer; gb_nl_send_recv compares length and capacity only        *)
(* afterwards, so the buffer must be large enough from the start.          *)
(***************************************************************************)
EXTENDS Integers, Sequences, FiniteSets

CONSTANT SocketBuffer      \* MNL_SOCKET_BUFFER_SIZE: a page, at most 8192

ASSUME SocketBufferAssumption == SocketBuffer \in 1..8192

\* The longest attribute: nla_len has 16 bits.
MaxAttr == 65535

\* An attribute is a header of 4 bytes and its payload, padded to 4 bytes.
AttrSize(payload) == 4 + ((payload + 3) \div 4) * 4

\* nlmsghdr and tcamsg; the headers of the tab, of the slot and of the options.
HeaderSize == 16 + 4
NestSize == AttrSize(0)

\* The kind "gate" with its terminator, and the index.
NameSize == AttrSize(5) + AttrSize(4)

\* struct tc_gate, clockid, base time, cycle time.
FixedSize == AttrSize(20) + AttrSize(4) + 2 * AttrSize(8)

OptionSize(present, payload) == IF present THEN AttrSize(payload) ELSE 0

\* The interval, the ipv and the octets of each entry in its nest, and the mark of
\* an open one.
EntriesSize(entries) ==
    IF entries = <<>> THEN 0
    ELSE NestSize + Len(entries) * (NestSize + 3 * AttrSize(4))
         + Cardinality({i \in 1..Len(entries) : entries[i].gate_state}) * AttrSize(0)

\* The tab of a NEWACTION message, the attribute all others are nested in.
TabSize(r) ==
    3 * NestSize + NameSize + FixedSize
    + OptionSize(r.cycle_time_ext # 0, 8)
    + OptionSize(r.priority # -1, 4)
    + OptionSize(r.flags # 0, 4)
    + EntriesSize(r.entries)

NewActionSize(r) == HeaderSize + TabSize(r)

\* build_gate_delaction and build_gate_getaction_ex; with the root flags, but no
\* index, build_gate_flushaction and build_gate_dumpaction.
PlainSize == HeaderSize + 2 * NestSize + NameSize
RootSize == HeaderSize + 2 * NestSize + AttrSize(5) + AttrSize(8)

\* The buffer those are given.
PlainCapacity == 1024

AtMost(n, limit) == IF n > limit THEN limit ELSE n
AtLeast(n, limit) == IF n < limit THEN limit ELSE n
PageAligned(n) == ((n + 4095) \div 4096) * 4096

gate_msg_capacityPlain(n) == PlainCapacity

gate_msg_capacity(n) ==
    PageAligned(AtLeast(2048 + AtMost(96 * n, 1024 * 1024), SocketBuffer))

Fits(r, capacity) == NewActionSize(r) <= capacity /\ TabSize(r) <= MaxAttr
=============================================================================
