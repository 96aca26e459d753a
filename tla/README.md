# A verification of gatebench

gatebench measures and stresses the `act_gate` traffic-control action of the
Linux kernel over netlink. This directory models the program, checks the models
with TLC and proves theorems about them with TLAPS. Paths below are relative to
the repository.

## 1. Inventory

| Component | Source | State it keeps | Operations | What makes it correct |
|---|---|---|---|---|
| Fuzzy sync pair | `include/tst_fuzzy_sync.h`, `include/gatebench_fzsync_compat.h` | two arrival counters, exit flag, spin count, times, averages, delay | `pair_init`, `pair_reset`, `pair_update`, `pair_wait`, `start_race_a/b`, `end_race_a/b` | a reusable two-party barrier that survives the wrap of its counters and lets go when exit is raised |
| Race phases | `src/race.c` 1390-1783 | stop flag, four pairs, pairing, remaining time, thread handles | pair up, create, sleep, stop, signal, join, summarise | a phase begins and ends with no worker alive; every worker has a partner on the other side; the run returns |
| Race workers | `src/race.c` 150-1388 | socket, messages, turn of the loop, counters of ops, errors, extack texts; the gate actions in the kernel | set-up, loop (flags, barrier, requests, barrier), release of the partner | junk stays off the live action and is cleaned up; the live action is a schedule sent on purpose; errors are counted for the request that had them |
| Netlink transport | `src/nl.c` | sequence number, receive buffer | `send_recv`, `send_recv_ack`, `send_recv_flush`, `dump_action` | a call tells the answer to its own request, whole, or an error; it returns |
| Gate messages | `src/gate_msg.c` | none | builders of NEW/DEL/GET/flush/dump requests, parser of replies | every message fits its buffer; a schedule survives the way to the kernel and back |
| Benchmark | `src/bench.c` | samples, run results, the action in the kernel | warm-up, timed iterations, clean-up, aggregation | the clock starts on an empty index; each block has one owner and is freed |
| Selftests | `src/selftest.c`, `src/selftests/` | passed, failed and soft-failed counts; `cfg->entries` | four suites | a hard failure is never reported as soft, and nothing is measured after one |
| Dump proof | `src/proof.c` | capture thread, its handle and file, dump counts | delete, create, capture, dump, delete | the capture surrounds the dump; the action is deleted on every path; the thread is joined |
| Main program | `src/main.c` | verdicts, summaries, exit code | run the modes, print text or JSON | it ends; report, exit code and what was run agree |
| Statistics | `src/stats.c` | sample array, its capacity and sorted flag | add, sort, percentile, extremes, summary, median | answers depend on the samples only; the array is never overrun |
| Command line | `src/cli.c` | the configuration | parse, validate | every accepted configuration is one the modes can run |
| Utilities | `src/util.c` | none | clock, sleep, affinity | (thin wrappers) |
| Tools | `tools/` | none | compare JSON results | (outside the program) |

How they interact: `main` parses the command line, and either runs race mode, or
the selftests and after them the dump proof or the benchmark, one after the other
in one thread. Two parts are concurrent. In race mode the main thread creates
eight workers per phase; they share the stop flag with it, and each shares a
fuzzy sync pair with one partner; each worker that talks to the kernel has a
netlink socket of its own, and all of them act on the same gate action. The dump
proof runs a capture thread while it dumps.

Hard behaviours: the lock-free barrier and its wrap at `INT_MAX`; the shared
fields of a pair that only the barrier protects; workers that fail to set up or
are never created while their partner waits; flags that carry over from phase
to phase; replies that are late, lost or left over; requests of eight workers on
one kernel object; a capture thread that is stopped before it started; steps of
a long sequence that fail one at a time, with memory and a kernel object to clean
up; buffers sized by an estimate. Each is listed with its line in `PROJECT.json`
under `hazards`, with the properties that cover it.

## 2. Modules

### Rendezvous

The abstract two-party barrier: a thread comes, and goes on when the other one
has come as often, or when the barrier is broken. Only the difference of the
two arrival counts is kept.

### FuzzySync (and FuzzySyncProofs)

One pair, its two workers and the main thread during one phase.

| Model | Code |
|---|---|
| `cntr["A"]`, `cntr["B"]` | `a_cntr`, `b_cntr`; thread t waits on `cntr[t]` and increments `cntr[Other(t)]` |
| `Arrive` | `tst_atomic_inc(other_cntr)` and the test against `INT_MAX` (`MaxC`) |
| `pc` = `Wait` / `Full`, `Reset`, `Drain` | the wait of the `else` branch / the first loop, the store of 0 and the second loop of the `INT_MAX` branch |
| `Behind`, `Spinning` | the conditions of the three loops, without and with the exit flag |
| `Spin`, `SpinsLoad`, `SpinsStore` | a turn of a loop with a spin counter; the load and the store of `(*spins)++` |
| `PairUpdate` | `tst_fzsync_pair_update`, by thread A before it comes to the barrier |
| `SetUp`, `TestStop`, `TestExit`, `SignalExit` | the frame of every worker: set-up, loop head, `out:` label |
| `CreateWorker`, `CreateFails`, `PhaseEnds`, `MainSignalsExit`, `Join` | one phase of `gb_race_run_with_summary` as this pair sees it |

All accesses to shared cells are separate steps. `yield_in_wait` only adds
`sched_yield` and makes no difference here. The relaxed atomics of the code are
modelled as sequentially consistent: each counter has one writer between two
barriers and the comparison reads one foreign cell, but the model says nothing
of the order in which plain fields become visible.

### RacePairing (and RacePairingProofs)

The three shuffles, the coins and the assignment loop at the head of a phase,
with every random number of the generator allowed. `OnePlaceEach` states why the
result is a pairing: the shuffles are permutations, the four candidates keep the
eight workers apart, and each slot the loop has filled holds the two members of its
candidate, on opposite sides, and nobody else.

### RacePhases (and RacePhasesProofs)

`gb_race_run_with_summary` as fork and join over several phases, for any number
of pairs and twice as many workers (the code has four and eight). The pairing is any assignment of two workers to each pair
(what RacePairing establishes), and the barrier of a pair is used through its
abstraction: a worker passes when its partner has come as often or exit is up
(what FuzzySync is shown to implement). The tests of stop and exit at the loop
head are one step, with the reason in the module. Each worker may fail in its
set-up, each creation may fail. What a worker does after the end of a race and
before its next loop head (counting, short sleeps, the request the delete worker
makes there) touches nothing of this module's state.

### GateKernel and GateWorkers (and GateWorkersProofs)

GateKernel is the kernel as the program's requests see it: what create, replace,
delete and read do to the action at one index, and the ways a request can end
that `src/nl.c` tells apart: done, refused, not sent, or unanswered, in which case
it was done or not. It is used by GateWorkers and by the modules of the main
program.

GateWorkers is the work of the six race workers that use netlink requests on
actions. The kernel serialises requests, so a request is one step; the barriers
only restrict the order, so every order is allowed.

| Model | Code |
|---|---|
| `table` | the gate actions in the kernel, by index |
| `ReplaceLive`, `GetLive`, `DumpLive` | the loops of `race_replace_thread`, `race_get_thread`, `race_dump_thread` |
| `DeleteLive`, `CreateLive` | `race_delete_thread`: the delete in the race, the create after it |
| `Fetch`, `SendBack`, `fetched` | `race_basetime_thread` and the timer-start turn of the invalid worker: get, parse, `race_send_basetime_update` |
| `SendJunk`, `ReplaceJunk`, `RemoveJunk`, `odd`, `which` | the other turn of `race_invalid_thread`: one of the `race_send_*` helpers and the delete after it; the last helper, `race_send_bad_interval`, makes two requests |
| `InvalidBase`, `Scratch`, `NoWrap` | the 32-bit arithmetic of the scratch indices |
| `resp`, `event`, `Buffers`, `CountReply` | the response buffer of each worker, without a text until a reply brings one, and `race_record_nl_error`, which reads an extack text from it; of what was counted last, `event` keeps whether it was an error, with a text, and whose |
| `late` | the workers that may still receive, and skip, the reply to a request that timed out |
| `NextPhase` | the set-up of the worker of the next phase: a new socket, and a buffer `malloc` may have taken from what another worker freed |
| `spoiled` | history: the indices where the last clean-up failed |

The kernel may accept junk (it then holds `Junk`), which is what the clean-up in
the code is for.

### GateMessageSize and GateCodec (and GateCodecProofs)

GateMessageSize is arithmetic: the length of every message the builders write,
and the size of the buffer made for it. GateCodec takes a schedule through
`build_gate_newaction`, the kernel, `gb_nl_gate_parse`, and the send-back of a
fetched schedule (`race_send_basetime_update`). A message is the tree of its
attributes. Which attributes are optional and what their absence means is modelled
on both sides; bytes and alignment are in GateMessageSize only. `MaxEntries` is at
most 2044 (`EntriesAssumption`; the code has 64), the intervals are natural numbers
(they are unsigned in the code), and the configured one (`interval_ns`) is not 0, which
`gb_cli_parse` refuses, so the constant `race_send_basetime_update` has for that case
is never used. `Nested` picks the attributes of a type in their
order, as a callback that `mnl_attr_parse_nested` calls for each of them does.

### SampleBag and Stats (and StatsProofs)

SampleBag is the promise of the statistics: a bag of samples and questions
answered by counting. Stats is `src/stats.c`: an array that grows by doubling with
growths that may fail, the sorted flag, percentiles with interpolation, extremes,
the six figures of a result, and the medians, called in any order. Numbers are exact.
In the code an index and an interpolated sample are doubles, exact for samples below
2^53 ns (104 days) but for the rounding of the fraction; the sum of the two middle
samples has 64 bits and does not wrap for samples below 2^63; and the median of
doubles does not round down. `qsort` is modelled by
what it promises (`Ascending`): an ascending sequence with as many of each sample.

### Session, CommandLine, Selftests, Benchmark, DumpProof, Program (and ProgramProofs)

The program from its command line to its exit code. Program extends the others;
each is one part, running between the call and the return of its entry point. The
state they share (the configuration, the action at its index, the last request
about it) is Session.

| Model | Code |
|---|---|
| `Options`, `Rejected`, `Config` | `gb_cli_parse`: what is refused, the cap on the entries, what `--pcap` implies |
| `RunTest`, `LeftBy`, `OpenSocket`, `Verdict`, `Soft`, `Lowered` | `run_test_suite`, `gb_selftest_run`, the lists of soft failures, the lowered `cfg->entries`; the large dump ends with a flush of all gate actions, ours included, so a stable test may leave the index empty |
| `bench` and the actions of Benchmark | the statements of `benchmark_single_run` and `gb_bench_run`; `heap`, `kept`, `runs` and `published` are the blocks allocated, `result->samples`, the local `runs` and `summary->runs`; the four arrays of `TakeMedians` are one block (`Medians`), as they are allocated and freed together; `AddSample` may lose the sample, as `stats_add_sample` does not look at the result of `gb_stats_add` |
| `proof` and the actions of DumpProof | the statements of `gb_proof_run`; `StartCapture`, `StopCapture`, `JoinCapture` are `gb_pcap_start` and `gb_pcap_stop` |
| `EnterLoop`, `ReadPacket`, `LoopFails` | `pcap_thread_main` in `pcap_loop`; `broken` is the break flag of the handle, `ring` and `file` what it received and wrote |
| `main` and the actions of Program | the statements of `main`; `report` is what `json_print_report` prints, reduced to its verdict, its phase, the status of the selftests and the sections that are not null, among which that of the selftests always is |
| `FreeSummary`, `corrupt` | `gb_summary_free`, and whether it met a block already freed |

Race mode is one action of Program, because RacePhases shows that it returns, and
a single selftest is any result. The two threads are the main one (`Main`) and
that of the capture (`CaptureThread`).

### RequestReply and NetlinkTransport (and NetlinkTransportProofs)

RequestReply is the promise of the transport: a call tells the whole outcome of
its own request, or that it does not know it. NetlinkTransport is `src/nl.c`: the
sequence number, the four calls (which differ in the message that ends them and
in what they count), the scan of a datagram for messages with the own number,
and the poll that starts its timeout anew. Its environment, the kernel, is modelled from
how the code uses it: it answers requests in order, at any later time, packs the
messages of an answer into datagrams, and may drop messages, after which the next
receive fails with `ENOBUFS`. A call may also return before it has a number
(`SendFails`), lose a datagram that is longer than its buffer (`ReceiveTruncated`), or
find poll or the receive failing (`PollInterrupted`). Messages are reduced to number and type; `got`
stands for `reply_msgs` of a dump and for `fcnt_out` of a flush.
`InOrder` says where the answer to the call under way is: as long as nothing was
dropped, what was read, the datagrams in the buffer and what the kernel owes make up
the whole answer, in order, and every other message under way has another number.

## 3. Runs

| Run | Checks | Bounds, and why they are enough |
|---|---|---|
| `fuzzy_sync` | `Inv`, `NobodyLeavesEarly`, `RacesOverlap`, `ResetOnlyWhenBothArrived`, `CounterNeverOverflows`, `PartnerReleased`, `EveryWaitEnds`, `PhaseFinishes`, `RendezvousFairSpec` | `MaxC = 3`: the counters wrap at every third wait, so the wrap meets both the start and the end of a race and every position of the partner. The theorems cover all other values. `MaxSpins = 1`. |
| `fuzzy_sync_spins` | `SpinsOfThisRace`, violated | as above, `MaxSpins = 2` |
| `race_pairing` | `Inv`, `EverySlotIsAPair`, `ContentionCovered` | none: the real eight workers and four pairs |
| `race_phases` | `PhaseInv`, `QuietBetweenPhases`, `LeavesForAReason`, `RunReturns` | four workers on two pairs, two phases: a partner, a stranger, and a phase before. The first three are proved for all numbers. |
| `netlink` | `Inv`, `AnswersOwnRequest`, `EveryCallReturns` | numbers wrap at 4, one tick of timeout, calls start while at most 2 messages are left over (`MaxPending`), answers of up to 3 messages; a number in use is not given again (`Fresh`). The first two are proved for all numbers, all timeouts and any messages left over. |
| `netlink_timeout` | `TimeoutPerRequest`, violated | as above, two ticks of timeout |
| `gate_workers` | `TypeOK`, `ScratchClean`, `LiveIsASchedule`, `MissingOnlyInWindow` | two schedules, 8 indices with the scratch range at 4 above the live index 1, three cases of junk: two with a single request and the one with two. What the buffers hold and what is counted from them decides nothing that the requests do, so states that differ in nothing else count once (the `VIEW` is `Requests`). The theorems cover all other values, and `TypeOK` in every state. |
| `gate_workers_extack` | `ExtackOfThisError`, violated | one schedule, two cases of junk, and every state |
| `gate_codec` | `TypeOK`, `MessagesFit`, `RoundTrip`, `SendBackKeepsEntries` | generated schedules of 1, 2, 9, 10 and 64 (`GB_MAX_ENTRIES`) entries: 10 is the first with a guard slot. All lists of up to two entries (`ShortLists`) with every optional attribute present or absent. One send-back: the fetched schedule is then one the program made itself. All four properties are proved for any lists of up to 2044 entries. |
| `stats` | `TypeOK`, `FlagIsTrue`, `SummaryOrdered`, `ImplementsBag` | three values, up to five samples (`MaxSamples`): odd and even sizes, equal samples, percentiles on and between samples. `FirstCapacity = 2` for 16 and initial capacities 0, 1 and 4: growth from nothing, twice, and not at all. The theorems cover any samples, fractions and capacities. |
| `program` | `TypeOK`, `MeasuresOnlyTested`, `EntriesStaySafe`, `StartsFromNothing`, `LeavesWithDelete`, `NothingLeaks`, `CaptureCoversDump`, `ReportIsTrue`, `ProgramEnds` | one or two runs of one or three iterations, with and without one warm-up, samples kept or not (every second of three); up to 3 entries of which 2 are safe; two stable tests, the other suites as long as they are; a dump of up to two messages. All safety properties are proved for all numbers. |
| `program_free` | `SummaryFreedOnce`, violated | as above, no run or one |

What the four violations show:

* `SpinsOfThisRace`: the comment of the field `spins` calls it the number of
  spins while waiting for the slower thread, and `pair_update` resets it before
  each race. Thread B may have loaded the old count before the reset and store
  it, plus one, afterwards.
* `TimeoutPerRequest`: the README calls `--timeout-ms` a receive timeout per
  request. The code polls with the whole timeout after each datagram that did not
  end the call.
* `SummaryFreedOnce`: `gb_bench_run` publishes the results in the summary before
  it computes the medians. If that fails, it frees the results (`bench.c:369`) and
  leaves the pointer, and `main` frees them again. With `--runs=0`, which the
  command line accepts, it always fails.
* `ExtackOfThisError`: the README sends the reader to the extack breakdown of each
  thread (`race.c:426`). `race_record_nl_error` (`race.c:337`) reads an extack text
  from the response buffer for every error, also for one that came without a
  reply. In the run one request is refused with a text, which is counted; the next
  one cannot be sent, and the same text is counted for it again.

`race_phases` rests on a bound in time as well: a phase is as long as the sleep
of the main thread, of which nothing is assumed but that it ends. `netlink`, and the
theorems about it, assume in `Fresh` that no request gets the number of one whose
reply is still under way. The code has no such guard, its counter just wraps: with 2^32
numbers it takes as many requests on one socket while that reply stays unread. `ScratchClean`, `LiveIsASchedule` and
`MissingOnlyInWindow` hold as long as the scratch indices do not wrap (`NoWrap`),
which nothing in the command line ensures: an index within `0x10000` of 2^32
sends the junk to the live action.

`ReportIsTrue` says of the JSON report what the code does, and in one respect that is
not what README.md:232 says, "inactive sections are `null`": the section of the
selftests is an object in every report (`main.c:194`, called at 387), with
`"ran": false` and the status `skipped` after a race or an early error. So each
set of sections in the property has it, and the status tells the rest.

What some properties do not say: `LeavesWithDelete` is about the last request,
which may have failed; and after an error the benchmark sends no delete at all, so
it may leave its action behind, as race mode may. `CaptureCoversDump` counts
messages that are still in the buffer of the handle when the loop is broken; they
never get to the file.

Deadlock is not checked in `program`, `program_free`, `gate_workers`, `stats` and `gate_codec`:
the program ends, the workers of race mode are stopped from outside
(RacePhases), and the two others are libraries that wait for their caller.

### Fairness

Every liveness property assumes that threads are scheduled (weak fairness of
each worker as a whole, and of the main thread's steps) and that system calls
return: netlink receives poll with a timeout (`netlink` shows that the call then
returns), the traffic socket has a send timeout. In `FuzzySync` nothing is
assumed of the length of the main thread's sleep, so `PartnerReleased` is not a
consequence of the end of the phase. In `NetlinkTransport` the kernel is not
fair: it may never answer. In `Program` the capture thread is scheduled fairly and
its read comes back, because the handle is opened with a read timeout of 100 ms;
that the interface fails, which would end its loop as well, is not assumed.

## 4. Proofs

`FuzzySyncProofs` proves, for every `MaxC >= 2` and every `MaxSpins`:

| Theorem | Statement |
|---|---|
| `InvHolds` | `Spec => []Inv` |
| `NoOverflow` | `Spec => []CounterNeverOverflows` |
| `BarrierHolds` | `Spec => []NobodyLeavesEarly` |
| `RivalsMeet` | `Spec => []RacesOverlap` |
| `ResetsAreLevel` | `Spec => []ResetOnlyWhenBothArrived` |
| `PairIsRendezvous` | `Spec => RendezvousSpec` |

The assumptions are the two on the constants. The inductive invariant `Inv` has
three parts. `TypeOK`. `PlaceInv`, which ties a worker's place to the counter it
writes: it stands at `MaxC` exactly between the increment that reached it and
the reset. `LockstepInv`, until exit is raised: the threads are at most one
arrival apart, their arrivals modulo `MaxC` (`Count`) say which, and the one in
front is held in a spin loop. The last is what the wrap makes necessary: while
one counter has been reset and the other has not, the counters alone say the
wrong thread is in front. The five safety properties follow from `Inv`; the
refinement uses it to show that a worker leaves its wait only when Rendezvous
allows it.

`RacePhasesProofs` proves, for every number `P >= 1` of pairs, `N = 2 * P`
workers and every number of phases:

| Theorem | Statement |
|---|---|
| `PhaseInvHolds` | `Spec => []PhaseInv` |
| `QuietHolds` | `Spec => []QuietBetweenPhases` |
| `ReasonHolds` | `Spec => []LeavesForAReason` |

`PhaseInv` adds to the types that the live threads are those created and not yet
joined (`Reaped`), what the place of the main thread says of its counters
(`Counted`), and that before stop goes up a flag is up only on a pair of which a
member gave up (`FlagsOfThisPhase`). `QuietBetweenPhases` follows from the first
two: everybody created is joined, whichever creation failed. `LeavesForAReason`
needs the third to be inductive, and is what makes the third inductive: a worker
raises its flag when it leaves, and leaves when it finds the flag up.

`GateWorkersProofs` proves, for any schedules, any index, any number of cases of
junk at least 1 and any range of indices the scratch offset fits in:

| Theorem | Statement |
|---|---|
| `TypesHold` | `Spec => []TypeOK` |
| `ScratchStaysClean` | `Spec => []ScratchClean` |
| `LiveStaysASchedule` | `Spec => []LiveIsASchedule` |
| `DeletedOnlyInWindow` | `Spec => []MissingOnlyInWindow` |

The invariant `IInv` is the four properties and `FetchedIsASchedule`: between its
fetch and its send-back a worker holds a schedule, or the send-back could put
junk, or nothing, at the live index. The step that carries the proof is
`ScratchIsNotLive`: below the wrap no case of junk goes to the live index, whatever
the remainder does. Each request then changes either the live action
(`LiveKeepsScratch`) or one scratch index (`JunkKeepsLive`).

`ProgramProofs` proves, for any limits of the command line, any numbers of runs,
of stable tests and of messages in a dump:

| Theorem | Statement |
|---|---|
| `OnlyTestedIsMeasured` | `Spec => []MeasuresOnlyTested` |
| `EntriesAreSafe` | `Spec => []EntriesStaySafe` |
| `TimingStartsFromNothing` | `Spec => []StartsFromNothing` |
| `EndsWithDelete` | `Spec => []LeavesWithDelete` |
| `EverythingIsFreed` | `Spec => []NothingLeaks` |
| `DumpIsCaptured` | `Spec => []CaptureCoversDump` |
| `ReportStaysTrue` | `Spec => []ReportIsTrue` |
| `TypeCorrect` | `Spec => []TypeOK` |

Its invariant has one part per concern. `Stages` says that one part of the program
is under way at a time and that what follows the selftests follows a verdict that
is not hard; everything else rests on it, because it says which actions cannot
happen. `Tested` is what such a verdict means, `Requests` what the last request
was, `Heap` which blocks may be allocated, `Captured` what the handle has
received, `Reported` which phase was blamed, each by the stage reached. `TypeOK` also
bounds the counts, and those bounds are inductive on top of it (`Limits`).

`NetlinkTransportProofs` proves, for every range of sequence numbers from 2 on, every
timeout and any number of messages left over when a call starts:

| Theorem | Statement |
|---|---|
| `InvHolds` | `Spec => []Inv` |
| `ImplementsRequestReply` | `Spec => AnswersOwnRequest` |

The inductive invariant `Inv` is `TypeOK /\ InOrder`. `AnswersOwnRequest` alone is not
inductive: it says nothing of the messages still on their way. `InOrder` follows one
answer through the three places its messages can be in, with the index in the
answer where each datagram continues (`Continues`); `Receive` moves the first of
those indices, `Deliver` appends one, and `Call` starts them all at zero, where the
assumption `Fresh` says that nothing under way has the new number. Once the message that
ends the call is read, the count before it is the length of the answer less one.

`RacePairingProofs` proves, for every outcome of the random numbers:

| Theorem | Statement |
|---|---|
| `InvHolds` | `Spec => []Inv` |
| `SlotsArePairs` | `Spec => []EverySlotIsAPair` |
| `PolicyHolds` | `Spec => []ContentionCovered` |

The run covers the same states; the proof says why. `Inv` is `TypeOK` and
`OnePlaceEach`: an exchange keeps an array injective (`SwapInjective`), injective
arrays make the candidates disjoint, and disjoint candidates make the assignment of
a slot leave the slots before it alone.

`StatsProofs` proves, for any natural samples and fractions between 0 and 1, any
initial capacity, and any order of calls and failing allocations:

| Theorem | Statement |
|---|---|
| `TypeCorrect` | `Spec => []TypeOK` |
| `FlagHolds` | `Spec => []FlagIsTrue` |
| `FiguresInOrder` | `Spec => []SummaryOrdered` |
| `CountsAsABag` | `Spec => ImplementsBag` |

The three invariants are inductive together. What the proof needs beside them is
about data: that the sequence `Ascending` chooses exists (insert the last sample into
the sorted rest), that the place of a sample in a sorted sequence bounds how many
samples are at most as large (ranks are counts), and that interpolation between two
neighbours is monotone in the fraction. With these every step that answers a question
is the step of SampleBag that answers it by counting.

`GateCodecProofs` proves, for any lists of up to `MaxEntries <= 2044` entries:

| Theorem | Statement |
|---|---|
| `TypeCorrect` | `Spec => []TypeOK` |
| `EveryMessageFits` | `Spec => []MessagesFit` |
| `SchedulesSurvive` | `Spec => []RoundTrip` |
| `EntriesStay` | `Spec => SendBackKeepsEntries` |
| `BuffersHold` | a message of at most as many entries as its buffer was sized for fits it |
| `PlainBuffersHold` | the messages without a schedule fit their buffers |

2044 entries is where the 16-bit length of the enclosing nest ends. The parser is
reasoned about by parts: the value of a type in `a \o b` is the one in `b` if `b` has
the type and otherwise the one in `a` (`ValueConcat`), so a request or a reply parses
to what its parts were made of (`RequestParsed`, `AnswerParsed`); an attribute left
out stands for the value the parser fills in (`OptionalValue`). The invariant `IInv`
says that every schedule on the way is `Sound`, so that the lemmas apply to it, that
the message of each stage has one of the known forms, and that the entries in the
kernel are numbered in order, which is what makes the send-back exact.

Induction over data. The library's induction theorems take an operator as a
parameter, which the installed provers cannot instantiate. Where a proof needs
induction (a sorted sequence exists, a sum of intervals exists, a set of places has a
last one), it takes the least counterexample instead: `WFMin` over a set of natural
numbers needs no operator (`LeastElement`).

Model-checked only: all liveness (`PartnerReleased`, `EveryWaitEnds`, `PhaseFinishes`,
the fair half of `RendezvousFairSpec`, `RunReturns`, `EveryCallReturns`,
`ProgramEnds`), because the prover has no rules for fairness and ENABLED; and the four
disagreements, which are counterexamples.

## 5. Plan

What is left, in this order:

1. Theorems on how the parts fit: that what RacePairing leaves is a pairing RacePhases
   may start a phase with, and what Rendezvous and RequestReply promise by themselves.
2. `FzDelay`: the sampling states of `pair_update`, with the averages as intervals.

## 6. Not modelled

* The times, averages and random delay of a pair: floating-point data no control
  here depends on, except the delay loops, which only take time.
  `tst_fzsync_run_a/b`, and a thread B started by the library, are not used by the
  program.
* The traffic worker: packets to the loopback device, and counters.
* The figures of a summary besides percentiles and medians (mean, deviation,
  operations per second), the rounding of a double, and samples of 2^53 ns or more.
* The single selftests: requests whose expected answers are statements about the
  kernel. Here each may pass or fail.
* The statistics and timestamps of a reply, which only a printout reads; the
  memory of the race workers.
* Utilities, the wording of the text and JSON output, and the scripts under
  `tools/`: thin wrappers or formatting.
