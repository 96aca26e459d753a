------------------------------- MODULE Program -------------------------------
(***************************************************************************)
(* The program from its command line to its exit code (src/main.c): main   *)
(* parses the options, pins the CPU, and runs either race mode, or the     *)
(* selftests followed by the dump proof or by the benchmark.  With --json  *)
(* it then prints one report, and frees the summary of the benchmark.      *)
(*                                                                         *)
(* Race mode is the action RaceMode here: module RacePhases shows that it  *)
(* returns.  Each other part is the module of its name, running between    *)
(* the call and the return of its entry point.                             *)
(***************************************************************************)
EXTENDS Selftests, DumpProof, Benchmark

VARIABLES
    main,         \* where main is
    exitCode,     \* "success" or "failure"
    errorPhase,   \* the phase that failed, "none" for NULL
    raced,        \* race_out points to the race summary
    report,       \* what the printed report says, before it NoReport
    corrupt       \* a block was used or freed after it was freed

mainVars == <<main, exitCode, errorPhase, raced, report, corrupt>>
vars == <<sessionVars, selftestVars, proofVars, benchVars, mainVars>>

NoReport == [printed |-> FALSE]
NoConfig == Config([json |-> FALSE, mode |-> "benchmark", help |-> FALSE, valid |-> TRUE,
                    iters |-> 1, warmup |-> 0, runs |-> 0, entries |-> 1,
                    interval |-> MaxInterval, sampleEvery |-> 0])

Init ==
    /\ cfg = NoConfig
    /\ gate \in {Absent, "other"}
    /\ lastRequest = "none"
    /\ SelftestsInit /\ ProofInit /\ BenchInit
    /\ main = "start"
    /\ exitCode = "success"
    /\ errorPhase = "none"
    /\ raced = FALSE
    /\ report = NoReport
    /\ corrupt = FALSE

-----------------------------------------------------------------------------

\* json_print_report: sections are those that are not null, and selftests is the
\* status in the object of the selftests, "none" for its "skipped".
Report(phase, code, selftests, sections) ==
    [printed |-> TRUE, ok |-> code = "success", phase |-> phase,
     selftests |-> selftests, sections |-> sections]

Blame(phase) ==
    /\ main' = "out"
    /\ exitCode' = "failure"
    /\ errorPhase' = phase

ParseCommandLine ==
    /\ main = "start"
    /\ \E o \in Options :
         CASE o.help ->      \* exit(0) in the parser
                /\ main' = "done"
                /\ UNCHANGED <<cfg, exitCode, errorPhase, report>>
           [] ~o.help /\ Rejected(o) ->
                /\ main' = "done"
                /\ exitCode' = "failure"
                /\ report' = IF o.json THEN Report("cli_parse", "failure", "none", {"selftests"})
                                    ELSE NoReport
                /\ UNCHANGED <<cfg, errorPhase>>
           [] OTHER ->
                /\ main' = "pin"
                /\ cfg' = Config(o)
                /\ UNCHANGED <<exitCode, errorPhase, report>>
    /\ UNCHANGED <<gate, lastRequest, raced, corrupt, selftestVars, proofVars, benchVars>>

\* gb_util_pin_cpu, when a CPU was asked for.
PinCpu ==
    /\ main = "pin"
    /\ \/ Blame("pin_cpu")
       \/ /\ main' = IF cfg.race THEN "race" ELSE "selftests"
          /\ UNCHANGED <<exitCode, errorPhase>>
    /\ UNCHANGED <<raced, report, corrupt, sessionVars, selftestVars, proofVars, benchVars>>

\* The workers leave the action there or not; the report gets a summary even of a
\* race that failed.
RaceMode ==
    /\ main = "race"
    /\ gate' \in {gate, Absent, "ours"}
    /\ \/ Blame("race")
       \/ main' = "out" /\ UNCHANGED <<exitCode, errorPhase>>
    /\ raced' = cfg.json
    /\ UNCHANGED <<cfg, lastRequest, report, corrupt, selftestVars, proofVars, benchVars>>

CallSelftests ==
    /\ main = "selftests"
    /\ StartSelftests
    /\ main' = "in selftests"
    /\ UNCHANGED <<exitCode, errorPhase, raced, report, corrupt, sessionVars, proofVars, benchVars>>

CallProof ==
    /\ StartProof
    /\ main' = "in proof"
    /\ UNCHANGED <<exitCode, errorPhase, benchVars>>

CallBench ==
    /\ StartBench
    /\ main' = "in benchmark"
    /\ UNCHANGED <<exitCode, errorPhase, proofVars>>

AfterSelftests ==
    /\ main = "in selftests" /\ suite = "over"
    /\ CASE result = "hard" -> Blame("selftests") /\ UNCHANGED <<proofVars, benchVars>>
         [] result # "hard" /\ cfg.dumpProof -> CallProof
         [] OTHER -> CallBench
    /\ UNCHANGED <<raced, report, corrupt, sessionVars, selftestVars>>

AfterProof ==
    /\ main = "in proof" /\ proof = "over"
    /\ IF verdict = "error"
         THEN Blame("dump_proof")
         ELSE main' = "out" /\ UNCHANGED <<exitCode, errorPhase>>
    /\ UNCHANGED <<raced, report, corrupt, sessionVars, selftestVars, proofVars, benchVars>>

AfterBenchKeepsCode ==
    /\ main = "in benchmark" /\ bench = "returned"
    /\ main' = "out"
    /\ errorPhase' = IF outcome = "error" THEN "benchmark" ELSE "none"
    /\ UNCHANGED <<exitCode, raced, report, corrupt, sessionVars, selftestVars, proofVars, benchVars>>

AfterBench ==
    /\ main = "in benchmark" /\ bench = "returned"
    /\ IF outcome = "error"
         THEN Blame("benchmark")
         ELSE main' = "out" /\ UNCHANGED <<exitCode, errorPhase>>
    /\ UNCHANGED <<raced, report, corrupt, sessionVars, selftestVars, proofVars, benchVars>>

\* The selftests are an object in every report; the others follow dump_out,
\* benchmark_out and race_out, and a benchmark without runs is null as well.
Sections ==
    {"selftests"}
    \cup (IF verdict # "none" THEN {"dump_proof"} ELSE {})
    \cup (IF outcome = "ok" /\ published /\ cfg.runs > 0 THEN {"benchmark"} ELSE {})
    \cup (IF raced THEN {"race"} ELSE {})

PrintReport ==
    /\ main = "out"
    /\ main' = "free"
    /\ report' = IF cfg.json THEN Report(errorPhase, exitCode, result, Sections) ELSE NoReport
    /\ UNCHANGED <<exitCode, errorPhase, raced, corrupt,
                   sessionVars, selftestVars, proofVars, benchVars>>

\* gb_summary_free: the samples of each result, then the results.
FreeSummary ==
    /\ main = "free"
    /\ main' = "done"
    /\ IF published
         THEN /\ corrupt' = (Results \notin heap)
              /\ heap' = heap \ ResultBlocks
         ELSE UNCHANGED <<corrupt, heap>>
    /\ UNCHANGED <<exitCode, errorPhase, raced, report, sessionVars, selftestVars, proofVars>>
    /\ UNCHANGED <<bench, run, turn, count, kept, runs, published, outcome>>

MainStep ==
    \/ ParseCommandLine \/ PinCpu \/ RaceMode \/ CallSelftests
    \/ AfterSelftests \/ AfterProof \/ AfterBench \/ PrintReport \/ FreeSummary

\* The thread of main, which is also that of the part it has called.
Main ==
    \/ MainStep
    \/ SelftestStep /\ UNCHANGED <<mainVars, proofVars, benchVars>>
    \/ ProofStep /\ UNCHANGED <<mainVars, selftestVars, benchVars>>
    \/ BenchStep /\ UNCHANGED <<mainVars, selftestVars, proofVars>>

Capturing == CaptureReads /\ UNCHANGED <<sessionVars, mainVars, selftestVars, benchVars>>
CaptureThread ==
    \/ Capturing
    \/ CaptureFails /\ UNCHANGED <<sessionVars, mainVars, selftestVars, benchVars>>

Next == Main \/ CaptureThread

Spec == Init /\ [][Next]_vars

\* Every call returns: the requests have timeouts, and the read of the capture
\* does.  Nothing makes an interface fail.
FairSpec == Spec /\ WF_vars(Main) /\ WF_vars(Capturing)

-----------------------------------------------------------------------------
(* Properties *)

TypeOK ==
    /\ cfg \in Configs
    /\ SessionTypeOK /\ SelftestsTypeOK /\ ProofTypeOK /\ BenchTypeOK
    /\ main \in {"start", "pin", "race", "selftests", "in selftests", "in proof",
                 "in benchmark", "out", "free", "done"}
    /\ exitCode \in {"success", "failure"}
    /\ errorPhase \in {"none", "pin_cpu", "race", "selftests", "dump_proof", "benchmark"}
    /\ {raced, corrupt} \subseteq BOOLEAN

\* The benchmark and the dump proof send nothing to a kernel that failed a
\* selftest it must pass, however many other tests failed softly
\* (gb_selftest_run, and main's use of what it returns).
MeasuresOnlyTested ==
    lastRequest # "none" => failed["internal"] = 0 /\ failed["stable"] = 0

\* After a failed large dump no request carries more entries than the kernel is
\* known to dump, unless the benchmark was started with fewer anyway.
EntriesStaySafe ==
    lastRequest # "none" /\ failed["unpatched"] > 0 => cfg.entries <= SafeEntries

\* The clock starts on an index without an action: whatever the selftests, an
\* earlier run or somebody else left there, the first timed create makes one.
StartsFromNothing == bench = "timed_create" /\ turn = 0 => gate = Absent

\* The dump proof ends with a delete once it has sent anything, whichever of its
\* steps failed; a benchmark that succeeds does as well.
LeavesWithDelete ==
    \/ proof = "over" /\ lastRequest # "none"
    \/ bench = "returned" /\ outcome = "ok"
    => lastRequest = "delete"

\* When the program ends after main's last call, every block of the benchmark
\* was freed: by the run that made it, by gb_bench_run, or by gb_summary_free.
NothingLeaks == main = "done" => heap = {}

\* The capture thread is only ever in pcap_loop while the handle it reads from
\* and the file it writes to are open; and as long as they are, each message of
\* the dump is in the file or still to be read: none passed before the capture.
CaptureCoversDump ==
    /\ capture \in {"started", "looping"} => handle
    /\ enabled /\ handle => sent = ring + file

\* What a report can say of the parts of the program when a phase failed, or none.
Tells(r, statuses, sections) == r.selftests \in statuses /\ r.sections = sections

\* The report agrees with the exit code, and tells exactly what the program got to
\* before the phase it blames (json_print_report after main's label out): no result
\* of a part that was not run or of a benchmark that failed, a status of the
\* selftests only when they ran, and none but a pass before a measurement.  Their
\* section is in every report, with or without that status: it is the one inactive
\* section that is not null, unlike what README.md:232 says.
ReportIsTrue ==
    report.printed =>
      /\ report.ok = (exitCode = "success") /\ report.ok = (report.phase = "none")
      /\ report.phase \in {"cli_parse", "pin_cpu"} => Tells(report, {"none"}, {"selftests"})
      /\ report.phase = "race" => Tells(report, {"none"}, {"selftests", "race"})
      /\ report.phase = "selftests" => Tells(report, {"hard"}, {"selftests"})
      /\ report.phase = "dump_proof" =>
           Tells(report, {"ok", "soft"}, {"selftests", "dump_proof"})
      /\ report.phase = "benchmark" => Tells(report, {"ok", "soft"}, {"selftests"})
      /\ report.ok => \/ Tells(report, {"none"}, {"selftests", "race"})
                      \/ Tells(report, {"ok", "soft"}, {"selftests", "dump_proof"})
                      \/ Tells(report, {"ok", "soft"}, {"selftests", "benchmark"})

\* The program ends, also when the capture thread meets the break of its loop
\* before it has entered it.
ProgramEnds == <>(main = "done")

\* What include/gatebench_bench.h:15 declares gb_summary_free to do: it frees the
\* summary.  It is not to free what gb_bench_run has freed after an error.
SummaryFreedOnce == ~corrupt
=============================================================================
