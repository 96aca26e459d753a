------------------------------ MODULE Benchmark ------------------------------
(***************************************************************************)
(* The benchmark (src/bench.c): gb_bench_run makes cfg.runs measured runs  *)
(* on one socket and reduces their results to a summary.  A run warms up,  *)
(* deletes the action, times iterations of a create and a replace, deletes *)
(* the action again and computes its statistics.  The first error of any   *)
(* step ends the benchmark.                                                *)
(*                                                                         *)
(* The memory is modelled block by block: the array of the results, the    *)
(* samples of each result, as one block whatever a measured run allocates  *)
(* for itself, and as one block the arrays the medians are taken of.       *)
(***************************************************************************)
EXTENDS Session, FiniteSets

VARIABLES
    bench,       \* where the benchmark is
    run,         \* the run under way, counted from 0
    turn,        \* the iteration of the warm-up or of the timed loop under way
    count,       \* stats.count: the samples of the run
    heap,        \* the blocks that are allocated
    kept,        \* the runs whose result points to its samples
    runs,        \* the local pointer to the results: is it set
    published,   \* summary->runs points to the results
    outcome      \* what the benchmark is about to return, or returned: "none", "ok", "error"

Working == <<"working", 0>>
Results == <<"results", 0>>
Samples(i) == <<"samples", i>>
Medians == <<"medians", 0>>

benchVars == <<bench, run, turn, count, heap, kept, runs, published, outcome>>

BenchInit ==
    /\ bench = "idle"
    /\ run = 0 /\ turn = 0 /\ count = 0
    /\ heap = {}
    /\ kept = {}
    /\ runs = FALSE /\ published = FALSE
    /\ outcome = "none"

StartBench ==
    /\ bench = "idle"
    /\ bench' = "open"
    /\ UNCHANGED <<run, turn, count, heap, kept, runs, published, outcome>>

-----------------------------------------------------------------------------
(* One measured run: benchmark_single_run *)

\* The end of the benchmark with an error: the run frees what it works with.
Fail ==
    /\ bench' = "out"
    /\ outcome' = "error"
    /\ heap' = heap \ {Working}
    /\ UNCHANGED <<run, turn, count, kept, runs, published>>

GoOn(stage) ==
    /\ bench' = stage
    /\ UNCHANGED <<run, count, heap, kept, runs, published, outcome>>

\* The statistics, the entries and the messages.
SetUpRun ==
    /\ bench = "setup"
    /\ UNCHANGED sessionVars
    /\ \/ Fail      \* no memory
       \/ /\ cfg.interval <= MaxInterval       \* gb_fill_entries
          /\ bench' = IF cfg.warmup > 0 THEN "warm_create" ELSE "clear"
          /\ heap' = heap \cup {Working}
          /\ turn' = 0 /\ count' = 0
          /\ UNCHANGED <<run, kept, runs, published, outcome>>

WarmUpCreate ==
    /\ bench = "warm_create"
    /\ \E end \in CreateEnds :
         /\ Request("create", end)
         /\ IF end.ret \in {"ok", "EEXIST"}
              THEN GoOn("warm_replace") /\ UNCHANGED turn
              ELSE Fail

WarmUpReplace ==
    /\ bench = "warm_replace"
    /\ \E end \in ReplaceEnds :
         /\ Request("replace", end)
         /\ IF end.ret # "ok"
              THEN Fail
              ELSE IF turn + 1 < cfg.warmup
                THEN GoOn("warm_create") /\ turn' = turn + 1
                ELSE GoOn("clear") /\ turn' = 0

ClearedByAnything(end) == TRUE

\* Before the clock starts.
ClearedBy(end) == end.ret \in {"ok", "ENOENT"}

Clear ==
    /\ bench = "clear"
    /\ \E end \in DeleteEnds :
         /\ Request("delete", end)
         /\ IF ClearedBy(end) THEN GoOn("timed_create") /\ UNCHANGED turn ELSE Fail

\* stats_add_sample, in either half of an iteration.
Sampled == cfg.sampleEvery = 0 \/ turn % cfg.sampleEvery = 0

\* Nobody looks at the error of gb_stats_add, which loses the sample: the array has
\* to grow, and there is no memory, once iters * 2 was too much for 32 bits.
AddSample == count' \in IF Sampled THEN {count, count + 1} ELSE {count}

TimedCreate ==
    /\ bench = "timed_create"
    /\ \E end \in CreateEnds :
         /\ Request("create", end)
         /\ IF end.ret \in {"ok", "EEXIST"}
              THEN /\ AddSample
                   /\ bench' = "timed_replace"
                   /\ UNCHANGED <<run, turn, heap, kept, runs, published, outcome>>
              ELSE Fail

TimedReplace ==
    /\ bench = "timed_replace"
    /\ \E end \in ReplaceEnds :
         /\ Request("replace", end)
         /\ IF end.ret = "ok"
              THEN /\ AddSample
                   /\ turn' = turn + 1
                   /\ bench' = IF turn + 1 < cfg.iters THEN "timed_create" ELSE "remove"
                   /\ UNCHANGED <<run, heap, kept, runs, published, outcome>>
              ELSE Fail

\* The clock is read before and after every timed request, which may fail; a
\* failure after a request is seen here before the next one.
ClockFails ==
    /\ bench \in {"timed_create", "timed_replace", "remove"}
    /\ Fail
    /\ UNCHANGED sessionVars

\* The result of the last delete is of no account.
Remove ==
    /\ bench = "remove"
    /\ \E end \in DeleteEnds : Request("delete", end)
    /\ GoOn("reckon") /\ UNCHANGED turn

\* gb_stats_calculate, which needs a sample; and the copy of the samples, which
\* is done without when there is no memory.
Reckon ==
    /\ bench = "reckon"
    /\ UNCHANGED sessionVars
    /\ IF count = 0
         THEN Fail
         ELSE /\ \E keep \in (IF cfg.sampleEvery > 0 THEN BOOLEAN ELSE {FALSE}) :
                   /\ kept' = IF keep THEN kept \cup {run} ELSE kept
                   /\ heap' = (heap \ {Working})
                              \cup (IF keep THEN {Samples(run)} ELSE {})
              /\ run' = run + 1
              /\ bench' = IF run + 1 < cfg.runs THEN "setup" ELSE "publish"
              /\ UNCHANGED <<turn, count, runs, published, outcome>>

-----------------------------------------------------------------------------
(* All the runs: gb_bench_run *)

\* The socket, and calloc, which returns a block of its own for no results too.
OpenBench ==
    /\ bench = "open"
    /\ UNCHANGED sessionVars
    /\ UNCHANGED <<run, turn, count, kept, published>>
    /\ \/ bench' = "returned" /\ outcome' = "error" /\ UNCHANGED <<heap, runs>>
       \/ bench' = "out" /\ outcome' = "error" /\ UNCHANGED <<heap, runs>>
       \/ /\ heap' = heap \cup {Results}
          /\ runs' = TRUE
          /\ bench' = IF cfg.runs > 0 THEN "setup" ELSE "publish"
          /\ UNCHANGED outcome

\* The summary gets the results before the first median is computed, which needs
\* memory.
Publish ==
    /\ bench = "publish"
    /\ published' = TRUE
    /\ UNCHANGED sessionVars
    /\ UNCHANGED <<run, turn, count, kept, runs>>
    /\ \/ bench' = "out" /\ outcome' = "error" /\ UNCHANGED heap
       \/ bench' = "medians" /\ heap' = heap \cup {Medians} /\ UNCHANGED outcome

\* The medians, which need a run, and memory for the four arrays of percentiles.
TakeMedians ==
    /\ bench = "medians"
    /\ bench' = "out"
    /\ \/ outcome' = "error" /\ UNCHANGED heap
       \/ cfg.runs > 0 /\ outcome' = "ok" /\ heap' = heap \ {Medians}
    /\ UNCHANGED sessionVars
    /\ UNCHANGED <<run, turn, count, kept, runs, published>>

ResultBlocksShallow == {Results}

ResultBlocks == {Results} \cup {Samples(i) : i \in kept}

\* The arrays of the medians are freed, and the results after an error; the summary
\* is left as it is.
LeaveBench ==
    /\ bench = "out"
    /\ bench' = "returned"
    /\ heap' = heap \ ({Medians} \cup IF outcome = "error" /\ runs THEN ResultBlocks ELSE {})
    /\ UNCHANGED sessionVars
    /\ UNCHANGED <<run, turn, count, kept, runs, published, outcome>>

BenchStep ==
    \/ OpenBench \/ SetUpRun \/ WarmUpCreate \/ WarmUpReplace \/ Clear
    \/ TimedCreate \/ TimedReplace \/ ClockFails \/ Remove \/ Reckon
    \/ Publish \/ TakeMedians \/ LeaveBench

BenchTypeOK ==
    /\ bench \in {"idle", "open", "setup", "warm_create", "warm_replace", "clear",
                  "timed_create", "timed_replace", "remove", "reckon", "publish",
                  "medians", "out", "returned"}
    /\ run \in 0..cfg.runs
    /\ kept \subseteq 0..cfg.runs - 1
    /\ heap \subseteq {Working, Medians} \cup ResultBlocks
    /\ {runs, published} \subseteq BOOLEAN
    /\ outcome \in {"none", "ok", "error"}
=============================================================================
