----------------------------- MODULE ProgramProofs -----------------------------
(***************************************************************************)
(* Proofs about the program as a whole, for any limits, any numbers of     *)
(* runs and of tests, and any length of a dump: module Program.            *)
(***************************************************************************)
EXTENDS Program, TLAPS

(***************************************************************************)
(* The inductive invariant, in parts.                                      *)
(***************************************************************************)

Places == {"start", "pin", "race", "selftests", "in selftests", "in proof",
           "in benchmark", "out", "free", "done"}
Leaving == {"out", "free", "done"}
SuiteStages == Suites \cup {"idle", "open", "verdict", "over"}
ProofStages == {"idle", "open", "clear", "create", "capture", "ask", "answer",
                "out", "join", "remove", "over"}
BenchStages == {"idle", "open", "setup", "warm_create", "warm_replace", "clear",
                "timed_create", "timed_replace", "remove", "reckon", "publish",
                "medians", "out", "returned"}

Typed ==
    /\ cfg \in Configs
    /\ suite \in SuiteStages /\ failed \in [Suites -> Nat]
    /\ result \in {"none", "ok", "soft", "hard"}
    /\ proof \in ProofStages /\ verdict \in {"none", "ok", "error"}
    /\ bench \in BenchStages /\ outcome \in {"none", "ok", "error"}
    /\ turn \in Nat
    /\ main \in Places

\* One part of the program is under way at a time, in the order main calls them,
\* and what follows the selftests follows selftests that were passed.
Stages ==
    /\ main \in {"start", "pin", "race", "selftests"} =>
         suite = "idle" /\ proof = "idle" /\ bench = "idle"
    /\ main = "in selftests" => suite # "idle" /\ proof = "idle" /\ bench = "idle"
    /\ main = "in proof" => suite = "over" /\ proof # "idle" /\ bench = "idle"
    /\ main = "in benchmark" => suite = "over" /\ proof = "idle" /\ bench # "idle"
    /\ main \in Leaving =>
         suite \in {"idle", "over"} /\ proof \in {"idle", "over"} /\ bench \in {"idle", "returned"}
    /\ proof = "idle" \/ bench = "idle"
    /\ suite = "over" <=> result # "none"
    /\ proof # "idle" \/ bench # "idle" => result \in {"ok", "soft"}
    /\ verdict # "none" <=> proof \in {"out", "join", "remove", "over"}
    /\ outcome # "none" <=> bench \in {"out", "returned"}

\* What passed selftests mean.
Tested ==
    result \in {"ok", "soft"} =>
      /\ failed["internal"] = 0 /\ failed["stable"] = 0
      /\ failed["unpatched"] > 0 => cfg.entries <= SafeEntries

\* The last request and the action, by stage.
Requests ==
    /\ lastRequest # "none" => proof \notin {"idle", "open"} \/ bench # "idle"
    /\ proof = "over" /\ lastRequest # "none" => lastRequest = "delete"
    /\ bench = "reckon" => lastRequest = "delete"
    /\ bench \in {"publish", "medians"} /\ cfg.runs > 0 => lastRequest = "delete"
    /\ bench \in {"out", "returned"} /\ outcome = "ok" => lastRequest = "delete"
    /\ bench = "timed_create" /\ turn = 0 => gate = Absent

\* The blocks that may be allocated, by stage.
Heap ==
    /\ bench \in {"idle", "open"} => heap = {}
    /\ bench \notin {"idle", "open", "out", "returned"} => runs
    /\ bench \in {"setup", "publish"} => heap \subseteq ResultBlocks
    /\ bench \notin {"medians", "out"} => heap \subseteq {Working} \cup ResultBlocks
    /\ bench \in {"medians", "out"} => heap \subseteq {Medians} \cup ResultBlocks
    /\ bench = "medians" => published
    /\ bench = "out" => runs \/ heap = {}
    /\ bench = "returned" => heap \subseteq ResultBlocks /\ (outcome = "error" => heap = {})
    /\ outcome = "ok" => published /\ cfg.runs > 0
    /\ main = "done" => heap = {}

\* The capture and what it has seen, by stage.
Captured ==
    /\ sent \in Nat /\ ring \in Nat /\ file \in Nat
    /\ proof \in {"idle", "open", "clear", "create", "capture"} =>
         ~handle /\ capture = "none" /\ sent = 0 /\ ring = 0 /\ file = 0
    /\ capture \in {"started", "looping"} => handle
    /\ handle => sent = ring + file

\* The phase blamed, and the report.
Reported ==
    /\ main # "done" => (exitCode = "success" <=> errorPhase = "none")
    /\ main \notin Leaving => errorPhase = "none" /\ ~raced
    /\ raced => suite = "idle"
    /\ main = "out" /\ errorPhase = "none" =>
         \/ suite = "idle" /\ (cfg.json => raced)
         \/ proof = "over" /\ verdict = "ok"
         \/ bench = "returned" /\ outcome = "ok"
    /\ errorPhase = "pin_cpu" => suite = "idle" /\ ~raced
    /\ errorPhase = "race" => suite = "idle" /\ (cfg.json => raced)
    /\ errorPhase = "selftests" => result = "hard"
    /\ errorPhase = "dump_proof" => proof = "over"
    /\ errorPhase = "benchmark" => bench = "returned" /\ outcome = "error"
    /\ errorPhase # "cli_parse"
    /\ main \notin {"free", "done"} => report = NoReport
    /\ ReportIsTrue

IInv ==
    /\ Typed /\ Stages
    /\ Tested /\ Requests /\ Heap /\ Captured /\ Reported

-----------------------------------------------------------------------------
(* The configuration *)

LEMMA NoConfigTyped == NoConfig \in Configs
  BY MaxEntriesAssumption, MaxIntervalAssumption DEF NoConfig, Config, Configs, Capped

LEMMA MemberIsBoolean ==
  ASSUME NEW x, NEW S
  PROVE  (x \in S) \in BOOLEAN
  BY SMT

LEMMA ConfigTyped ==
  ASSUME NEW o \in Options, ~Rejected(o)
  PROVE  Config(o) \in Configs
<1>1. o.entries \in Nat \ {0} /\ o.iters \in {1, 3} /\ o.interval \in {MaxInterval, MaxInterval + 1}
  BY MaxEntriesAssumption, MaxIntervalAssumption DEF Options, Rejected
<1>2. Capped(o.entries) \in 1..MaxEntries
  BY <1>1, MaxEntriesAssumption DEF Capped
<1>3. (o.mode \in {"race", "race+dump"}) \in BOOLEAN
  BY MemberIsBoolean
<1>4. (o.mode \in {"dump", "race+dump", "pcap"}) \in BOOLEAN
  BY MemberIsBoolean
<1>5. (o.mode = "pcap") \in BOOLEAN
  BY Zenon
<1>6. /\ o.json \in BOOLEAN /\ o.warmup \in {0, 1} /\ o.runs \in RunChoices \cup {0}
      /\ o.sampleEvery \in {0, 2}
  BY DEF Options
<1>7. ASSUME NEW a \in BOOLEAN, NEW b \in BOOLEAN, NEW c \in BOOLEAN,
             NEW n \in 1..MaxEntries
      PROVE  [json |-> o.json, race |-> a, dumpProof |-> b, pcap |-> c,
              iters |-> o.iters, warmup |-> o.warmup, runs |-> o.runs,
              entries |-> n, interval |-> o.interval,
              sampleEvery |-> o.sampleEvery] \in Configs
  BY <1>1, <1>6 DEF Configs
<1> QED BY <1>2, <1>3, <1>4, <1>5, <1>7, Zenon DEF Config

\* Lowering changes the number of entries at most, to the safe one.
LEMMA LoweredConfig ==
  ASSUME NEW c \in Configs
  PROVE  /\ Lowered(c) \in Configs
         /\ Lowered(c).runs = c.runs /\ Lowered(c).json = c.json
         /\ Passed("unpatched") /\ failed["unpatched"] > 0 => Lowered(c).entries <= SafeEntries
<1>1. CASE Passed("unpatched") /\ failed["unpatched"] > 0 /\ c.entries > SafeEntries
  <2>1. Lowered(c) = [c EXCEPT !.entries = SafeEntries]
    BY <1>1 DEF Lowered
  <2>2. SafeEntries \in 1..MaxEntries
    BY <1>1, SafeEntriesAssumption, MaxEntriesAssumption DEF Configs
  <2>3. Lowered(c) \in Configs
    BY <2>1, <2>2 DEF Configs
  <2>4. Lowered(c).runs = c.runs /\ Lowered(c).json = c.json /\ Lowered(c).entries = SafeEntries
    BY <2>1 DEF Configs
  <2>5. SafeEntries <= SafeEntries
    BY SafeEntriesAssumption
  <2> QED BY <2>3, <2>4, <2>5
<1>2. CASE ~(Passed("unpatched") /\ failed["unpatched"] > 0 /\ c.entries > SafeEntries)
  <2>1. Lowered(c) = c
    BY <1>2 DEF Lowered
  <2>2. c.entries \in Nat
    BY MaxEntriesAssumption DEF Configs
  <2> QED BY <1>2, <2>1, <2>2, SafeEntriesAssumption
<1> QED BY <1>1, <1>2

-----------------------------------------------------------------------------
(* The initial states *)

LEMMA InitIInv == Init => IInv
<1> SUFFICES ASSUME Init PROVE IInv
  OBVIOUS
<1>1. /\ cfg = NoConfig /\ lastRequest = "none"
      /\ suite = "idle" /\ failed = [s \in Suites |-> 0] /\ result = "none"
      /\ proof = "idle" /\ verdict = "none" /\ ~handle /\ capture = "none"
      /\ sent = 0 /\ ring = 0 /\ file = 0
      /\ bench = "idle" /\ turn = 0 /\ heap = {} /\ outcome = "none"
      /\ main = "start" /\ exitCode = "success" /\ errorPhase = "none" /\ ~raced
      /\ report = NoReport
  BY DEF Init, SelftestsInit, ProofInit, BenchInit, NoFailures
<1>2. Typed
  BY <1>1, NoConfigTyped DEF Typed, SuiteStages, ProofStages, BenchStages, Places
<1>3. Stages
  BY <1>1 DEF Stages, Leaving
<1>4. Tested /\ Requests
  BY <1>1 DEF Tested, Requests
<1>5. Heap
  BY <1>1 DEF Heap
<1>6. Captured
  BY <1>1 DEF Captured
<1>7. Reported
  BY <1>1 DEF Reported, Leaving, ReportIsTrue, Tells, NoReport
<1> QED BY <1>2, <1>3, <1>4, <1>5, <1>6, <1>7 DEF IInv

-----------------------------------------------------------------------------
(* The selftests *)

\* While a suite runs, nothing else does, and nothing is known.
LEMMA DuringSelftests ==
  ASSUME IInv, suite \notin {"idle", "over"}
  PROVE  /\ main = "in selftests" /\ proof = "idle" /\ bench = "idle"
         /\ result = "none" /\ verdict = "none" /\ outcome = "none"
         /\ errorPhase = "none" /\ ~raced /\ lastRequest = "none"
<1>1. main = "in selftests" /\ proof = "idle" /\ bench = "idle"
  BY DEF IInv, Typed, Stages, Places, Leaving
<1>2. result = "none" /\ verdict = "none" /\ outcome = "none" /\ lastRequest = "none"
  BY <1>1 DEF IInv, Stages, Requests
<1>3. errorPhase = "none" /\ ~raced
  BY <1>1 DEF IInv, Reported, Leaving
<1> QED BY <1>1, <1>2, <1>3

LEMMA SelftestsKeep ==
  ASSUME IInv, SelftestStep, UNCHANGED <<mainVars, proofVars, benchVars>>
  PROVE  IInv'
<1>1. /\ suite \notin {"idle", "over"}
      /\ lastRequest' = lastRequest
      /\ suite' \in SuiteStages \ {"idle"}
      /\ suite' = "over" <=> result' # "none"
      /\ result' \in {"none", "ok", "soft", "hard"}
  <2>1. result = "none" /\ suite \notin {"idle", "over"}
    BY DuringSelftests DEF SelftestStep, RunTest, OpenSocket, Verdict, Suites
  <2>2. CASE RunTest
    <3>1. After[suite] \in {"open", "historical", "unpatched", "verdict"}
      BY <2>2 DEF RunTest, Suites, After
    <3> QED BY <2>1, <2>2, <3>1 DEF RunTest, Suites, SuiteStages
  <2>3. CASE OpenSocket
    BY <2>1, <2>3 DEF OpenSocket, Suites, SuiteStages, sessionVars
  <2>4. CASE Verdict
    BY <2>1, <2>4 DEF Verdict, SuiteStages
  <2> QED BY <2>2, <2>3, <2>4 DEF SelftestStep
<1>2. /\ main = "in selftests" /\ proof = "idle" /\ bench = "idle"
      /\ verdict = "none" /\ outcome = "none"
      /\ errorPhase = "none" /\ ~raced /\ lastRequest = "none"
  BY <1>1, DuringSelftests
<1>3. UNCHANGED <<main, exitCode, errorPhase, raced, report, corrupt>>
  BY DEF mainVars
<1>4. UNCHANGED <<proof, verdict, enabled, pcapError, handle, capture, broken, sent, ring, file>>
  BY DEF proofVars
<1>5. UNCHANGED <<bench, run, turn, count, heap, kept, runs, published, outcome>>
  BY DEF benchVars
<1>6. cfg' \in Configs /\ failed' \in [Suites -> Nat]
  <2>1. CASE RunTest
    <3>1. PICK broken_ \in BOOLEAN :
            failed' = [failed EXCEPT ![suite] = @ + IF broken_ THEN 1 ELSE 0]
      BY <2>1 DEF RunTest
    <3>2. failed' \in [Suites -> Nat]
      BY <2>1, <3>1 DEF RunTest, IInv, Typed
    <3> QED BY <2>1, <3>2 DEF RunTest, IInv, Typed
  <2>2. CASE OpenSocket
    BY <2>2 DEF OpenSocket, sessionVars, IInv, Typed
  <2>3. CASE Verdict
    BY <2>3, LoweredConfig DEF Verdict, IInv, Typed
  <2> QED BY <2>1, <2>2, <2>3 DEF SelftestStep
<1>7. Typed'
  BY <1>1, <1>3, <1>4, <1>5, <1>6 DEF IInv, Typed
<1>8. Stages'
  BY <1>1, <1>2, <1>3, <1>4, <1>5 DEF Stages, Leaving
<1>9. Tested'
  <2>1. CASE RunTest
    BY <2>1, <1>1, DuringSelftests DEF RunTest, Tested
  <2>2. CASE OpenSocket
    BY <2>2, <1>1, DuringSelftests DEF OpenSocket, Tested
  <2>3. CASE Verdict
    <3> SUFFICES ASSUME result' \in {"ok", "soft"}
                 PROVE  /\ failed["internal"] = 0 /\ failed["stable"] = 0
                        /\ failed["unpatched"] > 0 => cfg'.entries <= SafeEntries
      BY <2>3 DEF Verdict, Tested
    <3>1. \A s \in Suites : Passed(s)
      <4> DEFINE bad == \E s \in Suites : ~Passed(s)
                 good == \A s \in Suites : failed[s] = 0
      <4>1. good => ~bad
        BY DEF Passed, SoftFailed
      <4>2. result' = CASE bad -> "hard" [] good -> "ok" [] OTHER -> "soft"
        BY <2>3 DEF Verdict
      <4> HIDE DEF bad, good
      <4>3. ~bad
        BY <4>1, <4>2
      <4> QED BY <4>3 DEF bad
    <3>2. failed["internal"] = 0 /\ failed["stable"] = 0
      BY <3>1 DEF Passed, SoftFailed, Soft, Suites
    <3>3. Passed("unpatched")
      BY <3>1 DEF Suites
    <3> QED BY <2>3, <3>2, <3>3, LoweredConfig DEF Verdict, IInv, Typed
  <2> QED BY <2>1, <2>2, <2>3 DEF SelftestStep
<1>10. Requests'
  BY <1>1, <1>2, <1>4, <1>5 DEF Requests
<1>11. Heap'
  BY <1>2, <1>3, <1>5 DEF IInv, Heap, ResultBlocks
<1>12. Captured'
  BY <1>4 DEF IInv, Captured
<1>13. Reported'
  BY <1>2, <1>3, <1>4, <1>5 DEF IInv, Reported, ReportIsTrue, Tells, Leaving
<1> QED BY <1>7, <1>8, <1>9, <1>10, <1>11, <1>12, <1>13 DEF IInv

-----------------------------------------------------------------------------
(* The dump proof *)

LEMMA DuringProof ==
  ASSUME IInv, proof \notin {"idle", "over"}
  PROVE  /\ main = "in proof" /\ suite = "over" /\ bench = "idle"
         /\ result \in {"ok", "soft"} /\ outcome = "none"
         /\ errorPhase = "none" /\ ~raced
<1>1. main = "in proof"
  BY DEF IInv, Typed, Stages, Places, Leaving
<1> QED BY <1>1 DEF IInv, Stages, Reported, Leaving

\* Where the dump proof gets to, and with which verdict and last request.
LEMMA ProofMoves ==
  ASSUME IInv, ProofStep
  PROVE  /\ proof \notin {"idle", "over"} /\ cfg' = cfg
         /\ proof' \in ProofStages \ {"idle", "open"}
         /\ verdict' \in {"none", "ok", "error"}
         /\ verdict' # "none" <=> proof' \in {"out", "join", "remove", "over"}
         /\ proof' = "over" /\ lastRequest' # "none" => lastRequest' = "delete"
<1>0. /\ proof = "open" => lastRequest = "none" /\ verdict = "none"
      /\ proof \in {"clear", "create", "capture", "ask", "answer"} => verdict = "none"
      /\ proof \in {"out", "join", "remove"} => verdict # "none"
      /\ verdict \in {"none", "ok", "error"}
  BY DEF IInv, Typed, Stages, Requests
<1>1. CASE OpenProof
  BY <1>0, <1>1 DEF OpenProof, GiveUp, Proceed, sessionVars, ProofStages
<1>2. CASE ProofClear
  BY <1>0, <1>2 DEF ProofClear, GiveUp, Proceed, Request, ProofStages
<1>3. CASE ProofCreate
  <2>1. /\ proof = "create" /\ cfg' = cfg
        /\ \/ GiveUp("out")
           \/ Proceed("capture")
           \/ Proceed("ask")
    BY <1>3 DEF ProofCreate, Request
  <2> QED BY <1>0, <2>1 DEF GiveUp, Proceed, ProofStages
<1>4. CASE StartCapture
  BY <1>0, <1>4 DEF StartCapture, GiveUp, Proceed, sessionVars, ProofStages
<1>5. CASE AskDump
  BY <1>0, <1>5 DEF AskDump, GiveUp, Proceed, Request, ProofStages
<1>6. CASE AnswerDump
  BY <1>0, <1>6 DEF AnswerDump, GiveUp, Proceed, sessionVars, ProofStages
<1>7. CASE StopCapture
  BY <1>0, <1>7 DEF StopCapture, Proceed, sessionVars, ProofStages
<1>8. CASE JoinCapture
  BY <1>0, <1>8 DEF JoinCapture, Proceed, sessionVars, ProofStages
<1>9. CASE ProofRemove
  BY <1>0, <1>9 DEF ProofRemove, Proceed, Request, ProofStages
<1> QED BY <1>1, <1>2, <1>3, <1>4, <1>5, <1>6, <1>7, <1>8, <1>9 DEF ProofStep

\* A message of the dump is received as long as the handle is open.
LEMMA ProofCaptures ==
  ASSUME IInv, ProofStep
  PROVE  Captured'
<1>1. CASE OpenProof \/ ProofClear \/ ProofCreate \/ ProofRemove
  <2>1. UNCHANGED captureVars /\ proof \in {"open", "clear", "create", "remove"}
    BY <1>1 DEF OpenProof, ProofClear, ProofCreate, ProofRemove
  <2>2. proof = "remove" => proof' = "over"
    BY <1>1 DEF OpenProof, ProofClear, ProofCreate, ProofRemove, Proceed
  <2> QED BY <2>1, <2>2 DEF captureVars, IInv, Captured
<1>2. CASE StartCapture
  BY <1>2 DEF StartCapture, Proceed, GiveUp, IInv, Captured
<1>3. CASE AskDump
  BY <1>3 DEF AskDump, OnWire, Proceed, GiveUp, IInv, Captured
<1>4. CASE AnswerDump
  BY <1>4 DEF AnswerDump, OnWire, Proceed, GiveUp, IInv, Captured
<1>5. CASE StopCapture
  BY <1>5 DEF StopCapture, Proceed, IInv, Captured
<1>6. CASE JoinCapture
  BY <1>6 DEF JoinCapture, Proceed, IInv, Captured
<1> QED BY <1>1, <1>2, <1>3, <1>4, <1>5, <1>6 DEF ProofStep

LEMMA ProofKeeps ==
  ASSUME IInv, ProofStep, UNCHANGED <<mainVars, selftestVars, benchVars>>
  PROVE  IInv'
<1>1. /\ proof \notin {"idle", "over"} /\ cfg' = cfg
      /\ proof' \in ProofStages \ {"idle", "open"}
      /\ verdict' \in {"none", "ok", "error"}
      /\ verdict' # "none" <=> proof' \in {"out", "join", "remove", "over"}
      /\ proof' = "over" /\ lastRequest' # "none" => lastRequest' = "delete"
  BY ProofMoves
<1>2. /\ main = "in proof" /\ suite = "over" /\ bench = "idle"
      /\ result \in {"ok", "soft"} /\ outcome = "none"
      /\ errorPhase = "none" /\ ~raced
  BY <1>1, DuringProof
<1>3. UNCHANGED <<main, exitCode, errorPhase, raced, report, corrupt>>
  BY DEF mainVars
<1>4. UNCHANGED <<suite, done, failed, result>>
  BY DEF selftestVars
<1>5. UNCHANGED <<bench, run, turn, count, heap, kept, runs, published, outcome>>
  BY DEF benchVars
<1>6. Typed'
  BY <1>1, <1>3, <1>4, <1>5 DEF IInv, Typed
<1>7. Stages'
  BY <1>1, <1>2, <1>3, <1>4, <1>5 DEF Stages, Leaving
<1>8. Tested'
  BY <1>1, <1>4 DEF IInv, Tested
<1>9. Requests'
  BY <1>1, <1>2, <1>5 DEF Requests
<1>10. Heap'
  BY <1>1, <1>3, <1>5 DEF IInv, Heap, ResultBlocks
<1>11. Reported'
  BY <1>2, <1>3, <1>4, <1>5 DEF IInv, Reported, ReportIsTrue, Tells, Leaving
<1> QED BY <1>6, <1>7, <1>8, <1>9, <1>10, <1>11, ProofCaptures DEF IInv

\* The capture thread changes only what it has read, and its own place.
LEMMA CaptureKeeps ==
  ASSUME IInv, CaptureThread
  PROVE  IInv'
<1>1. /\ EnterLoop \/ ReadPacket \/ LoopFails
      /\ UNCHANGED <<proof, verdict, enabled, pcapError, handle, sent>>
      /\ UNCHANGED <<sessionVars, mainVars, selftestVars, benchVars>>
  BY DEF CaptureThread, Capturing, CaptureReads, CaptureFails
<1>2. UNCHANGED <<cfg, gate, lastRequest, main, exitCode, errorPhase, raced, report, corrupt>>
  BY <1>1 DEF sessionVars, mainVars
<1>3. UNCHANGED <<suite, done, failed, result, proof, verdict>>
  BY <1>1 DEF selftestVars
<1>4. UNCHANGED <<bench, run, turn, count, heap, kept, runs, published, outcome>>
  BY <1>1 DEF benchVars
<1>5. Typed' /\ Tested'
  BY <1>2, <1>3, <1>4 DEF IInv, Typed, Tested
<1>6. Stages'
  BY <1>2, <1>3, <1>4 DEF IInv, Stages
<1>7. Requests'
  BY <1>2, <1>3, <1>4 DEF IInv, Requests
<1>8. Heap'
  BY <1>2, <1>4 DEF IInv, Heap, ResultBlocks
<1>9. Captured'
  <2>1. CASE EnterLoop
    BY <1>1, <2>1 DEF EnterLoop, IInv, Captured
  <2>2. CASE ReadPacket
    BY <1>1, <2>2 DEF ReadPacket, IInv, Captured
  <2>3. CASE LoopFails
    BY <1>1, <2>3 DEF LoopFails, IInv, Captured
  <2> QED BY <1>1, <2>1, <2>2, <2>3
<1>10. Reported'
  BY <1>2, <1>3, <1>4 DEF IInv, Reported, ReportIsTrue, Tells
<1> QED BY <1>5, <1>6, <1>7, <1>8, <1>9, <1>10 DEF IInv

-----------------------------------------------------------------------------
(* The benchmark *)

LEMMA DuringBench ==
  ASSUME IInv, bench \notin {"idle", "returned"}
  PROVE  /\ main = "in benchmark" /\ suite = "over" /\ proof = "idle"
         /\ result \in {"ok", "soft"} /\ verdict = "none"
         /\ errorPhase = "none" /\ ~raced
<1>1. main = "in benchmark"
  BY DEF IInv, Typed, Stages, Places, Leaving
<1> QED BY <1>1 DEF IInv, Stages, Reported, Leaving

Underway == BenchStages \ {"idle", "open", "out", "returned"}

\* An end of a delete that found or left nothing.
LEMMA DeleteEnd ==
  ASSUME NEW end \in DeleteEnds, end.ret \in {"ok", "ENOENT"}
  PROVE  end.gate = Absent
<1>1. Delete(gate).gate = Absent
  BY DEF Delete
<1>2. CASE end = Delete(gate)
  BY <1>1, <1>2
<1>3. CASE end # Delete(gate)
  <2>1. end.ret \in {"refused", "unsent", "timeout"}
    BY <1>3 DEF DeleteEnds, Fates, Refused
  <2> QED BY <2>1
<1> QED BY <1>2, <1>3

\* Where the benchmark gets to, after which request.
LEMMA BenchMoves ==
  ASSUME IInv, BenchStep
  PROVE  /\ bench \notin {"idle", "returned"} /\ cfg' = cfg
         /\ bench' \in BenchStages \ {"idle", "open"}
         /\ turn' \in Nat
         /\ outcome' \in {"none", "ok", "error"}
         /\ outcome' # "none" <=> bench' \in {"out", "returned"}
         /\ bench' = "reckon" => lastRequest' = "delete"
         /\ bench' \in {"publish", "medians"} /\ cfg.runs > 0 => lastRequest' = "delete"
         /\ outcome' = "ok" => lastRequest' = "delete" /\ published' /\ cfg.runs > 0
         /\ bench' = "timed_create" /\ turn' = 0 => gate' = Absent
<1>0. /\ turn \in Nat
      /\ outcome \in {"none", "ok", "error"}
      /\ outcome # "none" <=> bench \in {"out", "returned"}
      /\ outcome = "ok" => published /\ cfg.runs > 0 /\ lastRequest = "delete"
      /\ bench = "reckon" => lastRequest = "delete"
      /\ bench \in {"publish", "medians"} /\ cfg.runs > 0 => lastRequest = "delete"
      /\ bench = "medians" => published
  BY DEF IInv, Typed, Stages, Requests, Heap
<1>1. CASE OpenBench
  BY <1>0, <1>1 DEF OpenBench, sessionVars, BenchStages
<1>2. CASE SetUpRun
  BY <1>0, <1>2 DEF SetUpRun, Fail, sessionVars, BenchStages
<1>3. CASE WarmUpCreate
  BY <1>0, <1>3 DEF WarmUpCreate, Fail, GoOn, Request, BenchStages
<1>4. CASE WarmUpReplace
  BY <1>0, <1>4 DEF WarmUpReplace, Fail, GoOn, Request, BenchStages
<1>5. CASE Clear
  <2>1. PICK end \in DeleteEnds :
          /\ Request("delete", end)
          /\ IF ClearedBy(end) THEN GoOn("timed_create") /\ UNCHANGED turn ELSE Fail
    BY <1>5 DEF Clear
  <2>2. ClearedBy(end) => gate' = Absent
    BY <2>1, DeleteEnd DEF ClearedBy, Request
  <2> QED BY <1>0, <1>5, <2>1, <2>2 DEF Clear, Fail, GoOn, Request, BenchStages
<1>6. CASE TimedCreate
  BY <1>0, <1>6 DEF TimedCreate, Fail, Request, BenchStages
<1>7. CASE TimedReplace
  BY <1>0, <1>7 DEF TimedReplace, Fail, Request, BenchStages
<1>8. CASE ClockFails
  BY <1>0, <1>8 DEF ClockFails, Fail, sessionVars, BenchStages
<1>9. CASE Remove
  BY <1>0, <1>9 DEF Remove, GoOn, Request, BenchStages
<1>10. CASE Reckon
  BY <1>0, <1>10 DEF Reckon, Fail, sessionVars, BenchStages
<1>11. CASE Publish
  BY <1>0, <1>11 DEF Publish, sessionVars, BenchStages
<1>12. CASE TakeMedians
  BY <1>0, <1>12 DEF TakeMedians, sessionVars, BenchStages
<1>13. CASE LeaveBench
  BY <1>0, <1>13 DEF LeaveBench, sessionVars, BenchStages
<1> QED BY <1>1, <1>2, <1>3, <1>4, <1>5, <1>6, <1>7, <1>8, <1>9, <1>10, <1>11, <1>12, <1>13
        DEF BenchStep

\* What the benchmark allocates and frees.
LEMMA BenchAllocates ==
  ASSUME IInv, BenchStep
  PROVE  /\ bench' \in Underway => runs'
         /\ bench' \in {"setup", "publish", "returned"} => heap' \subseteq ResultBlocks'
         /\ bench' \notin {"medians", "out"} => heap' \subseteq {Working} \cup ResultBlocks'
         /\ bench' \in {"medians", "out"} => heap' \subseteq {Medians} \cup ResultBlocks'
         /\ bench' = "medians" => published'
         /\ bench' = "out" => runs' \/ heap' = {}
         /\ bench' = "returned" /\ outcome' = "error" => heap' = {}
<1>0. /\ bench \notin {"medians", "out"} => heap \subseteq {Working} \cup ResultBlocks
      /\ bench \in {"medians", "out"} => heap \subseteq {Medians} \cup ResultBlocks
      /\ bench = "open" => heap = {}
      /\ bench \in Underway => runs
      /\ bench \in {"setup", "publish"} => heap \subseteq ResultBlocks
      /\ bench = "out" => runs \/ heap = {}
  BY DEF IInv, Heap, Underway
<1>1. CASE OpenBench
  <2>1. heap = {} /\ kept' = kept /\ bench = "open"
    BY <1>0, <1>1 DEF OpenBench
  <2>2. Results \in ResultBlocks'
    BY DEF ResultBlocks
  <2> QED BY <1>1, <2>1, <2>2 DEF OpenBench, Underway
<1>2. CASE LeaveBench
  <2>1. kept' = kept /\ bench = "out" /\ bench' = "returned"
    BY <1>2 DEF LeaveBench
  <2>2. ResultBlocks' = ResultBlocks
    BY <2>1 DEF ResultBlocks
  <2> QED BY <1>0, <1>2, <2>1, <2>2 DEF LeaveBench, Underway
<1>3. ASSUME bench \in Underway \ {"medians"}, Fail
      PROVE  /\ bench' = "out" /\ runs' /\ heap' \subseteq ResultBlocks'
  <2>1. ResultBlocks' = ResultBlocks
    BY <1>3 DEF Fail, ResultBlocks
  <2> QED BY <1>0, <1>3, <2>1 DEF Fail, Underway
<1>4. ASSUME bench \in Underway \ {"medians"}, UNCHANGED <<heap, kept, runs>>,
             bench' \in Underway \ {"setup", "publish", "medians"}
      PROVE  /\ runs' /\ heap' \subseteq {Working} \cup ResultBlocks'
  <2>1. ResultBlocks' = ResultBlocks
    BY <1>4 DEF ResultBlocks
  <2> QED BY <1>0, <1>4, <2>1 DEF Underway
<1>5. CASE SetUpRun
  <2>1. CASE Fail
    BY <1>3, <1>5, <2>1 DEF SetUpRun, Underway, BenchStages
  <2>2. CASE ~Fail
    <3>1. /\ bench = "setup" /\ bench' \in {"warm_create", "clear"}
          /\ heap' = heap \cup {Working} /\ kept' = kept /\ runs' = runs
      BY <1>5, <2>2 DEF SetUpRun
    <3>2. ResultBlocks' = ResultBlocks
      BY <3>1 DEF ResultBlocks
    <3> QED BY <1>0, <3>1, <3>2 DEF Underway, BenchStages
  <2> QED BY <2>1, <2>2
<1>6. CASE WarmUpCreate \/ WarmUpReplace \/ Clear \/ TimedCreate \/ TimedReplace
           \/ ClockFails \/ Remove
  <2>1. bench \in Underway \ {"medians"}
    BY <1>6 DEF WarmUpCreate, WarmUpReplace, Clear, TimedCreate, TimedReplace, ClockFails,
                Remove, Underway, BenchStages
  <2>2. CASE Fail
    BY <1>3, <2>1, <2>2 DEF Underway, BenchStages
  <2>3. CASE ~Fail
    <3>1. /\ UNCHANGED <<heap, kept, runs>>
          /\ bench' \in Underway \ {"setup", "publish", "medians"}
      BY <1>6, <2>3 DEF WarmUpCreate, WarmUpReplace, Clear, TimedCreate, TimedReplace,
                        ClockFails, Remove, GoOn, Underway, BenchStages
    <3> QED BY <1>4, <2>1, <3>1 DEF Underway, BenchStages
  <2> QED BY <2>2, <2>3
<1>7. CASE Reckon
  <2>1. bench \in Underway \ {"medians"}
    BY <1>7 DEF Reckon, Underway, BenchStages
  <2>2. CASE Fail
    BY <1>3, <2>1, <2>2 DEF Underway, BenchStages
  <2>3. CASE ~Fail
    <3>1. PICK keep \in BOOLEAN :
            /\ kept' = IF keep THEN kept \cup {run} ELSE kept
            /\ heap' = (heap \ {Working}) \cup (IF keep THEN {Samples(run)} ELSE {})
      BY <1>7, <2>3 DEF Reckon
    <3>2. bench' \in {"setup", "publish"} /\ runs' = runs
      BY <1>7, <2>3 DEF Reckon
    <3>3. ResultBlocks \subseteq ResultBlocks' /\ (keep => Samples(run) \in ResultBlocks')
      BY <3>1 DEF ResultBlocks
    <3>4. heap' \subseteq ResultBlocks'
      BY <1>0, <2>1, <3>1, <3>3 DEF Underway
    <3> QED BY <1>0, <2>1, <3>2, <3>4 DEF Underway, BenchStages
  <2> QED BY <2>2, <2>3
<1>8. CASE Publish
  <2>1. /\ bench = "publish" /\ bench' \in {"medians", "out"} /\ published' = TRUE
        /\ UNCHANGED <<kept, runs>>
        /\ heap' = heap \/ heap' = heap \cup {Medians}
    BY <1>8 DEF Publish
  <2>2. ResultBlocks' = ResultBlocks
    BY <2>1 DEF ResultBlocks
  <2> QED BY <1>0, <2>1, <2>2 DEF Underway, BenchStages
<1>9. CASE TakeMedians
  <2>1. /\ bench = "medians" /\ bench' = "out" /\ UNCHANGED <<kept, runs>>
        /\ heap' = heap \/ heap' = heap \ {Medians}
    BY <1>9 DEF TakeMedians
  <2>2. ResultBlocks' = ResultBlocks
    BY <2>1 DEF ResultBlocks
  <2> QED BY <1>0, <2>1, <2>2 DEF Underway, BenchStages
<1> QED BY <1>1, <1>2, <1>5, <1>6, <1>7, <1>8, <1>9 DEF BenchStep

LEMMA BenchKeeps ==
  ASSUME IInv, BenchStep, UNCHANGED <<mainVars, selftestVars, proofVars>>
  PROVE  IInv'
<1>1. /\ bench \notin {"idle", "returned"} /\ cfg' = cfg
      /\ bench' \in BenchStages \ {"idle", "open"}
      /\ turn' \in Nat
      /\ outcome' \in {"none", "ok", "error"}
      /\ outcome' # "none" <=> bench' \in {"out", "returned"}
      /\ bench' = "reckon" => lastRequest' = "delete"
      /\ bench' \in {"publish", "medians"} /\ cfg.runs > 0 => lastRequest' = "delete"
      /\ outcome' = "ok" => lastRequest' = "delete" /\ published' /\ cfg.runs > 0
      /\ bench' = "timed_create" /\ turn' = 0 => gate' = Absent
  BY BenchMoves
<1>2. /\ main = "in benchmark" /\ suite = "over" /\ proof = "idle"
      /\ result \in {"ok", "soft"} /\ verdict = "none"
      /\ errorPhase = "none" /\ ~raced
  BY <1>1, DuringBench
<1>3. UNCHANGED <<main, exitCode, errorPhase, raced, report, corrupt>>
  BY DEF mainVars
<1>4. UNCHANGED <<suite, done, failed, result>>
  BY DEF selftestVars
<1>5. UNCHANGED <<proof, verdict, enabled, pcapError, handle, capture, broken, sent, ring, file>>
  BY DEF proofVars
<1>6. Typed'
  BY <1>1, <1>3, <1>4, <1>5 DEF IInv, Typed
<1>7. Stages'
  BY <1>1, <1>2, <1>3, <1>4, <1>5 DEF Stages, Leaving
<1>8. Tested'
  BY <1>1, <1>4 DEF IInv, Tested
<1>9. Requests'
  BY <1>1, <1>2, <1>5 DEF Requests
<1>10. Heap'
  <2>1. bench' \notin {"idle", "open", "out", "returned"} => bench' \in Underway
    BY <1>1 DEF Underway
  <2> QED BY <1>1, <1>2, <1>3, <2>1, BenchAllocates DEF Heap
<1>11. Captured'
  BY <1>5 DEF IInv, Captured
<1>12. Reported'
  BY <1>2, <1>3, <1>4, <1>5 DEF IInv, Reported, ReportIsTrue, Tells, Leaving
<1> QED BY <1>6, <1>7, <1>8, <1>9, <1>10, <1>11, <1>12 DEF IInv

-----------------------------------------------------------------------------
(* Main *)

\* The fields of a report.
LEMMA ReportFields ==
  ASSUME NEW phase, NEW code, NEW status, NEW sections,
         report' = Report(phase, code, status, sections)
  PROVE  /\ report'.ok = (code = "success")
         /\ report'.phase = phase
         /\ report'.selftests = status
         /\ report'.sections = sections
  BY DEF Report

LEMMA NothingReported ==
  ASSUME report = NoReport
  PROVE  ReportIsTrue
  BY DEF NoReport, ReportIsTrue, Tells

\* A step of main that touches no other part, and prints nothing.
LEMMA MainAlone ==
  ASSUME IInv, UNCHANGED <<cfg, lastRequest, report, selftestVars, proofVars, benchVars>>,
         main' \in Places, gate' = gate \/ bench = "idle", main' # "done",
         main \notin {"free", "done"}, main' # "free"
  PROVE  /\ Typed' /\ Tested' /\ Requests' /\ Heap' /\ Captured'
         /\ report' = NoReport /\ ReportIsTrue'
         /\ UNCHANGED <<suite, result, proof, verdict, bench, outcome>>
<1>1. UNCHANGED <<suite, done, failed, result>>
  BY DEF selftestVars
<1>2. UNCHANGED <<proof, verdict, enabled, pcapError, handle, capture, broken, sent, ring, file>>
  BY DEF proofVars
<1>3. UNCHANGED <<bench, run, turn, count, heap, kept, runs, published, outcome>>
  BY DEF benchVars
<1>4. Typed' /\ Tested'
  BY <1>1, <1>2, <1>3 DEF IInv, Typed, Tested
<1>5. Requests'
  BY <1>2, <1>3 DEF IInv, Requests
<1>6. Heap'
  BY <1>3 DEF IInv, Heap, ResultBlocks
<1>7. Captured'
  BY <1>2 DEF IInv, Captured
<1>8. report' = NoReport
  BY DEF IInv, Reported
<1>9. ReportIsTrue'
  BY <1>8, NothingReported DEF ReportIsTrue, Tells, NoReport
<1> QED BY <1>1, <1>2, <1>3, <1>4, <1>5, <1>6, <1>7, <1>8, <1>9

LEMMA ParseKeeps == IInv /\ ParseCommandLine => IInv'
<1> SUFFICES ASSUME IInv, ParseCommandLine PROVE IInv'
  OBVIOUS
<1>1. /\ main = "start" /\ suite = "idle" /\ proof = "idle" /\ bench = "idle"
      /\ result = "none" /\ verdict = "none" /\ outcome = "none" /\ lastRequest = "none"
      /\ errorPhase = "none" /\ exitCode = "success" /\ ~raced /\ report = NoReport
      /\ cfg \in Configs /\ heap = {}
  BY DEF ParseCommandLine, IInv, Stages, Requests, Reported, Heap, Typed, Leaving
<1>2. /\ UNCHANGED <<gate, lastRequest, raced, corrupt>>
      /\ UNCHANGED <<suite, done, failed, result>>
      /\ UNCHANGED <<proof, verdict, enabled, pcapError, handle, capture, broken, sent, ring, file>>
      /\ UNCHANGED <<bench, run, turn, count, heap, kept, runs, published, outcome>>
  BY DEF ParseCommandLine, selftestVars, proofVars, benchVars
<1>3. PICK o \in Options :
        CASE o.help ->
               /\ main' = "done"
               /\ UNCHANGED <<cfg, exitCode, errorPhase, report>>
          [] ~o.help /\ Rejected(o) ->
               /\ main' = "done"
               /\ exitCode' = "failure"
               /\ report' = IF o.json THEN Report("cli_parse", "failure", "none", {"selftests"})
                                      ELSE NoReport
               /\ UNCHANGED <<cfg, errorPhase>>
          [] OTHER ->
               /\ main' = "pin"
               /\ cfg' = Config(o)
               /\ UNCHANGED <<exitCode, errorPhase, report>>
  BY DEF ParseCommandLine
<1>4. /\ main' \in {"done", "pin"} /\ cfg' \in Configs /\ errorPhase' = "none"
      /\ main' = "pin" => exitCode' = "success" /\ report' = NoReport
      /\ \/ report' = NoReport
         \/ /\ report' = Report("cli_parse", "failure", "none", {"selftests"})
            /\ exitCode' = "failure"
  BY <1>1, <1>3, ConfigTyped
<1>5. Typed'
  BY <1>2, <1>4 DEF IInv, Typed, Places
<1>6. Stages'
  BY <1>1, <1>2, <1>4 DEF Stages, Leaving
<1>7. Tested' /\ Requests'
  BY <1>1, <1>2 DEF Tested, Requests
<1>8. Heap'
  BY <1>1, <1>2 DEF Heap
<1>9. Captured'
  BY <1>2 DEF IInv, Captured
<1>10. ReportIsTrue'
  <2>1. CASE report' = NoReport
    BY <2>1 DEF ReportIsTrue, Tells, NoReport
  <2>2. CASE /\ report' = Report("cli_parse", "failure", "none", {"selftests"})
             /\ exitCode' = "failure"
    <3>1. /\ report'.ok = ("failure" = "success") /\ report'.phase = "cli_parse"
          /\ report'.selftests = "none" /\ report'.sections = {"selftests"}
      BY <2>2, ReportFields
    <3>2. report'.ok = (exitCode' = "success")
      BY <2>2, <3>1
    <3>3. ~report'.ok /\ report'.ok = (report'.phase = "none")
      BY <3>1
    <3> QED BY <3>1, <3>2, <3>3 DEF ReportIsTrue, Tells
  <2> QED BY <1>4, <2>1, <2>2
<1>11. Reported'
  BY <1>1, <1>2, <1>4, <1>10 DEF Reported, Leaving
<1> QED BY <1>5, <1>6, <1>7, <1>8, <1>9, <1>11 DEF IInv

LEMMA PinCpuKeeps == IInv /\ PinCpu => IInv'
<1> SUFFICES ASSUME IInv, PinCpu PROVE IInv'
  OBVIOUS
<1>1. /\ main = "pin" /\ suite = "idle" /\ proof = "idle" /\ bench = "idle"
      /\ errorPhase = "none" /\ exitCode = "success" /\ ~raced
  BY DEF PinCpu, IInv, Stages, Reported, Leaving
<1>2. /\ UNCHANGED <<raced, report, corrupt, cfg, gate, lastRequest>>
      /\ UNCHANGED <<selftestVars, proofVars, benchVars>>
      /\ \/ main' = "out" /\ exitCode' = "failure" /\ errorPhase' = "pin_cpu"
         \/ main' \in {"race", "selftests"} /\ UNCHANGED <<exitCode, errorPhase>>
  BY DEF PinCpu, Blame, sessionVars
<1>3. /\ Typed' /\ Tested' /\ Requests' /\ Heap' /\ Captured'
      /\ report' = NoReport /\ ReportIsTrue'
      /\ UNCHANGED <<suite, result, proof, verdict, bench, outcome>>
  BY <1>1, <1>2, MainAlone DEF Places
<1>4. Stages'
  BY <1>1, <1>2, <1>3 DEF IInv, Stages, Leaving
<1>5. Reported'
  BY <1>1, <1>2, <1>3 DEF Reported, Leaving
<1> QED BY <1>3, <1>4, <1>5 DEF IInv

LEMMA RaceModeKeeps == IInv /\ RaceMode => IInv'
<1> SUFFICES ASSUME IInv, RaceMode PROVE IInv'
  OBVIOUS
<1>1. /\ main = "race" /\ suite = "idle" /\ proof = "idle" /\ bench = "idle"
      /\ errorPhase = "none" /\ exitCode = "success"
  BY DEF RaceMode, IInv, Stages, Reported, Leaving
<1>2. /\ UNCHANGED <<cfg, lastRequest, report, corrupt>>
      /\ UNCHANGED <<selftestVars, proofVars, benchVars>>
      /\ raced' = cfg.json /\ main' = "out"
      /\ \/ exitCode' = "failure" /\ errorPhase' = "race"
         \/ UNCHANGED <<exitCode, errorPhase>>
  BY DEF RaceMode, Blame
<1>3. /\ Typed' /\ Tested' /\ Requests' /\ Heap' /\ Captured'
      /\ report' = NoReport /\ ReportIsTrue'
      /\ UNCHANGED <<suite, result, proof, verdict, bench, outcome>>
  BY <1>1, <1>2, MainAlone DEF Places
<1>4. Stages'
  BY <1>1, <1>2, <1>3 DEF IInv, Stages, Leaving
<1>5. Reported'
  BY <1>1, <1>2, <1>3 DEF Reported, Leaving
<1> QED BY <1>3, <1>4, <1>5 DEF IInv

LEMMA CallSelftestsKeeps == IInv /\ CallSelftests => IInv'
<1> SUFFICES ASSUME IInv, CallSelftests PROVE IInv'
  OBVIOUS
<1>1. /\ main = "selftests" /\ suite = "idle" /\ proof = "idle" /\ bench = "idle"
      /\ result = "none" /\ errorPhase = "none" /\ exitCode = "success" /\ ~raced
      /\ report = NoReport
  BY DEF CallSelftests, IInv, Stages, Reported, Leaving
<1>2. /\ main' = "in selftests" /\ suite' = "internal"
      /\ UNCHANGED <<done, failed, result, exitCode, errorPhase, raced, report, corrupt>>
      /\ UNCHANGED <<cfg, gate, lastRequest>>
      /\ UNCHANGED <<proof, verdict, enabled, pcapError, handle, capture, broken, sent, ring, file>>
      /\ UNCHANGED <<bench, run, turn, count, heap, kept, runs, published, outcome>>
  BY DEF CallSelftests, StartSelftests, sessionVars, proofVars, benchVars
<1>3. Typed' /\ Tested'
  BY <1>2 DEF IInv, Typed, Tested, Places, SuiteStages, Suites
<1>4. Stages'
  BY <1>1, <1>2 DEF IInv, Stages, Leaving
<1>5. Requests'
  BY <1>2 DEF IInv, Requests
<1>6. Heap'
  BY <1>2 DEF IInv, Heap, ResultBlocks
<1>7. Captured'
  BY <1>2 DEF IInv, Captured
<1>8. Reported'
  <2>1. ReportIsTrue'
    BY <1>1, <1>2 DEF ReportIsTrue, Tells, NoReport
  <2> QED BY <1>1, <1>2, <2>1 DEF Reported, Leaving
<1> QED BY <1>3, <1>4, <1>5, <1>6, <1>7, <1>8 DEF IInv

LEMMA AfterSelftestsKeeps == IInv /\ AfterSelftests => IInv'
<1> SUFFICES ASSUME IInv, AfterSelftests PROVE IInv'
  OBVIOUS
<1>1. /\ main = "in selftests" /\ suite = "over" /\ proof = "idle" /\ bench = "idle"
      /\ result \in {"ok", "soft", "hard"} /\ verdict = "none" /\ outcome = "none"
      /\ lastRequest = "none" /\ errorPhase = "none" /\ exitCode = "success" /\ ~raced
      /\ report = NoReport
  BY DEF AfterSelftests, IInv, Typed, Stages, Requests, Reported, Leaving
<1>2. /\ UNCHANGED <<raced, report, corrupt, cfg, gate, lastRequest>>
      /\ UNCHANGED <<suite, done, failed, result>>
  BY DEF AfterSelftests, sessionVars, selftestVars
<1>3. ReportIsTrue'
  BY <1>1, <1>2 DEF ReportIsTrue, Tells, NoReport
<1>4. CASE result = "hard" /\ Blame("selftests") /\ UNCHANGED <<proofVars, benchVars>>
  <2>1. /\ main' = "out" /\ exitCode' = "failure" /\ errorPhase' = "selftests"
        /\ UNCHANGED <<selftestVars, proofVars, benchVars>>
    BY <1>2, <1>4 DEF Blame, selftestVars
  <2>2. /\ Typed' /\ Tested' /\ Requests' /\ Heap' /\ Captured'
        /\ report' = NoReport
        /\ UNCHANGED <<suite, result, proof, verdict, bench, outcome>>
    BY <1>1, <1>2, <2>1, MainAlone DEF Places
  <2>3. Stages'
    BY <1>1, <2>1, <2>2 DEF Stages, Leaving
  <2>4. Reported'
    BY <1>1, <1>2, <1>3, <1>4, <2>1, <2>2 DEF Reported, Leaving
  <2> QED BY <2>2, <2>3, <2>4 DEF IInv
<1>5. CASE result # "hard" /\ CallProof
  <2>1. /\ main' = "in proof" /\ proof' = "open"
        /\ UNCHANGED <<verdict, enabled, pcapError, handle, capture, broken, sent, ring, file>>
        /\ UNCHANGED <<exitCode, errorPhase>>
        /\ UNCHANGED <<bench, run, turn, count, heap, kept, runs, published, outcome>>
    BY <1>5 DEF CallProof, StartProof, Proceed, captureVars, benchVars
  <2>2. Typed' /\ Tested'
    BY <1>2, <2>1 DEF IInv, Typed, Tested, Places, ProofStages
  <2>3. Stages'
    BY <1>1, <1>2, <1>5, <2>1 DEF Stages, Leaving
  <2>4. Requests' /\ Heap'
    BY <1>1, <1>2, <2>1 DEF IInv, Requests, Heap, ResultBlocks
  <2>5. Captured'
    BY <1>1, <2>1 DEF IInv, Captured
  <2>6. Reported'
    BY <1>1, <1>2, <1>3, <2>1 DEF Reported, Leaving
  <2> QED BY <2>2, <2>3, <2>4, <2>5, <2>6 DEF IInv
<1>6. CASE result # "hard" /\ CallBench
  <2>1. /\ main' = "in benchmark" /\ bench' = "open"
        /\ UNCHANGED <<run, turn, count, heap, kept, runs, published, outcome>>
        /\ UNCHANGED <<exitCode, errorPhase>>
        /\ UNCHANGED <<proof, verdict, enabled, pcapError, handle, capture, broken, sent, ring, file>>
    BY <1>6 DEF CallBench, StartBench, proofVars
  <2>2. Typed' /\ Tested'
    BY <1>2, <2>1 DEF IInv, Typed, Tested, Places, BenchStages
  <2>3. Stages'
    BY <1>1, <1>2, <1>6, <2>1 DEF Stages, Leaving
  <2>4. Requests'
    BY <1>1, <1>2, <2>1 DEF Requests
  <2>5. Heap'
    BY <1>1, <1>2, <2>1 DEF IInv, Heap, ResultBlocks
  <2>6. Captured'
    BY <2>1 DEF IInv, Captured
  <2>7. Reported'
    BY <1>1, <1>2, <1>3, <2>1 DEF Reported, Leaving
  <2> QED BY <2>2, <2>3, <2>4, <2>5, <2>6, <2>7 DEF IInv
<1> QED BY <1>4, <1>5, <1>6 DEF AfterSelftests

LEMMA AfterProofKeeps == IInv /\ AfterProof => IInv'
<1> SUFFICES ASSUME IInv, AfterProof PROVE IInv'
  OBVIOUS
<1>1. /\ main = "in proof" /\ suite = "over" /\ proof = "over" /\ bench = "idle"
      /\ verdict \in {"ok", "error"}
      /\ errorPhase = "none" /\ exitCode = "success" /\ ~raced
  BY DEF AfterProof, IInv, Typed, Stages, Reported, Leaving
<1>2. /\ UNCHANGED <<raced, report, corrupt, cfg, gate, lastRequest>>
      /\ UNCHANGED <<selftestVars, proofVars, benchVars>>
      /\ main' = "out"
      /\ \/ exitCode' = "failure" /\ errorPhase' = "dump_proof"
         \/ verdict = "ok" /\ UNCHANGED <<exitCode, errorPhase>>
  BY <1>1 DEF AfterProof, Blame, sessionVars
<1>3. /\ Typed' /\ Tested' /\ Requests' /\ Heap' /\ Captured'
      /\ report' = NoReport /\ ReportIsTrue'
      /\ UNCHANGED <<suite, result, proof, verdict, bench, outcome>>
  BY <1>1, <1>2, MainAlone DEF Places
<1>4. Stages'
  BY <1>1, <1>2, <1>3 DEF IInv, Stages, Leaving
<1>5. Reported'
  BY <1>1, <1>2, <1>3 DEF Reported, Leaving
<1> QED BY <1>3, <1>4, <1>5 DEF IInv

LEMMA AfterBenchKeeps == IInv /\ AfterBench => IInv'
<1> SUFFICES ASSUME IInv, AfterBench PROVE IInv'
  OBVIOUS
<1>1. /\ main = "in benchmark" /\ suite = "over" /\ proof = "idle" /\ bench = "returned"
      /\ outcome \in {"ok", "error"}
      /\ errorPhase = "none" /\ exitCode = "success" /\ ~raced
  BY DEF AfterBench, IInv, Typed, Stages, Reported, Leaving
<1>2. /\ UNCHANGED <<raced, report, corrupt, cfg, gate, lastRequest>>
      /\ UNCHANGED <<selftestVars, proofVars, benchVars>>
      /\ main' = "out"
      /\ \/ outcome = "error" /\ exitCode' = "failure" /\ errorPhase' = "benchmark"
         \/ outcome = "ok" /\ UNCHANGED <<exitCode, errorPhase>>
  BY <1>1 DEF AfterBench, Blame, sessionVars
<1>3. /\ Typed' /\ Tested' /\ Requests' /\ Heap' /\ Captured'
      /\ report' = NoReport /\ ReportIsTrue'
      /\ UNCHANGED <<suite, result, proof, verdict, bench, outcome>>
  BY <1>1, <1>2, MainAlone DEF Places
<1>4. Stages'
  BY <1>1, <1>2, <1>3 DEF IInv, Stages, Leaving
<1>5. Reported'
  BY <1>1, <1>2, <1>3 DEF Reported, Leaving
<1> QED BY <1>3, <1>4, <1>5 DEF IInv

\* What there is to report when main has got to its end, by the phase it blames.
LEMMA SectionsAtEnd ==
  ASSUME IInv, main = "out", cfg.json
  PROVE  /\ errorPhase = "none" =>
              \/ result = "none" /\ Sections = {"selftests", "race"}
              \/ result \in {"ok", "soft"} /\ Sections = {"selftests", "dump_proof"}
              \/ result \in {"ok", "soft"} /\ Sections = {"selftests", "benchmark"}
         /\ errorPhase = "pin_cpu" => result = "none" /\ Sections = {"selftests"}
         /\ errorPhase = "race" => result = "none" /\ Sections = {"selftests", "race"}
         /\ errorPhase = "selftests" => result = "hard" /\ Sections = {"selftests"}
         /\ errorPhase = "dump_proof" =>
              result \in {"ok", "soft"} /\ Sections = {"selftests", "dump_proof"}
         /\ errorPhase = "benchmark" => result \in {"ok", "soft"} /\ Sections = {"selftests"}
<1>1. /\ suite \in {"idle", "over"} /\ proof \in {"idle", "over"} /\ bench \in {"idle", "returned"}
      /\ suite = "over" <=> result # "none"
      /\ proof # "idle" \/ bench # "idle" => result \in {"ok", "soft"}
      /\ proof = "idle" \/ bench = "idle"
      /\ verdict # "none" <=> proof = "over"
      /\ outcome # "none" <=> bench = "returned"
      /\ outcome = "ok" => published /\ cfg.runs > 0
      /\ raced => suite = "idle"
  BY DEF IInv, Stages, Heap, Reported, Leaving
\* Each of the three sources of a section excludes the other two.
<1>2. ASSUME suite = "idle"
      PROVE  result = "none" /\ Sections = {"selftests"} \cup (IF raced THEN {"race"} ELSE {})
  BY <1>1, <1>2 DEF Sections
<1>3. ASSUME proof = "over"
      PROVE  result \in {"ok", "soft"} /\ Sections = {"selftests", "dump_proof"}
  BY <1>1, <1>3 DEF Sections
<1>4. ASSUME bench = "returned"
      PROVE  /\ result \in {"ok", "soft"}
             /\ outcome = "ok" => Sections = {"selftests", "benchmark"}
             /\ outcome = "error" => Sections = {"selftests"}
  BY <1>1, <1>4 DEF Sections
<1>5. CASE errorPhase = "none"
  <2>1. \/ suite = "idle" /\ raced
        \/ proof = "over"
        \/ bench = "returned" /\ outcome = "ok"
    BY <1>5 DEF IInv, Reported
  <2> QED BY <1>2, <1>3, <1>4, <1>5, <2>1
<1>6. CASE errorPhase \in {"pin_cpu", "race"}
  <2>1. suite = "idle" /\ (raced <=> errorPhase = "race")
    BY <1>6 DEF IInv, Reported
  <2> QED BY <1>2, <1>6, <2>1
<1>7. CASE errorPhase = "selftests"
  <2>1. result = "hard"
    BY <1>7 DEF IInv, Reported
  <2> QED BY <1>1, <1>7, <2>1 DEF Sections
<1>8. CASE errorPhase = "dump_proof"
  BY <1>3, <1>8 DEF IInv, Reported
<1>9. CASE errorPhase = "benchmark"
  BY <1>4, <1>9 DEF IInv, Reported
<1> QED BY <1>5, <1>6, <1>7, <1>8, <1>9

LEMMA PrintReportKeeps == IInv /\ PrintReport => IInv'
<1> SUFFICES ASSUME IInv, PrintReport PROVE IInv'
  OBVIOUS
<1>1. /\ main = "out" /\ main' = "free"
      /\ report' = IF cfg.json THEN Report(errorPhase, exitCode, result, Sections) ELSE NoReport
      /\ UNCHANGED <<exitCode, errorPhase, raced, corrupt, cfg, gate, lastRequest>>
      /\ UNCHANGED <<suite, done, failed, result>>
  BY DEF PrintReport, sessionVars, selftestVars
<1>2. UNCHANGED <<proof, verdict, enabled, pcapError, handle, capture, broken, sent, ring, file>>
  BY DEF PrintReport, proofVars
<1>3. UNCHANGED <<bench, run, turn, count, heap, kept, runs, published, outcome>>
  BY DEF PrintReport, benchVars
<1>4. Typed' /\ Tested'
  BY <1>1, <1>2, <1>3 DEF IInv, Typed, Tested, Places
<1>5. Stages'
  BY <1>1, <1>2, <1>3 DEF IInv, Stages, Leaving
<1>6. Requests'
  BY <1>1, <1>2, <1>3 DEF IInv, Requests
<1>7. Heap'
  BY <1>1, <1>3 DEF IInv, Heap, ResultBlocks
<1>8. Captured'
  BY <1>2 DEF IInv, Captured
<1>9. ReportIsTrue'
  <2>1. CASE ~cfg.json
    BY <1>1, <2>1 DEF ReportIsTrue, Tells, NoReport
  <2>2. CASE cfg.json
    <3>1. /\ report'.ok = (exitCode = "success")
          /\ report'.phase = errorPhase
          /\ report'.selftests = result
          /\ report'.sections = Sections
      BY <1>1, <2>2, ReportFields
    <3>2. exitCode = "success" <=> errorPhase = "none"
      BY <1>1 DEF IInv, Reported
    <3>3. report'.ok = (exitCode' = "success")
      BY <1>1, <3>1
    <3>4. report'.ok = (report'.phase = "none")
      BY <3>1, <3>2
    <3>5. errorPhase # "cli_parse"
      BY DEF IInv, Reported
    <3> QED BY <1>1, <2>2, <3>1, <3>2, <3>3, <3>4, <3>5, SectionsAtEnd DEF ReportIsTrue, Tells
  <2> QED BY <2>1, <2>2
<1>10. Reported'
  <2>1. /\ exitCode = "success" <=> errorPhase = "none"
        /\ raced => suite = "idle"
        /\ errorPhase = "pin_cpu" => suite = "idle" /\ ~raced
        /\ errorPhase = "race" => suite = "idle" /\ (cfg.json => raced)
        /\ errorPhase = "selftests" => result = "hard"
        /\ errorPhase = "dump_proof" => proof = "over"
        /\ errorPhase = "benchmark" => bench = "returned" /\ outcome = "error"
        /\ errorPhase # "cli_parse"
    BY <1>1 DEF IInv, Reported
  <2> QED BY <1>1, <1>2, <1>3, <1>9, <2>1 DEF Reported, Leaving
<1> QED BY <1>4, <1>5, <1>6, <1>7, <1>8, <1>10 DEF IInv

LEMMA FreeSummaryKeeps == IInv /\ FreeSummary => IInv'
<1> SUFFICES ASSUME IInv, FreeSummary PROVE IInv'
  OBVIOUS
<1>1. /\ main = "free" /\ main' = "done"
      /\ UNCHANGED <<exitCode, errorPhase, raced, report, cfg, gate, lastRequest>>
      /\ UNCHANGED <<suite, done, failed, result>>
  BY DEF FreeSummary, sessionVars, selftestVars
<1>2. UNCHANGED <<proof, verdict, enabled, pcapError, handle, capture, broken, sent, ring, file>>
  BY DEF FreeSummary, proofVars
<1>3. /\ UNCHANGED <<bench, run, turn, count, kept, runs, published, outcome>>
      /\ heap' = IF published THEN heap \ ResultBlocks ELSE heap
  BY DEF FreeSummary
<1>4. Typed' /\ Tested'
  BY <1>1, <1>2, <1>3 DEF IInv, Typed, Tested, Places
<1>5. Stages'
  BY <1>1, <1>2, <1>3 DEF IInv, Stages, Leaving
<1>6. Requests'
  BY <1>1, <1>2, <1>3 DEF IInv, Requests
<1>7. Heap'
  <2>1. heap' = {}
    <3>1. bench \in {"idle", "returned"} /\ outcome \in {"none", "ok", "error"}
      BY <1>1 DEF IInv, Typed, Stages, Leaving
    <3>2. CASE bench = "idle"
      BY <1>3, <3>2 DEF IInv, Heap
    <3>3. CASE bench = "returned" /\ outcome = "error"
      BY <1>3, <3>3 DEF IInv, Heap
    <3>4. CASE bench = "returned" /\ outcome = "ok"
      BY <1>3, <3>4 DEF IInv, Heap
    <3>5. bench = "returned" => outcome # "none"
      BY DEF IInv, Stages
    <3> QED BY <3>1, <3>2, <3>3, <3>4, <3>5
  <2> QED BY <1>1, <1>3, <2>1 DEF IInv, Heap
<1>8. Captured'
  BY <1>2 DEF IInv, Captured
<1>9. Reported'
  <2>1. ReportIsTrue'
    BY <1>1 DEF IInv, Reported, ReportIsTrue, Tells
  <2> QED BY <1>1, <1>2, <1>3, <2>1 DEF IInv, Reported, Leaving
<1> QED BY <1>4, <1>5, <1>6, <1>7, <1>8, <1>9 DEF IInv

LEMMA StutterKeeps == IInv /\ UNCHANGED vars => IInv'
<1> SUFFICES ASSUME IInv, UNCHANGED vars PROVE IInv'
  OBVIOUS
<1>1. UNCHANGED <<cfg, gate, lastRequest, main, exitCode, errorPhase, raced, report, corrupt>>
  BY DEF vars, sessionVars, mainVars
<1>2. UNCHANGED <<suite, done, failed, result>>
  BY DEF vars, selftestVars
<1>3. UNCHANGED <<proof, verdict, enabled, pcapError, handle, capture, broken, sent, ring, file>>
  BY DEF vars, proofVars
<1>4. UNCHANGED <<bench, run, turn, count, heap, kept, runs, published, outcome>>
  BY DEF vars, benchVars
<1>5. Typed' /\ Tested' /\ Requests'
  BY <1>1, <1>2, <1>3, <1>4 DEF IInv, Typed, Tested, Requests
<1>6. Stages'
  BY <1>1, <1>2, <1>3, <1>4 DEF IInv, Stages
<1>7. Heap' /\ Captured'
  BY <1>1, <1>3, <1>4 DEF IInv, Heap, ResultBlocks, Captured
<1>8. Reported'
  BY <1>1, <1>2, <1>3, <1>4 DEF IInv, Reported, ReportIsTrue, Tells
<1> QED BY <1>5, <1>6, <1>7, <1>8 DEF IInv

LEMMA StepKeeps == IInv /\ [Next]_vars => IInv'
<1> SUFFICES ASSUME IInv, [Next]_vars PROVE IInv'
  OBVIOUS
<1>1. CASE MainStep
  BY <1>1, ParseKeeps, PinCpuKeeps, RaceModeKeeps, CallSelftestsKeeps, AfterSelftestsKeeps,
     AfterProofKeeps, AfterBenchKeeps, PrintReportKeeps, FreeSummaryKeeps DEF MainStep
<1>2. CASE SelftestStep /\ UNCHANGED <<mainVars, proofVars, benchVars>>
  BY <1>2, SelftestsKeep
<1>3. CASE ProofStep /\ UNCHANGED <<mainVars, selftestVars, benchVars>>
  BY <1>3, ProofKeeps
<1>4. CASE BenchStep /\ UNCHANGED <<mainVars, selftestVars, proofVars>>
  BY <1>4, BenchKeeps
<1>5. CASE CaptureThread
  BY <1>5, CaptureKeeps
<1>6. CASE UNCHANGED vars
  BY <1>6, StutterKeeps
<1> QED BY <1>1, <1>2, <1>3, <1>4, <1>5, <1>6 DEF Next, Main

-----------------------------------------------------------------------------
(***************************************************************************)
(* Types, for which the counters need bounds of their own: the tests run   *)
(* and failed of a suite, the results and samples of the runs, and the     *)
(* messages of the dump.                                                   *)
(***************************************************************************)

\* Fewer tests failed than were run, of the suite under way, and none of a later one.
SuiteLimits ==
    /\ failed \in [Suites -> Nat] /\ suite \in SuiteStages /\ done \in Nat
    /\ \A s \in Suites : failed[s] <= Count[s]
    /\ IF suite \in Suites THEN done < Count[suite] /\ failed[suite] <= done ELSE done = 0
    /\ suite \in {"idle", "internal", "open"} => failed["stable"] = 0
    /\ suite \in {"idle", "internal", "open", "stable"} => failed["historical"] = 0
    /\ suite \in {"idle", "internal", "open", "stable", "historical"} => failed["unpatched"] = 0
    /\ suite = "idle" => failed["internal"] = 0

\* What was read of the dump passed the interface; it is asked for once.
CaptureLimits ==
    /\ sent \in 0..DumpMessages /\ ring \in Nat /\ file \in Nat
    /\ ring + file <= sent
    /\ proof = "ask" => sent = 0
    /\ enabled \in BOOLEAN /\ pcapError \in BOOLEAN /\ handle \in BOOLEAN /\ broken \in BOOLEAN
    /\ capture \in {"none", "started", "looping", "left", "joined"}

\* A run under way has a place among the results, and only earlier ones have samples.
BenchLimits ==
    /\ run \in 0..cfg.runs /\ kept \subseteq 0..(run - 1)
    /\ bench \in {"idle", "open"} => run = 0
    /\ bench \in Underway \ {"publish", "medians"} => run < cfg.runs
    /\ runs \in BOOLEAN /\ published \in BOOLEAN

MainLimits ==
    /\ exitCode \in {"success", "failure"}
    /\ errorPhase \in {"none", "pin_cpu", "race", "selftests", "dump_proof", "benchmark"}
    /\ raced \in BOOLEAN /\ corrupt \in BOOLEAN

Limits == SuiteLimits /\ CaptureLimits /\ BenchLimits /\ MainLimits /\ SessionTypeOK

LEMMA CountsOf ==
    /\ Count["internal"] = 1 /\ Count["stable"] = StableTests
    /\ Count["historical"] = 3 /\ Count["unpatched"] = 1
    /\ StableTests \in Nat \ {0}
    /\ \A s \in Suites : Count[s] \in 1..(StableTests + 3)
  BY StableTestsAssumption DEF Count, Suites

LEMMA InitLimits == Init => Limits
<1> SUFFICES ASSUME Init PROVE Limits
  OBVIOUS
<1>1. /\ cfg = NoConfig /\ gate \in {Absent, "other"} /\ lastRequest = "none"
      /\ suite = "idle" /\ failed = [s \in Suites |-> 0] /\ done = 0
      /\ proof = "idle" /\ capture = "none" /\ sent = 0 /\ ring = 0 /\ file = 0
      /\ bench = "idle" /\ run = 0 /\ kept = {}
      /\ exitCode = "success" /\ errorPhase = "none"
  BY DEF Init, SelftestsInit, ProofInit, BenchInit, NoFailures
<1>2. /\ enabled \in BOOLEAN /\ pcapError \in BOOLEAN /\ handle \in BOOLEAN /\ broken \in BOOLEAN
      /\ runs \in BOOLEAN /\ published \in BOOLEAN /\ raced \in BOOLEAN /\ corrupt \in BOOLEAN
  BY Zenon DEF Init, ProofInit, BenchInit
<1>3. SuiteLimits
  <2>1. /\ failed \in [Suites -> Nat] /\ \A s \in Suites : failed[s] = 0
        /\ {"internal", "stable", "historical", "unpatched"} = Suites
    BY <1>1 DEF Suites
  <2> QED
    BY <1>1, <2>1, CountsOf DEF SuiteLimits, SuiteStages, Suites
<1>4. CaptureLimits
  BY <1>1, <1>2, DumpMessagesAssumption DEF CaptureLimits
<1>5. BenchLimits
  BY <1>1, <1>2 DEF BenchLimits, Underway, NoConfig, Config
<1> QED
  BY <1>1, <1>2, <1>3, <1>4, <1>5 DEF Limits, MainLimits, SessionTypeOK

\* Which steps touch the state of each part.
LEMMA SelftestsTouched ==
    ASSUME [Next]_vars
    PROVE  \/ SelftestStep
           \/ suite = "idle" /\ suite' = "internal" /\ UNCHANGED <<done, failed>>
           \/ UNCHANGED <<suite, done, failed>>
<1>1. CASE MainStep
  BY <1>1 DEF MainStep, ParseCommandLine, PinCpu, RaceMode, CallSelftests, StartSelftests,
     AfterSelftests, AfterProof, AfterBench, PrintReport, FreeSummary, selftestVars
<1>2. CASE Main /\ ~MainStep
  BY <1>2 DEF Main, selftestVars
<1>3. CASE CaptureThread \/ UNCHANGED vars
  BY <1>3 DEF CaptureThread, Capturing, selftestVars, vars
<1> QED
  BY <1>1, <1>2, <1>3 DEF Next

LEMMA ProofTouched ==
    ASSUME [Next]_vars
    PROVE  \/ ProofStep
           \/ CaptureReads \/ CaptureFails
           \/ proof' = "open" /\ UNCHANGED captureVars
           \/ UNCHANGED proofVars
<1>1. CASE MainStep
  BY <1>1 DEF MainStep, ParseCommandLine, PinCpu, RaceMode, CallSelftests, CallProof, CallBench,
     StartProof, Proceed, AfterSelftests, AfterProof, AfterBench, PrintReport, FreeSummary,
     Blame, proofVars
<1>2. CASE Main /\ ~MainStep
  BY <1>2 DEF Main
<1>3. CASE CaptureThread \/ UNCHANGED vars
  BY <1>3 DEF CaptureThread, Capturing, vars
<1> QED
  BY <1>1, <1>2, <1>3 DEF Next

LEMMA BenchTouched ==
    ASSUME [Next]_vars
    PROVE  \/ BenchStep
           \/ bench = "idle" /\ bench' = "open" /\ UNCHANGED <<run, kept, runs, published>>
           \/ UNCHANGED <<bench, run, kept, runs, published>>
<1>1. CASE MainStep
  BY <1>1 DEF MainStep, ParseCommandLine, PinCpu, RaceMode, CallSelftests, CallProof, CallBench,
     StartBench, AfterSelftests, AfterProof, AfterBench, PrintReport, FreeSummary,
     Blame, benchVars
<1>2. CASE Main /\ ~MainStep
  BY <1>2 DEF Main, benchVars
<1>3. CASE CaptureThread \/ UNCHANGED vars
  BY <1>3 DEF CaptureThread, Capturing, vars, benchVars
<1> QED
  BY <1>1, <1>2, <1>3 DEF Next

LEMMA SuiteLimitsKept ==
    ASSUME SuiteLimits, [Next]_vars
    PROVE  SuiteLimits'
<1>1. CASE RunTest
  <2>1. PICK more \in {0, 1} : failed' = [failed EXCEPT ![suite] = @ + more]
    BY <1>1 DEF RunTest
  <2>2. /\ suite \in Suites /\ failed \in [Suites -> Nat] /\ done \in Nat
        /\ done < Count[suite] /\ failed[suite] <= done
        /\ Count[suite] \in Nat
    BY <1>1, CountsOf DEF RunTest, SuiteLimits
  <2>3. /\ failed' \in [Suites -> Nat]
        /\ failed'[suite] = failed[suite] + more
        /\ \A s \in Suites : s # suite => failed'[s] = failed[s]
    BY <2>1, <2>2
  <2>4. failed'[suite] <= done + 1 /\ failed'[suite] <= Count[suite]
    BY <2>2, <2>3
  <2>5. \A s \in Suites : failed'[s] <= Count[s]
    BY <2>3, <2>4 DEF SuiteLimits
  <2>6. CASE done + 1 = Count[suite]
    <3>1. done' = 0 /\ suite' = After[suite]
      BY <1>1, <2>6 DEF RunTest
    <3>2. \/ suite = "internal" /\ suite' = "open"
          \/ suite = "stable" /\ suite' = "historical"
          \/ suite = "historical" /\ suite' = "unpatched"
          \/ suite = "unpatched" /\ suite' = "verdict"
      BY <2>2, <3>1 DEF Suites, After
    <3> QED
      BY <2>2, <2>3, <2>5, <3>1, <3>2, CountsOf DEF SuiteLimits, Suites, SuiteStages
  <2>7. CASE done + 1 # Count[suite]
    <3>1. done' = done + 1 /\ suite' = suite /\ done + 1 < Count[suite]
      BY <1>1, <2>2, <2>7 DEF RunTest
    <3> QED
      BY <2>2, <2>3, <2>4, <2>5, <3>1 DEF SuiteLimits, Suites, SuiteStages
  <2> QED
    BY <2>6, <2>7
<1>2. CASE OpenSocket \/ Verdict
  BY <1>2, CountsOf DEF OpenSocket, Verdict, SuiteLimits, SuiteStages, Suites
<1>3. CASE suite = "idle" /\ suite' = "internal" /\ UNCHANGED <<done, failed>>
  BY <1>3, CountsOf DEF SuiteLimits, SuiteStages, Suites
<1>4. CASE UNCHANGED <<suite, done, failed>>
  BY <1>4 DEF SuiteLimits
<1> QED
  BY <1>1, <1>2, <1>3, <1>4, SelftestsTouched DEF SelftestStep

LEMMA CaptureLimitsKept ==
    ASSUME IInv, CaptureLimits, [Next]_vars
    PROVE  CaptureLimits'
<1>0. /\ sent \in Nat /\ sent <= DumpMessages /\ DumpMessages \in Nat /\ DumpMessages >= 1
      /\ ring \in Nat /\ file \in Nat
      /\ proof = "capture" => sent = 0
  BY DumpMessagesAssumption DEF CaptureLimits, IInv, Captured
<1>1. CASE OpenProof \/ ProofClear \/ ProofRemove
  <2>1. proof' # "ask" /\ UNCHANGED captureVars
    BY <1>1 DEF OpenProof, ProofClear, ProofRemove, GiveUp, Proceed
  <2> QED
    BY <2>1 DEF captureVars, CaptureLimits
<1>2. CASE ProofCreate
  <2>1. proof = "create" /\ UNCHANGED captureVars
    BY <1>2 DEF ProofCreate
  <2>2. sent = 0
    BY <2>1 DEF IInv, Captured
  <2> QED
    BY <2>1, <2>2 DEF captureVars, CaptureLimits
<1>3. CASE StartCapture
  BY <1>0, <1>3 DEF StartCapture, CaptureLimits
<1>4. CASE AskDump \/ AnswerDump
  <2>1. /\ proof' # "ask" /\ UNCHANGED <<enabled, pcapError, handle, capture, broken, file>>
        /\ \/ sent < DumpMessages /\ OnWire
           \/ UNCHANGED <<sent, ring>>
    BY <1>0, <1>4 DEF AskDump, AnswerDump, GiveUp, Proceed, CaptureLimits
  <2> QED
    BY <1>0, <2>1 DEF OnWire, CaptureLimits
<1>5. CASE StopCapture \/ JoinCapture
  BY <1>0, <1>5 DEF StopCapture, JoinCapture, Proceed, CaptureLimits
<1>6. CASE CaptureReads \/ CaptureFails
  <2>1. /\ UNCHANGED <<proof, enabled, pcapError, handle, sent>>
        /\ \/ capture' \in {"looping", "left"} /\ UNCHANGED <<broken, ring, file>>
           \/ capture' = "left" /\ broken' = FALSE /\ UNCHANGED <<ring, file>>
           \/ /\ ring > 0 /\ ring' = ring - 1 /\ file' = file + 1
              /\ UNCHANGED <<capture, broken>>
    BY <1>6 DEF CaptureReads, CaptureFails, EnterLoop, ReadPacket, LoopFails
  <2>2. broken' \in BOOLEAN
    BY Zenon, <2>1 DEF CaptureLimits
  <2> QED
    BY <1>0, <2>1, <2>2 DEF CaptureLimits
<1>7. CASE proof' = "open" /\ UNCHANGED captureVars
  BY <1>7 DEF captureVars, CaptureLimits
<1>8. CASE UNCHANGED proofVars
  BY <1>8 DEF proofVars, CaptureLimits
<1> QED
  BY <1>1, <1>2, <1>3, <1>4, <1>5, <1>6, <1>7, <1>8, ProofTouched DEF ProofStep

LEMMA RunsAreNat ==
    ASSUME NEW c \in Configs
    PROVE  c.runs \in Nat
<1>1. c.runs \in RunChoices \cup {0}
  BY DEF Configs
<1> QED
  BY Zenon, <1>1, 0 \in Nat, RunChoicesAssumption

\* The number of runs is set before the benchmark starts.
LEMMA RunsStay ==
    ASSUME IInv, [Next]_vars
    PROVE  /\ cfg'.runs \in Nat
           /\ \/ cfg'.runs = cfg.runs
              \/ bench = "idle" /\ bench' = "idle"
<1>1. /\ cfg \in Configs /\ cfg' \in Configs
  BY StepKeeps DEF IInv, Typed
<1>2. cfg'.runs \in Nat
  BY <1>1, RunsAreNat
<1>3. CASE ParseCommandLine
  <2>1. main = "start" /\ UNCHANGED benchVars
    BY <1>3 DEF ParseCommandLine
  <2> QED
    BY <1>2, <2>1 DEF benchVars, IInv, Stages
<1>4. CASE SelftestStep
  <2>1. cfg' = cfg \/ cfg' = Lowered(cfg)
    BY <1>4 DEF SelftestStep, RunTest, OpenSocket, Verdict, sessionVars
  <2> QED
    <3>1. Lowered(cfg).runs = cfg.runs
      BY <1>1, LoweredConfig
    <3> QED
      BY <1>2, <2>1, <3>1
<1>5. CASE cfg' = cfg
  BY <1>2, <1>5
<1>6. CASE MainStep /\ ~ParseCommandLine
  BY <1>5, <1>6 DEF MainStep, PinCpu, RaceMode, CallSelftests, AfterSelftests, AfterProof,
     AfterBench, PrintReport, FreeSummary, sessionVars
<1>7. CASE ProofStep \/ BenchStep
  BY <1>5, <1>7, ProofMoves, BenchMoves
<1>8. CASE CaptureThread \/ UNCHANGED vars
  BY <1>5, <1>8 DEF CaptureThread, Capturing, sessionVars, vars
<1> QED
  BY <1>3, <1>4, <1>6, <1>7, <1>8 DEF Next, Main

LEMMA BenchLimitsKept ==
    ASSUME IInv, BenchLimits, [Next]_vars
    PROVE  BenchLimits'
<1>0. /\ cfg.runs \in Nat /\ run \in Nat /\ run <= cfg.runs
      /\ kept \subseteq 0..(run - 1)
  <2>1. cfg.runs \in Nat
    BY RunsAreNat DEF IInv, Typed
  <2> QED
    BY <2>1 DEF BenchLimits
<1>1. CASE bench = "idle" /\ bench' = "idle"
  <2>1. UNCHANGED <<run, kept, runs, published>>
    BY <1>1, BenchTouched, BenchMoves
  <2> QED
    BY <1>1, <2>1, RunsStay DEF BenchLimits, Underway
<1>2. CASE cfg'.runs = cfg.runs
  <2>1. CASE OpenBench
    <3>1. /\ bench = "open" /\ UNCHANGED <<run, kept, published>>
          /\ runs' = runs \/ runs' = TRUE
          /\ \/ bench' \in {"returned", "out", "publish"}
             \/ bench' = "setup" /\ cfg.runs > 0
      BY <2>1 DEF OpenBench
    <3>2. runs' \in BOOLEAN
      BY Zenon, <3>1 DEF BenchLimits
    <3> QED
      BY <1>0, <1>2, <3>1, <3>2 DEF BenchLimits, Underway
  <2>2. CASE SetUpRun \/ WarmUpCreate \/ WarmUpReplace \/ Clear \/ TimedCreate \/ TimedReplace
             \/ ClockFails \/ Remove
    <3>1. /\ bench \in Underway \ {"publish", "medians"}
          /\ bench' \in (Underway \ {"publish", "medians"}) \cup {"out"}
          /\ UNCHANGED <<run, kept, runs, published>>
      BY <2>2 DEF SetUpRun, WarmUpCreate, WarmUpReplace, Clear, TimedCreate, TimedReplace,
         ClockFails, Remove, GoOn, Fail, Underway, BenchStages
    <3> QED
      BY <1>2, <3>1 DEF BenchLimits, Underway
  <2>3. CASE Reckon
    <3>1. run < cfg.runs
      BY <2>3 DEF Reckon, BenchLimits, Underway, BenchStages
    <3>2. \/ bench' = "out" /\ UNCHANGED <<run, kept, runs, published>>
          \/ /\ kept' = kept \cup {run} \/ kept' = kept
             /\ run' = run + 1
             /\ bench' = IF run + 1 < cfg.runs THEN "setup" ELSE "publish"
             /\ UNCHANGED <<runs, published>>
      BY <2>3 DEF Reckon, Fail
    <3>3. CASE bench' = "out" /\ UNCHANGED <<run, kept, runs, published>>
      BY <1>2, <3>3 DEF BenchLimits, Underway
    <3>4. CASE /\ kept' = kept \cup {run} \/ kept' = kept
               /\ run' = run + 1
               /\ bench' = IF run + 1 < cfg.runs THEN "setup" ELSE "publish"
               /\ UNCHANGED <<runs, published>>
      <4>1. run' \in 0..cfg'.runs /\ kept' \subseteq 0..(run' - 1)
        <5>1. run' \in 0..cfg'.runs
          BY <1>0, <1>2, <3>1, <3>4
        <5>2. run \in 0..(run' - 1) /\ 0..(run - 1) \subseteq 0..(run' - 1)
          BY <1>0, <3>4
        <5> QED
          BY <1>0, <3>4, <5>1, <5>2
      <4>2. bench' \in {"setup", "publish"} /\ (bench' = "setup" => run' < cfg'.runs)
        BY <1>2, <3>4
      <4> QED
        BY <3>4, <4>1, <4>2 DEF BenchLimits, Underway
    <3> QED
      BY <3>2, <3>3, <3>4
  <2>4. CASE Publish \/ TakeMedians \/ LeaveBench
    <3>1. /\ bench' \in {"medians", "out", "returned"} /\ UNCHANGED <<run, kept, runs>>
          /\ published' = TRUE \/ published' = published
      BY <2>4 DEF Publish, TakeMedians, LeaveBench
    <3>2. published' \in BOOLEAN
      BY Zenon, <3>1 DEF BenchLimits
    <3> QED
      BY <1>2, <3>1, <3>2 DEF BenchLimits, Underway
  <2>5. CASE bench = "idle" /\ bench' = "open" /\ UNCHANGED <<run, kept, runs, published>>
    BY <1>2, <2>5 DEF BenchLimits, Underway
  <2>6. CASE UNCHANGED <<bench, run, kept, runs, published>>
    BY <1>2, <2>6 DEF BenchLimits
  <2> QED
    BY <2>1, <2>2, <2>3, <2>4, <2>5, <2>6, BenchTouched DEF BenchStep
<1> QED
  BY <1>1, <1>2, RunsStay

LEMMA MainLimitsKept ==
    ASSUME IInv, MainLimits, [Next]_vars
    PROVE  MainLimits'
<1>1. CASE UNCHANGED <<exitCode, errorPhase, raced, corrupt>>
  BY <1>1 DEF MainLimits
<1>2. CASE ParseCommandLine
  BY <1>2 DEF ParseCommandLine, MainLimits
<1>3. CASE PinCpu \/ AfterSelftests \/ AfterProof \/ AfterBench
  BY <1>3 DEF PinCpu, AfterSelftests, AfterProof, AfterBench, CallProof, CallBench, Blame,
     MainLimits
<1>4. CASE RaceMode
  <2>1. cfg.json \in BOOLEAN
    BY DEF IInv, Typed, Configs
  <2>2. /\ raced' = cfg.json /\ corrupt' = corrupt
        /\ Blame("race") \/ UNCHANGED <<exitCode, errorPhase>>
    BY <1>4 DEF RaceMode
  <2> QED
    BY <2>1, <2>2 DEF Blame, MainLimits
<1>5. CASE FreeSummary
  <2>1. /\ UNCHANGED <<exitCode, errorPhase, raced>>
        /\ corrupt' = (Results \notin heap) \/ corrupt' = corrupt
    BY <1>5 DEF FreeSummary
  <2>2. (Results \notin heap) \in BOOLEAN
    BY Zenon
  <2>3. corrupt' \in BOOLEAN
    BY Zenon, <2>1, <2>2 DEF MainLimits
  <2> QED
    BY <2>1, <2>3 DEF MainLimits
<1>6. CASE CallSelftests \/ PrintReport
  BY <1>1, <1>6 DEF CallSelftests, PrintReport
<1>7. CASE Main /\ ~MainStep
  BY <1>1, <1>7 DEF Main, mainVars
<1>8. CASE CaptureThread \/ UNCHANGED vars
  BY <1>1, <1>8 DEF CaptureThread, Capturing, mainVars, vars
<1> QED
  BY <1>2, <1>3, <1>4, <1>5, <1>6, <1>7, <1>8 DEF Next, Main, MainStep

\* However a request ends, the action is the one before it or the one it asked for.
LEMMA EndsTyped ==
    ASSUME gate \in {Absent, "ours", "other"},
           NEW end \in CreateEnds \cup ReplaceEnds \cup DeleteEnds
    PROVE  end.gate \in {Absent, "ours", "other"}
  BY DEF CreateEnds, ReplaceEnds, DeleteEnds, Fates, Refused, Create, Replace, Delete

LEMMA SessionTyped ==
    ASSUME SessionTypeOK, [Next]_vars
    PROVE  SessionTypeOK'
<1> DEFINE Asks == \E kind \in {"create", "replace", "delete"} :
                     \E end \in CreateEnds \cup ReplaceEnds \cup DeleteEnds : Request(kind, end)
<1>1. CASE UNCHANGED <<gate, lastRequest>>
  BY <1>1 DEF SessionTypeOK
<1>2. CASE Asks
  BY <1>2, EndsTyped DEF Request, SessionTypeOK
<1> HIDE DEF Asks
<1>3. CASE MainStep
  <2>1. CASE RaceMode
    BY <2>1 DEF RaceMode, SessionTypeOK
  <2>2. CASE MainStep /\ ~RaceMode
    BY <1>1, <2>2 DEF MainStep, ParseCommandLine, PinCpu, CallSelftests, AfterSelftests,
       AfterProof, AfterBench, PrintReport, FreeSummary, sessionVars
  <2> QED
    BY <1>3, <2>1, <2>2
<1>4. CASE SelftestStep
  <2>1. CASE RunTest
    BY <2>1 DEF RunTest, LeftBy, SessionTypeOK
  <2>2. CASE OpenSocket \/ Verdict
    BY <1>1, <2>2 DEF OpenSocket, Verdict, sessionVars
  <2> QED
    BY <1>4, <2>1, <2>2 DEF SelftestStep
<1>5. CASE ProofStep
  <2>1. CASE AskDump
    BY <2>1 DEF AskDump, Request, SessionTypeOK
  <2>2. CASE ProofClear \/ ProofCreate \/ ProofRemove
    BY <1>2, <2>2 DEF ProofClear, ProofCreate, ProofRemove, Asks
  <2>3. CASE OpenProof \/ StartCapture \/ AnswerDump \/ StopCapture \/ JoinCapture
    BY <1>1, <2>3 DEF OpenProof, StartCapture, AnswerDump, StopCapture, JoinCapture, sessionVars
  <2> QED
    BY <1>5, <2>1, <2>2, <2>3 DEF ProofStep
<1>6. CASE BenchStep
  <2>1. CASE WarmUpCreate \/ WarmUpReplace \/ Clear \/ TimedCreate \/ TimedReplace \/ Remove
    BY <1>2, <2>1 DEF WarmUpCreate, WarmUpReplace, Clear, TimedCreate, TimedReplace, Remove, Asks
  <2>2. CASE \/ OpenBench \/ SetUpRun \/ ClockFails \/ Reckon
             \/ Publish \/ TakeMedians \/ LeaveBench
    BY <1>1, <2>2 DEF OpenBench, SetUpRun, ClockFails, Reckon, Publish, TakeMedians, LeaveBench,
       sessionVars
  <2> QED
    BY <1>6, <2>1, <2>2 DEF BenchStep
<1>7. CASE CaptureThread \/ UNCHANGED vars
  BY <1>1, <1>7 DEF CaptureThread, Capturing, sessionVars, vars
<1> QED
  BY <1>3, <1>4, <1>5, <1>6, <1>7 DEF Next, Main

-----------------------------------------------------------------------------
(* The theorems *)

\* The inductive invariant holds in every behaviour of the program.
THEOREM IInvHolds == Spec => []IInv
  BY InitIInv, StepKeeps, PTL DEF Spec

\* No request of the benchmark or the dump proof follows a failed internal or
\* stable selftest (gb_selftest_run), for any number of stable tests.
THEOREM OnlyTestedIsMeasured == Spec => []MeasuresOnlyTested
<1>1. IInv => MeasuresOnlyTested
  BY DEF IInv, Stages, Tested, Requests, MeasuresOnlyTested
<1> QED BY <1>1, IInvHolds, PTL

\* After a failed large dump no request has more entries than the safe number,
\* for any limit of entries and any safe number.
THEOREM EntriesAreSafe == Spec => []EntriesStaySafe
<1>1. IInv => EntriesStaySafe
  BY DEF IInv, Stages, Tested, Requests, EntriesStaySafe
<1> QED BY <1>1, IInvHolds, PTL

\* The clock of benchmark_single_run starts on an index without an action,
\* whatever the runs before it and their requests came to.
THEOREM TimingStartsFromNothing == Spec => []StartsFromNothing
<1>1. IInv => StartsFromNothing
  BY DEF IInv, Requests, StartsFromNothing
<1> QED BY <1>1, IInvHolds, PTL

\* gb_proof_run ends with a delete from its first request on, and so does
\* gb_bench_run when it succeeds, for any number of runs.
THEOREM EndsWithDelete == Spec => []LeavesWithDelete
<1>1. IInv => LeavesWithDelete
  BY DEF IInv, Requests, LeavesWithDelete
<1> QED BY <1>1, IInvHolds, PTL

\* Every block the benchmark allocates is freed by the time the program ends,
\* for any number of runs and wherever the first error is.
THEOREM EverythingIsFreed == Spec => []NothingLeaks
<1>1. IInv => NothingLeaks
  BY DEF IInv, Heap, NothingLeaks
<1> QED BY <1>1, IInvHolds, PTL

\* pcap_loop only ever reads an open handle, and no message of the dump, however
\* long it is, passes before the capture.
THEOREM DumpIsCaptured == Spec => []CaptureCoversDump
<1>1. IInv => CaptureCoversDump
  BY DEF IInv, Captured, CaptureCoversDump
<1> QED BY <1>1, IInvHolds, PTL

\* The report that json_print_report prints agrees with the exit code, and by the
\* phase it blames has the status of the selftests and the sections of what was run.
THEOREM ReportStaysTrue == Spec => []ReportIsTrue
<1>1. IInv => ReportIsTrue
  BY DEF IInv, Reported
<1> QED BY <1>1, IInvHolds, PTL

\* For any number of tests and runs and any length of the dump, no suite counts
\* more failures than tests, only runs with a place in the results keep samples,
\* and no more messages are captured than were sent.
THEOREM TypeCorrect == Spec => []TypeOK
<1>1. Limits /\ IInv /\ [Next]_vars => Limits'
  BY SuiteLimitsKept, CaptureLimitsKept, BenchLimitsKept, MainLimitsKept, SessionTyped DEF Limits
<1>2. Limits /\ IInv => TypeOK
  <2> SUFFICES ASSUME Limits, IInv PROVE TypeOK
    OBVIOUS
  <2>1. SelftestsTypeOK
    <3>1. done \in 0..(StableTests + 3)
      BY CountsOf DEF Limits, SuiteLimits
    <3>2. \A s \in Suites : failed[s] \in 0..Count[s]
      BY CountsOf DEF Limits, SuiteLimits
    <3> QED
      BY <3>1, <3>2 DEF SelftestsTypeOK, IInv, Typed, SuiteStages
  <2>2. ProofTypeOK
    <3>1. ring \in 0..DumpMessages /\ file \in 0..DumpMessages /\ sent \in 0..DumpMessages
      BY DumpMessagesAssumption DEF Limits, CaptureLimits
    <3>2. enabled \in BOOLEAN /\ pcapError \in BOOLEAN /\ handle \in BOOLEAN /\ broken \in BOOLEAN
      BY DEF Limits, CaptureLimits
    <3>3. {enabled, pcapError, handle, broken} \subseteq BOOLEAN
      BY Zenon, <3>2
    <3>4. {sent, ring, file} \subseteq 0..DumpMessages
      BY Zenon, <3>1
    <3> QED
      BY <3>3, <3>4 DEF ProofTypeOK, Limits, CaptureLimits, IInv, Typed, ProofStages
  <2>3. BenchTypeOK
    <3>1. kept \subseteq 0..(cfg.runs - 1)
      <4>1. run \in 0..cfg.runs /\ kept \subseteq 0..(run - 1) /\ cfg.runs \in Nat
        BY RunsAreNat DEF Limits, BenchLimits, IInv, Typed
      <4>2. 0..(run - 1) \subseteq 0..(cfg.runs - 1)
        BY <4>1
      <4> QED
        BY <4>1, <4>2
    <3>2. {runs, published} \subseteq BOOLEAN
      BY Zenon DEF Limits, BenchLimits
    <3> QED
      BY <3>1, <3>2 DEF BenchTypeOK, Limits, BenchLimits, IInv, Typed, Heap, BenchStages
  <2>4. {raced, corrupt} \subseteq BOOLEAN
    BY Zenon DEF Limits, MainLimits
  <2> QED
    BY <2>1, <2>2, <2>3, <2>4 DEF TypeOK, Limits, MainLimits, IInv, Typed, Places
<1> QED
  BY <1>1, <1>2, InitLimits, InitIInv, StepKeeps, PTL DEF Spec
=============================================================================
