----------------------------- MODULE CommandLine -----------------------------
(***************************************************************************)
(* The command line (src/cli.c): from the options given to the             *)
(* configuration the modes work from, or the refusal of it.                *)
(***************************************************************************)
EXTENDS Integers

CONSTANTS
    MaxEntries,    \* GB_MAX_ENTRIES
    MaxInterval,   \* the largest interval a gate entry holds, UINT32_MAX
    RunChoices     \* the values of --runs looked at

ASSUME MaxEntriesAssumption == MaxEntries \in Nat \ {0}
ASSUME MaxIntervalAssumption == MaxInterval \in Nat \ {0}
ASSUME RunChoicesAssumption == RunChoices \subseteq Nat

\* What the user asks for.  An option with no valid value (not a number, out of
\* the range of its type, a timeout or a race duration of 0, an unknown option)
\* is one the parser stops at; help, or version, is one given before it.
Options ==
    [json : BOOLEAN, mode : {"benchmark", "race", "dump", "pcap", "race+dump"},
     help : BOOLEAN, valid : BOOLEAN,
     iters : {0, 1, 3}, warmup : {0, 1}, runs : RunChoices,
     entries : {0, MaxEntries, MaxEntries + 1},
     interval : {0, MaxInterval, MaxInterval + 1},
     sampleEvery : {0, 2}]

\* The options gb_cli_parse ends in an error for, after all were read.
Rejected(o) ==
    \/ ~o.valid
    \/ o.iters = 0
    \/ o.entries = 0
    \/ o.interval = 0
    \/ o.sampleEvery > o.iters      \* sample_mode is sample_every > 0

CappedNever(n) == n

Capped(n) == IF n > MaxEntries THEN MaxEntries ELSE n

\* A capture implies the dump proof.
Config(o) ==
    [json |-> o.json,
     race |-> o.mode \in {"race", "race+dump"},
     dumpProof |-> o.mode \in {"dump", "race+dump", "pcap"},
     pcap |-> o.mode = "pcap",
     iters |-> o.iters, warmup |-> o.warmup, runs |-> o.runs,
     entries |-> Capped(o.entries), interval |-> o.interval,
     sampleEvery |-> o.sampleEvery]

Configs ==
    [json : BOOLEAN, race : BOOLEAN, dumpProof : BOOLEAN, pcap : BOOLEAN,
     iters : {1, 3}, warmup : {0, 1}, runs : RunChoices \cup {0},
     entries : 1..MaxEntries, interval : {MaxInterval, MaxInterval + 1},
     sampleEvery : {0, 2}]
=============================================================================
