------------------------------- MODULE Session -------------------------------
(***************************************************************************)
(* What the parts of the program share: the configuration, the action at   *)
(* its index in the kernel, and the requests sent for it.                  *)
(***************************************************************************)
EXTENDS CommandLine, GateKernel

VARIABLES
    cfg,          \* struct gb_config, once the command line was parsed
    gate,         \* the action at cfg.index: Absent, ours, or somebody else's
    lastRequest   \* history: the last request about it, "none" before the first

sessionVars == <<cfg, gate, lastRequest>>

\* One request about the action at cfg.index, with its end.
Request(kind, end) ==
    /\ gate' = end.gate
    /\ lastRequest' = kind
    /\ UNCHANGED cfg

CreateEnds == Fates(gate, Create(gate, "ours"))
ReplaceEnds == Fates(gate, Replace(gate, "ours"))
DeleteEnds == Fates(gate, Delete(gate))

SessionTypeOK ==
    /\ gate \in {Absent, "ours", "other"}
    /\ lastRequest \in {"none", "create", "replace", "delete", "dump"}
=============================================================================
