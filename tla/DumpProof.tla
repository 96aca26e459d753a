------------------------------ MODULE DumpProof ------------------------------
(***************************************************************************)
(* The dump proof (src/proof.c): gb_proof_run replaces the action by its   *)
(* own, dumps the actions, optionally under a packet capture written to a  *)
(* file, and deletes its action again.                                     *)
(*                                                                         *)
(* The capture is a thread in pcap_loop.  Of libpcap, which is not part of *)
(* the program, the model keeps what its manual says: the handle receives  *)
(* packets from pcap_open_live on; pcap_loop looks at the break flag       *)
(* before each packet, also when pcap_breakloop came before it; and a read *)
(* without packets returns to it after the timeout of the handle.          *)
(***************************************************************************)
EXTENDS Session

CONSTANT DumpMessages     \* how many messages of a dump the capture is looked at with

ASSUME DumpMessagesAssumption == DumpMessages \in Nat \ {0}

VARIABLES
    proof,       \* where gb_proof_run is
    verdict,     \* what it is about to return, or returned: "none", "ok", "error"
    enabled,     \* summary->pcap_enabled
    pcapError,   \* summary->pcap_error is set
    handle,      \* the capture handle is open
    capture,     \* the capture thread: "none", "started", "looping", "left" or "joined"
    broken,      \* the break flag of the handle
    sent,        \* history: the messages of the dump on the wire
    ring,        \* those the handle received and the thread has not read
    file         \* those written to the capture file

proofVars == <<proof, verdict, enabled, pcapError, handle, capture, broken, sent, ring, file>>
captureVars == <<enabled, pcapError, handle, capture, broken, sent, ring, file>>

ProofInit ==
    /\ proof = "idle"
    /\ verdict = "none"
    /\ enabled = FALSE /\ pcapError = FALSE
    /\ handle = FALSE
    /\ capture = "none"
    /\ broken = FALSE
    /\ sent = 0 /\ ring = 0 /\ file = 0

Proceed(stage) == proof' = stage /\ UNCHANGED verdict
GiveUp(stage) == proof' = stage /\ verdict' = "error"

StartProof ==
    /\ proof = "idle"
    /\ Proceed("open")
    /\ UNCHANGED captureVars

\* The socket; then the entries and the messages.  Without the messages for it
\* there is no final delete; when only the create is missing, there is one.
OpenProof ==
    /\ proof = "open"
    /\ \/ GiveUp("over")
       \/ cfg.interval <= MaxInterval /\ GiveUp("out")
       \/ cfg.interval <= MaxInterval /\ Proceed("clear")      \* gb_fill_entries
    /\ UNCHANGED <<captureVars, sessionVars>>

ProofClear ==
    /\ proof = "clear"
    /\ \E end \in DeleteEnds :
         /\ Request("delete", end)
         /\ IF end.ret \in {"ok", "ENOENT"} THEN Proceed("create") ELSE GiveUp("out")
    /\ UNCHANGED captureVars

ProofCreateReturns ==
    /\ proof = "create"
    /\ \E end \in CreateEnds :
         /\ Request("create", end)
         /\ CASE end.ret # "ok" -> GiveUp("over")
              [] cfg.pcap       -> Proceed("capture")
              [] OTHER          -> Proceed("ask")
    /\ UNCHANGED captureVars

ProofCreate ==
    /\ proof = "create"
    /\ \E end \in CreateEnds :
         /\ Request("create", end)
         /\ CASE end.ret # "ok" -> GiveUp("out")
              [] cfg.pcap       -> Proceed("capture")
              [] OTHER          -> Proceed("ask")
    /\ UNCHANGED captureVars

\* gb_pcap_start: what fails is closed again at once.
StartCapture ==
    /\ proof = "capture"
    /\ \/ /\ handle' = TRUE /\ capture' = "started" /\ enabled' = TRUE
          /\ Proceed("ask")
          /\ UNCHANGED pcapError
       \/ /\ pcapError' = TRUE
          /\ GiveUp("out")
          /\ UNCHANGED <<handle, capture, enabled>>
    /\ UNCHANGED <<broken, sent, ring, file, sessionVars>>

\* A message of the dump passes the interface of the capture.
OnWire ==
    /\ sent' = sent + 1
    /\ ring' = IF handle THEN ring + 1 ELSE ring

\* gb_nl_dump_action sends the request ...
AskDump ==
    /\ proof = "ask"
    /\ \/ OnWire /\ Proceed("answer")
       \/ GiveUp("out") /\ UNCHANGED <<sent, ring>>
    /\ Request("dump", [gate |-> gate])
    /\ UNCHANGED <<enabled, pcapError, handle, capture, broken, file>>

\* ... and reads the messages of the answer up to its end, an error or a timeout.
AnswerDump ==
    /\ proof = "answer"
    /\ \/ sent < DumpMessages /\ OnWire /\ Proceed("answer")
       \/ /\ \/ proof' = "out" /\ verdict' = "ok"
             \/ GiveUp("out")
          /\ UNCHANGED <<sent, ring>>
    /\ UNCHANGED <<enabled, pcapError, handle, capture, broken, file, sessionVars>>

StopCaptureQuietly ==
    /\ proof = "out"
    /\ Proceed(IF enabled THEN "join" ELSE "remove")
    /\ UNCHANGED captureVars
    /\ UNCHANGED sessionVars

\* gb_pcap_stop: break the loop, ...
StopCapture ==
    /\ proof = "out"
    /\ IF enabled
         THEN broken' = TRUE /\ Proceed("join")
         ELSE Proceed("remove") /\ UNCHANGED broken
    /\ UNCHANGED <<enabled, pcapError, handle, capture, sent, ring, file, sessionVars>>

JoinCaptureTooEarly ==
    /\ proof = "join"
    /\ capture' = IF capture = "left" THEN "joined" ELSE capture
    /\ handle' = FALSE
    /\ Proceed("remove")
    /\ UNCHANGED <<enabled, pcapError, broken, sent, ring, file, sessionVars>>

\* ... wait for the thread, and close the file and the handle.
JoinCapture ==
    /\ proof = "join"
    /\ capture = "left"
    /\ capture' = "joined"
    /\ handle' = FALSE
    /\ Proceed("remove")
    /\ UNCHANGED <<enabled, pcapError, broken, sent, ring, file, sessionVars>>

\* The delete that every path from the first one on ends with.
ProofRemove ==
    /\ proof = "remove"
    /\ \E end \in DeleteEnds : Request("delete", end)
    /\ Proceed("over")
    /\ UNCHANGED captureVars

ProofStep ==
    \/ OpenProof \/ ProofClear \/ ProofCreate \/ StartCapture \/ AskDump
    \/ AnswerDump \/ StopCapture \/ JoinCapture \/ ProofRemove

-----------------------------------------------------------------------------
(* The capture thread: pcap_thread_main *)

EnterLoop ==
    /\ capture = "started"
    /\ capture' = "looping"
    /\ UNCHANGED <<broken, ring, file>>

\* pcap_loop: the break flag first, then a packet.
ReadPacket ==
    /\ capture = "looping"
    /\ IF broken
         THEN capture' = "left" /\ broken' = FALSE /\ UNCHANGED <<ring, file>>
         ELSE /\ ring > 0
              /\ ring' = ring - 1 /\ file' = file + 1
              /\ UNCHANGED <<capture, broken>>

\* The interface goes away.
LoopFails ==
    /\ capture = "looping"
    /\ capture' = "left"
    /\ UNCHANGED <<broken, ring, file>>

CaptureReads ==
    /\ EnterLoop \/ ReadPacket
    /\ UNCHANGED <<proof, verdict, enabled, pcapError, handle, sent>>

CaptureFails ==
    /\ LoopFails
    /\ UNCHANGED <<proof, verdict, enabled, pcapError, handle, sent>>

ProofTypeOK ==
    /\ proof \in {"idle", "open", "clear", "create", "capture", "ask", "answer",
                  "out", "join", "remove", "over"}
    /\ verdict \in {"none", "ok", "error"}
    /\ {enabled, pcapError, handle, broken} \subseteq BOOLEAN
    /\ capture \in {"none", "started", "looping", "left", "joined"}
    /\ {sent, ring, file} \subseteq 0..DumpMessages
=============================================================================
