---------------------------- MODULE MCM1Session ----------------------------
(***************************************************************************)
(* Instances of M1Session for TLC: image sizes and the mixes of calls.     *)
(***************************************************************************)
EXTENDS M1Session

\* Two firmware chunks, so that a chunk can be skipped or sent twice; one for
\* the others, which run through the same definitions.
MCChunks == [k \in Kind |-> IF k = "fw" THEN 2 ELSE 1]

\* What reads or writes the link state: one transfer of each kind, the queue and
\* the erase that outlives its link.
LinkOps == Kind \cup {"files", "erase"}

\* Everything but a folder upload: a MKDIR whose answer is lost leaves the mkdir
\* queue waiting without a deadline, and any later ACK would advance it.
QuietOps == AllOps \ {"folder"}

\* No bank erase and no queue: neither resumes the keepalive on every path.
LiveOps == Kind \cup {"swap", "misc", "reboot"}
=============================================================================
