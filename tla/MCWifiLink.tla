----------------------------- MODULE MCWifiLink -----------------------------
(***************************************************************************)
(* An instance of WifiLink for TLC: bytes 0 to 3, where 3 is the sync byte *)
(* and may also occur inside a frame.                                      *)
(***************************************************************************)
EXTENDS WifiLink

\* A checksum that tells the two dialects apart, but not for every body; a CRC
\* byte may equal Sync.
MCCrc(dialect, body) ==
    LET total[i \in 0..Len(body)] == IF i = 0 THEN 0 ELSE total[i - 1] + body[i]
    IN  <<total[Len(body)] % Base, IF dialect = "Correct" \/ body[1] = 1 THEN 1 ELSE 2>>

\* A frame whose payload is the sync byte, and one without a payload,
\* whose CRC is the same in both dialects.
MCReplies == <<[cmd |-> 0, seq |-> 1, payload |-> <<3>>],
               [cmd |-> 1, seq |-> 0, payload |-> <<>>]>>

\* A device whose first frame is the latter.
MCTwinReply == Tail(MCReplies)
=============================================================================
