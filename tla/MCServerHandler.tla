----------------------------- MODULE MCServerHandler ----------------------------
(* Constants of ServerHandler for TLC: one bin and one range beside the
   defaults, so that a bin can register twice and a bad first message is seen. *)
EXTENDS ServerHandler

CONSTANTS b1, r1

MCBins == {b1}
MCRanges == {r1}

\* Zeroed memory, a stray flag, and a byte that is set in every field.
Fields(s, a, r) == [stopped |-> s, hasAuthenticated |-> a, isReading |-> r]
MCGarbage == {Fields(FALSE, FALSE, FALSE), Fields(FALSE, TRUE, FALSE), Fields(TRUE, TRUE, TRUE)}

================================================================================
