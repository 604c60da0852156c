----------------------------- MODULE MCStreamWriter -----------------------------
(* Constants of StreamWriter for TLC: two threads, two messages each, so that
   a thread can queue while the other's message is being written. *)
EXTENDS StreamWriter

CONSTANTS t1, t2

MCWriters == {t1, t2}

================================================================================
