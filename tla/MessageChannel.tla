----------------------------- MODULE MessageChannel -----------------------------
(***************************************************************************)
(* What a handler's write side promises its callers: messages reach the     *)
(* peer in the order they were accepted, each at most once, and none that   *)
(* was not accepted; if the stream fails, nothing reaches the peer any more.*)
(***************************************************************************)
EXTENDS Sequences, Naturals

CONSTANT Messages

VARIABLES accepted, delivered, failed

Init == accepted = <<>> /\ delivered = <<>> /\ failed = FALSE

Accept(m) == /\ accepted' = Append(accepted, m)
             /\ UNCHANGED <<delivered, failed>>

Deliver == /\ ~failed
           /\ Len(delivered) < Len(accepted)
           /\ delivered' = Append(delivered, accepted[Len(delivered) + 1])
           /\ UNCHANGED <<accepted, failed>>

Fail == /\ failed' = TRUE
        /\ UNCHANGED <<accepted, delivered>>

Next == (\E m \in Messages : Accept(m)) \/ Deliver \/ Fail

Spec == Init /\ [][Next]_<<accepted, delivered, failed>>

================================================================================
