---------------------------- MODULE TypedChannel ----------------------------
(***************************************************************************)
(* What a LabComm channel promises the two programs at its ends: samples   *)
(* are received in the order they were sent, each at most once, none left  *)
(* out before one that is received, and each as the type it was sent as.   *)
(* A reference to a sample type is received as that type or as null.       *)
(***************************************************************************)
EXTENDS Integers, Sequences

CONSTANTS
    Null            \* the reference to no sample type

VARIABLES
    sent,           \* the samples sent: records with key, ref and val
    received        \* the samples received

vars == <<sent, received>>

Init == sent = <<>> /\ received = <<>>

Send ==
    /\ Len(sent') = Len(sent) + 1
    /\ SubSeq(sent', 1, Len(sent)) = sent
    /\ UNCHANGED received

Receive ==
    /\ Len(received) < Len(sent)
    /\ LET s == sent[Len(received) + 1] IN
         \E ref \in {s.ref, Null} :
           received' = Append(received, [key |-> s.key, ref |-> ref, val |-> s.val])
    /\ UNCHANGED sent

Next == Send \/ Receive

Spec == Init /\ [][Next]_vars
=============================================================================
