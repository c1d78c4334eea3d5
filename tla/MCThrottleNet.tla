--------------------------- MODULE MCThrottleNet ---------------------------
(* Instances of ThrottleNet for TLC.                                       *)
EXTENDS ThrottleNet, TLC

CONSTANTS s1, s2

\* s1 sends to the receiver; s2 is a sender on another channel that asks for a
\* fragment size that is zero as an unsigned char, or one byte per fragment.
Channels == (s1 :> 1) @@ (s2 :> 2)
Sizes    == (s1 :> {2}) @@ (s2 :> {1, CharMod})

\* Three fragments, and a packet that the writer sends as two messages, of three
\* fragments and one.
PacketLengths == (s1 :> {5, 8}) @@ (s2 :> {4})
\* Up to four messages: a broken one, one taken for its end, and others after them.
PacketCounts == (s1 :> 2) @@ (s2 :> 1)
=============================================================================
