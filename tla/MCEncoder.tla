----------------------------- MODULE MCEncoder -----------------------------
(* Instances of Encoder for TLC.                                           *)
EXTENDS Encoder, TLC

CONSTANTS Point, Line, Text

\* Two typedefs' worth of nesting: 64 is a typedef, 65 a typedef built from
\* it, 66 a sample built from both, 67 a sample that depends on 64 only.
SharedTypes    == <<Point, Line, Line, Point>>
SharedDeps     == (64 :> <<>>) @@ (65 :> <<64>>) @@ (66 :> <<65, 64>>) @@ (67 :> <<64>>)

\* Two plain samples.
PlainSamples   == <<Point, Text>>
PlainDeps      == (64 :> <<>>) @@ (65 :> <<>>)

Symmetry == Permutations(Threads)
=============================================================================
