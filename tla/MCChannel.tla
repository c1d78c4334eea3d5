----------------------------- MODULE MCChannel -----------------------------
(* Instances of Channel for TLC.                                           *)
EXTENDS Channel, TLC

CONSTANTS Point, Text

\* The two programs declare the same samples in opposite orders, so that an
\* index means one sample to the sender and the other to the receiver.
PointText == <<Point, Text>>
TextPoint == <<Text, Point>>

\* The receiver has, besides, two signatures of the same name and type.
TextPointPoint == <<Text, Point, Point>>

NoDeps == (64 :> <<>>) @@ (65 :> <<>>)
=============================================================================
