------------------------------ MODULE MCTwoWay ------------------------------
(* An instance of TwoWay for TLC.                                          *)
EXTENDS TwoWay, TLC

\* The two programs number their signatures differently.
Numbers ==
    [p \in Peers |->
       IF p = "client"
       THEN [x \in Names |-> CASE x = "handles_signature" -> 1 [] x = "set_decimation" -> 2
                               [] x = "B" -> 3 [] x = "Sum" -> 4 [] x = "Product" -> 5]
       ELSE [x \in Names |-> CASE x = "handles_signature" -> 5 [] x = "set_decimation" -> 4
                               [] x = "B" -> 1 [] x = "Sum" -> 2 [] x = "Product" -> 3]]
=============================================================================
