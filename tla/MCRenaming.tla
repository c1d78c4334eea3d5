----------------------------- MODULE MCRenaming -----------------------------
(* Instances of Renaming for TLC.                                          *)
EXTENDS Renaming, TLC

CONSTANTS t1, t2, p, s

\* A prefix encoder, a suffix encoder on top of it, and a prefix decoder that
\* gives the same names as the prefix encoder.
Stack      == <<0, 1, 0>>
StackAffix == <<p, s, p>>
\* One thread uses the decoder, both use the encoders.
StackUsers == <<{t2}, {t1, t2}, {t1}>>
StackSamples == <<{2}, {1}, {2}>>
StackOps == <<{"encode"}, {"ref_register", "ref_get"}, {"ioctl"}>>
StackLives == <<1, 1, 1>>
=============================================================================
