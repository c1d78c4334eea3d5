---------------------------- MODULE MCByteStream ----------------------------
(* An instance of ByteStream for TLC.                                      *)
EXTENDS ByteStream, TLC

\* Sample 8 is a byte, a string and a variable array of bytes.  Its packets
\* fill the buffer exactly, or overflow it in the string or at the length of
\* the array; its declaration fills it twice.  The type has no signature to
\* store.
Layouts == 8 :> <<Item("bytes", 1), Item("string", 0), Item("packed", 0), Item("counted", 0)>>

Sample(v, s, a) == [tag |-> 8, body |-> <<Prim(1, v), String(s), Number(Len(a)), Raw(a)>>]

Declare(tag, i, name, sig) == [tag |-> tag, index |-> i, name |-> name, sig |-> sig]

SomeCalls == {Declare(SAMPLE_DEF, 8, <<5>>, <<6, 7>>), Declare(TYPE_DEF, 8, <<>>, <<>>),
              Sample(1, <<>>, <<>>), Sample(6, <<0>>, <<>>), Sample(5, <<>>, <<7, 4>>)}
=============================================================================
