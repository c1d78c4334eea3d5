-------------------------------- MODULE Wire --------------------------------
(***************************************************************************)
(* What a LabComm channel carries: packets, in the order they were sent.   *)
(*                                                                         *)
(* On the wire a packet is a tag and a length in the packed32 format and a *)
(* body; here it is a record, with the fields its tag has no use for left  *)
(* at 0 or NoKey.  A signature is identified by the local index its        *)
(* program gave it; what two programs can compare is its key, the name     *)
(* and the flat signature that a declaration packet spells out.            *)
(***************************************************************************)
EXTENDS Integers, Sequences

CONSTANTS
    Keys,               \* the names and flat signatures of the sample types
    NoKey,              \* the key field of a packet that carries none
    EncoderSignatures   \* the keys of the sending program's signatures, in
                        \* the order its constructors were run

ASSUME WireAssumption ==
    /\ NoKey \notin Keys
    /\ EncoderSignatures \in Seq(Keys)

VARIABLES
    wire                \* every packet sent so far

LABCOMM_VERSION      == 1
LABCOMM_SAMPLE_DEF   == 2
LABCOMM_SAMPLE_REF   == 3
LABCOMM_TYPE_DEF     == 4
LABCOMM_TYPE_BINDING == 5
LABCOMM_PRAGMA       == 63
LABCOMM_USER         == 64
LABCOMM_BIND_SELF    == 0

CURRENT_VERSION == 2014

\* labcomm2014_set_local_index numbers the signatures of a program from
\* LABCOMM_USER on, one for each call; a signature may be numbered only once.
LocalIndices(signatures) == LABCOMM_USER .. LABCOMM_USER + Len(signatures) - 1

KeyOf(signatures, index) == signatures[index - LABCOMM_USER + 1]

EncoderIndices == LocalIndices(EncoderSignatures)
EncoderKey(i)  == KeyOf(EncoderSignatures, i)

-----------------------------------------------------------------------------
\* whole = 0: the channel broke before all of the packet was sent.
Packets == [tag : Nat, index : Nat, key : Keys \cup {NoKey}, ref : Nat,
            val : Nat, whole : {0, 1}]

Packet(tag, index, key, ref, val) ==
    [tag |-> tag, index |-> index, key |-> key, ref |-> ref, val |-> val, whole |-> 1]

VersionPacket(version)  == Packet(LABCOMM_VERSION, 0, NoKey, 0, version)
Declaration(tag, i)     == Packet(tag, i, EncoderKey(i), 0, 0)
TypeBinding(s, t)       == Packet(LABCOMM_TYPE_BINDING, s, NoKey, t, 0)
SamplePacket(i, r, val) == Packet(i, 0, NoKey, r, val)

Truncated(p) == [p EXCEPT !.whole = 0]

IsSample(p) == p.tag >= LABCOMM_USER /\ p.whole = 1
=============================================================================
