------------------------------ MODULE Channel ------------------------------
(***************************************************************************)
(* A LabComm channel: an encoder in one program, a decoder in another, and *)
(* a reliable byte stream from the one to the other that may break at any  *)
(* time.  The two programs number their signatures independently.          *)
(***************************************************************************)
EXTENDS Encoder, Decoder

CONSTANTS
    ForeignTags     \* packets other LabComm implementations may send, which
                    \* this decoder is to skip

ASSUME ChannelAssumption ==
    ForeignTags \subseteq {0, LABCOMM_PRAGMA} \cup LABCOMM_TYPE_BINDING + 1 .. LABCOMM_PRAGMA

vars == <<wire, writerError, registered, sampleRef, typedefs, todo,
          pos, pc, versionOk, readerError, handler, remoteIndex, remoteToLocal,
          localRef, remoteToLocalRef, wrap, delivered>>

\* A packet that this encoder never sends.
ForeignPacket(tag) ==
    /\ Room
    /\ writerError = 0
    /\ wire' = Append(wire, Packet(tag, 0, NoKey, 0, 0))
    /\ UNCHANGED <<writerError, registered, sampleRef, typedefs, todo>>

Init == EncoderInit /\ DecoderInit

Next ==
    \/ EncoderStep /\ UNCHANGED decoderVars
    \/ (\E tag \in ForeignTags : ForeignPacket(tag)) /\ UNCHANGED decoderVars
    \/ (Register \/ ReadFails \/ DecodeStep) /\ UNCHANGED encoderVars

Spec == Init /\ [][Next]_vars

\* The thread in decoder_run goes on as long as there is something to read.
FairSpec == Spec /\ WF_vars(DecodeStep /\ UNCHANGED encoderVars)

-----------------------------------------------------------------------------
(* Properties *)

\* The variables of both ends keep their types.
TypeOK ==
    /\ EncoderTypeOK
    /\ pos \in 0 .. Len(wire)
    /\ pc \in {"read", "decode", "call", "stopped", "exited"}
    /\ versionOk \in {0, 1}
    /\ readerError \in {0, 1}
    /\ handler \in [TypeTags \cup DecoderIndices -> Handlers \cup {NoHandler}]
    /\ remoteIndex \in [TypeTags \cup DecoderIndices -> {0} \cup Tags]
    /\ remoteToLocal \in [Tags -> {0} \cup TypeTags \cup DecoderIndices]
    /\ localRef \in SUBSET DecoderIndices
    /\ remoteToLocalRef \in [Refs -> {0} \cup DecoderIndices]
    /\ wrap \in Wraps
    /\ delivered \in Seq(Deliveries)

\* A remote index is mapped to a registered signature that is the same as
\* the sender's, and a sample is handed to a handler of its own type, in
\* spite of registrations between the lookup and the call.
RightHandler ==
    /\ \A r \in EncoderIndices : remoteToLocal[r] # 0 =>
         /\ remoteToLocal[r] \in Registered
         /\ DecoderKey(remoteToLocal[r]) = EncoderKey(r)
    /\ \A n \in DOMAIN delivered : delivered[n].tag >= LABCOMM_USER =>
         DecoderKey(delivered[n].local) = EncoderKey(delivered[n].tag)

\* If an entry knows its remote index the map knows the entry: an ioctl on
\* a registered sample never names another sample's remote index.
RemoteIndexAgrees ==
    \A i \in DecoderIndices : remoteIndex[i] # 0 => remoteToLocal[remoteIndex[i]] = i

\* Nothing is learnt from, and nothing delivered from, a peer that has not
\* sent the decoder's own version first.
VersionFirst ==
    \/ pos > 0 /\ wire[1] = VersionPacket(CURRENT_VERSION)
    \/ /\ delivered = <<>>
       /\ \A r \in EncoderIndices : remoteToLocal[r] = 0 /\ remoteToLocalRef[r] = 0

\* The samples on the wire and the samples handed to handlers, as the two
\* programs see them.
KeyOrNull(index, KeyOfIndex(_)) == IF index = 0 THEN NoKey ELSE KeyOfIndex(index)

SentSample(p) ==
    [key |-> EncoderKey(p.tag), ref |-> KeyOrNull(p.ref, EncoderKey), val |-> p.val]

SentUpTo(packets) ==
    LET upTo[n \in 0 .. Len(packets)] ==
          IF n = 0 THEN <<>>
          ELSE IF IsSample(packets[n]) THEN Append(upTo[n - 1], SentSample(packets[n]))
          ELSE upTo[n - 1]
    IN  upTo

Sent == SentUpTo(wire)[Len(wire)]

ReceivedSample(d) ==
    [key |-> DecoderKey(d.local), ref |-> KeyOrNull(d.ref, DecoderKey), val |-> d.val]

ReceivedUpTo(calls) ==
    LET upTo[n \in 0 .. Len(calls)] ==
          IF n = 0 THEN <<>>
          ELSE IF calls[n].tag >= LABCOMM_USER THEN Append(upTo[n - 1], ReceivedSample(calls[n]))
          ELSE upTo[n - 1]
    IN  upTo

Received == ReceivedUpTo(delivered)[Len(delivered)]

Abstract == INSTANCE TypedChannel WITH Null <- NoKey, sent <- Sent, received <- Received

\* Encoder, wire and decoder together are a typed channel.
ImplementsTypedChannel == Abstract!Spec

\* Why decoder_run ends: reading failed, the process was ended, or the packet
\* it stopped at is none to go on after.  Of a declaration that matches
\* nothing the result may be uninitialized; the tag 0 is its own result.
Ended ==
    \/ readerError = 1 \/ pc = "exited"
    \/ /\ pc = "stopped"
       /\ \/ versionOk = 0
          \/ current.tag \in EncoderIndices /\ remoteToLocal[current.tag] = 0
          \/ current.tag = LABCOMM_SAMPLE_DEF /\ remoteToLocal[current.index] = 0
          \/ current.tag = LABCOMM_SAMPLE_REF /\ remoteToLocalRef[current.index] = 0
          \/ current.tag = 0

\* A sample that was sent is delivered, unless decoder_run has ended for one
\* of these reasons: no other packet, handled or skipped, ends it.
EventuallyDelivered ==
    \A n \in 1 .. MaxPackets - 2 :   \* a version and a declaration come first
      Len(Sent) >= n ~> (Len(Received) >= n \/ Ended)

\* A reference announced by the sender and registered by the receiver stays
\* known: it is decoded as null only while it is not registered.
ReferenceStaysKnown ==
    [][\A r \in EncoderIndices : remoteToLocalRef[r] # 0 => remoteToLocalRef'[r] # 0]_vars
=============================================================================
