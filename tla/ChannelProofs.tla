--------------------------- MODULE ChannelProofs ---------------------------
(***************************************************************************)
(* Proofs about the channel, for any signatures on either side, any number *)
(* of registering threads, any writer and any bound.                       *)
(***************************************************************************)
EXTENDS Channel, EncoderProofs, InductionLemmas

\* Where decoder_run is, and what it has read from the peer.
PlaceOK ==
    /\ pos \in Nat /\ pos <= Len(wire)
    /\ pc \in {"read", "decode", "call", "stopped", "exited"}
    /\ versionOk \in {0, 1}
    /\ readerError \in {0, 1}

TablesOK ==
    /\ handler \in [TypeTags \cup DecoderIndices -> Handlers \cup {NoHandler}]
    /\ remoteIndex \in [TypeTags \cup DecoderIndices -> {0} \cup Tags]
    /\ remoteToLocal \in [Tags -> {0} \cup TypeTags \cup DecoderIndices]
    /\ localRef \in SUBSET DecoderIndices
    /\ remoteToLocalRef \in [Refs -> {0} \cup DecoderIndices]

CallsOK == wrap \in Wraps /\ delivered \in Seq(Deliveries)

\* What the packets on the wire say of the sender's signatures is true.
WireInv ==
    \A n \in 1 .. Len(wire) :
      /\ wire[n].tag \in {LABCOMM_SAMPLE_DEF, LABCOMM_SAMPLE_REF} =>
           wire[n].index \in EncoderIndices /\ wire[n].key = EncoderKey(wire[n].index)
      /\ wire[n].tag >= LABCOMM_USER => wire[n].tag \in EncoderIndices

\* The map from remote indices leads to registered, equal signatures.
MapInv ==
    \A r \in EncoderIndices : remoteToLocal[r] # 0 =>
      /\ remoteToLocal[r] \in Registered
      /\ DecoderKey(remoteToLocal[r]) = EncoderKey(r)

\* A lookup that is under way will end in a handler of the packet's type.
WrapInv ==
    pc \in {"decode", "call"} =>
      /\ pos < Len(wire)
      /\ current.tag \in Tags
      /\ current.tag \in EncoderIndices => DecoderKey(wrap.local) = EncoderKey(current.tag)

DeliveredInv ==
    \A n \in 1 .. Len(delivered) : delivered[n].tag \in EncoderIndices =>
      DecoderKey(delivered[n].local) = EncoderKey(delivered[n].tag)

DecoderOK == PlaceOK /\ TablesOK /\ CallsOK

IInv == NotesOK /\ TodoOK /\ WireInv /\ DecoderOK /\ MapInv /\ WrapInv /\ DeliveredInv

-----------------------------------------------------------------------------
\* The loops over the tables take an element of the set they search.
LEMMA MinFacts ==
    ASSUME NEW S \in SUBSET Nat, S # {}
    PROVE  Min(S) \in S
  BY LeastElement DEF Min

\* Indices of samples and tags of type packets are different numbers.
LEMMA TagFacts ==
    /\ TypeTags = {4, 5}
    /\ DecoderIndices \subseteq Nat
    /\ \A i \in EncoderIndices \cup DecoderIndices : i >= 64
    /\ Tags \subseteq Nat
    /\ \A tag \in Tags : tag >= LABCOMM_USER <=> tag \in EncoderIndices
  <1>1. Len(DecoderSignatures) \in Nat
    BY DecoderAssumption
  <1>2. DecoderIndices = 64 .. 64 + Len(DecoderSignatures) - 1
    BY DEF DecoderIndices, LocalIndices, LABCOMM_USER
  <1>3. TypeTags = {4, 5}
    BY DEF TypeTags, LABCOMM_TYPE_DEF, LABCOMM_TYPE_BINDING
  <1> QED
    BY <1>1, <1>2, <1>3, IndexFacts DEF Tags, LABCOMM_USER

-----------------------------------------------------------------------------
(* The sender's steps.  *)

\* A step of the sender leaves the wire alone or adds a packet that tells
\* the truth; only the first packet is a version.
SenderStep ==
    /\ NotesOK' /\ TodoOK'
    /\ SafeInv => SafeInv'
    /\ writerError = 1 => writerError' = 1 /\ wire' = wire
    /\ Len(wire) \in Nat
    /\ Len(wire') \in {Len(wire), Len(wire) + 1}
    /\ \A n \in 1 .. Len(wire) : wire'[n] = wire[n]
    /\ Len(wire') = Len(wire) + 1 =>
         LET p == wire'[Len(wire) + 1] IN
         /\ p.tag \in {LABCOMM_SAMPLE_DEF, LABCOMM_SAMPLE_REF} =>
              p.index \in EncoderIndices /\ p.key = EncoderKey(p.index)
         /\ p.tag >= LABCOMM_USER => p.tag \in EncoderIndices
         /\ p.tag # LABCOMM_VERSION

\* An operation of the encoder is a step of a sender: it appends at most one
\* packet, and a declaration carries the key of its own index.
LEMMA EncoderSends ==
    ASSUME NotesOK, TodoOK, [EncoderStep]_encoderVars
    PROVE  SenderStep
  <1> USE DEF LABCOMM_SAMPLE_DEF, LABCOMM_SAMPLE_REF, LABCOMM_USER, LABCOMM_VERSION
  <1>0. Step
    BY OneStep
  <1>1. /\ NotesOK' /\ TodoOK' /\ (SafeInv => SafeInv')
        /\ writerError = 1 => writerError' = 1 /\ wire' = wire
    <2>1. NotesOK' /\ TodoOK'
      BY <1>0, LocalTypes, StepTypes
    <2>2. SafeInv => SafeInv'
      BY <1>0, StepSafe
    <2>3. writerError = 1 => writerError' = 1 /\ wire' = wire
      BY <1>0, SentFields DEF Sends
    <2> QED
      BY <2>1, <2>2, <2>3
  <1>2. /\ Len(wire) \in Nat
        /\ Len(wire') \in {Len(wire), Len(wire) + 1}
        /\ \A n \in 1 .. Len(wire) : wire'[n] = wire[n]
    BY <1>0, WireGrows
  <1> DEFINE Truthful(p) ==
        /\ p.tag \in {2, 3} => p.index \in EncoderIndices /\ p.key = EncoderKey(p.index)
        /\ p.tag >= 64 => p.tag \in EncoderIndices
        /\ p.tag # 1
  <1>3. ASSUME NEW p \in Packets, Sends(p), Truthful(p), Len(wire') = Len(wire) + 1
        PROVE  Truthful(wire'[Len(wire) + 1])
    <2>1. /\ Truncated(p).tag = p.tag /\ Truncated(p).index = p.index
          /\ Truncated(p).key = p.key
      BY DEF Truncated, Packets
    <2>2. wire'[Len(wire) + 1] \in {p, Truncated(p)}
      BY <1>3, SendsFacts DEF NotesOK
    <2> QED
      BY <1>3, <2>1, <2>2
  <1>4. CASE wire' = wire
    BY <1>1, <1>2, <1>4 DEF SenderStep
  <1>5. ASSUME NEW p \in Packets, Sends(p), Truthful(p)
        PROVE  SenderStep
    <2>1. Len(wire') = Len(wire) + 1 => Truthful(wire'[Len(wire) + 1])
      BY <1>3, <1>5
    <2> QED
      BY <1>1, <1>2, <2>1 DEF SenderStep
  <1>6. ASSUME NEW i \in EncoderIndices, Declares(i)
        PROVE  SenderStep
    <2>1. PICK tag \in {2, 3, 4} : Sends(Declaration(tag, i))
      BY <1>6 DEF Declares, LABCOMM_TYPE_DEF
    <2>2. /\ Declaration(tag, i) \in Packets /\ Declaration(tag, i).tag = tag
          /\ Declaration(tag, i).index = i /\ Declaration(tag, i).key = EncoderKey(i)
      BY PacketFacts DEF Declaration, Packet
    <2>3. Truthful(Declaration(tag, i))
      BY <2>2
    <2> QED
      BY <1>5, <2>1, <2>2, <2>3
  <1>7. ASSUME NEW i \in EncoderIndices, Binds(i)
        PROVE  SenderStep
    <2>1. PICK t \in {0, i} : Sends(TypeBinding(i, t))
      BY <1>7 DEF Binds
    <2>2. TypeBinding(i, t) \in Packets /\ TypeBinding(i, t).tag = 5
      BY PacketFacts DEF TypeBinding, Packet, LABCOMM_TYPE_BINDING
    <2>3. Truthful(TypeBinding(i, t))
      BY <2>2
    <2> QED
      BY <1>5, <2>1, <2>2, <2>3
  <1>8. ASSUME NEW i \in EncoderIndices, Samples(i)
        PROVE  SenderStep
    <2>1. PICK r \in sampleRef \cup {0}, v \in Nat : Sends(SamplePacket(i, r, v))
      BY <1>8 DEF Samples
    <2>2. r \in Nat
      BY IndexFacts DEF NotesOK, SampleDecls
    <2>3. SamplePacket(i, r, v) \in Packets /\ SamplePacket(i, r, v).tag = i
      BY <2>2, PacketFacts DEF SamplePacket, Packet
    <2>4. Truthful(SamplePacket(i, r, v))
      BY <2>3, IndexFacts
    <2> QED
      BY <1>5, <2>1, <2>3, <2>4
  <1>9. ASSUME NEW i \in EncoderIndices, Notes(i)
        PROVE  wire' = wire
    BY <1>9 DEF Notes
  <1> QED
    BY <1>0, <1>4, <1>6, <1>7, <1>8, <1>9, <1>1 DEF Step

\* So is a packet that another LabComm implementation sends.
LEMMA ForeignSends ==
    ASSUME NotesOK, TodoOK, NEW tag \in ForeignTags, ForeignPacket(tag)
    PROVE  SenderStep
  <1> DEFINE p == Packet(tag, 0, NoKey, 0, 0)
  <1>1. tag \in Nat /\ tag < 64 /\ tag \notin {1, 2, 3, 4}
    BY ChannelAssumption DEF LABCOMM_PRAGMA, LABCOMM_TYPE_BINDING
  <1>2. p \in Packets /\ p.tag = tag /\ p.whole = 1
    BY <1>1 DEF Packet, Packets
  <1>3. /\ wire' = Append(wire, p) /\ writerError = 0
        /\ UNCHANGED <<writerError, registered, sampleRef, typedefs>>
    BY DEF ForeignPacket
  <1> HIDE DEF p
  <1>4. /\ wire' \in Seq(Packets) /\ Len(wire') = Len(wire) + 1 /\ Len(wire) \in Nat
        /\ \A n \in 1 .. Len(wire) : wire'[n] = wire[n]
        /\ wire'[Len(wire) + 1] = p
    BY <1>2, <1>3 DEF NotesOK
  <1>5. NotesOK' /\ TodoOK'
    BY <1>4 DEF ForeignPacket, NotesOK, TodoOK
  <1>6. SafeInv => SafeInv'
    <2>1. Sends(p)
      BY <1>3 DEF Sends, Write
    <2> QED
      BY <1>1, <1>2, <1>3, <2>1, SendSafe
      DEF LABCOMM_SAMPLE_DEF, LABCOMM_SAMPLE_REF, LABCOMM_TYPE_DEF
  <1> QED
    BY <1>1, <1>2, <1>3, <1>4, <1>5, <1>6
    DEF SenderStep, LABCOMM_SAMPLE_DEF, LABCOMM_SAMPLE_REF, LABCOMM_USER, LABCOMM_VERSION

\* What the decoder has read does not change when the wire grows.
LEMMA SenderKeeps ==
    ASSUME IInv, SenderStep, UNCHANGED decoderVars
    PROVE  IInv'
  <1> DEFINE N == Len(wire)
  <1>1. /\ NotesOK' /\ TodoOK'
        /\ N \in Nat /\ Len(wire') \in {N, N + 1}
        /\ \A n \in 1 .. N : wire'[n] = wire[n]
    BY DEF SenderStep
  <1>2. WireInv'
    <2> DEFINE Truthful(p) ==
          /\ p.tag \in {LABCOMM_SAMPLE_DEF, LABCOMM_SAMPLE_REF} =>
               p.index \in EncoderIndices /\ p.key = EncoderKey(p.index)
          /\ p.tag >= LABCOMM_USER => p.tag \in EncoderIndices
    <2>1. \A n \in 1 .. N : Truthful(wire'[n])
      BY <1>1 DEF IInv, WireInv
    <2>2. Len(wire') = N + 1 => Truthful(wire'[N + 1])
      BY DEF SenderStep
    <2> HIDE DEF Truthful
    <2>3. \A n \in 1 .. Len(wire') : n \in 1 .. N \/ (n = N + 1 /\ Len(wire') = N + 1)
      <3>1. CASE Len(wire') = N
        BY <3>1
      <3>2. CASE Len(wire') = N + 1
        <4>1. \A n \in 1 .. N + 1 : n \in 1 .. N \/ n = N + 1
          BY <1>1
        <4> QED
          BY <3>2, <4>1
      <3> QED
        BY <1>1, <3>1, <3>2
    <2>4. \A n \in 1 .. Len(wire') : Truthful(wire'[n])
      BY <2>1, <2>2, <2>3
    <2> QED
      BY <2>4 DEF WireInv, Truthful
  <1>3. DecoderOK'
    <2>1. PlaceOK'
      BY <1>1 DEF IInv, DecoderOK, PlaceOK, decoderVars
    <2>2. TablesOK' /\ CallsOK'
      BY DEF IInv, DecoderOK, TablesOK, CallsOK, decoderVars
    <2> QED
      BY <2>1, <2>2 DEF DecoderOK
  <1>4. MapInv'
    BY DEF IInv, MapInv, Registered, decoderVars
  <1>5. WrapInv'
    <2> SUFFICES ASSUME pc' \in {"decode", "call"}
                 PROVE  /\ pos' < Len(wire')
                        /\ current'.tag \in Tags
                        /\ current'.tag \in EncoderIndices =>
                             DecoderKey(wrap'.local) = EncoderKey(current'.tag)
      BY DEF WrapInv
    <2>1. pos' = pos /\ pc' = pc /\ wrap' = wrap
      BY DEF decoderVars
    <2>2. pos \in Nat /\ pos < N
      BY <2>1 DEF IInv, WrapInv, DecoderOK, PlaceOK
    <2>3. wire'[pos + 1] = wire[pos + 1]
      <3>1. pos + 1 \in 1 .. N
        BY <1>1, <2>2
      <3> QED
        BY <1>1, <3>1
    <2>4. current' = current
      BY <2>1, <2>3 DEF current
    <2> QED
      BY <1>1, <2>1, <2>2, <2>4 DEF IInv, WrapInv
  <1>6. DeliveredInv'
    BY DEF IInv, DeliveredInv, decoderVars
  <1> QED
    BY <1>1, <1>2, <1>3, <1>4, <1>5, <1>6 DEF IInv

-----------------------------------------------------------------------------
(* The receiver's steps.  *)

\* The sender's half of the invariant does not change in a receiver's step.
LEMMA ReceiverKeeps ==
    ASSUME IInv, UNCHANGED encoderVars
    PROVE  NotesOK' /\ TodoOK' /\ WireInv'
  BY DEF IInv, encoderVars, NotesOK, TodoOK, WireInv

\* A registration, at any point of do_decode_one, keeps the invariant: it
\* replaces a handler but never takes one away or changes what an index means.
LEMMA RegisterKeeps ==
    ASSUME IInv, UNCHANGED encoderVars, Register
    PROVE  IInv'
  <1>0. wire' = wire
    BY DEF encoderVars
  <1>1. ASSUME NEW i \in HandledSamples, NEW h \in Handlers, RegisterSample(i, h)
        PROVE  IInv'
    <2>1. i \in DecoderIndices /\ h # NoHandler
      BY DecoderAssumption DEF DecoderIndices
    <2>2. PlaceOK' /\ CallsOK' /\ DeliveredInv' /\ WrapInv'
      BY <1>0, <1>1 DEF RegisterSample, IInv, DecoderOK, PlaceOK, CallsOK, DeliveredInv,
                        WrapInv, current
    <2>3. TablesOK'
      BY <1>1, <2>1 DEF RegisterSample, IInv, DecoderOK, TablesOK
    <2>4. MapInv'
      <3>1. Registered \subseteq Registered'
        BY <1>1, <2>1 DEF RegisterSample, Registered, IInv, DecoderOK, TablesOK
      <3> QED
        BY <1>1, <3>1 DEF RegisterSample, IInv, MapInv
    <2> QED
      BY <2>2, <2>3, <2>4, ReceiverKeeps DEF IInv, DecoderOK
  <1>2. ASSUME NEW tag \in HandledTypes, NEW h \in Handlers, RegisterType(tag, h)
        PROVE  IInv'
    <2>1. tag \in TypeTags /\ tag \in Tags /\ tag \notin EncoderIndices
          /\ tag \notin DecoderIndices
      BY DecoderAssumption, TagFacts DEF TypeTags, Tags
    <2>2. PlaceOK' /\ CallsOK' /\ DeliveredInv' /\ WrapInv'
      BY <1>0, <1>2 DEF RegisterType, IInv, DecoderOK, PlaceOK, CallsOK, DeliveredInv,
                        WrapInv, current
    <2>3. TablesOK'
      BY <1>2, <2>1 DEF RegisterType, IInv, DecoderOK, TablesOK
    <2>4. MapInv'
      <3>1. Registered' = Registered
        BY <1>2, <2>1 DEF RegisterType, Registered, IInv, DecoderOK, TablesOK
      <3>2. \A r \in EncoderIndices : remoteToLocal'[r] = remoteToLocal[r]
        BY <1>2, <2>1 DEF RegisterType, IInv, DecoderOK, TablesOK
      <3> QED
        BY <3>1, <3>2 DEF IInv, MapInv
    <2> QED
      BY <2>2, <2>3, <2>4, ReceiverKeeps DEF IInv, DecoderOK
  <1>3. ASSUME NEW i \in HandledRefs, DecoderRefRegister(i)
        PROVE  IInv'
    <2>1. i \in DecoderIndices
      BY DecoderAssumption DEF DecoderIndices
    <2>2. PlaceOK' /\ CallsOK' /\ DeliveredInv' /\ WrapInv'
      BY <1>0, <1>3 DEF DecoderRefRegister, IInv, DecoderOK, PlaceOK, CallsOK, DeliveredInv,
                        WrapInv, current
    <2>3. TablesOK'
      BY <1>3, <2>1 DEF DecoderRefRegister, IInv, DecoderOK, TablesOK
    <2>4. MapInv'
      BY <1>3 DEF DecoderRefRegister, IInv, MapInv, Registered
    <2> QED
      BY <2>2, <2>3, <2>4, ReceiverKeeps DEF IInv, DecoderOK
  <1> QED
    BY <1>1, <1>2, <1>3 DEF Register

\* However decode_one ends, decoder_run is at a packet's start or has ended.
LEMMA PacketDone ==
    ASSUME IInv, UNCHANGED encoderVars,
           (Continue /\ pos < Len(wire)) \/ Stop \/ Exit,
           versionOk' \in {0, 1}, readerError' \in {0, 1}
    PROVE  PlaceOK' /\ WrapInv' /\ wrap' \in Wraps
  <1>1. wire' = wire /\ Len(wire) \in Nat /\ pos \in Nat /\ pos <= Len(wire)
    BY DEF encoderVars, IInv, NotesOK, DecoderOK, PlaceOK
  <1>2. pc' \in {"read", "stopped", "exited"} /\ wrap' = NoWrap
    BY DEF Continue, Stop, Exit
  <1>3. pos' \in Nat /\ pos' <= Len(wire)
    BY <1>1 DEF Continue, Stop, Exit
  <1>4. PlaceOK' /\ WrapInv'
    BY <1>1, <1>2, <1>3 DEF PlaceOK, WrapInv
  <1>5. wrap' \in Wraps
    BY <1>2 DEF NoWrap, Wraps
  <1> QED
    BY <1>4, <1>5

\* The part of the invariant a step that leaves tables and history alone keeps.
LEMMA TablesKept ==
    ASSUME IInv, UNCHANGED decoderTables, UNCHANGED delivered
    PROVE  TablesOK' /\ MapInv' /\ DeliveredInv' /\ (delivered \in Seq(Deliveries))'
  BY DEF IInv, DecoderOK, TablesOK, CallsOK, MapInv, Registered, DeliveredInv, decoderTables

\* The packet being read is a packet, and what it says is true.
LEMMA CurrentFacts ==
    ASSUME IInv, pos < Len(wire)
    PROVE  /\ current \in Packets
           /\ current.tag \in {LABCOMM_SAMPLE_DEF, LABCOMM_SAMPLE_REF} =>
                current.index \in EncoderIndices /\ current.key = EncoderKey(current.index)
           /\ current.tag >= LABCOMM_USER => current.tag \in EncoderIndices
  <1>1. pos + 1 \in 1 .. Len(wire)
    BY DEF IInv, NotesOK, DecoderOK, PlaceOK
  <1>2. wire \in Seq(Packets)
    BY DEF IInv, NotesOK
  <1>3. wire[pos + 1] \in Packets
    BY <1>1, <1>2
  <1> QED
    BY <1>1, <1>3 DEF IInv, WireInv, current

\* A step of decoder_run keeps the invariant.
LEMMA DecodeKeeps ==
    ASSUME IInv, UNCHANGED encoderVars, ReadFails \/ DecodeStep
    PROVE  IInv'
  <1>0. /\ wire' = wire /\ NotesOK' /\ TodoOK' /\ WireInv'
        /\ versionOk \in {0, 1} /\ readerError \in {0, 1}
    BY ReceiverKeeps DEF encoderVars, IInv, DecoderOK, PlaceOK
  <1>1. CASE ReadFails
    <2>1. PlaceOK' /\ WrapInv' /\ wrap' \in Wraps
      BY <1>0, <1>1, PacketDone DEF ReadFails
    <2> QED
      BY <1>0, <1>1, <2>1, TablesKept DEF ReadFails, IInv, DecoderOK, CallsOK
  <1>2. CASE DecodeVersion
    <2>1. PlaceOK' /\ WrapInv' /\ wrap' \in Wraps
      BY <1>0, <1>2, PacketDone DEF DecodeVersion, Reading
    <2> QED
      BY <1>0, <1>2, <2>1, TablesKept DEF DecodeVersion, IInv, DecoderOK, CallsOK
  <1>3. CASE RefuseUnversioned
    <2>1. PlaceOK' /\ WrapInv' /\ wrap' \in Wraps
      BY <1>0, <1>3, PacketDone DEF RefuseUnversioned
    <2> QED
      BY <1>0, <1>3, <2>1, TablesKept DEF RefuseUnversioned, IInv, DecoderOK, CallsOK
  <1>4. CASE SkipPacket
    <2>1. PlaceOK' /\ WrapInv' /\ wrap' \in Wraps
      BY <1>0, <1>4, PacketDone DEF SkipPacket, Accepted, Reading
    <2> QED
      BY <1>0, <1>4, <2>1, TablesKept DEF SkipPacket, IInv, DecoderOK, CallsOK
  <1>5. CASE UnknownSample
    <2>1. PlaceOK' /\ WrapInv' /\ wrap' \in Wraps
      BY <1>0, <1>5, PacketDone DEF UnknownSample
    <2> QED
      BY <1>0, <1>5, <2>1, TablesKept DEF UnknownSample, IInv, DecoderOK, CallsOK
  <1>6. CASE DecodeSampleDef
    <2> DEFINE same == Matching(Registered, current)
    <2>1. pos < Len(wire) /\ current.tag = LABCOMM_SAMPLE_DEF
      BY <1>6 DEF DecodeSampleDef, Accepted, Reading
    <2>2. current.index \in EncoderIndices /\ current.key = EncoderKey(current.index)
      BY <2>1, CurrentFacts
    <2>3. PlaceOK' /\ WrapInv' /\ wrap' \in Wraps
      BY <1>0, <1>6, <2>1, PacketDone DEF DecodeSampleDef
    <2>4. DeliveredInv' /\ (delivered \in Seq(Deliveries))'
      BY <1>6 DEF DecodeSampleDef, IInv, DecoderOK, CallsOK, DeliveredInv
    <2>5. CASE same = {}
      <3>1. UNCHANGED decoderTables
        BY <1>6, <2>5 DEF DecodeSampleDef, decoderTables
      <3> QED
        BY <1>0, <1>6, <2>3, <3>1, TablesKept DEF DecodeSampleDef, IInv, DecoderOK, CallsOK
    <2>6. CASE same # {}
      <3> DEFINE first == Min(same)
      <3>1. same \subseteq DecoderIndices /\ same \in SUBSET Nat
        BY TagFacts DEF Matching, Registered
      <3>2. first \in same
        BY <2>6, <3>1, MinFacts
      <3>3. /\ remoteToLocal' = [remoteToLocal EXCEPT ![current.index] = first]
            /\ remoteIndex' = [remoteIndex EXCEPT ![first] = current.index]
            /\ UNCHANGED <<handler, localRef, remoteToLocalRef>>
        BY <1>6, <2>6 DEF DecodeSampleDef
      <3>4. first \in Registered /\ first \in DecoderIndices /\ DecoderKey(first) = current.key
        BY <3>2 DEF Matching, Registered
      <3> HIDE DEF first, same
      <3>5. TablesOK'
        BY <2>2, <3>3, <3>4 DEF IInv, DecoderOK, TablesOK, Tags
      <3>6. MapInv'
        <4>1. Registered' = Registered
          BY <3>3 DEF Registered
        <4>2. \A r \in EncoderIndices :
                remoteToLocal'[r] = IF r = current.index THEN first ELSE remoteToLocal[r]
          BY <3>3 DEF IInv, DecoderOK, TablesOK, Tags
        <4> QED
          BY <2>2, <3>4, <4>1, <4>2 DEF IInv, MapInv
      <3> QED
        BY <1>0, <2>3, <2>4, <3>5, <3>6 DEF IInv, DecoderOK, CallsOK
    <2> QED
      BY <2>5, <2>6
  <1>7. CASE DecodeSampleRef
    <2> DEFINE same == Matching(localRef, current)
    <2>1. pos < Len(wire) /\ current.tag = LABCOMM_SAMPLE_REF
      BY <1>7 DEF DecodeSampleRef, Accepted, Reading
    <2>2. current.index \in EncoderIndices
      BY <2>1, CurrentFacts
    <2>3. PlaceOK' /\ WrapInv' /\ wrap' \in Wraps
      BY <1>0, <1>7, <2>1, PacketDone DEF DecodeSampleRef
    <2>4. DeliveredInv' /\ (delivered \in Seq(Deliveries))' /\ MapInv'
      BY <1>7 DEF DecodeSampleRef, IInv, DecoderOK, CallsOK, DeliveredInv, MapInv, Registered
    <2>5. TablesOK'
      <3>1. CASE same = {}
        BY <1>7, <3>1 DEF DecodeSampleRef, IInv, DecoderOK, TablesOK
      <3>2. CASE same # {}
        <4>1. same \subseteq DecoderIndices
          BY DEF Matching, IInv, DecoderOK, TablesOK
        <4>2. same \in SUBSET Nat
          BY <4>1, TagFacts
        <4>3. Min(same) \in DecoderIndices
          BY <3>2, <4>1, <4>2, MinFacts
        <4>4. /\ remoteToLocalRef' = [remoteToLocalRef EXCEPT ![current.index] = Min(same)]
              /\ UNCHANGED <<handler, remoteIndex, remoteToLocal, localRef>>
          BY <1>7, <3>2 DEF DecodeSampleRef
        <4> QED
          BY <4>3, <4>4 DEF IInv, DecoderOK, TablesOK
      <3> QED
        BY <3>1, <3>2
    <2> QED
      BY <1>0, <2>3, <2>4, <2>5 DEF IInv, DecoderOK, CallsOK
  <1>8. CASE LookupHandler
    <2> DEFINE local == remoteToLocal[current.tag]
    <2>1. /\ pos < Len(wire) /\ current.tag \in Tags /\ local # 0
          /\ wrap' = [local |-> local, handler |-> handler[local], ref |-> 0]
          /\ pc' = "decode" /\ UNCHANGED <<pos, versionOk, readerError>>
      BY <1>8 DEF LookupHandler, Reading
    <2>2. local \in TypeTags \cup DecoderIndices
      BY <2>1 DEF IInv, DecoderOK, TablesOK
    <2>3. handler[local] \in Handlers \cup {NoHandler}
      BY <2>2 DEF IInv, DecoderOK, TablesOK
    <2>4. current' = current
      BY <1>0, <2>1 DEF current
    <2>5. current.tag \in EncoderIndices => DecoderKey(local) = EncoderKey(current.tag)
      BY <2>1 DEF IInv, MapInv
    <2> HIDE DEF local
    <2>6. wrap' \in Wraps
      BY <2>1, <2>2, <2>3 DEF Wraps
    <2>7. wrap'.local = local
      BY <2>1
    <2>8. WrapInv'
      BY <1>0, <2>1, <2>4, <2>5, <2>7 DEF WrapInv
    <2>9. PlaceOK'
      BY <1>0, <2>1 DEF IInv, DecoderOK, PlaceOK
    <2> QED
      BY <1>0, <1>8, <2>6, <2>8, <2>9, TablesKept DEF LookupHandler, IInv, DecoderOK, CallsOK
  <1>9. CASE DecodeBody
    <2>1. /\ pc = "decode" /\ pc' = "call"
          /\ UNCHANGED <<pos, versionOk>> /\ readerError' \in {0, 1}
      BY <1>0, <1>9 DEF DecodeBody
    <2>2. IndexToSampleRef(current.ref) \in {0} \cup DecoderIndices
      BY DEF IndexToSampleRef, IInv, DecoderOK, TablesOK
    <2>3. PICK ref \in {0} \cup DecoderIndices : wrap' = [wrap EXCEPT !.ref = ref]
      BY <1>9, <2>2 DEF DecodeBody
    <2>4. wrap' \in Wraps /\ wrap'.local = wrap.local
      BY <2>3 DEF IInv, DecoderOK, CallsOK, Wraps
    <2>5. current' = current
      BY <1>0, <2>1 DEF current
    <2>6. WrapInv'
      BY <1>0, <2>1, <2>4, <2>5 DEF IInv, WrapInv
    <2>7. PlaceOK'
      BY <1>0, <2>1 DEF IInv, DecoderOK, PlaceOK
    <2> QED
      BY <1>0, <1>9, <2>4, <2>6, <2>7, TablesKept DEF DecodeBody, IInv, DecoderOK, CallsOK
  <1>10. CASE CallHandler
    <2>1. pc = "call" /\ pos < Len(wire) /\ current.tag \in Tags
      BY <1>10 DEF CallHandler, IInv, WrapInv
    <2>2. PlaceOK' /\ WrapInv' /\ wrap' \in Wraps
      BY <1>0, <1>10, <2>1, PacketDone DEF CallHandler
    <2>3. CASE readerError = 1
      <3>1. UNCHANGED delivered
        BY <1>10, <2>3 DEF CallHandler
      <3> QED
        BY <1>0, <1>10, <2>2, <3>1, TablesKept DEF CallHandler, IInv, DecoderOK, CallsOK
    <2>4. CASE readerError = 0
      <3> DEFINE d == [tag |-> current.tag, local |-> wrap.local, handler |-> wrap.handler,
                       ref |-> wrap.ref, val |-> current.val]
      <3>1. delivered' = Append(delivered, d)
        BY <1>10, <2>4 DEF CallHandler
      <3>2. current.val \in Nat
        BY <2>1, CurrentFacts DEF Packets
      <3>3. d \in Deliveries
        BY <2>1, <3>2 DEF Deliveries, IInv, DecoderOK, CallsOK, Wraps
      <3>4. d.tag \in EncoderIndices => DecoderKey(d.local) = EncoderKey(d.tag)
        BY <2>1 DEF IInv, WrapInv
      <3> HIDE DEF d
      <3>5. delivered \in Seq(Deliveries)
        BY DEF IInv, DecoderOK, CallsOK
      <3>6. /\ delivered' \in Seq(Deliveries)
            /\ Len(delivered') = Len(delivered) + 1 /\ Len(delivered) \in Nat
            /\ delivered'[Len(delivered) + 1] = d
            /\ \A n \in 1 .. Len(delivered) : delivered'[n] = delivered[n]
        BY <3>1, <3>3, <3>5
      <3>7. DeliveredInv'
        <4>1. \A n \in 1 .. Len(delivered) + 1 :
                n \in 1 .. Len(delivered) \/ n = Len(delivered) + 1
          BY <3>6
        <4> QED
          BY <3>4, <3>6, <4>1 DEF IInv, DeliveredInv
      <3>8. TablesOK' /\ MapInv'
        BY <1>10 DEF CallHandler, decoderTables, IInv, DecoderOK, TablesOK, MapInv, Registered
      <3> QED
        BY <1>0, <2>2, <3>6, <3>7, <3>8 DEF IInv, DecoderOK, CallsOK
    <2> QED
      BY <1>0, <2>3, <2>4
  <1> QED
    BY <1>1, <1>2, <1>3, <1>4, <1>5, <1>6, <1>7, <1>8, <1>9, <1>10 DEF DecodeStep

-----------------------------------------------------------------------------
\* The invariant holds when encoder and decoder are created.
LEMMA InitIInv == Init => IInv
  <1> SUFFICES ASSUME Init PROVE IInv
    OBVIOUS
  <1>1. EncoderInit /\ DecoderInit
    BY DEF Init
  <1>2. NotesOK /\ TodoOK
    BY <1>1, InitTypes
  <1>3. WireInv
    <2>1. PICK v \in PeerVersions :
            \/ writerError = 0 /\ wire = <<VersionPacket(v)>>
            \/ writerError = 1 /\ wire \in {<<>>, <<Truncated(VersionPacket(v))>>}
      BY <1>1 DEF EncoderInit
    <2>2. VersionPacket(v).tag = 1 /\ Truncated(VersionPacket(v)).tag = 1
      BY DEF VersionPacket, Truncated, Packet, LABCOMM_VERSION
    <2>3. \A n \in 1 .. Len(wire) : wire[n].tag = 1
      BY <2>1, <2>2
    <2> QED
      BY <2>3 DEF WireInv, LABCOMM_USER, LABCOMM_SAMPLE_DEF, LABCOMM_SAMPLE_REF
  <1>4. PlaceOK
    BY <1>1, <1>2 DEF DecoderInit, PlaceOK, NotesOK
  <1>5. TablesOK
    BY <1>1 DEF DecoderInit, TablesOK
  <1>6. CallsOK
    BY <1>1 DEF DecoderInit, CallsOK, NoWrap, Wraps
  <1>7. MapInv
    BY <1>1 DEF DecoderInit, MapInv, Tags
  <1>8. WrapInv
    BY <1>1 DEF DecoderInit, WrapInv
  <1>9. DeliveredInv
    BY <1>1 DEF DecoderInit, DeliveredInv
  <1> QED
    BY <1>2, <1>3, <1>4, <1>5, <1>6, <1>7, <1>8, <1>9 DEF IInv, DecoderOK

\* Every step of the channel, at either end, keeps the invariant.
LEMMA NextIInv == IInv /\ [Next]_vars => IInv'
  <1> SUFFICES ASSUME IInv, [Next]_vars PROVE IInv'
    OBVIOUS
  <1>0. NotesOK /\ TodoOK
    BY DEF IInv
  <1>1. CASE EncoderStep /\ UNCHANGED decoderVars
    BY <1>0, <1>1, EncoderSends, SenderKeeps
  <1>2. CASE (\E tag \in ForeignTags : ForeignPacket(tag)) /\ UNCHANGED decoderVars
    BY <1>0, <1>2, ForeignSends, SenderKeeps
  <1>3. CASE (Register \/ ReadFails \/ DecodeStep) /\ UNCHANGED encoderVars
    BY <1>3, RegisterKeeps, DecodeKeeps
  <1>4. CASE UNCHANGED vars
    <2>1. UNCHANGED encoderVars /\ UNCHANGED decoderVars
      BY <1>4 DEF vars, encoderVars, decoderVars
    <2> QED
      BY <1>0, <2>1, EncoderSends, SenderKeeps
  <1> QED
    BY <1>1, <1>2, <1>3, <1>4 DEF Next

\* The inductive invariant of the channel: in labcomm2014_decoder.c's tables a
\* remote index is mapped only to a registered signature with the key that
\* the sender's declaration of that index spelled out.
THEOREM ChannelInvariant == Spec => []IInv
  BY InitIInv, NextIInv, PTL DEF Spec

\* The variables of encoder and decoder keep their types in every run of the
\* channel.
THEOREM ChannelTypeCorrect == Spec => []TypeOK
  <1>1. IInv => TypeOK
    <2> SUFFICES ASSUME IInv PROVE TypeOK
      OBVIOUS
    <2>1. EncoderTypeOK
      BY DEF IInv, EncoderTypeOK, NotesOK, TodoOK
    <2>2. pos \in 0 .. Len(wire)
      BY DEF IInv, NotesOK, DecoderOK, PlaceOK
    <2> QED
      BY <2>1, <2>2 DEF TypeOK, IInv, DecoderOK, PlaceOK, TablesOK, CallsOK
  <1> QED
    BY <1>1, ChannelInvariant, PTL

\* Whatever the two programs' numbering of their signatures, whenever the
\* handlers are registered and wherever the channel breaks: a sample is only
\* ever handed to a handler of its own name and type.
THEOREM RightHandlerCorrect == Spec => []RightHandler
  <1>1. IInv => RightHandler
    <2> SUFFICES ASSUME IInv PROVE RightHandler
      OBVIOUS
    <2>1. delivered \in Seq(Deliveries)
      BY DEF IInv, DecoderOK, CallsOK
    <2>2. DOMAIN delivered = 1 .. Len(delivered)
          /\ \A n \in DOMAIN delivered : delivered[n] \in Deliveries
      BY <2>1
    <2>3. \A d \in Deliveries : d.tag \in Tags
      BY DEF Deliveries
    <2> QED
      BY <2>2, <2>3, TagFacts DEF RightHandler, IInv, MapInv, DeliveredInv
  <1> QED
    BY <1>1, ChannelInvariant, PTL

-----------------------------------------------------------------------------
(* What the decoder has learnt it has read: remote indices and the version.  *)

\* A remote index that an entry knows was declared in a packet read before.
RemoteSeen ==
    \A i \in DecoderIndices : remoteIndex[i] # 0 =>
      \E n \in 1 .. pos : wire[n].tag = LABCOMM_SAMPLE_DEF /\ wire[n].index = remoteIndex[i]

\* The only version packet is the first, and without it the channel is dead.
VersionOnWire ==
    /\ \A n \in 1 .. Len(wire) : wire[n].tag = LABCOMM_VERSION => n = 1
    /\ Len(wire) > 0 =>
         \E v \in PeerVersions : wire[1] \in {VersionPacket(v), Truncated(VersionPacket(v))}
    /\ Len(wire) = 0 => writerError = 1

\* Before a version is accepted nothing is learnt, looked up or delivered.
VersionRead ==
    /\ versionOk = 1 => pos > 0 /\ wire[1] = VersionPacket(CURRENT_VERSION)
    /\ versionOk = 0 =>
         /\ pc \notin {"decode", "call"}
         /\ delivered = <<>>
         /\ \A r \in EncoderIndices : remoteToLocal[r] = 0 /\ remoteToLocalRef[r] = 0

LearntInv == SafeInv /\ RemoteSeen /\ RemoteIndexAgrees /\ VersionOnWire /\ VersionRead

\* A step of the sender keeps it: the wire only grows, never by a version.
LEMMA SenderKeepsLearnt ==
    ASSUME IInv, LearntInv, SenderStep, UNCHANGED decoderVars
    PROVE  LearntInv'
  <1> DEFINE N == Len(wire)
  <1>1. /\ N \in Nat /\ Len(wire') \in {N, N + 1}
        /\ \A n \in 1 .. N : wire'[n] = wire[n]
        /\ Len(wire') = N + 1 => wire'[N + 1].tag # LABCOMM_VERSION
        /\ writerError = 1 => writerError' = 1 /\ wire' = wire
        /\ pos \in Nat /\ pos <= N /\ pos' = pos /\ pc' = pc /\ versionOk' = versionOk
        /\ writerError \in {0, 1}
    BY DEF SenderStep, IInv, NotesOK, DecoderOK, PlaceOK, decoderVars
  <1>2. SafeInv'
    BY DEF LearntInv, SenderStep
  <1>3. \A n \in 1 .. pos : wire'[n] = wire[n]
    BY <1>1
  <1>4. RemoteSeen' /\ RemoteIndexAgrees'
    BY <1>1, <1>3 DEF LearntInv, RemoteSeen, RemoteIndexAgrees, decoderVars
  <1>5. VersionOnWire'
    <2>1. \A n \in 1 .. Len(wire') : n \in 1 .. N \/ (n = N + 1 /\ Len(wire') = N + 1)
      BY <1>1
    <2>2. \A n \in 1 .. Len(wire') : wire'[n].tag = LABCOMM_VERSION => n = 1
      BY <1>1, <2>1 DEF LearntInv, VersionOnWire
    <2>3. N = 0 => wire' = wire /\ writerError' = 1
      BY <1>1 DEF LearntInv, VersionOnWire
    <2>4. N > 0 => wire'[1] = wire[1] /\ Len(wire') > 0
      BY <1>1
    <2> QED
      BY <1>1, <2>2, <2>3, <2>4 DEF LearntInv, VersionOnWire
  <1>6. VersionRead'
    <2>1. pos > 0 => wire'[1] = wire[1]
      BY <1>1, <1>3
    <2> QED
      BY <1>1, <2>1 DEF LearntInv, VersionRead, decoderVars
  <1> QED
    BY <1>2, <1>4, <1>5, <1>6 DEF LearntInv

\* So does every step of the receiver that learns nothing from a packet.
LEMMA NothingLearnt ==
    ASSUME IInv, LearntInv, UNCHANGED encoderVars, UNCHANGED versionOk, UNCHANGED decoderTables,
           pos' \in {pos, pos + 1},
           versionOk = 0 => UNCHANGED delivered /\ pc' \notin {"decode", "call"}
    PROVE  LearntInv'
  <1>1. /\ wire' = wire /\ SafeInv'
        /\ UNCHANGED <<handler, remoteIndex, remoteToLocal, localRef, remoteToLocalRef>>
    BY DEF encoderVars, decoderTables, LearntInv, SafeInv, Noted, AllWhole, DeclaredOnce,
           NothingAfterTruncation
  <1>2. pos \in Nat /\ pos' \in Nat /\ pos' >= pos
    BY DEF IInv, DecoderOK, PlaceOK
  <1>3. 1 .. pos \subseteq 1 .. pos'
    BY <1>2
  <1>4. RemoteSeen' /\ RemoteIndexAgrees'
    BY <1>1, <1>3 DEF LearntInv, RemoteSeen, RemoteIndexAgrees
  <1>5. VersionOnWire'
    BY <1>1 DEF LearntInv, VersionOnWire, encoderVars
  <1>6. VersionRead'
    BY <1>1, <1>2 DEF LearntInv, VersionRead
  <1> QED
    BY <1>1, <1>4, <1>5, <1>6 DEF LearntInv

\* The remote index of an entry is one of the sender's.
LEMMA RemoteIndexFacts ==
    ASSUME IInv, RemoteSeen, NEW i \in DecoderIndices, remoteIndex[i] # 0
    PROVE  remoteIndex[i] \in EncoderIndices
  <1>1. PICK n \in 1 .. pos : wire[n].tag = LABCOMM_SAMPLE_DEF /\ wire[n].index = remoteIndex[i]
    BY DEF RemoteSeen
  <1>2. n \in 1 .. Len(wire)
    BY DEF IInv, DecoderOK, PlaceOK, NotesOK
  <1> QED
    BY <1>1, <1>2 DEF IInv, WireInv

\* A registration teaches the decoder nothing about the sender.
LEMMA RegisterKeepsLearnt ==
    ASSUME IInv, LearntInv, UNCHANGED encoderVars, Register
    PROVE  LearntInv'
  <1>1. /\ wire' = wire /\ SafeInv' /\ VersionOnWire'
        /\ pos' = pos /\ pc' = pc /\ versionOk' = versionOk /\ delivered' = delivered
    BY DEF encoderVars, LearntInv, SafeInv, Noted, AllWhole, DeclaredOnce,
           NothingAfterTruncation, VersionOnWire, Register, RegisterSample, RegisterType,
           DecoderRefRegister
  <1>2. /\ remoteIndex \in [TypeTags \cup DecoderIndices -> {0} \cup Tags]
        /\ remoteToLocal \in [Tags -> {0} \cup TypeTags \cup DecoderIndices]
        /\ remoteToLocalRef \in [Refs -> {0} \cup DecoderIndices]
    BY DEF IInv, DecoderOK, TablesOK
  <1>3. \A i \in DecoderIndices : remoteIndex'[i] \in {0, remoteIndex[i]}
    <2>1. ASSUME NEW i \in HandledSamples, NEW h \in Handlers, RegisterSample(i, h)
          PROVE  \A j \in DecoderIndices : remoteIndex'[j] \in {0, remoteIndex[j]}
      BY <1>2, <2>1 DEF RegisterSample
    <2>2. ASSUME NEW tag \in HandledTypes, NEW h \in Handlers, RegisterType(tag, h)
          PROVE  \A j \in DecoderIndices : remoteIndex'[j] \in {0, remoteIndex[j]}
      <3>1. tag \notin DecoderIndices
        BY DecoderAssumption, TagFacts DEF TypeTags
      <3> QED
        BY <1>2, <2>2, <3>1 DEF RegisterType
    <2>3. ASSUME NEW i \in HandledRefs, DecoderRefRegister(i)
          PROVE  \A j \in DecoderIndices : remoteIndex'[j] \in {0, remoteIndex[j]}
      BY <2>3 DEF DecoderRefRegister
    <2> QED
      BY <2>1, <2>2, <2>3 DEF Register
  <1>4. \A r \in EncoderIndices : /\ remoteToLocal'[r] = remoteToLocal[r]
                                  /\ remoteToLocalRef'[r] \in {0, remoteToLocalRef[r]}
    <2>1. ASSUME NEW i \in HandledSamples, NEW h \in Handlers, RegisterSample(i, h)
          PROVE  UNCHANGED <<remoteToLocal, remoteToLocalRef>>
      BY <2>1 DEF RegisterSample
    <2>2. ASSUME NEW tag \in HandledTypes, NEW h \in Handlers, RegisterType(tag, h)
          PROVE  /\ \A r \in EncoderIndices : remoteToLocal'[r] = remoteToLocal[r]
                 /\ UNCHANGED remoteToLocalRef
      <3>1. tag \notin EncoderIndices
        BY DecoderAssumption, TagFacts DEF TypeTags
      <3> QED
        BY <1>2, <2>2, <3>1 DEF RegisterType, Tags
    <2>3. ASSUME NEW i \in HandledRefs, DecoderRefRegister(i)
          PROVE  /\ UNCHANGED remoteToLocal
                 /\ \A r \in EncoderIndices : remoteToLocalRef'[r] \in {0, remoteToLocalRef[r]}
      BY <1>2, <2>3 DEF DecoderRefRegister, Refs
    <2> QED
      BY <2>1, <2>2, <2>3 DEF Register
  <1>5. RemoteSeen'
    BY <1>1, <1>3 DEF LearntInv, RemoteSeen
  <1>6. RemoteIndexAgrees'
    BY <1>3, <1>4, RemoteIndexFacts DEF LearntInv, RemoteIndexAgrees
  <1>7. VersionRead'
    BY <1>1, <1>4 DEF LearntInv, VersionRead
  <1> QED
    BY <1>1, <1>5, <1>6, <1>7 DEF LearntInv

\* A declaration is read only once, so that its index is new to the decoder.
LEMMA SampleDefLearnt ==
    ASSUME IInv, LearntInv, UNCHANGED encoderVars, DecodeSampleDef
    PROVE  LearntInv'
  <1> DEFINE same == Matching(Registered, current)
             first == Min(same)
             c == current.index
  <1>1. /\ pos < Len(wire) /\ current.tag = LABCOMM_SAMPLE_DEF /\ versionOk = 1
        /\ versionOk' = versionOk /\ delivered' = delivered /\ pc = "read"
    BY DEF DecodeSampleDef, Accepted, Reading
  <1>2. CASE same = {}
    <2>1. UNCHANGED decoderTables /\ pos' \in {pos, pos + 1}
      BY <1>2 DEF DecodeSampleDef, decoderTables, Continue, Stop, Exit
    <2> QED
      BY <1>1, <2>1, NothingLearnt
  <1>3. CASE same # {}
    <2>1. same \subseteq DecoderIndices /\ same \in SUBSET Nat
      BY TagFacts DEF Matching, Registered
    <2>2. first \in DecoderIndices
      BY <1>3, <2>1, MinFacts
    <2>3. /\ remoteToLocal' = [remoteToLocal EXCEPT ![c] = first]
          /\ remoteIndex' = [remoteIndex EXCEPT ![first] = c]
          /\ pos' = pos + 1
      BY <1>3 DEF DecodeSampleDef, Continue
    <2>4. /\ wire' = wire /\ SafeInv' /\ VersionOnWire'
      BY DEF encoderVars, LearntInv, SafeInv, Noted, AllWhole, DeclaredOnce,
             NothingAfterTruncation, VersionOnWire
    <2>5. /\ pos \in Nat /\ Len(wire) \in Nat /\ DOMAIN wire = 1 .. Len(wire)
          /\ remoteIndex \in [TypeTags \cup DecoderIndices -> {0} \cup Tags]
          /\ remoteToLocal \in [Tags -> {0} \cup TypeTags \cup DecoderIndices]
      BY DEF IInv, NotesOK, DecoderOK, PlaceOK, TablesOK
    <2>6. wire[pos + 1].tag = LABCOMM_SAMPLE_DEF /\ wire[pos + 1].index = c
      BY <1>1 DEF current
    <2>7. c \in EncoderIndices /\ c \in Tags
      BY <1>1, CurrentFacts DEF Tags
    <2> HIDE DEF c, first
    <2>8. \A i \in DecoderIndices : remoteIndex[i] # 0 => remoteIndex[i] # c
      <3> SUFFICES ASSUME NEW i \in DecoderIndices, remoteIndex[i] # 0, remoteIndex[i] = c
                   PROVE  FALSE
        OBVIOUS
      <3>1. PICK n \in 1 .. pos : wire[n].tag = LABCOMM_SAMPLE_DEF /\ wire[n].index = c
        BY DEF LearntInv, RemoteSeen
      <3>2. n \in DOMAIN wire /\ pos + 1 \in DOMAIN wire /\ n # pos + 1
        BY <1>1, <2>5
      <3> QED
        BY <2>6, <3>1, <3>2 DEF LearntInv, SafeInv, DeclaredOnce
    <2>9. /\ \A i \in DecoderIndices : remoteIndex'[i] = IF i = first THEN c ELSE remoteIndex[i]
          /\ \A r \in Tags : remoteToLocal'[r] = IF r = c THEN first ELSE remoteToLocal[r]
      BY <2>2, <2>3, <2>5
    <2>10. RemoteSeen'
      <3>1. 1 .. pos \subseteq 1 .. pos' /\ pos + 1 \in 1 .. pos'
        BY <2>3, <2>5
      <3> QED
        BY <2>4, <2>6, <2>9, <3>1 DEF LearntInv, RemoteSeen
    <2>11. RemoteIndexAgrees'
      <3>1. \A i \in DecoderIndices : remoteIndex[i] # 0 => remoteIndex[i] \in Tags
        BY RemoteIndexFacts DEF LearntInv, Tags
      <3> QED
        BY <2>7, <2>8, <2>9, <3>1 DEF LearntInv, RemoteIndexAgrees
    <2>12. VersionRead'
      BY <1>1, <2>3, <2>4, <2>5 DEF LearntInv, VersionRead
    <2> QED
      BY <2>4, <2>10, <2>11, <2>12 DEF LearntInv
  <1> QED
    BY <1>2, <1>3

\* A step of decoder_run keeps what is known of what was learnt.
LEMMA DecodeKeepsLearnt ==
    ASSUME IInv, LearntInv, UNCHANGED encoderVars, ReadFails \/ DecodeStep
    PROVE  LearntInv'
  <1> USE DEF Continue, Stop, Exit
  <1>0. /\ wire' = wire /\ SafeInv' /\ VersionOnWire'
    BY DEF encoderVars, LearntInv, SafeInv, Noted, AllWhole, DeclaredOnce,
           NothingAfterTruncation, VersionOnWire
  <1>1. CASE ReadFails
    BY <1>1, NothingLearnt DEF ReadFails
  <1>2. CASE DecodeVersion
    <2>1. /\ pos \in Nat /\ pos < Len(wire) /\ Len(wire) \in Nat
          /\ current.tag = LABCOMM_VERSION /\ current.whole = 1
          /\ UNCHANGED decoderTables /\ UNCHANGED delivered
          /\ pos' \in {pos, pos + 1} /\ pc' \notin {"decode", "call"}
      BY <1>2 DEF DecodeVersion, Reading, IInv, NotesOK, DecoderOK, PlaceOK
    <2>2. CASE UNCHANGED versionOk
      BY <2>1, <2>2, NothingLearnt
    <2>3. CASE current.val = CURRENT_VERSION /\ versionOk' = 1 /\ pos' = pos + 1
      <3>1. pos + 1 = 1 /\ Len(wire) > 0
        BY <2>1 DEF LearntInv, VersionOnWire, current
      <3>2. PICK v \in PeerVersions : wire[1] \in {VersionPacket(v), Truncated(VersionPacket(v))}
        BY <3>1 DEF LearntInv, VersionOnWire
      <3>3. /\ VersionPacket(v).val = v
            /\ Truncated(VersionPacket(v)).whole = 0
        BY DEF VersionPacket, Packet, Truncated
      <3>4. wire[1].whole = 1 /\ wire[1].val = CURRENT_VERSION
        BY <2>1, <2>3, <3>1 DEF current
      <3>5. wire[1] = VersionPacket(CURRENT_VERSION)
        BY <3>2, <3>3, <3>4
      <3>6. VersionRead'
        BY <1>0, <2>1, <2>3, <3>5 DEF VersionRead
      <3>7. RemoteSeen' /\ RemoteIndexAgrees'
        <4>1. 1 .. pos \subseteq 1 .. pos'
          BY <2>1, <2>3
        <4> QED
          BY <1>0, <2>1, <4>1 DEF LearntInv, RemoteSeen, RemoteIndexAgrees, decoderTables
      <3> QED
        BY <1>0, <3>6, <3>7 DEF LearntInv
    <2> QED
      BY <1>2, <2>2, <2>3 DEF DecodeVersion
  <1>3. CASE RefuseUnversioned
    BY <1>3, NothingLearnt DEF RefuseUnversioned
  <1>4. CASE SkipPacket
    BY <1>4, NothingLearnt DEF SkipPacket
  <1>5. CASE UnknownSample
    BY <1>5, NothingLearnt DEF UnknownSample
  <1>6. CASE DecodeSampleDef
    BY <1>6, SampleDefLearnt
  <1>7. CASE DecodeSampleRef
    <2>1. /\ versionOk = 1 /\ versionOk' = 1 /\ pos \in Nat /\ pos' \in {pos, pos + 1}
          /\ UNCHANGED <<remoteIndex, remoteToLocal>>
      BY <1>7 DEF DecodeSampleRef, Accepted, IInv, DecoderOK, PlaceOK
    <2>2. 1 .. pos \subseteq 1 .. pos'
      BY <2>1
    <2>3. RemoteSeen' /\ RemoteIndexAgrees'
      BY <1>0, <2>1, <2>2 DEF LearntInv, RemoteSeen, RemoteIndexAgrees
    <2>4. VersionRead'
      BY <1>0, <2>1 DEF LearntInv, VersionRead
    <2> QED
      BY <1>0, <2>3, <2>4 DEF LearntInv
  <1>8. CASE LookupHandler
    BY <1>8, NothingLearnt DEF LookupHandler
  <1>9. CASE DecodeBody
    <2>1. versionOk # 0
      BY <1>9 DEF DecodeBody, LearntInv, VersionRead
    <2> QED
      BY <1>9, <2>1, NothingLearnt DEF DecodeBody
  <1>10. CASE CallHandler
    <2>1. versionOk # 0
      BY <1>10 DEF CallHandler, LearntInv, VersionRead
    <2> QED
      BY <1>10, <2>1, NothingLearnt DEF CallHandler
  <1> QED
    BY <1>1, <1>2, <1>3, <1>4, <1>5, <1>6, <1>7, <1>8, <1>9, <1>10 DEF DecodeStep

\* A new decoder has learnt nothing, and a new encoder has sent a version.
LEMMA InitLearnt == Init => LearntInv
  <1> SUFFICES ASSUME Init PROVE LearntInv
    OBVIOUS
  <1>1. EncoderInit /\ DecoderInit
    BY DEF Init
  <1>2. SafeInv
    BY <1>1, InitSafe
  <1>3. RemoteSeen /\ RemoteIndexAgrees /\ VersionRead
    BY <1>1 DEF DecoderInit, RemoteSeen, RemoteIndexAgrees, VersionRead, Tags, Refs
  <1>4. VersionOnWire
    <2>1. PICK v \in PeerVersions :
            \/ writerError = 0 /\ wire = <<VersionPacket(v)>>
            \/ writerError = 1 /\ wire \in {<<>>, <<Truncated(VersionPacket(v))>>}
      BY <1>1 DEF EncoderInit
    <2> DEFINE p == VersionPacket(v)
               q == Truncated(VersionPacket(v))
    <2>2. /\ wire \in {<<>>, <<p>>, <<q>>}
          /\ wire = <<>> => writerError = 1
      BY <2>1
    <2> HIDE DEF p, q
    <2>3. Len(wire) <= 1 /\ (Len(wire) > 0 => wire[1] \in {p, q}) /\ (Len(wire) = 0 => wire = <<>>)
      BY <2>2
    <2> QED
      BY <2>2, <2>3 DEF VersionOnWire, p, q
  <1> QED
    BY <1>2, <1>3, <1>4 DEF LearntInv

\* The decoder's tables hold nothing but what packets of an accepted peer said.
THEOREM LearntInvariant == Spec => []LearntInv
  <1>1. IInv /\ LearntInv /\ [Next]_vars => LearntInv'
    <2> SUFFICES ASSUME IInv, LearntInv, [Next]_vars PROVE LearntInv'
      OBVIOUS
    <2>0. NotesOK /\ TodoOK
      BY DEF IInv
    <2>1. CASE EncoderStep /\ UNCHANGED decoderVars
      BY <2>0, <2>1, EncoderSends, SenderKeepsLearnt
    <2>2. CASE (\E tag \in ForeignTags : ForeignPacket(tag)) /\ UNCHANGED decoderVars
      BY <2>0, <2>2, ForeignSends, SenderKeepsLearnt
    <2>3. CASE (Register \/ ReadFails \/ DecodeStep) /\ UNCHANGED encoderVars
      BY <2>3, RegisterKeepsLearnt, DecodeKeepsLearnt
    <2>4. CASE UNCHANGED vars
      <3>1. UNCHANGED encoderVars /\ UNCHANGED decoderVars
        BY <2>4 DEF vars, encoderVars, decoderVars
      <3> QED
        BY <2>0, <3>1, EncoderSends, SenderKeepsLearnt
    <2> QED
      BY <2>1, <2>2, <2>3, <2>4 DEF Next
  <1> QED
    BY <1>1, InitLearnt, ChannelInvariant, PTL DEF Spec

\* An entry of local that knows its remote index is the entry the map of
\* remote indices leads to: handle_sample_def sets both, and since no index is
\* declared twice nothing comes between them.
THEOREM RemoteIndexAgreesCorrect == Spec => []RemoteIndexAgrees
  <1>1. LearntInv => RemoteIndexAgrees
    BY DEF LearntInv
  <1> QED
    BY <1>1, LearntInvariant, PTL

\* Nothing is learnt or delivered before decode_version has accepted the
\* peer's version, which is the first packet and the only of its kind.
THEOREM VersionFirstCorrect == Spec => []VersionFirst
  <1>1. IInv /\ LearntInv => VersionFirst
    BY DEF IInv, DecoderOK, PlaceOK, LearntInv, VersionRead, VersionFirst
  <1> QED
    BY <1>1, ChannelInvariant, LearntInvariant, PTL

-----------------------------------------------------------------------------
(* The channel is a typed channel.                                         *)
(*                                                                         *)
(* Sent and Received are selections from wire and delivered.  The samples  *)
(* among the packets that decode_one is done with are as many as those     *)
(* delivered, so that the next one is the sample to be received.           *)

\* sel[n] holds, of the first n elements of v, those whose positions are in I.
Selects(sel, k, I, v) ==
    /\ sel[0] = <<>>
    /\ \A n \in 1 .. k : sel[n] = IF n \in I THEN Append(sel[n - 1], v[n]) ELSE sel[n - 1]

\* What sel has at m is the beginning of what it has at n.
Extends(sel, m, n) == /\ Len(sel[m]) <= Len(sel[n])
                      /\ \A j \in 1 .. Len(sel[m]) : sel[n][j] = sel[m][j]

\* There is such a selection, and it is made of the elements of v.
LEMMA SelectionExists ==
    ASSUME NEW T, NEW k \in Nat, NEW I, NEW v, \A n \in 1 .. k : n \in I => v[n] \in T
    PROVE  \E f \in [0 .. k -> Seq(T)] : Selects(f, k, I, v)
  <1> DEFINE F == [p \in Nat \X Seq(T) |->
                     IF p[1] \in I /\ p[1] \in 1 .. k THEN Append(p[2], v[p[1]]) ELSE p[2]]
  <1>1. F \in [Nat \X Seq(T) -> Seq(T)] /\ <<>> \in Seq(T)
    <2>1. \A n \in Nat, q \in Seq(T) :
            (IF n \in I /\ n \in 1 .. k THEN Append(q, v[n]) ELSE q) \in Seq(T)
      OBVIOUS
    <2>2. <<>> \in Seq(T)
      OBVIOUS
    <2> QED
      BY <2>1, <2>2
  <1>2. \A n \in 1 .. k, q \in Seq(T) : F[<<n, q>>] = IF n \in I THEN Append(q, v[n]) ELSE q
    OBVIOUS
  <1> HIDE DEF F
  <1>3. PICK f \in [0 .. k -> Seq(T)] : Iterates(f, k, <<>>, F)
    BY <1>1, Iteration
  <1>4. f[0] = <<>> /\ \A n \in 0 .. k - 1 : f[n + 1] = F[<<n + 1, f[n]>>]
    BY <1>3 DEF Iterates
  <1>5. ASSUME NEW n \in 1 .. k PROVE f[n] = IF n \in I THEN Append(f[n - 1], v[n]) ELSE f[n - 1]
    <2>1. n - 1 \in 0 .. k - 1 /\ n - 1 \in 0 .. k /\ (n - 1) + 1 = n
      OBVIOUS
    <2>2. f[n] = F[<<n, f[n - 1]>>] /\ f[n - 1] \in Seq(T)
      BY <1>4, <2>1
    <2> QED
      BY <1>2, <2>2
  <1> QED
    BY <1>4, <1>5 DEF Selects

LEMMA SelectionTyped ==
    ASSUME NEW T, NEW k \in Nat, NEW I, NEW v, \A n \in 1 .. k : n \in I => v[n] \in T,
           NEW sel, Selects(sel, k, I, v)
    PROVE  \A n \in 0 .. k : sel[n] \in Seq(T) /\ Len(sel[n]) \in Nat
  <1> DEFINE S == {n \in 0 .. k : sel[n] \in Seq(T)}
  <1>1. 0 \in S
    <2>1. <<>> \in Seq(T) /\ 0 \in 0 .. k
      OBVIOUS
    <2>2. sel[0] = <<>>
      BY DEF Selects
    <2> QED
      BY <2>1, <2>2
  <1>2. ASSUME NEW n \in 0 .. k - 1, n \in S PROVE n + 1 \in S
    <2>1. n + 1 \in 1 .. k /\ (n + 1) - 1 = n /\ n + 1 \in 0 .. k
      OBVIOUS
    <2>2. sel[n + 1] = IF n + 1 \in I THEN Append(sel[n], v[n + 1]) ELSE sel[n]
      BY <2>1 DEF Selects
    <2>3. sel[n + 1] \in Seq(T)
      BY <1>2, <2>1, <2>2
    <2> QED
      BY <2>1, <2>3
  <1> HIDE DEF S
  <1>3. 0 .. k \subseteq S
    BY <1>1, <1>2, BoundedInduction
  <1>4. \A n \in 0 .. k : sel[n] \in Seq(T)
    BY <1>3 DEF S
  <1> QED
    BY <1>4

\* The selection only grows.
LEMMA SelectionGrows ==
    ASSUME NEW T, NEW k \in Nat, NEW I, NEW v, \A n \in 1 .. k : n \in I => v[n] \in T,
           NEW sel, Selects(sel, k, I, v)
    PROVE  \A m \in 0 .. k : Extends(sel, m, k)
  <1> SUFFICES ASSUME NEW m \in 0 .. k PROVE Extends(sel, m, k)
    OBVIOUS
  <1> DEFINE Longer(i) == /\ Len(sel[m]) <= Len(sel[i])
                          /\ \A j \in 1 .. Len(sel[m]) : sel[i][j] = sel[m][j]
             S == {i \in 0 .. k : i >= m => Longer(i)}
  <1>1. /\ \A i \in 0 .. k : sel[i] \in Seq(T) /\ Len(sel[i]) \in Nat
        /\ \A i \in 1 .. k : sel[i] = IF i \in I THEN Append(sel[i - 1], v[i]) ELSE sel[i - 1]
        /\ \A i \in 1 .. k : i \in I => v[i] \in T
    <2>1. \A i \in 0 .. k : sel[i] \in Seq(T) /\ Len(sel[i]) \in Nat
      BY SelectionTyped
    <2> QED
      BY <2>1 DEF Selects
  <1>2. m \in 0 .. k /\ k \in 0 .. k /\ k >= m
    OBVIOUS
  <1>3. 0 \in S
    <2>1. 0 >= m => m = 0
      BY <1>2
    <2> QED
      BY <1>1, <1>2, <2>1
  <1>4. ASSUME NEW i \in 0 .. k - 1, i \in S PROVE i + 1 \in S
    <2>1. i + 1 \in 1 .. k /\ i + 1 \in 0 .. k /\ (i + 1) - 1 = i /\ i \in 0 .. k
      OBVIOUS
    <2>2. sel[i + 1] = IF i + 1 \in I THEN Append(sel[i], v[i + 1]) ELSE sel[i]
      BY <1>1, <2>1
    <2>3. CASE i + 1 = m
      BY <1>1, <2>1, <2>3
    <2>4. CASE i + 1 # m /\ i + 1 >= m
      <3>1. Longer(i)
        BY <1>2, <1>4, <2>1, <2>4
      <3>2. sel[i] \in Seq(T) /\ Len(sel[i]) \in Nat /\ Len(sel[m]) \in Nat
            /\ (i + 1 \in I => v[i + 1] \in T)
        BY <1>1, <1>2, <2>1
      <3>3. /\ Len(sel[i]) <= Len(sel[i + 1])
            /\ \A j \in 1 .. Len(sel[i]) : sel[i + 1][j] = sel[i][j]
            /\ Len(sel[i + 1]) \in Nat
        BY <2>2, <3>2
      <3>4. \A j \in 1 .. Len(sel[m]) : j \in 1 .. Len(sel[i])
        BY <3>1, <3>2
      <3>5. Longer(i + 1)
        BY <3>1, <3>2, <3>3, <3>4
      <3> QED
        BY <2>1, <3>5
    <2>5. CASE ~(i + 1 >= m)
      BY <2>1, <2>5
    <2> QED
      BY <2>3, <2>4, <2>5
  <1> HIDE DEF S
  <1>5. 0 .. k \subseteq S
    BY <1>3, <1>4, BoundedInduction
  <1> QED
    BY <1>2, <1>5 DEF S, Extends

\* Two selections that agree on what there is to select agree.
LEMMA SelectionSame ==
    ASSUME NEW k \in Nat, NEW m \in k .. k + 1, NEW I, NEW J, NEW v, NEW u,
           \A n \in 1 .. k : (n \in I <=> n \in J) /\ (n \in I => v[n] = u[n]),
           NEW old, Selects(old, k, I, v), NEW new, Selects(new, m, J, u)
    PROVE  \A n \in 0 .. k : new[n] = old[n]
  <1> DEFINE S == {n \in 0 .. k : new[n] = old[n]}
  <1>1. 0 \in S
    BY DEF Selects
  <1>2. ASSUME NEW n \in 0 .. k - 1, n \in S PROVE n + 1 \in S
    <2>1. n + 1 \in 1 .. k /\ n + 1 \in 1 .. m /\ n + 1 \in 0 .. k /\ (n + 1) - 1 = n
      OBVIOUS
    <2>2. new[n] = old[n]
      BY <1>2
    <2>3. old[n + 1] = IF n + 1 \in I THEN Append(old[n], v[n + 1]) ELSE old[n]
      BY <2>1 DEF Selects
    <2>4. new[n + 1] = IF n + 1 \in J THEN Append(new[n], u[n + 1]) ELSE new[n]
      BY <2>1 DEF Selects
    <2>5. (n + 1 \in I <=> n + 1 \in J) /\ (n + 1 \in I => v[n + 1] = u[n + 1])
      BY <2>1
    <2> QED
      BY <2>1, <2>2, <2>3, <2>4, <2>5
  <1> HIDE DEF S
  <1>3. 0 .. k \subseteq S
    BY <1>1, <1>2, BoundedInduction
  <1> QED
    BY <1>3 DEF S

\* SentUpTo chooses what its recursion says.
SentPositions(w) == {n \in 1 .. Len(w) : IsSample(w[n])}
SentSamplesOf(w) == [n \in 1 .. Len(w) |-> SentSample(w[n])]
SentSet          == {SentSample(p) : p \in Packets}

LEMMA PacketsFacts ==
    ASSUME NEW w \in Seq(Packets), NEW sel, sel = SentUpTo(w)
    PROVE  /\ Selects(sel, Len(w), SentPositions(w), SentSamplesOf(w))
           /\ \A n \in SentPositions(w) : SentSamplesOf(w)[n] \in SentSet
           /\ \A n \in 0 .. Len(w) : sel[n] \in Seq(SentSet) /\ Len(sel[n]) \in Nat
           /\ \A n \in 1 .. Len(w) :
                sel[n] = IF IsSample(w[n]) THEN Append(sel[n - 1], SentSample(w[n])) ELSE sel[n - 1]
  <1> DEFINE k == Len(w)
             E(g) == [n \in 0 .. k |->
                        IF n = 0 THEN <<>>
                        ELSE IF IsSample(w[n]) THEN Append(g[n - 1], SentSample(w[n]))
                        ELSE g[n - 1]]
             I == SentPositions(w)
             v == SentSamplesOf(w)
  <1>1. /\ k \in Nat /\ \A n \in 1 .. k : v[n] = SentSample(w[n]) /\ v[n] \in SentSet
        /\ I \subseteq 1 .. k /\ \A n \in 1 .. k : n \in I <=> IsSample(w[n])
    BY DEF SentPositions, SentSamplesOf, SentSet
  <1>2. sel = CHOOSE g : g = E(g)
    BY DEF SentUpTo
  <1> HIDE DEF k, I, v
  <1>3. PICK f \in [0 .. k -> Seq(SentSet)] : Selects(f, k, I, v)
    BY <1>1, SelectionExists
  <1>4. f = E(f)
    <2>1. ASSUME NEW n \in 0 .. k PROVE f[n] = E(f)[n]
      <3>1. CASE n = 0
        BY <1>3, <3>1 DEF Selects
      <3>2. CASE n # 0
        <4>1. n \in 1 .. k
          BY <1>1, <3>2
        <4>2. f[n] = IF IsSample(w[n]) THEN Append(f[n - 1], SentSample(w[n])) ELSE f[n - 1]
          BY <1>1, <1>3, <4>1 DEF Selects
        <4> QED
          BY <3>2, <4>2
      <3> QED
        BY <3>1, <3>2
    <2> HIDE DEF E
    <2>2. E(f) = [n \in 0 .. k |-> E(f)[n]]
      BY DEF E
    <2> QED
      BY <2>1, <2>2
  <1>5. sel = E(sel)
    <2> HIDE DEF E
    <2> QED
      BY <1>2, <1>4
  <1>6. sel = [n \in 0 .. k |->
                  IF n = 0 THEN <<>>
                  ELSE IF IsSample(w[n]) THEN Append(sel[n - 1], SentSample(w[n]))
                  ELSE sel[n - 1]]
    BY <1>5
  <1>7. 0 \in 0 .. k /\ 1 .. k \subseteq 0 .. k /\ 0 \notin 1 .. k
    BY <1>1
  <1>8. /\ sel[0] = <<>>
        /\ \A n \in 1 .. k :
             sel[n] = IF IsSample(w[n]) THEN Append(sel[n - 1], SentSample(w[n])) ELSE sel[n - 1]
    BY <1>6, <1>7
  <1>9. Selects(sel, k, I, v)
    BY <1>1, <1>8 DEF Selects
  <1>10. \A n \in 0 .. k : sel[n] \in Seq(SentSet) /\ Len(sel[n]) \in Nat
    BY <1>1, <1>9, SelectionTyped
  <1> QED
    BY <1>1, <1>8, <1>9, <1>10 DEF k, I, v

\* One more packet on the wire is one more sample sent, or none.
LEMMA OneMorePacket ==
    ASSUME NEW w \in Seq(Packets), NEW p \in Packets,
           NEW old, old = SentUpTo(w), NEW new, new = SentUpTo(Append(w, p))
    PROVE  /\ \A n \in 0 .. Len(w) : new[n] = old[n]
           /\ new[Len(w) + 1] =
                IF IsSample(p) THEN Append(old[Len(w)], SentSample(p)) ELSE old[Len(w)]
  <1> DEFINE k == Len(w)
  <1>1. PICK x : x = Append(w, p)
    OBVIOUS
  <1>2. /\ k \in Nat /\ x \in Seq(Packets) /\ Len(x) = k + 1 /\ x[k + 1] = p
        /\ \A n \in 1 .. k : x[n] = w[n]
    BY <1>1
  <1>3. Selects(old, k, SentPositions(w), SentSamplesOf(w))
    BY PacketsFacts
  <1>4. /\ Selects(new, k + 1, SentPositions(x), SentSamplesOf(x))
        /\ \A n \in 1 .. k + 1 :
             new[n] = IF IsSample(x[n]) THEN Append(new[n - 1], SentSample(x[n])) ELSE new[n - 1]
    <2>1. new = SentUpTo(x)
      BY <1>1
    <2>2. /\ Selects(new, Len(x), SentPositions(x), SentSamplesOf(x))
          /\ \A n \in 1 .. Len(x) :
               new[n] = IF IsSample(x[n]) THEN Append(new[n - 1], SentSample(x[n])) ELSE new[n - 1]
      BY <1>2, <2>1, PacketsFacts
    <2> QED
      BY <1>2, <2>2
  <1>5. \A n \in 1 .. k :
           /\ n \in SentPositions(w) <=> n \in SentPositions(x)
           /\ n \in SentPositions(w) => SentSamplesOf(w)[n] = SentSamplesOf(x)[n]
    <2> TAKE n \in 1 .. k
    <2>1. n \in 1 .. Len(w) /\ n \in 1 .. Len(x) /\ x[n] = w[n]
      BY <1>2
    <2> QED
      BY <2>1 DEF SentPositions, SentSamplesOf
  <1> HIDE DEF k
  <1>6. k + 1 \in k .. k + 1 /\ k + 1 \in 1 .. k + 1 /\ (k + 1) - 1 = k /\ k \in 0 .. k
    BY <1>2
  <1>7. \A n \in 0 .. k : new[n] = old[n]
    <2>1. PICK I, J, v, u : /\ I = SentPositions(w) /\ J = SentPositions(x)
                            /\ v = SentSamplesOf(w) /\ u = SentSamplesOf(x)
      OBVIOUS
    <2>2. Selects(old, k, I, v) /\ Selects(new, k + 1, J, u)
      BY <1>3, <1>4, <2>1
    <2>3. \A n \in 1 .. k : (n \in I <=> n \in J) /\ (n \in I => v[n] = u[n])
      BY <1>5, <2>1
    <2> QED
      BY <1>2, <1>6, <2>2, <2>3, SelectionSame
  <1>8. new[k + 1] = IF IsSample(x[k + 1]) THEN Append(new[k], SentSample(x[k + 1])) ELSE new[k]
    BY <1>4, <1>6
  <1> QED
    BY <1>2, <1>6, <1>7, <1>8 DEF k

\* ReceivedUpTo chooses what its recursion says.
ReceivedPositions(w) == {n \in 1 .. Len(w) : w[n].tag >= LABCOMM_USER}
ReceivedSamplesOf(w) == [n \in 1 .. Len(w) |-> ReceivedSample(w[n])]
ReceivedSet          == {ReceivedSample(p) : p \in Deliveries}

LEMMA CallsFacts ==
    ASSUME NEW w \in Seq(Deliveries), NEW sel, sel = ReceivedUpTo(w)
    PROVE  /\ Selects(sel, Len(w), ReceivedPositions(w), ReceivedSamplesOf(w))
           /\ \A n \in ReceivedPositions(w) : ReceivedSamplesOf(w)[n] \in ReceivedSet
           /\ \A n \in 0 .. Len(w) : sel[n] \in Seq(ReceivedSet) /\ Len(sel[n]) \in Nat
           /\ \A n \in 1 .. Len(w) :
                sel[n] = IF w[n].tag >= LABCOMM_USER
                           THEN Append(sel[n - 1], ReceivedSample(w[n])) ELSE sel[n - 1]
  <1> DEFINE k == Len(w)
             E(g) == [n \in 0 .. k |->
                        IF n = 0 THEN <<>>
                        ELSE IF w[n].tag >= LABCOMM_USER THEN Append(g[n - 1], ReceivedSample(w[n]))
                        ELSE g[n - 1]]
             I == ReceivedPositions(w)
             v == ReceivedSamplesOf(w)
  <1>1. /\ k \in Nat /\ \A n \in 1 .. k : v[n] = ReceivedSample(w[n]) /\ v[n] \in ReceivedSet
        /\ I \subseteq 1 .. k /\ \A n \in 1 .. k : n \in I <=> w[n].tag >= LABCOMM_USER
    BY DEF ReceivedPositions, ReceivedSamplesOf, ReceivedSet
  <1>2. sel = CHOOSE g : g = E(g)
    BY DEF ReceivedUpTo
  <1> HIDE DEF k, I, v
  <1>3. PICK f \in [0 .. k -> Seq(ReceivedSet)] : Selects(f, k, I, v)
    BY <1>1, SelectionExists
  <1>4. f = E(f)
    <2>1. ASSUME NEW n \in 0 .. k PROVE f[n] = E(f)[n]
      <3>1. CASE n = 0
        BY <1>3, <3>1 DEF Selects
      <3>2. CASE n # 0
        <4>1. n \in 1 .. k
          BY <1>1, <3>2
        <4>2. f[n] = IF w[n].tag >= LABCOMM_USER THEN Append(f[n - 1], ReceivedSample(w[n]))
                     ELSE f[n - 1]
          BY <1>1, <1>3, <4>1 DEF Selects
        <4> QED
          BY <3>2, <4>2
      <3> QED
        BY <3>1, <3>2
    <2> HIDE DEF E
    <2>2. E(f) = [n \in 0 .. k |-> E(f)[n]]
      BY DEF E
    <2> QED
      BY <2>1, <2>2
  <1>5. sel = E(sel)
    <2> HIDE DEF E
    <2> QED
      BY <1>2, <1>4
  <1>6. sel = [n \in 0 .. k |->
                  IF n = 0 THEN <<>>
                  ELSE IF w[n].tag >= LABCOMM_USER THEN Append(sel[n - 1], ReceivedSample(w[n]))
                  ELSE sel[n - 1]]
    BY <1>5
  <1>7. 0 \in 0 .. k /\ 1 .. k \subseteq 0 .. k /\ 0 \notin 1 .. k
    BY <1>1
  <1>8. /\ sel[0] = <<>>
        /\ \A n \in 1 .. k :
             sel[n] = IF w[n].tag >= LABCOMM_USER
                           THEN Append(sel[n - 1], ReceivedSample(w[n])) ELSE sel[n - 1]
    BY <1>6, <1>7
  <1>9. Selects(sel, k, I, v)
    BY <1>1, <1>8 DEF Selects
  <1>10. \A n \in 0 .. k : sel[n] \in Seq(ReceivedSet) /\ Len(sel[n]) \in Nat
    BY <1>1, <1>9, SelectionTyped
  <1> QED
    BY <1>1, <1>8, <1>9, <1>10 DEF k, I, v

\* One more call of a handler is one more sample received, or none.
LEMMA OneMoreCall ==
    ASSUME NEW w \in Seq(Deliveries), NEW p \in Deliveries,
           NEW old, old = ReceivedUpTo(w), NEW new, new = ReceivedUpTo(Append(w, p))
    PROVE  /\ \A n \in 0 .. Len(w) : new[n] = old[n]
           /\ new[Len(w) + 1] =
                IF p.tag >= LABCOMM_USER THEN Append(old[Len(w)], ReceivedSample(p)) ELSE old[Len(w)]
  <1> DEFINE k == Len(w)
  <1>1. PICK x : x = Append(w, p)
    OBVIOUS
  <1>2. /\ k \in Nat /\ x \in Seq(Deliveries) /\ Len(x) = k + 1 /\ x[k + 1] = p
        /\ \A n \in 1 .. k : x[n] = w[n]
    BY <1>1
  <1>3. Selects(old, k, ReceivedPositions(w), ReceivedSamplesOf(w))
    BY CallsFacts
  <1>4. /\ Selects(new, k + 1, ReceivedPositions(x), ReceivedSamplesOf(x))
        /\ \A n \in 1 .. k + 1 :
             new[n] = IF x[n].tag >= LABCOMM_USER THEN Append(new[n - 1], ReceivedSample(x[n]))
                      ELSE new[n - 1]
    <2>1. new = ReceivedUpTo(x)
      BY <1>1
    <2>2. /\ Selects(new, Len(x), ReceivedPositions(x), ReceivedSamplesOf(x))
          /\ \A n \in 1 .. Len(x) :
               new[n] = IF x[n].tag >= LABCOMM_USER THEN Append(new[n - 1], ReceivedSample(x[n]))
                        ELSE new[n - 1]
      BY <1>2, <2>1, CallsFacts
    <2> QED
      BY <1>2, <2>2
  <1>5. \A n \in 1 .. k :
           /\ n \in ReceivedPositions(w) <=> n \in ReceivedPositions(x)
           /\ n \in ReceivedPositions(w) => ReceivedSamplesOf(w)[n] = ReceivedSamplesOf(x)[n]
    <2> TAKE n \in 1 .. k
    <2>1. n \in 1 .. Len(w) /\ n \in 1 .. Len(x) /\ x[n] = w[n]
      BY <1>2
    <2> QED
      BY <2>1 DEF ReceivedPositions, ReceivedSamplesOf
  <1> HIDE DEF k
  <1>6. k + 1 \in k .. k + 1 /\ k + 1 \in 1 .. k + 1 /\ (k + 1) - 1 = k /\ k \in 0 .. k
    BY <1>2
  <1>7. \A n \in 0 .. k : new[n] = old[n]
    <2>1. PICK I, J, v, u : /\ I = ReceivedPositions(w) /\ J = ReceivedPositions(x)
                            /\ v = ReceivedSamplesOf(w) /\ u = ReceivedSamplesOf(x)
      OBVIOUS
    <2>2. Selects(old, k, I, v) /\ Selects(new, k + 1, J, u)
      BY <1>3, <1>4, <2>1
    <2>3. \A n \in 1 .. k : (n \in I <=> n \in J) /\ (n \in I => v[n] = u[n])
      BY <1>5, <2>1
    <2> QED
      BY <1>2, <1>6, <2>2, <2>3, SelectionSame
  <1>8. new[k + 1] = IF x[k + 1].tag >= LABCOMM_USER THEN Append(new[k], ReceivedSample(x[k + 1]))
                     ELSE new[k]
    BY <1>4, <1>6
  <1> QED
    BY <1>2, <1>6, <1>7, <1>8 DEF k

\* What the receiver knows of references is what the sender announced.
RefMapInv ==
    \A r \in Refs : remoteToLocalRef[r] # 0 =>
      r \in EncoderIndices /\ DecoderKey(remoteToLocalRef[r]) = EncoderKey(r)

\* A body that was read to its end was whole, and its reference was resolved
\* to the same type or to none.
BodyInv ==
    pc = "call" /\ readerError = 0 =>
      /\ current.whole = 1
      /\ wrap.ref # 0 => current.ref # 0 /\ DecoderKey(wrap.ref) = EncoderKey(current.ref)

\* As many samples were received as are among the packets decode_one is done with.
CountInv == Len(Received) = Len(SentUpTo(wire)[pos])

ChannelInv == RefMapInv /\ BodyInv /\ CountInv

\* A step of decode_one that hands no sample to a handler passes none by.
PassesNoSample ==
    /\ \/ pos' = pos
       \/ pos' = pos + 1 /\ pos < Len(wire) /\ ~IsSample(current)
    /\ \/ delivered' = delivered
       \/ \E d \in Deliveries : delivered' = Append(delivered, d) /\ ~(d.tag >= LABCOMM_USER)

\* The properties' Sent and Received are these.
LEMMA SentIs ==
    /\ Sent = SentUpTo(wire)[Len(wire)] /\ Sent' = SentUpTo(wire')[Len(wire')]
    /\ Received = ReceivedUpTo(delivered)[Len(delivered)]
    /\ Received' = ReceivedUpTo(delivered')[Len(delivered')]
  BY DEF Sent, Received

\* The sender sends a sample or does nothing that the two programs can see.
LEMMA SenderRefines ==
    ASSUME IInv, CountInv, SenderStep, UNCHANGED decoderVars
    PROVE  CountInv' /\ [Abstract!Next]_(Abstract!vars)
  <1>1. /\ wire \in Seq(Packets) /\ wire' \in Seq(Packets) /\ Len(wire) \in Nat
        /\ Len(wire') \in {Len(wire), Len(wire) + 1}
        /\ \A n \in 1 .. Len(wire) : wire'[n] = wire[n]
        /\ pos \in 0 .. Len(wire) /\ pos' = pos /\ delivered' = delivered
    BY DEF IInv, NotesOK, DecoderOK, PlaceOK, SenderStep, decoderVars
  <1>2. Received' = Received
    BY <1>1, SentIs
  <1>3. CASE Len(wire') = Len(wire)
    <2>1. wire' = wire
      BY <1>1, <1>3
    <2>2. Sent' = Sent
      BY <2>1, SentIs
    <2>3. CountInv'
      BY <1>1, <1>2, <2>1 DEF CountInv
    <2> QED
      BY <1>2, <2>2, <2>3 DEF Abstract!vars
  <1>4. CASE Len(wire') = Len(wire) + 1
    <2> DEFINE p == wire'[Len(wire) + 1]
    <2>1. p \in Packets
      BY <1>1, <1>4
    <2>2. wire' = Append(wire, p)
      BY <1>1, <1>4, <2>1
    <2> HIDE DEF p
    <2>3. PICK old : old = SentUpTo(wire)
      OBVIOUS
    <2>4. PICK new : new = SentUpTo(wire')
      OBVIOUS
    <2>5. /\ \A n \in 0 .. Len(wire) : new[n] = old[n]
          /\ new[Len(wire) + 1] =
               IF IsSample(p) THEN Append(old[Len(wire)], SentSample(p)) ELSE old[Len(wire)]
      <3>1. new = SentUpTo(Append(wire, p))
        BY <2>2, <2>4
      <3> QED
        BY <1>1, <2>1, <2>3, <3>1, OneMorePacket
    <2>6. CountInv'
      <3>1. new[pos] = old[pos]
        BY <1>1, <2>5
      <3> QED
        BY <1>1, <1>2, <2>3, <2>4, <3>1 DEF CountInv
    <2>7. Sent = old[Len(wire)] /\ Sent' = new[Len(wire) + 1]
      BY <1>4, <2>3, <2>4, SentIs
    <2>8. PICK a : a = Sent
      OBVIOUS
    <2>9. PICK b : b = Sent'
      OBVIOUS
    <2>10. a \in Seq(SentSet) /\ SentSample(p) \in SentSet
      <3>1. Len(wire) \in 0 .. Len(wire)
        BY <1>1
      <3>2. old[Len(wire)] \in Seq(SentSet)
        BY <1>1, <2>3, <3>1, PacketsFacts
      <3> QED
        BY <2>1, <2>7, <2>8, <3>2 DEF SentSet
    <2>11. CASE IsSample(p)
      <3>1. b = Append(a, SentSample(p))
        BY <2>5, <2>7, <2>8, <2>9, <2>11
      <3>2. Len(b) = Len(a) + 1 /\ SubSeq(b, 1, Len(a)) = a
        BY <2>10, <3>1
      <3> QED
        BY <1>2, <2>6, <2>8, <2>9, <3>2 DEF Abstract!Next, Abstract!Send
    <2>12. CASE ~IsSample(p)
      <3>1. Sent' = Sent
        BY <2>5, <2>7, <2>12
      <3> QED
        BY <1>2, <2>6, <3>1 DEF Abstract!vars
    <2> QED
      BY <2>11, <2>12
  <1> QED
    BY <1>1, <1>3, <1>4

\* The receiver's other steps are invisible to both programs.
LEMMA ReceiverStutters ==
    ASSUME IInv, CountInv, wire' = wire, PassesNoSample
    PROVE  CountInv' /\ UNCHANGED Abstract!vars
  <1>1. wire \in Seq(Packets) /\ pos \in 0 .. Len(wire) /\ Len(wire) \in Nat
        /\ delivered \in Seq(Deliveries)
    BY DEF IInv, NotesOK, DecoderOK, PlaceOK, CallsOK
  <1>2. Sent' = Sent
    BY SentIs
  <1>3. Received' = Received
    <2>1. CASE delivered' = delivered
      BY <2>1, SentIs
    <2>2. ASSUME NEW d \in Deliveries, delivered' = Append(delivered, d), ~(d.tag >= LABCOMM_USER)
          PROVE  Received' = Received
      <3>1. PICK old : old = ReceivedUpTo(delivered)
        OBVIOUS
      <3>2. PICK new : new = ReceivedUpTo(Append(delivered, d))
        OBVIOUS
      <3>3. new[Len(delivered) + 1] = old[Len(delivered)]
        BY <1>1, <2>2, <3>1, <3>2, OneMoreCall
      <3>4. Len(Append(delivered, d)) = Len(delivered) + 1
        BY <1>1
      <3> QED
        BY <2>2, <3>1, <3>2, <3>3, <3>4, SentIs
    <2> QED
      BY <2>1, <2>2 DEF PassesNoSample
  <1>4. Len(SentUpTo(wire)[pos']) = Len(SentUpTo(wire)[pos])
    <2>1. CASE pos' = pos
      BY <2>1
    <2>2. CASE pos' = pos + 1 /\ pos < Len(wire) /\ ~IsSample(current)
      <3>1. pos + 1 \in 1 .. Len(wire) /\ (pos + 1) - 1 = pos
        BY <1>1, <2>2
      <3>2. PICK sel : sel = SentUpTo(wire)
        OBVIOUS
      <3>3. \A n \in 1 .. Len(wire) :
               sel[n] = IF IsSample(wire[n]) THEN Append(sel[n - 1], SentSample(wire[n]))
                        ELSE sel[n - 1]
        BY <1>1, <3>2, PacketsFacts
      <3>4. sel[pos + 1] = sel[pos]
        BY <2>2, <3>1, <3>3 DEF current
      <3> QED
        BY <2>2, <3>2, <3>4
    <2> QED
      BY <2>1, <2>2 DEF PassesNoSample
  <1>5. CountInv'
    BY <1>3, <1>4 DEF CountInv
  <1> QED
    BY <1>2, <1>3, <1>5 DEF Abstract!vars

\* A handler that is called with a sample receives the first of those sent
\* that were not received before.
LEMMA CallRefines ==
    ASSUME IInv, ChannelInv, wire' = wire, CallHandler, readerError = 0,
           current.tag >= LABCOMM_USER
    PROVE  CountInv' /\ Abstract!Receive
  <1> DEFINE d == [tag |-> current.tag, local |-> wrap.local, handler |-> wrap.handler,
                   ref |-> wrap.ref, val |-> current.val]
  <1>1. /\ wire \in Seq(Packets) /\ Len(wire) \in Nat /\ pos \in Nat /\ pos < Len(wire)
        /\ delivered \in Seq(Deliveries) /\ wrap \in Wraps
        /\ current.tag \in Tags /\ pc = "call"
    BY DEF IInv, NotesOK, DecoderOK, PlaceOK, CallsOK, WrapInv, CallHandler
  <1>2. pos' = pos + 1 /\ delivered' = Append(delivered, d)
    BY DEF CallHandler, Continue
  <1>3. current \in Packets /\ current.tag \in EncoderIndices
    BY <1>1, CurrentFacts
  <1>4. d \in Deliveries
    <2>1. current.val \in Nat
      BY <1>3 DEF Packets
    <2> QED
      BY <1>1, <2>1 DEF Deliveries, Wraps
  <1>5. /\ d.tag >= LABCOMM_USER /\ d.val = current.val
        /\ DecoderKey(d.local) = EncoderKey(current.tag)
        /\ d.ref # 0 => current.ref # 0 /\ DecoderKey(d.ref) = EncoderKey(current.ref)
        /\ IsSample(current)
    BY <1>1, <1>3 DEF IInv, WrapInv, ChannelInv, BodyInv, IsSample
  <1> HIDE DEF d
  <1>6. PICK sel : sel = SentUpTo(wire)
    OBVIOUS
  <1>7. /\ Received' = Append(Received, ReceivedSample(d))
        /\ Len(Received') = Len(Received) + 1 /\ Len(Received) \in Nat
    <2>1. PICK old : old = ReceivedUpTo(delivered)
      OBVIOUS
    <2>2. PICK new : new = ReceivedUpTo(Append(delivered, d))
      OBVIOUS
    <2>3. new[Len(delivered) + 1] = Append(old[Len(delivered)], ReceivedSample(d))
      <3>1. delivered \in Seq(Deliveries) /\ d.tag >= LABCOMM_USER
        BY <1>1, <1>5
      <3>2. new[Len(delivered) + 1] =
               IF d.tag >= LABCOMM_USER THEN Append(old[Len(delivered)], ReceivedSample(d))
                                        ELSE old[Len(delivered)]
        BY <1>4, <2>1, <2>2, <3>1, OneMoreCall
      <3> QED
        BY <3>1, <3>2
    <2>4. Len(Append(delivered, d)) = Len(delivered) + 1 /\ Len(delivered) \in 0 .. Len(delivered)
      BY <1>1
    <2>5. Received = old[Len(delivered)] /\ Received' = new[Len(delivered) + 1]
      BY <1>2, <2>1, <2>2, <2>4, SentIs
    <2>6. old[Len(delivered)] \in Seq(ReceivedSet) /\ ReceivedSample(d) \in ReceivedSet
      BY <1>1, <1>4, <2>1, <2>4, CallsFacts DEF ReceivedSet
    <2> QED
      BY <2>3, <2>5, <2>6
  <1>8. /\ Selects(sel, Len(wire), SentPositions(wire), SentSamplesOf(wire))
        /\ \A n \in SentPositions(wire) : SentSamplesOf(wire)[n] \in SentSet
        /\ \A n \in 0 .. Len(wire) : sel[n] \in Seq(SentSet) /\ Len(sel[n]) \in Nat
        /\ \A n \in 1 .. Len(wire) :
             sel[n] = IF IsSample(wire[n]) THEN Append(sel[n - 1], SentSample(wire[n])) ELSE sel[n - 1]
        /\ Sent = sel[Len(wire)]
    BY <1>1, <1>6, SentIs, PacketsFacts
  <1>9. pos + 1 \in 1 .. Len(wire) /\ (pos + 1) - 1 = pos /\ pos \in 0 .. Len(wire)
        /\ pos + 1 \in 0 .. Len(wire) /\ Len(wire) \in pos + 1 .. Len(wire)
        /\ Len(wire) \in 0 .. Len(wire)
    BY <1>1
  <1>10. sel[pos + 1] = Append(sel[pos], SentSample(current))
    BY <1>5, <1>8, <1>9 DEF current
  <1>11. Len(sel[pos + 1]) = Len(sel[pos]) + 1 /\ sel[pos + 1][Len(sel[pos]) + 1] = SentSample(current)
         /\ Len(sel[pos]) \in Nat
    <2>1. sel[pos] \in Seq(SentSet) /\ SentSample(current) \in SentSet
      BY <1>3, <1>8, <1>9 DEF SentSet
    <2> QED
      BY <1>10, <2>1
  <1>12. Len(Received) = Len(sel[pos])
    BY <1>6 DEF ChannelInv, CountInv
  <1>13. /\ Len(sel[pos + 1]) <= Len(sel[Len(wire)])
         /\ \A j \in 1 .. Len(sel[pos + 1]) : sel[Len(wire)][j] = sel[pos + 1][j]
    <2>1. PICK k, I, v, T, s : /\ k = Len(wire) /\ I = SentPositions(wire)
                               /\ v = SentSamplesOf(wire) /\ T = SentSet /\ s = sel
      OBVIOUS
    <2>2. Selects(s, k, I, v)
      BY <1>8, <2>1
    <2>3. \A n \in 1 .. k : n \in I => v[n] \in T
      BY <1>8, <2>1
    <2>4. k \in Nat
      BY <1>1, <2>1
    <2>5. \A m \in 0 .. k : Extends(s, m, k)
      BY <2>2, <2>3, <2>4, SelectionGrows
    <2>6. Extends(sel, pos + 1, Len(wire))
      BY <1>9, <2>1, <2>5
    <2> QED
      BY <2>6 DEF Extends
  <1>14. Len(sel[Len(wire)]) \in Nat
    BY <1>8, <1>9
  <1>15. Len(Received) < Len(Sent) /\ Sent[Len(Received) + 1] = SentSample(current)
    BY <1>8, <1>11, <1>12, <1>13, <1>14
  <1>16. Sent[Len(Received) + 1] = SentSample(current)
    BY <1>15
  <1>17. ReceivedSample(d) = [key |-> SentSample(current).key,
                              ref |-> ReceivedSample(d).ref,
                              val |-> SentSample(current).val]
    BY <1>5 DEF ReceivedSample, SentSample
  <1>18. ReceivedSample(d).ref \in {SentSample(current).ref, NoKey}
    BY <1>5 DEF ReceivedSample, SentSample, KeyOrNull
  <1>19. Sent' = Sent
    BY SentIs
  <1>20. Abstract!Receive
    BY <1>7, <1>15, <1>16, <1>17, <1>18, <1>19 DEF Abstract!Receive
  <1>21. CountInv'
    <2>1. CountInv' <=> Len(Received') = Len(sel[pos'])
      BY <1>6 DEF CountInv
    <2> QED
      BY <1>2, <1>7, <1>11, <1>12, <2>1
  <1> QED
    BY <1>20, <1>21

\* The sender changes nothing of what is being read.
LEMMA SenderKeepsRefs ==
    ASSUME IInv, RefMapInv, BodyInv, SenderStep, UNCHANGED decoderVars
    PROVE  RefMapInv' /\ BodyInv'
  <1>1. RefMapInv'
    BY DEF RefMapInv, decoderVars
  <1>2. CASE pc = "call"
    <2>1. /\ pos \in Nat /\ pos < Len(wire) /\ Len(wire) \in Nat
          /\ \A n \in 1 .. Len(wire) : wire'[n] = wire[n]
      BY <1>2 DEF IInv, WrapInv, NotesOK, DecoderOK, PlaceOK, SenderStep
    <2>2. pos + 1 \in 1 .. Len(wire)
      BY <2>1
    <2>3. current' = current
      BY <2>1, <2>2 DEF current, decoderVars
    <2> QED
      BY <1>1, <2>3 DEF BodyInv, decoderVars
  <1>3. CASE pc # "call"
    BY <1>1, <1>3 DEF BodyInv, decoderVars
  <1> QED
    BY <1>2, <1>3

\* A registration forgets a reference or leaves it alone, and passes nothing by.
LEMMA RegisterKeepsRefs ==
    ASSUME IInv, RefMapInv, BodyInv, UNCHANGED encoderVars, Register
    PROVE  RefMapInv' /\ BodyInv' /\ PassesNoSample
  <1>1. /\ wire' = wire /\ UNCHANGED <<pos, pc, readerError, wrap, delivered>>
    BY DEF encoderVars, Register, RegisterSample, RegisterType, DecoderRefRegister
  <1>2. \A r \in Refs : remoteToLocalRef'[r] \in {0, remoteToLocalRef[r]}
    BY DEF IInv, DecoderOK, TablesOK, Register, RegisterSample, RegisterType, DecoderRefRegister
  <1>3. RefMapInv'
    BY <1>2 DEF RefMapInv
  <1>4. BodyInv'
    BY <1>1 DEF BodyInv, current
  <1> QED
    BY <1>1, <1>3, <1>4 DEF PassesNoSample

\* So does every step of decoder_run, but for the call with a sample.
LEMMA DecodeKeepsRefs ==
    ASSUME IInv, RefMapInv, BodyInv, UNCHANGED encoderVars, ReadFails \/ DecodeStep
    PROVE  /\ RefMapInv' /\ BodyInv'
           /\ \/ PassesNoSample
              \/ CallHandler /\ readerError = 0 /\ current.tag >= LABCOMM_USER
  <1> USE DEF Continue, Stop, Exit
  <1>0. /\ wire' = wire /\ wire \in Seq(Packets) /\ Len(wire) \in Nat /\ pos \in Nat
        /\ readerError \in {0, 1} /\ delivered \in Seq(Deliveries)
    BY DEF encoderVars, IInv, NotesOK, DecoderOK, PlaceOK, CallsOK
  <1>1. ASSUME UNCHANGED remoteToLocalRef PROVE RefMapInv'
    BY <1>1 DEF RefMapInv
  <1>2. ASSUME pc' # "call" PROVE BodyInv'
    BY <1>2 DEF BodyInv
  <1>3. CASE ReadFails
    BY <1>1, <1>2, <1>3 DEF ReadFails, decoderTables, PassesNoSample
  <1>4. CASE DecodeVersion
    <2>1. ~IsSample(current) /\ pos < Len(wire)
      BY <1>4 DEF DecodeVersion, Reading, IsSample, LABCOMM_VERSION, LABCOMM_USER
    <2> QED
      BY <1>1, <1>2, <1>4, <2>1 DEF DecodeVersion, decoderTables, PassesNoSample
  <1>5. CASE RefuseUnversioned
    BY <1>1, <1>2, <1>5 DEF RefuseUnversioned, decoderTables, PassesNoSample
  <1>6. CASE DecodeSampleDef
    <2>1. ~IsSample(current) /\ pos < Len(wire)
      BY <1>6 DEF DecodeSampleDef, Accepted, Reading, IsSample, LABCOMM_SAMPLE_DEF, LABCOMM_USER
    <2>2. /\ UNCHANGED <<delivered, remoteToLocalRef>> /\ pos' \in {pos, pos + 1} /\ pc' # "call"
      BY <1>6 DEF DecodeSampleDef
    <2> QED
      BY <1>1, <1>2, <2>1, <2>2 DEF PassesNoSample
  <1>7. CASE DecodeSampleRef
    <2> DEFINE same == Matching(localRef, current)
    <2>1. ~IsSample(current) /\ pos < Len(wire) /\ current.tag = LABCOMM_SAMPLE_REF
      BY <1>7 DEF DecodeSampleRef, Accepted, Reading, IsSample, LABCOMM_SAMPLE_REF, LABCOMM_USER
    <2>2. /\ UNCHANGED delivered /\ pos' \in {pos, pos + 1} /\ pc' # "call"
      BY <1>7 DEF DecodeSampleRef
    <2>3. current.index \in EncoderIndices /\ current.key = EncoderKey(current.index)
      BY <2>1, CurrentFacts
    <2>4. RefMapInv'
      <3>1. CASE same = {}
        BY <1>1, <1>7, <3>1 DEF DecodeSampleRef
      <3>2. CASE same # {}
        <4> DEFINE first == Min(same)
        <4>1. same \subseteq DecoderIndices /\ same \in SUBSET Nat
          BY TagFacts DEF Matching, IInv, DecoderOK, TablesOK
        <4>2. first \in same
          BY <3>2, <4>1, MinFacts
        <4>3. DecoderKey(first) = EncoderKey(current.index)
          BY <2>3, <4>2 DEF Matching
        <4>4. remoteToLocalRef' = [remoteToLocalRef EXCEPT ![current.index] = first]
          BY <1>7, <3>2 DEF DecodeSampleRef
        <4> HIDE DEF first
        <4>5. \A r \in Refs :
                remoteToLocalRef'[r] = IF r = current.index THEN first ELSE remoteToLocalRef[r]
          BY <2>3, <4>4 DEF IInv, DecoderOK, TablesOK
        <4> QED
          BY <2>3, <4>3, <4>5 DEF RefMapInv
      <3> QED
        BY <3>1, <3>2
    <2> QED
      BY <1>2, <2>1, <2>2, <2>4 DEF PassesNoSample
  <1>8. CASE SkipPacket
    <2>1. ~IsSample(current) /\ pos < Len(wire)
      <3>1. current.tag < LABCOMM_USER /\ pos < Len(wire)
        BY <1>8 DEF SkipPacket, Accepted, Reading
      <3>2. current.tag \in Nat
        BY <3>1, CurrentFacts DEF Packets
      <3> QED
        BY <3>1, <3>2 DEF IsSample, LABCOMM_USER
    <2> QED
      BY <1>1, <1>2, <1>8, <2>1 DEF SkipPacket, decoderTables, PassesNoSample
  <1>9. CASE LookupHandler
    BY <1>1, <1>2, <1>9 DEF LookupHandler, decoderTables, PassesNoSample
  <1>10. CASE UnknownSample
    BY <1>1, <1>2, <1>10 DEF UnknownSample, decoderTables, PassesNoSample
  <1>11. CASE DecodeBody
    <2>1. /\ UNCHANGED <<pos, delivered, remoteToLocalRef>> /\ wrap \in Wraps
          /\ current.whole = 1 \/ readerError' = 1
      BY <1>11 DEF DecodeBody, decoderTables, IInv, DecoderOK, CallsOK
    <2>2. wrap'.ref = IF current.tag >= LABCOMM_USER /\ readerError' = 0
                        THEN IndexToSampleRef(current.ref) ELSE 0
      BY <1>11, <2>1 DEF DecodeBody, Wraps
    <2>3. IndexToSampleRef(current.ref) # 0 =>
            /\ current.ref # 0
            /\ DecoderKey(IndexToSampleRef(current.ref)) = EncoderKey(current.ref)
      <3>1. \A i \in EncoderIndices \cup DecoderIndices : i # 0
        BY TagFacts
      <3> QED
        BY <3>1 DEF IndexToSampleRef, RefMapInv, Refs
    <2>4. current' = current
      BY <1>0, <2>1 DEF current
    <2>5. BodyInv'
      BY <2>1, <2>2, <2>3, <2>4 DEF BodyInv
    <2> QED
      BY <1>1, <2>1, <2>5 DEF PassesNoSample
  <1>12. CASE CallHandler
    <2>1. pc' # "call" /\ UNCHANGED remoteToLocalRef
      BY <1>12 DEF CallHandler, decoderTables
    <2>2. CASE readerError = 1
      BY <1>1, <1>2, <1>12, <2>1, <2>2 DEF CallHandler, PassesNoSample
    <2>3. CASE readerError = 0 /\ ~(current.tag >= LABCOMM_USER)
      <3> DEFINE d == [tag |-> current.tag, local |-> wrap.local, handler |-> wrap.handler,
                       ref |-> wrap.ref, val |-> current.val]
      <3>1. delivered' = Append(delivered, d) /\ pos' = pos + 1
        BY <1>12, <2>3 DEF CallHandler
      <3>2. pos < Len(wire) /\ current.tag \in Tags /\ wrap \in Wraps
        BY <1>12 DEF CallHandler, IInv, WrapInv, DecoderOK, CallsOK
      <3>3. current.val \in Nat
        BY <3>2, CurrentFacts DEF Packets
      <3>4. d \in Deliveries
        BY <3>2, <3>3 DEF Deliveries, Wraps
      <3>5. ~IsSample(current) /\ ~(d.tag >= LABCOMM_USER)
        BY <2>3 DEF IsSample
      <3> HIDE DEF d
      <3>6. PassesNoSample
        BY <3>1, <3>2, <3>4, <3>5 DEF PassesNoSample
      <3> QED
        BY <1>1, <1>2, <2>1, <3>6
    <2> QED
      BY <1>0, <1>1, <1>2, <1>12, <2>1, <2>2, <2>3
  <1> QED
    BY <1>3, <1>4, <1>5, <1>6, <1>7, <1>8, <1>9, <1>10, <1>11, <1>12 DEF DecodeStep

\* In the beginning nothing is sent and nothing received.
LEMMA InitRefines == Init => ChannelInv /\ Abstract!Init
  <1> SUFFICES ASSUME Init PROVE ChannelInv /\ Abstract!Init
    OBVIOUS
  <1>1. EncoderInit /\ DecoderInit
    BY DEF Init
  <1>2. wire \in Seq(Packets) /\ Len(wire) \in Nat
    BY <1>1, InitTypes DEF NotesOK
  <1>3. PICK old : old = SentUpTo(wire)
    OBVIOUS
  <1>4. /\ old[0] = <<>>
        /\ \A n \in 1 .. Len(wire) :
             old[n] = IF IsSample(wire[n]) THEN Append(old[n - 1], SentSample(wire[n])) ELSE old[n - 1]
    BY <1>2, <1>3, PacketsFacts DEF Selects
  <1>5. Len(wire) \in {0, 1} /\ \A n \in 1 .. Len(wire) : ~IsSample(wire[n])
    <2>1. PICK v \in PeerVersions :
            \/ writerError = 0 /\ wire = <<VersionPacket(v)>>
            \/ writerError = 1 /\ wire \in {<<>>, <<Truncated(VersionPacket(v))>>}
      BY <1>1 DEF EncoderInit
    <2>2. VersionPacket(v).tag = 1 /\ Truncated(VersionPacket(v)).tag = 1
      BY DEF VersionPacket, Truncated, Packet, LABCOMM_VERSION
    <2>3. Len(wire) \in {0, 1} /\ \A n \in 1 .. Len(wire) : wire[n].tag = 1
      BY <2>1, <2>2
    <2> QED
      BY <2>3 DEF IsSample, LABCOMM_USER
  <1>6. old[Len(wire)] = <<>>
    <2>1. CASE Len(wire) = 0
      BY <1>4, <2>1
    <2>2. CASE Len(wire) = 1
      <3>1. 1 \in 1 .. Len(wire) /\ 1 - 1 = 0
        BY <2>2
      <3>2. old[1] = old[0]
        BY <1>4, <1>5, <3>1
      <3> QED
        BY <1>4, <2>2, <3>2
    <2> QED
      BY <1>5, <2>1, <2>2
  <1>7. Sent = <<>>
    BY <1>3, <1>6, SentIs
  <1>8. Received = <<>>
    <2>1. PICK c : c = ReceivedUpTo(delivered)
      OBVIOUS
    <2>2. delivered = <<>> /\ delivered \in Seq(Deliveries) /\ Len(delivered) = 0
      BY <1>1 DEF DecoderInit
    <2>3. c[0] = <<>>
      <3>1. delivered \in Seq(Deliveries)
        BY <2>2
      <3> QED
        BY <2>1, <3>1, CallsFacts DEF Selects
    <2> QED
      BY <2>1, <2>2, <2>3, SentIs
  <1>9. CountInv
    BY <1>1, <1>3, <1>4, <1>8 DEF CountInv, DecoderInit
  <1>10. RefMapInv /\ BodyInv
    BY <1>1 DEF DecoderInit, RefMapInv, BodyInv
  <1> QED
    BY <1>7, <1>8, <1>9, <1>10 DEF ChannelInv, Abstract!Init

\* Every step of the channel sends a sample, receives one or does neither.
LEMMA NextRefines ==
    IInv /\ ChannelInv /\ [Next]_vars => ChannelInv' /\ [Abstract!Next]_(Abstract!vars)
  <1> SUFFICES ASSUME IInv, ChannelInv, [Next]_vars
               PROVE  ChannelInv' /\ [Abstract!Next]_(Abstract!vars)
    OBVIOUS
  <1>0. NotesOK /\ TodoOK /\ RefMapInv /\ BodyInv /\ CountInv
    BY DEF IInv, ChannelInv
  <1>1. ASSUME SenderStep, UNCHANGED decoderVars
        PROVE  ChannelInv' /\ [Abstract!Next]_(Abstract!vars)
    BY <1>0, <1>1, SenderRefines, SenderKeepsRefs DEF ChannelInv
  <1>2. ASSUME wire' = wire, PassesNoSample, RefMapInv', BodyInv'
        PROVE  ChannelInv' /\ [Abstract!Next]_(Abstract!vars)
    BY <1>0, <1>2, ReceiverStutters DEF ChannelInv
  <1>3. CASE EncoderStep /\ UNCHANGED decoderVars
    BY <1>0, <1>1, <1>3, EncoderSends
  <1>4. CASE (\E tag \in ForeignTags : ForeignPacket(tag)) /\ UNCHANGED decoderVars
    BY <1>0, <1>1, <1>4, ForeignSends
  <1>5. CASE Register /\ UNCHANGED encoderVars
    BY <1>0, <1>2, <1>5, RegisterKeepsRefs DEF encoderVars
  <1>6. CASE (ReadFails \/ DecodeStep) /\ UNCHANGED encoderVars
    <2>1. wire' = wire
      BY <1>6 DEF encoderVars
    <2>2. CASE PassesNoSample
      BY <1>0, <1>2, <1>6, <2>1, <2>2, DecodeKeepsRefs
    <2>3. CASE CallHandler /\ readerError = 0 /\ current.tag >= LABCOMM_USER
      <3>1. CountInv' /\ Abstract!Receive
        BY <2>1, <2>3, CallRefines
      <3>2. RefMapInv' /\ BodyInv'
        BY <1>0, <1>6, DecodeKeepsRefs
      <3> QED
        BY <3>1, <3>2 DEF ChannelInv, Abstract!Next
    <2> QED
      BY <1>0, <1>6, <2>2, <2>3, DecodeKeepsRefs
  <1>7. CASE UNCHANGED vars
    <2>1. UNCHANGED encoderVars /\ UNCHANGED decoderVars
      BY <1>7 DEF vars, encoderVars, decoderVars
    <2> QED
      BY <1>0, <1>1, <2>1, EncoderSends
  <1> QED
    BY <1>3, <1>4, <1>5, <1>6, <1>7 DEF Next

\* Encoder, wire and decoder keep the promise of a typed channel: whatever
\* the numbering, the registrations and the failures, a sample is received in
\* the order it was sent, once, none left out before it, and with its type;
\* a reference in it as the same type or as none.
THEOREM ImplementsTypedChannelCorrect == Spec => ImplementsTypedChannel
  <1>1. Init => ChannelInv /\ Abstract!Init
    BY InitRefines
  <1>2. IInv /\ ChannelInv /\ [Next]_vars => ChannelInv' /\ [Abstract!Next]_(Abstract!vars)
    BY NextRefines
  <1> QED
    BY <1>1, <1>2, ChannelInvariant, PTL DEF Spec, ImplementsTypedChannel, Abstract!Spec
=============================================================================
