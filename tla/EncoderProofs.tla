--------------------------- MODULE EncoderProofs ---------------------------
(***************************************************************************)
(* Proofs about the encoder, for any signatures, threads and bounds.       *)
(*                                                                         *)
(* Every step of the encoder leaves the channel alone or sends one packet, *)
(* and it sends only while the writer is in order; the lemma OneStep says  *)
(* which packet, and what was noted before.  The invariants below follow   *)
(* from that alone, without a look at the single actions.                  *)
(***************************************************************************)
EXTENDS Encoder, TLAPS

\* The encoder's own variables, without what is left of a registration.
NotesOK ==
    /\ wire \in Seq(Packets)
    /\ writerError \in {0, 1}
    /\ registered \in SUBSET SampleDecls
    /\ sampleRef \in SUBSET SampleDecls
    /\ typedefs \in SUBSET EncoderIndices

TodoOK == todo \in [Threads -> Seq(Calls)]

\* Packet p is sent by a writer that was in order.
Sends(p) == writerError = 0 /\ Write(p)

SameNotes == UNCHANGED <<registered, sampleRef, typedefs>>

\* The things an encoder step may do, as far as channel and notes go.
Declares(i) ==
    \/ /\ Sends(Declaration(LABCOMM_SAMPLE_DEF, i)) /\ i \notin registered
       /\ registered' = registered \cup {i} /\ UNCHANGED <<sampleRef, typedefs>>
    \/ /\ Sends(Declaration(LABCOMM_SAMPLE_REF, i)) /\ i \notin sampleRef
       /\ sampleRef' = sampleRef \cup {i} /\ UNCHANGED <<registered, typedefs>>
    \/ /\ Sends(Declaration(LABCOMM_TYPE_DEF, i)) /\ i \notin typedefs
       /\ typedefs' = typedefs \cup {i} /\ UNCHANGED <<registered, sampleRef>>

Notes(i) ==
    /\ UNCHANGED wire
    /\ writerError' \in {writerError, 1}
    /\ registered' \in {registered, registered \cup {i}}
    /\ sampleRef' \in {sampleRef, sampleRef \cup {i}}
    /\ typedefs' \in {typedefs, typedefs \cup {i}}

Binds(i) == SameNotes /\ \E t \in {0, i} : Sends(TypeBinding(i, t))

Samples(i) ==
    /\ SameNotes
    /\ i \in registered
    /\ \E r \in sampleRef \cup {0}, v \in Nat : Sends(SamplePacket(i, r, v))


Step == \/ \E i \in EncoderIndices : Declares(i) \/ Notes(i) \/ Binds(i) \/ Samples(i)
        \/ UNCHANGED <<wire, writerError>> /\ SameNotes

-----------------------------------------------------------------------------
\* Indices are natural numbers from LABCOMM_USER on.
LEMMA IndexFacts ==
    /\ EncoderIndices \subseteq Nat
    /\ \A i \in EncoderIndices : i >= LABCOMM_USER /\ EncoderKey(i) \in Keys
    /\ SentSamples \subseteq EncoderIndices
    /\ SentRefs \subseteq EncoderIndices
  <1>1. EncoderSignatures \in Seq(Keys)
    BY WireAssumption
  <1>2. Len(EncoderSignatures) \in Nat
    BY <1>1
  <1>3. EncoderIndices = 64 .. 64 + Len(EncoderSignatures) - 1
    BY DEF EncoderIndices, LocalIndices, LABCOMM_USER
  <1>4. \A i \in EncoderIndices : i - 64 + 1 \in 1 .. Len(EncoderSignatures)
    BY <1>2, <1>3
  <1>5. \A i \in EncoderIndices : EncoderSignatures[i - 64 + 1] \in Keys
    BY <1>1, <1>4
  <1> QED
    BY <1>2, <1>3, <1>5, EncoderAssumption DEF LABCOMM_USER, EncoderKey, KeyOf

\* The packets an encoder writes are packets.
LEMMA PacketFacts ==
    ASSUME NEW i \in EncoderIndices
    PROVE  /\ \A tag \in Nat : Declaration(tag, i) \in Packets
           /\ \A t \in {0, i} : TypeBinding(i, t) \in Packets
           /\ \A r \in Nat, v \in Nat : SamplePacket(i, r, v) \in Packets
           /\ \A p \in Packets : Truncated(p) \in Packets
  BY IndexFacts DEF Declaration, TypeBinding, SamplePacket, Packet, Packets, Truncated,
                    LABCOMM_TYPE_BINDING

\* What it means for the channel that a packet is sent.
LEMMA SendsFacts ==
    ASSUME wire \in Seq(Packets), NEW p \in Packets, Sends(p)
    PROVE  /\ wire' \in Seq(Packets)
           /\ writerError = 0 /\ writerError' \in {0, 1}
           /\ Len(wire') \in {Len(wire), Len(wire) + 1}
           /\ \A n \in 1 .. Len(wire) : wire'[n] = wire[n]
           /\ Len(wire') = Len(wire) + 1 =>
                wire'[Len(wire) + 1] = IF writerError' = 0 THEN p ELSE Truncated(p)
           /\ writerError' = 0 => Len(wire') = Len(wire) + 1
  <1>1. Truncated(p) \in Packets
    BY DEF Packets, Truncated
  <1>2. writerError = 0 /\ Write(p)
    BY DEF Sends
  <1>3. CASE wire' = Append(wire, p) /\ writerError' = writerError
    BY <1>2, <1>3
  <1>4. CASE writerError' = 1 /\ wire' = wire
    BY <1>2, <1>4
  <1>5. CASE writerError' = 1 /\ wire' = Append(wire, Truncated(p))
    BY <1>1, <1>2, <1>5
  <1> QED
    BY <1>2, <1>3, <1>4, <1>5 DEF Write

\* The next call of a thread's registration is a call.
LEMMA HeadFacts ==
    ASSUME TodoOK, NEW t \in Threads, todo[t] # <<>>
    PROVE  /\ Head(todo[t]).index \in EncoderIndices
           /\ Tail(todo[t]) \in Seq(Calls)
  <1>1. todo[t] \in Seq(Calls)
    BY DEF TodoOK
  <1>2. Head(todo[t]) \in Calls /\ Tail(todo[t]) \in Seq(Calls)
    BY <1>1
  <1>3. \A c \in Calls : c.index \in EncoderIndices
    BY DEF Calls
  <1> QED
    BY <1>2, <1>3

\* Every step of the encoder does one of these things.
LEMMA OneStep ==
    ASSUME NotesOK, TodoOK, [EncoderStep]_encoderVars
    PROVE  Step
  <1> USE DEF Step, Sends
  <1>1. ASSUME NEW t \in Threads, NEW i \in SentSamples, SampleRegister(t, i)
        PROVE  Step
    <2>1. i \in EncoderIndices
      BY IndexFacts
    <2>2. PICK start \in StartOutcomes :
            IF start = "ok" THEN Write(Declaration(LABCOMM_SAMPLE_DEF, i)) ELSE Skip
      BY <1>1 DEF SampleRegister
    <2>3. CASE start = "ok"
      <3>1. writerError = 0
        BY <2>3 DEF StartOutcomes, NotesOK
      <3> QED
        BY <1>1, <2>1, <2>2, <2>3, <3>1 DEF SampleRegister, Declares
    <2>4. CASE start # "ok"
      BY <1>1, <2>1, <2>2, <2>4 DEF SampleRegister, Notes, Skip
    <2> QED
      BY <2>3, <2>4
  <1>2. ASSUME NEW t \in Threads, NEW i \in SentRefs, RefRegister(t, i)
        PROVE  Step
    <2>1. i \in EncoderIndices
      BY IndexFacts
    <2>2. PICK start \in StartOutcomes :
            IF start = "ok" THEN Write(Declaration(LABCOMM_SAMPLE_REF, i)) ELSE Skip
      BY <1>2 DEF RefRegister
    <2>3. CASE start = "ok"
      <3>1. writerError = 0
        BY <2>3 DEF StartOutcomes, NotesOK
      <3> QED
        BY <1>2, <2>1, <2>2, <2>3, <3>1 DEF RefRegister, Declares
    <2>4. CASE start # "ok"
      BY <1>2, <2>1, <2>2, <2>4 DEF RefRegister, Notes, Skip
    <2> QED
      BY <2>3, <2>4
  <1>3. ASSUME NEW t \in Threads, NEW i \in SentSamples, NEW r \in SentRefs \cup {0},
               Encode(t, i, r)
        PROVE  Step
    <2>1. i \in EncoderIndices
      BY IndexFacts
    <2>2. PICK start \in StartOutcomes :
            \/ start = "ok" /\ Write(SamplePacket(i, SampleRefToIndex(r), NextValue))
            \/ start = "already" /\ Skip
            \/ start = "error" /\ writerError' = 1 /\ UNCHANGED wire
      BY <1>3 DEF Encode
    <2>3. SameNotes /\ i \in registered
      BY <1>3 DEF Encode, SameNotes
    <2>4. CASE start = "ok"
      <3>1. writerError = 0
        BY <2>4 DEF StartOutcomes, NotesOK
      <3>2. SampleRefToIndex(r) \in sampleRef \cup {0} /\ NextValue \in Nat
        BY DEF SampleRefToIndex, NextValue, NotesOK
      <3>3. Samples(i)
        BY <2>2, <2>3, <2>4, <3>1, <3>2 DEF Samples
      <3> QED
        BY <2>1, <3>3
    <2>5. CASE start # "ok"
      BY <2>1, <2>2, <2>3, <2>5 DEF Notes, Skip, SameNotes
    <2> QED
      BY <2>4, <2>5
  <1>4. ASSUME NEW t \in Threads, TypeFunction(t)
        PROVE  Step
    BY <1>4 DEF TypeFunction, SameNotes
  <1>5. ASSUME NEW t \in Threads, TypeRegister(t)
        PROVE  Step
    <2> DEFINE i == Head(todo[t]).index
    <2>1. i \in EncoderIndices
      BY <1>5, HeadFacts DEF TypeRegister
    <2>2. /\ typedefs' = typedefs \cup {i}
          /\ UNCHANGED <<registered, sampleRef>>
          /\ \/ i \in typedefs /\ Skip
             \/ /\ i \notin typedefs
                /\ \E start \in StartOutcomes :
                     IF start = "ok" THEN Write(Declaration(LABCOMM_TYPE_DEF, i)) ELSE Skip
      BY <1>5 DEF TypeRegister
    <2> HIDE DEF i
    <2>3. CASE Skip
      BY <2>1, <2>2, <2>3 DEF Skip, Notes
    <2>4. CASE ~Skip
      <3>1. PICK start \in StartOutcomes :
              start = "ok" /\ i \notin typedefs /\ Write(Declaration(LABCOMM_TYPE_DEF, i))
        BY <2>2, <2>4
      <3>2. writerError = 0
        BY <3>1 DEF StartOutcomes, NotesOK
      <3> QED
        BY <2>1, <2>2, <3>1, <3>2 DEF Declares
    <2> QED
      BY <2>3, <2>4
  <1>6. ASSUME NEW t \in Threads, TypeBind(t)
        PROVE  Step
    <2> DEFINE i == Head(todo[t]).index
               b == IF Deps[i] = <<>> THEN LABCOMM_BIND_SELF ELSE i
    <2>1. i \in EncoderIndices
      BY <1>6, HeadFacts DEF TypeBind
    <2>2. SameNotes /\ \E start \in StartOutcomes :
            IF start = "ok" THEN Write(TypeBinding(i, b)) ELSE Skip
      BY <1>6 DEF TypeBind, SameNotes
    <2>3. b \in {0, i}
      BY DEF LABCOMM_BIND_SELF
    <2> HIDE DEF i, b
    <2>4. CASE Skip
      BY <2>2, <2>4 DEF Skip
    <2>5. CASE ~Skip
      <3>1. PICK start \in StartOutcomes : start = "ok" /\ Write(TypeBinding(i, b))
        BY <2>2, <2>5
      <3>2. writerError = 0
        BY <3>1 DEF StartOutcomes, NotesOK
      <3> QED
        BY <2>1, <2>2, <2>3, <3>1, <3>2 DEF Binds
    <2> QED
      BY <2>4, <2>5
  <1>7. CASE UNCHANGED encoderVars
    BY <1>7 DEF encoderVars, SameNotes
  <1> QED
    BY <1>1, <1>2, <1>3, <1>4, <1>5, <1>6, <1>7 DEF EncoderStep

\* Registrations are of samples, and what is left of them is encoder calls.
LEMMA LocalTypes ==
    ASSUME NotesOK, TodoOK, [EncoderStep]_encoderVars
    PROVE  TodoOK' /\ registered' \in SUBSET SampleDecls /\ sampleRef' \in SUBSET SampleDecls
  <1>1. ASSUME NEW t \in Threads, NEW i \in SentSamples, SampleRegister(t, i)
        PROVE  TodoOK' /\ registered' \in SUBSET SampleDecls /\ sampleRef' \in SUBSET SampleDecls
    <2>1. i \in SampleDecls /\ i \in EncoderIndices
      BY EncoderAssumption DEF SampleDecls
    <2>2. <<Call("typeFunction", i), Call("typeBind", i)>> \in Seq(Calls)
      BY <2>1 DEF Call, Calls
    <2>3. TodoOK'
      BY <1>1, <2>2 DEF SampleRegister, TodoOK
    <2> QED
      BY <1>1, <2>1, <2>3 DEF SampleRegister, NotesOK
  <1>2. ASSUME NEW t \in Threads, NEW i \in SentRefs, RefRegister(t, i)
        PROVE  TodoOK' /\ registered' \in SUBSET SampleDecls /\ sampleRef' \in SUBSET SampleDecls
    <2>1. i \in SampleDecls
      BY EncoderAssumption DEF SampleDecls
    <2> QED
      BY <1>2, <2>1 DEF RefRegister, NotesOK, TodoOK
  <1>3. ASSUME NEW t \in Threads, NEW i \in SentSamples, NEW r \in SentRefs \cup {0},
               Encode(t, i, r)
        PROVE  TodoOK' /\ registered' \in SUBSET SampleDecls /\ sampleRef' \in SUBSET SampleDecls
    BY <1>3 DEF Encode, NotesOK, TodoOK
  <1>4. ASSUME NEW t \in Threads, TypeFunction(t)
        PROVE  TodoOK' /\ registered' \in SUBSET SampleDecls /\ sampleRef' \in SUBSET SampleDecls
    <2> DEFINE i     == Head(todo[t]).index
               own   == IF i \in SampleDecls /\ Deps[i] = <<>>
                          THEN <<>> ELSE <<Call("typeRegister", i)>>
               calls == [n \in DOMAIN Deps[i] |-> Call("typeFunction", Deps[i][n])]
    <2>1. i \in EncoderIndices /\ Tail(todo[t]) \in Seq(Calls)
      BY <1>4, HeadFacts DEF TypeFunction
    <2>2. Deps[i] \in Seq(EncoderIndices)
      BY <2>1, EncoderAssumption
    <2>3. todo' = [todo EXCEPT ![t] = calls \o own \o Tail(todo[t])]
      BY <1>4 DEF TypeFunction
    <2> HIDE DEF i
    <2>4. own \in Seq(Calls)
      <3>1. Call("typeRegister", i) \in Calls
        BY <2>1 DEF Call, Calls
      <3>2. <<>> \in Seq(Calls) /\ <<Call("typeRegister", i)>> \in Seq(Calls)
        BY <3>1
      <3> QED
        BY <3>2
    <2>5. calls \in Seq(Calls)
      <3>1. \A n \in 1 .. Len(Deps[i]) : Call("typeFunction", Deps[i][n]) \in Calls
        BY <2>2 DEF Call, Calls
      <3> QED
        BY <2>2, <3>1
    <2> HIDE DEF own, calls
    <2>6. calls \o own \o Tail(todo[t]) \in Seq(Calls)
      BY <2>1, <2>4, <2>5
    <2> QED
      BY <1>4, <2>3, <2>6 DEF TypeFunction, NotesOK, TodoOK
  <1>5. ASSUME NEW t \in Threads, TypeRegister(t) \/ TypeBind(t)
        PROVE  TodoOK' /\ registered' \in SUBSET SampleDecls /\ sampleRef' \in SUBSET SampleDecls
    <2>1. Tail(todo[t]) \in Seq(Calls)
      BY <1>5, HeadFacts DEF TypeRegister, TypeBind
    <2> QED
      BY <1>5, <2>1 DEF TypeRegister, TypeBind, NotesOK, TodoOK
  <1>6. CASE UNCHANGED encoderVars
    BY <1>6 DEF encoderVars, NotesOK, TodoOK
  <1> QED
    BY <1>1, <1>2, <1>3, <1>4, <1>5, <1>6 DEF EncoderStep

\* The types of the channel and the notes are kept.
LEMMA StepTypes ==
    ASSUME NotesOK, Step, registered' \in SUBSET SampleDecls, sampleRef' \in SUBSET SampleDecls
    PROVE  NotesOK'
  <1> USE IndexFacts, PacketFacts, SendsFacts
  <1>1. ASSUME NEW i \in EncoderIndices, Declares(i)
        PROVE  NotesOK'
    <2>1. PICK tag \in Nat : Sends(Declaration(tag, i))
      BY <1>1 DEF Declares, LABCOMM_SAMPLE_DEF, LABCOMM_SAMPLE_REF, LABCOMM_TYPE_DEF
    <2>2. Declaration(tag, i) \in Packets
      BY <2>1
    <2>3. wire' \in Seq(Packets) /\ writerError' \in {0, 1}
      BY <2>1, <2>2 DEF NotesOK
    <2> QED
      BY <1>1, <2>3 DEF Declares, NotesOK
  <1>2. ASSUME NEW i \in EncoderIndices, Notes(i)
        PROVE  NotesOK'
    BY <1>2 DEF Notes, NotesOK
  <1>3. ASSUME NEW i \in EncoderIndices, Binds(i)
        PROVE  NotesOK'
    <2>1. PICK t \in {0, i} : Sends(TypeBinding(i, t))
      BY <1>3 DEF Binds
    <2>2. wire' \in Seq(Packets) /\ writerError' \in {0, 1}
      BY <2>1 DEF NotesOK
    <2> QED
      BY <1>3, <2>2 DEF Binds, SameNotes, NotesOK
  <1>4. ASSUME NEW i \in EncoderIndices, Samples(i)
        PROVE  NotesOK'
    <2>1. PICK r \in sampleRef \cup {0}, v \in Nat : Sends(SamplePacket(i, r, v))
      BY <1>4 DEF Samples
    <2>2. r \in Nat
      BY DEF NotesOK, SampleDecls
    <2>3. wire' \in Seq(Packets) /\ writerError' \in {0, 1}
      BY <2>1, <2>2 DEF NotesOK
    <2> QED
      BY <1>4, <2>3 DEF Samples, SameNotes, NotesOK
  <1>5. CASE UNCHANGED <<wire, writerError>> /\ SameNotes
    BY <1>5 DEF SameNotes, NotesOK
  <1> QED
    BY <1>1, <1>2, <1>3, <1>4, <1>5 DEF Step

\* The encoder starts well typed.
LEMMA InitTypes == EncoderInit => NotesOK /\ TodoOK
  <1> SUFFICES ASSUME EncoderInit PROVE NotesOK /\ TodoOK
    OBVIOUS
  <1>1. PICK v \in PeerVersions :
          \/ writerError = 0 /\ wire = <<VersionPacket(v)>>
          \/ writerError = 1 /\ wire \in {<<>>, <<Truncated(VersionPacket(v))>>}
    BY DEF EncoderInit
  <1>2. VersionPacket(v) \in Packets /\ Truncated(VersionPacket(v)) \in Packets
    BY EncoderAssumption DEF VersionPacket, Truncated, Packet, Packets, LABCOMM_VERSION
  <1> DEFINE p == VersionPacket(v)
             q == Truncated(VersionPacket(v))
  <1> HIDE DEF p, q
  <1>3. <<>> \in Seq(Packets) /\ <<p>> \in Seq(Packets) /\ <<q>> \in Seq(Packets)
    BY <1>2 DEF p, q
  <1>4. wire \in {<<>>, <<p>>, <<q>>} /\ writerError \in {0, 1}
    BY <1>1 DEF p, q
  <1>5. NotesOK
    BY <1>3, <1>4 DEF EncoderInit, NotesOK
  <1>6. TodoOK
    <2>1. <<>> \in Seq(Calls)
      OBVIOUS
    <2> QED
      BY <2>1 DEF EncoderInit, TodoOK
  <1> QED
    BY <1>5, <1>6

\* In every reachable state the encoder's variables have their types: the
\* registration functions only ever register samples, and what a thread has
\* left to do is always calls of the encoder.
THEOREM EncoderTypeCorrect == EncoderSpec => []EncoderTypeOK
  <1>1. EncoderTypeOK <=> NotesOK /\ TodoOK
    BY DEF EncoderTypeOK, NotesOK, TodoOK
  <1>2. EncoderInit => EncoderTypeOK
    BY <1>1, InitTypes
  <1>3. EncoderTypeOK /\ [EncoderStep]_encoderVars => EncoderTypeOK'
    <2> SUFFICES ASSUME EncoderTypeOK, [EncoderStep]_encoderVars PROVE EncoderTypeOK'
      OBVIOUS
    <2>1. NotesOK /\ TodoOK
      BY <1>1
    <2>2. NotesOK' /\ TodoOK'
      BY <2>1, OneStep, LocalTypes, StepTypes
    <2> QED
      BY <2>2 DEF EncoderTypeOK, NotesOK, TodoOK
  <1> QED
    BY <1>2, <1>3, PTL DEF EncoderSpec

-----------------------------------------------------------------------------
\* What is on the channel was noted before.
Noted ==
    \A n \in 1 .. Len(wire) :
      /\ wire[n].tag = LABCOMM_SAMPLE_DEF => wire[n].index \in registered
      /\ wire[n].tag = LABCOMM_SAMPLE_REF => wire[n].index \in sampleRef
      /\ wire[n].tag = LABCOMM_TYPE_DEF => wire[n].index \in typedefs

\* While the writer is in order every packet is whole.
AllWhole == writerError = 0 => \A n \in 1 .. Len(wire) : wire[n].whole = 1

\* What is sent when a step sends packet p, seen from the packets' fields.
LEMMA SentFields ==
    ASSUME NotesOK, Step
    PROVE  \/ /\ wire' = wire
              /\ writerError' \in {writerError, 1}
              /\ registered \subseteq registered'
              /\ sampleRef \subseteq sampleRef'
              /\ typedefs \subseteq typedefs'
           \/ \E p \in Packets :
              /\ Sends(p)
              /\ p.whole = 1
              /\ registered \subseteq registered'
              /\ sampleRef \subseteq sampleRef'
              /\ typedefs \subseteq typedefs'
              /\ p.tag = LABCOMM_SAMPLE_DEF => p.index \in registered' \ registered
              /\ p.tag = LABCOMM_SAMPLE_REF => p.index \in sampleRef' \ sampleRef
              /\ p.tag = LABCOMM_TYPE_DEF => p.index \in typedefs' \ typedefs
              /\ p.tag >= LABCOMM_USER =>
                   /\ p.tag \in registered
                   /\ p.ref # 0 => p.ref \in sampleRef
  <1> DEFINE Kept == /\ registered \subseteq registered'
                     /\ sampleRef \subseteq sampleRef'
                     /\ typedefs \subseteq typedefs'
  <1> USE DEF LABCOMM_SAMPLE_DEF, LABCOMM_SAMPLE_REF, LABCOMM_TYPE_DEF, LABCOMM_TYPE_BINDING,
              LABCOMM_USER
  <1>1. ASSUME NEW i \in EncoderIndices, Declares(i)
        PROVE  \E p \in Packets :
                 /\ Sends(p) /\ p.whole = 1 /\ Kept
                 /\ p.tag = 2 => p.index \in registered' \ registered
                 /\ p.tag = 3 => p.index \in sampleRef' \ sampleRef
                 /\ p.tag = 4 => p.index \in typedefs' \ typedefs
                 /\ p.tag >= 64 => p.tag \in registered /\ (p.ref # 0 => p.ref \in sampleRef)
    <2>1. \A tag \in Nat : /\ Declaration(tag, i) \in Packets
                           /\ Declaration(tag, i).tag = tag
                           /\ Declaration(tag, i).index = i
                           /\ Declaration(tag, i).whole = 1
      BY PacketFacts DEF Declaration, Packet
    <2>2. Kept
      BY <1>1 DEF Declares
    <2>3. \E tag \in {2, 3, 4} :
            /\ Sends(Declaration(tag, i))
            /\ tag = 2 => i \in registered' \ registered
            /\ tag = 3 => i \in sampleRef' \ sampleRef
            /\ tag = 4 => i \in typedefs' \ typedefs
      BY <1>1 DEF Declares
    <2>4. PICK tag \in {2, 3, 4} :
            /\ Sends(Declaration(tag, i))
            /\ tag = 2 => i \in registered' \ registered
            /\ tag = 3 => i \in sampleRef' \ sampleRef
            /\ tag = 4 => i \in typedefs' \ typedefs
      BY <2>3
    <2> QED
      BY <2>1, <2>2, <2>4
  <1>2. ASSUME NEW i \in EncoderIndices, Binds(i)
        PROVE  \E p \in Packets : Sends(p) /\ p.whole = 1 /\ Kept /\ p.tag = 5
    <2>1. PICK t \in {0, i} : Sends(TypeBinding(i, t))
      BY <1>2 DEF Binds
    <2>2. TypeBinding(i, t) \in Packets
      BY PacketFacts
    <2>3. TypeBinding(i, t).tag = 5 /\ TypeBinding(i, t).whole = 1
      BY DEF TypeBinding, Packet
    <2> QED
      BY <1>2, <2>1, <2>2, <2>3 DEF Binds, SameNotes
  <1>3. ASSUME NEW i \in EncoderIndices, Samples(i)
        PROVE  \E p \in Packets :
                 /\ Sends(p) /\ p.whole = 1 /\ Kept /\ p.tag >= 64
                 /\ p.tag \in registered /\ (p.ref # 0 => p.ref \in sampleRef)
    <2>1. PICK r \in sampleRef \cup {0}, v \in Nat : Sends(SamplePacket(i, r, v))
      BY <1>3 DEF Samples
    <2>2. r \in Nat
      BY IndexFacts DEF NotesOK, SampleDecls
    <2>3. SamplePacket(i, r, v) \in Packets
      BY <2>2, PacketFacts
    <2>4. /\ SamplePacket(i, r, v).tag = i /\ SamplePacket(i, r, v).ref = r
          /\ SamplePacket(i, r, v).whole = 1
      BY DEF SamplePacket, Packet
    <2> QED
      BY <1>3, <2>1, <2>3, <2>4, IndexFacts DEF Samples, SameNotes
  <1>4. ASSUME NEW i \in EncoderIndices, Notes(i)
        PROVE  wire' = wire /\ writerError' \in {writerError, 1} /\ Kept
    BY <1>4 DEF Notes
  <1>5. CASE UNCHANGED <<wire, writerError>> /\ SameNotes
    BY <1>5 DEF SameNotes
  <1>6. CASE \E i \in EncoderIndices : Declares(i) \/ Notes(i) \/ Binds(i) \/ Samples(i)
    BY <1>1, <1>2, <1>3, <1>4, <1>6
  <1> QED
    BY <1>5, <1>6 DEF Step

\* A new packet is at the end, whole if the writer is still in order.
LEMMA NewPacket ==
    ASSUME NotesOK, NEW p \in Packets, Sends(p), p.whole = 1
    PROVE  /\ wire' \in Seq(Packets)
           /\ Len(wire') \in {Len(wire), Len(wire) + 1}
           /\ \A n \in 1 .. Len(wire) : wire'[n] = wire[n]
           /\ Len(wire') = Len(wire) + 1 =>
                /\ wire'[Len(wire) + 1].tag = p.tag
                /\ wire'[Len(wire) + 1].index = p.index
                /\ wire'[Len(wire) + 1].ref = p.ref
                /\ wire'[Len(wire) + 1].whole = 0 => writerError' = 1
                /\ writerError' = 0 => wire'[Len(wire) + 1].whole = 1
           /\ writerError = 0 /\ writerError' \in {0, 1}
           /\ writerError' = 0 => Len(wire') = Len(wire) + 1
  <1>1. /\ Truncated(p).tag = p.tag /\ Truncated(p).index = p.index
        /\ Truncated(p).ref = p.ref /\ Truncated(p).whole = 0
    BY DEF Truncated, Packets
  <1> QED
    BY <1>1, SendsFacts DEF NotesOK

SafeInv == Noted /\ AllWhole /\ DeclaredOnce /\ NothingAfterTruncation

\* Sending packet p keeps the safety invariant if it is no declaration that
\* was noted before.
LEMMA SendSafe ==
    ASSUME NotesOK, SafeInv, NEW p \in Packets,
           Sends(p),
           p.whole = 1,
           registered \subseteq registered',
           sampleRef \subseteq sampleRef',
           typedefs \subseteq typedefs',
           p.tag = LABCOMM_SAMPLE_DEF => p.index \in registered' \ registered,
           p.tag = LABCOMM_SAMPLE_REF => p.index \in sampleRef' \ sampleRef,
           p.tag = LABCOMM_TYPE_DEF => p.index \in typedefs' \ typedefs
    PROVE  SafeInv'
  <1> DEFINE N == Len(wire)
  <1>0. N \in Nat /\ DOMAIN wire = 1 .. N
    BY DEF NotesOK
  <1>1. /\ Len(wire') \in {N, N + 1}
        /\ \A n \in 1 .. N : wire'[n] = wire[n]
        /\ Len(wire') = N + 1 =>
             /\ wire'[N + 1].tag = p.tag
             /\ wire'[N + 1].index = p.index
             /\ wire'[N + 1].whole = 0 => writerError' = 1
             /\ writerError' = 0 => wire'[N + 1].whole = 1
        /\ writerError = 0
        /\ DOMAIN wire' = 1 .. Len(wire')
    BY NewPacket
  <1> HIDE DEF N
  <1>2. \A n \in 1 .. Len(wire') : n \in 1 .. N \/ (n = N + 1 /\ Len(wire') = N + 1)
    <2>1. CASE Len(wire') = N
      BY <2>1
    <2>2. CASE Len(wire') = N + 1
      <3>1. \A n \in 1 .. N + 1 : n \in 1 .. N \/ n = N + 1
        BY <1>0
      <3> QED
        BY <2>2, <3>1
    <2> QED
      BY <1>1, <2>1, <2>2
  <1>3. Noted'
    BY <1>1, <1>2 DEF SafeInv, Noted, N
  <1>w. \A n \in 1 .. N : wire'[n].whole = 1
    BY <1>1 DEF SafeInv, AllWhole, N
  <1>4. AllWhole'
    <2>1. \A n \in 1 .. Len(wire') : writerError' = 0 => wire'[n].whole = 1
      BY <1>1, <1>2, <1>w
    <2> QED
      BY <2>1 DEF AllWhole
  <1>5. NothingAfterTruncation'
    <2>2. ASSUME NEW n \in 1 .. Len(wire'), wire'[n].whole = 0
          PROVE  n = Len(wire') /\ writerError' = 1
      <3>1. n = N + 1 /\ Len(wire') = N + 1
        BY <1>2, <1>w, <2>2
      <3> QED
        BY <1>1, <2>2, <3>1
    <2> QED
      BY <1>1, <2>2 DEF NothingAfterTruncation
  <1>6. DeclaredOnce'
    <2> DEFINE DTags == {LABCOMM_SAMPLE_DEF, LABCOMM_SAMPLE_REF, LABCOMM_TYPE_DEF}
    <2>1. \A n \in 1 .. N : wire[n].tag \in DTags /\ wire[n].tag = p.tag => wire[n].index # p.index
      BY DEF SafeInv, Noted, N
    <2>2. \A m, n \in 1 .. N :
            wire[m].tag \in DTags /\ wire[n].tag = wire[m].tag /\ wire[n].index = wire[m].index
            => m = n
      BY <1>0 DEF SafeInv, DeclaredOnce, N
    <2> HIDE DEF DTags
    <2>3. \A m, n \in 1 .. Len(wire') :
            wire'[m].tag \in DTags /\ wire'[n].tag = wire'[m].tag /\ wire'[n].index = wire'[m].index
            => m = n
      BY <1>1, <1>2, <2>1, <2>2
    <2> QED
      BY <1>1, <2>3 DEF DeclaredOnce, DTags
  <1> QED
    BY <1>3, <1>4, <1>5, <1>6 DEF SafeInv

\* One step of the encoder keeps the safety invariant: what do_sample_register
\* and the other registrations noted stops a second declaration, and a packet
\* cut short sets the writer's error, after which start refuses every packet.
LEMMA StepSafe ==
    ASSUME NotesOK, SafeInv, Step
    PROVE  SafeInv'
  <1>1. CASE /\ wire' = wire
             /\ writerError' \in {writerError, 1}
             /\ registered \subseteq registered'
             /\ sampleRef \subseteq sampleRef'
             /\ typedefs \subseteq typedefs'
    <2>1. Noted' /\ AllWhole'
      BY <1>1 DEF SafeInv, Noted, AllWhole, NotesOK
    <2>2. DeclaredOnce' /\ NothingAfterTruncation'
      BY <1>1 DEF SafeInv, DeclaredOnce, NothingAfterTruncation
    <2> QED
      BY <2>1, <2>2 DEF SafeInv
  <1> QED
    BY <1>1, SendSafe, SentFields

\* labcomm2014_encoder_new leaves at most a version packet on the channel.
LEMMA InitSafe == EncoderInit => SafeInv
  <1> SUFFICES ASSUME EncoderInit PROVE SafeInv
    OBVIOUS
  <1>1. PICK v \in PeerVersions :
          \/ writerError = 0 /\ wire = <<VersionPacket(v)>>
          \/ writerError = 1 /\ wire \in {<<>>, <<Truncated(VersionPacket(v))>>}
    BY DEF EncoderInit
  <1>2. /\ VersionPacket(v).tag = 1 /\ Truncated(VersionPacket(v)).tag = 1
        /\ VersionPacket(v).whole = 1
    BY DEF VersionPacket, Truncated, Packet, LABCOMM_VERSION
  <1>3. /\ Len(wire) \in {0, 1}
        /\ DOMAIN wire = 1 .. Len(wire)
        /\ Len(wire) = 1 => wire[1].tag = 1 /\ (writerError = 0 => wire[1].whole = 1)
        /\ writerError \in {0, 1}
    BY <1>1, <1>2
  <1> QED
    BY <1>3 DEF SafeInv, Noted, AllWhole, DeclaredOnce, NothingAfterTruncation,
                LABCOMM_SAMPLE_DEF, LABCOMM_SAMPLE_REF, LABCOMM_TYPE_DEF

\* The inductive invariant of the encoder, whatever a layered writer answers.
THEOREM EncoderSafe == EncoderSpec => [](NotesOK /\ TodoOK /\ SafeInv)
  <1> DEFINE Inv == NotesOK /\ TodoOK /\ SafeInv
  <1>1. EncoderInit => Inv
    BY InitTypes, InitSafe
  <1>2. Inv /\ [EncoderStep]_encoderVars => Inv'
    BY OneStep, LocalTypes, StepTypes, StepSafe
  <1> QED
    BY <1>1, <1>2, PTL DEF EncoderSpec

\* No declaration is ever sent twice, however many threads register the same
\* samples and typedefs: the tables of labcomm2014_encoder.c note it first.
THEOREM DeclaredOnceCorrect == EncoderSpec => []DeclaredOnce
  <1>1. NotesOK /\ TodoOK /\ SafeInv => DeclaredOnce
    BY DEF SafeInv
  <1> QED
    BY <1>1, EncoderSafe, PTL

\* Nothing follows a packet that write(2) cut short, whatever start answers
\* afterwards: fd_start refuses everything once the writer has an error.
THEOREM NothingAfterTruncationCorrect == EncoderSpec => []NothingAfterTruncation
  <1>1. NotesOK /\ TodoOK /\ SafeInv => NothingAfterTruncation
    BY DEF SafeInv
  <1> QED
    BY <1>1, EncoderSafe, PTL

-----------------------------------------------------------------------------
\* Is the signature declared on the channel?
OnWire(tag, i) ==
    \E m \in 1 .. Len(wire) : wire[m].tag = tag /\ wire[m].index = i /\ wire[m].whole = 1

\* While the writer is in order, what was noted is also on the channel.
NotedIsSent ==
    writerError = 0 =>
      /\ \A i \in registered : OnWire(LABCOMM_SAMPLE_DEF, i)
      /\ \A i \in sampleRef : OnWire(LABCOMM_SAMPLE_REF, i)
      /\ \A i \in typedefs : OnWire(LABCOMM_TYPE_DEF, i)

\* If the writer never skips a packet, a note is made together with the
\* declaration, or the writer is out of order afterwards.
LEMMA NotesAreSent ==
    ASSUME NotesOK, TodoOK, StartResults = {"ok"}, [EncoderStep]_encoderVars,
           writerError = 0, writerError' = 0
    PROVE  \/ SameNotes
           \/ \E i \in EncoderIndices :
                \/ /\ wire' = Append(wire, Declaration(LABCOMM_SAMPLE_DEF, i))
                   /\ registered' = registered \cup {i} /\ UNCHANGED <<sampleRef, typedefs>>
                \/ /\ wire' = Append(wire, Declaration(LABCOMM_SAMPLE_REF, i))
                   /\ sampleRef' = sampleRef \cup {i} /\ UNCHANGED <<registered, typedefs>>
                \/ /\ wire' = Append(wire, Declaration(LABCOMM_TYPE_DEF, i))
                   /\ typedefs' = typedefs \cup {i} /\ UNCHANGED <<registered, sampleRef>>
  <1> USE DEF SameNotes
  <1>1. StartOutcomes = {"ok"}
    BY DEF StartOutcomes
  <1>2. ASSUME NEW t \in Threads, NEW i \in SentSamples, SampleRegister(t, i)
        PROVE  /\ wire' = Append(wire, Declaration(LABCOMM_SAMPLE_DEF, i))
               /\ registered' = registered \cup {i} /\ UNCHANGED <<sampleRef, typedefs>>
    BY <1>1, <1>2 DEF SampleRegister, Write
  <1>3. ASSUME NEW t \in Threads, NEW i \in SentRefs, RefRegister(t, i)
        PROVE  /\ wire' = Append(wire, Declaration(LABCOMM_SAMPLE_REF, i))
               /\ sampleRef' = sampleRef \cup {i} /\ UNCHANGED <<registered, typedefs>>
    BY <1>1, <1>3 DEF RefRegister, Write
  <1>4. ASSUME NEW t \in Threads, NEW i \in SentSamples, NEW r \in SentRefs \cup {0},
               Encode(t, i, r)
        PROVE  SameNotes
    BY <1>4 DEF Encode
  <1>5. ASSUME NEW t \in Threads, TypeFunction(t) \/ TypeBind(t)
        PROVE  SameNotes
    BY <1>5 DEF TypeFunction, TypeBind
  <1>6. ASSUME NEW t \in Threads, TypeRegister(t)
        PROVE  \/ SameNotes
               \/ \E i \in EncoderIndices :
                    /\ wire' = Append(wire, Declaration(LABCOMM_TYPE_DEF, i))
                    /\ typedefs' = typedefs \cup {i} /\ UNCHANGED <<registered, sampleRef>>
    <2> DEFINE i == Head(todo[t]).index
    <2>1. i \in EncoderIndices
      BY <1>6, HeadFacts DEF TypeRegister
    <2>2. CASE i \in typedefs
      BY <1>6, <2>2 DEF TypeRegister
    <2>3. CASE i \notin typedefs
      <3>1. /\ wire' = Append(wire, Declaration(LABCOMM_TYPE_DEF, i))
            /\ typedefs' = typedefs \cup {i} /\ UNCHANGED <<registered, sampleRef>>
        BY <1>1, <1>6, <2>3 DEF TypeRegister, Write
      <3> QED
        BY <2>1, <3>1
    <2> QED
      BY <2>2, <2>3
  <1>7. CASE UNCHANGED encoderVars
    BY <1>7 DEF encoderVars
  <1> QED
    BY <1>2, <1>3, <1>4, <1>5, <1>6, <1>7, IndexFacts DEF EncoderStep

\* The channel only grows.
LEMMA WireGrows ==
    ASSUME NotesOK, Step
    PROVE  /\ Len(wire) \in Nat
           /\ Len(wire') \in {Len(wire), Len(wire) + 1}
           /\ \A n \in 1 .. Len(wire) : wire'[n] = wire[n]
           /\ writerError' = 0 => writerError = 0
  <1>1. CASE wire' = wire /\ writerError' \in {writerError, 1}
    BY <1>1 DEF NotesOK
  <1>2. CASE \E p \in Packets : Sends(p) /\ p.whole = 1
    BY <1>2, NewPacket DEF NotesOK
  <1> QED
    BY <1>1, <1>2, SentFields

\* A declaration stays on the channel, and a new one is there.
LEMMA OnWireFacts ==
    ASSUME NotesOK, Step
    PROVE  /\ \A tag, i : OnWire(tag, i) => OnWire(tag, i)'
           /\ \A tag \in Nat, i \in EncoderIndices :
                wire' = Append(wire, Declaration(tag, i)) => OnWire(tag, i)'
  <1>1. /\ Len(wire) \in Nat
        /\ Len(wire') \in {Len(wire), Len(wire) + 1}
        /\ \A n \in 1 .. Len(wire) : wire'[n] = wire[n]
    BY WireGrows
  <1>2. 1 .. Len(wire) \subseteq 1 .. Len(wire')
    BY <1>1
  <1>3. \A tag, i : OnWire(tag, i) => OnWire(tag, i)'
    BY <1>1, <1>2 DEF OnWire
  <1>4. ASSUME NEW tag \in Nat, NEW i \in EncoderIndices, wire' = Append(wire, Declaration(tag, i))
        PROVE  OnWire(tag, i)'
    <2>1. Len(wire') = Len(wire) + 1 /\ wire'[Len(wire) + 1] = Declaration(tag, i)
      BY <1>4 DEF NotesOK
    <2>2. Declaration(tag, i).tag = tag /\ Declaration(tag, i).index = i /\ Declaration(tag, i).whole = 1
      BY DEF Declaration, Packet
    <2>3. Len(wire) + 1 \in 1 .. Len(wire')
      BY <1>1, <2>1
    <2> QED
      BY <2>1, <2>2, <2>3 DEF OnWire
  <1> QED
    BY <1>3, <1>4

\* With a writer that skips no packet, what a registration noted is on the
\* channel as long as the writer is in order.
LEMMA StepNotedIsSent ==
    ASSUME NotesOK, TodoOK, NotedIsSent, StartResults = {"ok"}, [EncoderStep]_encoderVars
    PROVE  NotedIsSent'
  <1> SUFFICES ASSUME writerError' = 0
               PROVE  /\ \A i \in registered' : OnWire(LABCOMM_SAMPLE_DEF, i)'
                      /\ \A i \in sampleRef' : OnWire(LABCOMM_SAMPLE_REF, i)'
                      /\ \A i \in typedefs' : OnWire(LABCOMM_TYPE_DEF, i)'
    BY DEF NotedIsSent
  <1>1. Step
    BY OneStep
  <1>2. writerError = 0
    BY <1>1, WireGrows
  <1>3. /\ \A i \in registered : OnWire(LABCOMM_SAMPLE_DEF, i)'
        /\ \A i \in sampleRef : OnWire(LABCOMM_SAMPLE_REF, i)'
        /\ \A i \in typedefs : OnWire(LABCOMM_TYPE_DEF, i)'
    BY <1>1, <1>2, OnWireFacts DEF NotedIsSent
  <1>4. \A tag \in {LABCOMM_SAMPLE_DEF, LABCOMM_SAMPLE_REF, LABCOMM_TYPE_DEF},
           i \in EncoderIndices :
             wire' = Append(wire, Declaration(tag, i)) => OnWire(tag, i)'
    BY <1>1, OnWireFacts DEF LABCOMM_SAMPLE_DEF, LABCOMM_SAMPLE_REF, LABCOMM_TYPE_DEF
  <1>5. CASE SameNotes
    BY <1>3, <1>5 DEF SameNotes
  <1>6. ASSUME NEW i \in EncoderIndices,
               \/ /\ wire' = Append(wire, Declaration(LABCOMM_SAMPLE_DEF, i))
                  /\ registered' = registered \cup {i} /\ UNCHANGED <<sampleRef, typedefs>>
               \/ /\ wire' = Append(wire, Declaration(LABCOMM_SAMPLE_REF, i))
                  /\ sampleRef' = sampleRef \cup {i} /\ UNCHANGED <<registered, typedefs>>
               \/ /\ wire' = Append(wire, Declaration(LABCOMM_TYPE_DEF, i))
                  /\ typedefs' = typedefs \cup {i} /\ UNCHANGED <<registered, sampleRef>>
        PROVE  /\ \A j \in registered' : OnWire(LABCOMM_SAMPLE_DEF, j)'
               /\ \A j \in sampleRef' : OnWire(LABCOMM_SAMPLE_REF, j)'
               /\ \A j \in typedefs' : OnWire(LABCOMM_TYPE_DEF, j)'
    BY <1>3, <1>4, <1>6
  <1> QED
    BY <1>2, <1>5, <1>6, NotesAreSent

\* A sample that do_encode sends follows the declarations it relies on, since
\* it is only sent for noted signatures and while the writer is in order.
LEMMA StepSignatures ==
    ASSUME NotesOK, NotedIsSent, SignatureBeforeSamples, Step
    PROVE  SignatureBeforeSamples'
  <1> DEFINE N == Len(wire)
             Before(n, p) ==
               p.tag >= LABCOMM_USER =>
                 /\ \E m \in 1 .. n - 1 : /\ wire[m].tag = LABCOMM_SAMPLE_DEF
                                         /\ wire[m].index = p.tag /\ wire[m].whole = 1
                 /\ p.ref # 0 =>
                      \E m \in 1 .. n - 1 : /\ wire[m].tag = LABCOMM_SAMPLE_REF
                                            /\ wire[m].index = p.ref /\ wire[m].whole = 1
  <1>1. /\ N \in Nat
        /\ Len(wire') \in {N, N + 1}
        /\ \A n \in 1 .. N : wire'[n] = wire[n]
    BY WireGrows
  <1>2. DOMAIN wire = 1 .. N
    BY DEF NotesOK
  <1>3. \A n \in 1 .. N : Before(n, wire[n])
    BY <1>2 DEF SignatureBeforeSamples, Declared
  <1>4. Len(wire') = N + 1 => Before(N + 1, wire'[N + 1])
    <2>1. CASE wire' = wire
      BY <1>1, <2>1
    <2>2. ASSUME NEW p \in Packets, Sends(p), p.whole = 1,
                 p.tag >= LABCOMM_USER =>
                   p.tag \in registered /\ (p.ref # 0 => p.ref \in sampleRef)
          PROVE  Len(wire') = N + 1 => Before(N + 1, wire'[N + 1])
      <3>1. /\ writerError = 0
            /\ Len(wire') = N + 1 => wire'[N + 1].tag = p.tag /\ wire'[N + 1].ref = p.ref
        BY <2>2, NewPacket
      <3>2. N + 1 - 1 = N
        BY <1>1
      <3>3. Before(N + 1, p)
        BY <2>2, <3>1, <3>2 DEF NotedIsSent, OnWire
      <3> QED
        BY <3>1, <3>3
    <2> QED
      BY <2>1, <2>2, SentFields
  <1>5. \A n \in 1 .. Len(wire') : n \in 1 .. N \/ (n = N + 1 /\ Len(wire') = N + 1)
    <2>1. CASE Len(wire') = N
      BY <2>1
    <2>2. CASE Len(wire') = N + 1
      <3>1. \A n \in 1 .. N + 1 : n \in 1 .. N \/ n = N + 1
        BY <1>1
      <3> QED
        BY <2>2, <3>1
    <2> QED
      BY <1>1, <2>1, <2>2
  <1>6. \A n \in 1 .. Len(wire') : Before(n, wire'[n])
    BY <1>1, <1>3, <1>4, <1>5, SMTT(30)
  <1>7. \A n \in 1 .. Len(wire') : \A m \in 1 .. n - 1 : wire'[m] = wire[m]
    BY <1>1
  <1>8. DOMAIN wire' = 1 .. Len(wire')
    <2>1. CASE wire' = wire
      BY <1>2, <2>1
    <2>2. CASE \E p \in Packets : Sends(p) /\ p.whole = 1
      BY <2>2, NewPacket
    <2> QED
      BY <2>1, <2>2, SentFields
  <1> QED
    BY <1>6, <1>7, <1>8 DEF SignatureBeforeSamples, Declared

\* With a writer that skips no packet, the signature of a sample is on the
\* channel before the first sample of that type, and that of a referenced
\* sample before the first reference to it.
THEOREM SignatureBeforeSamplesCorrect ==
    ASSUME StartResults = {"ok"}
    PROVE  EncoderSpec => []SignatureBeforeSamples
  <1> DEFINE Inv == NotesOK /\ TodoOK /\ NotedIsSent /\ SignatureBeforeSamples
  <1>1. EncoderInit => Inv
    <2> SUFFICES ASSUME EncoderInit PROVE NotedIsSent /\ SignatureBeforeSamples
      BY InitTypes
    <2>1. PICK v \in PeerVersions :
            \/ writerError = 0 /\ wire = <<VersionPacket(v)>>
            \/ writerError = 1 /\ wire \in {<<>>, <<Truncated(VersionPacket(v))>>}
      BY DEF EncoderInit
    <2>2. VersionPacket(v).tag = 1 /\ Truncated(VersionPacket(v)).tag = 1
      BY DEF VersionPacket, Truncated, Packet, LABCOMM_VERSION
    <2>3. \A n \in DOMAIN wire : wire[n].tag = 1
      BY <2>1, <2>2
    <2> QED
      BY <2>3 DEF EncoderInit, NotedIsSent, SignatureBeforeSamples, LABCOMM_USER
  <1>2. Inv /\ [EncoderStep]_encoderVars => Inv'
    BY OneStep, LocalTypes, StepTypes, StepNotedIsSent, StepSignatures
  <1>3. Inv => SignatureBeforeSamples
    OBVIOUS
  <1> QED
    BY <1>1, <1>2, <1>3, PTL DEF EncoderSpec

-----------------------------------------------------------------------------
\* The signatures that are declared on the channel.
DeclaredSet(tag) == {i \in EncoderIndices : OnWire(tag, i)}

\* When call k of the list s is made, type i will have been declared: it is
\* one of the types T that are now, or a call before k sees to it.
Ready(s, k, i, T) ==
    \/ i \in T
    \/ \E j \in 1 .. k - 1 : s[j].op \in {"typeFunction", "typeRegister"} /\ s[j].index = i

\* What call k of s relies on is declared or comes first; S and T are the
\* samples and the types that are declared.
CallReady(s, k, S, T) ==
    /\ s[k].op = "typeRegister" =>
         \A d \in DOMAIN Deps[s[k].index] : Ready(s, k, Deps[s[k].index][d], T)
    /\ s[k].op = "typeBind" =>
         /\ s[k].index \in S
         /\ Deps[s[k].index] # <<>> => Ready(s, k, s[k].index, T)

ListReady(s, S, T) == \A k \in 1 .. Len(s) : CallReady(s, k, S, T)

\* The generated registration functions make their calls in an order that works.
OrderInv ==
    writerError = 0 =>
      \A t \in Threads :
        ListReady(todo[t], DeclaredSet(LABCOMM_SAMPLE_DEF), DeclaredSet(LABCOMM_TYPE_DEF))

\* More declarations do no harm.
LEMMA ReadyGrows ==
    ASSUME NEW s, NEW S, NEW T, NEW S2, NEW T2, S \subseteq S2, T \subseteq T2,
           ListReady(s, S, T)
    PROVE  ListReady(s, S2, T2)
  BY DEF ListReady, CallReady, Ready

\* A call that declared its type, or none, can be taken off the list.
LEMMA ReadyTail ==
    ASSUME NEW s \in Seq(Calls), s # <<>>, NEW S, NEW T, ListReady(s, S, T),
           Head(s).op \in {"typeFunction", "typeRegister"} => Head(s).index \in T
    PROVE  ListReady(Tail(s), S, T)
  <1> DEFINE r == Tail(s)
  <1>1. /\ Len(s) \in Nat /\ Len(r) = Len(s) - 1 /\ Len(s) > 0
        /\ \A k \in 1 .. Len(r) : r[k] = s[k + 1]
        /\ s[1] = Head(s)
    OBVIOUS
  <1>2. \A k \in 1 .. Len(r) : k + 1 \in 1 .. Len(s)
    BY <1>1
  <1> HIDE DEF r
  <1>3. ASSUME NEW k \in 1 .. Len(r), NEW i, Ready(s, k + 1, i, T)
        PROVE  Ready(r, k, i, T)
    <2>1. CASE i \in T
      BY <2>1 DEF Ready
    <2>2. ASSUME NEW j \in 1 .. k, s[j].op \in {"typeFunction", "typeRegister"}, s[j].index = i
          PROVE  Ready(r, k, i, T)
      <3>1. CASE j = 1
        BY <1>1, <2>2, <3>1 DEF Ready
      <3>2. CASE j # 1
        <4>1. j - 1 \in 1 .. k - 1 /\ j - 1 \in 1 .. Len(r)
          BY <1>1, <3>2
        <4>2. r[j - 1] = s[j]
          BY <1>1, <4>1
        <4> QED
          BY <2>2, <4>1, <4>2 DEF Ready
      <3> QED
        BY <3>1, <3>2
    <2>3. k + 1 - 1 = k
      BY <1>1
    <2> QED
      BY <1>3, <2>1, <2>2, <2>3 DEF Ready
  <1>4. ASSUME NEW k \in 1 .. Len(r)
        PROVE  CallReady(r, k, S, T)
    BY <1>1, <1>2, <1>3 DEF ListReady, CallReady
  <1> QED
    BY <1>4 DEF ListReady, r

\* The list of a registration that starts.
LEMMA ReadyStart ==
    ASSUME NEW i \in EncoderIndices, NEW S, NEW T, i \in S
    PROVE  ListReady(<<Call("typeFunction", i), Call("typeBind", i)>>, S, T)
  <1> DEFINE s == <<Call("typeFunction", i), Call("typeBind", i)>>
  <1>1. /\ Len(s) = 2
        /\ s[1].op = "typeFunction" /\ s[1].index = i
        /\ s[2].op = "typeBind" /\ s[2].index = i
    BY DEF Call
  <1> HIDE DEF s
  <1>2. Ready(s, 2, i, T)
    <2>1. 1 \in 1 .. 2 - 1
      OBVIOUS
    <2> QED
      BY <1>1, <2>1 DEF Ready
  <1>3. CallReady(s, 1, S, T) /\ CallReady(s, 2, S, T)
    BY <1>1, <1>2 DEF CallReady
  <1>4. \A k \in 1 .. Len(s) : k = 1 \/ k = 2
    BY <1>1
  <1> QED
    BY <1>3, <1>4 DEF ListReady, s

\* The elements of two, and of three, sequences in a row.
LEMMA TwoInARow ==
    ASSUME NEW C, NEW a \in Seq(C), NEW b \in Seq(C)
    PROVE  /\ a \o b \in Seq(C) /\ Len(a \o b) = Len(a) + Len(b)
           /\ \A k \in 1 .. Len(a) : (a \o b)[k] = a[k]
           /\ \A k \in 1 .. Len(b) : (a \o b)[Len(a) + k] = b[k]
  OBVIOUS

LEMMA ThreeInARow ==
    ASSUME NEW C, NEW a \in Seq(C), NEW b \in Seq(C), NEW c \in Seq(C)
    PROVE  /\ a \o b \o c \in Seq(C) /\ Len(a \o b \o c) = Len(a) + Len(b) + Len(c)
           /\ \A k \in 1 .. Len(a) : (a \o b \o c)[k] = a[k]
           /\ \A k \in 1 .. Len(b) : (a \o b \o c)[Len(a) + k] = b[k]
           /\ \A k \in 1 .. Len(c) : (a \o b \o c)[Len(a) + Len(b) + k] = c[k]
  <1> DEFINE ab == a \o b
             abc == ab \o c
  <1>1. Len(a) \in Nat /\ Len(b) \in Nat /\ Len(c) \in Nat
    OBVIOUS
  <1>2. /\ ab \in Seq(C) /\ Len(ab) = Len(a) + Len(b)
        /\ \A k \in 1 .. Len(a) : ab[k] = a[k]
        /\ \A k \in 1 .. Len(b) : ab[Len(a) + k] = b[k]
    BY TwoInARow
  <1> HIDE DEF ab
  <1>3. /\ abc \in Seq(C) /\ Len(abc) = Len(ab) + Len(c)
        /\ \A k \in 1 .. Len(ab) : abc[k] = ab[k]
        /\ \A k \in 1 .. Len(c) : abc[Len(ab) + k] = c[k]
    <2>1. \A x \in Seq(C) :
            /\ x \o c \in Seq(C) /\ Len(x \o c) = Len(x) + Len(c)
            /\ \A k \in 1 .. Len(x) : (x \o c)[k] = x[k]
            /\ \A k \in 1 .. Len(c) : (x \o c)[Len(x) + k] = c[k]
      BY TwoInARow
    <2> QED
      BY <1>2, <2>1, Zenon
  <1> HIDE DEF abc
  <1>4. /\ \A k \in 1 .. Len(a) : k \in 1 .. Len(ab)
        /\ \A k \in 1 .. Len(b) : Len(a) + k \in 1 .. Len(ab)
    BY <1>1, <1>2
  <1>5. /\ abc \in Seq(C) /\ Len(abc) = Len(a) + Len(b) + Len(c)
        /\ \A k \in 1 .. Len(a) : abc[k] = a[k]
        /\ \A k \in 1 .. Len(b) : abc[Len(a) + k] = b[k]
        /\ \A k \in 1 .. Len(c) : abc[Len(a) + Len(b) + k] = c[k]
    BY <1>1, <1>2, <1>3, <1>4
  <1> QED
    BY <1>5, Zenon DEF ab, abc

\* The sequence new is s with its first element replaced by a and b.
IsSpliced(new, a, b, s) ==
    /\ Len(new) = Len(a) + Len(b) + (Len(s) - 1)
    /\ \A k \in 1 .. Len(a) : new[k] = a[k]
    /\ \A k \in 1 .. Len(b) : new[Len(a) + k] = b[k]
    /\ \A k \in 1 .. Len(s) - 1 : new[Len(a) + Len(b) + k] = s[k + 1]

LEMMA Spliced ==
    ASSUME NEW C, NEW a \in Seq(C), NEW b \in Seq(C), NEW s \in Seq(C), s # <<>>
    PROVE  a \o b \o Tail(s) \in Seq(C) /\ IsSpliced(a \o b \o Tail(s), a, b, s)
  <1>1. /\ Tail(s) \in Seq(C) /\ Len(Tail(s)) = Len(s) - 1
        /\ \A k \in 1 .. Len(s) - 1 : Tail(s)[k] = s[k + 1]
    OBVIOUS
  <1>2. \A r \in Seq(C) :
          /\ a \o b \o r \in Seq(C)
          /\ Len(a \o b \o r) = Len(a) + Len(b) + Len(r)
          /\ \A k \in 1 .. Len(a) : (a \o b \o r)[k] = a[k]
          /\ \A k \in 1 .. Len(b) : (a \o b \o r)[Len(a) + k] = b[k]
          /\ \A k \in 1 .. Len(r) : (a \o b \o r)[Len(a) + Len(b) + k] = r[k]
    <2> SUFFICES ASSUME NEW r \in Seq(C)
                 PROVE  /\ a \o b \o r \in Seq(C)
                        /\ Len(a \o b \o r) = Len(a) + Len(b) + Len(r)
                        /\ \A k \in 1 .. Len(a) : (a \o b \o r)[k] = a[k]
                        /\ \A k \in 1 .. Len(b) : (a \o b \o r)[Len(a) + k] = b[k]
                        /\ \A k \in 1 .. Len(r) : (a \o b \o r)[Len(a) + Len(b) + k] = r[k]
      BY Zenon
    <2>1. a \o b \o r \in Seq(C) /\ Len(a \o b \o r) = Len(a) + Len(b) + Len(r)
      BY ThreeInARow
    <2>2. \A k \in 1 .. Len(a) : (a \o b \o r)[k] = a[k]
      BY ThreeInARow
    <2>3. \A k \in 1 .. Len(b) : (a \o b \o r)[Len(a) + k] = b[k]
      BY ThreeInARow
    <2>4. \A k \in 1 .. Len(r) : (a \o b \o r)[Len(a) + Len(b) + k] = r[k]
      BY ThreeInARow
    <2> QED
      BY <2>1, <2>2, <2>3, <2>4, Zenon
  <1> DEFINE t == Tail(s)
             new == a \o b \o t
  <1>3. /\ new \in Seq(C) /\ Len(new) = Len(a) + Len(b) + Len(t)
        /\ \A k \in 1 .. Len(a) : new[k] = a[k]
        /\ \A k \in 1 .. Len(b) : new[Len(a) + k] = b[k]
        /\ \A k \in 1 .. Len(t) : new[Len(a) + Len(b) + k] = t[k]
    BY <1>1, <1>2, Zenon
  <1> HIDE DEF new
  <1>4. /\ new \in Seq(C) /\ Len(new) = Len(a) + Len(b) + (Len(s) - 1)
        /\ \A k \in 1 .. Len(a) : new[k] = a[k]
        /\ \A k \in 1 .. Len(b) : new[Len(a) + k] = b[k]
        /\ \A k \in 1 .. Len(s) - 1 : new[Len(a) + Len(b) + k] = s[k + 1]
    BY <1>1, <1>3
  <1> QED
    BY <1>4, Zenon DEF IsSpliced, new

\* A call of a generated type function is replaced by the calls it makes: the
\* types it is built from come first, and it ends in its own declaration.
LEMMA ReadyFunction ==
    ASSUME NEW s \in Seq(Calls), s # <<>>, NEW S, NEW T, ListReady(s, S, T),
           NEW i \in EncoderIndices, Head(s).op = "typeFunction", Head(s).index = i,
           NEW calls \in Seq(Calls), Len(calls) = Len(Deps[i]),
           \A n \in 1 .. Len(Deps[i]) : calls[n] = Call("typeFunction", Deps[i][n]),
           NEW own \in Seq(Calls), Len(own) \in {0, 1},
           Len(own) = 1 => own[1] = Call("typeRegister", i),
           Len(own) = 0 => i \in SampleDecls /\ Deps[i] = <<>>,
           NEW new, IsSpliced(new, calls, own, s)
    PROVE  ListReady(new, S, T)
  <1> DEFINE D == Len(Deps[i])
             m == D + Len(own)
  <1>1. /\ Deps[i] \in Seq(TypeDecls) /\ D \in Nat /\ DOMAIN Deps[i] = 1 .. D
        /\ TypeDecls \subseteq EncoderIndices
    BY EncoderAssumption
  <1>3. Len(own) = 0 => i \in SampleDecls /\ Deps[i] = <<>>
    OBVIOUS
  <1>4. /\ Len(s) \in Nat /\ Len(s) > 0 /\ s[1] = Head(s)
    OBVIOUS
  <1>5. /\ Len(new) = m + (Len(s) - 1)
        /\ \A k \in 1 .. D : new[k] = calls[k]
        /\ \A k \in 1 .. Len(own) : new[D + k] = own[k]
        /\ \A k \in 1 .. Len(s) - 1 : new[m + k] = s[k + 1]
    BY DEF IsSpliced
  <1> HIDE DEF D
  <1>6. m \in Nat
    BY <1>1, <1>3
  <1>7. \A k \in 1 .. D : new[k].op = "typeFunction" /\ new[k].index = Deps[i][k]
    <2>1. \A n \in 1 .. D : calls[n] = Call("typeFunction", Deps[i][n])
      BY DEF D
    <2>2. \A n \in 1 .. D : new[n] = Call("typeFunction", Deps[i][n])
      BY <1>5, <2>1
    <2>3. \A n \in 1 .. D : /\ Call("typeFunction", Deps[i][n]).op = "typeFunction"
                            /\ Call("typeFunction", Deps[i][n]).index = Deps[i][n]
      BY DEF Call
    <2> QED
      BY <2>2, <2>3
  <1>8. Len(own) = 1 => new[m].op = "typeRegister" /\ new[m].index = i /\ m = D + 1
    BY <1>1, <1>3, <1>5 DEF Call
  <1>9. Len(own) = 0 => m = D
    BY <1>1
  <1> HIDE DEF m
  <1>10. ASSUME NEW k \in 1 .. Len(s) - 1, NEW d, Ready(s, k + 1, d, T),
                d = i => Len(own) = 1
         PROVE  Ready(new, m + k, d, T)
    <2>1. CASE d \in T
      BY <2>1 DEF Ready
    <2>2. ASSUME NEW j \in 1 .. k, s[j].op \in {"typeFunction", "typeRegister"}, s[j].index = d
          PROVE  Ready(new, m + k, d, T)
      <3>1. CASE j = 1
        <4>1. m \in 1 .. m + k - 1
          BY <1>1, <1>4, <1>6, <1>8, <1>10, <2>2, <3>1
        <4>2. new[m].op = "typeRegister" /\ new[m].index = d
          BY <1>4, <1>8, <1>10, <2>2, <3>1
        <4> QED
          BY <1>4, <1>6, <4>1, <4>2 DEF Ready
      <3>2. CASE j # 1
        <4>1. j - 1 \in 1 .. Len(s) - 1 /\ m + (j - 1) \in 1 .. m + k - 1
          BY <1>4, <1>6, <3>2
        <4>2. new[m + (j - 1)] = s[(j - 1) + 1] /\ (j - 1) + 1 = j
          BY <1>5, <4>1
        <4> DEFINE l == m + (j - 1)
        <4>3. l \in 1 .. m + k - 1 /\ new[l] = s[j]
          BY <4>1, <4>2
        <4>4. new[l].op \in {"typeFunction", "typeRegister"} /\ new[l].index = d
          BY <2>2, <4>3
        <4> HIDE DEF l
        <4> QED
          BY <1>4, <1>6, <4>3, <4>4 DEF Ready
      <3> QED
        BY <3>1, <3>2
    <2>3. k + 1 - 1 = k
      BY <1>4
    <2> QED
      BY <1>10, <2>1, <2>2, <2>3 DEF Ready
  <1>11. ASSUME NEW k \in 1 .. Len(s) - 1
         PROVE  CallReady(new, m + k, S, T)
    <2>1. new[m + k] = s[k + 1] /\ k + 1 \in 1 .. Len(s) /\ s[k + 1] \in Calls
      BY <1>4, <1>5
    <2>2. CallReady(s, k + 1, S, T)
      BY <2>1 DEF ListReady
    <2>3. s[k + 1].index \in EncoderIndices
      BY <2>1 DEF Calls
    <2>4. \A d \in DOMAIN Deps[s[k + 1].index] : Deps[s[k + 1].index][d] \in TypeDecls
      BY <2>3, EncoderAssumption
    <2>5. i \in TypeDecls => Len(own) = 1
      BY <1>3 DEF SampleDecls
    <2>6. Deps[i] # <<>> => Len(own) = 1
      BY <1>3
    <2> QED
      BY <1>10, <2>1, <2>2, <2>4, <2>5, <2>6 DEF CallReady
  <1>12. ASSUME Len(own) = 1
         PROVE  CallReady(new, m, S, T)
    <2>1. \A d \in 1 .. D : Ready(new, m, Deps[i][d], T)
      <3>1. \A d \in 1 .. D : d \in 1 .. m - 1
        BY <1>1, <1>8, <1>12
      <3> QED
        BY <1>7, <3>1 DEF Ready
    <2> QED
      BY <1>1, <1>8, <1>12, <2>1 DEF CallReady
  <1>13. \A k \in 1 .. D : CallReady(new, k, S, T)
    BY <1>7 DEF CallReady
  <1>14. ASSUME NEW k \in 1 .. Len(new)
         PROVE  CallReady(new, k, S, T)
    <2>1. \/ k \in 1 .. D
          \/ Len(own) = 1 /\ k = m
          \/ k - m \in 1 .. Len(s) - 1 /\ m + (k - m) = k
      BY <1>1, <1>3, <1>4, <1>5, <1>6, <1>8, <1>9
    <2> QED
      BY <1>11, <1>12, <1>13, <2>1
  <1> QED
    BY <1>14 DEF ListReady

\* Each operation keeps the calls that are left in an order that works, also
\* when another thread declares a type that this one has on its list.
LEMMA StepOrder ==
    ASSUME NotesOK, TodoOK, NotedIsSent', OrderInv, StartResults = {"ok"},
           [EncoderStep]_encoderVars
    PROVE  OrderInv'
  <1> DEFINE S == DeclaredSet(LABCOMM_SAMPLE_DEF)'
             T == DeclaredSet(LABCOMM_TYPE_DEF)'
  <1> SUFFICES ASSUME writerError' = 0, NEW t \in Threads
               PROVE  ListReady(todo'[t], S, T)
    BY DEF OrderInv
  <1>1. Step /\ NotesOK' /\ TodoOK'
    BY OneStep, LocalTypes, StepTypes
  <1>2. writerError = 0
    BY <1>1, WireGrows
  <1>3. /\ DeclaredSet(LABCOMM_SAMPLE_DEF) \subseteq S
        /\ DeclaredSet(LABCOMM_TYPE_DEF) \subseteq T
    BY <1>1, OnWireFacts DEF DeclaredSet
  <1>4. /\ registered' \subseteq S
        /\ typedefs' \subseteq T
    BY <1>1 DEF NotedIsSent, DeclaredSet, NotesOK, SampleDecls
  <1> HIDE DEF S, T
  <1>5. ListReady(todo[t], S, T)
    BY <1>2, <1>3, ReadyGrows DEF OrderInv
  <1>6. CASE todo'[t] = todo[t]
    BY <1>5, <1>6
  <1>7. ASSUME NEW u \in Threads, NEW i \in SentSamples, SampleRegister(u, i)
        PROVE  ListReady(todo'[t], S, T)
    <2>1. i \in EncoderIndices /\ i \in S
      BY <1>4, <1>7, IndexFacts DEF SampleRegister
    <2>2. \/ todo' = todo
          \/ todo' = [todo EXCEPT ![u] = <<Call("typeFunction", i), Call("typeBind", i)>>]
      BY <1>7 DEF SampleRegister
    <2>3. \/ todo'[t] = todo[t]
          \/ todo'[t] = <<Call("typeFunction", i), Call("typeBind", i)>>
      BY <2>2 DEF TodoOK
    <2> QED
      BY <1>5, <2>1, <2>3, ReadyStart
  <1>8. ASSUME NEW u \in Threads, TypeFunction(u), u = t
        PROVE  ListReady(todo'[t], S, T)
    <2> DEFINE s     == todo[t]
               i     == Head(s).index
               own   == IF i \in SampleDecls /\ Deps[i] = <<>>
                          THEN <<>> ELSE <<Call("typeRegister", i)>>
               calls == [n \in DOMAIN Deps[i] |-> Call("typeFunction", Deps[i][n])]
    <2>1. /\ i \in EncoderIndices /\ s \in Seq(Calls) /\ s # <<>>
          /\ Head(s).op = "typeFunction"
      BY <1>8, HeadFacts DEF TypeFunction, TodoOK
    <2>2. Deps[i] \in Seq(EncoderIndices)
      BY <2>1, EncoderAssumption
    <2>3. todo'[t] = calls \o own \o Tail(s)
      BY <1>8 DEF TypeFunction, TodoOK
    <2>4. ListReady(s, S, T)
      BY <1>5
    <2> HIDE DEF s, i
    <2>5. /\ own \in Seq(Calls) /\ Len(own) \in {0, 1}
          /\ Len(own) = 1 => own[1] = Call("typeRegister", i)
          /\ Len(own) = 0 => i \in SampleDecls /\ Deps[i] = <<>>
      <3>1. Call("typeRegister", i) \in Calls
        BY <2>1 DEF Call, Calls
      <3>2. CASE i \in SampleDecls /\ Deps[i] = <<>>
        BY <3>2
      <3>3. CASE ~(i \in SampleDecls /\ Deps[i] = <<>>)
        BY <3>1, <3>3
      <3> QED
        BY <3>2, <3>3
    <2>6. /\ calls \in Seq(Calls) /\ Len(calls) = Len(Deps[i])
          /\ \A n \in 1 .. Len(Deps[i]) : calls[n] = Call("typeFunction", Deps[i][n])
      <3>1. \A n \in 1 .. Len(Deps[i]) : Call("typeFunction", Deps[i][n]) \in Calls
        BY <2>2 DEF Call, Calls
      <3> QED
        BY <2>2, <3>1
    <2> HIDE DEF own, calls
    <2>7. IsSpliced(calls \o own \o Tail(s), calls, own, s)
      BY <2>1, <2>5, <2>6, Spliced
    <2>8. Head(s).index = i
      BY DEF i
    <2> QED
      BY <2>1, <2>3, <2>4, <2>5, <2>6, <2>7, <2>8, ReadyFunction
  <1>9. ASSUME NEW u \in Threads, TypeRegister(u) \/ TypeBind(u), u = t
        PROVE  ListReady(todo'[t], S, T)
    <2>1. todo[t] \in Seq(Calls) /\ todo[t] # <<>>
      BY <1>9 DEF TypeRegister, TypeBind, TodoOK
    <2>2. todo'[t] = Tail(todo[t])
      BY <1>9 DEF TypeRegister, TypeBind, TodoOK
    <2>3. Head(todo[t]).op \in {"typeFunction", "typeRegister"} => Head(todo[t]).index \in T
      BY <1>4, <1>9 DEF TypeRegister, TypeBind
    <2> QED
      BY <1>5, <2>1, <2>2, <2>3, ReadyTail
  <1>10. ASSUME NEW u \in Threads, u # t, TypeFunction(u) \/ TypeRegister(u) \/ TypeBind(u)
         PROVE  todo'[t] = todo[t]
    BY <1>10 DEF TypeFunction, TypeRegister, TypeBind, TodoOK
  <1>11. ASSUME NEW u \in Threads, NEW i \in SentRefs, RefRegister(u, i)
         PROVE  todo'[t] = todo[t]
    BY <1>11 DEF RefRegister
  <1>12. ASSUME NEW u \in Threads, NEW i \in SentSamples, NEW q \in SentRefs \cup {0},
                Encode(u, i, q)
         PROVE  todo'[t] = todo[t]
    BY <1>12 DEF Encode
  <1>13. CASE UNCHANGED encoderVars
    BY <1>6, <1>13 DEF encoderVars
  <1>14. CASE EncoderStep
    BY <1>6, <1>7, <1>8, <1>9, <1>10, <1>11, <1>12, <1>14 DEF EncoderStep
  <1> QED
    BY <1>13, <1>14

\* What the packet that a step sends relies on is on the channel already.
Grounded(p) ==
    /\ p.tag = LABCOMM_TYPE_DEF =>
         \A d \in DOMAIN Deps[p.index] : OnWire(LABCOMM_TYPE_DEF, Deps[p.index][d])
    /\ p.tag = LABCOMM_TYPE_BINDING =>
         /\ OnWire(LABCOMM_SAMPLE_DEF, p.index)
         /\ p.ref # LABCOMM_BIND_SELF => OnWire(LABCOMM_TYPE_DEF, p.ref)

\* A call that is first on its thread's list finds all it relies on declared.
LEMMA HeadReady ==
    ASSUME TodoOK, OrderInv, writerError = 0, NEW t \in Threads, todo[t] # <<>>
    PROVE  LET c == Head(todo[t]) IN
           /\ c.op = "typeRegister" =>
                \A d \in DOMAIN Deps[c.index] : OnWire(LABCOMM_TYPE_DEF, Deps[c.index][d])
           /\ c.op = "typeBind" =>
                /\ OnWire(LABCOMM_SAMPLE_DEF, c.index)
                /\ Deps[c.index] # <<>> => OnWire(LABCOMM_TYPE_DEF, c.index)
  <1> DEFINE s == todo[t]
             S == DeclaredSet(LABCOMM_SAMPLE_DEF)
             T == DeclaredSet(LABCOMM_TYPE_DEF)
  <1>1. 1 \in 1 .. Len(s) /\ s[1] = Head(s)
    BY DEF TodoOK
  <1>2. CallReady(s, 1, S, T)
    BY <1>1 DEF OrderInv, ListReady
  <1>3. \A i : Ready(s, 1, i, T) => i \in T
    BY DEF Ready
  <1>4. /\ \A i \in S : OnWire(LABCOMM_SAMPLE_DEF, i)
        /\ \A i \in T : OnWire(LABCOMM_TYPE_DEF, i)
    BY DEF DeclaredSet
  <1> HIDE DEF s, S, T
  <1>5. /\ s[1].op = "typeRegister" =>
             \A d \in DOMAIN Deps[s[1].index] : OnWire(LABCOMM_TYPE_DEF, Deps[s[1].index][d])
        /\ s[1].op = "typeBind" =>
             /\ OnWire(LABCOMM_SAMPLE_DEF, s[1].index)
             /\ Deps[s[1].index] # <<>> => OnWire(LABCOMM_TYPE_DEF, s[1].index)
    BY <1>2, <1>3, <1>4 DEF CallReady
  <1> QED
    BY <1>1, <1>5 DEF s

\* Every packet is sent on what is declared before.
LEMMA GroundedStep ==
    ASSUME NotesOK, TodoOK, OrderInv, StartResults = {"ok"}, [EncoderStep]_encoderVars
    PROVE  \/ wire' = wire
           \/ \E p \in Packets : Sends(p) /\ p.whole = 1 /\ Grounded(p)
  <1> USE DEF LABCOMM_SAMPLE_DEF, LABCOMM_SAMPLE_REF, LABCOMM_TYPE_DEF, LABCOMM_TYPE_BINDING,
              LABCOMM_BIND_SELF
  <1> DEFINE Goal == \/ wire' = wire
                     \/ \E p \in Packets : Sends(p) /\ p.whole = 1 /\ Grounded(p)
  <1>1. \A start \in StartOutcomes : start = "ok" => writerError = 0
    BY DEF StartOutcomes, NotesOK
  <1>2. ASSUME NEW i \in EncoderIndices, NEW tag \in {2, 3}, Sends(Declaration(tag, i))
        PROVE  Goal
    <2>1. /\ Declaration(tag, i) \in Packets /\ Declaration(tag, i).whole = 1
          /\ Declaration(tag, i).tag = tag
      BY PacketFacts DEF Declaration, Packet
    <2>2. Grounded(Declaration(tag, i))
      BY <2>1 DEF Grounded
    <2> QED
      BY <1>2, <2>1, <2>2
  <1>3. ASSUME NEW t \in Threads, NEW i \in SentSamples, SampleRegister(t, i)
        PROVE  Goal
    <2>1. i \in EncoderIndices
      BY IndexFacts
    <2>2. wire' = wire \/ Sends(Declaration(2, i))
      BY <1>1, <1>3 DEF SampleRegister, Skip, Sends
    <2> QED
      BY <1>2, <2>1, <2>2
  <1>4. ASSUME NEW t \in Threads, NEW i \in SentRefs, RefRegister(t, i)
        PROVE  Goal
    <2>1. i \in EncoderIndices
      BY IndexFacts
    <2>2. wire' = wire \/ Sends(Declaration(3, i))
      BY <1>1, <1>4 DEF RefRegister, Skip, Sends
    <2> QED
      BY <1>2, <2>1, <2>2
  <1>5. ASSUME NEW t \in Threads, NEW i \in SentSamples, NEW r \in SentRefs \cup {0},
               Encode(t, i, r)
        PROVE  Goal
    <2> DEFINE p == SamplePacket(i, SampleRefToIndex(r), NextValue)
    <2>1. i \in EncoderIndices /\ i >= 64
      BY IndexFacts DEF LABCOMM_USER
    <2>2. wire' = wire \/ Sends(p)
      BY <1>1, <1>5 DEF Encode, Skip, Sends
    <2>3. SampleRefToIndex(r) \in Nat /\ NextValue \in Nat
      BY IndexFacts DEF SampleRefToIndex, NextValue, NotesOK, SampleDecls
    <2>4. p \in Packets
      BY <2>1, <2>3, PacketFacts
    <2>5. p.whole = 1 /\ p.tag = i
      BY DEF SamplePacket, Packet
    <2>6. Grounded(p)
      BY <2>1, <2>5 DEF Grounded
    <2> HIDE DEF p
    <2> QED
      BY <2>2, <2>4, <2>5, <2>6
  <1>6. ASSUME NEW t \in Threads, TypeFunction(t)
        PROVE  Goal
    BY <1>6 DEF TypeFunction
  <1>7. ASSUME NEW t \in Threads, TypeRegister(t)
        PROVE  Goal
    <2> DEFINE i == Head(todo[t]).index
               p == Declaration(4, i)
    <2>1. i \in EncoderIndices
      BY <1>7, HeadFacts DEF TypeRegister
    <2>2. wire' = wire \/ Sends(p)
      BY <1>1, <1>7 DEF TypeRegister, Skip, Sends
    <2>3. p \in Packets /\ p.whole = 1 /\ p.tag = 4 /\ p.index = i
      BY <2>1, PacketFacts DEF Declaration, Packet
    <2>4. writerError = 0 => \A d \in DOMAIN Deps[i] : OnWire(LABCOMM_TYPE_DEF, Deps[i][d])
      BY <1>7, HeadReady DEF TypeRegister
    <2> HIDE DEF p, i
    <2>5. Sends(p) => Grounded(p)
      BY <2>3, <2>4 DEF Grounded, Sends
    <2> QED
      BY <2>2, <2>3, <2>5
  <1>8. ASSUME NEW t \in Threads, TypeBind(t)
        PROVE  Goal
    <2> DEFINE i == Head(todo[t]).index
               b == IF Deps[i] = <<>> THEN 0 ELSE i
               p == TypeBinding(i, b)
    <2>1. i \in EncoderIndices
      BY <1>8, HeadFacts DEF TypeBind
    <2>2. wire' = wire \/ Sends(p)
      BY <1>1, <1>8 DEF TypeBind, Skip, Sends
    <2>3. /\ p \in Packets /\ p.whole = 1 /\ p.tag = 5 /\ p.index = i
          /\ p.ref = b
      BY <2>1, PacketFacts DEF TypeBinding, Packet
    <2>4. writerError = 0 =>
            /\ OnWire(LABCOMM_SAMPLE_DEF, i)
            /\ Deps[i] # <<>> => OnWire(LABCOMM_TYPE_DEF, i)
      BY <1>8, HeadReady DEF TypeBind
    <2>5. b # 0 => Deps[i] # <<>> /\ b = i
      OBVIOUS
    <2> HIDE DEF p, i, b
    <2>6. Sends(p) => Grounded(p)
      BY <2>3, <2>4, <2>5 DEF Grounded, Sends
    <2> QED
      BY <2>2, <2>3, <2>6
  <1>9. CASE UNCHANGED encoderVars
    BY <1>9 DEF encoderVars
  <1> QED
    BY <1>3, <1>4, <1>5, <1>6, <1>7, <1>8, <1>9 DEF EncoderStep

\* A step keeps the order of the types on the channel.
LEMMA StepTypesBeforeUse ==
    ASSUME NotesOK, TodoOK, OrderInv, StartResults = {"ok"}, TypesBeforeUse,
           [EncoderStep]_encoderVars
    PROVE  TypesBeforeUse'
  <1> DEFINE N == Len(wire)
             On(n, tag, i) == \E m \in 1 .. n - 1 : /\ wire[m].tag = tag /\ wire[m].index = i
                                                   /\ wire[m].whole = 1
             Before(n, p) ==
               /\ p.tag = LABCOMM_TYPE_DEF =>
                    \A d \in DOMAIN Deps[p.index] : On(n, LABCOMM_TYPE_DEF, Deps[p.index][d])
               /\ p.tag = LABCOMM_TYPE_BINDING =>
                    /\ On(n, LABCOMM_SAMPLE_DEF, p.index)
                    /\ p.ref # LABCOMM_BIND_SELF => On(n, LABCOMM_TYPE_DEF, p.ref)
  <1>1. Step
    BY OneStep
  <1>2. /\ N \in Nat
        /\ Len(wire') \in {N, N + 1}
        /\ \A n \in 1 .. N : wire'[n] = wire[n]
    BY <1>1, WireGrows
  <1>3. DOMAIN wire = 1 .. N
    BY DEF NotesOK
  <1>4. \A n \in 1 .. N : Before(n, wire[n])
    BY <1>3 DEF TypesBeforeUse, Declared
  <1>5. Len(wire') = N + 1 => Before(N + 1, wire'[N + 1])
    <2>1. CASE wire' = wire
      BY <1>2, <2>1
    <2>2. ASSUME NEW p \in Packets, Sends(p), p.whole = 1, Grounded(p)
          PROVE  Len(wire') = N + 1 => Before(N + 1, wire'[N + 1])
      <3>1. Len(wire') = N + 1 =>
              /\ wire'[N + 1].tag = p.tag /\ wire'[N + 1].ref = p.ref
              /\ wire'[N + 1].index = p.index
        BY <2>2, NewPacket
      <3>2. N + 1 - 1 = N
        BY <1>2
      <3>3. Before(N + 1, p)
        BY <2>2, <3>2 DEF Grounded, OnWire
      <3> HIDE DEF N
      <3> QED
        BY <3>1, <3>3
    <2> QED
      BY <2>1, <2>2, GroundedStep
  <1>6. \A n \in 1 .. Len(wire') : n \in 1 .. N \/ (n = N + 1 /\ Len(wire') = N + 1)
    <2>1. CASE Len(wire') = N
      BY <2>1
    <2>2. CASE Len(wire') = N + 1
      <3>1. \A n \in 1 .. N + 1 : n \in 1 .. N \/ n = N + 1
        BY <1>2
      <3> QED
        BY <2>2, <3>1
    <2> QED
      BY <1>2, <2>1, <2>2
  <1>7. \A n \in 1 .. Len(wire') : Before(n, wire'[n])
    <2> HIDE DEF Before, N
    <2> QED
      BY <1>2, <1>4, <1>5, <1>6
  <1>8. \A n \in 1 .. Len(wire') : \A tag, i : On(n, tag, i) => Declared(tag, i, n)'
    <2>1. \A n \in 1 .. Len(wire') : \A m \in 1 .. n - 1 : wire'[m] = wire[m]
      BY <1>2
    <2> QED
      BY <2>1 DEF Declared
  <1>9. DOMAIN wire' = 1 .. Len(wire')
    <2>1. CASE wire' = wire
      BY <1>3, <2>1
    <2>2. CASE \E p \in Packets : Sends(p) /\ p.whole = 1
      BY <2>2, NewPacket
    <2> QED
      BY <2>1, <2>2, GroundedStep
  <1> HIDE DEF On
  <1> QED
    BY <1>7, <1>8, <1>9 DEF TypesBeforeUse

\* With a writer that skips no packet, a type is declared after the types it
\* is built from and bound after it is declared, however the threads that run
\* the generated registration functions are interleaved: each thread has the
\* declarations it relies on earlier on its own list, or finds them made.
THEOREM TypesBeforeUseCorrect ==
    ASSUME StartResults = {"ok"}
    PROVE  EncoderSpec => []TypesBeforeUse
  <1> DEFINE Inv == NotesOK /\ TodoOK /\ NotedIsSent /\ OrderInv /\ TypesBeforeUse
  <1>1. EncoderInit => Inv
    <2> SUFFICES ASSUME EncoderInit PROVE NotedIsSent /\ OrderInv /\ TypesBeforeUse
      BY InitTypes
    <2>1. PICK v \in PeerVersions :
            \/ writerError = 0 /\ wire = <<VersionPacket(v)>>
            \/ writerError = 1 /\ wire \in {<<>>, <<Truncated(VersionPacket(v))>>}
      BY DEF EncoderInit
    <2>2. VersionPacket(v).tag = 1 /\ Truncated(VersionPacket(v)).tag = 1
      BY DEF VersionPacket, Truncated, Packet, LABCOMM_VERSION
    <2>3. \A n \in DOMAIN wire : wire[n].tag = 1
      BY <2>1, <2>2
    <2>4. TypesBeforeUse
      BY <2>3 DEF TypesBeforeUse, LABCOMM_TYPE_DEF, LABCOMM_TYPE_BINDING
    <2>5. OrderInv
      BY DEF EncoderInit, OrderInv, ListReady
    <2> QED
      BY <2>4, <2>5 DEF EncoderInit, NotedIsSent
  <1>2. Inv /\ [EncoderStep]_encoderVars => Inv'
    BY OneStep, LocalTypes, StepTypes, StepNotedIsSent, StepOrder, StepTypesBeforeUse
  <1>3. Inv => TypesBeforeUse
    OBVIOUS
  <1> QED
    BY <1>1, <1>2, <1>3, PTL DEF EncoderSpec
=============================================================================
