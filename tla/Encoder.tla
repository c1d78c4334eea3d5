------------------------------ MODULE Encoder ------------------------------
(***************************************************************************)
(* The LabComm encoder (labcomm2014_encoder.c), the registration functions *)
(* the compiler generates on top of it, and the error handling of the      *)
(* file descriptor writer it writes to.                                    *)
(*                                                                         *)
(* Every operation holds the writer lock from before it looks at the       *)
(* encoder until its packet is written, so an operation is one step.  The  *)
(* generated labcomm2014_encoder_register_X calls several of them, and two *)
(* threads may do so at the same time: todo[t] is what is left of the      *)
(* registration thread t is in.                                            *)
(***************************************************************************)
EXTENDS Wire

CONSTANTS
    Threads,        \* threads that use the encoder
    TypeDecls,      \* the signatures that are typedefs; the others are samples
    Deps,           \* Deps[i]: the typedefs signature i is built from
    SentSamples,    \* the samples the program registers and encodes
    SentRefs,       \* the samples the program registers references to
    StartResults,   \* what the writer's start action may answer while the
                    \* writer is in order: "ok", "already" (-EALREADY), "error"
    PeerVersions,   \* what the version packet may say
    MaxPackets      \* bound on the number of packets

ASSUME EncoderAssumption ==
    /\ TypeDecls \subseteq EncoderIndices
    /\ Deps \in [EncoderIndices -> Seq(TypeDecls)]
    /\ SentSamples \cup SentRefs \subseteq EncoderIndices \ TypeDecls
    /\ StartResults \subseteq {"ok", "already", "error"}
    /\ PeerVersions \subseteq Nat
    /\ MaxPackets \in Nat

VARIABLES
    writerError,    \* 1 once writer->error is set; nothing resets it
    registered,     \* signatures whose sample_register was started
    sampleRef,      \* signatures whose ref_register was started
    typedefs,       \* signatures whose type_register was started
    todo            \* per thread, the encoder calls left of a registration

encoderVars == <<wire, writerError, registered, sampleRef, typedefs, todo>>

SampleDecls == EncoderIndices \ TypeDecls

Calls == [op : {"typeFunction", "typeRegister", "typeBind"}, index : EncoderIndices]
Call(op, i) == [op |-> op, index |-> i]

-----------------------------------------------------------------------------
\* writer_start asks the writer whether the packet is to be sent.  fd_start
\* returns writer->error; a layer on top of it may skip the packet.
StartOutcomes ==
    IF writerError = 0 THEN StartResults ELSE (StartResults \ {"ok"}) \cup {"error"}

\* The packet is written, or write() fails on the way and leaves a part of
\* it, or nothing, on the channel.
Write_Fault(p) ==
    /\ wire' \in {Append(wire, p), Append(wire, Truncated(p))}
    /\ UNCHANGED writerError
Write(p) ==
    \/ wire' = Append(wire, p) /\ UNCHANGED writerError
    \/ writerError' = 1 /\ wire' \in {wire, Append(wire, Truncated(p))}

\* Nothing is written.
Skip == UNCHANGED <<wire, writerError>>

\* A sample reference is sent as the index of a registered signature, or 0.
SampleRefToIndex(r) == IF r \in sampleRef THEN r ELSE 0

\* The value of the next sample: any one that tells the samples apart.
NextValue == Len(wire)

Room == Len(wire) < MaxPackets

-----------------------------------------------------------------------------
\* labcomm2014_encoder_new writes the version packet and ignores the result.
EncoderInit ==
    /\ \E v \in PeerVersions :
         \/ writerError = 0 /\ wire = <<VersionPacket(v)>>
         \/ writerError = 1 /\ wire \in {<<>>, <<Truncated(VersionPacket(v))>>}
    /\ registered = {}
    /\ sampleRef = {}
    /\ typedefs = {}
    /\ todo = [t \in Threads |-> <<>>]

\* A sample is encoded.  Without a registration the answer is -EINVAL.  When
\* start fails the code still calls end, and flushing the empty buffer is an
\* error to fd_flush.
Encode_Fault(t, i, r) ==
    /\ Room
    /\ todo[t] = <<>>
    /\ Write(SamplePacket(i, SampleRefToIndex(r), NextValue))
    /\ UNCHANGED <<registered, sampleRef, typedefs, todo>>
Encode(t, i, r) ==
    /\ Room
    /\ todo[t] = <<>>
    /\ i \in registered
    /\ \E start \in StartOutcomes :
         \/ start = "ok" /\ Write(SamplePacket(i, SampleRefToIndex(r), NextValue))
         \/ start = "already" /\ Skip
         \/ start = "error" /\ writerError' = 1 /\ UNCHANGED wire
    /\ UNCHANGED <<registered, sampleRef, typedefs, todo>>

\* The first call of a generated labcomm2014_encoder_register_X: the flat
\* signature is declared.  A second one answers -EINVAL and changes nothing.
\* If all is well the type declarations and the binding follow.
SampleRegister_Fault(t, i) ==
    /\ Room
    /\ todo[t] = <<>>
    /\ registered' = registered \cup {i}
    /\ Write(Declaration(LABCOMM_SAMPLE_DEF, i))
    /\ UNCHANGED <<sampleRef, typedefs, todo>>
SampleRegister(t, i) ==
    /\ Room
    /\ todo[t] = <<>>
    /\ i \notin registered
    /\ registered' = registered \cup {i}
    /\ \E start \in StartOutcomes :
         /\ IF start = "ok" THEN Write(Declaration(LABCOMM_SAMPLE_DEF, i)) ELSE Skip
         /\ todo' = IF start = "already" \/ (start = "ok" /\ writerError' = 0)
                      THEN [todo EXCEPT ![t] = <<Call("typeFunction", i), Call("typeBind", i)>>]
                      ELSE todo
    /\ UNCHANGED <<sampleRef, typedefs>>

\* References to a signature are announced, once.
RefRegister(t, i) ==
    /\ Room
    /\ todo[t] = <<>>
    /\ i \notin sampleRef
    /\ sampleRef' = sampleRef \cup {i}
    /\ \E start \in StartOutcomes :
         IF start = "ok" THEN Write(Declaration(LABCOMM_SAMPLE_REF, i)) ELSE Skip
    /\ UNCHANGED <<registered, typedefs, todo>>

\* labcomm2014_encoder_type_register_X, generated by the compiler: the same
\* function for each typedef that X depends on, then the type of X itself,
\* unless X is a sample that depends on none.
TypeFunction_Fault(t) ==
    /\ todo[t] # <<>>
    /\ Head(todo[t]).op = "typeFunction"
    /\ LET i == Head(todo[t]).index IN
         todo' = [todo EXCEPT ![t] =
             <<Call("typeRegister", i)>>
               \o [n \in DOMAIN Deps[i] |-> Call("typeFunction", Deps[i][n])] \o Tail(@)]
    /\ UNCHANGED <<wire, writerError, registered, sampleRef, typedefs>>
TypeFunction(t) ==
    /\ todo[t] # <<>>
    /\ Head(todo[t]).op = "typeFunction"
    /\ LET i   == Head(todo[t]).index
           own == IF i \in SampleDecls /\ Deps[i] = <<>>
                    THEN <<>> ELSE <<Call("typeRegister", i)>>
       IN  todo' = [todo EXCEPT ![t] =
               [n \in DOMAIN Deps[i] |-> Call("typeFunction", Deps[i][n])] \o own \o Tail(@)]
    /\ UNCHANGED <<wire, writerError, registered, sampleRef, typedefs>>

\* internal_reg_type: the hierarchical signature is declared, once.  The
\* generated code ignores the result.
TypeRegister_Fault(t) ==
    /\ Room
    /\ todo[t] # <<>>
    /\ Head(todo[t]).op = "typeRegister"
    /\ LET i == Head(todo[t]).index IN
         /\ registered' = registered \cup {i}
         /\ Write(Declaration(LABCOMM_TYPE_DEF, i))
    /\ todo' = [todo EXCEPT ![t] = Tail(@)]
    /\ UNCHANGED <<typedefs, sampleRef>>
TypeRegister(t) ==
    /\ Room
    /\ todo[t] # <<>>
    /\ Head(todo[t]).op = "typeRegister"
    /\ LET i == Head(todo[t]).index IN
         /\ typedefs' = typedefs \cup {i}
         /\ \/ i \in typedefs /\ Skip
            \/ /\ i \notin typedefs
               /\ \E start \in StartOutcomes :
                    IF start = "ok" THEN Write(Declaration(LABCOMM_TYPE_DEF, i)) ELSE Skip
    /\ todo' = [todo EXCEPT ![t] = Tail(@)]
    /\ UNCHANGED <<registered, sampleRef>>

\* do_type_bind: the sample's index is bound to its type's, which is the
\* same number, or to zero if the sample depends on no typedef.
TypeBind(t) ==
    /\ Room
    /\ todo[t] # <<>>
    /\ Head(todo[t]).op = "typeBind"
    /\ LET i == Head(todo[t]).index IN
         \E start \in StartOutcomes :
           IF start = "ok"
             THEN Write(TypeBinding(i, IF Deps[i] = <<>> THEN LABCOMM_BIND_SELF ELSE i))
             ELSE Skip
    /\ todo' = [todo EXCEPT ![t] = Tail(@)]
    /\ UNCHANGED <<registered, sampleRef, typedefs>>

EncoderStep ==
    \E t \in Threads :
      \/ \E i \in SentSamples : SampleRegister(t, i)
      \/ \E i \in SentRefs : RefRegister(t, i)
      \/ \E i \in SentSamples, r \in SentRefs \cup {0} : Encode(t, i, r)
      \/ TypeFunction(t)
      \/ TypeRegister(t)
      \/ TypeBind(t)

EncoderSpec == EncoderInit /\ [][EncoderStep]_encoderVars

-----------------------------------------------------------------------------
(* Properties *)

\* Packet n follows a complete declaration of index i with the given tag.
Declared(tag, i, n) ==
    \E m \in 1 .. n - 1 : wire[m].tag = tag /\ wire[m].index = i /\ wire[m].whole = 1

\* The encoder's variables keep their types.
EncoderTypeOK ==
    /\ wire \in Seq(Packets)
    /\ writerError \in {0, 1}
    /\ registered \in SUBSET SampleDecls
    /\ sampleRef \in SUBSET SampleDecls
    /\ typedefs \in SUBSET EncoderIndices
    /\ todo \in [Threads -> Seq(Calls)]

\* The signature of a sample is on the channel before the first sample of
\* that type, and that of a referenced sample before the first reference:
\* do_encode looks at what the registrations noted before they wrote.
SignatureBeforeSamples ==
    \A n \in DOMAIN wire :
      wire[n].tag >= LABCOMM_USER =>
        /\ Declared(LABCOMM_SAMPLE_DEF, wire[n].tag, n)
        /\ wire[n].ref # 0 => Declared(LABCOMM_SAMPLE_REF, wire[n].ref, n)

\* A type is declared after the types it is built from, and a binding comes
\* after the declarations of both its sample and its type, whichever threads
\* register samples that share a typedef.
TypesBeforeUse ==
    \A n \in DOMAIN wire :
      /\ wire[n].tag = LABCOMM_TYPE_DEF =>
           \A d \in DOMAIN Deps[wire[n].index] :
             Declared(LABCOMM_TYPE_DEF, Deps[wire[n].index][d], n)
      /\ wire[n].tag = LABCOMM_TYPE_BINDING =>
           /\ Declared(LABCOMM_SAMPLE_DEF, wire[n].index, n)
           /\ wire[n].ref # LABCOMM_BIND_SELF => Declared(LABCOMM_TYPE_DEF, wire[n].ref, n)

\* No declaration is sent twice, also not by two threads that register the
\* same sample or share a typedef.
DeclaredOnce ==
    \A m, n \in DOMAIN wire :
      /\ wire[m].tag \in {LABCOMM_SAMPLE_DEF, LABCOMM_SAMPLE_REF, LABCOMM_TYPE_DEF}
      /\ wire[n].tag = wire[m].tag
      /\ wire[n].index = wire[m].index
      => m = n

\* After a packet that could not be written whole there is nothing more on
\* the channel: the receiver never takes the middle of one packet for the
\* start of the next.
NothingAfterTruncation ==
    \A n \in DOMAIN wire : wire[n].whole = 0 => n = Len(wire) /\ writerError = 1
=============================================================================
