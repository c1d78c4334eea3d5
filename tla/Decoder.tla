------------------------------ MODULE Decoder ------------------------------
(***************************************************************************)
(* The LabComm decoder (labcomm2014_decoder.c) reading from a file         *)
(* descriptor, in labcomm2014_decoder_run, while the application registers *)
(* handlers from other threads or from the handlers themselves.            *)
(*                                                                         *)
(* What touches the decoder's tables does so under the data lock and is    *)
(* one step.  Between the steps the lock is free: the handler of a sample  *)
(* is looked up in one step, a sample reference in its body is resolved in *)
(* a second, and the handler is called in a third.                         *)
(***************************************************************************)
EXTENDS Wire, FiniteSetsExt

CONSTANTS
    DecoderSignatures,  \* the keys of the receiving program's signatures
    HandledSamples,     \* the samples the program registers handlers for
    HandledTypes,       \* the kinds of type packets it does so for
    HandledRefs,        \* the samples it registers references to
    Handlers,           \* what the application may register as a handler
    NoHandler           \* the handler of an entry that is not registered

ASSUME DecoderAssumption ==
    /\ DecoderSignatures \in Seq(Keys)
    /\ HandledSamples \cup HandledRefs \subseteq LocalIndices(DecoderSignatures)
    /\ HandledTypes \subseteq {LABCOMM_TYPE_DEF, LABCOMM_TYPE_BINDING}
    /\ NoHandler \notin Handlers

VARIABLES
    pos,                \* how many packets decode_one is done with
    pc,                 \* where decoder_run is
    versionOk,          \* d->version_ok
    readerError,        \* 1 once reader->error is set; nothing resets it
    handler,            \* local[i].handler; an entry is set iff it has one
    remoteIndex,        \* local[i].remote_index
    remoteToLocal,      \* remote_to_local, 0 where nothing is known
    localRef,           \* the indices i with local_ref[i] set
    remoteToLocalRef,   \* remote_to_local_ref, 0 where nothing is known
    wrap,               \* the call_handler_context of the packet being decoded
    delivered           \* history: the handler calls, in order

decoderTables == <<handler, remoteIndex, remoteToLocal, localRef, remoteToLocalRef>>
decoderVars == <<pos, pc, versionOk, readerError, handler, remoteIndex,
                 remoteToLocal, localRef, remoteToLocalRef, wrap, delivered>>

DecoderIndices == LocalIndices(DecoderSignatures)
DecoderKey(i)  == KeyOf(DecoderSignatures, i)

\* The packets that the library decodes itself and offers a handler for.
TypeTags == {LABCOMM_TYPE_DEF, LABCOMM_TYPE_BINDING}

\* The tags and indices the tables are asked about: those the other side
\* uses and, in do_ref_register, those of this side.
Tags == TypeTags \cup EncoderIndices
Refs == EncoderIndices \cup DecoderIndices

NoWrap == [local |-> 0, handler |-> NoHandler, ref |-> 0]
Wraps  == [local : {0} \cup TypeTags \cup DecoderIndices,
           handler : Handlers \cup {NoHandler},
           ref : {0} \cup DecoderIndices]

\* A call of a handler.
Deliveries == [tag : Tags, local : {0} \cup TypeTags \cup DecoderIndices,
               handler : Handlers \cup {NoHandler},
               ref : {0} \cup DecoderIndices, val : Nat]

-----------------------------------------------------------------------------
\* labcomm2014_decoder_new
DecoderInit ==
    /\ pos = 0
    /\ pc = "read"
    /\ versionOk = 0
    /\ readerError = 0
    /\ handler = [i \in TypeTags \cup DecoderIndices |-> NoHandler]
    /\ remoteIndex = [i \in TypeTags \cup DecoderIndices |-> 0]
    /\ remoteToLocal = [r \in Tags |-> 0]
    /\ localRef = {}
    /\ remoteToLocalRef = [r \in Refs |-> 0]
    /\ wrap = NoWrap
    /\ delivered = <<>>

-----------------------------------------------------------------------------
(* The application registers.  *)

\* do_register_sample: a first registration, or a new handler for a sample
\* that has one.  The entry forgets its remote index, the map from remote
\* indices does not.
RegisterSample(i, h) ==
    /\ handler' = [handler EXCEPT ![i] = h]
    /\ remoteIndex' = [remoteIndex EXCEPT ![i] = 0]
    /\ UNCHANGED <<pos, pc, versionOk, readerError, remoteToLocal, localRef,
                   remoteToLocalRef, wrap, delivered>>

\* labcomm2014_decoder_register_labcomm2014_type_def and ..._type_binding
RegisterType(tag, h) ==
    /\ handler' = [handler EXCEPT ![tag] = h]
    /\ remoteIndex' = [remoteIndex EXCEPT ![tag] = tag]
    /\ remoteToLocal' = [remoteToLocal EXCEPT ![tag] = tag]
    /\ UNCHANGED <<pos, pc, versionOk, readerError, localRef, remoteToLocalRef,
                   wrap, delivered>>

\* do_ref_register.  The code clears the entry of the local index in a table
\* that is indexed by remote indices.
DecoderRefRegister(i) ==
    /\ i \notin localRef
    /\ localRef' = localRef \cup {i}
    /\ remoteToLocalRef' = [remoteToLocalRef EXCEPT ![i] = 0]
    /\ UNCHANGED <<pos, pc, versionOk, readerError, handler, remoteIndex, remoteToLocal,
                   wrap, delivered>>

-----------------------------------------------------------------------------
(* decoder_run calls do_decode_one until its result is not positive.  *)

current == wire[pos + 1]

\* decode_one is at the start of a packet, and the packet is there.
Reading == pc = "read" /\ pos < Len(wire)

\* decode_one is done with the packet and answers a positive number ...
Continue_Fault ==
    /\ pos' = pos + 2
    /\ pc' = "read"
    /\ wrap' = NoWrap
Continue ==
    /\ pos' = pos + 1
    /\ pc' = "read"
    /\ wrap' = NoWrap

\* ... or zero or less, which ends decoder_run.
Stop ==
    /\ pc' = "stopped"
    /\ wrap' = NoWrap
    /\ UNCHANGED pos

\* labcomm2014_error_warning ends the process.
Exit ==
    /\ pc' = "exited"
    /\ wrap' = NoWrap
    /\ UNCHANGED pos

\* Which of the registered signatures are declared by packet p?  The loops
\* of handle_sample_def and handle_sample_ref take the first.
Matching_Fault(S, p) == {i \in DecoderIndices : DecoderKey(i) = p.key}
Matching(S, p) == {i \in S : DecoderKey(i) = p.key}
Registered == {i \in DecoderIndices : handler[i] # NoHandler}

\* read() fails, or the channel is closed: fd_fill sets -EPIPE, whatever is
\* being read is given up, and decoder_run ends.
ReadFails ==
    /\ pc = "read"
    /\ readerError' = 1
    /\ Stop
    /\ UNCHANGED <<versionOk, delivered>>
    /\ UNCHANGED decoderTables

\* The version must be the decoder's own.
DecodeVersion_Fault ==
    /\ Reading
    /\ current.whole = 1
    /\ current.tag = LABCOMM_VERSION
    /\ versionOk' = 1
    /\ Continue
    /\ UNCHANGED <<readerError, delivered>>
    /\ UNCHANGED decoderTables
DecodeVersion ==
    /\ Reading
    /\ current.whole = 1
    /\ current.tag = LABCOMM_VERSION
    /\ \/ current.val = CURRENT_VERSION /\ versionOk' = 1 /\ Continue
       \/ current.val # CURRENT_VERSION /\ Stop /\ UNCHANGED versionOk
    /\ UNCHANGED <<readerError, delivered>>
    /\ UNCHANGED decoderTables

\* Any other packet is refused (-ECONNRESET) before a version was accepted.
RefuseUnversioned ==
    /\ Reading
    /\ current.tag # LABCOMM_VERSION
    /\ versionOk = 0
    /\ Stop
    /\ UNCHANGED <<versionOk, readerError, delivered>>
    /\ UNCHANGED decoderTables

Accepted(p) == Reading /\ versionOk = 1 /\ p.whole = 1

\* handle_sample_def: the remote index is mapped to the first registered
\* signature that is the same.  If there is none the process ends; if the
\* table is empty the loop that sets the result is never entered, and an
\* uninitialized value decides what happens.
DecodeSampleDef_Fault ==
    /\ Accepted(current)
    /\ current.tag = LABCOMM_SAMPLE_DEF
    /\ LET same == Matching(Registered, current) IN
         /\ same # {}
         /\ remoteToLocal' = [remoteToLocal EXCEPT ![current.index] = Max(same)]
         /\ remoteIndex' = [i \in DOMAIN remoteIndex |->
                              IF i \in same THEN current.index ELSE remoteIndex[i]]
         /\ Continue
    /\ UNCHANGED <<versionOk, readerError, delivered, handler, localRef, remoteToLocalRef>>
DecodeSampleDef ==
    /\ Accepted(current)
    /\ current.tag = LABCOMM_SAMPLE_DEF
    /\ LET same == Matching(Registered, current) IN
         \/ /\ same # {}
            /\ remoteToLocal' = [remoteToLocal EXCEPT ![current.index] = Min(same)]
            /\ remoteIndex' = [remoteIndex EXCEPT ![Min(same)] = current.index]
            /\ Continue
         \/ /\ same = {}
            /\ UNCHANGED <<remoteToLocal, remoteIndex>>
            /\ \/ Exit
               \/ (\A i \in DOMAIN handler : handler[i] = NoHandler) /\ (Continue \/ Stop)
    /\ UNCHANGED <<versionOk, readerError, delivered, handler, localRef, remoteToLocalRef>>

\* handle_sample_ref: the same for references, but an unknown one is ignored.
DecodeSampleRef ==
    /\ Accepted(current)
    /\ current.tag = LABCOMM_SAMPLE_REF
    /\ LET same == Matching(localRef, current) IN
         \/ /\ same # {}
            /\ remoteToLocalRef' = [remoteToLocalRef EXCEPT ![current.index] = Min(same)]
            /\ Continue
         \/ /\ same = {}
            /\ UNCHANGED remoteToLocalRef
            /\ Continue \/ (localRef = {} /\ Stop)
    /\ UNCHANGED <<versionOk, readerError, delivered, handler, remoteIndex,
                   remoteToLocal, localRef>>

\* reader_skip and decode_pragma: a packet below LABCOMM_USER that the
\* decoder does not know, or that has no handler.  reader_skip answers the
\* tag, so that tag 0 ends decoder_run.
SkipPacket_Fault ==
    /\ Accepted(current)
    /\ current.tag < LABCOMM_USER
    /\ current.tag \notin LABCOMM_VERSION .. LABCOMM_SAMPLE_REF
    /\ current.tag \in TypeTags => remoteToLocal[current.tag] = 0
    /\ Stop
    /\ UNCHANGED <<versionOk, readerError, delivered>>
    /\ UNCHANGED decoderTables
SkipPacket ==
    /\ Accepted(current)
    /\ current.tag < LABCOMM_USER
    /\ current.tag \notin LABCOMM_VERSION .. LABCOMM_SAMPLE_REF
    /\ current.tag \in TypeTags => remoteToLocal[current.tag] = 0
    /\ IF current.tag > 0 THEN Continue ELSE Stop
    /\ UNCHANGED <<versionOk, readerError, delivered>>
    /\ UNCHANGED decoderTables

\* lookup_h: the tag's entry is copied under the data lock.
LookupHandler ==
    /\ Reading
    /\ versionOk = 1
    /\ current.tag \in Tags
    /\ remoteToLocal[current.tag] # 0
    /\ LET local == remoteToLocal[current.tag] IN
         wrap' = [local |-> local, handler |-> handler[local], ref |-> 0]
    /\ pc' = "decode"
    /\ UNCHANGED <<pos, versionOk, readerError, delivered>>
    /\ UNCHANGED decoderTables

\* A sample whose signature was never matched: -ENOENT, and its body is left
\* unread.
UnknownSample ==
    /\ Reading
    /\ versionOk = 1
    /\ current.tag \in EncoderIndices
    /\ remoteToLocal[current.tag] = 0
    /\ Stop
    /\ UNCHANGED <<versionOk, readerError, delivered>>
    /\ UNCHANGED decoderTables

\* do_index_to_sample_ref
IndexToSampleRef(r) ==
    IF r \in Refs /\ remoteToLocalRef[r] \in localRef THEN remoteToLocalRef[r] ELSE 0

\* The generated decode function reads the body, up to where reading fails,
\* and resolves the reference in it.
DecodeBody ==
    /\ pc = "decode"
    /\ \/ current.whole = 1 /\ UNCHANGED readerError
       \/ readerError' = 1
    /\ wrap' = [wrap EXCEPT !.ref = IF current.tag >= LABCOMM_USER /\ readerError' = 0
                                      THEN IndexToSampleRef(current.ref) ELSE 0]
    /\ pc' = "call"
    /\ UNCHANGED <<pos, versionOk, delivered>>
    /\ UNCHANGED decoderTables

\* call_handler calls the handler that was looked up, unless reading failed.
CallHandler_Fault ==
    /\ pc = "call"
    /\ delivered' = Append(delivered,
          [tag |-> current.tag, local |-> wrap.local, handler |-> wrap.handler,
           ref |-> wrap.ref, val |-> current.val])
    /\ IF readerError = 0 THEN Continue ELSE Stop
    /\ UNCHANGED <<versionOk, readerError>>
    /\ UNCHANGED decoderTables
CallHandler ==
    /\ pc = "call"
    /\ \/ /\ readerError = 0
          /\ delivered' = Append(delivered,
                [tag |-> current.tag, local |-> wrap.local, handler |-> wrap.handler,
                 ref |-> wrap.ref, val |-> current.val])
          /\ Continue
       \/ readerError = 1 /\ UNCHANGED delivered /\ Stop
    /\ UNCHANGED <<versionOk, readerError>>
    /\ UNCHANGED decoderTables

Register ==
    \/ \E i \in HandledSamples, h \in Handlers : RegisterSample(i, h)
    \/ \E tag \in HandledTypes, h \in Handlers : RegisterType(tag, h)
    \/ \E i \in HandledRefs : DecoderRefRegister(i)

DecodeStep ==
    \/ DecodeVersion \/ RefuseUnversioned
    \/ DecodeSampleDef \/ DecodeSampleRef \/ SkipPacket
    \/ LookupHandler \/ UnknownSample \/ DecodeBody \/ CallHandler
=============================================================================
