----------------------------- MODULE ByteStream -----------------------------
(***************************************************************************)
(* The bytes of a channel: what one encoder call writes into the writer's  *)
(* buffer, how the buffer of the file descriptor writer is flushed and the *)
(* one of the dynamic buffer writer grows, and how the reader, which gets  *)
(* the stream in pieces of any size, finds the packets in it again.        *)
(*                                                                         *)
(* A byte carries Group values in a packed number (128 in the code) and    *)
(* integers are below Word (2^32), so that small ones already take several *)
(* bytes.  One thread at a time is inside the writer lock; which packets   *)
(* are sent is the matter of module Encoder.                               *)
(***************************************************************************)
EXTENDS Integers, SequencesExt, FiniteSetsExt

CONSTANTS
    Group, Word,    \* see above
    MaxGroups,      \* the groups of the largest number, 5 in the code
    BufferSize,     \* BUFFER_SIZE of the descriptor writer, 1000 of the other
    ReadSize,       \* BUFFER_SIZE of the descriptor reader
    Writers,        \* the writers in use: "fd", "dyn"
    WriterLayer,    \* the actions a layer above the writer implements; its
                    \* start action may answer anything and else passes on
    LABCOMM_USER,   \* the first index of a sample, 64 in the code
    Calls,          \* the encoder calls the program may make
    Layout,         \* sample index -> what its generated functions read
    MaxCalls        \* bound on the calls that write

SAMPLE_DEF == 2
TYPE_DEF   == 4

\* b to the power of j.
Power(b, j) ==
    LET p[i \in 0 .. j] == IF i = 0 THEN 1 ELSE b * p[i - 1] IN p[j]

ASSUME ByteAssumption ==
    /\ Group \in Nat \ {0, 1} /\ Word \in Nat /\ Group < Word
    /\ MaxCalls \in Nat /\ ReadSize \in Nat \ {0}
    /\ Writers \subseteq {"fd", "dyn"}
    /\ LABCOMM_USER \in Nat /\ SAMPLE_DEF < LABCOMM_USER
    /\ MaxGroups \in Nat \ {0} /\ Word <= Power(Group, MaxGroups)
    \* A tag and a length always fit into the buffer.
    /\ BufferSize \in Nat /\ 2 * MaxGroups <= BufferSize

VARIABLES
    kind,       \* the writer in use
    w,          \* the struct labcomm2014_writer: data up to pos, count, error
    phase,      \* of the call under the writer lock
    left,       \* what it has still to write, one element for every function
    stream,     \* the bytes that have reached the reader's descriptor
    calls,      \* the calls whose start action succeeded
    faults,     \* what has failed so far
    r,          \* the struct labcomm2014_reader: the bytes from pos to count,
                \* the number of bytes read so far, and error
    rd,         \* what do_decode_one has still to read, and what it has read
    decoded     \* the packets it has read to the end

writerVars == <<kind, w, phase, left, stream, calls, faults>>
readerVars == <<r, rd, decoded>>
vars == <<kind, w, phase, left, stream, calls, faults, r, rd, decoded>>

Byte == 0 .. 2 * Group - 1

-----------------------------------------------------------------------------
(* What a value is on the wire *)

\* The groups of a number: one, and another for every shift that leaves something.
Groups(n) == 1 + Cardinality({j \in 1 .. MaxGroups - 1 : n >= Power(Group, j)})

\* labcomm2014_size_packed32
SizePacked32_Fault(n) == Cardinality({j \in 0 .. MaxGroups - 1 : n >= Power(Group, j)})
SizePacked32(n) == Groups(n)

\* labcomm2014_write_packed32: the most significant group first, all but the
\* last with the top bit set.
Packed32(n) ==
    LET k == Groups(n) IN
    [i \in 1 .. k |-> ((n \div Power(Group, k - i)) % Group) + (IF i < k THEN Group ELSE 0)]

\* LABCOMM_ENCODE: the most significant byte first.
Primitive(n, v) == [i \in 1 .. n |-> (v \div Power(2 * Group, n - i)) % (2 * Group)]

\* The functions an encoder calls.  "raw" is a loop over bytes: those of a
\* signature, which is written out in the encoder, or the elements of a
\* variable array, whose number is the packed one before it.
Number(n)   == [k |-> "packed", n |-> 0, v |-> n]
Prim(n, v)  == [k |-> "prim", n |-> n, v |-> v]
String(s)   == [k |-> "string", n |-> 0, v |-> s]
Raw(s)      == [k |-> "raw", n |-> 0, v |-> s]

Bytes(f) ==
    CASE f.k = "packed" -> Packed32(f.v)
      [] f.k = "prim"   -> Primitive(f.n, f.v)
      [] f.k = "string" -> Packed32(Len(f.v)) \o f.v
      [] f.k = "raw"    -> f.v

\* labcomm2014_size_string and the sizes of the primitives
Size(f) ==
    CASE f.k = "packed" -> SizePacked32(f.v)
      [] f.k = "prim"   -> f.n
      [] f.k = "string" -> SizePacked32(Len(f.v)) + Len(f.v)
      [] f.k = "raw"    -> Len(f.v)

SumSizes(fields) == FoldLeft(LAMBDA n, f : n + Size(f), 0, fields)

\* TODO_encode_intentions and TODO_sizeof_intentions: one intention, whose
\* key is the empty string and whose value is the name.
Intentions(name)     == <<Number(1), Number(0), String(name)>>
SizeIntentions(name) == Size(String(name)) + 2

IsSample(c) == c.tag >= LABCOMM_USER

\* The length in the header of a packet.
Length(c) ==
    IF IsSample(c) THEN SumSizes(c.body)
    ELSE SizePacked32(c.index) + SizeIntentions(c.name) + SizePacked32(Len(c.sig)) + Len(c.sig)

Body(c) ==
    IF IsSample(c) THEN c.body
    ELSE <<Number(c.index)>> \o Intentions(c.name) \o <<Number(Len(c.sig)), Raw(c.sig)>>

Fields(c) == <<Number(c.tag), Number(Length(c))>> \o Body(c)

\* What follows a failed flush.  In a sample everything stops, except after
\* the tag and the length of an array, whose results nobody looks at.  The
\* calls that declare something go on with the next function, and the loop
\* over a signature with the same byte.
AfterError(c, n) ==
    LET f == Fields(c)[n] IN
    CASE IsSample(c) /\ (f.k # "packed" \/ n = 2) -> "stop"
      [] ~IsSample(c) /\ f.k = "raw"              -> "again"
      [] OTHER                                    -> "next"

\* What the functions write, in the order of the calls.
Functions(c) ==
    [n \in DOMAIN Fields(c) |-> [bytes |-> Bytes(Fields(c)[n]), failed |-> AfterError(c, n)]]

\* Samples are made of primitives, strings and variable arrays, names and
\* signatures of bytes.  Numbers and lengths fit into a word, primitives into
\* their bytes.
IsNumber(n) == n \in 0 .. Word - 1
IsString(s) == s \in Seq(Byte) /\ IsNumber(Len(s))

IsField(f) ==
    /\ f.n \in Nat
    /\ \/ f.k = "packed" /\ IsNumber(f.v)
       \/ f.k = "prim" /\ f.v \in 0 .. Power(2 * Group, f.n) - 1
       \/ f.k \in {"string", "raw"} /\ IsString(f.v)

IsBody(s) ==
    /\ Len(s) \in Nat /\ s = [n \in 1 .. Len(s) |-> s[n]]
    /\ \A n \in 1 .. Len(s) :
         /\ IsField(s[n])
         /\ s[n].k = "raw" => n > 1 /\ s[n - 1].k = "packed" /\ s[n - 1].v = Len(s[n].v)

ASSUME CallsAssumption ==
    \A c \in Calls :
      /\ IsNumber(c.tag) /\ IsNumber(Length(c))
      /\ IF IsSample(c) THEN IsBody(c.body)
         ELSE IsNumber(c.index) /\ IsString(c.name) /\ IsString(c.sig)

Encoded(c) == FlattenSeq([n \in DOMAIN Fields(c) |-> Bytes(Fields(c)[n])])

-----------------------------------------------------------------------------
(* The writer *)

\* UNWRAP: an action is that of the topmost layer that has it, 0 (-ENOSYS)
\* if none has.
Unwrap(chain, func) ==
    LET has == {i \in DOMAIN chain : func \in chain[i]} IN
    IF has = {} THEN 0 ELSE CHOOSE i \in has : \A j \in has : i <= j

WriterChain == <<WriterLayer, {"alloc", "free", "start", "end", "flush", "ioctl"}>>

\* fd_alloc and dyn_alloc: an empty buffer.
FdAlloc  == [data |-> <<>>, count |-> BufferSize, error |-> "none"]
DynAlloc == [data |-> <<>>, count |-> BufferSize, error |-> "none"]

\* fd_start answers the error of the writer; dyn_start forgets it, and gives
\* back what the buffer has grown.
FdStart  == w.error = "none" /\ w' = [w EXCEPT !.data = <<>>]
DynStart == w' = DynAlloc

\* fd_flush with k bytes accepted before write() failed or all were written.
\* The error stays, and a flush of nothing is one.  The caller says which
\* fault a failed write is.
FdFlush(k, fault) ==
    /\ stream' = stream \o SubSeq(w.data, 1, k)
    /\ w' = [w EXCEPT !.data = <<>>,
                      !.error = IF k < Len(w.data) THEN "EIO"
                                ELSE IF w.data = <<>> THEN "EINVAL" ELSE @]
    /\ faults' = IF k < Len(w.data) THEN faults \cup {fault} ELSE faults

\* dyn_flush: room for another thousand bytes.
DynFlush ==
    /\ w' = [w EXCEPT !.count = @ + BufferSize, !.error = "none"]
    /\ UNCHANGED <<stream, faults>>

\* Every byte is stored by the same three lines: flush a full buffer, store,
\* advance.  If the flush fails, the packed32, primitive and string functions
\* return, and AfterError says what their caller does.
Full == Len(w.data) >= w.count

\* One function stores its bytes up to where the buffer is full.
StoreUpTo(count) ==
    LET bytes == Head(left).bytes
        n == Min({Len(bytes), count - Len(w.data)})
        more == SubSeq(bytes, n + 1, Len(bytes))
    IN  /\ w' = [w EXCEPT !.data = @ \o SubSeq(bytes, 1, n)]
        /\ left' = (IF more = <<>> THEN <<>> ELSE <<[Head(left) EXCEPT !.bytes = more]>>) \o Tail(left)

\* Something is left to store.
Storing == phase = "writing" /\ left # <<>> /\ Head(left).bytes # <<>>

\* A function without anything to store: the loop over an empty signature.
Return ==
    /\ phase = "writing" /\ left # <<>> /\ Head(left).bytes = <<>>
    /\ left' = Tail(left)
    /\ UNCHANGED <<kind, w, phase, stream, calls, faults>>

Store_Fault ==
    /\ Storing /\ Len(w.data) <= w.count
    /\ StoreUpTo(w.count + 1)
    /\ UNCHANGED <<kind, phase, stream, calls, faults>>
Store ==
    /\ Storing /\ ~Full
    /\ StoreUpTo(w.count)
    /\ UNCHANGED <<kind, phase, stream, calls, faults>>

\* A failed write that the call goes on after makes a hole in the stream.
FlushFault == IF Head(left).failed = "stop" THEN "write" ELSE "hole"

Flush_Fault ==
    /\ Storing /\ Full
    /\ \/ kind = "fd" /\ \E k \in 0 .. Len(w.data) : FdFlush(k, FlushFault)
       \/ kind = "dyn" /\ DynFlush
    /\ UNCHANGED <<kind, left, phase, calls>>
Flush ==
    /\ Storing /\ Full
    /\ \/ kind = "fd" /\ \E k \in 0 .. Len(w.data) : FdFlush(k, FlushFault)
       \/ kind = "dyn" /\ DynFlush
    /\ left' = IF w'.error = "none" \/ Head(left).failed = "again" THEN left
               ELSE IF Head(left).failed = "next" THEN Tail(left) ELSE <<>>
    /\ UNCHANGED <<kind, phase, calls>>

\* A signature is declared once, and before its samples are encoded.
Declared(i) == \E n \in DOMAIN calls : calls[n].tag = SAMPLE_DEF /\ calls[n].index = i
Allowed(c)  == IF IsSample(c) THEN Declared(c.tag) ELSE c \notin ToSet(calls)

\* What the start action answers: that of the layer, if it has one, which
\* passes the call on to the writer's.
StartAnswers == IF Unwrap(WriterChain, "start") = 1 THEN {"ok", "already", "error"} ELSE {"ok"}

Start(c) ==
    /\ phase = "idle" /\ Len(calls) < MaxCalls /\ Allowed(c)
    /\ \/ kind = "fd" /\ FdStart
       \/ kind = "dyn" /\ DynStart
    /\ phase' = "writing"
    /\ left' = Functions(c)
    /\ calls' = Append(calls, c)
    /\ UNCHANGED <<kind, stream, faults>>

\* A start action that fails, or that of a writer with an error: a sample
\* goes to the end action, which flushes nothing; a declaration goes out.
\* A packet that is to be skipped (-EALREADY) changes nothing at all.
Refused_Fault(c) ==
    /\ phase = "idle" /\ Allowed(c) /\ IsSample(c)
    /\ kind = "fd" /\ FdFlush(0, "write")
    /\ UNCHANGED <<kind, phase, left, calls>>
Refused(c) ==
    /\ phase = "idle" /\ Allowed(c) /\ IsSample(c)
    /\ \/ "error" \in StartAnswers
       \/ kind = "fd" /\ w.error # "none"
    /\ w' = IF kind = "fd" THEN [w EXCEPT !.error = "EINVAL"] ELSE w
    /\ faults' = IF w.error = "none" THEN faults \cup {"start"} ELSE faults
    /\ UNCHANGED <<kind, phase, left, stream, calls>>

\* dyn_end does nothing: the buffer is there for the program to take.
DynEnd == phase' = "ended" /\ UNCHANGED <<w, stream, faults>>

\* fd_flush is also the end action of the descriptor writer.
End ==
    /\ phase = "writing" /\ left = <<>>
    /\ \/ /\ kind = "fd"
          /\ \E k \in 0 .. Len(w.data) : FdFlush(k, "write")
          /\ phase' = "idle"
       \/ kind = "dyn" /\ DynEnd
    /\ UNCHANGED <<kind, left, calls>>

\* dyn_ioctl: the program asks for the buffer and the bytes in it, and sends
\* them on.
Take ==
    /\ phase = "ended"
    /\ stream' = stream \o w.data
    /\ phase' = "idle"
    /\ UNCHANGED <<kind, w, left, calls, faults>>

WriterProceeds == (Return \/ Store \/ Flush \/ End \/ Take) /\ UNCHANGED readerVars
CallStep == (\E c \in Calls : Start(c) \/ Refused(c)) /\ UNCHANGED readerVars

-----------------------------------------------------------------------------
(* The reader *)

\* What is read next: a packed number, n bytes, a string, or as many bytes as
\* the number read last.
Item(k, n) == [k |-> k, n |-> n]

\* fd_alloc of the reader
ReaderAlloc == [buf |-> <<>>, at |-> 0, error |-> "none"]

NewPacket == [want |-> <<Item("packed", 0), Item("packed", 0)>>, part |-> <<>>, got |-> <<>>]

\* TODO_read_intentions, with the one intention this encoder sends, whose
\* number is read as a byte; decode_sample_def_or_ref.
IntentionItems == <<Item("bytes", 1), Item("packed", 0), Item("string", 0)>>
DeclarationItems == <<Item("packed", 0)>> \o IntentionItems \o <<Item("packed", 0), Item("counted", 0)>>

\* do_decode_one: a packet that nobody handles is skipped by its length.
BodyItems(tag, length) ==
    CASE tag = SAMPLE_DEF -> DeclarationItems
      [] tag # SAMPLE_DEF /\ tag < LABCOMM_USER -> <<Item("skipped", length)>>
      [] OTHER -> Layout[tag]

\* The functions that encode a sample and those that decode it are generated
\* from one type.
ItemOf(f) ==
    CASE f.k = "prim" -> Item("bytes", f.n)
      [] f.k = "raw"  -> Item("counted", 0)
      [] OTHER        -> Item(f.k, 0)

ASSUME LayoutAssumption ==
    \A c \in Calls : IsSample(c) /\ c.tag \in DOMAIN Layout =>
      Layout[c.tag] = [n \in DOMAIN c.body |-> ItemOf(c.body[n])]

Item1 == Head(rd.want)

Complete ==
    CASE Item1.k \in {"packed", "string"} -> rd.part # <<>> /\ Last(rd.part) < Group
      [] Item1.k = "counted" -> Len(rd.part) = Last(rd.got)
      [] OTHER -> Len(rd.part) = Item1.n

\* labcomm2014_read_packed32 and LABCOMM_DECODE
Unpacked(bytes) ==
    LET n[i \in 0 .. Len(bytes)] ==
          IF i = 0 THEN 0 ELSE (n[i - 1] * Group + (bytes[i] % Group)) % Word
    IN  n[Len(bytes)]
Assembled(bytes) ==
    LET n[i \in 0 .. Len(bytes)] == IF i = 0 THEN 0 ELSE n[i - 1] * (2 * Group) + bytes[i]
    IN  n[Len(bytes)]

Value ==
    CASE Item1.k \in {"packed", "string"} -> Unpacked(rd.part)
      [] Item1.k = "bytes" -> Assembled(rd.part)
      [] OTHER -> rd.part

Running == r.error = "none"

\* labcomm2014_read_string: the characters follow their number.
ReadLength ==
    /\ Running /\ rd.want # <<>> /\ Complete /\ Item1.k = "string"
    /\ rd' = [rd EXCEPT !.want = <<Item("chars", Value)>> \o Tail(@), !.part = <<>>]
    /\ UNCHANGED <<r, decoded>>

ReadField ==
    /\ Running /\ rd.want # <<>> /\ Complete /\ Item1.k # "string"
    /\ LET got == Append(rd.got, Value) IN
         IF Len(got) = 2 /\ got[1] >= LABCOMM_USER /\ got[1] \notin DOMAIN Layout
           THEN r' = [r EXCEPT !.error = "ENOENT"] /\ UNCHANGED rd
           ELSE /\ rd' = [want |-> IF Len(got) = 2 THEN BodyItems(got[1], got[2]) ELSE Tail(rd.want),
                          part |-> <<>>, got |-> got]
                /\ UNCHANGED r
    /\ UNCHANGED decoded

ReadPacket ==
    /\ Running /\ rd.want = <<>>
    /\ decoded' = Append(decoded, rd.got)
    /\ rd' = NewPacket
    /\ UNCHANGED r

ReadByte ==
    /\ Running /\ rd.want # <<>> /\ ~Complete /\ r.buf # <<>>
    /\ rd' = [rd EXCEPT !.part = Append(@, Head(r.buf))]
    /\ r' = [r EXCEPT !.buf = Tail(@)]
    /\ UNCHANGED decoded

\* fd_fill: read() returns some of the bytes that are there; if it fails,
\* what is being read is given up.
Fill_Fault ==
    /\ Running /\ rd.want # <<>> /\ ~Complete /\ r.buf = <<>>
    /\ r.at + ReadSize <= Len(stream)
    /\ r' = [r EXCEPT !.buf = SubSeq(stream, r.at + 1, r.at + ReadSize), !.at = @ + ReadSize]
    /\ UNCHANGED <<rd, decoded>>
Fill ==
    /\ Running /\ rd.want # <<>> /\ ~Complete /\ r.buf = <<>>
    /\ \E n \in 1 .. ReadSize :
         /\ r.at + n <= Len(stream)
         /\ r' = [r EXCEPT !.buf = SubSeq(stream, r.at + 1, r.at + n), !.at = @ + n]
    /\ UNCHANGED <<rd, decoded>>

FillFails ==
    /\ Running /\ rd.want # <<>> /\ ~Complete /\ r.buf = <<>>
    /\ r' = [r EXCEPT !.error = "EPIPE"]
    /\ UNCHANGED <<rd, decoded>>

ReaderProceeds == (ReadLength \/ ReadField \/ ReadPacket \/ ReadByte \/ Fill) /\ UNCHANGED writerVars

-----------------------------------------------------------------------------
Init ==
    /\ kind \in Writers
    /\ w = IF kind = "fd" THEN FdAlloc ELSE DynAlloc
    /\ phase = "idle" /\ left = <<>>
    /\ stream = <<>> /\ calls = <<>> /\ faults = {}
    /\ r = ReaderAlloc
    /\ rd = NewPacket /\ decoded = <<>>

Next ==
    \/ CallStep
    \/ WriterProceeds
    \/ ReaderProceeds
    \/ FillFails /\ UNCHANGED writerVars

Spec == Init /\ [][Next]_vars

\* A call under way and a running decoder go on.
FairSpec == Spec /\ WF_vars(WriterProceeds) /\ WF_vars(ReaderProceeds)

-----------------------------------------------------------------------------
(* Properties *)

\* The buffers hold bytes and are never overrun.
TypeOK ==
    /\ kind \in Writers
    /\ w.data \in Seq(Byte) /\ Len(w.data) <= w.count
    /\ w.count >= BufferSize /\ (kind = "fd" => w.count = BufferSize)
    /\ w.error \in {"none", "EIO", "EINVAL"}
    /\ phase \in {"idle", "writing", "ended"}
    /\ phase # "writing" => left = <<>>
    /\ stream \in Seq(Byte) /\ faults \subseteq {"write", "hole", "start"}
    /\ r.buf \in Seq(Byte) /\ Len(r.buf) <= ReadSize /\ r.at <= Len(stream)
    /\ r.error \in {"none", "EPIPE", "ENOENT"}

\* A write failed in the middle of a call that goes on all the same: in a
\* declaration, or at the length of an array in a sample.  What reaches the
\* descriptor of the call has a hole, or is cut short.
Damaged == "hole" \in faults

\* What reaches the reader is a prefix of the encodings of the calls: any
\* other write that fails cuts a call short and nothing is sent after it.
StreamInOrder ==
    Damaged \/ IsPrefix(stream, FlattenSeq([n \in DOMAIN calls |-> Encoded(calls[n])]))

\* The error of the descriptor writer, which stays, comes from a write that
\* failed or from a start action that failed: never from a flush of an empty
\* buffer at the end of a packet that fills it exactly, nor from a packet
\* that is skipped.
NoSpuriousError == w.error # "none" => faults # {}

\* The values the reader's functions return for the fields of a call.
Skipped(c) == c.tag < LABCOMM_USER /\ c.tag # SAMPLE_DEF

Values(c) ==
    IF Skipped(c) THEN <<c.tag, Length(c), FlattenSeq([n \in DOMAIN Body(c) |-> Bytes(Body(c)[n])])>>
    ELSE [n \in DOMAIN Fields(c) |-> Fields(c)[n].v]

\* However the stream is cut into pieces, the reader finds the packets that
\* were written, one by one, with their values: the lengths, which only count
\* for the packets it skips, agree with what was written.
InStep ==
    \A n \in DOMAIN decoded :
      \/ n <= Len(calls) /\ decoded[n] = Values(calls[n])
      \/ Damaged /\ n >= Len(calls)

\* A packet that was written is decoded, unless reading fails.
EventuallyDecoded ==
    \A n \in 1 .. MaxCalls :
      (Len(calls) >= n /\ phase = "idle" /\ w.error = "none") ~> (Len(decoded) >= n \/ ~Running)
=============================================================================
