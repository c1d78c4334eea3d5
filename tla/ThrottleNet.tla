---------------------------- MODULE ThrottleNet ----------------------------
(***************************************************************************)
(* The throttle driver (experimental/ThrottleDrv) with the LabComm reader  *)
(* and writer on top of it: a sender cuts each message into numbered       *)
(* Ethernet frames, a receiver joins them and hands the message to         *)
(* decode_one.  Frames may be lost; there is no acknowledgement.  A frame  *)
(* says which fragment it is and how many there are, but not of which      *)
(* message.                                                                *)
(***************************************************************************)
EXTENDS Integers, Sequences, SequencesExt

CONSTANTS
    Senders,
    Chn,            \* the channel id each sender has opened
    RecvChn,        \* the channel id the receiver has opened
    FragSizes,      \* for each sender, the fragment sizes it may ask for
    Lengths,        \* for each sender, the lengths of the packets it encodes
    CharMod,        \* an unsigned char counts modulo CharMod (256 in the code)
    BufferSize,     \* BUFFER_SIZE of reader and writer (2048 in the code)
    MaxPackets,     \* bound: packets per sender
    NetCap          \* bound: frames under way

ASSUME ThrottleAssumption ==
    /\ Chn \in [Senders -> Nat] /\ RecvChn \in Nat
    /\ FragSizes \in [Senders -> SUBSET Nat]
    /\ Lengths \in [Senders -> SUBSET (Nat \ {0})]
    /\ CharMod \in Nat \ {0, 1} /\ BufferSize \in Nat \ {0}
    /\ MaxPackets \in [Senders -> Nat] /\ NetCap \in Nat \ {0}

VARIABLES
    senderUp,       \* per sender: thr_init has succeeded
    chn,            \* per sender: Closed, 0 for a NULL channel, or its frag_size
    spc,            \* per sender: "idle", "flush" (buffer filled), "send"
    packets,        \* per sender: packets begun
    buf,            \* per sender: w->data[0 .. w->pos - 1]
    rest,           \* per sender: what of the packet is not in the buffer yet
    loop,           \* per sender: thr_send's i, total, length and data pointer
    net,            \* frames under way, in order
    rpc,            \* the receiver: "receive" in thr_receive, "handle" in funct
    frag_index, joined,     \* thr_receive's fragment counter and data[]
    p_msg, last_sender,     \* the channel's message and its sender
    unread,         \* r->data[r->pos .. r->count - 1]
    \* history, for the properties only
    sent,           \* messages given to thr_send
    lostBefore,     \* a frame of the receiver's channel was lost since the last one that got through
    consecutive,    \* frames of the channel that arrived since the last loss
    prevLast,       \* the last frame that arrived was its message's last
    streak,         \* whole messages that arrived since the last loss
    handled,        \* the handler was called since the last frame arrived
    mixed,          \* a message was handed over that nobody sent
    misread         \* decode_one read something else than the message handed over

senderVars == <<senderUp, chn, spc, packets, buf, rest, loop, sent>>
receiverVars == <<rpc, frag_index, joined, p_msg, last_sender, unread, consecutive,
                  prevLast, streak, handled, mixed, misread>>
vars == <<senderVars, net, lostBefore, receiverVars>>

-----------------------------------------------------------------------------
(* Bytes and frames.                                                       *)

\* A byte remembers where it comes from; the packet's header tells its length.
Byte(s, n, len, off) == [from |-> s, packet |-> n, len |-> len, off |-> off]

PacketBytes(s, n, len) == [k \in 1 .. len |-> Byte(s, n, len, k - 1)]

\* What lies in memory behind the data.
Stray(s) == Byte(s, 0, 0, 0)

Least(a, b) == IF a <= b THEN a ELSE b
Take(seq, n) == SubSeq(seq, 1, Least(n, Len(seq)))
Drop(seq, n) == SubSeq(seq, n + 1, Len(seq))

\* memcpy of len bytes from offset at of the buffer
Copy(s, bytes, at, len) ==
    [k \in 1 .. len |-> IF at + k <= Len(bytes) THEN bytes[at + k] ELSE Stray(s)]

\* The channel is not opened yet.
Closed == -1

Loop0 == [i |-> 0, tot |-> 0, length |-> 0, data |-> 0]

\* Another protocol's frame: the socket gets all of them (ETH_P_ALL).
OtherFrame == [proto |-> "other", chn |-> RecvChn, num |-> 1, tot |-> 1,
               payload |-> <<Stray("other")>>, src |-> "other", gap |-> FALSE]

-----------------------------------------------------------------------------
(* The sender.                                                             *)

thr_init(s) ==
    /\ ~senderUp[s]
    /\ senderUp' = [senderUp EXCEPT ![s] = TRUE]
    /\ UNCHANGED <<chn, spc, packets, buf, rest, loop, sent, net, lostBefore, receiverVars>>

\* frag_size is an unsigned char: a larger one is cut to it, and zero is refused.
thr_open_chn(s) ==
    /\ senderUp[s] /\ chn[s] = Closed
    /\ \E f \in FragSizes[s] :
         chn' = [chn EXCEPT ![s] = f % CharMod]
    /\ UNCHANGED <<senderUp, spc, packets, buf, rest, loop, sent, net, lostBefore, receiverVars>>

\* labcomm_writer_start, and the encoder fills the buffer.
WriterStart(s) ==
    /\ chn[s] # Closed /\ spc[s] = "idle" /\ packets[s] < MaxPackets[s]
    /\ \E len \in Lengths[s] :
         LET bytes == PacketBytes(s, packets[s] + 1, len) IN
         /\ buf' = [buf EXCEPT ![s] = Take(bytes, BufferSize)]
         /\ rest' = [rest EXCEPT ![s] = Drop(bytes, BufferSize)]
    /\ packets' = [packets EXCEPT ![s] = @ + 1]
    /\ spc' = [spc EXCEPT ![s] = "flush"]
    /\ UNCHANGED <<senderUp, chn, loop, sent, net, lostBefore, receiverVars>>

\* labcomm_writer_continue and labcomm_writer_end after thr_send: the encoder goes
\* on with the packet, whatever the result was.
WriterNext(s) ==
    /\ buf' = [buf EXCEPT ![s] = Take(rest[s], BufferSize)]
    /\ rest' = [rest EXCEPT ![s] = Drop(@, BufferSize)]
    /\ spc' = [spc EXCEPT ![s] = IF rest[s] = <<>> THEN "idle" ELSE "flush"]

Fragments(length, frag_size) == (length - 1) \div frag_size + 1

\* thr_send: its checks, and the total number of fragments.
thr_send_Fault(s) ==
    /\ spc[s] = "flush" /\ chn[s] # 0
    /\ loop' = [loop EXCEPT ![s] = [i |-> 1, tot |-> Len(buf[s]) \div chn[s] + 1,
                                   length |-> Len(buf[s]), data |-> 0]]
    /\ sent' = sent \cup {buf[s]}
    /\ spc' = [spc EXCEPT ![s] = "send"]
    /\ UNCHANGED <<senderUp, chn, packets, buf, rest, net, lostBefore, receiverVars>>
thr_send(s) ==
    /\ spc[s] = "flush"
    /\ \/ /\ chn[s] = 0 \/ buf[s] = <<>>
          /\ WriterNext(s)
          /\ UNCHANGED <<loop, sent>>
       \/ /\ chn[s] # 0 /\ buf[s] # <<>>
          /\ loop' = [loop EXCEPT ![s] =
                        [i |-> 1, tot |-> Fragments(Len(buf[s]), chn[s]),
                         length |-> Len(buf[s]), data |-> 0]]
          /\ sent' = sent \cup {buf[s]}
          /\ spc' = [spc EXCEPT ![s] = "send"]
          /\ UNCHANGED <<buf, rest>>
    /\ UNCHANGED <<senderUp, chn, packets, net, lostBefore, receiverVars>>

FragLen(s) == Least(loop[s].length, chn[s])

\* The frame thr_send composes for the present i.
Frame(s) ==
    [proto |-> "throttle", chn |-> Chn[s], num |-> loop[s].i, tot |-> loop[s].tot,
     payload |-> Copy(s, buf[s], loop[s].data, FragLen(s)), src |-> s, gap |-> lostBefore /\ Chn[s] = RecvChn]

\* What the loop does after a frame is out: only a full fragment shortens length,
\* and i is an unsigned char.
Advance(s) ==
    LET l == loop[s] IN
    loop' = [loop EXCEPT ![s] =
               [i |-> (l.i + 1) % CharMod, tot |-> l.tot,
                length |-> IF l.length >= chn[s] THEN l.length - chn[s] ELSE l.length,
                data |-> Least(l.data + FragLen(s), Len(buf[s]))]]

\* eth_send: the frame gets through, or is lost on the way.
eth_send(s) ==
    \/ /\ Len(net) < NetCap
       /\ net' = Append(net, Frame(s))
       /\ lostBefore' = (lostBefore /\ Chn[s] # RecvChn)
    \/ /\ net' = net
       /\ lostBefore' = (lostBefore \/ Chn[s] = RecvChn)

SendFragment(s) ==
    /\ spc[s] = "send" /\ loop[s].i <= loop[s].tot
    /\ eth_send(s)
    /\ Advance(s)
    /\ UNCHANGED <<senderUp, chn, spc, packets, buf, rest, sent, receiverVars>>

\* eth_send returns -1: the rest of the message is not sent.
SendFails(s) ==
    /\ spc[s] = "send" /\ loop[s].i <= loop[s].tot
    /\ WriterNext(s)
    /\ loop' = [loop EXCEPT ![s] = Loop0]
    /\ UNCHANGED <<senderUp, chn, packets, sent, net, lostBefore, receiverVars>>

SendDone(s) ==
    /\ spc[s] = "send" /\ loop[s].i > loop[s].tot
    /\ WriterNext(s)
    /\ loop' = [loop EXCEPT ![s] = Loop0]
    /\ UNCHANGED <<senderUp, chn, packets, sent, net, lostBefore, receiverVars>>

SendStep(s) == SendFragment(s) \/ SendFails(s) \/ SendDone(s)

-----------------------------------------------------------------------------
(* The receiver.                                                           *)

\* thr_msg_check: a payload, the protocol and the channel.
thr_msg_check_Fault(f) == f.payload # <<>> /\ f.proto = "throttle"
thr_msg_check(f) == f.payload # <<>> /\ f.proto = "throttle" /\ f.chn = RecvChn

\* History: a frame of the channel has arrived.
Observe(f) ==
    LET run    == Least(BufferSize, IF f.gap THEN 1 ELSE consecutive + 1)
        broken == f.gap \/ (f.num = 1 /\ ~prevLast)
        whole  == f.num = f.tot /\ run >= f.tot
        before == IF broken THEN 0 ELSE streak
    IN /\ consecutive' = run
       /\ prevLast' = (f.num = f.tot)
       /\ streak' = IF whole THEN Least(2, before + 1) ELSE before
       /\ handled' = FALSE

\* The fragment is the one expected, or everything is discarded and the receiver
\* waits for a first fragment again.
Join_Kept(f) ==
    \/ /\ frag_index = f.num
       /\ joined' = joined \o f.payload
       /\ frag_index' = frag_index + 1
       /\ IF frag_index + 1 > f.tot
          THEN rpc' = "handle" /\ p_msg' = joined' /\ last_sender' = f.src
          ELSE UNCHANGED <<rpc, p_msg, last_sender>>
    \/ /\ frag_index # f.num
       /\ frag_index' = 1
       /\ UNCHANGED <<joined, rpc, p_msg, last_sender>>
Join_NoReset(f) ==
    \/ /\ frag_index = f.num
       /\ joined' = joined \o f.payload
       /\ frag_index' = frag_index + 1
       /\ IF frag_index + 1 > f.tot
          THEN rpc' = "handle" /\ p_msg' = joined' /\ last_sender' = f.src
          ELSE UNCHANGED <<rpc, p_msg, last_sender>>
    \/ /\ frag_index # f.num
       /\ UNCHANGED <<frag_index, joined, rpc, p_msg, last_sender>>
Join(f) ==
    \/ /\ frag_index = f.num
       /\ joined' = joined \o f.payload
       /\ frag_index' = frag_index + 1
       /\ IF frag_index + 1 > f.tot
          THEN rpc' = "handle" /\ p_msg' = joined' /\ last_sender' = f.src
          ELSE UNCHANGED <<rpc, p_msg, last_sender>>
    \/ /\ frag_index # f.num
       /\ frag_index' = 1
       /\ joined' = <<>>
       /\ UNCHANGED <<rpc, p_msg, last_sender>>

\* One round of the loop in thr_receive.
thr_receive ==
    /\ rpc = "receive" /\ net # <<>>
    /\ net' = Tail(net)
    /\ IF thr_msg_check(Head(net))
       THEN Observe(Head(net)) /\ Join(Head(net))
       ELSE UNCHANGED <<rpc, frag_index, joined, p_msg, last_sender,
                        consecutive, prevLast, streak, handled>>
    /\ UNCHANGED <<senderVars, lostBefore, unread, mixed, misread>>

\* eth_receive fails: the frame is gone, and the loop goes on as if it had not come.
ReceiveError ==
    /\ rpc = "receive" /\ net # <<>>
    /\ net' = Tail(net)
    /\ IF thr_msg_check(Head(net))
       THEN consecutive' = 0 /\ streak' = 0
       ELSE UNCHANGED <<consecutive, streak>>
    /\ UNCHANGED <<senderVars, lostBefore, rpc, frag_index, joined, p_msg, last_sender,
                   unread, prevLast, handled, mixed, misread>>

\* thr_read: the message, cut to the reader's buffer; a second call finds msg_length
\* zero.
thr_read_Fault == Take(p_msg, Len(p_msg) - 1)
thr_read == Take(p_msg, BufferSize)

\* labcomm_thr_reader, start: what is left in the buffer, or a message.
ReaderStart == IF unread # <<>> THEN unread ELSE thr_read

\* labcomm_thr_reader, continue until len bytes are read or thr_read has no more.
ReaderContinue(len) ==
    IF unread # <<>> /\ len > Len(unread) THEN unread \o thr_read ELSE ReaderStart

\* The packet length decode_one finds: the packet's own if the byte starts one.
HeaderLengths(b) ==
    IF b.packet # 0 /\ b.off = 0 THEN {b.len} ELSE UNION {Lengths[s] : s \in Senders}

\* The handler, decode_one, reads a packet; then the message is freed, and the
\* program calls thr_receive again.
Handle ==
    /\ rpc = "handle"
    /\ \E len \in HeaderLengths(Head(ReaderStart)) :
         LET avail == ReaderContinue(len) IN
         /\ unread' = Drop(avail, len)
         /\ misread' = (misread \/ Len(avail) < len \/ Take(avail, len) # p_msg)
    /\ rpc' = "receive" /\ frag_index' = 1 /\ joined' = <<>> /\ p_msg' = <<>>
    /\ handled' = TRUE
    /\ mixed' = (mixed \/ p_msg \notin sent)
    /\ UNCHANGED <<senderVars, net, lostBefore, last_sender, consecutive, prevLast, streak>>

\* Other traffic on the wire.
OtherTraffic ==
    /\ Len(net) < NetCap
    /\ net' = Append(net, OtherFrame)
    /\ UNCHANGED <<senderVars, lostBefore, receiverVars>>

-----------------------------------------------------------------------------
Init ==
    /\ senderUp = [s \in Senders |-> FALSE]
    /\ chn = [s \in Senders |-> Closed]
    /\ spc = [s \in Senders |-> "idle"]
    /\ packets = [s \in Senders |-> 0]
    /\ buf = [s \in Senders |-> <<>>]
    /\ rest = [s \in Senders |-> <<>>]
    /\ loop = [s \in Senders |-> Loop0]
    /\ net = <<>>
    /\ lostBefore = FALSE
    /\ rpc = "receive" /\ frag_index = 1 /\ joined = <<>>
    /\ p_msg = <<>> /\ last_sender = "other" /\ unread = <<>>
    /\ sent = {}
    /\ consecutive = 0 /\ prevLast = TRUE /\ streak = 0
    /\ handled = FALSE /\ mixed = FALSE /\ misread = FALSE

Next ==
    \/ \E s \in Senders :
          thr_init(s) \/ thr_open_chn(s) \/ WriterStart(s) \/ thr_send(s) \/ SendStep(s)
    \/ thr_receive \/ ReceiveError \/ Handle \/ OtherTraffic

Spec == Init /\ [][Next]_vars

\* A thread in thr_send goes on; nothing else has to happen.
FairSpec == Spec /\ \A s \in Senders : WF_vars(SendStep(s))

-----------------------------------------------------------------------------
(* Properties.                                                             *)

Bytes == [from : Senders \cup {"other"}, packet : Nat, len : Nat, off : Nat]
Frames == [proto : {"throttle", "other"}, chn : Nat, num : 0 .. CharMod - 1, tot : Nat,
           payload : Seq(Bytes), src : Senders \cup {"other"}, gap : BOOLEAN]

\* The driver's variables keep their types; the fragment number fits its counter.
TypeOK ==
    /\ senderUp \in [Senders -> BOOLEAN]
    /\ \A s \in Senders : chn[s] \in {Closed} \cup 0 .. CharMod - 1
    /\ spc \in [Senders -> {"idle", "flush", "send"}]
    /\ buf \in [Senders -> Seq(Bytes)] /\ rest \in [Senders -> Seq(Bytes)]
    /\ loop \in [Senders -> [i : 0 .. CharMod - 1, tot : Nat, length : Nat, data : Nat]]
    /\ net \in Seq(Frames)
    /\ rpc \in {"receive", "handle"} /\ frag_index \in 1 .. CharMod
    /\ joined \in Seq(Bytes) /\ p_msg \in Seq(Bytes) /\ unread \in Seq(Bytes)

\* The longest message in fragments that the unsigned char i can count to: with one
\* more the loop's condition is always true.
MaxFragments == CharMod - 2

\* The channel as the examples use it: one sender, one fragment size, and messages of
\* no more fragments than thr_send can count.
OneSender ==
    \E s \in Senders :
      /\ \A u \in Senders : Chn[u] = RecvChn => u = s
      /\ \E f \in 1 .. CharMod - 1 : FragSizes[s] = {f} /\ Fragments(BufferSize, f) <= MaxFragments

\* Whatever is lost, every byte of a message handed to the handler stands where it
\* stood in the message it was sent in: no fragment is skipped, repeated or shifted.
OffsetsKept ==
    OneSender /\ rpc = "handle" =>
      \A k \in DOMAIN p_msg : p_msg[k].packet # 0 /\ p_msg[k].off % BufferSize = k - 1

\* A message is one that was sent, unless a frame was lost among its fragments; only
\* then can thr_receive join the beginning of one message to the end of another.
Rebuilt ==
    OneSender /\ rpc = "handle" /\ consecutive >= frag_index - 1 => p_msg \in sent

\* The message, or part of one, that a byte was sent in.
MessageOf(b) ==
    LET first == b.off - (b.off % BufferSize) IN
    [k \in 1 .. Least(BufferSize, b.len - first) |-> Byte(b.from, b.packet, b.len, first + k - 1)]

\* The receiver finds back into step: if two messages in a row arrive without a loss,
\* the second is handed over, although the first may be taken for the end of a broken
\* one and discarded.
Resync ==
    OneSender /\ streak >= 2 /\ prevLast =>
      handled \/ (rpc = "handle" /\ p_msg = MessageOf(Last(p_msg)))

\* As long as no message was joined wrongly and every packet fits the writer's buffer,
\* decode_one reads exactly the packet that was encoded and leaves nothing behind.
DecodesWhole ==
    OneSender /\ ~mixed /\ (\A msg \in sent : msg[1].len <= BufferSize) =>
      unread = <<>> /\ ~misread

\* thr_send returns for every message of at most MaxFragments fragments.
SendEnds ==
    \A s \in Senders :
      spc[s] = "send" /\ Fragments(Len(buf[s]), chn[s]) <= MaxFragments ~> spc[s] # "send"
=============================================================================
