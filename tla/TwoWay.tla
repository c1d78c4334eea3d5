------------------------------- MODULE TwoWay -------------------------------
(* The client and the server of examples/twoway, with the decimating and   *)
(* the introspecting layers that both put around their reader and writer.  *)
(*                                                                         *)
(* The client sends samples B.  The server answers each with a Sum and,    *)
(* once it has been told that the client handles them, a Product.  The     *)
(* client asks for every Amount-th Sum only, and begins to handle Product  *)
(* in round Late.  The layers talk to their peers with two samples of      *)
(* their own, handles_signature and set_decimation.                        *)
(*                                                                         *)
(* Both programs have a main thread and a thread that decodes.  A thread's *)
(* program is a list of steps.  The samples A, Diff and Terminate, which   *)
(* are treated like B, Sum and B, the type bindings and the version packet *)
(* are left out.                                                           *)
EXTENDS Naturals, Sequences, FiniteSets, Functions

CONSTANTS
    Rounds,         \* how many samples B the client sends
    Late,           \* the round before which it registers Product
    Amount,         \* the decimation it asks for
    Index,          \* peer -> sample -> the local index of its signature
    PipeCap         \* packets a connection holds before a writer blocks

Peers   == {"client", "server"}
Threads == Peers \X {"main", "decoder"}
Names   == {"handles_signature", "set_decimation", "B", "Sum", "Product"}
Indices == UNION {Range(Index[p]) : p \in Peers}
Statuses == {"none", "unhandled", "unregistered", "registered"}

Peer(p) == CHOOSE q \in Peers : q # p

ASSUME TwoWayAssumption ==
    /\ Rounds \in Nat /\ Late \in 1 .. Rounds /\ Amount \in Nat \ {0}
    /\ PipeCap \in Nat \ {0}
    /\ \A p \in Peers : /\ Index[p] \in [Names -> Nat \ {0}]
                        /\ \A x, y \in Names : Index[p][x] = Index[p][y] => x = y

VARIABLES
    queue,          \* peer -> the scheduler's deferred actions
    running,        \* peer -> the threads that are running them, at most one
    registered,     \* peer -> the samples its encoder has registered
    handled,        \* peer -> the samples its decoder has a handler for
    remote_index,   \* peer -> sample -> the sender's index, 0 if not defined
    reader_decimation, writer_decimation,   \* the decimating layer's tables
    remote, status, \* the introspecting layer's tables
    pipe,           \* peer -> the packets it has sent and nobody has read
    work,           \* thread -> the steps it has still to make
    stopped,        \* the peers whose decoder thread has left its loop
    round,          \* the client's progress
    ioctl_index,    \* the remote index do_ioctl has read
    \* History of what happened.
    refused,        \* samples encoded without being registered
    asked, passed,  \* peer -> index -> packets since the last set_decimation
    overlap,        \* a definition arrived in the middle of the ioctl
    got             \* the number of Products the client has received

decoderVars    == <<handled, remote_index>>
decimatingVars == <<reader_decimation, writer_decimation, asked, passed>>
introVars      == <<remote, status>>
encoderVars    == <<registered, refused>>
mainVars       == <<round, ioctl_index>>
vars == <<queue, running, encoderVars, decoderVars, decimatingVars, introVars,
          pipe, work, stopped, mainVars, overlap, got>>

-----------------------------------------------------------------------------
(* Steps of a thread's program.                                            *)

Do(op, x) == [op |-> op, x |-> x, v |-> 0]
Deferred  == Do("deferred", "B")

\* The lock and the unlock of the writer run the deferred actions first.
Encode(x)          == <<Deferred, Do("encode", x), Deferred>>
RegisterSample(x)  == <<Deferred, Do("register", x), Deferred>>
RegisterHandler(x) == <<Do("start", x), Do("entry", x)>>

Current(t, op) == work[t] # <<>> /\ Head(work[t]).op = op
Finish(t, more) == work' = [work EXCEPT ![t] = more \o Tail(@)]

\* scheduler_enqueue.
Enqueue_Fault(p, actions) == queue' = [queue EXCEPT ![p] = actions \o @]
Enqueue(p, actions) == queue' = [queue EXCEPT ![p] = @ \o actions]

-----------------------------------------------------------------------------
(* The introspecting layer.                                                *)

\* get_local.
get_local_Fault(p, x) ==
    IF status[p][x] = "none" THEN "unregistered" ELSE status[p][x]
get_local(p, x) ==
    IF status[p][x] # "none" THEN status[p][x]
    ELSE IF x \in remote[p] THEN "unregistered" ELSE "unhandled"

\* The handler of handles_signature: the peer handles sample x.
handles_signature_Fault(p, x) ==
    /\ remote' = [remote EXCEPT ![p] = @ \cup {x}]
    /\ UNCHANGED status
handles_signature(p, x) ==
    /\ remote' = [remote EXCEPT ![p] = @ \cup {x}]
    /\ status' = [status EXCEPT ![p][x] = IF @ = "unhandled" THEN "unregistered" ELSE @]

\* wrap_reader_start without a value: the peer is to be told that x is handled.
HandlesSignature(x) == <<[Do("encode", "handles_signature") EXCEPT !.v = x]>>

\* wrap_writer_start without a value: x is being registered.
MarkRegistered(p, x) == status' = [status EXCEPT ![p][x] = "registered"]

\* wrap_writer_ioctl, HAS_SIGNATURE: the answer is noted as well.
HasSignature(p, x) == status' = [status EXCEPT ![p][x] = get_local(p, x)]

\* introspecting_new and the alloc actions: handling and, deferred, registering
\* the layer's own sample.
IntrospectingInit ==
    /\ remote = [p \in Peers |-> {}]
    /\ status = [p \in Peers |-> [x \in Names |-> "none"]]
IntrospectingReaderAlloc == RegisterHandler("handles_signature")
IntrospectingWriterAlloc == <<Do("register", "handles_signature")>>

-----------------------------------------------------------------------------
(* The decimating layer.                                                   *)

\* The handler of set_decimation.
set_decimation_Fault(p, m) ==
    /\ writer_decimation' = [writer_decimation EXCEPT ![p][m.signature_index].n = m.decimation]
    /\ asked'  = [asked EXCEPT ![p][m.signature_index] = 0]
    /\ passed' = [passed EXCEPT ![p][m.signature_index] = 0]
set_decimation(p, m) ==
    /\ writer_decimation' = [writer_decimation EXCEPT
                               ![p][m.signature_index] = [n |-> m.decimation, current |-> 0]]
    /\ asked'  = [asked EXCEPT ![p][m.signature_index] = 0]
    /\ passed' = [passed EXCEPT ![p][m.signature_index] = 0]

\* enqueue_decimation.
SetDecimation(i, amount) ==
    <<[Do("encode", "set_decimation") EXCEPT
         !.v = [decimation |-> amount, signature_index |-> i]]>>

\* wrap_reader_start without a value.
ReaderStart_Never(p, x, i)  == <<>>
ReaderStart(p, x, i) ==
    IF i # 0 /\ reader_decimation[p][x] # 0
      THEN SetDecimation(i, reader_decimation[p][x]) ELSE <<>>

\* wrap_writer_start: the packet is skipped if its turn has not come.
Skipped(p, i) == writer_decimation[p][i].current + 1 < writer_decimation[p][i].n
WriterStart(p, i) ==
    /\ writer_decimation' = [writer_decimation EXCEPT
                               ![p][i].current = IF Skipped(p, i) THEN @ + 1 ELSE 0]
    /\ asked'  = [asked EXCEPT ![p][i] = @ + 1]
    /\ passed' = [passed EXCEPT ![p][i] = IF Skipped(p, i) THEN @ ELSE @ + 1]
    /\ UNCHANGED reader_decimation

\* decimating_new and the alloc actions.
DecimatingInit ==
    /\ reader_decimation = [p \in Peers |-> [x \in Names |-> 0]]
    /\ writer_decimation = [p \in Peers |-> [i \in Indices |-> [n |-> 0, current |-> 0]]]
    /\ asked = [p \in Peers |-> [i \in Indices |-> 0]]
    /\ passed = [p \in Peers |-> [i \in Indices |-> 0]]
DecimatingReaderAlloc == RegisterHandler("set_decimation")
DecimatingWriterAlloc == <<Do("register", "set_decimation")>>

-----------------------------------------------------------------------------
(* The encoder, with the start actions of both layers.                     *)

Send(p, i, packet) ==
    \/ Skipped(p, i) /\ UNCHANGED pipe
    \/ /\ ~ Skipped(p, i)
       /\ Len(pipe[p]) < PipeCap
       /\ pipe' = [pipe EXCEPT ![p] = Append(@, packet)]

\* do_sample_register.
sample_register(p, x) ==
    LET i == Index[p][x] IN
    \/ /\ x \in registered[p]
       /\ UNCHANGED <<encoderVars, status, decimatingVars, pipe>>
    \/ /\ x \notin registered[p]
       /\ registered' = [registered EXCEPT ![p] = @ \cup {x}]
       /\ MarkRegistered(p, x)
       /\ WriterStart(p, i)
       /\ Send(p, i, [tag |-> 0, index |-> i, v |-> x])
       /\ UNCHANGED refused

\* do_encode.
encode(p, x, v) ==
    LET i == Index[p][x] IN
    \/ /\ x \notin registered[p]
       /\ refused' = [refused EXCEPT ![p] = @ \cup {x}]
       /\ UNCHANGED <<registered, decimatingVars, pipe>>
    \/ /\ x \in registered[p]
       /\ WriterStart(p, i)
       /\ Send(p, i, [tag |-> i, index |-> i, v |-> v])
       /\ UNCHANGED encoderVars

Write(p, step) ==
    \/ step.op = "register" /\ sample_register(p, step.x)
    \/ step.op = "encode" /\ encode(p, step.x, step.v) /\ UNCHANGED status

\* A thread's own call, with the writer locked.
Write1(t) ==
    /\ Current(t, "register") \/ Current(t, "encode")
    /\ Write(t[1], Head(work[t]))
    /\ Finish(t, <<>>)
    /\ UNCHANGED <<queue, running, decoderVars, remote, stopped, mainVars, overlap, got>>

\* run_deferred: a deferred action is run, unless another thread is at it.
RunDeferred(t) ==
    LET p == t[1] IN
    /\ Current(t, "deferred") \/ Current(t, "sleep")
    /\ running[p] \subseteq {t}
    /\ queue[p] # <<>>
    /\ running' = [running EXCEPT ![p] = {t}]
    /\ queue' = [queue EXCEPT ![p] = Tail(@)]
    /\ Write(p, Head(queue[p]))
    /\ UNCHANGED <<decoderVars, remote, work, stopped, mainVars, overlap, got>>

\* run_deferred returns.  A thread that sleeps without a limit stays there.
DeferredDone(t) ==
    LET p == t[1] IN
    /\ Current(t, "deferred") \/ (Current(t, "sleep") /\ t \in running[p])
    /\ queue[p] = <<>> \/ ~ running[p] \subseteq {t}
    /\ running' = [running EXCEPT ![p] = @ \ {t}]
    /\ IF Current(t, "deferred") THEN Finish(t, <<>>) ELSE UNCHANGED work
    /\ UNCHANGED <<queue, encoderVars, decoderVars, decimatingVars, introVars, pipe,
                   stopped, mainVars, overlap, got>>

-----------------------------------------------------------------------------
(* The decoder, with the start actions of both layers.                     *)

\* do_register_sample calls the start actions, with no remote index, and then
\* enters the handler into its table.
StartHandler(t) ==
    LET x == Head(work[t]).x IN
    /\ Current(t, "start")
    /\ Enqueue(t[1], HandlesSignature(x) \o ReaderStart(t[1], x, 0))
    /\ Finish(t, <<>>)
    /\ UNCHANGED <<running, encoderVars, decoderVars, decimatingVars, introVars, pipe,
                   stopped, mainVars, overlap, got>>
EnterHandler(t) ==
    LET x == Head(work[t]).x IN
    /\ Current(t, "entry")
    /\ handled' = [handled EXCEPT ![t[1]] = @ \cup {x}]
    /\ remote_index' = [remote_index EXCEPT ![t[1]][x] = 0]
    /\ Finish(t, <<>>)
    /\ UNCHANGED <<queue, running, encoderVars, decimatingVars, introVars, pipe,
                   stopped, mainVars, overlap, got>>

Decoder(p) == <<p, "decoder">>
Reads(p) == work[Decoder(p)] = <<>> /\ p \notin stopped /\ pipe[Peer(p)] # <<>>
Packet(p) == Head(pipe[Peer(p)])
Taken(p) == pipe' = [pipe EXCEPT ![Peer(p)] = Tail(@)]

\* handle_sample_def enters the remote index, and calls the start actions after
\* it has unlocked the table.
handle_sample_def(p) ==
    LET x == Packet(p).v IN
    /\ Reads(p)
    /\ Packet(p).tag = 0
    /\ x \in handled[p]
    /\ remote_index' = [remote_index EXCEPT ![p][x] = Packet(p).index]
    /\ work' = [work EXCEPT ![Decoder(p)] = <<Do("defined", x)>>]
    /\ overlap' = (overlap \/ (p = "client" /\ x = "Sum"
                                 /\ Current(<<"client", "main">>, "ioctl_set")))
    /\ Taken(p)
    /\ UNCHANGED <<queue, running, encoderVars, handled, decimatingVars, introVars,
                   stopped, mainVars, got>>
Defined(t) ==
    LET x == Head(work[t]).x IN
    /\ Current(t, "defined")
    /\ Enqueue(t[1], HandlesSignature(x) \o ReaderStart(t[1], x, remote_index[t[1]][x]))
    /\ Finish(t, <<>>)
    /\ UNCHANGED <<running, encoderVars, decoderVars, decimatingVars, introVars, pipe,
                   stopped, mainVars, overlap, got>>

\* A definition or a sample that nobody handles ends the loop of the thread.
Unknown(p) ==
    /\ Reads(p)
    /\ LET m == Packet(p) IN
         \/ m.tag = 0 /\ m.v \notin handled[p]
         \/ m.tag # 0 /\ \A x \in handled[p] : remote_index[p][x] # m.tag
    /\ stopped' = stopped \cup {p}
    /\ Taken(p)
    /\ UNCHANGED <<queue, running, encoderVars, decoderVars, decimatingVars, introVars,
                   work, mainVars, overlap, got>>

\* handle_B of the server asks for the status of Product, and answers.
handle_B(p) ==
    LET s == get_local(p, "Product") IN
    /\ HasSignature(p, "Product")
    /\ work' = [work EXCEPT ![Decoder(p)] =
          (IF s = "unregistered" THEN RegisterSample("Product") ELSE <<>>)
            \o (IF s \in {"unregistered", "registered"} THEN Encode("Product") ELSE <<>>)
            \o Encode("Sum")]

\* decode_and_handle: the sample is given to its handler.
Handle(p) ==
    \E x \in handled[p] :
      /\ Reads(p)
      /\ Packet(p).tag = remote_index[p][x]
      /\ Packet(p).tag # 0
      /\ \/ /\ x = "handles_signature"
            /\ handles_signature(p, Packet(p).v)
            /\ UNCHANGED <<decimatingVars, work, got>>
         \/ /\ x = "set_decimation"
            /\ set_decimation(p, Packet(p).v)
            /\ UNCHANGED <<reader_decimation, introVars, work, got>>
         \/ /\ x = "B"
            /\ handle_B(p)
            /\ UNCHANGED <<decimatingVars, remote, got>>
         \/ /\ x \in {"Sum", "Product"}
            /\ got' = IF x = "Product" THEN got + 1 ELSE got
            /\ UNCHANGED <<decimatingVars, introVars, work>>
      /\ Taken(p)
      /\ UNCHANGED <<queue, running, encoderVars, decoderVars, stopped, mainVars, overlap>>

-----------------------------------------------------------------------------
(* The client's main thread.                                               *)

\* The decoder's do_ioctl reads the remote index of Sum.
IoctlRead(t) ==
    /\ Current(t, "ioctl")
    /\ ioctl_index' = remote_index["client"]["Sum"]
    /\ Finish(t, <<Do("ioctl_set", "Sum")>>)
    /\ UNCHANGED <<queue, running, encoderVars, decoderVars, decimatingVars, introVars, pipe,
                   stopped, round, overlap, got>>
\* wrap_reader_ioctl with the index that was read.
IoctlSet(t) ==
    /\ Current(t, "ioctl_set")
    /\ reader_decimation' = [reader_decimation EXCEPT !["client"]["Sum"] = Amount]
    /\ Enqueue("client", IF ioctl_index # 0 THEN SetDecimation(ioctl_index, Amount) ELSE <<>>)
    /\ Finish(t, <<>>)
    /\ UNCHANGED <<running, encoderVars, decoderVars, writer_decimation, asked, passed,
                   introVars, pipe, stopped, mainVars, overlap, got>>

\* The next turn of main's loop, which ends in a sleep.  The last one stands for
\* all that would follow before Terminate is sent.
NextRound ==
    LET t == <<"client", "main">> IN
    /\ work[t] = <<>>
    /\ round < Rounds
    /\ round' = round + 1
    /\ work' = [work EXCEPT ![t] =
          (IF round' = Late THEN RegisterHandler("Product") ELSE <<>>)
            \o Encode("B")
            \o <<IF round' = Rounds THEN Do("sleep", "B") ELSE Deferred>>]
    /\ UNCHANGED <<queue, running, encoderVars, decoderVars, decimatingVars, introVars, pipe,
                   stopped, ioctl_index, overlap, got>>

-----------------------------------------------------------------------------
\* What decoder_new, encoder_new and the layers' alloc actions leave: the
\* registration of the layers' own samples is deferred.  The reader's alloc
\* actions run when the decoder thread registers its first sample, assumed to
\* be before main's ioctl (the code has an unlocked check, decoder.c:262).
Programs(t) ==
    LET layers == IntrospectingReaderAlloc \o DecimatingReaderAlloc IN
    CASE t = <<"client", "main">>    -> RegisterSample("B") \o <<Do("ioctl", "Sum")>>
      [] t = <<"client", "decoder">> -> layers \o RegisterHandler("Sum")
      [] t = <<"server", "main">>    -> RegisterSample("Sum") \o <<Do("sleep", "Sum")>>
      [] t = <<"server", "decoder">> -> layers \o RegisterHandler("B")

Init ==
    /\ queue = [p \in Peers |-> IntrospectingWriterAlloc \o DecimatingWriterAlloc]
    /\ running = [p \in Peers |-> {}]
    /\ registered = [p \in Peers |-> {}]
    /\ handled = [p \in Peers |-> {}]
    /\ remote_index = [p \in Peers |-> [x \in Names |-> 0]]
    /\ IntrospectingInit /\ DecimatingInit
    /\ pipe = [p \in Peers |-> <<>>]
    /\ work = [t \in Threads |-> Programs(t)]
    /\ stopped = {}
    /\ round = 0
    /\ ioctl_index = 0
    /\ refused = [p \in Peers |-> {}]
    /\ overlap = FALSE
    /\ got = 0

Step(t) ==
    \/ Write1(t) \/ RunDeferred(t) \/ DeferredDone(t)
    \/ StartHandler(t) \/ EnterHandler(t) \/ Defined(t)
    \/ IoctlRead(t) \/ IoctlSet(t)
    \/ t = <<"client", "main">> /\ NextRound
    \/ \E p \in Peers : t = Decoder(p) /\ (handle_sample_def(p) \/ Unknown(p) \/ Handle(p))

Next == \E t \in Threads : Step(t)

Spec == Init /\ [][Next]_vars
\* A thread that can go on does so.  As no step can be repeated for ever, it is
\* enough that some thread does.
FairSpec == Spec /\ WF_vars(Next)

-----------------------------------------------------------------------------
(* Properties.                                                             *)

Packets ==
    [tag : {0}, index : Indices, v : Names]
      \cup [tag : Indices, index : Indices,
            v : Names \cup {0} \cup [decimation : {0, Amount}, signature_index : Indices]]

\* Types: in particular a set_decimation names an index of the peer, never the
\* 0 that stands for an unknown one (decimating.c:124).
TypeOK ==
    /\ \A p \in Peers :
          /\ running[p] \subseteq Threads /\ Cardinality(running[p]) <= 1
          /\ registered[p] \subseteq Names /\ handled[p] \subseteq Names
          /\ remote[p] \subseteq Names
          /\ \A x \in Names : /\ remote_index[p][x] \in Indices \cup {0}
                              /\ status[p][x] \in Statuses
                              /\ reader_decimation[p][x] \in {0, Amount}
          /\ \A i \in Indices : writer_decimation[p][i] \in [n : {0, Amount}, current : Nat]
          /\ Len(pipe[p]) <= PipeCap
          /\ \A k \in DOMAIN pipe[p] :
                LET v == pipe[p][k].v IN
                  pipe[p][k].tag = Index[p]["set_decimation"] =>
                    v.signature_index \in Range(Index[Peer(p)])
    /\ round \in 0 .. Rounds /\ got \in Nat

\* Neither peer is ever sent a definition or a sample it has no handler for,
\* which would end its decoder thread (client.c:72, server.c:103): Product is
\* registered only after the introspecting layer knows that it is handled,
\* although handles_signature goes out before the handler is entered.
DecodersRun == stopped = {}

\* No sample is encoded before it is registered, not even the layers' own,
\* whose registration is deferred (decimating.c:192, introspecting.c:219) and
\* which are sent by deferred actions as well.  Only a Sum may be refused: the
\* server's decoder thread is started before main registers it (server.c:148).
NothingRefused == \A p \in Peers : refused[p] \subseteq {"Sum"}

\* Since the last set_decimation exactly every n-th packet of a sample was let
\* through, whatever the threads that encode it and the one that changes n do.
DecimationExact ==
    \A p \in Peers : \A i \in Indices :
      LET d == writer_decimation[p][i] IN
        IF d.n <= 1 THEN d.current = 0 /\ passed[p][i] = asked[p][i]
        ELSE d.current < d.n /\ asked[p][i] = d.n * passed[p][i] + d.current

\* The decimation that the client asks for reaches the server, whether the
\* definition of Sum has been received before the ioctl or comes after it; only
\* if it comes between the two steps of the ioctl it may be lost.
DecimationArrives ==
    (reader_decimation["client"]["Sum"] = Amount /\ ~ overlap)
      ~> (writer_decimation["server"][Index["server"]["Sum"]].n = Amount \/ overlap)

\* From the sample B on that follows its registration of Product the client
\* gets a Product for each B, as the news that it handles Product overtakes
\* none and is overtaken by none of the samples; and all rounds come to an end.
ProductFromThen == <>[](round = Rounds /\ got = Rounds - Late + 1)
=============================================================================
