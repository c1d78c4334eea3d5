---------------------------- MODULE TwoWayProofs ----------------------------
(***************************************************************************)
(* Proofs about TwoWay, for any number of rounds, any decimation, any      *)
(* numbering of the signatures and connections of any capacity.            *)
(***************************************************************************)
EXTENDS TwoWay, TLAPS

Main(p) == <<p, "main">>

\* The layers' own samples carry a name or a decimation.
Decimations == [decimation : Nat, signature_index : Nat]
GoodValue(x, v) ==
    /\ x = "handles_signature" => v \in Names
    /\ x = "set_decimation" => v \in Decimations

WriteOps == {"register", "encode"}
StepOps  == WriteOps \cup {"deferred", "sleep", "start", "entry", "defined", "ioctl", "ioctl_set"}

Values == Names \cup {0} \cup Decimations
Steps  == {s \in [op : StepOps, x : Names, v : Values] : s.op = "encode" => GoodValue(s.x, s.v)}
Writes == {s \in Steps : s.op \in WriteOps}

\* What peer p sends: definitions with its own index, and samples with that as tag.
Definition(p, x) == [tag |-> 0, index |-> Index[p][x], v |-> x]
Sample(p, x, v)  == [tag |-> Index[p][x], index |-> Index[p][x], v |-> v]
Sent(p) ==
    UNION {{Definition(p, x)} \cup {Sample(p, x, v) : v \in {u \in Values : GoodValue(x, u)}} :
             x \in Names}

TableTypes ==
    /\ registered \in [Peers -> SUBSET Names]
    /\ handled \in [Peers -> SUBSET Names]
    /\ remote \in [Peers -> SUBSET Names]
    /\ status \in [Peers -> [Names -> Statuses]]
    /\ remote_index \in [Peers -> [Names -> Nat]]
    /\ \A p \in Peers : \A x \in Names : remote_index[p][x] \in {0, Index[Peer(p)][x]}
    /\ reader_decimation \in [Peers -> [Names -> Nat]]
    /\ ioctl_index \in Nat
    /\ refused \in [Peers -> SUBSET Names]

DecimationTypes ==
    /\ writer_decimation \in [Peers -> [Indices -> [n : Nat, current : Nat]]]
    /\ asked \in [Peers -> [Indices -> Nat]]
    /\ passed \in [Peers -> [Indices -> Nat]]

ListTypes ==
    /\ work \in [Threads -> Seq(Steps)]
    /\ queue \in [Peers -> Seq(Writes)]
    /\ DOMAIN pipe = Peers
    /\ \A p \in Peers : pipe[p] \in Seq(Sent(p))

Types == TableTypes /\ DecimationTypes /\ ListTypes

-----------------------------------------------------------------------------

\* The two peers are each other's, and a thread belongs to one of them.
LEMMA PeerFacts ==
    /\ Peer("client") = "server" /\ Peer("server") = "client"
    /\ \A p \in Peers : Peer(p) \in Peers /\ Peer(Peer(p)) = p /\ Peer(p) # p
    /\ \A p \in Peers : Decoder(p) \in Threads /\ Main(p) \in Threads
    /\ \A t \in Threads : t[1] \in Peers /\ (t = Decoder(t[1]) \/ t = Main(t[1]))
    /\ \A p, q \in Peers : Decoder(p) # Main(q) /\ (p # q => Decoder(p) # Decoder(q))
  <1>1. Peer("client") = "server"
    BY DEF Peer, Peers
  <1>2. Peer("server") = "client"
    BY DEF Peer, Peers
  <1> QED
    BY <1>1, <1>2 DEF Peers, Threads, Decoder, Main

\* Every sample has an index with each peer, and no two the same.
LEMMA IndexFacts ==
    /\ \A p \in Peers, x \in Names : Index[p][x] \in Indices /\ Index[p][x] \in Nat \ {0}
    /\ \A p \in Peers : \A x, y \in Names : Index[p][x] = Index[p][y] => x = y
  BY TwoWayAssumption DEF Indices, Range

\* What a packet on the wire says about itself.
LEMMA SentFacts ==
    ASSUME NEW p \in Peers
    PROVE  /\ \A x \in Names : Definition(p, x) \in Sent(p)
           /\ \A x \in Names, v \in Values : GoodValue(x, v) => Sample(p, x, v) \in Sent(p)
           /\ \A m \in Sent(p) :
                 \/ m.tag = 0 /\ m.v \in Names /\ m.index = Index[p][m.v]
                 \/ m.tag # 0 /\ \E x \in Names : m.tag = Index[p][x] /\ GoodValue(x, m.v)
  BY IndexFacts DEF Sent, Definition, Sample

\* The multiplication that a packet let through adds to the count.
LEMMA OneMore == \A n, k \in Nat : n * (k + 1) = n * k + n /\ n * k \in Nat /\ n * 0 = 0
  OBVIOUS

\* What wrap_writer_start does to the decimation of one index.
LEMMA WriterStartExact ==
    ASSUME DecimationTypes, DecimationExact, NEW p \in Peers, NEW i \in Indices,
           WriterStart(p, i)
    PROVE  DecimationTypes' /\ DecimationExact' /\ UNCHANGED reader_decimation
  <1> DEFINE d == writer_decimation[p][i]
  <1> DEFINE a == asked[p][i]
  <1> DEFINE k == passed[p][i]
  <1> DEFINE c == IF Skipped(p, i) THEN d.current + 1 ELSE 0
  <1> DEFINE l == IF Skipped(p, i) THEN k ELSE k + 1
  <1>1. d \in [n : Nat, current : Nat] /\ a \in Nat /\ k \in Nat /\ c \in Nat /\ l \in Nat
    BY DEF DecimationTypes, Skipped
  <1>2. /\ writer_decimation' = [writer_decimation EXCEPT ![p][i].current = c]
        /\ asked' = [asked EXCEPT ![p][i] = a + 1]
        /\ passed' = [passed EXCEPT ![p][i] = l]
        /\ UNCHANGED reader_decimation
    BY DEF WriterStart, Skipped
  <1>3. IF d.n <= 1 THEN c = 0 /\ l = a + 1
        ELSE c < d.n /\ a + 1 = d.n * l + c
    <2>1. IF d.n <= 1 THEN d.current = 0 /\ k = a ELSE d.current < d.n /\ a = d.n * k + d.current
      BY DEF DecimationExact
    <2>2. d.n * (k + 1) = d.n * k + d.n /\ d.n * k \in Nat
      BY <1>1, OneMore
    <2> QED
      BY <1>1, <2>1, <2>2 DEF Skipped
  <1> HIDE DEF d, a, k, c, l
  <1>4. DecimationTypes'
    <2>1. asked' \in [Peers -> [Indices -> Nat]] /\ passed' \in [Peers -> [Indices -> Nat]]
      BY <1>1, <1>2 DEF DecimationTypes
    <2>2. [d EXCEPT !.current = c] \in [n : Nat, current : Nat]
      BY <1>1
    <2>3. writer_decimation' \in [Peers -> [Indices -> [n : Nat, current : Nat]]]
      BY <1>2, <2>2 DEF DecimationTypes, d
    <2> QED
      BY <2>1, <2>3 DEF DecimationTypes
  <1>5. /\ writer_decimation'[p][i].n = d.n /\ writer_decimation'[p][i].current = c
        /\ asked'[p][i] = a + 1 /\ passed'[p][i] = l
    BY <1>1, <1>2 DEF DecimationTypes, d
  <1>6. \A q \in Peers : \A j \in Indices : <<q, j>> # <<p, i>> =>
           /\ writer_decimation'[q][j] = writer_decimation[q][j]
           /\ asked'[q][j] = asked[q][j] /\ passed'[q][j] = passed[q][j]
    BY <1>2 DEF DecimationTypes
  <1>7. DecimationExact'
    BY <1>3, <1>5, <1>6 DEF DecimationExact
  <1> QED
    BY <1>2, <1>4, <1>7

\* The handler of set_decimation begins a new count.
LEMMA SetDecimationExact ==
    ASSUME DecimationTypes, DecimationExact, NEW p \in Peers, NEW m \in Decimations,
           set_decimation(p, m)
    PROVE  DecimationTypes' /\ DecimationExact'
  <1> DEFINE i == m.signature_index
  <1>1. m.decimation \in Nat
    BY DEF Decimations
  <1>2. DecimationTypes'
    BY <1>1 DEF set_decimation, DecimationTypes
  <1>3. \A q \in Peers : \A j \in Indices : <<q, j>> # <<p, i>> =>
           /\ writer_decimation'[q][j] = writer_decimation[q][j]
           /\ asked'[q][j] = asked[q][j] /\ passed'[q][j] = passed[q][j]
    BY DEF set_decimation, DecimationTypes
  <1>4. i \in Indices =>
           /\ writer_decimation'[p][i] = [n |-> m.decimation, current |-> 0]
           /\ asked'[p][i] = 0 /\ passed'[p][i] = 0
    BY DEF set_decimation, DecimationTypes
  <1>5. m.decimation * 0 = 0
    BY <1>1, OneMore
  <1>6. DecimationExact'
    BY <1>1, <1>3, <1>4, <1>5 DEF DecimationExact
  <1> QED
    BY <1>2, <1>6

\* What a call of the encoder does, whoever makes it: an encode of a sample that is not
\* registered is refused; a registration is noted and the definition sent once, unless
\* the decimating layer skips it; a sample is sent unless it is skipped.
Wrote(p, step) ==
    \/ /\ step.op = "register" /\ step.x \in registered[p]
       /\ UNCHANGED <<registered, refused, status, pipe>>
    \/ /\ step.op = "register" /\ step.x \notin registered[p]
       /\ registered' = [registered EXCEPT ![p] = registered[p] \cup {step.x}]
       /\ status' = [status EXCEPT ![p][step.x] = "registered"]
       /\ UNCHANGED refused
       /\ \/ Skipped(p, Index[p][step.x]) /\ UNCHANGED pipe
          \/ pipe' = [pipe EXCEPT ![p] = Append(pipe[p], Definition(p, step.x))]
    \/ /\ step.op = "encode" /\ step.x \notin registered[p]
       /\ refused' = [refused EXCEPT ![p] = refused[p] \cup {step.x}]
       /\ UNCHANGED <<registered, status, pipe>>
    \/ /\ step.op = "encode" /\ step.x \in registered[p]
       /\ UNCHANGED <<registered, refused, status>>
       /\ \/ UNCHANGED pipe
          \/ pipe' = [pipe EXCEPT ![p] = Append(pipe[p], Sample(p, step.x, step.v))]

LEMMA WriteFacts ==
    ASSUME Types, DecimationExact, NEW p \in Peers, NEW step \in Writes, Write(p, step)
    PROVE  /\ Wrote(p, step)
           /\ UNCHANGED reader_decimation
           /\ \/ UNCHANGED <<writer_decimation, asked, passed>>
              \/ WriterStart(p, Index[p][step.x])
           /\ DecimationTypes' /\ DecimationExact'
  <1>1. step.x \in Names
    BY DEF Writes, Steps
  <1>2. Index[p][step.x] \in Indices
    BY <1>1, IndexFacts
  <1>3. Wrote(p, step)
    <2>1. CASE step.op = "register"
      BY <2>1
         DEF Write, Wrote, sample_register, MarkRegistered, encoderVars, Send, Definition
    <2>2. CASE step.op = "encode"
      BY <2>2 DEF Write, Wrote, encode, encoderVars, Send, Sample
    <2> QED
      BY <2>1, <2>2 DEF Writes, WriteOps
  <1>4. \/ UNCHANGED <<reader_decimation, writer_decimation, asked, passed>>
        \/ WriterStart(p, Index[p][step.x])
    BY DEF Write, sample_register, encode, decimatingVars
  <1>5. CASE UNCHANGED <<reader_decimation, writer_decimation, asked, passed>>
    BY <1>3, <1>5 DEF Types, DecimationTypes, DecimationExact
  <1>6. CASE WriterStart(p, Index[p][step.x])
    BY <1>2, <1>3, <1>6, WriterStartExact DEF Types
  <1> QED
    BY <1>4, <1>5, <1>6

\* Updates of the tables of samples keep their types.
LEMMA TableUpdates ==
    ASSUME NEW p \in Peers, NEW x \in Names
    PROVE  /\ \A f \in [Peers -> SUBSET Names] :
                 [f EXCEPT ![p] = f[p] \cup {x}] \in [Peers -> SUBSET Names]
           /\ \A f \in [Peers -> [Names -> Statuses]] : \A v \in Statuses :
                 [f EXCEPT ![p][x] = v] \in [Peers -> [Names -> Statuses]]
           /\ \A f \in [Peers -> [Names -> Nat]] : \A v \in Nat :
                 [f EXCEPT ![p][x] = v] \in [Peers -> [Names -> Nat]]
  OBVIOUS

\* A call of the encoder keeps the types of what it touches.
LEMMA WriteTypes ==
    ASSUME Types, NEW p \in Peers, NEW step \in Writes, Wrote(p, step)
    PROVE  /\ registered' \in [Peers -> SUBSET Names] /\ refused' \in [Peers -> SUBSET Names]
           /\ status' \in [Peers -> [Names -> Statuses]]
           /\ DOMAIN pipe' = Peers /\ \A q \in Peers : pipe'[q] \in Seq(Sent(q))
  <1>1. step.x \in Names /\ step.v \in Values /\ (step.op = "encode" => GoodValue(step.x, step.v))
    BY DEF Writes, Steps
  <1>2. Definition(p, step.x) \in Sent(p)
    BY <1>1, SentFacts
  <1>3. step.op = "encode" => Sample(p, step.x, step.v) \in Sent(p)
    BY <1>1, SentFacts
  <1> DEFINE x == step.x
  <1> HIDE DEF x
  <1>4. x \in Names
    BY <1>1 DEF x
  <1>5. /\ registered \in [Peers -> SUBSET Names] /\ refused \in [Peers -> SUBSET Names]
        /\ status \in [Peers -> [Names -> Statuses]]
    BY DEF Types, TableTypes
  <1>6. registered' \in [Peers -> SUBSET Names]
    <2>1. \/ registered' = registered
          \/ registered' = [registered EXCEPT ![p] = registered[p] \cup {x}]
      BY DEF Wrote, x
    <2>2. [registered EXCEPT ![p] = registered[p] \cup {x}] \in [Peers -> SUBSET Names]
      BY <1>4, <1>5, TableUpdates
    <2> QED
      BY <1>5, <2>1, <2>2
  <1>7. refused' \in [Peers -> SUBSET Names]
    <2>1. refused' = refused \/ refused' = [refused EXCEPT ![p] = refused[p] \cup {x}]
      BY DEF Wrote, x
    <2>2. [refused EXCEPT ![p] = refused[p] \cup {x}] \in [Peers -> SUBSET Names]
      BY <1>4, <1>5, TableUpdates
    <2> QED
      BY <1>5, <2>1, <2>2
  <1>8. status' \in [Peers -> [Names -> Statuses]]
    <2>1. status' = status \/ status' = [status EXCEPT ![p][x] = "registered"]
      BY DEF Wrote, x
    <2>2. "registered" \in Statuses
      BY DEF Statuses
    <2>3. [status EXCEPT ![p][x] = "registered"] \in [Peers -> [Names -> Statuses]]
      BY <1>4, <1>5, <2>2, TableUpdates
    <2> QED
      BY <1>5, <2>1, <2>3
  <1>9. \/ pipe' = pipe
        \/ \E m \in Sent(p) : pipe' = [pipe EXCEPT ![p] = Append(pipe[p], m)]
    BY <1>2, <1>3 DEF Wrote
  <1>10. DOMAIN pipe' = Peers /\ \A q \in Peers : pipe'[q] \in Seq(Sent(q))
    <2>1. DOMAIN pipe = Peers /\ \A q \in Peers : pipe[q] \in Seq(Sent(q))
      BY DEF Types, ListTypes
    <2>2. ASSUME NEW m \in Sent(p), pipe' = [pipe EXCEPT ![p] = Append(pipe[p], m)]
          PROVE  DOMAIN pipe' = Peers /\ \A q \in Peers : pipe'[q] \in Seq(Sent(q))
      <3>1. Append(pipe[p], m) \in Seq(Sent(p))
        BY <2>1
      <3>2. \A q \in Peers : pipe'[q] = IF q = p THEN Append(pipe[p], m) ELSE pipe[q]
        BY <2>1, <2>2
      <3> QED
        BY <2>1, <2>2, <3>1, <3>2
    <2> QED
      BY <1>9, <2>1, <2>2
  <1> QED
    BY <1>6, <1>7, <1>8, <1>10

\* A finished step leaves the rest of the thread's program.
LEMMA FinishFacts ==
    ASSUME ListTypes, NEW t \in Threads, work[t] # <<>>
    PROVE  /\ Head(work[t]) \in Steps /\ Tail(work[t]) \in Seq(Steps)
           /\ Finish(t, <<>>) =>
                 /\ work' = [work EXCEPT ![t] = Tail(work[t])]
                 /\ work' \in [Threads -> Seq(Steps)]
  <1>1. work[t] \in Seq(Steps)
    BY DEF ListTypes
  <1>2. Head(work[t]) \in Steps /\ Tail(work[t]) \in Seq(Steps)
    BY <1>1
  <1>3. <<>> \o Tail(work[t]) = Tail(work[t])
    BY <1>2
  <1> QED
    BY <1>2, <1>3 DEF Finish, ListTypes

\* The lists that programs and deferred actions are made of.
LEMMA ListFacts ==
    /\ \A x \in Names : HandlesSignature(x) \in Seq(Writes)
    /\ \A i, a \in Nat : SetDecimation(i, a) \in Seq(Writes)
    /\ \A x \in Names : RegisterSample(x) \in Seq(Steps) /\ RegisterHandler(x) \in Seq(Steps)
    /\ \A x \in {"B", "Sum", "Product"} : Encode(x) \in Seq(Steps)
    /\ \A op \in StepOps \ {"encode"} : \A x \in Names : Do(op, x) \in Steps
    /\ Deferred \in Steps
    /\ IntrospectingWriterAlloc \in Seq(Writes) /\ DecimatingWriterAlloc \in Seq(Writes)
    /\ Writes \subseteq Steps
  <1>1. \A op \in StepOps \ {"encode"} : \A x \in Names : Do(op, x) \in Steps
    BY DEF Do, Steps, Values
  <1>2. \A x \in Names : Do("register", x) \in Writes
    BY DEF Do, Steps, Values, Writes, WriteOps, StepOps
  <1>3. \A x \in {"B", "Sum", "Product"} : Do("encode", x) \in Steps
    BY DEF Do, Steps, Values, StepOps, WriteOps, GoodValue, Names
  <1>4. \A x \in Names : [Do("encode", "handles_signature") EXCEPT !.v = x] \in Writes
    BY DEF Do, Steps, Values, StepOps, Writes, WriteOps, GoodValue, Names
  <1>5. \A i, a \in Nat :
           [Do("encode", "set_decimation") EXCEPT
              !.v = [decimation |-> a, signature_index |-> i]] \in Writes
    BY DEF Do, Steps, Values, StepOps, Writes, WriteOps, GoodValue, Names, Decimations
  <1>6. Deferred \in Steps
    BY <1>1 DEF Deferred, StepOps, Names
  <1>7. \A x \in Names : HandlesSignature(x) \in Seq(Writes)
    BY <1>4 DEF HandlesSignature
  <1>8. \A i, a \in Nat : SetDecimation(i, a) \in Seq(Writes)
    BY <1>5 DEF SetDecimation
  <1>9. Writes \subseteq Steps
    BY DEF Writes
  <1>10. \A x \in Names : RegisterSample(x) \in Seq(Steps) /\ RegisterHandler(x) \in Seq(Steps)
    <2> SUFFICES ASSUME NEW x \in Names
                 PROVE  RegisterSample(x) \in Seq(Steps) /\ RegisterHandler(x) \in Seq(Steps)
      OBVIOUS
    <2>1. Do("register", x) \in Steps /\ Do("start", x) \in Steps /\ Do("entry", x) \in Steps
      BY <1>1 DEF StepOps, WriteOps
    <2> QED
      BY <1>6, <2>1 DEF RegisterSample, RegisterHandler
  <1>11. \A x \in {"B", "Sum", "Product"} : Encode(x) \in Seq(Steps)
    BY <1>3, <1>6 DEF Encode
  <1>12. IntrospectingWriterAlloc \in Seq(Writes) /\ DecimatingWriterAlloc \in Seq(Writes)
    BY <1>2 DEF IntrospectingWriterAlloc, DecimatingWriterAlloc, Names
  <1> QED
    BY <1>1, <1>6, <1>7, <1>8, <1>9, <1>10, <1>11, <1>12

\* What a layer defers when it learns of a handler or of a definition.
LEMMA ReaderStartFacts ==
    ASSUME Types, NEW p \in Peers, NEW x \in Names, NEW i \in Nat
    PROVE  HandlesSignature(x) \o ReaderStart(p, x, i) \in Seq(Writes)
  <1>1. reader_decimation[p][x] \in Nat
    BY DEF Types, TableTypes
  <1>2. ReaderStart(p, x, i) \in Seq(Writes)
    <2>1. SetDecimation(i, reader_decimation[p][x]) \in Seq(Writes)
      BY <1>1, ListFacts
    <2>2. <<>> \in Seq(Writes)
      OBVIOUS
    <2> QED
      BY <2>1, <2>2 DEF ReaderStart
  <1>3. HandlesSignature(x) \in Seq(Writes)
    BY ListFacts
  <1> QED
    BY <1>2, <1>3

\* Deferring actions keeps the types.
LEMMA EnqueueFacts ==
    ASSUME Types, NEW p \in Peers, NEW list \in Seq(Writes), Enqueue(p, list)
    PROVE  /\ queue' \in [Peers -> Seq(Writes)]
           /\ queue' = [queue EXCEPT ![p] = queue[p] \o list]
  <1>1. queue \in [Peers -> Seq(Writes)]
    BY DEF Types, ListTypes
  <1>2. queue[p] \o list \in Seq(Writes)
    BY <1>1
  <1> QED
    BY <1>1, <1>2 DEF Enqueue

\* Every step keeps the types and the count of the packets let through.
LEMMA StepTypes ==
    ASSUME Types, DecimationExact, NEW t \in Threads, Step(t)
    PROVE  Types' /\ DecimationExact'
  <1> DEFINE p == t[1]
  <1>0. p \in Peers
    BY PeerFacts
  <1> HIDE DEF p
  <1> USE DEF decoderVars, decimatingVars, introVars, encoderVars, mainVars
  <1>1. CASE Write1(t)
    <2> DEFINE step == Head(work[t])
    <2>1. work[t] # <<>> /\ step.op \in WriteOps /\ Write(p, step) /\ Finish(t, <<>>)
      BY <1>1 DEF Write1, Current, WriteOps, p
    <2>2. step \in Writes
      BY <2>1, FinishFacts DEF Types, Writes
    <2>3. UNCHANGED <<queue, handled, remote_index, remote, ioctl_index>>
      BY <1>1 DEF Write1
    <2> HIDE DEF step
    <2>4. Wrote(p, step) /\ DecimationTypes' /\ DecimationExact' /\ UNCHANGED reader_decimation
      BY <1>0, <2>1, <2>2, WriteFacts
    <2>5. ListTypes'
      BY <1>0, <2>1, <2>2, <2>3, <2>4, WriteTypes, FinishFacts DEF Types, ListTypes
    <2>6. TableTypes'
      BY <1>0, <2>2, <2>3, <2>4, WriteTypes DEF Types, TableTypes
    <2> QED
      BY <2>4, <2>5, <2>6 DEF Types
  <1>2. CASE RunDeferred(t)
    <2> DEFINE step == Head(queue[p])
    <2>1. /\ queue[p] # <<>> /\ Write(p, step) /\ queue' = [queue EXCEPT ![p] = Tail(queue[p])]
          /\ UNCHANGED <<work, handled, remote_index, remote, ioctl_index>>
      BY <1>2 DEF RunDeferred, p
    <2>2. queue[p] \in Seq(Writes) /\ queue \in [Peers -> Seq(Writes)]
      BY <1>0 DEF Types, ListTypes
    <2>3. step \in Writes /\ Tail(queue[p]) \in Seq(Writes)
      BY <2>1, <2>2
    <2> HIDE DEF step
    <2>4. Wrote(p, step) /\ DecimationTypes' /\ DecimationExact' /\ UNCHANGED reader_decimation
      BY <1>0, <2>1, <2>3, WriteFacts
    <2>5. queue' \in [Peers -> Seq(Writes)]
      BY <2>1, <2>2, <2>3
    <2>6. ListTypes'
      BY <1>0, <2>1, <2>3, <2>4, <2>5, WriteTypes DEF Types, ListTypes
    <2>7. TableTypes'
      BY <1>0, <2>1, <2>3, <2>4, WriteTypes DEF Types, TableTypes
    <2> QED
      BY <2>4, <2>6, <2>7 DEF Types
  <1>3. CASE DeferredDone(t)
    <2>1. UNCHANGED <<queue, pipe, registered, refused, handled, remote_index, remote, status,
                      reader_decimation, writer_decimation, asked, passed, ioctl_index>>
      BY <1>3 DEF DeferredDone
    <2>2. work' \in [Threads -> Seq(Steps)]
      BY <1>3, FinishFacts DEF DeferredDone, Current, Types, ListTypes
    <2> QED
      BY <2>1, <2>2 DEF Types, TableTypes, DecimationTypes, ListTypes, DecimationExact
  <1>4. CASE StartHandler(t)
    <2> DEFINE x == Head(work[t]).x
    <2>1. /\ work[t] # <<>> /\ Enqueue(p, HandlesSignature(x) \o ReaderStart(p, x, 0))
          /\ Finish(t, <<>>)
          /\ UNCHANGED <<pipe, registered, refused, handled, remote_index, remote, status,
                         reader_decimation, writer_decimation, asked, passed, ioctl_index>>
      BY <1>4 DEF StartHandler, Current, p
    <2>2. x \in Names /\ work' \in [Threads -> Seq(Steps)]
      BY <2>1, FinishFacts DEF Types, Steps
    <2> HIDE DEF x
    <2>3. queue' \in [Peers -> Seq(Writes)]
      BY <1>0, <2>1, <2>2, ReaderStartFacts, EnqueueFacts
    <2> QED
      BY <2>1, <2>2, <2>3 DEF Types, TableTypes, DecimationTypes, ListTypes, DecimationExact
  <1>5. CASE EnterHandler(t)
    <2> DEFINE x == Head(work[t]).x
    <2>1. /\ work[t] # <<>> /\ Finish(t, <<>>)
          /\ handled' = [handled EXCEPT ![p] = handled[p] \cup {x}]
          /\ remote_index' = [remote_index EXCEPT ![p][x] = 0]
          /\ UNCHANGED <<queue, pipe, registered, refused, remote, status,
                         reader_decimation, writer_decimation, asked, passed, ioctl_index>>
      BY <1>5 DEF EnterHandler, Current, p
    <2>2. x \in Names /\ work' \in [Threads -> Seq(Steps)]
      BY <2>1, FinishFacts DEF Types, Steps
    <2> HIDE DEF x
    <2>3. handled' \in [Peers -> SUBSET Names]
      BY <1>0, <2>1, <2>2, TableUpdates DEF Types, TableTypes
    <2>4. remote_index' \in [Peers -> [Names -> Nat]]
      BY <1>0, <2>1, <2>2, TableUpdates DEF Types, TableTypes
    <2>5. \A q \in Peers : \A y \in Names : remote_index'[q][y] \in {0, Index[Peer(q)][y]}
      BY <2>1 DEF Types, TableTypes
    <2>6. ListTypes' /\ DecimationTypes' /\ DecimationExact'
      BY <2>1, <2>2 DEF Types, DecimationTypes, ListTypes, DecimationExact
    <2>7. TableTypes'
      BY <2>1, <2>3, <2>4, <2>5 DEF Types, TableTypes
    <2> QED
      BY <2>6, <2>7 DEF Types
  <1>6. CASE Defined(t)
    <2> DEFINE x == Head(work[t]).x
    <2> DEFINE i == remote_index[p][x]
    <2>1. /\ work[t] # <<>> /\ Enqueue(p, HandlesSignature(x) \o ReaderStart(p, x, i))
          /\ Finish(t, <<>>)
          /\ UNCHANGED <<pipe, registered, refused, handled, remote_index, remote, status,
                         reader_decimation, writer_decimation, asked, passed, ioctl_index>>
      BY <1>6 DEF Defined, Current, p
    <2>2. x \in Names /\ work' \in [Threads -> Seq(Steps)]
      BY <2>1, FinishFacts DEF Types, Steps
    <2>3. i \in Nat
      BY <1>0, <2>2 DEF Types, TableTypes
    <2> HIDE DEF x, i
    <2>4. queue' \in [Peers -> Seq(Writes)]
      BY <1>0, <2>1, <2>2, <2>3, ReaderStartFacts, EnqueueFacts
    <2> QED
      BY <2>1, <2>2, <2>4 DEF Types, TableTypes, DecimationTypes, ListTypes, DecimationExact
  <1>7. CASE IoctlRead(t)
    <2>1. /\ work[t] # <<>> /\ Finish(t, <<Do("ioctl_set", "Sum")>>)
          /\ ioctl_index' = remote_index["client"]["Sum"]
          /\ UNCHANGED <<queue, pipe, registered, refused, handled, remote_index, remote, status,
                         reader_decimation, writer_decimation, asked, passed>>
      BY <1>7 DEF IoctlRead, Current
    <2>2. Do("ioctl_set", "Sum") \in Steps
      BY ListFacts DEF StepOps, WriteOps, Names
    <2>3. <<Do("ioctl_set", "Sum")>> \o Tail(work[t]) \in Seq(Steps)
      BY <2>1, <2>2, FinishFacts DEF Types
    <2>4. work' \in [Threads -> Seq(Steps)]
      BY <2>1, <2>3 DEF Finish, Types, ListTypes
    <2>5. ioctl_index' \in Nat
      BY <2>1 DEF Types, TableTypes, Peers, Names
    <2> QED
      BY <2>1, <2>4, <2>5 DEF Types, TableTypes, DecimationTypes, ListTypes, DecimationExact
  <1>8. CASE IoctlSet(t)
    <2> DEFINE list == IF ioctl_index # 0 THEN SetDecimation(ioctl_index, Amount) ELSE <<>>
    <2>1. /\ work[t] # <<>> /\ Finish(t, <<>>) /\ Enqueue("client", list)
          /\ reader_decimation' = [reader_decimation EXCEPT !["client"]["Sum"] = Amount]
          /\ UNCHANGED <<pipe, registered, refused, handled, remote_index, remote, status,
                         writer_decimation, asked, passed, ioctl_index>>
      BY <1>8 DEF IoctlSet, Current
    <2>2. SetDecimation(ioctl_index, Amount) \in Seq(Writes) /\ <<>> \in Seq(Writes)
      <3>1. ioctl_index \in Nat /\ Amount \in Nat
        BY TwoWayAssumption DEF Types, TableTypes
      <3> QED
        BY <3>1, ListFacts
    <2>3. list \in Seq(Writes) /\ "client" \in Peers /\ "Sum" \in Names
      BY <2>2 DEF Peers, Names
    <2> HIDE DEF list
    <2>4. queue' \in [Peers -> Seq(Writes)]
      BY <2>1, <2>3, EnqueueFacts
    <2>5. work' \in [Threads -> Seq(Steps)]
      BY <2>1, FinishFacts DEF Types
    <2>6. reader_decimation' \in [Peers -> [Names -> Nat]]
      BY <2>1, <2>3, TableUpdates, TwoWayAssumption DEF Types, TableTypes
    <2> QED
      BY <2>1, <2>4, <2>5, <2>6
         DEF Types, TableTypes, DecimationTypes, ListTypes, DecimationExact
  <1>9. CASE t = Main("client") /\ NextRound
    <2> DEFINE first == IF round' = Late THEN RegisterHandler("Product") ELSE <<>>
    <2> DEFINE last == IF round' = Rounds THEN Do("sleep", "B") ELSE Deferred
    <2>1. /\ work' = [work EXCEPT ![Main("client")] = first \o Encode("B") \o <<last>>]
          /\ UNCHANGED <<queue, pipe, registered, refused, handled, remote_index, remote, status,
                         reader_decimation, writer_decimation, asked, passed, ioctl_index>>
      BY <1>9 DEF NextRound, Main
    <2>2. RegisterHandler("Product") \in Seq(Steps) /\ <<>> \in Seq(Steps)
      BY ListFacts DEF Names
    <2>3. first \in Seq(Steps)
      BY <2>2
    <2>4. Do("sleep", "B") \in Steps /\ Deferred \in Steps
      BY ListFacts DEF StepOps, Names
    <2>5. last \in Steps
      BY <2>4
    <2>6. Encode("B") \in Seq(Steps)
      BY ListFacts
    <2> HIDE DEF first, last
    <2>7. first \o Encode("B") \o <<last>> \in Seq(Steps)
      BY <2>3, <2>5, <2>6
    <2>8. work' \in [Threads -> Seq(Steps)]
      BY <2>1, <2>7 DEF Types, ListTypes
    <2> QED
      BY <2>1, <2>8 DEF Types, TableTypes, DecimationTypes, ListTypes, DecimationExact
  <1>10. ASSUME NEW q \in Peers, handle_sample_def(q) \/ Unknown(q) \/ Handle(q)
         PROVE  Types' /\ DecimationExact'
    <2> DEFINE m == Head(pipe[Peer(q)])
    <2>1. pipe[Peer(q)] # <<>> /\ pipe' = [pipe EXCEPT ![Peer(q)] = Tail(pipe[Peer(q)])]
      BY <1>10 DEF handle_sample_def, Unknown, Handle, Reads, Taken
    <2>2. Peer(q) \in Peers /\ pipe[Peer(q)] \in Seq(Sent(Peer(q)))
      BY PeerFacts DEF Types, ListTypes
    <2>3. m \in Sent(Peer(q)) /\ Tail(pipe[Peer(q)]) \in Seq(Sent(Peer(q)))
      BY <2>1, <2>2
    <2>4. DOMAIN pipe' = Peers /\ \A r \in Peers : pipe'[r] \in Seq(Sent(r))
      <3>1. DOMAIN pipe = Peers /\ \A r \in Peers : pipe[r] \in Seq(Sent(r))
        BY DEF Types, ListTypes
      <3>2. \A r \in Peers : pipe'[r] = IF r = Peer(q) THEN Tail(pipe[r]) ELSE pipe[r]
        BY <2>1, <3>1
      <3> QED
        BY <2>1, <2>3, <3>1, <3>2
    <2>5. m = Packet(q)
      BY DEF Packet
    <2> HIDE DEF m
    <2>6. CASE handle_sample_def(q)
      <3>1. /\ m.tag = 0 /\ m.v \in handled[q]
            /\ remote_index' = [remote_index EXCEPT ![q][m.v] = m.index]
            /\ work' = [work EXCEPT ![Decoder(q)] = <<Do("defined", m.v)>>]
            /\ UNCHANGED <<queue, registered, refused, handled, remote, status,
                           reader_decimation, writer_decimation, asked, passed, ioctl_index>>
        BY <2>5, <2>6 DEF handle_sample_def
      <3>2. m.v \in Names /\ m.index = Index[Peer(q)][m.v] /\ m.index \in Nat
        BY <2>2, <2>3, <3>1, SentFacts, IndexFacts
      <3>3. <<Do("defined", m.v)>> \in Seq(Steps)
        <4>1. Do("defined", m.v) \in Steps
          BY <3>2, ListFacts DEF StepOps
        <4> QED
          BY <4>1
      <3>4. work' \in [Threads -> Seq(Steps)]
        BY <3>1, <3>3 DEF Types, ListTypes
      <3>5. remote_index' \in [Peers -> [Names -> Nat]]
        BY <3>1, <3>2, TableUpdates DEF Types, TableTypes
      <3>6. \A r \in Peers : \A y \in Names : remote_index'[r][y] \in {0, Index[Peer(r)][y]}
        BY <3>1, <3>2 DEF Types, TableTypes
      <3> QED
        BY <2>4, <3>1, <3>4, <3>5, <3>6
           DEF Types, TableTypes, DecimationTypes, ListTypes, DecimationExact
    <2>7. CASE Unknown(q)
      <3>1. UNCHANGED <<queue, work, registered, refused, handled, remote_index, remote, status,
                        reader_decimation, writer_decimation, asked, passed, ioctl_index>>
        BY <2>7 DEF Unknown
      <3> QED
        BY <2>4, <3>1 DEF Types, TableTypes, DecimationTypes, ListTypes, DecimationExact
    <2>8. CASE Handle(q)
      <3>1. PICK x \in handled[q] :
              /\ m.tag = remote_index[q][x] /\ m.tag # 0
              /\ \/ /\ x = "handles_signature"
                    /\ handles_signature(q, m.v)
                    /\ UNCHANGED <<decimatingVars, work, got>>
                 \/ /\ x = "set_decimation"
                    /\ set_decimation(q, m.v)
                    /\ UNCHANGED <<reader_decimation, introVars, work, got>>
                 \/ /\ x = "B"
                    /\ handle_B(q)
                    /\ UNCHANGED <<decimatingVars, remote, got>>
                 \/ /\ x \in {"Sum", "Product"}
                    /\ UNCHANGED <<decimatingVars, introVars, work>>
        BY <2>5, <2>8 DEF Handle
      <3>2. UNCHANGED <<queue, registered, refused, handled, remote_index, ioctl_index>>
        BY <2>8 DEF Handle
      <3>3. x \in Names /\ m.tag = Index[Peer(q)][x]
        BY <3>1 DEF Types, TableTypes
      <3>4. GoodValue(x, m.v)
        BY <2>2, <2>3, <3>1, <3>3, SentFacts, IndexFacts
      <3>5. CASE x = "handles_signature"
        <4>1. /\ remote' = [remote EXCEPT ![q] = remote[q] \cup {m.v}]
              /\ status' = [status EXCEPT ![q][m.v] =
                              IF status[q][m.v] = "unhandled" THEN "unregistered"
                              ELSE status[q][m.v]]
              /\ UNCHANGED <<decimatingVars, work>>
          BY <3>1, <3>5 DEF handles_signature
        <4>2. m.v \in Names
          BY <3>4, <3>5 DEF GoodValue
        <4>3. remote' \in [Peers -> SUBSET Names]
          BY <4>1, <4>2, TableUpdates DEF Types, TableTypes
        <4>4. (IF status[q][m.v] = "unhandled" THEN "unregistered" ELSE status[q][m.v]) \in Statuses
          BY <4>2 DEF Types, TableTypes, Statuses
        <4>5. status' \in [Peers -> [Names -> Statuses]]
          BY <4>1, <4>2, <4>4, TableUpdates DEF Types, TableTypes
        <4>6. ListTypes' /\ DecimationTypes' /\ DecimationExact'
          BY <2>4, <3>2, <4>1 DEF Types, DecimationTypes, ListTypes, DecimationExact
        <4>7. TableTypes'
          BY <3>2, <4>1, <4>3, <4>5 DEF Types, TableTypes
        <4> QED
          BY <4>6, <4>7 DEF Types
      <3>6. CASE x = "set_decimation"
        <4>1. set_decimation(q, m.v) /\ UNCHANGED <<reader_decimation, introVars, work>>
          BY <3>1, <3>6
        <4>2. DecimationTypes' /\ DecimationExact'
          BY <3>4, <3>6, <4>1, SetDecimationExact DEF GoodValue, Types
        <4> QED
          BY <2>4, <3>2, <4>1, <4>2 DEF Types, TableTypes, ListTypes
      <3>7. CASE x = "B"
        <4> DEFINE s == get_local(q, "Product")
        <4> DEFINE reg == IF s = "unregistered" THEN RegisterSample("Product") ELSE <<>>
        <4> DEFINE enc == IF s \in {"unregistered", "registered"} THEN Encode("Product") ELSE <<>>
        <4>1. /\ status' = [status EXCEPT ![q]["Product"] = s]
              /\ work' = [work EXCEPT ![Decoder(q)] = reg \o enc \o Encode("Sum")]
              /\ UNCHANGED <<decimatingVars, remote>>
          BY <3>1, <3>7 DEF handle_B, HasSignature
        <4>2. s \in Statuses /\ "Product" \in Names
          BY DEF get_local, Types, TableTypes, Statuses, Names
        <4>3. /\ RegisterSample("Product") \in Seq(Steps) /\ Encode("Product") \in Seq(Steps)
              /\ <<>> \in Seq(Steps) /\ Encode("Sum") \in Seq(Steps)
          BY ListFacts DEF Names
        <4>4. reg \in Seq(Steps) /\ enc \in Seq(Steps)
          BY <4>3
        <4> HIDE DEF s, reg, enc
        <4>5. reg \o enc \o Encode("Sum") \in Seq(Steps)
          BY <4>3, <4>4
        <4>6. work' \in [Threads -> Seq(Steps)]
          BY <4>1, <4>5 DEF Types, ListTypes
        <4>7. status' \in [Peers -> [Names -> Statuses]]
          BY <4>1, <4>2, TableUpdates DEF Types, TableTypes
        <4> QED
          BY <2>4, <3>2, <4>1, <4>6, <4>7
             DEF Types, TableTypes, DecimationTypes, ListTypes, DecimationExact
      <3>8. CASE x \in {"Sum", "Product"}
        <4>1. UNCHANGED <<decimatingVars, introVars, work>>
          BY <3>1, <3>8
        <4> QED
          BY <2>4, <3>2, <4>1
             DEF Types, TableTypes, DecimationTypes, ListTypes, DecimationExact
      <3> QED
        BY <3>1, <3>5, <3>6, <3>7, <3>8
    <2> QED
      BY <1>10, <2>6, <2>7, <2>8
  <1> QED
    BY <1>1, <1>2, <1>3, <1>4, <1>5, <1>6, <1>7, <1>8, <1>9, <1>10 DEF Step, Main

\* The programs of the four threads, one by one.
Layers == IntrospectingReaderAlloc \o DecimatingReaderAlloc

LEMMA ProgramFacts ==
    /\ Programs(Main("client")) = RegisterSample("B") \o <<Do("ioctl", "Sum")>>
    /\ Programs(Decoder("client")) = Layers \o RegisterHandler("Sum")
    /\ Programs(Main("server")) = RegisterSample("Sum") \o <<Do("sleep", "Sum")>>
    /\ Programs(Decoder("server")) = Layers \o RegisterHandler("B")
    /\ \A t \in Threads : t \in {Main("client"), Decoder("client"), Main("server"),
                                 Decoder("server")}
    /\ \A t \in Threads : Programs(t) \in Seq(Steps)
  <1>1. /\ Programs(Main("client")) = RegisterSample("B") \o <<Do("ioctl", "Sum")>>
        /\ Programs(Decoder("client")) = Layers \o RegisterHandler("Sum")
        /\ Programs(Main("server")) = RegisterSample("Sum") \o <<Do("sleep", "Sum")>>
        /\ Programs(Decoder("server")) = Layers \o RegisterHandler("B")
    BY DEF Programs, Main, Decoder, Layers
  <1>2. \A t \in Threads : t \in {Main("client"), Decoder("client"), Main("server"),
                                  Decoder("server")}
    BY PeerFacts DEF Peers
  <1>3. /\ RegisterSample("B") \in Seq(Steps) /\ RegisterSample("Sum") \in Seq(Steps)
        /\ RegisterHandler("B") \in Seq(Steps) /\ RegisterHandler("Sum") \in Seq(Steps)
        /\ RegisterHandler("handles_signature") \in Seq(Steps)
        /\ RegisterHandler("set_decimation") \in Seq(Steps)
    BY ListFacts DEF Names
  <1>4. Do("ioctl", "Sum") \in Steps /\ Do("sleep", "Sum") \in Steps
    BY ListFacts DEF Names, StepOps
  <1>5. <<Do("ioctl", "Sum")>> \in Seq(Steps) /\ <<Do("sleep", "Sum")>> \in Seq(Steps)
    BY <1>4
  <1>6. Layers \in Seq(Steps)
    BY <1>3 DEF Layers, IntrospectingReaderAlloc, DecimatingReaderAlloc
  <1>7. \A a, b \in Seq(Steps) : a \o b \in Seq(Steps)
    OBVIOUS
  <1>8. \A t \in Threads : Programs(t) \in Seq(Steps)
    BY <1>1, <1>2, <1>3, <1>5, <1>6, <1>7
  <1> QED
    BY <1>1, <1>2, <1>8

LEMMA InitTypes == Init => Types /\ DecimationExact
  <1> SUFFICES ASSUME Init PROVE Types /\ DecimationExact
    OBVIOUS
  <1>1. work \in [Threads -> Seq(Steps)]
    BY ProgramFacts DEF Init
  <1>2. queue \in [Peers -> Seq(Writes)]
    <2>1. IntrospectingWriterAlloc \o DecimatingWriterAlloc \in Seq(Writes)
      BY ListFacts
    <2> QED
      BY <2>1 DEF Init
  <1>3. DOMAIN pipe = Peers /\ \A p \in Peers : pipe[p] \in Seq(Sent(p))
    BY DEF Init
  <1>4. TableTypes
    BY DEF Init, IntrospectingInit, DecimatingInit, TableTypes, Statuses
  <1>5. DecimationTypes /\ DecimationExact
    BY DEF Init, DecimatingInit, DecimationTypes, DecimationExact
  <1> QED
    BY <1>1, <1>2, <1>3, <1>4, <1>5 DEF Types, ListTypes

\* Types and the count are an invariant.
LEMMA NextTypes == Types /\ DecimationExact /\ [Next]_vars => (Types /\ DecimationExact)'
  <1>1. CASE Next
    BY <1>1, StepTypes DEF Next
  <1>2. CASE UNCHANGED vars
    BY <1>2
       DEF vars, decoderVars, decimatingVars, introVars, encoderVars, mainVars, Types,
           TableTypes, DecimationTypes, ListTypes, DecimationExact
  <1> QED
    BY <1>1, <1>2

\* Since the last set_decimation exactly every n-th packet of a sample was let through:
\* for every decimation, however the threads that encode interleave with the one that
\* sets it.
THEOREM DecimationExactCorrect == Spec => []DecimationExact
  BY InitTypes, NextTypes, PTL DEF Spec

-----------------------------------------------------------------------------
(* Nothing is encoded before it is registered.                             *)

\* Among the first n steps of s is a registration of x.
Registers(s, n, x) == \E j \in 1 .. n : s[j].op = "register" /\ s[j].x = x

\* Everything that s encodes is in R or registered by s itself before.
Ordered(s, R) ==
    \A k \in 1 .. Len(s) : s[k].op = "encode" => s[k].x \in R \/ Registers(s, k - 1, s[k].x)

\* The samples p may encode: Sum is the one that may come too early.
MayEncode(p) == registered[p] \cup {"Sum"}

\* The layers' own samples.
Own == {"handles_signature", "set_decimation"}

OrderedLists ==
    /\ \A p \in Peers : Ordered(queue[p], MayEncode(p))
    /\ \A t \in Threads : Ordered(work[t], MayEncode(t[1]))

\* The layers' own samples are registered, or their registration is in the queue
\* ahead of anything that may be added to it.
OwnRegistered ==
    \A p \in Peers : \A x \in Own : x \in registered[p] \/ Registers(queue[p], Len(queue[p]), x)

\* The client has registered B before its loop begins.
BRegistered ==
    LET main == work[Main("client")] IN
      "B" \in registered["client"] \/ Registers(main, Len(main), "B")

\* The introspecting layer calls nothing registered that is not.
StatusTrue ==
    \A p \in Peers : \A x \in Names : status[p][x] = "registered" => x \in registered[p]

RefusedInv == NothingRefused /\ OrderedLists /\ OwnRegistered /\ BRegistered /\ StatusTrue

\* Taking the first step of a list, once what it registers counts as registered.
LEMMA OrderedTail ==
    ASSUME NEW s \in Seq(Steps), s # <<>>, NEW R, NEW T, Ordered(s, R), R \subseteq T,
           Head(s).op = "register" => Head(s).x \in T
    PROVE  /\ Ordered(Tail(s), T)
           /\ Head(s).op = "encode" => Head(s).x \in R
           /\ \A x : Registers(s, Len(s), x) => x \in T \/ Registers(Tail(s), Len(Tail(s)), x)
  <1>1. /\ Len(s) \in Nat \ {0} /\ Len(Tail(s)) = Len(s) - 1 /\ Head(s) = s[1]
        /\ \A k \in 1 .. Len(Tail(s)) : Tail(s)[k] = s[k + 1]
    OBVIOUS
  <1>2. Head(s).op = "encode" => Head(s).x \in R
    BY <1>1 DEF Ordered, Registers
  <1>3. ASSUME NEW n \in 1 .. Len(s), NEW x, Registers(s, n, x)
        PROVE  x \in T \/ Registers(Tail(s), n - 1, x)
    <2>1. PICK j \in 1 .. n : s[j].op = "register" /\ s[j].x = x
      BY <1>3 DEF Registers
    <2>2. CASE j = 1
      BY <1>1, <2>1, <2>2
    <2>3. CASE j # 1
      <3>1. j - 1 \in 1 .. n - 1 /\ j - 1 \in 1 .. Len(Tail(s)) /\ (j - 1) + 1 = j
        BY <1>1, <2>3
      <3>2. Tail(s)[j - 1] = s[j]
        BY <1>1, <3>1
      <3> QED
        BY <2>1, <3>1, <3>2 DEF Registers
    <2> QED
      BY <2>2, <2>3
  <1>4. ASSUME NEW k \in 1 .. Len(Tail(s)), Tail(s)[k].op = "encode"
        PROVE  Tail(s)[k].x \in T \/ Registers(Tail(s), k - 1, Tail(s)[k].x)
    <2>1. Tail(s)[k] = s[k + 1] /\ k + 1 \in 1 .. Len(s) /\ (k + 1) - 1 = k /\ k \in 1 .. Len(s)
      BY <1>1
    <2>2. s[k + 1].x \in R \/ Registers(s, k, s[k + 1].x)
      BY <1>4, <2>1 DEF Ordered
    <2> QED
      BY <1>3, <2>1, <2>2
  <1> QED
    BY <1>1, <1>2, <1>3, <1>4 DEF Ordered

\* More may be encoded when more is registered.
LEMMA OrderedMore ==
    ASSUME NEW s, NEW R, NEW T, Ordered(s, R), R \subseteq T
    PROVE  Ordered(s, T)
  BY DEF Ordered

\* Two lists one after the other.
LEMMA OrderedConcat ==
    ASSUME NEW a \in Seq(Steps), NEW b \in Seq(Steps), NEW R, NEW T, Ordered(a, R), Ordered(b, T),
           \A x \in T : x \in R \/ Registers(a, Len(a), x)
    PROVE  /\ Ordered(a \o b, R)
           /\ \A x : Registers(a, Len(a), x) => Registers(a \o b, Len(a \o b), x)
           /\ \A x : Registers(b, Len(b), x) => Registers(a \o b, Len(a \o b), x)
  <1> DEFINE s == a \o b
  <1>1. /\ Len(a) \in Nat /\ Len(b) \in Nat /\ Len(s) = Len(a) + Len(b)
        /\ \A k \in 1 .. Len(a) : s[k] = a[k]
        /\ \A k \in 1 .. Len(b) : s[Len(a) + k] = b[k]
    OBVIOUS
  <1> HIDE DEF s
  <1>2. ASSUME NEW n \in 0 .. Len(a), NEW x, Registers(a, n, x)
        PROVE  \A m \in Nat : m >= n => Registers(s, m, x)
    BY <1>1, <1>2, SMTT(30) DEF Registers
  <1>3. ASSUME NEW n \in 0 .. Len(b), NEW x, Registers(b, n, x)
        PROVE  Registers(s, Len(a) + n, x)
    <2>1. PICK j \in 1 .. n : b[j].op = "register" /\ b[j].x = x
      BY <1>3 DEF Registers
    <2>2. s[Len(a) + j] = b[j] /\ Len(a) + j \in 1 .. Len(a) + n
      BY <1>1
    <2> QED
      BY <2>1, <2>2 DEF Registers
  <1>4. ASSUME NEW k \in 1 .. Len(s), s[k].op = "encode"
        PROVE  s[k].x \in R \/ Registers(s, k - 1, s[k].x)
    <2>1. CASE k <= Len(a)
      <3>1. k \in 1 .. Len(a) /\ s[k] = a[k] /\ k - 1 \in 0 .. Len(a)
        BY <1>1, <2>1
      <3>2. a[k].x \in R \/ Registers(a, k - 1, a[k].x)
        BY <1>4, <3>1 DEF Ordered
      <3> QED
        BY <1>2, <3>1, <3>2
    <2>2. CASE k > Len(a)
      <3> DEFINE j == k - Len(a)
      <3>1. j \in 1 .. Len(b) /\ s[k] = b[j] /\ j - 1 \in 0 .. Len(b)
            /\ Len(a) + (j - 1) = k - 1 /\ k - 1 >= Len(a) /\ k - 1 \in Nat
        BY <1>1, <2>2
      <3> HIDE DEF j
      <3>2. b[j].x \in T \/ Registers(b, j - 1, b[j].x)
        BY <1>4, <3>1 DEF Ordered
      <3>3. CASE b[j].x \in T
        BY <1>1, <1>2, <3>1, <3>3
      <3>4. CASE Registers(b, j - 1, b[j].x)
        BY <1>3, <3>1, <3>4
      <3> QED
        BY <3>2, <3>3, <3>4
    <2> QED
      BY <1>1, <2>1, <2>2
  <1>5. /\ \A x : Registers(a, Len(a), x) => Registers(s, Len(s), x)
        /\ \A x : Registers(b, Len(b), x) => Registers(s, Len(s), x)
    BY <1>1, <1>2, <1>3
  <1> QED
    BY <1>4, <1>5 DEF Ordered, s

LEMMA OrderedJoin ==
    ASSUME NEW a \in Seq(Steps), NEW b \in Seq(Steps), NEW R, Ordered(a, R), Ordered(b, R)
    PROVE  a \o b \in Seq(Steps) /\ Ordered(a \o b, R)
  <1>1. a \o b \in Seq(Steps)
    OBVIOUS
  <1>2. \A x \in R : x \in R \/ Registers(a, Len(a), x)
    OBVIOUS
  <1> QED
    BY <1>1, <1>2, OrderedConcat

\* The pieces that the threads' programs and the queues are made of.
LEMMA PieceFacts ==
    ASSUME NEW R
    PROVE  /\ Ordered(<<>>, R)
           /\ \A x \in R : Ordered(Encode(x), R)
           /\ \A x : Ordered(RegisterSample(x), R) /\ Registers(RegisterSample(x), 3, x)
           /\ \A x : Len(RegisterSample(x)) = 3
           /\ \A x : Ordered(RegisterHandler(x), R)
           /\ \A op, x : op # "encode" => Ordered(<<Do(op, x)>>, R)
           /\ Ordered(<<Deferred>>, R)
           /\ "handles_signature" \in R => \A x : Ordered(HandlesSignature(x), R)
           /\ "set_decimation" \in R => \A i, a : Ordered(SetDecimation(i, a), R)
  <1>1. /\ \A s : Len(<<s>>) = 1 /\ <<s>>[1] = s
        /\ \A s, t : Len(<<s, t>>) = 2 /\ <<s, t>>[1] = s /\ <<s, t>>[2] = t
        /\ \A s, t, u : Len(<<s, t, u>>) = 3 /\ <<s, t, u>>[1] = s /\ <<s, t, u>>[2] = t
                          /\ <<s, t, u>>[3] = u
        /\ Len(<<>>) = 0
    OBVIOUS
  <1>2. 1 .. 0 = {} /\ 1 .. 1 = {1} /\ 1 .. 2 = {1, 2} /\ 1 .. 3 = {1, 2, 3}
    OBVIOUS
  <1>3. Ordered(<<>>, R)
    BY <1>1, <1>2 DEF Ordered
  <1>4. \A x \in R : Ordered(Encode(x), R)
    BY <1>1, <1>2 DEF Ordered, Encode, Do, Deferred
  <1>5. \A x : Ordered(RegisterSample(x), R)
    BY <1>1, <1>2 DEF Ordered, RegisterSample, Do, Deferred
  <1>6. \A x : Registers(RegisterSample(x), 3, x) /\ Len(RegisterSample(x)) = 3
    BY <1>1, <1>2 DEF Registers, RegisterSample, Do, Deferred
  <1>7. \A x : Ordered(RegisterHandler(x), R)
    BY <1>1, <1>2 DEF Ordered, RegisterHandler, Do
  <1>8. \A op, x : op # "encode" => Ordered(<<Do(op, x)>>, R)
    BY <1>1, <1>2 DEF Ordered, Do
  <1>9. Ordered(<<Deferred>>, R)
    BY <1>8 DEF Deferred
  <1>10. "handles_signature" \in R => \A x : Ordered(HandlesSignature(x), R)
    BY <1>1, <1>2 DEF Ordered, HandlesSignature, Do
  <1>11. "set_decimation" \in R => \A i, a : Ordered(SetDecimation(i, a), R)
    BY <1>1, <1>2 DEF Ordered, SetDecimation, Do
  <1> QED
    BY <1>3, <1>4, <1>5, <1>6, <1>7, <1>8, <1>9, <1>10, <1>11

\* A call of the encoder for a step that is in order.
LEMMA WriteInOrder ==
    ASSUME Types, NothingRefused, StatusTrue, NEW p \in Peers, NEW step \in Writes, Wrote(p, step),
           step.op = "encode" => step.x \in MayEncode(p)
    PROVE  /\ NothingRefused' /\ StatusTrue'
           /\ \A q \in Peers : registered[q] \subseteq registered'[q]
           /\ step.op = "register" => step.x \in registered'[p]
  <1> DEFINE x == step.x
  <1>1. x \in Names
    BY DEF Writes, Steps
  <1>2. /\ registered \in [Peers -> SUBSET Names] /\ refused \in [Peers -> SUBSET Names]
        /\ status \in [Peers -> [Names -> Statuses]]
    BY DEF Types, TableTypes
  <1>3. CASE UNCHANGED <<registered, refused, status>> /\ (step.op = "register" => x \in registered[p])
    BY <1>3 DEF NothingRefused, StatusTrue
  <1>4. CASE /\ registered' = [registered EXCEPT ![p] = registered[p] \cup {x}]
             /\ status' = [status EXCEPT ![p][x] = "registered"]
             /\ UNCHANGED refused
    <2> HIDE DEF x
    <2>1. \A q \in Peers : registered'[q] = IF q = p THEN registered[q] \cup {x} ELSE registered[q]
      BY <1>2, <1>4
    <2>2. \A q \in Peers : \A y \in Names :
             status'[q][y] = IF q = p /\ y = x THEN "registered" ELSE status[q][y]
      BY <1>1, <1>2, <1>4
    <2>3. StatusTrue'
      BY <2>1, <2>2 DEF StatusTrue
    <2>4. NothingRefused'
      BY <1>4 DEF NothingRefused
    <2>5. step.op = "register" => x \in registered'[p]
      BY <2>1
    <2> QED
      BY <2>1, <2>3, <2>4, <2>5 DEF x
  <1>5. CASE /\ step.op = "encode" /\ x \notin registered[p]
             /\ refused' = [refused EXCEPT ![p] = refused[p] \cup {x}]
             /\ UNCHANGED <<registered, status>>
    <2>1. x = "Sum"
      BY <1>5 DEF MayEncode
    <2> HIDE DEF x
    <2>2. \A q \in Peers : refused'[q] \subseteq {"Sum"}
      BY <1>2, <1>5, <2>1 DEF NothingRefused
    <2> QED
      BY <1>5, <2>2 DEF NothingRefused, StatusTrue
  <1> QED
    BY <1>3, <1>4, <1>5 DEF Wrote

\* The lists that nobody touches stay in order as more is registered.
LEMMA ListsStay ==
    ASSUME OrderedLists, OwnRegistered, \A q \in Peers : registered[q] \subseteq registered'[q]
    PROVE  /\ \A q \in Peers : Ordered(queue[q], MayEncode(q)')
           /\ \A u \in Threads : Ordered(work[u], registered'[u[1]] \cup {"Sum"})
           /\ queue' = queue => OwnRegistered'
  <1>1. \A q \in Peers : Ordered(queue[q], MayEncode(q)')
    <2> TAKE q \in Peers
    <2>1. Ordered(queue[q], MayEncode(q)) /\ MayEncode(q) \subseteq MayEncode(q)'
      BY DEF OrderedLists, MayEncode
    <2> QED
      BY <2>1, OrderedMore
  <1>2. \A u \in Threads : Ordered(work[u], registered'[u[1]] \cup {"Sum"})
    <2> TAKE u \in Threads
    <2>1. /\ Ordered(work[u], registered[u[1]] \cup {"Sum"})
          /\ registered[u[1]] \cup {"Sum"} \subseteq registered'[u[1]] \cup {"Sum"}
      BY PeerFacts DEF OrderedLists, MayEncode
    <2> QED
      BY <2>1, OrderedMore
  <1>3. queue' = queue => OwnRegistered'
    BY DEF OwnRegistered
  <1> QED
    BY <1>1, <1>2, <1>3

\* A thread takes the first of its steps, which has registered what it was to register.
LEMMA TakeStep ==
    ASSUME Types, OrderedLists, OwnRegistered, BRegistered,
           \A q \in Peers : registered[q] \subseteq registered'[q],
           NEW t \in Threads, work[t] # <<>>, work' = [work EXCEPT ![t] = Tail(work[t])],
           Head(work[t]).op = "register" => Head(work[t]).x \in registered'[t[1]]
    PROVE  /\ \A u \in Threads : Ordered(work'[u], MayEncode(u[1])')
           /\ BRegistered'
  <1> DEFINE R == registered[t[1]] \cup {"Sum"}
  <1> DEFINE T == registered'[t[1]] \cup {"Sum"}
  <1>1. t[1] \in Peers /\ Main("client") \in Threads /\ "client" \in Peers /\ Main("client")[1] = "client"
    BY PeerFacts DEF Peers, Main
  <1>2. work \in [Threads -> Seq(Steps)] /\ work[t] \in Seq(Steps)
    BY DEF Types, ListTypes
  <1>3. Ordered(work[t], R) /\ R \subseteq T /\ (Head(work[t]).op = "register" => Head(work[t]).x \in T)
    BY <1>1 DEF OrderedLists, MayEncode
  <1>4. /\ Ordered(Tail(work[t]), T)
        /\ \A x : Registers(work[t], Len(work[t]), x) =>
             x \in T \/ Registers(Tail(work[t]), Len(Tail(work[t])), x)
    <2> HIDE DEF R, T
    <2> QED
      BY <1>2, <1>3, OrderedTail
  <1>5. \A u \in Threads : work'[u] = IF u = t THEN Tail(work[t]) ELSE work[u]
    BY <1>2
  <1>6. \A u \in Threads : Ordered(work'[u], registered'[u[1]] \cup {"Sum"})
    BY <1>4, <1>5, ListsStay
  <1>7. BRegistered'
    <2>1. CASE t = Main("client")
      <3>1. work'[Main("client")] = Tail(work[t])
        BY <1>5, <2>1
      <3>2. "B" \in registered["client"] \/ Registers(work[t], Len(work[t]), "B")
        BY <2>1 DEF BRegistered
      <3>3. T = registered'["client"] \cup {"Sum"}
        BY <1>1, <2>1
      <3>4. "B" \in registered'["client"] \/ Registers(Tail(work[t]), Len(Tail(work[t])), "B")
        BY <1>1, <1>4, <3>2, <3>3
      <3> QED
        BY <3>1, <3>4 DEF BRegistered
    <2>2. CASE t # Main("client")
      <3>1. work'[Main("client")] = work[Main("client")]
        BY <1>1, <1>5, <2>2
      <3> QED
        BY <1>1, <3>1 DEF BRegistered
    <2> QED
      BY <2>1, <2>2
  <1> QED
    BY <1>6, <1>7 DEF MayEncode

\* Deferred encodings of the layers' own samples come after their registration.
LEMMA AddActions ==
    ASSUME Types, OrderedLists, OwnRegistered, UNCHANGED registered, NEW p \in Peers,
           NEW list \in Seq(Writes), Ordered(list, Own), queue' = [queue EXCEPT ![p] = queue[p] \o list]
    PROVE  /\ \A q \in Peers : Ordered(queue'[q], MayEncode(q)')
           /\ OwnRegistered'
  <1>1. queue \in [Peers -> Seq(Writes)] /\ Seq(Writes) \subseteq Seq(Steps)
    <2>1. Writes \subseteq Steps
      BY DEF Writes
    <2> QED
      BY <2>1 DEF Types, ListTypes
  <1>2. queue[p] \in Seq(Steps) /\ list \in Seq(Steps)
    BY <1>1
  <1>3. Ordered(queue[p], MayEncode(p))
    BY DEF OrderedLists
  <1>4. \A x \in Own : x \in MayEncode(p) \/ Registers(queue[p], Len(queue[p]), x)
    BY DEF OwnRegistered, MayEncode
  <1>5. /\ Ordered(queue[p] \o list, MayEncode(p))
        /\ \A x : Registers(queue[p], Len(queue[p]), x) =>
             Registers(queue[p] \o list, Len(queue[p] \o list), x)
    BY <1>2, <1>3, <1>4, OrderedConcat
  <1>6. \A q \in Peers : queue'[q] = IF q = p THEN queue[p] \o list ELSE queue[q]
    BY <1>1
  <1>7. \A q \in Peers : MayEncode(q)' = MayEncode(q)
    BY DEF MayEncode
  <1>8. \A q \in Peers : Ordered(queue'[q], MayEncode(q)')
    BY <1>5, <1>6, <1>7 DEF OrderedLists
  <1>9. \A q \in Peers : \A x \in Own :
           x \in registered[q] \/ Registers(queue'[q], Len(queue'[q]), x)
    BY <1>5, <1>6 DEF OwnRegistered
  <1> QED
    BY <1>8, <1>9 DEF OwnRegistered

\* run_deferred takes the first action of the queue, which has registered its sample.
LEMMA TakeAction ==
    ASSUME Types, OrderedLists, OwnRegistered,
           \A q \in Peers : registered[q] \subseteq registered'[q],
           NEW p \in Peers, queue[p] # <<>>, queue' = [queue EXCEPT ![p] = Tail(queue[p])],
           Head(queue[p]).op = "register" => Head(queue[p]).x \in registered'[p]
    PROVE  /\ \A q \in Peers : Ordered(queue'[q], MayEncode(q)')
           /\ OwnRegistered'
  <1> DEFINE R == MayEncode(p)
  <1> DEFINE T == registered'[p] \cup {"Sum"}
  <1>1. queue \in [Peers -> Seq(Writes)] /\ Seq(Writes) \subseteq Seq(Steps)
    <2>1. Writes \subseteq Steps
      BY DEF Writes
    <2> QED
      BY <2>1 DEF Types, ListTypes
  <1>2. queue[p] \in Seq(Steps)
    BY <1>1
  <1>3. /\ Ordered(queue[p], R) /\ R \subseteq T
        /\ (Head(queue[p]).op = "register" => Head(queue[p]).x \in T)
    BY DEF OrderedLists, MayEncode
  <1>4. /\ Ordered(Tail(queue[p]), T)
        /\ \A x : Registers(queue[p], Len(queue[p]), x) =>
             x \in T \/ Registers(Tail(queue[p]), Len(Tail(queue[p])), x)
    <2> HIDE DEF R, T
    <2> QED
      BY <1>2, <1>3, OrderedTail
  <1>5. \A q \in Peers : queue'[q] = IF q = p THEN Tail(queue[p]) ELSE queue[q]
    BY <1>1
  <1>6. T = MayEncode(p)'
    BY DEF MayEncode
  <1>7. \A q \in Peers : Ordered(queue'[q], MayEncode(q)')
    BY <1>4, <1>5, <1>6, ListsStay
  <1>8. \A q \in Peers : \A x \in Own :
           x \in registered'[q] \/ Registers(queue'[q], Len(queue'[q]), x)
    <2> TAKE q \in Peers
    <2> TAKE x \in Own
    <2>1. x \in registered[q] \/ Registers(queue[q], Len(queue[q]), x)
      BY DEF OwnRegistered
    <2>2. x # "Sum"
      BY DEF Own
    <2> QED
      BY <1>4, <1>5, <2>1, <2>2
  <1> QED
    BY <1>7, <1>8 DEF OwnRegistered

\* Every step keeps the registrations ahead of what relies on them.
LEMMA StepRefused ==
    ASSUME Types, DecimationExact, RefusedInv, NEW t \in Threads, Step(t)
    PROVE  RefusedInv'
  <1> DEFINE p == t[1]
  <1>0. p \in Peers
    BY PeerFacts
  <1> HIDE DEF p
  <1> USE DEF decoderVars, decimatingVars, introVars, encoderVars, mainVars
  <1>a. /\ NothingRefused /\ OrderedLists /\ OwnRegistered /\ BRegistered /\ StatusTrue
        /\ ListTypes
    BY DEF RefusedInv, Types
  <1>b. SUFFICES /\ NothingRefused' /\ StatusTrue' /\ BRegistered' /\ OwnRegistered'
                 /\ \A q \in Peers : Ordered(queue'[q], MayEncode(q)')
                 /\ \A u \in Threads : Ordered(work'[u], MayEncode(u[1])')
    BY DEF RefusedInv, OrderedLists
  <1>d. RefusedInv' <=> /\ NothingRefused' /\ StatusTrue' /\ BRegistered' /\ OwnRegistered'
                        /\ \A q \in Peers : Ordered(queue'[q], MayEncode(q)')
                        /\ \A u \in Threads : Ordered(work'[u], MayEncode(u[1])')
    BY DEF RefusedInv, OrderedLists
  \* What the steps that register and encode nothing leave alone.
  <1>c. UNCHANGED <<registered, refused>> =>
           /\ NothingRefused' /\ \A q \in Peers : registered[q] \subseteq registered'[q]
           /\ (UNCHANGED status => StatusTrue')
           /\ (UNCHANGED queue => OwnRegistered' /\ \A q \in Peers : Ordered(queue'[q], MayEncode(q)'))
           /\ (UNCHANGED work => BRegistered' /\ \A u \in Threads : Ordered(work'[u], MayEncode(u[1])'))
    BY <1>a DEF NothingRefused, StatusTrue, OwnRegistered, BRegistered, OrderedLists, MayEncode
  <1>1. CASE Write1(t)
    <2> DEFINE step == Head(work[t])
    <2>1. work[t] # <<>> /\ step.op \in WriteOps /\ Write(p, step) /\ Finish(t, <<>>)
      BY <1>1 DEF Write1, Current, WriteOps, p
    <2>2. step \in Writes
      BY <1>a, <2>1, FinishFacts DEF Writes
    <2>3. UNCHANGED queue /\ work' = [work EXCEPT ![t] = Tail(work[t])]
      BY <1>1, <1>a, <2>1, FinishFacts DEF Write1
    <2>4. Wrote(p, step)
      BY <1>0, <2>1, <2>2, WriteFacts
    <2>5. step.op = "encode" => step.x \in MayEncode(p)
      <3>1. work[t] \in Seq(Steps) /\ Ordered(work[t], MayEncode(p))
        BY <1>a DEF ListTypes, OrderedLists, p
      <3>2. step = work[t][1] /\ 1 \in 1 .. Len(work[t]) /\ 1 .. (1 - 1) = {}
        BY <2>1, <3>1
      <3> QED
        BY <3>1, <3>2 DEF Ordered, Registers
    <2>6. /\ NothingRefused' /\ StatusTrue'
          /\ \A q \in Peers : registered[q] \subseteq registered'[q]
          /\ step.op = "register" => step.x \in registered'[p]
      <3> HIDE DEF step
      <3> QED
        BY <1>0, <1>a, <2>2, <2>4, <2>5, WriteInOrder
    <2>7. /\ \A u \in Threads : Ordered(work'[u], MayEncode(u[1])')
          /\ BRegistered'
      BY <1>a, <2>1, <2>3, <2>6, TakeStep DEF p
    <2> QED
      BY <1>a, <2>3, <2>6, <2>7, ListsStay
  <1>2. CASE RunDeferred(t)
    <2> DEFINE step == Head(queue[p])
    <2>1. /\ queue[p] # <<>> /\ Write(p, step) /\ queue' = [queue EXCEPT ![p] = Tail(queue[p])]
          /\ UNCHANGED work
      BY <1>2 DEF RunDeferred, p
    <2>2. queue[p] \in Seq(Writes) /\ step \in Writes /\ step = queue[p][1] /\ 1 \in 1 .. Len(queue[p])
      BY <1>0, <1>a, <2>1 DEF ListTypes
    <2>3. step.op = "encode" => step.x \in MayEncode(p)
      <3>1. Ordered(queue[p], MayEncode(p)) /\ 1 .. (1 - 1) = {}
        BY <1>0, <1>a DEF OrderedLists
      <3> QED
        BY <2>2, <3>1 DEF Ordered, Registers
    <2>4. Wrote(p, step)
      BY <1>0, <2>1, <2>2, WriteFacts
    <2>5. /\ NothingRefused' /\ StatusTrue'
          /\ \A q \in Peers : registered[q] \subseteq registered'[q]
          /\ step.op = "register" => step.x \in registered'[p]
      <3> HIDE DEF step
      <3> QED
        BY <1>0, <1>a, <2>2, <2>3, <2>4, WriteInOrder
    <2>6. /\ \A q \in Peers : Ordered(queue'[q], MayEncode(q)')
          /\ OwnRegistered'
      BY <1>0, <1>a, <2>1, <2>5, TakeAction
    <2>7. \A u \in Threads : Ordered(work'[u], MayEncode(u[1])')
      BY <1>a, <2>1, <2>5, ListsStay DEF MayEncode
    <2>8. BRegistered'
      BY <1>a, <2>1, <2>5 DEF BRegistered, Peers
    <2> QED
      BY <2>5, <2>6, <2>7, <2>8
  <1>3. CASE DeferredDone(t)
    <2>1. UNCHANGED <<queue, registered, refused, status>>
      BY <1>3 DEF DeferredDone
    <2>2. CASE UNCHANGED work
      BY <1>c, <2>1, <2>2
    <2>3. CASE Current(t, "deferred") /\ Finish(t, <<>>)
      <3>1. /\ work[t] # <<>> /\ work' = [work EXCEPT ![t] = Tail(work[t])]
            /\ Head(work[t]).op # "register"
        BY <1>a, <2>3, FinishFacts DEF Current
      <3>2. BRegistered' /\ \A u \in Threads : Ordered(work'[u], MayEncode(u[1])')
        BY <1>a, <1>c, <2>1, <3>1, TakeStep
      <3> QED
        BY <1>c, <2>1, <3>2
    <2> QED
      BY <1>3, <2>2, <2>3 DEF DeferredDone
  <1>4. CASE StartHandler(t) \/ Defined(t)
    <2> DEFINE x == Head(work[t]).x
    <2>1. PICK i \in Nat :
            Enqueue(p, HandlesSignature(x) \o ReaderStart(p, x, i))
      <3>1. CASE StartHandler(t)
        BY <3>1 DEF StartHandler, p
      <3>2. CASE Defined(t)
        <4>1. x \in Names /\ Enqueue(p, HandlesSignature(x) \o ReaderStart(p, x, remote_index[p][x]))
          BY <1>a, <3>2, FinishFacts DEF Defined, Current, Steps, p
        <4>2. remote_index[p][x] \in Nat
          BY <1>0, <4>1 DEF Types, TableTypes
        <4> QED
          BY <4>1, <4>2
      <3> QED
        BY <1>4, <3>1, <3>2
    <2>2. /\ work[t] # <<>> /\ Finish(t, <<>>) /\ Head(work[t]).op # "register"
          /\ UNCHANGED <<registered, refused, status>>
      BY <1>4 DEF StartHandler, Defined, Current
    <2>3. x \in Names /\ work' = [work EXCEPT ![t] = Tail(work[t])]
      BY <1>a, <2>2, FinishFacts DEF Steps
    <2> DEFINE list == HandlesSignature(x) \o ReaderStart(p, x, i)
    <2>4. list \in Seq(Writes)
      BY <1>0, <2>1, <2>3, ReaderStartFacts
    <2>5. Ordered(list, Own)
      <3>1. Ordered(HandlesSignature(x), Own) /\ Ordered(<<>>, Own)
            /\ \A j, a : Ordered(SetDecimation(j, a), Own)
        BY PieceFacts DEF Own
      <3>2. Ordered(ReaderStart(p, x, i), Own)
        BY <3>1 DEF ReaderStart
      <3>3. HandlesSignature(x) \in Seq(Steps) /\ ReaderStart(p, x, i) \in Seq(Steps)
        <4>1. HandlesSignature(x) \in Seq(Writes)
          BY <2>3, ListFacts
        <4>2. reader_decimation[p][x] \in Nat
          BY <1>0, <2>3 DEF Types, TableTypes
        <4>3. \A j, a \in Nat : SetDecimation(j, a) \in Seq(Writes)
          BY ListFacts
        <4>4. ReaderStart(p, x, i) \in Seq(Writes)
          <5>1. SetDecimation(i, reader_decimation[p][x]) \in Seq(Writes)
            BY <2>1, <4>2, <4>3
          <5>2. <<>> \in Seq(Writes)
            OBVIOUS
          <5> QED
            BY <5>1, <5>2 DEF ReaderStart
        <4>5. Writes \subseteq Steps
          BY ListFacts
        <4> QED
          BY <4>1, <4>4, <4>5
      <3> QED
        BY <3>1, <3>2, <3>3, OrderedConcat
    <2> HIDE DEF list
    <2>6. queue' = [queue EXCEPT ![p] = queue[p] \o list]
      BY <2>1 DEF Enqueue, list
    <2>7. OwnRegistered' /\ \A q \in Peers : Ordered(queue'[q], MayEncode(q)')
      BY <1>0, <1>a, <2>2, <2>4, <2>5, <2>6, AddActions
    <2>8. BRegistered' /\ \A u \in Threads : Ordered(work'[u], MayEncode(u[1])')
      BY <1>a, <1>c, <2>2, <2>3, TakeStep
    <2> QED
      BY <1>c, <2>2, <2>7, <2>8
  <1>5. CASE EnterHandler(t)
    <2>1. /\ work[t] # <<>> /\ Finish(t, <<>>) /\ Head(work[t]).op # "register"
          /\ UNCHANGED <<queue, registered, refused, status>>
      BY <1>5 DEF EnterHandler, Current
    <2>2. work' = [work EXCEPT ![t] = Tail(work[t])]
      BY <1>a, <2>1, FinishFacts
    <2>3. BRegistered' /\ \A u \in Threads : Ordered(work'[u], MayEncode(u[1])')
      BY <1>a, <1>c, <2>1, <2>2, TakeStep
    <2> QED
      BY <1>c, <2>1, <2>3
  <1>6. CASE IoctlSet(t)
    <2> DEFINE list == IF ioctl_index # 0 THEN SetDecimation(ioctl_index, Amount) ELSE <<>>
    <2>1. /\ work[t] # <<>> /\ Finish(t, <<>>) /\ Enqueue("client", list)
          /\ Head(work[t]).op # "register"
          /\ UNCHANGED <<registered, refused, status>>
      BY <1>6 DEF IoctlSet, Current
    <2>2. list \in Seq(Writes) /\ "client" \in Peers
      <3>1. ioctl_index \in Nat /\ Amount \in Nat
        BY TwoWayAssumption DEF Types, TableTypes
      <3>2. SetDecimation(ioctl_index, Amount) \in Seq(Writes) /\ <<>> \in Seq(Writes)
        BY <3>1, ListFacts
      <3> QED
        BY <3>2 DEF Peers
    <2>3. Ordered(list, Own)
      <3>1. Ordered(<<>>, Own) /\ \A j, a : Ordered(SetDecimation(j, a), Own)
        BY PieceFacts DEF Own
      <3> QED
        BY <3>1
    <2> HIDE DEF list
    <2>4. queue' = [queue EXCEPT !["client"] = queue["client"] \o list]
      BY <2>1 DEF Enqueue
    <2>5. OwnRegistered' /\ \A q \in Peers : Ordered(queue'[q], MayEncode(q)')
      BY <1>a, <2>1, <2>2, <2>3, <2>4, AddActions
    <2>6. work' = [work EXCEPT ![t] = Tail(work[t])]
      BY <1>a, <2>1, FinishFacts
    <2>7. BRegistered' /\ \A u \in Threads : Ordered(work'[u], MayEncode(u[1])')
      BY <1>a, <1>c, <2>1, <2>6, TakeStep
    <2> QED
      BY <1>c, <2>1, <2>5, <2>7
  <1>7. ASSUME NEW u \in Threads, NEW more \in Seq(Steps), work' = [work EXCEPT ![u] = more],
               UNCHANGED <<queue, registered, refused>>, StatusTrue', Ordered(more, MayEncode(u[1])),
               u = Main("client") => "B" \in registered["client"] \/ Registers(more, Len(more), "B")
        PROVE  RefusedInv'
    <2>1. \A v \in Threads : work'[v] = IF v = u THEN more ELSE work[v]
      BY <1>7, <1>a DEF ListTypes
    <2>2. \A v \in Threads : MayEncode(v[1])' = MayEncode(v[1])
      BY <1>7 DEF MayEncode
    <2>3. \A v \in Threads : Ordered(work'[v], MayEncode(v[1])')
      BY <1>7, <1>a, <2>1, <2>2 DEF OrderedLists
    <2>4. BRegistered'
      BY <1>7, <1>a, <2>1, PeerFacts DEF BRegistered, Peers
    <2>5. /\ NothingRefused' /\ OwnRegistered' /\ \A q \in Peers : Ordered(queue'[q], MayEncode(q)')
      BY <1>7, <1>c
    <2> QED
      BY <1>7, <2>3, <2>4, <2>5 DEF RefusedInv, OrderedLists
  <1>8. CASE IoctlRead(t)
    <2> DEFINE one == <<Do("ioctl_set", "Sum")>>
    <2> DEFINE rest == Tail(work[t])
    <2>1. /\ work[t] # <<>> /\ Head(work[t]).op # "register" /\ work' = [work EXCEPT ![t] = one \o rest]
          /\ UNCHANGED <<queue, registered, refused, status>>
      BY <1>8 DEF IoctlRead, Current, Finish
    <2>2. one \in Seq(Steps) /\ rest \in Seq(Steps) /\ one \o rest \in Seq(Steps)
      <3>1. Do("ioctl_set", "Sum") \in Steps
        BY ListFacts DEF StepOps, Names
      <3>2. one \in Seq(Steps)
        BY <3>1
      <3>3. rest \in Seq(Steps)
        BY <1>a, <2>1, FinishFacts
      <3> HIDE DEF one, rest
      <3> QED
        BY <3>2, <3>3
    <2>3. /\ Ordered(rest, MayEncode(p))
          /\ \A x : Registers(work[t], Len(work[t]), x) => x \in MayEncode(p) \/ Registers(rest, Len(rest), x)
      <3>1. work[t] \in Seq(Steps) /\ Ordered(work[t], MayEncode(p))
        BY <1>a DEF ListTypes, OrderedLists, p
      <3> QED
        BY <2>1, <3>1, OrderedTail
    <2>4. Ordered(one, MayEncode(p))
      BY PieceFacts
    <2> HIDE DEF one, rest
    <2>5. /\ Ordered(one \o rest, MayEncode(p))
          /\ \A x : Registers(rest, Len(rest), x) => Registers(one \o rest, Len(one \o rest), x)
      BY <2>2, <2>3, <2>4, OrderedConcat
    <2>6. t = Main("client") => "B" \in registered["client"] \/ Registers(one \o rest, Len(one \o rest), "B")
      BY <1>a, <2>3, <2>5 DEF BRegistered, MayEncode, Main, p
    <2>7. StatusTrue'
      BY <1>c, <2>1
    <2> QED
      BY <1>7, <1>d, <2>1, <2>2, <2>5, <2>6, <2>7 DEF p
  <1>9. CASE t = Main("client") /\ NextRound
    <2> DEFINE first == IF round' = Late THEN RegisterHandler("Product") ELSE <<>>
    <2> DEFINE last == <<IF round' = Rounds THEN Do("sleep", "B") ELSE Deferred>>
    <2>1. /\ work[t] = <<>> /\ work' = [work EXCEPT ![t] = first \o Encode("B") \o last]
          /\ UNCHANGED <<queue, registered, refused, status>>
      BY <1>9 DEF NextRound, Main
    <2>2. "B" \in registered["client"] /\ t[1] = "client"
      <3>1. ~ Registers(work[t], Len(work[t]), "B")
        BY <2>1 DEF Registers
      <3> QED
        BY <1>9, <1>a, <3>1 DEF BRegistered, Main
    <2>3. first \in Seq(Steps) /\ Encode("B") \in Seq(Steps) /\ last \in Seq(Steps)
      <3>1. RegisterHandler("Product") \in Seq(Steps) /\ <<>> \in Seq(Steps) /\ Encode("B") \in Seq(Steps)
        BY ListFacts DEF Names
      <3>2. Do("sleep", "B") \in Steps /\ Deferred \in Steps
        BY ListFacts DEF StepOps, Names
      <3> QED
        BY <3>1, <3>2
    <2>4. Ordered(first, MayEncode(t[1])) /\ Ordered(last, MayEncode(t[1]))
      <3>1. /\ Ordered(RegisterHandler("Product"), MayEncode(t[1])) /\ Ordered(<<>>, MayEncode(t[1]))
            /\ Ordered(<<Do("sleep", "B")>>, MayEncode(t[1])) /\ Ordered(<<Deferred>>, MayEncode(t[1]))
        BY PieceFacts
      <3> QED
        BY <3>1
    <2>5. Ordered(Encode("B"), MayEncode(t[1]))
      BY <2>2, PieceFacts DEF MayEncode
    <2> HIDE DEF first, last
    <2>6. Ordered(first \o Encode("B"), MayEncode(t[1])) /\ first \o Encode("B") \in Seq(Steps)
      BY <2>3, <2>4, <2>5, OrderedJoin
    <2>7. /\ Ordered(first \o Encode("B") \o last, MayEncode(t[1]))
          /\ first \o Encode("B") \o last \in Seq(Steps)
      BY <2>3, <2>4, <2>6, OrderedJoin
    <2>8. StatusTrue'
      BY <1>c, <2>1
    <2> QED
      BY <1>7, <1>d, <2>1, <2>2, <2>7, <2>8
  <1>10. ASSUME NEW q \in Peers, handle_sample_def(q) \/ Unknown(q) \/ Handle(q)
         PROVE  RefusedInv'
    <2>0. Decoder(q) \in Threads /\ Decoder(q)[1] = q /\ Decoder(q) # Main("client")
      BY PeerFacts DEF Decoder, Main
    <2>1. CASE Unknown(q)
      BY <1>d, <1>c, <2>1 DEF Unknown
    <2>2. CASE handle_sample_def(q)
      <3> DEFINE m == Packet(q)
      <3>1. /\ work' = [work EXCEPT ![Decoder(q)] = <<Do("defined", m.v)>>] /\ m.v \in handled[q]
            /\ UNCHANGED <<queue, registered, refused, status>>
        BY <2>2 DEF handle_sample_def
      <3>2. <<Do("defined", m.v)>> \in Seq(Steps)
        <4>1. m.v \in Names
          BY <3>1 DEF Types, TableTypes
        <4>2. Do("defined", m.v) \in Steps
          BY <4>1, ListFacts DEF StepOps
        <4> QED
          BY <4>2
      <3>3. Ordered(<<Do("defined", m.v)>>, MayEncode(Decoder(q)[1]))
        BY PieceFacts
      <3>4. StatusTrue'
        BY <1>c, <3>1
      <3> QED
        BY <1>7, <2>0, <3>1, <3>2, <3>3, <3>4
    <2>3. CASE Handle(q)
      <3>1. UNCHANGED <<queue, registered, refused>>
        BY <2>3 DEF Handle
      <3>2. \/ handles_signature(q, Packet(q).v) /\ UNCHANGED work /\ Packet(q).v \in Names
            \/ UNCHANGED <<status, work>>
            \/ handle_B(q)
        <4> DEFINE m == Packet(q)
        <4>1. PICK x \in handled[q] :
                /\ m.tag = remote_index[q][x] /\ m.tag # 0
                /\ \/ x = "handles_signature" /\ handles_signature(q, m.v) /\ UNCHANGED work
                   \/ UNCHANGED <<status, work>>
                   \/ handle_B(q)
          BY <2>3 DEF Handle
        <4>2. m \in Sent(Peer(q)) /\ Peer(q) \in Peers
          <5>1. pipe[Peer(q)] # <<>> /\ Peer(q) \in Peers /\ pipe[Peer(q)] \in Seq(Sent(Peer(q)))
            BY <1>a, <2>3, PeerFacts DEF Handle, Reads, ListTypes
          <5> QED
            BY <5>1 DEF Packet
        <4> HIDE DEF m
        <4>3. x \in Names /\ m.tag = Index[Peer(q)][x]
          BY <4>1 DEF Types, TableTypes
        <4>4. GoodValue(x, m.v)
          BY <4>1, <4>2, <4>3, SentFacts, IndexFacts
        <4> QED
          BY <4>1, <4>4 DEF GoodValue, m
      <3>3. CASE handles_signature(q, Packet(q).v) /\ UNCHANGED work /\ Packet(q).v \in Names
        <4> DEFINE v == Packet(q).v
        <4>1. /\ status' = [status EXCEPT ![q][v] =
                              IF status[q][v] = "unhandled" THEN "unregistered" ELSE status[q][v]]
              /\ v \in Names /\ status \in [Peers -> [Names -> Statuses]]
          BY <3>3 DEF handles_signature, Types, TableTypes
        <4> HIDE DEF v
        <4>2. \A r \in Peers : \A y \in Names : status'[r][y] = "registered" => status[r][y] = "registered"
          BY <4>1
        <4>3. StatusTrue'
          BY <1>a, <3>1, <4>2 DEF StatusTrue
        <4> QED
          BY <1>d, <1>c, <3>1, <3>3, <4>3
      <3>4. CASE UNCHANGED <<status, work>>
        BY <1>d, <1>c, <3>1, <3>4
      <3>5. CASE handle_B(q)
        <4> DEFINE s == get_local(q, "Product")
        <4> DEFINE reg == IF s = "unregistered" THEN RegisterSample("Product") ELSE <<>>
        <4> DEFINE enc == IF s \in {"unregistered", "registered"} THEN Encode("Product") ELSE <<>>
        <4>1. /\ status' = [status EXCEPT ![q]["Product"] = s]
              /\ work' = [work EXCEPT ![Decoder(q)] = reg \o enc \o Encode("Sum")]
          BY <3>5 DEF handle_B, HasSignature
        <4>2. s = "registered" => "Product" \in registered[q]
          BY <1>a DEF get_local, StatusTrue, Names
        <4>3. /\ RegisterSample("Product") \in Seq(Steps) /\ Encode("Product") \in Seq(Steps)
              /\ <<>> \in Seq(Steps) /\ Encode("Sum") \in Seq(Steps)
          BY ListFacts DEF Names
        <4>4. reg \in Seq(Steps) /\ enc \in Seq(Steps)
          BY <4>3
        <4> DEFINE R == MayEncode(q)
        <4>5. Ordered(reg, R)
          <5>1. Ordered(RegisterSample("Product"), R) /\ Ordered(<<>>, R)
            BY PieceFacts
          <5> QED
            BY <5>1
        <4>6. s = "unregistered" => Registers(reg, Len(reg), "Product")
          BY PieceFacts
        <4> DEFINE T == IF s \in {"unregistered", "registered"} THEN R \cup {"Product"} ELSE R
        <4>7. Ordered(enc, T)
          <5>1. Ordered(<<>>, T) /\ \A x \in T : Ordered(Encode(x), T)
            BY PieceFacts
          <5> QED
            BY <5>1
        <4>8. \A x \in T : x \in R \/ Registers(reg, Len(reg), x)
          BY <4>2, <4>6 DEF MayEncode
        <4>9. Ordered(Encode("Sum"), R)
          BY PieceFacts DEF MayEncode
        <4>10. StatusTrue'
          <5>1. status \in [Peers -> [Names -> Statuses]]
            BY DEF Types, TableTypes
          <5> HIDE DEF s
          <5>2. \A r \in Peers : \A y \in Names :
                   status'[r][y] = IF r = q /\ y = "Product" THEN s ELSE status[r][y]
            BY <4>1, <5>1
          <5> QED
            BY <1>a, <3>1, <4>2, <5>2 DEF StatusTrue
        <4> HIDE DEF s, reg, enc, R, T
        <4>11. Ordered(reg \o enc, R) /\ reg \o enc \in Seq(Steps)
          BY <4>4, <4>5, <4>7, <4>8, OrderedConcat
        <4>12. Ordered(reg \o enc \o Encode("Sum"), R) /\ reg \o enc \o Encode("Sum") \in Seq(Steps)
          BY <4>3, <4>9, <4>11, OrderedJoin
        <4> QED
          BY <1>7, <2>0, <3>1, <4>1, <4>10, <4>12 DEF R
      <3> QED
        BY <3>2, <3>3, <3>4, <3>5
    <2> QED
      BY <1>10, <2>1, <2>2, <2>3
  <1> QED
    BY <1>1, <1>2, <1>3, <1>4, <1>5, <1>6, <1>8, <1>9, <1>10, <1>d DEF Step, Main

LEMMA InitRefused == Init => RefusedInv
  <1> SUFFICES ASSUME Init PROVE RefusedInv
    OBVIOUS
  <1>1. NothingRefused /\ StatusTrue
    BY DEF Init, IntrospectingInit, NothingRefused, StatusTrue
  <1> DEFINE first == Do("register", "handles_signature")
  <1> DEFINE second == Do("register", "set_decimation")
  <1>2. \A p \in Peers : Len(queue[p]) = 2 /\ queue[p][1] = first /\ queue[p][2] = second
    <2>1. \A a, b \in Steps : LET s == <<a>> \o <<b>> IN Len(s) = 2 /\ s[1] = a /\ s[2] = b
      OBVIOUS
    <2>2. first \in Steps /\ second \in Steps
      BY ListFacts DEF StepOps, WriteOps, Names
    <2>3. queue = [p \in Peers |-> <<first>> \o <<second>>]
      BY DEF Init, IntrospectingWriterAlloc, DecimatingWriterAlloc
    <2> HIDE DEF first, second
    <2> QED
      BY <2>1, <2>2, <2>3
  <1>3. \A p \in Peers : Ordered(queue[p], MayEncode(p))
    BY <1>2 DEF Ordered, Do
  <1>4. OwnRegistered
    BY <1>2 DEF OwnRegistered, Own, Registers, Do
  <1> DEFINE main == RegisterSample("B") \o <<Do("ioctl", "Sum")>>
  <1>5. \A R : Ordered(main, R) /\ Registers(main, Len(main), "B")
    <2> TAKE R
    <2>1. RegisterSample("B") \in Seq(Steps) /\ <<Do("ioctl", "Sum")>> \in Seq(Steps)
      <3>1. Do("ioctl", "Sum") \in Steps
        BY ListFacts DEF StepOps, Names
      <3> QED
        BY <3>1, ListFacts DEF Names
    <2>2. /\ Ordered(RegisterSample("B"), R) /\ Ordered(<<Do("ioctl", "Sum")>>, R)
          /\ Registers(RegisterSample("B"), Len(RegisterSample("B")), "B")
      BY PieceFacts
    <2> QED
      BY <2>1, <2>2, OrderedConcat
  <1>6. \A R : /\ Ordered(Layers \o RegisterHandler("Sum"), R)
               /\ Ordered(Layers \o RegisterHandler("B"), R)
               /\ Ordered(RegisterSample("Sum") \o <<Do("sleep", "Sum")>>, R)
    <2> TAKE R
    <2>1. \A x \in Names : RegisterHandler(x) \in Seq(Steps) /\ RegisterSample(x) \in Seq(Steps)
      BY ListFacts
    <2>2. \A x : Ordered(RegisterHandler(x), R) /\ Ordered(RegisterSample(x), R)
                 /\ Ordered(<<Do("sleep", x)>>, R)
      BY PieceFacts
    <2>3. Layers \in Seq(Steps) /\ Ordered(Layers, R)
      BY <2>1, <2>2, OrderedJoin
         DEF Layers, IntrospectingReaderAlloc, DecimatingReaderAlloc, Names
    <2>4. <<Do("sleep", "Sum")>> \in Seq(Steps)
      <3>1. Do("sleep", "Sum") \in Steps
        BY ListFacts DEF StepOps, Names
      <3> QED
        BY <3>1
    <2>5. Ordered(Layers \o RegisterHandler("Sum"), R) /\ Ordered(Layers \o RegisterHandler("B"), R)
      BY <2>1, <2>2, <2>3, OrderedJoin DEF Names
    <2>6. Ordered(RegisterSample("Sum") \o <<Do("sleep", "Sum")>>, R)
      BY <2>1, <2>2, <2>4, OrderedJoin DEF Names
    <2> QED
      BY <2>5, <2>6
  <1>7. \A t \in Threads : work[t] = Programs(t)
    BY DEF Init
  <1> HIDE DEF main
  <1>8. \A t \in Threads : Ordered(work[t], MayEncode(t[1]))
    BY <1>5, <1>6, <1>7, ProgramFacts DEF main
  <1>9. BRegistered
    BY <1>5, <1>7, ProgramFacts, PeerFacts DEF BRegistered, main, Peers
  <1> QED
    BY <1>1, <1>3, <1>4, <1>8, <1>9 DEF RefusedInv, OrderedLists

\* No sample but Sum is encoded before it is registered, for any capacity of the
\* connections and any interleaving of the threads and their deferred actions.
THEOREM NothingRefusedCorrect == Spec => []NothingRefused
  <1>1. Types /\ DecimationExact /\ RefusedInv /\ [Next]_vars => RefusedInv'
    <2>1. CASE Next
      BY <2>1, StepRefused DEF Next
    <2>2. CASE UNCHANGED vars
      BY <2>2
         DEF vars, encoderVars, introVars, RefusedInv, NothingRefused, OrderedLists, OwnRegistered,
             BRegistered, StatusTrue, MayEncode
    <2> QED
      BY <2>1, <2>2
  <1>2. RefusedInv => NothingRefused
    BY DEF RefusedInv
  <1> QED
    BY <1>1, <1>2, InitTypes, NextTypes, InitRefused, PTL DEF Spec

-----------------------------------------------------------------------------
(* Nothing arrives that is not handled.                                    *)

\* What a peer handles from the moment it begins to read.
Base(p) == Own \cup {IF p = "client" THEN "Sum" ELSE "B"}

\* The client handles Product, which it does from round Late on.
Ready == "Product" \in handled["client"]

\* What a peer may define: what the other one handles.
MayDefine(p) == Base(Peer(p)) \cup (IF p = "server" /\ Ready THEN {"Product"} ELSE {})

\* The indices of the samples that p has registered.
Known(p) == {Index[p][x] : x \in registered[p]}

\* What a thread has to do: the two that define and encode samples of their own, the
\* handlers that are entered, and who runs deferred actions.
StepOK(t, s) ==
    /\ s.op \in WriteOps => s.x \in MayDefine(t[1]) \ Own
    /\ s.op \in {"start", "entry"} => /\ t = Decoder(t[1]) => s.x \in Base(t[1])
                                      /\ t # Decoder(t[1]) => t = Main("client") /\ s.x = "Product"
    /\ s.op = "defined" => s.x \in handled[t[1]]
    /\ s.op \in {"deferred", "sleep"} => t # Decoder("client")
    /\ s.op \in {"ioctl", "ioctl_set"} => t = Main("client")

\* A handler that was started is entered next.
EntryNext(s) == \A k \in 1 .. Len(s) : s[k].op = "start" => k < Len(s) /\ s[k + 1].op = "entry"

HasEntry(s) == \E k \in 1 .. Len(s) : s[k].op = "entry"

WorkOK ==
    \A t \in Threads : EntryNext(work[t]) /\ \A k \in 1 .. Len(work[t]) : StepOK(t, work[t][k])

OnlyEntry(s) == \A j, k \in 1 .. Len(s) : s[j].op = "entry" /\ s[k].op = "entry" => j = k

\* The client's main thread enters one handler, that of Product, once.
OneEntry ==
    LET main == work[Main("client")] IN
      /\ OnlyEntry(main) /\ round \in Nat
      /\ HasEntry(main) => ~ Ready
      /\ Ready \/ HasEntry(main) => round >= Late

\* The client's main thread is about to enter the handler of Product.
Entering ==
    LET main == work[Main("client")] IN main # <<>> /\ Head(main).op = "entry"

\* What is deferred: the layers' own samples, with values that are true when sent.
ActionOK(p, s) ==
    /\ s.x \in Own
    /\ s.op = "encode" /\ s.x = "handles_signature" /\ s.v = "Product" /\ p = "client"
         => Ready \/ Entering
    /\ s.op = "encode" /\ s.x = "set_decimation" => s.v.signature_index \in Known(Peer(p))

QueueOK == \A p \in Peers : \A k \in 1 .. Len(queue[p]) : ActionOK(p, queue[p][k])

\* What is on the way to the peer: what it handles, and values that are true.
PacketOK(p, m) ==
    /\ m.tag = 0 => m.v \in MayDefine(p) \cap registered[p]
    /\ m.tag = Index[p]["handles_signature"] /\ m.v = "Product" /\ p = "client" => Ready
    /\ m.tag = Index[p]["set_decimation"] => m.v.signature_index \in Known(Peer(p))

PipeOK == \A p \in Peers : \A k \in 1 .. Len(pipe[p]) : PacketOK(p, pipe[p][k])

\* Among the first n packets of s is a definition of x.
Defines(s, n, x) == \E j \in 1 .. n : s[j].tag = 0 /\ s[j].v = x

\* A sample comes after its definition.
Definitions ==
    \A p \in Peers : \A x \in Names :
      \/ remote_index[Peer(p)][x] # 0
      \/ /\ \A k \in 1 .. Len(pipe[p]) :
              pipe[p][k].tag = Index[p][x] => Defines(pipe[p], k - 1, x)
         /\ x \in registered[p] => Defines(pipe[p], Len(pipe[p]), x)

\* A peer reads nothing before it handles what it is to handle from the beginning.
Begins ==
    \A p \in Peers :
      /\ handled[p] \subseteq Base(p) \cup (IF p = "client" THEN {"Product"} ELSE {})
      /\ \A x \in Base(p) : x \in handled[p] \/
           \E k \in 1 .. Len(work[Decoder(p)]) : work[Decoder(p)][k] = Do("entry", x)
      /\ HasEntry(work[Decoder(p)]) => \A x \in Names : remote_index[p][x] = 0

\* What the tables of a peer say of the other is true.
TablesTrue ==
    /\ \A p \in Peers : \A x \in Names :
         remote_index[p][x] # 0 => x \in handled[p] /\ x \in registered[Peer(p)]
    /\ "Product" \in remote["server"] => Ready
    /\ status["server"]["Product"] \in {"unregistered", "registered"} => Ready
    /\ ioctl_index # 0 => ioctl_index \in Known("server")
    /\ \A p \in Peers : \A i \in Indices : writer_decimation[p][i].n # 0 => i \in Known(p)

RunInv == WorkOK /\ OneEntry /\ QueueOK /\ PipeOK /\ Definitions /\ Begins /\ TablesTrue

\* Taking the first element of a list.
LEMMA TailIs ==
    ASSUME NEW S, NEW s \in Seq(S), s # <<>>
    PROVE  /\ Len(s) \in Nat \ {0} /\ Len(Tail(s)) = Len(s) - 1 /\ Tail(s) \in Seq(S)
           /\ Head(s) = s[1] /\ 1 \in 1 .. Len(s) /\ Head(s) \in S
           /\ \A k \in 1 .. Len(Tail(s)) : Tail(s)[k] = s[k + 1] /\ k + 1 \in 1 .. Len(s)
           /\ \A k \in 1 .. Len(s) : k = 1 \/ (k - 1 \in 1 .. Len(Tail(s)) /\ Tail(s)[k - 1] = s[k])
  OBVIOUS

\* Adding elements to a list.
LEMMA ConcatIs ==
    ASSUME NEW S, NEW s \in Seq(S), NEW r \in Seq(S)
    PROVE  /\ Len(s) \in Nat /\ Len(r) \in Nat /\ Len(s \o r) = Len(s) + Len(r) /\ s \o r \in Seq(S)
           /\ \A k \in 1 .. Len(s) : (s \o r)[k] = s[k]
           /\ \A k \in 1 .. Len(s \o r) :
                \/ k \in 1 .. Len(s) /\ (s \o r)[k] = s[k]
                \/ k - Len(s) \in 1 .. Len(r) /\ (s \o r)[k] = r[k - Len(s)]
  OBVIOUS

\* The lists of steps when the first one is taken.
LEMMA EntryTail ==
    ASSUME NEW s \in Seq(Steps), s # <<>>, EntryNext(s)
    PROVE  /\ EntryNext(Tail(s))
           /\ HasEntry(Tail(s)) => HasEntry(s)
           /\ Head(s).op = "entry" => HasEntry(s)
           /\ Head(s).op = "start" => Tail(s) # <<>> /\ Head(Tail(s)).op = "entry"
  <1>1. /\ Len(s) \in Nat \ {0} /\ Len(Tail(s)) = Len(s) - 1 /\ Tail(s) \in Seq(Steps)
        /\ Head(s) = s[1] /\ 1 \in 1 .. Len(s)
        /\ \A k \in 1 .. Len(Tail(s)) : Tail(s)[k] = s[k + 1] /\ k + 1 \in 1 .. Len(s)
    BY TailIs
  <1>2. EntryNext(Tail(s))
    <2> SUFFICES ASSUME NEW k \in 1 .. Len(Tail(s)), Tail(s)[k].op = "start"
                 PROVE  k < Len(Tail(s)) /\ Tail(s)[k + 1].op = "entry"
      BY DEF EntryNext
    <2>1. k + 1 < Len(s) /\ s[(k + 1) + 1].op = "entry"
      BY <1>1 DEF EntryNext
    <2>2. k < Len(Tail(s)) /\ k + 1 \in 1 .. Len(Tail(s))
      BY <1>1, <2>1
    <2> QED
      BY <1>1, <2>1, <2>2
  <1>3. HasEntry(Tail(s)) => HasEntry(s)
    BY <1>1 DEF HasEntry
  <1>4. Head(s).op = "entry" => HasEntry(s)
    BY <1>1 DEF HasEntry
  <1>5. Head(s).op = "start" => Tail(s) # <<>> /\ Head(Tail(s)).op = "entry"
    <2> SUFFICES ASSUME Head(s).op = "start"
                 PROVE  Tail(s) # <<>> /\ Head(Tail(s)).op = "entry"
      OBVIOUS
    <2>1. 1 < Len(s) /\ s[2].op = "entry"
      BY <1>1 DEF EntryNext
    <2>2. Len(Tail(s)) > 0 /\ 1 \in 1 .. Len(Tail(s)) /\ Tail(s)[1] = s[2]
      BY <1>1, <2>1
    <2>3. Tail(s) # <<>> /\ Head(Tail(s)) = Tail(s)[1]
      <3>1. \A r \in Seq(Steps) : Len(r) > 0 => r # <<>> /\ Head(r) = r[1]
        OBVIOUS
      <3> QED
        BY <1>1, <2>2, <3>1
    <2> QED
      BY <2>1, <2>2, <2>3
  <1> QED
    BY <1>2, <1>3, <1>4, <1>5

\* More handlers and more registrations: what no step takes back.
Grows ==
    \A p \in Peers : handled[p] \subseteq handled'[p] /\ registered[p] \subseteq registered'[p]

LEMMA GrowFacts ==
    ASSUME Grows
    PROVE  /\ Ready => Ready'
           /\ \A p \in Peers : MayDefine(p) \subseteq MayDefine(p)' /\ Known(p) \subseteq Known(p)'
           /\ \A t \in Threads : \A s : StepOK(t, s) => StepOK(t, s)'
           /\ \A p \in Peers : \A m : PacketOK(p, m) => PacketOK(p, m)'
           /\ (Entering => Entering' \/ Ready') =>
                \A p \in Peers : \A s : ActionOK(p, s) => ActionOK(p, s)'
  <1>1. Ready => Ready'
    BY DEF Grows, Ready, Peers
  <1>2. \A p \in Peers : MayDefine(p) \subseteq MayDefine(p)'
    BY <1>1 DEF MayDefine
  <1>3. \A p \in Peers : Known(p) \subseteq Known(p)'
    BY DEF Grows, Known
  <1>4. \A t \in Threads : \A s : StepOK(t, s) => StepOK(t, s)'
    BY <1>2, PeerFacts DEF StepOK, Grows
  <1>5. \A p \in Peers : \A m : PacketOK(p, m) => PacketOK(p, m)'
    BY <1>1, <1>2, <1>3, PeerFacts DEF PacketOK, Grows
  <1>6. (Entering => Entering' \/ Ready') =>
           \A p \in Peers : \A s : ActionOK(p, s) => ActionOK(p, s)'
    BY <1>1, <1>3, PeerFacts DEF ActionOK
  <1> QED
    BY <1>1, <1>2, <1>3, <1>4, <1>5, <1>6

\* A thread's program is in order when the thread takes a step ...
LEMMA WorkTail ==
    ASSUME Types, WorkOK, Grows, NEW t \in Threads, work[t] # <<>>,
           work' = [work EXCEPT ![t] = Tail(work[t])]
    PROVE  WorkOK'
  <1>1. work \in [Threads -> Seq(Steps)] /\ work[t] \in Seq(Steps)
    BY DEF Types, ListTypes
  <1>2. \A u \in Threads : work'[u] = IF u = t THEN Tail(work[t]) ELSE work[u]
    BY <1>1
  <1>3. \A u \in Threads : EntryNext(work'[u])
    BY <1>1, <1>2, EntryTail DEF WorkOK
  <1>4. \A k \in 1 .. Len(Tail(work[t])) : StepOK(t, Tail(work[t])[k])
    BY <1>1, TailIs DEF WorkOK
  <1>5. \A u \in Threads : \A k \in 1 .. Len(work'[u]) : StepOK(u, work'[u][k])
    BY <1>2, <1>4 DEF WorkOK
  <1> QED
    BY <1>3, <1>5, GrowFacts DEF WorkOK

\* ... and when it is given steps that are.
LEMMA WorkSet ==
    ASSUME Types, WorkOK, Grows, NEW t \in Threads, NEW more \in Seq(Steps),
           work' = [work EXCEPT ![t] = more],
           EntryNext(more), \A k \in 1 .. Len(more) : StepOK(t, more[k])
    PROVE  WorkOK'
  <1>1. work \in [Threads -> Seq(Steps)]
    BY DEF Types, ListTypes
  <1>2. \A u \in Threads : work'[u] = IF u = t THEN more ELSE work[u]
    BY <1>1
  <1>3. \A u \in Threads : EntryNext(work'[u])
    BY <1>2 DEF WorkOK
  <1>4. \A u \in Threads : \A k \in 1 .. Len(work'[u]) : StepOK(u, work'[u][k])
    BY <1>2 DEF WorkOK
  <1> QED
    BY <1>3, <1>4, GrowFacts DEF WorkOK

\* The client's main thread does not enter a handler now.
LEMMA OneEntryTail ==
    ASSUME Types, WorkOK, OneEntry, NEW t \in Threads, work[t] # <<>>,
           work' = [work EXCEPT ![t] = Tail(work[t])], UNCHANGED round,
           Ready' <=> Ready \/ (t = Main("client") /\ Head(work[t]).op = "entry")
    PROVE  /\ OneEntry'
           /\ Entering => Entering' \/ Ready'
  <1> DEFINE m == Main("client")
  <1>1. m \in Threads /\ work \in [Threads -> Seq(Steps)] /\ work[t] \in Seq(Steps)
    BY PeerFacts DEF Types, ListTypes, Peers
  <1>2. CASE t # m
    <2>1. work'[m] = work[m]
      BY <1>1, <1>2
    <2> QED
      BY <1>2, <2>1 DEF OneEntry, Entering
  <1>3. CASE t = m
    <2> DEFINE s == work[t]
               r == Tail(work[t])
    <2>1. work[m] = s /\ work'[m] = r
      BY <1>1, <1>3
    <2>2. /\ Len(s) \in Nat \ {0} /\ Len(r) = Len(s) - 1
          /\ Head(s) = s[1] /\ 1 \in 1 .. Len(s)
          /\ \A k \in 1 .. Len(r) : r[k] = s[k + 1] /\ k + 1 \in 1 .. Len(s)
      BY <1>1, TailIs
    <2>3. /\ HasEntry(r) => HasEntry(s)
          /\ Head(s).op = "entry" => HasEntry(s)
      BY <1>1, EntryTail DEF WorkOK
    <2> HIDE DEF s, r, m
    <2>4. \A j, k \in 1 .. Len(s) : s[j].op = "entry" /\ s[k].op = "entry" => j = k
      BY <2>1 DEF OneEntry, OnlyEntry, m
    <2>5. \A j, k \in 1 .. Len(r) : r[j].op = "entry" /\ r[k].op = "entry" => j = k
      <3> SUFFICES ASSUME NEW j \in 1 .. Len(r), NEW k \in 1 .. Len(r),
                          r[j].op = "entry", r[k].op = "entry"
                   PROVE  j = k
        OBVIOUS
      <3>1. j + 1 = k + 1
        BY <2>2, <2>4
      <3> QED
        BY <2>2, <3>1
    <2>6. Head(s).op = "entry" => ~ HasEntry(r)
      <3> SUFFICES ASSUME s[1].op = "entry", NEW k \in 1 .. Len(r), r[k].op = "entry" PROVE FALSE
        BY <2>2 DEF HasEntry
      <3>1. k + 1 = 1
        BY <2>2, <2>4
      <3> QED
        BY <2>2, <3>1
    <2>7. Ready' <=> Ready \/ Head(s).op = "entry"
      BY <1>3 DEF s, m
    <2>8. /\ HasEntry(s) => ~ Ready
          /\ Ready \/ HasEntry(s) => round >= Late
      BY <2>1 DEF OneEntry, m
    <2>9. OneEntry'
      <3>1. /\ HasEntry(r) => ~ Ready'
            /\ Ready' \/ HasEntry(r) => round' >= Late
        BY <2>3, <2>6, <2>7, <2>8
      <3> QED
        BY <2>1, <2>5, <3>1 DEF OneEntry, OnlyEntry, m
    <2>10. Entering => Ready'
      BY <2>1, <2>7 DEF Entering, m
    <2> QED
      BY <2>9, <2>10
  <1> QED
    BY <1>2, <1>3

\* A new program of another thread, or a step that changes no program.
LEMMA OneEntryStays ==
    ASSUME OneEntry, work'[Main("client")] = work[Main("client")], UNCHANGED round, Ready' <=> Ready
    PROVE  OneEntry' /\ (Entering => Entering' \/ Ready')
  BY DEF OneEntry, Entering

\* What the decoder threads have begun with when a step enters no handler.
LEMMA BeginsStays ==
    ASSUME Types, WorkOK, Begins, UNCHANGED handled,
           \A p \in Peers :
             LET d == Decoder(p) IN
             /\ \/ work'[d] = work[d]
                \/ work[d] # <<>> /\ work'[d] = Tail(work[d]) /\ Head(work[d]).op # "entry"
                \/ work[d] = <<>> /\ ~ HasEntry(work'[d])
             /\ remote_index'[p] = remote_index[p] \/ work[d] = <<>>
    PROVE  Begins'
  <1> SUFFICES ASSUME NEW p \in Peers
               PROVE  /\ \A x \in Base(p) : x \in handled[p] \/
                           \E k \in 1 .. Len(work'[Decoder(p)]) : work'[Decoder(p)][k] = Do("entry", x)
                      /\ HasEntry(work'[Decoder(p)]) => \A x \in Names : remote_index'[p][x] = 0
    BY DEF Begins, Base
  <1> DEFINE d == Decoder(p)
             Pending(s, x) == \E k \in 1 .. Len(s) : s[k] = Do("entry", x)
  <1>1. d \in Threads /\ work[d] \in Seq(Steps)
    BY PeerFacts DEF Types, ListTypes
  <1>2. /\ \A x \in Base(p) : x \in handled[p] \/ Pending(work[d], x)
        /\ HasEntry(work[d]) => \A x \in Names : remote_index[p][x] = 0
    BY DEF Begins
  <1>3. CASE work'[d] = work[d]
    <2>1. work[d] = <<>> => ~ HasEntry(work[d])
      BY DEF HasEntry
    <2> QED
      BY <1>2, <1>3, <2>1
  <1>4. CASE work[d] # <<>> /\ work'[d] = Tail(work[d]) /\ Head(work[d]).op # "entry"
    <2>1. /\ Head(work[d]) = work[d][1]
          /\ \A k \in 1 .. Len(work[d]) :
               k = 1 \/ (k - 1 \in 1 .. Len(Tail(work[d])) /\ Tail(work[d])[k - 1] = work[d][k])
      BY <1>1, <1>4, TailIs
    <2>2. \A x : Do("entry", x).op = "entry"
      BY DEF Do
    <2>3. \A x : Pending(work[d], x) => Pending(work'[d], x)
      <3> SUFFICES ASSUME NEW x, NEW k \in 1 .. Len(work[d]), work[d][k] = Do("entry", x)
                   PROVE  Pending(work'[d], x)
        OBVIOUS
      <3>1. k # 1
        BY <1>4, <2>1, <2>2
      <3> QED
        BY <1>4, <2>1, <3>1
    <2>4. HasEntry(work'[d]) => HasEntry(work[d])
      BY <1>1, <1>4, EntryTail DEF WorkOK
    <2> QED
      BY <1>2, <1>4, <2>3, <2>4
  <1>5. CASE work[d] = <<>> /\ ~ HasEntry(work'[d])
    <2>1. \A x : ~ Pending(work[d], x)
      BY <1>5
    <2> QED
      BY <1>2, <1>5, <2>1
  <1> QED
    BY <1>3, <1>4, <1>5

\* A call of the encoder sends only what the peer handles and understands.
LEMMA WriteRuns ==
    ASSUME Types, DecimationExact, PipeOK, Definitions, TablesTrue,
           NEW p \in Peers, NEW step \in Writes, Write(p, step),
           step.op = "register" => step.x \in MayDefine(p),
           step.op = "encode" /\ step.x = "handles_signature" /\ step.v = "Product" /\ p = "client"
             => Ready,
           step.op = "encode" /\ step.x = "set_decimation" => step.v.signature_index \in Known(Peer(p)),
           UNCHANGED <<handled, remote_index, remote, ioctl_index>>
    PROVE  Grows /\ PipeOK' /\ Definitions' /\ TablesTrue'
  <1> DEFINE x == step.x
             i == Index[p][x]
  <1>1. x \in Names /\ i \in Indices /\ i # 0 /\ (step.op = "encode" => step.v \in Values)
    BY IndexFacts DEF Writes, Steps
  <1>2. /\ Wrote(p, step)
        /\ UNCHANGED writer_decimation \/ WriterStart(p, i)
    BY WriteFacts
  <1>3. /\ registered \in [Peers -> SUBSET Names] /\ status \in [Peers -> [Names -> Statuses]]
        /\ DOMAIN pipe = Peers /\ \A q \in Peers : pipe[q] \in Seq(Sent(q))
        /\ writer_decimation \in [Peers -> [Indices -> [n : Nat, current : Nat]]]
    BY DEF Types, TableTypes, ListTypes, DecimationTypes
  <1>4. Grows
    <2>1. UNCHANGED registered \/ registered' = [registered EXCEPT ![p] = registered[p] \cup {x}]
      BY <1>2 DEF Wrote
    <2> HIDE DEF x
    <2>2. \A q \in Peers : registered[q] \subseteq registered'[q]
      BY <1>3, <2>1
    <2> QED
      BY <2>2 DEF Grows
  <1>5. \A q \in Peers : Known(q) \subseteq Known(q)'
    BY <1>4, GrowFacts
  <1>6. \A q \in Peers : \A j \in Indices : writer_decimation'[q][j].n = writer_decimation[q][j].n
    <2>1. CASE UNCHANGED writer_decimation
      BY <2>1
    <2>2. CASE WriterStart(p, i)
      <3>1. PICK c : writer_decimation' = [writer_decimation EXCEPT ![p][i].current = c]
        BY <2>2 DEF WriterStart
      <3> QED
        BY <1>1, <1>3, <3>1
    <2> QED
      BY <1>2, <2>1, <2>2
  <1>7. Ready' <=> Ready
    BY DEF Ready
  <1>8. TablesTrue'
    <2>1. status'["server"]["Product"] \in {"unregistered", "registered"} => Ready
      <3>1. CASE UNCHANGED status
        BY <3>1 DEF TablesTrue
      <3>2. CASE step.op = "register" /\ status' = [status EXCEPT ![p][x] = "registered"]
        <4>1. p = "server" /\ x = "Product" => Ready
          BY <3>2, PeerFacts DEF MayDefine, Base, Own, Peers
        <4>2. (p = "server" /\ x = "Product") \/ status'["server"]["Product"] = status["server"]["Product"]
          <5> HIDE DEF x
          <5> QED
            BY <1>1, <1>3, <3>2 DEF Peers, Names
        <4> QED
          BY <4>1, <4>2 DEF TablesTrue
      <3> QED
        BY <1>2, <3>1, <3>2 DEF Wrote
    <2>2. \A q \in Peers : Peer(q) \in Peers
      BY PeerFacts
    <2>3. /\ \A q \in Peers : \A y \in Names :
               remote_index'[q][y] # 0 => y \in handled'[q] /\ y \in registered'[Peer(q)]
          /\ "Product" \in remote'["server"] => Ready'
      BY <1>4, <1>7, <2>2 DEF TablesTrue, Grows
    <2>4. ioctl_index' # 0 => ioctl_index' \in Known("server")'
      BY <1>5 DEF TablesTrue, Peers
    <2>5. \A q \in Peers : \A j \in Indices : writer_decimation'[q][j].n # 0 => j \in Known(q)'
      BY <1>5, <1>6 DEF TablesTrue
    <2> QED
      BY <1>7, <2>1, <2>3, <2>4, <2>5 DEF TablesTrue
  <1>9. \A q \in Peers : \A m : PacketOK(q, m) => PacketOK(q, m)'
    BY <1>4, GrowFacts
  <1>10. ASSUME UNCHANGED <<pipe, registered>> PROVE PipeOK' /\ Definitions'
    BY <1>9, <1>10 DEF PipeOK, Definitions
  <1>11. ASSUME NEW m \in Sent(p), pipe' = [pipe EXCEPT ![p] = Append(pipe[p], m)],
                PacketOK(p, m)',
                \A y \in Names : m.tag = Index[p][y] => y \in registered[p],
                \A y \in Names : y \in registered'[p] => y \in registered[p] \/ (m.tag = 0 /\ m.v = y),
                \A q \in Peers : q # p => registered'[q] = registered[q]
         PROVE  PipeOK' /\ Definitions'
    <2>0. PICK s : s = pipe[p]
      OBVIOUS
    <2> DEFINE r == Append(s, m)
    <2>1. \A q \in Peers : pipe'[q] = IF q = p THEN r ELSE pipe[q]
      BY <1>3, <1>11, <2>0
    <2>2. /\ Len(s) \in Nat /\ Len(r) = Len(s) + 1 /\ r[Len(s) + 1] = m
          /\ \A k \in 1 .. Len(s) : r[k] = s[k]
          /\ \A k \in 1 .. Len(r) : k \in 1 .. Len(s) \/ k = Len(s) + 1
      <3>1. s \in Seq(Sent(p))
        BY <1>3, <2>0
      <3> QED
        BY <1>11, <3>1
    <2> HIDE DEF r
    <2>3. \A k \in 1 .. Len(r) : PacketOK(p, r[k])'
      <3>1. \A k \in 1 .. Len(s) : PacketOK(p, s[k])
        BY <2>0 DEF PipeOK
      <3> QED
        BY <1>9, <1>11, <2>2, <3>1
    <2>4. PipeOK'
      <3> SUFFICES ASSUME NEW q \in Peers, NEW k \in 1 .. Len(pipe'[q])
                   PROVE  PacketOK(q, pipe[q][k])'
        BY DEF PipeOK
      <3>1. PICK e : e = pipe'[q][k]
        OBVIOUS
      <3>2. PacketOK(q, e)'
        BY <1>9, <2>1, <2>3, <3>1 DEF PipeOK
      <3> QED
        BY <3>1, <3>2
    <2>5. \A y : \A n \in 0 .. Len(s) : Defines(s, n, y) => Defines(r, n, y)
      <3> SUFFICES ASSUME NEW y, NEW n \in 0 .. Len(s), NEW j \in 1 .. n, s[j].tag = 0, s[j].v = y
                   PROVE  Defines(r, n, y)
        BY DEF Defines
      <3>1. j \in 1 .. Len(s)
        BY <2>2
      <3> QED
        BY <2>2, <3>1 DEF Defines
    <2>6. \A y : Defines(s, Len(s), y) => Defines(r, Len(r), y)
      BY <2>2 DEF Defines
    <2>7. ASSUME NEW y \in Names
          PROVE  \/ remote_index[Peer(p)][y] # 0
                 \/ /\ \A k \in 1 .. Len(r) : r[k].tag = Index[p][y] => Defines(r, k - 1, y)
                    /\ y \in registered'[p] => Defines(r, Len(r), y)
      <3> SUFFICES ASSUME remote_index[Peer(p)][y] = 0
                   PROVE  /\ \A k \in 1 .. Len(r) : r[k].tag = Index[p][y] => Defines(r, k - 1, y)
                          /\ y \in registered'[p] => Defines(r, Len(r), y)
        OBVIOUS
      <3>1. /\ \A k \in 1 .. Len(s) : s[k].tag = Index[p][y] => Defines(s, k - 1, y)
            /\ y \in registered[p] => Defines(s, Len(s), y)
        BY <2>0 DEF Definitions
      <3>2. ASSUME NEW k \in 1 .. Len(r), r[k].tag = Index[p][y] PROVE Defines(r, k - 1, y)
        <4>1. CASE k \in 1 .. Len(s)
          <5>1. k - 1 \in 0 .. Len(s)
            BY <2>2, <4>1
          <5> QED
            BY <2>2, <2>5, <3>1, <3>2, <4>1, <5>1
        <4>2. CASE k = Len(s) + 1
          <5>1. Defines(s, Len(s), y) /\ k - 1 = Len(s) /\ Len(s) \in 0 .. Len(s)
            BY <1>11, <2>2, <3>1, <3>2, <4>2
          <5> QED
            BY <2>5, <5>1
        <4> QED
          BY <2>2, <4>1, <4>2
      <3>3. ASSUME y \in registered'[p] PROVE Defines(r, Len(r), y)
        <4>1. CASE y \in registered[p]
          BY <2>6, <3>1, <4>1
        <4>2. CASE m.tag = 0 /\ m.v = y
          <5>1. Len(r) \in 1 .. Len(r) /\ r[Len(r)] = m
            BY <2>2
          <5> QED
            BY <4>2, <5>1 DEF Defines
        <4> QED
          BY <1>11, <3>3, <4>1, <4>2
      <3> QED
        BY <3>2, <3>3
    <2>8. Definitions'
      <3> SUFFICES ASSUME NEW q \in Peers, NEW y \in Names, remote_index[Peer(q)][y] = 0
                   PROVE  /\ \A k \in 1 .. Len(pipe'[q]) :
                               pipe'[q][k].tag = Index[q][y] => Defines(pipe'[q], k - 1, y)
                          /\ y \in registered'[q] => Defines(pipe'[q], Len(pipe'[q]), y)
        BY DEF Definitions
      <3>1. CASE q = p
        BY <2>1, <2>7, <3>1
      <3>2. CASE q # p
        BY <1>11, <2>1, <3>2 DEF Definitions
      <3> QED
        BY <3>1, <3>2
    <2> QED
      BY <2>4, <2>8
  <1>12. CASE /\ step.op = "register" /\ x \notin registered[p]
              /\ registered' = [registered EXCEPT ![p] = registered[p] \cup {x}]
              /\ \/ Skipped(p, i) /\ UNCHANGED pipe
                 \/ pipe' = [pipe EXCEPT ![p] = Append(pipe[p], Definition(p, x))]
    <2>1. ~ Skipped(p, i)
      <3>1. i \notin Known(p)
        BY <1>1, <1>3, <1>12, IndexFacts DEF Known
      <3>2. writer_decimation[p][i].n = 0 /\ writer_decimation[p][i].current \in Nat
        BY <1>1, <1>3, <3>1 DEF TablesTrue
      <3> QED
        BY <3>2 DEF Skipped
    <2> DEFINE m == Definition(p, x)
    <2>2. m \in Sent(p) /\ m.tag = 0 /\ m.v = x
      BY <1>1, SentFacts DEF Definition
    <2>3. pipe' = [pipe EXCEPT ![p] = Append(pipe[p], m)]
      BY <1>12, <2>1
    <2> HIDE DEF m
    <2>4. \A q \in Peers : registered'[q] = IF q = p THEN registered[p] \cup {x} ELSE registered[q]
      BY <1>3, <1>12
    <2>5. \A y \in Names : Index[p][y] # 0
      BY IndexFacts
    <2>6. PacketOK(p, m)'
      <3>1. x \in MayDefine(p)' /\ x \in registered'[p]
        BY <1>4, <1>12, <2>4, GrowFacts
      <3> QED
        BY <2>2, <2>5, <3>1 DEF PacketOK, Names
    <2> QED
      BY <1>4, <1>8, <1>11, <2>2, <2>3, <2>4, <2>5, <2>6
  <1>13. CASE /\ step.op = "encode" /\ x \in registered[p] /\ UNCHANGED registered
              /\ \/ UNCHANGED pipe
                 \/ pipe' = [pipe EXCEPT ![p] = Append(pipe[p], Sample(p, x, step.v))]
    <2> DEFINE m == Sample(p, x, step.v)
    <2>1. m \in Sent(p) /\ m.tag = i /\ m.v = step.v
      BY <1>1, <1>13, SentFacts DEF Sample, Writes, Steps
    <2> HIDE DEF m
    <2>2. \A y \in Names : m.tag = Index[p][y] => y = x
      BY <1>1, <2>1, IndexFacts
    <2>3. PacketOK(p, m)
      <3>1. {"handles_signature", "set_decimation"} \subseteq Names
        BY DEF Names
      <3> QED
        BY <1>1, <1>13, <2>1, <2>2, <3>1 DEF PacketOK
    <2>4. PacketOK(p, m)'
      BY <1>9, <2>3
    <2>5. CASE UNCHANGED pipe
      BY <1>4, <1>8, <1>10, <1>13, <2>5
    <2>6. CASE pipe' = [pipe EXCEPT ![p] = Append(pipe[p], m)]
      BY <1>4, <1>8, <1>11, <1>13, <2>1, <2>2, <2>4, <2>6
    <2> QED
      BY <1>13, <2>5, <2>6 DEF m
  <1> QED
    BY <1>2, <1>4, <1>8, <1>10, <1>12, <1>13 DEF Wrote

\* The deferred actions of both peers when none is added, when some are, and when the
\* first one is taken.
LEMMA QueueStays ==
    ASSUME QueueOK, Grows, UNCHANGED queue, Entering => Entering' \/ Ready'
    PROVE  QueueOK'
  <1> SUFFICES ASSUME NEW p \in Peers, NEW k \in 1 .. Len(queue'[p])
               PROVE  ActionOK(p, queue[p][k])'
    BY DEF QueueOK
  <1>1. PICK e : e = queue'[p][k]
    OBVIOUS
  <1>2. ActionOK(p, e)
    BY <1>1 DEF QueueOK
  <1>3. ActionOK(p, e)'
    BY <1>2, GrowFacts
  <1> QED
    BY <1>1, <1>3

LEMMA QueueAdd ==
    ASSUME Types, QueueOK, Grows, Entering => Entering' \/ Ready',
           NEW p \in Peers, NEW list \in Seq(Writes), Enqueue(p, list),
           \A k \in 1 .. Len(list) : ActionOK(p, list[k])'
    PROVE  QueueOK'
  <1> SUFFICES ASSUME NEW q \in Peers, NEW k \in 1 .. Len(queue'[q])
               PROVE  ActionOK(q, queue[q][k])'
    BY DEF QueueOK
  <1>1. PICK e : e = queue'[q][k]
    OBVIOUS
  <1>2. queue \in [Peers -> Seq(Writes)] /\ queue[p] \in Seq(Writes)
    BY DEF Types, ListTypes
  <1>3. queue'[q] = IF q = p THEN queue[p] \o list ELSE queue[q]
    BY <1>2 DEF Enqueue
  <1>4. ActionOK(q, e) \/ ActionOK(q, e)'
    <2>1. CASE q # p
      BY <1>1, <1>3, <2>1 DEF QueueOK
    <2>2. CASE q = p
      <3>1. k \in 1 .. Len(queue[p] \o list) /\ e = (queue[p] \o list)[k]
        BY <1>1, <1>3, <2>2
      <3>2. \/ k \in 1 .. Len(queue[p]) /\ e = queue[p][k]
            \/ k - Len(queue[p]) \in 1 .. Len(list) /\ e = list[k - Len(queue[p])]
        BY <1>2, <3>1, ConcatIs
      <3>3. PICK j : j = k - Len(queue[p])
        OBVIOUS
      <3>4. CASE k \in 1 .. Len(queue[p]) /\ e = queue[p][k]
        BY <2>2, <3>4 DEF QueueOK
      <3>5. CASE j \in 1 .. Len(list) /\ e = list[j]
        BY <2>2, <3>5
      <3> QED
        BY <3>2, <3>3, <3>4, <3>5
    <2> QED
      BY <2>1, <2>2
  <1>5. ActionOK(q, e)'
    BY <1>4, GrowFacts
  <1> QED
    BY <1>1, <1>5

LEMMA QueueTail ==
    ASSUME Types, QueueOK, Grows, Entering => Entering' \/ Ready',
           NEW p \in Peers, queue[p] # <<>>, queue' = [queue EXCEPT ![p] = Tail(queue[p])]
    PROVE  QueueOK'
  <1> SUFFICES ASSUME NEW q \in Peers, NEW k \in 1 .. Len(queue'[q])
               PROVE  ActionOK(q, queue[q][k])'
    BY DEF QueueOK
  <1>1. PICK e : e = queue'[q][k]
    OBVIOUS
  <1>2. queue \in [Peers -> Seq(Writes)] /\ queue[p] \in Seq(Writes)
    BY DEF Types, ListTypes
  <1>3. queue'[q] = IF q = p THEN Tail(queue[p]) ELSE queue[q]
    BY <1>2
  <1>4. ActionOK(q, e)
    <2>1. CASE q # p
      BY <1>1, <1>3, <2>1 DEF QueueOK
    <2>2. CASE q = p
      <3>1. e = queue[p][k + 1] /\ k + 1 \in 1 .. Len(queue[p])
        BY <1>1, <1>2, <1>3, <2>2, TailIs
      <3> QED
        BY <2>2, <3>1 DEF QueueOK
    <2> QED
      BY <2>1, <2>2
  <1>5. ActionOK(q, e)'
    BY <1>4, GrowFacts
  <1> QED
    BY <1>1, <1>5

\* The packets that nobody touches.
LEMMA PipeStays ==
    ASSUME PipeOK, Grows, UNCHANGED pipe
    PROVE  PipeOK'
  <1> SUFFICES ASSUME NEW p \in Peers, NEW k \in 1 .. Len(pipe'[p])
               PROVE  PacketOK(p, pipe[p][k])'
    BY DEF PipeOK
  <1>1. PICK e : e = pipe'[p][k]
    OBVIOUS
  <1>2. PacketOK(p, e)
    BY <1>1 DEF PipeOK
  <1>3. PacketOK(p, e)'
    BY <1>2, GrowFacts
  <1> QED
    BY <1>1, <1>3

\* What the decoder threads have begun with when a thread takes a step that enters no
\* handler.
LEMMA BeginsTail ==
    ASSUME Types, WorkOK, Begins, UNCHANGED <<handled, remote_index>>,
           NEW t \in Threads, work[t] # <<>>, Head(work[t]).op # "entry",
           work' = [work EXCEPT ![t] = Tail(work[t])]
    PROVE  Begins'
  <1>1. work \in [Threads -> Seq(Steps)]
    BY DEF Types, ListTypes
  <1>2. \A q \in Peers : Decoder(q) \in Threads
    BY PeerFacts
  <1>3. \A u \in Threads : work'[u] = work[u] \/ (u = t /\ work'[u] = Tail(work[u]))
    BY <1>1
  <1>4. \A q \in Peers :
          /\ \/ work'[Decoder(q)] = work[Decoder(q)]
             \/ work[Decoder(q)] # <<>> /\ work'[Decoder(q)] = Tail(work[Decoder(q)])
                  /\ Head(work[Decoder(q)]).op # "entry"
          /\ remote_index'[q] = remote_index[q]
    BY <1>2, <1>3
  <1> QED
    BY <1>4, BeginsStays

\* The first step of a thread's program is in order.
LEMMA HeadOK ==
    ASSUME Types, WorkOK, NEW t \in Threads, work[t] # <<>>
    PROVE  StepOK(t, Head(work[t])) /\ Head(work[t]) \in Steps
  <1>1. work[t] \in Seq(Steps)
    BY DEF Types, ListTypes
  <1>2. Head(work[t]) = work[t][1] /\ 1 \in 1 .. Len(work[t]) /\ Head(work[t]) \in Steps
    BY <1>1, TailIs
  <1> QED
    BY <1>2 DEF WorkOK

-----------------------------------------------------------------------------

\* A thread's own call of its encoder.
LEMMA Write1Runs ==
    ASSUME Types, DecimationExact, RunInv, NEW t \in Threads, Write1(t)
    PROVE  RunInv' /\ UNCHANGED stopped
  <1> DEFINE p == t[1]
             step == Head(work[t])
  <1>0. WorkOK /\ OneEntry /\ QueueOK /\ PipeOK /\ Definitions /\ Begins /\ TablesTrue
    BY DEF RunInv
  <1>1. p \in Peers
    BY PeerFacts
  <1>2. /\ work[t] # <<>> /\ step.op \in WriteOps /\ Write(p, step) /\ Finish(t, <<>>)
        /\ UNCHANGED <<queue, handled, remote_index, remote, ioctl_index, round, stopped>>
    BY DEF Write1, Current, WriteOps, decoderVars, mainVars
  <1>3. step \in Writes /\ work' = [work EXCEPT ![t] = Tail(work[t])]
    BY <1>2, FinishFacts DEF Types, Writes
  <1>4. step.x \in MayDefine(p) /\ step.x \notin Own
    BY <1>0, <1>2, HeadOK DEF StepOK
  <1>5. step.x # "handles_signature" /\ step.x # "set_decimation"
    BY <1>4 DEF Own
  <1> HIDE DEF p, step
  <1>6. Grows /\ PipeOK' /\ Definitions' /\ TablesTrue'
    BY <1>0, <1>1, <1>2, <1>3, <1>4, <1>5, WriteRuns
  <1>7. WorkOK'
    BY <1>0, <1>2, <1>3, <1>6, WorkTail
  <1>8. step.op # "entry"
    BY <1>2 DEF WriteOps
  <1>9. OneEntry' /\ (Entering => Entering' \/ Ready')
    <2>1. Ready' <=> Ready
      BY <1>2 DEF Ready
    <2> QED
      BY <1>0, <1>2, <1>3, <1>8, <2>1, OneEntryTail DEF step
  <1>10. QueueOK'
    BY <1>0, <1>2, <1>6, <1>9, QueueStays
  <1>11. Begins'
    BY <1>0, <1>2, <1>3, <1>8, BeginsTail DEF step
  <1> QED
    BY <1>2, <1>6, <1>7, <1>9, <1>10, <1>11 DEF RunInv

\* A deferred action, which the client's decoder thread never runs: what the client says
\* it handles has been entered by then.
LEMMA RunDeferredRuns ==
    ASSUME Types, DecimationExact, RunInv, NEW t \in Threads, RunDeferred(t)
    PROVE  RunInv' /\ UNCHANGED stopped
  <1> DEFINE p == t[1]
             step == Head(queue[p])
  <1>0. WorkOK /\ OneEntry /\ QueueOK /\ PipeOK /\ Definitions /\ Begins /\ TablesTrue
    BY DEF RunInv
  <1>1. p \in Peers
    BY PeerFacts
  <1>2. /\ Current(t, "deferred") \/ Current(t, "sleep")
        /\ queue[p] # <<>> /\ Write(p, step) /\ queue' = [queue EXCEPT ![p] = Tail(queue[p])]
        /\ UNCHANGED <<work, handled, remote_index, remote, ioctl_index, round, stopped>>
    BY DEF RunDeferred, decoderVars, mainVars
  <1>3. queue[p] \in Seq(Writes)
    BY <1>1 DEF Types, ListTypes
  <1>4. step \in Writes /\ step = queue[p][1] /\ 1 \in 1 .. Len(queue[p])
    BY <1>2, <1>3, TailIs
  <1>5. ActionOK(p, step)
    BY <1>0, <1>1, <1>4 DEF QueueOK
  <1>6. p = "client" => ~ Entering
    <2> SUFFICES ASSUME p = "client" PROVE ~ Entering
      OBVIOUS
    <2>1. work[t] # <<>> /\ Head(work[t]).op \in {"deferred", "sleep"}
      BY <1>2 DEF Current
    <2>2. t # Decoder("client")
      BY <1>0, <2>1, HeadOK DEF StepOK
    <2>3. t = Main("client")
      BY <2>2, PeerFacts
    <2> QED
      BY <2>1, <2>3 DEF Entering
  <1>7. step.x \in MayDefine(p)
    BY <1>5 DEF ActionOK, MayDefine, Base
  <1>8. step.op = "encode" /\ step.x = "handles_signature" /\ step.v = "Product" /\ p = "client" => Ready
    BY <1>5, <1>6 DEF ActionOK
  <1>9. step.op = "encode" /\ step.x = "set_decimation" => step.v.signature_index \in Known(Peer(p))
    BY <1>5 DEF ActionOK
  <1> HIDE DEF p, step
  <1>10. Grows /\ PipeOK' /\ Definitions' /\ TablesTrue'
    BY <1>0, <1>1, <1>2, <1>4, <1>7, <1>8, <1>9, WriteRuns
  <1>11. OneEntry' /\ (Entering => Entering' \/ Ready')
    BY <1>0, <1>2, OneEntryStays DEF Ready
  <1>12. QueueOK'
    BY <1>0, <1>1, <1>2, <1>10, <1>11, QueueTail
  <1>13. WorkOK'
    BY <1>0, <1>2, <1>10, GrowFacts DEF WorkOK
  <1>14. Begins'
    BY <1>0, <1>2 DEF Begins
  <1> QED
    BY <1>2, <1>10, <1>11, <1>12, <1>13, <1>14 DEF RunInv

\* A step that changes none of the tables and sends nothing.
LEMMA TablesStay ==
    ASSUME PipeOK, Definitions, TablesTrue,
           UNCHANGED <<handled, registered, remote_index, remote, status, pipe, ioctl_index,
                       writer_decimation>>
    PROVE  Grows /\ PipeOK' /\ Definitions' /\ TablesTrue' /\ (Ready' <=> Ready)
  <1>1. Grows
    BY DEF Grows
  <1>2. PipeOK'
    BY <1>1, PipeStays
  <1>3. Definitions'
    BY DEF Definitions
  <1>4. TablesTrue'
    BY DEF TablesTrue, Ready, Known
  <1> QED
    BY <1>1, <1>2, <1>3, <1>4 DEF Ready

\* What the layers defer when a handler is started or a definition has arrived.
LEMMA StartOK ==
    ASSUME Types, NEW p \in Peers, NEW x \in Names, NEW i \in Nat,
           x = "Product" /\ p = "client" => Ready' \/ Entering',
           i # 0 => i \in Known(Peer(p))'
    PROVE  \A list : list = HandlesSignature(x) \o ReaderStart(p, x, i) =>
             list \in Seq(Writes) /\ \A k \in 1 .. Len(list) : ActionOK(p, list[k])'
  <1> TAKE list
  <1> HAVE list = HandlesSignature(x) \o ReaderStart(p, x, i)
  <1>1. list \in Seq(Writes)
    BY ReaderStartFacts
  <1>2. PICK first : first = HandlesSignature(x)
    OBVIOUS
  <1>3. PICK second : second = ReaderStart(p, x, i)
    OBVIOUS
  <1>4. first \in Seq(Writes)
    BY <1>2, ListFacts
  <1>5. /\ second \in Seq(Writes)
        /\ second = <<>> \/ (i # 0 /\ \E a \in Nat : second = SetDecimation(i, a))
    <2>1. reader_decimation[p][x] \in Nat /\ <<>> \in Seq(Writes)
      BY DEF Types, TableTypes
    <2>2. SetDecimation(i, reader_decimation[p][x]) \in Seq(Writes)
      BY <2>1, ListFacts
    <2>3. \/ i # 0 /\ second = SetDecimation(i, reader_decimation[p][x])
          \/ second = <<>>
      BY <1>3 DEF ReaderStart
    <2>4. CASE i # 0 /\ second = SetDecimation(i, reader_decimation[p][x])
      <3>1. PICK a \in Nat : a = reader_decimation[p][x]
        BY <2>1
      <3>2. i # 0 /\ second = SetDecimation(i, a)
        BY <2>4, <3>1
      <3>3. second \in Seq(Writes)
        BY <2>2, <2>4, Zenon
      <3> QED
        BY <3>2, <3>3, Zenon
    <2>5. CASE second = <<>>
      <3>1. second \in Seq(Writes)
        BY <2>1, <2>5
      <3> QED
        BY <2>5, <3>1, Zenon
    <2> QED
      BY <2>3, <2>4, <2>5
  <1>6. \A k \in 1 .. Len(first) : ActionOK(p, first[k])'
    <2> SUFFICES ASSUME NEW k \in 1 .. Len(first) PROVE ActionOK(p, first[k])'
      OBVIOUS
    <2>1. /\ first[k].x = "handles_signature" /\ first[k].v = x
      BY <1>2 DEF HandlesSignature, Do
    <2>2. PICK e : e = first[k]
      OBVIOUS
    <2>3. ActionOK(p, e)'
      BY <2>1, <2>2 DEF ActionOK, Own
    <2> QED
      BY <2>2, <2>3
  <1>7. \A k \in 1 .. Len(second) : ActionOK(p, second[k])'
    <2> SUFFICES ASSUME NEW k \in 1 .. Len(second) PROVE ActionOK(p, second[k])'
      OBVIOUS
    <2>1. i # 0 /\ \E a \in Nat : second = SetDecimation(i, a)
      BY <1>5
    <2>2. second[k].x = "set_decimation" /\ second[k].v.signature_index = i
      BY <2>1 DEF SetDecimation, Do
    <2>3. PICK e : e = second[k]
      OBVIOUS
    <2>4. ActionOK(p, e)'
      BY <2>1, <2>2, <2>3 DEF ActionOK, Own
    <2> QED
      BY <2>3, <2>4
  <1>8. \A k \in 1 .. Len(list) : ActionOK(p, list[k])'
    <2> SUFFICES ASSUME NEW k \in 1 .. Len(list) PROVE ActionOK(p, list[k])'
      OBVIOUS
    <2>1. list = first \o second
      BY <1>2, <1>3
    <2>2. \/ k \in 1 .. Len(first) /\ list[k] = first[k]
          \/ k - Len(first) \in 1 .. Len(second) /\ list[k] = second[k - Len(first)]
      BY <1>4, <1>5, <2>1, ConcatIs
    <2> QED
      BY <1>6, <1>7, <2>2
  <1> QED
    BY <1>1, <1>8

\* A handler is started: the client says that it handles Product just before it does.
LEMMA StartHandlerRuns ==
    ASSUME Types, RunInv, NEW t \in Threads, StartHandler(t)
    PROVE  RunInv' /\ UNCHANGED stopped
  <1> DEFINE p == t[1]
             x == Head(work[t]).x
  <1>0. WorkOK /\ OneEntry /\ QueueOK /\ PipeOK /\ Definitions /\ Begins /\ TablesTrue
    BY DEF RunInv
  <1>1. p \in Peers
    BY PeerFacts
  <1>2. /\ work[t] # <<>> /\ Head(work[t]).op = "start" /\ Finish(t, <<>>)
        /\ Enqueue(p, HandlesSignature(x) \o ReaderStart(p, x, 0))
        /\ UNCHANGED <<handled, registered, remote_index, remote, status, pipe, ioctl_index,
                       writer_decimation, round, stopped>>
    BY DEF StartHandler, Current, decoderVars, mainVars, introVars, encoderVars, decimatingVars
  <1>3. work' = [work EXCEPT ![t] = Tail(work[t])] /\ x \in Names
    BY <1>2, FinishFacts DEF Types, Steps
  <1>4. Grows /\ PipeOK' /\ Definitions' /\ TablesTrue' /\ (Ready' <=> Ready)
    BY <1>0, <1>2, TablesStay
  <1>5. WorkOK'
    BY <1>0, <1>2, <1>3, <1>4, WorkTail
  <1>6. OneEntry' /\ (Entering => Entering' \/ Ready')
    BY <1>0, <1>2, <1>3, <1>4, OneEntryTail
  <1>7. Begins'
    BY <1>0, <1>2, <1>3, BeginsTail
  <1>8. x = "Product" /\ p = "client" => Entering'
    <2> SUFFICES ASSUME x = "Product", p = "client" PROVE Entering'
      OBVIOUS
    <2>1. t = Main("client")
      BY <1>0, <1>2, HeadOK, PeerFacts DEF StepOK, Base, Own
    <2>2. work[t] \in Seq(Steps) /\ EntryNext(work[t]) /\ work \in [Threads -> Seq(Steps)]
      BY <1>0 DEF Types, ListTypes, WorkOK
    <2>3. Tail(work[t]) # <<>> /\ Head(Tail(work[t])).op = "entry"
      BY <1>2, <2>2, EntryTail
    <2>4. work'[Main("client")] = Tail(work[t])
      BY <1>3, <2>1, <2>2
    <2> QED
      BY <2>3, <2>4 DEF Entering
  <1>9. PICK list : list = HandlesSignature(x) \o ReaderStart(p, x, 0)
    OBVIOUS
  <1>10. list \in Seq(Writes) /\ \A k \in 1 .. Len(list) : ActionOK(p, list[k])'
    <2> HIDE DEF p, x
    <2> QED
      BY <1>1, <1>3, <1>8, <1>9, StartOK
  <1>11. QueueOK'
    BY <1>0, <1>1, <1>2, <1>4, <1>6, <1>9, <1>10, QueueAdd
  <1> QED
    BY <1>2, <1>4, <1>5, <1>6, <1>7, <1>11 DEF RunInv

\* A definition has arrived: the index that the peer is told is one of its own.
LEMMA DefinedRuns ==
    ASSUME Types, RunInv, NEW t \in Threads, Defined(t)
    PROVE  RunInv' /\ UNCHANGED stopped
  <1> DEFINE p == t[1]
             x == Head(work[t]).x
             i == remote_index[p][x]
  <1>0. WorkOK /\ OneEntry /\ QueueOK /\ PipeOK /\ Definitions /\ Begins /\ TablesTrue
    BY DEF RunInv
  <1>1. p \in Peers
    BY PeerFacts
  <1>2. /\ work[t] # <<>> /\ Head(work[t]).op = "defined" /\ Finish(t, <<>>)
        /\ Enqueue(p, HandlesSignature(x) \o ReaderStart(p, x, i))
        /\ UNCHANGED <<handled, registered, remote_index, remote, status, pipe, ioctl_index,
                       writer_decimation, round, stopped>>
    BY DEF Defined, Current, decoderVars, mainVars, introVars, encoderVars, decimatingVars
  <1>3. work' = [work EXCEPT ![t] = Tail(work[t])] /\ x \in Names
    BY <1>2, FinishFacts DEF Types, Steps
  <1>4. Grows /\ PipeOK' /\ Definitions' /\ TablesTrue' /\ (Ready' <=> Ready)
    BY <1>0, <1>2, TablesStay
  <1>5. WorkOK'
    BY <1>0, <1>2, <1>3, <1>4, WorkTail
  <1>6. OneEntry' /\ (Entering => Entering' \/ Ready')
    BY <1>0, <1>2, <1>3, <1>4, OneEntryTail
  <1>7. Begins'
    BY <1>0, <1>2, <1>3, BeginsTail
  <1>8. x = "Product" /\ p = "client" => Ready'
    BY <1>0, <1>2, <1>4, HeadOK DEF StepOK, Ready
  <1>9. i \in Nat /\ (i # 0 => i \in Known(Peer(p)))
    BY <1>0, <1>1, <1>3 DEF Types, TableTypes, TablesTrue, Known
  <1>10. Known(Peer(p))' = Known(Peer(p))
    BY <1>2 DEF Known
  <1>11. PICK j : j = i
    OBVIOUS
  <1>12. PICK list : list = HandlesSignature(x) \o ReaderStart(p, x, i)
    OBVIOUS
  <1>13. list \in Seq(Writes) /\ \A k \in 1 .. Len(list) : ActionOK(p, list[k])'
    <2>1. list = HandlesSignature(x) \o ReaderStart(p, x, j) /\ j \in Nat
          /\ (j # 0 => j \in Known(Peer(p))')
      BY <1>9, <1>10, <1>11, <1>12
    <2> HIDE DEF p, x
    <2> QED
      BY <1>1, <1>3, <1>8, <2>1, StartOK
  <1>14. QueueOK'
    BY <1>0, <1>1, <1>2, <1>4, <1>6, <1>12, <1>13, QueueAdd
  <1> QED
    BY <1>2, <1>4, <1>5, <1>6, <1>7, <1>14 DEF RunInv

\* The ioctl sends the index it has read, which was one of the server's.
LEMMA IoctlSetRuns ==
    ASSUME Types, RunInv, NEW t \in Threads, IoctlSet(t)
    PROVE  RunInv' /\ UNCHANGED stopped
  <1>0. WorkOK /\ OneEntry /\ QueueOK /\ PipeOK /\ Definitions /\ Begins /\ TablesTrue
    BY DEF RunInv
  <1>1. PICK list : list = IF ioctl_index # 0 THEN SetDecimation(ioctl_index, Amount) ELSE <<>>
    OBVIOUS
  <1>2. /\ work[t] # <<>> /\ Head(work[t]).op = "ioctl_set" /\ Finish(t, <<>>)
        /\ Enqueue("client", list)
        /\ UNCHANGED <<handled, registered, remote_index, remote, status, pipe, ioctl_index,
                       writer_decimation, round, stopped>>
    BY <1>1 DEF IoctlSet, Current, decoderVars, mainVars, introVars, encoderVars
  <1>3. work' = [work EXCEPT ![t] = Tail(work[t])]
    BY <1>2, FinishFacts DEF Types
  <1>4. Grows /\ PipeOK' /\ Definitions' /\ TablesTrue' /\ (Ready' <=> Ready)
    BY <1>0, <1>2, TablesStay
  <1>5. WorkOK'
    BY <1>0, <1>2, <1>3, <1>4, WorkTail
  <1>6. OneEntry' /\ (Entering => Entering' \/ Ready')
    BY <1>0, <1>2, <1>3, <1>4, OneEntryTail
  <1>7. Begins'
    BY <1>0, <1>2, <1>3, BeginsTail
  <1>8. list \in Seq(Writes)
    <2>1. ioctl_index \in Nat /\ Amount \in Nat /\ <<>> \in Seq(Writes)
      BY TwoWayAssumption DEF Types, TableTypes
    <2>2. SetDecimation(ioctl_index, Amount) \in Seq(Writes)
      BY <2>1, ListFacts
    <2> QED
      BY <1>1, <2>1, <2>2
  <1>9. \A k \in 1 .. Len(list) : ActionOK("client", list[k])'
    <2> SUFFICES ASSUME NEW k \in 1 .. Len(list) PROVE ActionOK("client", list[k])'
      OBVIOUS
    <2>1. ioctl_index # 0 /\ list = SetDecimation(ioctl_index, Amount)
      BY <1>1
    <2>2. list[k].x = "set_decimation" /\ list[k].v.signature_index = ioctl_index
      BY <2>1 DEF SetDecimation, Do
    <2>3. PICK e : e = list[k]
      OBVIOUS
    <2>4. ioctl_index \in Known(Peer("client"))'
      BY <1>0, <1>4, <2>1, GrowFacts, PeerFacts DEF TablesTrue, Peers
    <2>5. ActionOK("client", e)'
      BY <2>2, <2>3, <2>4 DEF ActionOK, Own
    <2> QED
      BY <2>3, <2>5
  <1>10. QueueOK'
    BY <1>0, <1>2, <1>4, <1>6, <1>8, <1>9, QueueAdd DEF Peers
  <1> QED
    BY <1>2, <1>4, <1>5, <1>6, <1>7, <1>10 DEF RunInv

\* A handler is entered: its remote index was not set yet.
LEMMA EnterHandlerRuns ==
    ASSUME Types, RunInv, NEW t \in Threads, EnterHandler(t)
    PROVE  RunInv' /\ UNCHANGED stopped
  <1> DEFINE p == t[1]
             x == Head(work[t]).x
  <1>0. WorkOK /\ OneEntry /\ QueueOK /\ PipeOK /\ Definitions /\ Begins /\ TablesTrue
    BY DEF RunInv
  <1>1. p \in Peers
    BY PeerFacts
  <1>2. /\ work[t] # <<>> /\ Head(work[t]).op = "entry" /\ Finish(t, <<>>)
        /\ handled' = [handled EXCEPT ![p] = handled[p] \cup {x}]
        /\ remote_index' = [remote_index EXCEPT ![p][x] = 0]
        /\ UNCHANGED <<queue, registered, remote, status, pipe, ioctl_index,
                       writer_decimation, round, stopped>>
    BY DEF EnterHandler, Current, mainVars, introVars, encoderVars, decimatingVars
  <1>3. /\ work' = [work EXCEPT ![t] = Tail(work[t])] /\ x \in Names
        /\ work \in [Threads -> Seq(Steps)] /\ work[t] \in Seq(Steps)
    BY <1>2, FinishFacts DEF Types, Steps, ListTypes
  <1>4. HasEntry(work[t]) /\ EntryNext(work[t])
    <2>1. EntryNext(work[t])
      BY <1>0 DEF WorkOK
    <2> QED
      BY <1>2, <1>3, <2>1, EntryTail
  <1>5. \/ t = Decoder(p) /\ x \in Base(p)
        \/ t = Main("client") /\ p = "client" /\ x = "Product" /\ t # Decoder(p)
    <2>1. StepOK(t, Head(work[t]))
      BY <1>0, <1>2, HeadOK
    <2>2. t # Decoder(p) => t = Main("client") /\ x = "Product"
      BY <1>2, <2>1 DEF StepOK
    <2>3. t = Decoder(p) => x \in Base(p)
      BY <1>2, <2>1 DEF StepOK
    <2>4. Main("client")[1] = "client"
      BY DEF Main
    <2> QED
      BY <2>2, <2>3, <2>4
  <1> HIDE DEF p, x
  <1>6. remote_index[p][x] = 0
    <2>1. CASE t = Decoder(p)
      BY <1>0, <1>1, <1>3, <1>4, <2>1 DEF Begins
    <2>2. CASE t = Main("client") /\ p = "client" /\ x = "Product"
      <3>1. ~ Ready
        BY <1>0, <1>4, <2>2 DEF OneEntry
      <3> QED
        BY <1>0, <1>1, <1>3, <2>2, <3>1 DEF TablesTrue, Ready
    <2> QED
      BY <1>5, <2>1, <2>2
  <1>7. UNCHANGED remote_index
    BY <1>1, <1>2, <1>3, <1>6 DEF Types, TableTypes
  <1>8. \A q \in Peers : handled'[q] = IF q = p THEN handled[p] \cup {x} ELSE handled[q]
    BY <1>2 DEF Types, TableTypes
  <1>9. Grows
    BY <1>2, <1>8 DEF Grows
  <1>10. Ready' <=> Ready \/ (t = Main("client") /\ Head(work[t]).op = "entry")
    <2>1. x = "Product" /\ p = "client" <=> t = Main("client")
      <3>1. CASE t = Decoder(p) /\ x \in Base(p)
        <4>1. t # Main("client")
          BY <1>1, <3>1, PeerFacts DEF Peers
        <4>2. ~ (x = "Product" /\ p = "client")
          BY <3>1 DEF Base, Own
        <4> QED
          BY <4>1, <4>2
      <3> QED
        BY <1>5, <3>1
    <2> QED
      BY <1>2, <1>8, <2>1 DEF Ready, Peers
  <1>11. OneEntry' /\ (Entering => Entering' \/ Ready')
    BY <1>0, <1>2, <1>3, <1>10, OneEntryTail
  <1>12. WorkOK'
    BY <1>0, <1>2, <1>3, <1>9, WorkTail
  <1>13. QueueOK' /\ PipeOK'
    BY <1>0, <1>2, <1>9, <1>11, QueueStays, PipeStays
  <1>14. Definitions'
    BY <1>0, <1>2, <1>7 DEF Definitions
  <1>15. TablesTrue'
    <2>1. Ready => Ready'
      BY <1>9, GrowFacts
    <2>2. \A q \in Peers : \A y \in Names :
             remote_index'[q][y] # 0 => y \in handled'[q] /\ y \in registered'[Peer(q)]
      BY <1>0, <1>2, <1>7, <1>9 DEF TablesTrue, Grows
    <2> QED
      BY <1>0, <1>2, <2>1, <2>2 DEF TablesTrue, Known
  <1>16. Begins'
    <2> SUFFICES ASSUME NEW q \in Peers
                 PROVE  /\ handled'[q] \subseteq Base(q) \cup (IF q = "client" THEN {"Product"} ELSE {})
                        /\ \A y \in Base(q) : y \in handled'[q] \/
                             \E k \in 1 .. Len(work'[Decoder(q)]) : work'[Decoder(q)][k] = Do("entry", y)
                        /\ HasEntry(work'[Decoder(q)]) => \A y \in Names : remote_index'[q][y] = 0
      BY DEF Begins, Base
    <2> DEFINE d == Decoder(q)
               Pending(s, y) == \E k \in 1 .. Len(s) : s[k] = Do("entry", y)
    <2>1. d \in Threads /\ work[d] \in Seq(Steps)
      BY <1>3, PeerFacts
    <2>2. /\ handled[q] \subseteq Base(q) \cup (IF q = "client" THEN {"Product"} ELSE {})
          /\ \A y \in Base(q) : y \in handled[q] \/ Pending(work[d], y)
          /\ HasEntry(work[d]) => \A y \in Names : remote_index[q][y] = 0
      BY <1>0 DEF Begins
    <2>3. handled'[q] \subseteq Base(q) \cup (IF q = "client" THEN {"Product"} ELSE {})
      BY <1>5, <1>8, <2>2
    <2>4. CASE t # d
      <3>1. work'[d] = work[d]
        BY <1>3, <2>1, <2>4
      <3> HIDE DEF d
      <3> QED
        BY <1>7, <1>8, <2>2, <2>3, <3>1 DEF d
    <2>5. CASE t = d
      <3>1. q = p
        BY <2>5, PeerFacts DEF p
      <3>2. work'[d] = Tail(work[d])
        BY <1>3, <2>5
      <3>3. /\ Head(work[d]) = work[d][1]
            /\ \A k \in 1 .. Len(work[d]) :
                 k = 1 \/ (k - 1 \in 1 .. Len(Tail(work[d])) /\ Tail(work[d])[k - 1] = work[d][k])
        BY <1>2, <2>1, <2>5, TailIs
      <3>4. \A y : Pending(work[d], y) => y = x \/ Pending(work'[d], y)
        <4> SUFFICES ASSUME NEW y, NEW k \in 1 .. Len(work[d]), work[d][k] = Do("entry", y)
                     PROVE  y = x \/ Pending(work'[d], y)
          OBVIOUS
        <4>1. CASE k = 1
          <5>1. Head(work[t]) = Do("entry", y)
            BY <2>5, <3>3, <4>1
          <5> QED
            BY <5>1 DEF Do, x
        <4>2. CASE k # 1
          BY <3>2, <3>3, <4>2
        <4> QED
          BY <4>1, <4>2
      <3>5. HasEntry(work'[d]) => HasEntry(work[d])
        BY <1>2, <1>4, <2>1, <2>5, <3>2, EntryTail
      <3>6. \A y \in Base(q) : y \in handled'[q] \/ Pending(work'[d], y)
        BY <1>8, <2>2, <3>1, <3>4
      <3> QED
        BY <1>7, <2>2, <2>3, <3>5, <3>6
    <2> QED
      BY <2>4, <2>5
  <1> QED
    BY <1>2, <1>11, <1>12, <1>13, <1>14, <1>15, <1>16 DEF RunInv

\* run_deferred returns.
LEMMA DeferredDoneRuns ==
    ASSUME Types, RunInv, NEW t \in Threads, DeferredDone(t)
    PROVE  RunInv' /\ UNCHANGED stopped
  <1>0. WorkOK /\ OneEntry /\ QueueOK /\ PipeOK /\ Definitions /\ Begins /\ TablesTrue
    BY DEF RunInv
  <1>1. UNCHANGED <<queue, handled, registered, remote_index, remote, status, pipe, ioctl_index,
                    writer_decimation, round, stopped>>
    BY DEF DeferredDone, decoderVars, mainVars, introVars, encoderVars, decimatingVars
  <1>2. Grows /\ PipeOK' /\ Definitions' /\ TablesTrue' /\ (Ready' <=> Ready)
    BY <1>0, <1>1, TablesStay
  <1>3. CASE UNCHANGED work
    <2>1. OneEntry' /\ (Entering => Entering' \/ Ready')
      BY <1>0, <1>1, <1>2, <1>3, OneEntryStays
    <2>2. WorkOK' /\ QueueOK' /\ Begins'
      BY <1>0, <1>1, <1>2, <1>3, <2>1, GrowFacts, QueueStays DEF WorkOK, Begins
    <2> QED
      BY <1>1, <1>2, <2>1, <2>2 DEF RunInv
  <1>4. CASE Current(t, "deferred") /\ Finish(t, <<>>)
    <2>1. work[t] # <<>> /\ Head(work[t]).op = "deferred" /\ work' = [work EXCEPT ![t] = Tail(work[t])]
      BY <1>4, FinishFacts DEF Current, Types
    <2>2. OneEntry' /\ (Entering => Entering' \/ Ready')
      BY <1>0, <1>1, <1>2, <2>1, OneEntryTail
    <2>3. WorkOK' /\ QueueOK' /\ Begins'
      BY <1>0, <1>1, <1>2, <2>1, <2>2, WorkTail, QueueStays, BeginsTail
    <2> QED
      BY <1>1, <1>2, <2>2, <2>3 DEF RunInv
  <1> QED
    BY <1>3, <1>4 DEF DeferredDone

\* Programs put together of pieces that are in order.
LEMMA JoinOK ==
    ASSUME NEW t, NEW a \in Seq(Steps), NEW b \in Seq(Steps), EntryNext(a), EntryNext(b),
           \A k \in 1 .. Len(a) : StepOK(t, a[k]), \A k \in 1 .. Len(b) : StepOK(t, b[k]),
           ~ HasEntry(b)
    PROVE  /\ a \o b \in Seq(Steps) /\ EntryNext(a \o b)
           /\ \A k \in 1 .. Len(a \o b) : StepOK(t, (a \o b)[k])
           /\ HasEntry(a \o b) => HasEntry(a)
           /\ OnlyEntry(a) => OnlyEntry(a \o b)
  <1>1. PICK c : c = a \o b
    OBVIOUS
  <1>2. /\ Len(a) \in Nat /\ Len(b) \in Nat /\ Len(c) = Len(a) + Len(b) /\ c \in Seq(Steps)
        /\ \A k \in 1 .. Len(c) :
             \/ k \in 1 .. Len(a) /\ c[k] = a[k]
             \/ k - Len(a) \in 1 .. Len(b) /\ c[k] = b[k - Len(a)]
    BY <1>1, ConcatIs
  <1>3. /\ \A k \in 1 .. Len(a) : c[k] = a[k]
        /\ \A k \in 1 .. Len(b) : c[k + Len(a)] = b[k]
    BY <1>1
  <1>4. EntryNext(c)
    <2> SUFFICES ASSUME NEW k \in 1 .. Len(c), c[k].op = "start"
                 PROVE  k < Len(c) /\ c[k + 1].op = "entry"
      BY DEF EntryNext
    <2>1. CASE k \in 1 .. Len(a) /\ c[k] = a[k]
      <3>1. \A j \in 1 .. Len(a) : a[j].op = "start" => j < Len(a) /\ a[j + 1].op = "entry"
        BY DEF EntryNext
      <3>2. k < Len(a) /\ a[k + 1].op = "entry"
        BY <2>1, <3>1
      <3>3. k + 1 \in 1 .. Len(a) /\ k < Len(c)
        BY <1>2, <3>2
      <3> QED
        BY <1>3, <3>2, <3>3
    <2>2. CASE k - Len(a) \in 1 .. Len(b) /\ c[k] = b[k - Len(a)]
      <3>0. \A j \in 1 .. Len(b) : b[j].op = "start" => j < Len(b) /\ b[j + 1].op = "entry"
        BY DEF EntryNext
      <3>1. k - Len(a) < Len(b) /\ b[(k - Len(a)) + 1].op = "entry"
        BY <2>2, <3>0
      <3>2. (k - Len(a)) + 1 \in 1 .. Len(b) /\ ((k - Len(a)) + 1) + Len(a) = k + 1 /\ k < Len(c)
        BY <1>2, <2>2, <3>1
      <3> QED
        BY <1>3, <3>1, <3>2
    <2> QED
      BY <1>2, <2>1, <2>2
  <1>5. \A k \in 1 .. Len(c) : StepOK(t, c[k])
    BY <1>2
  <1>6. \A k \in 1 .. Len(c) : c[k].op = "entry" => k \in 1 .. Len(a) /\ a[k].op = "entry"
    BY <1>2 DEF HasEntry
  <1>7. HasEntry(c) => HasEntry(a)
    BY <1>6 DEF HasEntry
  <1>8. OnlyEntry(a) => OnlyEntry(c)
    BY <1>6 DEF OnlyEntry
  <1> QED
    BY <1>1, <1>2, <1>4, <1>5, <1>7, <1>8

\* The pieces.
LEMMA PiecesOK ==
    /\ EntryNext(<<>>) /\ ~ HasEntry(<<>>) /\ OnlyEntry(<<>>) /\ <<>> \in Seq(Steps)
    /\ \A s \in Steps : s.op \notin {"start", "entry"} =>
         EntryNext(<<s>>) /\ ~ HasEntry(<<s>>) /\ OnlyEntry(<<s>>) /\ <<s>> \in Seq(Steps)
    /\ \A x \in Names :
         /\ EntryNext(RegisterSample(x)) /\ ~ HasEntry(RegisterSample(x))
         /\ EntryNext(Encode(x)) /\ ~ HasEntry(Encode(x))
         /\ EntryNext(RegisterHandler(x)) /\ OnlyEntry(RegisterHandler(x))
    /\ \A t : \A x \in Names : x \in MayDefine(t[1]) \ Own /\ t # Decoder("client") =>
         /\ \A k \in 1 .. Len(RegisterSample(x)) : StepOK(t, RegisterSample(x)[k])
         /\ \A k \in 1 .. Len(Encode(x)) : StepOK(t, Encode(x)[k])
  <1>1. EntryNext(<<>>) /\ ~ HasEntry(<<>>) /\ OnlyEntry(<<>>) /\ <<>> \in Seq(Steps)
    BY DEF EntryNext, HasEntry, OnlyEntry
  <1>2. \A s \in Steps : s.op \notin {"start", "entry"} =>
          EntryNext(<<s>>) /\ ~ HasEntry(<<s>>) /\ OnlyEntry(<<s>>) /\ <<s>> \in Seq(Steps)
    BY DEF EntryNext, HasEntry, OnlyEntry
  <1>3. \A x : /\ Do("register", x).op = "register" /\ Do("register", x).x = x
               /\ Do("encode", x).op = "encode" /\ Do("encode", x).x = x
               /\ Do("start", x).op = "start" /\ Do("start", x).x = x
               /\ Do("entry", x).op = "entry" /\ Do("entry", x).x = x
               /\ Deferred.op = "deferred"
    BY DEF Do, Deferred
  <1>4. \A a, b, c : /\ Len(<<a, b, c>>) = 3 /\ <<a, b, c>>[1] = a
                     /\ <<a, b, c>>[2] = b /\ <<a, b, c>>[3] = c
    OBVIOUS
  <1>5. \A a, b : Len(<<a, b>>) = 2 /\ <<a, b>>[1] = a /\ <<a, b>>[2] = b
    OBVIOUS
  <1>6. ASSUME NEW s, Len(s) = 3, \A k \in 1 .. 3 : s[k].op \notin {"start", "entry"}
        PROVE  EntryNext(s) /\ ~ HasEntry(s)
    BY <1>6 DEF EntryNext, HasEntry
  <1>7. \A x : /\ EntryNext(RegisterSample(x)) /\ ~ HasEntry(RegisterSample(x))
               /\ EntryNext(Encode(x)) /\ ~ HasEntry(Encode(x))
    <2> TAKE x
    <2>1. Len(RegisterSample(x)) = 3 /\ \A k \in 1 .. 3 : RegisterSample(x)[k].op \notin {"start", "entry"}
      BY <1>3, <1>4 DEF RegisterSample
    <2>2. Len(Encode(x)) = 3 /\ \A k \in 1 .. 3 : Encode(x)[k].op \notin {"start", "entry"}
      BY <1>3, <1>4 DEF Encode
    <2> QED
      BY <1>6, <2>1, <2>2
  <1>8. \A x : EntryNext(RegisterHandler(x)) /\ OnlyEntry(RegisterHandler(x))
    <2>1. \A a, b : a.op = "start" /\ b.op = "entry" => EntryNext(<<a, b>>) /\ OnlyEntry(<<a, b>>)
      BY <1>5 DEF EntryNext, OnlyEntry
    <2> QED
      BY <1>3, <2>1 DEF RegisterHandler
  <1>9. ASSUME NEW t, NEW x \in MayDefine(t[1]) \ Own, t # Decoder("client")
        PROVE  /\ \A k \in 1 .. Len(RegisterSample(x)) : StepOK(t, RegisterSample(x)[k])
               /\ \A k \in 1 .. Len(Encode(x)) : StepOK(t, Encode(x)[k])
    <2>1. StepOK(t, Do("register", x)) /\ StepOK(t, Do("encode", x)) /\ StepOK(t, Deferred)
      BY <1>3, <1>9 DEF StepOK, WriteOps
    <2>2. \A a, b, c : StepOK(t, a) /\ StepOK(t, b) /\ StepOK(t, c) =>
            \A k \in 1 .. Len(<<a, b, c>>) : StepOK(t, <<a, b, c>>[k])
      BY <1>4
    <2> QED
      BY <2>1, <2>2 DEF RegisterSample, Encode
  <1> QED
    BY <1>1, <1>2, <1>7, <1>8, <1>9

\* The ioctl reads the remote index of Sum, which is the server's or 0.
LEMMA IoctlReadRuns ==
    ASSUME Types, RunInv, NEW t \in Threads, IoctlRead(t)
    PROVE  RunInv' /\ UNCHANGED stopped
  <1>0. WorkOK /\ OneEntry /\ QueueOK /\ PipeOK /\ Definitions /\ Begins /\ TablesTrue
    BY DEF RunInv
  <1>1. PICK a : a = Do("ioctl_set", "Sum")
    OBVIOUS
  <1>2. PICK s : s = work[t]
    OBVIOUS
  <1>3. /\ s # <<>> /\ Head(s).op = "ioctl" /\ ioctl_index' = remote_index["client"]["Sum"]
        /\ work' = [work EXCEPT ![t] = <<a>> \o Tail(s)]
        /\ UNCHANGED <<queue, handled, registered, remote_index, remote, status, pipe,
                       writer_decimation, round, stopped>>
    BY <1>1, <1>2 DEF IoctlRead, Current, Finish, decoderVars, introVars, encoderVars, decimatingVars
  <1>4. /\ s \in Seq(Steps) /\ a \in Steps /\ a.op = "ioctl_set"
        /\ work \in [Threads -> Seq(Steps)]
    <2>1. a \in Steps
      BY <1>1, ListFacts DEF StepOps, WriteOps, Names
    <2> QED
      BY <1>1, <1>2, <2>1 DEF Types, ListTypes, Do
  <1>5. PICK r : r = <<a>> \o Tail(s)
    OBVIOUS
  <1>6. /\ r \in Seq(Steps) /\ Len(s) \in Nat \ {0} /\ Len(r) = Len(s) /\ r[1] = a /\ s[1] = Head(s)
        /\ \A k \in 1 .. Len(s) : k = 1 \/ r[k] = s[k]
    <2>1. /\ Len(s) \in Nat \ {0} /\ Len(Tail(s)) = Len(s) - 1 /\ Tail(s) \in Seq(Steps)
          /\ s[1] = Head(s)
          /\ \A k \in 1 .. Len(s) : k = 1 \/ (k - 1 \in 1 .. Len(Tail(s)) /\ Tail(s)[k - 1] = s[k])
      BY <1>3, <1>4, TailIs
    <2>2. \A b \in Seq(Steps) :
            /\ <<a>> \o b \in Seq(Steps) /\ Len(<<a>> \o b) = Len(b) + 1 /\ (<<a>> \o b)[1] = a
            /\ \A k \in 1 .. Len(b) : (<<a>> \o b)[k + 1] = b[k]
      BY <1>4
    <2>3. /\ r \in Seq(Steps) /\ Len(r) = Len(Tail(s)) + 1 /\ r[1] = a
          /\ \A k \in 1 .. Len(Tail(s)) : r[k + 1] = Tail(s)[k]
      BY <1>5, <2>1, <2>2
    <2>4. \A k \in 1 .. Len(s) : k = 1 \/ r[k] = s[k]
      <3> SUFFICES ASSUME NEW k \in 1 .. Len(s), k # 1 PROVE r[k] = s[k]
        OBVIOUS
      <3>1. k - 1 \in 1 .. Len(Tail(s)) /\ Tail(s)[k - 1] = s[k] /\ (k - 1) + 1 = k
        BY <2>1
      <3> QED
        BY <2>3, <3>1
    <2> QED
      BY <2>1, <2>3, <2>4
  <1>7. \A k \in 1 .. Len(s) : r[k].op \in {"start", "entry"} \/ s[k].op \in {"start", "entry"} => r[k] = s[k]
    BY <1>3, <1>4, <1>6
  <1>8. EntryNext(s) /\ \A k \in 1 .. Len(s) : StepOK(t, s[k])
    BY <1>0, <1>2 DEF WorkOK
  <1>9. StepOK(t, a)
    BY <1>3, <1>4, <1>6, <1>8 DEF StepOK, WriteOps
  <1>10. Grows /\ (Ready' <=> Ready)
    BY <1>3 DEF Grows, Ready
  <1>11. WorkOK'
    <2>1. EntryNext(r)
      <3>1. \A k \in 1 .. Len(s) : s[k].op = "start" => k < Len(s) /\ s[k + 1].op = "entry"
        BY <1>8 DEF EntryNext
      <3> SUFFICES ASSUME NEW k \in 1 .. Len(r), r[k].op = "start"
                   PROVE  k < Len(r) /\ r[k + 1].op = "entry"
        BY DEF EntryNext
      <3>2. k < Len(s) /\ s[k + 1].op = "entry"
        BY <1>6, <1>7, <3>1
      <3>3. k + 1 \in 1 .. Len(s)
        BY <1>6, <3>2
      <3> QED
        BY <1>6, <1>7, <3>2, <3>3
    <2>2. \A k \in 1 .. Len(r) : StepOK(t, r[k])
      BY <1>6, <1>8, <1>9
    <2> QED
      BY <1>0, <1>3, <1>5, <1>6, <1>10, <2>1, <2>2, WorkSet
  <1>12. HasEntry(r) => HasEntry(s)
    BY <1>6, <1>7 DEF HasEntry
  <1>13. t = Main("client")
    BY <1>3, <1>6, <1>8 DEF StepOK
  <1>14. OneEntry'
    <2>1. work'[Main("client")] = r /\ work[Main("client")] = s
      BY <1>2, <1>3, <1>4, <1>5, <1>13
    <2>2. OnlyEntry(s) /\ (HasEntry(s) => ~ Ready) /\ (Ready \/ HasEntry(s) => round >= Late) /\ round \in Nat
      BY <1>0, <2>1 DEF OneEntry
    <2>3. OnlyEntry(r)
      BY <1>6, <1>7, <2>2 DEF OnlyEntry
    <2> QED
      BY <1>3, <1>10, <1>12, <2>1, <2>2, <2>3 DEF OneEntry
  <1>15. ~ Entering
    BY <1>2, <1>3, <1>13 DEF Entering
  <1>16. QueueOK' /\ PipeOK'
    BY <1>0, <1>3, <1>10, <1>15, QueueStays, PipeStays
  <1>17. Definitions'
    BY <1>0, <1>3 DEF Definitions
  <1>18. TablesTrue'
    <2>1. ioctl_index' # 0 => ioctl_index' \in Known("server")
      <3>1. remote_index["client"]["Sum"] \in {0, Index["server"]["Sum"]}
        BY PeerFacts DEF Types, TableTypes, Peers, Names
      <3>2. remote_index["client"]["Sum"] # 0 => "Sum" \in registered["server"]
        BY <1>0, PeerFacts DEF TablesTrue, Peers, Names
      <3> QED
        BY <1>3, <3>1, <3>2 DEF Known
    <2>2. \A q \in Peers : Known(q)' = Known(q)
      BY <1>3 DEF Known
    <2> QED
      BY <1>0, <1>3, <1>10, <2>1, <2>2 DEF TablesTrue, Peers
  <1>19. Begins'
    <2>1. \A q \in Peers : work'[Decoder(q)] = work[Decoder(q)]
      BY <1>3, <1>4, <1>13, PeerFacts DEF Peers
    <2>2. Begins /\ UNCHANGED <<handled, remote_index>>
      BY <1>0, <1>3
    <2> QED
      BY <2>1, <2>2 DEF Begins
  <1> QED
    BY <1>3, <1>11, <1>14, <1>16, <1>17, <1>18, <1>19 DEF RunInv

\* The next round: Product is registered in one of them only.
LEMMA NextRoundRuns ==
    ASSUME Types, RunInv, NextRound
    PROVE  RunInv' /\ UNCHANGED stopped
  <1> DEFINE t == Main("client")
  <1>0. WorkOK /\ OneEntry /\ QueueOK /\ PipeOK /\ Definitions /\ Begins /\ TablesTrue
    BY DEF RunInv
  <1>1. PICK first : first = IF round' = Late THEN RegisterHandler("Product") ELSE <<>>
    OBVIOUS
  <1>2. PICK last : last = IF round' = Rounds THEN Do("sleep", "B") ELSE Deferred
    OBVIOUS
  <1>3. /\ work[t] = <<>> /\ round' = round + 1
        /\ work' = [work EXCEPT ![t] = first \o Encode("B") \o <<last>>]
        /\ UNCHANGED <<queue, handled, registered, remote_index, remote, status, pipe, ioctl_index,
                       writer_decimation, stopped>>
    BY <1>1, <1>2 DEF NextRound, Main, decoderVars, introVars, encoderVars, decimatingVars
  <1>4. t \in Threads /\ t[1] = "client" /\ t # Decoder("client") /\ Peer("client") = "server"
    BY PeerFacts DEF Main, Decoder, Peers
  <1>5. first \in Seq(Steps) /\ Encode("B") \in Seq(Steps) /\ last \in Steps /\ last.op \in {"sleep", "deferred"}
    <2>1. RegisterHandler("Product") \in Seq(Steps) /\ <<>> \in Seq(Steps) /\ Encode("B") \in Seq(Steps)
      BY ListFacts DEF Names
    <2>2. Do("sleep", "B") \in Steps /\ Deferred \in Steps
      BY ListFacts DEF StepOps, Names
    <2>3. Do("sleep", "B").op = "sleep" /\ Deferred.op = "deferred"
      BY DEF Do, Deferred
    <2> QED
      BY <1>1, <1>2, <2>1, <2>2, <2>3
  <1> HIDE DEF t
  <1>6. StepOK(t, last)
    BY <1>4, <1>5 DEF StepOK, WriteOps
  <1>7. \A k \in 1 .. Len(Encode("B")) : StepOK(t, Encode("B")[k])
    <2>1. "B" \in MayDefine(t[1]) \ Own /\ "B" \in Names
      BY <1>4 DEF MayDefine, Base, Own, Names
    <2> QED
      BY <1>4, <2>1, PiecesOK
  <1>8. EntryNext(first) /\ OnlyEntry(first) /\ (HasEntry(first) => round' = Late)
    <2>1. EntryNext(<<>>) /\ OnlyEntry(<<>>) /\ ~ HasEntry(<<>>)
      BY PiecesOK
    <2>2. EntryNext(RegisterHandler("Product")) /\ OnlyEntry(RegisterHandler("Product"))
      BY PiecesOK DEF Names
    <2> QED
      BY <1>1, <2>1, <2>2
  <1>9. \A k \in 1 .. Len(first) : StepOK(t, first[k])
    <2>1. CASE round' = Late
      <3>1. StepOK(t, Do("start", "Product")) /\ StepOK(t, Do("entry", "Product"))
        BY <1>4 DEF t, StepOK, WriteOps, Do
      <3>2. \A k \in 1 .. Len(first) : first[k] = Do("start", "Product") \/ first[k] = Do("entry", "Product")
        BY <1>1, <2>1 DEF RegisterHandler
      <3> QED
        BY <3>1, <3>2
    <2>2. CASE round' # Late
      BY <1>1, <2>2
    <2> QED
      BY <2>1, <2>2
  <1>10. /\ EntryNext(Encode("B")) /\ ~ HasEntry(Encode("B"))
         /\ EntryNext(<<last>>) /\ ~ HasEntry(<<last>>) /\ <<last>> \in Seq(Steps)
    BY <1>5, PiecesOK DEF Names
  <1>11. PICK more : more = first \o Encode("B") \o <<last>>
    OBVIOUS
  <1>12. /\ more \in Seq(Steps) /\ EntryNext(more) /\ \A k \in 1 .. Len(more) : StepOK(t, more[k])
         /\ (HasEntry(more) => HasEntry(first)) /\ OnlyEntry(more)
    <2>1. PICK b : b = Encode("B")
      OBVIOUS
    <2>2. PICK c : c = <<last>>
      OBVIOUS
    <2>3. \A k \in 1 .. Len(c) : StepOK(t, c[k])
      BY <1>6, <2>2
    <2>4. PICK a : a = first \o b
      OBVIOUS
    <2>5. /\ a \in Seq(Steps) /\ EntryNext(a) /\ \A k \in 1 .. Len(a) : StepOK(t, a[k])
          /\ (HasEntry(a) => HasEntry(first)) /\ OnlyEntry(a)
      <3>1. /\ first \in Seq(Steps) /\ b \in Seq(Steps) /\ EntryNext(first) /\ EntryNext(b) /\ ~ HasEntry(b)
            /\ OnlyEntry(first) /\ \A k \in 1 .. Len(b) : StepOK(t, b[k])
        BY <1>5, <1>7, <1>8, <1>10, <2>1, Zenon
      <3> QED
        BY <1>9, <2>4, <3>1, JoinOK
    <2>6. c \in Seq(Steps) /\ EntryNext(c) /\ ~ HasEntry(c)
      BY <1>10, <2>2, Zenon
    <2>7. more = a \o c
      BY <1>11, <2>1, <2>2, <2>4
    <2> QED
      BY <2>3, <2>5, <2>6, <2>7, JoinOK
  <1>13. work' = [work EXCEPT ![t] = more]
    BY <1>3, <1>11
  <1>14. work \in [Threads -> Seq(Steps)]
    BY DEF Types, ListTypes
  <1>15. Grows /\ PipeOK' /\ Definitions' /\ TablesTrue' /\ (Ready' <=> Ready)
    BY <1>0, <1>3, TablesStay
  <1>16. WorkOK'
    BY <1>0, <1>4, <1>12, <1>13, <1>15, WorkSet
  <1>17. OneEntry'
    <2>1. work'[t] = more
      BY <1>4, <1>13, <1>14
    <2>2. round \in Nat /\ (Ready => round >= Late) /\ Late \in Nat
      BY <1>0, TwoWayAssumption DEF OneEntry
    <2>3. /\ HasEntry(more) => ~ Ready'
          /\ Ready' \/ HasEntry(more) => round' >= Late
          /\ round' \in Nat
      BY <1>3, <1>8, <1>12, <1>15, <2>2
    <2> QED
      BY <1>12, <2>1, <2>3 DEF OneEntry, t
  <1>18. ~ Entering
    BY <1>3 DEF Entering, t
  <1>19. QueueOK'
    BY <1>0, <1>3, <1>15, <1>18, QueueStays
  <1>20. Begins'
    <2>1. \A q \in Peers : work'[Decoder(q)] = work[Decoder(q)]
      BY <1>13, <1>14, PeerFacts DEF Peers, t
    <2> QED
      BY <1>0, <1>3, <2>1 DEF Begins
  <1> QED
    BY <1>3, <1>15, <1>16, <1>17, <1>19, <1>20 DEF RunInv

-----------------------------------------------------------------------------

\* A packet is taken, and with it goes a definition only if its index has been entered.
LEMMA TakePacket ==
    ASSUME Types, PipeOK, Definitions, NEW q \in Peers, pipe[Peer(q)] # <<>>, Taken(q),
           UNCHANGED <<registered, handled>>,
           \A r \in Peers : \A y \in Names : remote_index[r][y] # 0 => remote_index'[r][y] # 0,
           Packet(q).tag = 0 => remote_index'[q][Packet(q).v] # 0
    PROVE  Grows /\ PipeOK' /\ Definitions'
  <1>1. PICK p \in Peers : p = Peer(q) /\ Peer(p) = q
    BY PeerFacts
  <1>2. PICK s : s = pipe[p]
    OBVIOUS
  <1>3. s \in Seq(Sent(p)) /\ s # <<>> /\ DOMAIN pipe = Peers
    BY <1>1, <1>2 DEF Types, ListTypes
  <1>4. PICK r : r = Tail(s)
    OBVIOUS
  <1>5. /\ Len(s) \in Nat \ {0} /\ Len(r) = Len(s) - 1 /\ Packet(q) = s[1]
        /\ \A k \in 1 .. Len(r) : r[k] = s[k + 1] /\ k + 1 \in 1 .. Len(s)
        /\ \A k \in 1 .. Len(s) : k = 1 \/ (k - 1 \in 1 .. Len(r) /\ r[k - 1] = s[k])
    <2>1. Packet(q) = Head(s)
      BY <1>1, <1>2 DEF Packet
    <2> QED
      BY <1>3, <1>4, <2>1, TailIs
  <1>6. \A u \in Peers : pipe'[u] = IF u = p THEN r ELSE pipe[u]
    BY <1>1, <1>2, <1>3, <1>4 DEF Taken
  <1>7. Grows
    BY DEF Grows
  <1>8. PipeOK'
    <2> SUFFICES ASSUME NEW u \in Peers, NEW k \in 1 .. Len(pipe'[u])
                 PROVE  PacketOK(u, pipe[u][k])'
      BY DEF PipeOK
    <2>1. PICK e : e = pipe'[u][k]
      OBVIOUS
    <2>2. PacketOK(u, e)
      <3>1. CASE u # p
        BY <1>6, <2>1, <3>1 DEF PipeOK
      <3>2. CASE u = p
        <4>1. e = r[k] /\ k \in 1 .. Len(r)
          BY <1>6, <2>1, <3>2
        <4>2. e = s[k + 1] /\ k + 1 \in 1 .. Len(s)
          BY <1>5, <4>1
        <4> QED
          BY <1>2, <3>2, <4>2 DEF PipeOK
      <3> QED
        BY <3>1, <3>2
    <2>3. PacketOK(u, e)'
      BY <1>7, <2>2, GrowFacts
    <2> QED
      BY <2>1, <2>3
  <1>9. \A y : \A n \in 0 .. Len(s) :
          Defines(s, n, y) => (s[1].tag = 0 /\ s[1].v = y) \/ (n # 0 /\ Defines(r, n - 1, y))
    <2> SUFFICES ASSUME NEW y, NEW n \in 0 .. Len(s), Defines(s, n, y), ~ (s[1].tag = 0 /\ s[1].v = y)
                 PROVE  n # 0 /\ Defines(r, n - 1, y)
      OBVIOUS
    <2>1. PICK j \in 1 .. n : s[j].tag = 0 /\ s[j].v = y
      BY DEF Defines
    <2>2. j # 1 /\ j \in 1 .. Len(s) /\ j - 1 \in 1 .. n - 1 /\ n # 0
      BY <1>5, <2>1
    <2>3. r[j - 1] = s[j]
      BY <1>5, <2>2
    <2> QED
      BY <2>1, <2>2, <2>3 DEF Defines
  <1>10. ASSUME NEW y \in Names, remote_index'[q][y] = 0
         PROVE  /\ \A k \in 1 .. Len(r) : r[k].tag = Index[p][y] => Defines(r, k - 1, y)
                /\ y \in registered'[p] => Defines(r, Len(r), y)
    <2>1. remote_index[q][y] = 0 /\ ~ (s[1].tag = 0 /\ s[1].v = y)
      BY <1>5, <1>10
    <2>2. /\ \A k \in 1 .. Len(s) : s[k].tag = Index[p][y] => Defines(s, k - 1, y)
          /\ y \in registered[p] => Defines(s, Len(s), y)
      BY <1>1, <1>2, <2>1 DEF Definitions
    <2>3. ASSUME NEW k \in 1 .. Len(r), r[k].tag = Index[p][y] PROVE Defines(r, k - 1, y)
      <3>1. k + 1 \in 1 .. Len(s) /\ s[k + 1].tag = Index[p][y] /\ (k + 1) - 1 = k /\ k \in 0 .. Len(s)
        BY <1>5, <2>3
      <3>2. Defines(s, k, y)
        BY <2>2, <3>1
      <3> QED
        BY <1>9, <2>1, <3>1, <3>2
    <2>4. ASSUME y \in registered'[p] PROVE Defines(r, Len(r), y)
      <3>1. Defines(s, Len(s), y) /\ Len(s) \in 0 .. Len(s)
        BY <1>5, <2>2, <2>4
      <3> QED
        BY <1>5, <1>9, <2>1, <3>1
    <2> QED
      BY <2>3, <2>4
  <1>11. Definitions'
    <2> SUFFICES ASSUME NEW u \in Peers, NEW y \in Names, remote_index'[Peer(u)][y] = 0
                 PROVE  /\ \A k \in 1 .. Len(pipe'[u]) :
                             pipe'[u][k].tag = Index[u][y] => Defines(pipe'[u], k - 1, y)
                        /\ y \in registered'[u] => Defines(pipe'[u], Len(pipe'[u]), y)
      BY DEF Definitions
    <2>1. CASE u = p
      BY <1>1, <1>6, <1>10, <2>1
    <2>2. CASE u # p
      <3>1. remote_index[Peer(u)][y] = 0 /\ pipe'[u] = pipe[u]
        BY <1>6, <2>2, PeerFacts
      <3> QED
        BY <3>1 DEF Definitions
    <2> QED
      BY <2>1, <2>2
  <1> QED
    BY <1>7, <1>8, <1>11

\* What a peer reads it handles: a definition or a sample is never unknown.
LEMMA PacketFacts ==
    ASSUME Types, RunInv, NEW q \in Peers, Reads(q)
    PROVE  /\ Packet(q) \in Sent(Peer(q)) /\ PacketOK(Peer(q), Packet(q))
           /\ Packet(q).tag = 0 => Packet(q).v \in handled[q] \cap registered[Peer(q)]
           /\ Packet(q).tag # 0 => \E x \in handled[q] : remote_index[q][x] = Packet(q).tag
  <1>0. WorkOK /\ PipeOK /\ Definitions /\ Begins /\ TablesTrue
    BY DEF RunInv
  <1>1. PICK p \in Peers : p = Peer(q) /\ Peer(p) = q
    BY PeerFacts
  <1>2. PICK s : s = pipe[p]
    OBVIOUS
  <1>3. s \in Seq(Sent(p)) /\ s # <<>>
    BY <1>1, <1>2 DEF Types, ListTypes, Reads
  <1>4. PICK m : m = Packet(q)
    OBVIOUS
  <1>5. m = s[1] /\ 1 \in 1 .. Len(s) /\ m \in Sent(p)
    <2>1. m = Head(s)
      BY <1>1, <1>2, <1>4 DEF Packet
    <2> QED
      BY <1>3, <2>1, TailIs
  <1>6. PacketOK(p, m)
    BY <1>0, <1>2, <1>5 DEF PipeOK
  <1>7. m.tag = 0 => m.v \in handled[q] \cap registered[p]
    <2> SUFFICES ASSUME m.tag = 0 PROVE m.v \in handled[q] \cap registered[p]
      OBVIOUS
    <2>1. m.v \in MayDefine(p) \cap registered[p]
      BY <1>6 DEF PacketOK
    <2>2. m.v \in Base(q) => m.v \in handled[q]
      <3>1. work[Decoder(q)] = <<>>
        BY DEF Reads
      <3>2. ~ \E k \in 1 .. Len(work[Decoder(q)]) : work[Decoder(q)][k] = Do("entry", m.v)
        BY <3>1
      <3> QED
        BY <1>0, <3>2 DEF Begins
    <2>3. m.v \notin Base(q) => m.v = "Product" /\ p = "server" /\ Ready
      BY <1>1, <2>1 DEF MayDefine
    <2>4. p = "server" => q = "client"
      BY <1>1, PeerFacts
    <2> QED
      BY <2>1, <2>2, <2>3, <2>4 DEF Ready
  <1>8. m.tag # 0 => \E x \in handled[q] : remote_index[q][x] = m.tag
    <2> SUFFICES ASSUME m.tag # 0 PROVE \E x \in handled[q] : remote_index[q][x] = m.tag
      OBVIOUS
    <2>1. PICK x \in Names : m.tag = Index[p][x]
      BY <1>5, SentFacts
    <2>2. remote_index[q][x] # 0
      <3>1. ~ Defines(s, 1 - 1, x)
        BY DEF Defines
      <3>2. remote_index[q][x] # 0 \/ \A k \in 1 .. Len(s) : s[k].tag = Index[p][x] => Defines(s, k - 1, x)
        BY <1>0, <1>1, <1>2 DEF Definitions
      <3> QED
        BY <1>5, <2>1, <3>1, <3>2
    <2>3. x \in handled[q]
      BY <1>0, <2>2 DEF TablesTrue
    <2>4. remote_index[q][x] = m.tag
      BY <1>1, <2>1, <2>2 DEF Types, TableTypes
    <2> QED
      BY <2>3, <2>4
  <1> QED
    BY <1>1, <1>4, <1>5, <1>6, <1>7, <1>8

\* A definition of a sample that is handled has arrived.
LEMMA SampleDefRuns ==
    ASSUME Types, RunInv, NEW q \in Peers, handle_sample_def(q)
    PROVE  RunInv' /\ UNCHANGED stopped
  <1> DEFINE x == Packet(q).v
             d == Decoder(q)
  <1>0. WorkOK /\ OneEntry /\ QueueOK /\ PipeOK /\ Definitions /\ Begins /\ TablesTrue
    BY DEF RunInv
  <1>1. /\ Reads(q) /\ Packet(q).tag = 0 /\ x \in handled[q] /\ Taken(q)
        /\ remote_index' = [remote_index EXCEPT ![q][x] = Packet(q).index]
        /\ work' = [work EXCEPT ![d] = <<Do("defined", x)>>]
        /\ UNCHANGED <<queue, handled, registered, remote, status, ioctl_index,
                       writer_decimation, round, stopped>>
    BY DEF handle_sample_def, introVars, encoderVars, decimatingVars, mainVars
  <1>2. Packet(q) \in Sent(Peer(q)) /\ x \in registered[Peer(q)] /\ Peer(q) \in Peers
    BY <1>0, <1>1, PacketFacts, PeerFacts
  <1>3. x \in Names /\ Packet(q).index # 0
    BY <1>1, <1>2, SentFacts, IndexFacts
  <1>4. /\ d \in Threads /\ d[1] = q /\ d # Main("client")
        /\ work \in [Threads -> Seq(Steps)] /\ work[d] = <<>>
    BY <1>1, PeerFacts DEF Types, ListTypes, Reads, Peers, Decoder, Main
  <1>5. PICK more : more = <<Do("defined", x)>>
    OBVIOUS
  <1>6. /\ more \in Seq(Steps) /\ EntryNext(more) /\ ~ HasEntry(more)
        /\ \A k \in 1 .. Len(more) : StepOK(d, more[k])
    <2>1. PICK s \in Steps : s = Do("defined", x)
      BY <1>3, ListFacts DEF StepOps, WriteOps
    <2>2. s.op = "defined" /\ s.x = x
      BY <2>1 DEF Do
    <2>3. more \in Seq(Steps) /\ EntryNext(more) /\ ~ HasEntry(more)
      BY <1>5, <2>1, <2>2, PiecesOK
    <2>4. StepOK(d, s)
      BY <1>1, <1>4, <2>2 DEF StepOK, WriteOps
    <2> QED
      BY <1>5, <2>1, <2>3, <2>4
  <1> HIDE DEF x, d
  <1>7. remote_index \in [Peers -> [Names -> Nat]]
    BY DEF Types, TableTypes
  <1>8. \A r \in Peers : \A y \in Names :
           remote_index'[r][y] = IF r = q /\ y = x THEN Packet(q).index ELSE remote_index[r][y]
    BY <1>1, <1>3, <1>7
  <1>9. Grows /\ PipeOK' /\ Definitions'
    <2>1. \A r \in Peers : \A y \in Names : remote_index[r][y] # 0 => remote_index'[r][y] # 0
      BY <1>3, <1>8
    <2>2. remote_index'[q][Packet(q).v] # 0
      BY <1>3, <1>8 DEF x
    <2>3. pipe[Peer(q)] # <<>> /\ UNCHANGED <<registered, handled>>
      BY <1>1 DEF Reads
    <2> QED
      BY <1>0, <1>1, <2>1, <2>2, <2>3, TakePacket
  <1>10. WorkOK'
    BY <1>0, <1>1, <1>4, <1>5, <1>6, <1>9, WorkSet
  <1>11. OneEntry' /\ (Entering => Entering' \/ Ready')
    <2>1. work'[Main("client")] = work[Main("client")] /\ (Ready' <=> Ready)
      BY <1>1, <1>4, PeerFacts DEF Ready, Peers
    <2> QED
      BY <1>0, <1>1, <2>1, OneEntryStays
  <1>12. QueueOK'
    BY <1>0, <1>1, <1>9, <1>11, QueueStays
  <1>13. TablesTrue'
    <2>1. \A r \in Peers : \A y \in Names :
             remote_index'[r][y] # 0 => y \in handled'[r] /\ y \in registered'[Peer(r)]
      BY <1>0, <1>1, <1>2, <1>8 DEF TablesTrue, x
    <2>2. (Ready' <=> Ready) /\ \A r \in Peers : Known(r)' = Known(r)
      BY <1>1 DEF Ready, Known
    <2> QED
      BY <1>0, <1>1, <2>1, <2>2 DEF TablesTrue, Peers
  <1>14. Begins'
    <2>1. \A r \in Peers : Decoder(r) \in Threads /\ (r # q => Decoder(r) # d)
      BY PeerFacts DEF d
    <2>2. \A r \in Peers : IF r = q THEN work'[Decoder(r)] = more ELSE work'[Decoder(r)] = work[Decoder(r)]
      BY <1>1, <1>4, <1>5, <2>1 DEF d
    <2>3. \A r \in Peers : r # q => remote_index'[r] = remote_index[r]
      BY <1>1, <1>7
    <2>4. \A r \in Peers :
            /\ \/ work'[Decoder(r)] = work[Decoder(r)]
               \/ work[Decoder(r)] # <<>> /\ work'[Decoder(r)] = Tail(work[Decoder(r)])
                    /\ Head(work[Decoder(r)]).op # "entry"
               \/ work[Decoder(r)] = <<>> /\ ~ HasEntry(work'[Decoder(r)])
            /\ remote_index'[r] = remote_index[r] \/ work[Decoder(r)] = <<>>
      BY <1>4, <1>6, <2>2, <2>3 DEF d
    <2> QED
      BY <1>0, <1>1, <2>4, BeginsStays
  <1> QED
    BY <1>1, <1>9, <1>10, <1>11, <1>12, <1>13, <1>14 DEF RunInv

\* A sample is given to its handler: the news it brings is true, and what the server's
\* handler of B registers the client handles.
LEMMA HandleRuns ==
    ASSUME Types, RunInv, NEW q \in Peers, Handle(q)
    PROVE  RunInv' /\ UNCHANGED stopped
  <1> DEFINE m == Packet(q)
             d == Decoder(q)
  <1>0. WorkOK /\ OneEntry /\ QueueOK /\ PipeOK /\ Definitions /\ Begins /\ TablesTrue
    BY DEF RunInv
  <1>1. PICK x \in handled[q] :
          /\ Reads(q) /\ m.tag = remote_index[q][x] /\ m.tag # 0
          /\ \/ x = "handles_signature" /\ handles_signature(q, m.v) /\ UNCHANGED <<decimatingVars, work>>
             \/ /\ x = "set_decimation" /\ set_decimation(q, m.v)
                /\ UNCHANGED <<reader_decimation, introVars, work>>
             \/ x = "B" /\ handle_B(q) /\ UNCHANGED <<decimatingVars, remote>>
             \/ x \in {"Sum", "Product"} /\ UNCHANGED <<decimatingVars, introVars, work>>
          /\ Taken(q)
          /\ UNCHANGED <<queue, registered, handled, remote_index, ioctl_index, round, stopped>>
    BY DEF Handle, decoderVars, encoderVars, mainVars
  <1>2. /\ m \in Sent(Peer(q)) /\ PacketOK(Peer(q), m) /\ Peer(q) \in Peers
    BY <1>0, <1>1, PacketFacts, PeerFacts
  <1>3. x \in Names /\ m.tag = Index[Peer(q)][x]
    BY <1>1 DEF Types, TableTypes
  <1>4. GoodValue(x, m.v)
    BY <1>1, <1>2, <1>3, SentFacts, IndexFacts
  <1>5. /\ d \in Threads /\ d[1] = q /\ d # Main("client") /\ Main("client") \in Threads
        /\ work \in [Threads -> Seq(Steps)] /\ work[d] = <<>>
    BY <1>1, PeerFacts DEF Types, ListTypes, Reads, Peers, Decoder, Main
  <1>6. Grows /\ PipeOK' /\ Definitions'
    <2>1. pipe[Peer(q)] # <<>>
      BY <1>1 DEF Reads
    <2> QED
      BY <1>0, <1>1, <2>1, TakePacket
  <1>7. (Ready' <=> Ready) /\ \A r \in Peers : Known(r)' = Known(r)
    BY <1>1 DEF Ready, Known
  <1>8. PICK v : v = m.v
    OBVIOUS
  <1> HIDE DEF m, d
  \* What the handlers leave to be shown.
  <1>9. ASSUME "Product" \in remote'["server"] => Ready,
               status'["server"]["Product"] \in {"unregistered", "registered"} => Ready,
               \A r \in Peers : \A i \in Indices : writer_decimation'[r][i].n # 0 => i \in Known(r)
        PROVE  TablesTrue'
    <2>1. \A r \in Peers : \A y \in Names :
             remote_index'[r][y] # 0 => y \in handled'[r] /\ y \in registered'[Peer(r)]
      BY <1>0, <1>1 DEF TablesTrue
    <2>2. ioctl_index' # 0 => ioctl_index' \in Known("server")'
      BY <1>0, <1>1, <1>7 DEF TablesTrue, Peers
    <2> QED
      BY <1>7, <1>9, <2>1, <2>2 DEF TablesTrue
  <1>10. /\ "Product" \in remote["server"] => Ready
         /\ status["server"]["Product"] \in {"unregistered", "registered"} => Ready
         /\ \A r \in Peers : \A i \in Indices : writer_decimation[r][i].n # 0 => i \in Known(r)
    BY <1>0 DEF TablesTrue
  <1>11. ASSUME UNCHANGED work PROVE WorkOK' /\ OneEntry' /\ QueueOK' /\ Begins'
    <2>1. OneEntry' /\ (Entering => Entering' \/ Ready')
      BY <1>0, <1>1, <1>7, <1>11, OneEntryStays
    <2> QED
      BY <1>0, <1>1, <1>6, <1>11, <2>1, GrowFacts, QueueStays DEF WorkOK, Begins
  <1>12. CASE x = "handles_signature" /\ handles_signature(q, m.v) /\ UNCHANGED <<decimatingVars, work>>
    <2>1. /\ remote' = [remote EXCEPT ![q] = remote[q] \cup {v}] /\ v \in Names
          /\ status' = [status EXCEPT ![q][v] =
                          IF status[q][v] = "unhandled" THEN "unregistered" ELSE status[q][v]]
      BY <1>4, <1>8, <1>12 DEF handles_signature, GoodValue
    <2>2. v = "Product" /\ q = "server" => Ready
      BY <1>2, <1>3, <1>8, <1>12, PeerFacts DEF PacketOK
    <2>3. "Product" \in remote'["server"] => Ready
      BY <1>10, <2>1, <2>2 DEF Types, TableTypes, Peers
    <2>4. (v = "Product" /\ q = "server") \/ status'["server"]["Product"] = status["server"]["Product"]
      <3>1. status \in [Peers -> [Names -> Statuses]] /\ "server" \in Peers /\ "Product" \in Names
        BY DEF Types, TableTypes, Peers, Names
      <3> QED
        BY <2>1, <3>1
    <2>5. TablesTrue'
      BY <1>9, <1>10, <1>12, <2>2, <2>3, <2>4 DEF decimatingVars
    <2> QED
      BY <1>1, <1>6, <1>11, <1>12, <2>5 DEF RunInv
  <1>13. CASE x = "set_decimation" /\ set_decimation(q, m.v) /\ UNCHANGED <<introVars, work>>
    <2>1. v \in Decimations /\ v.signature_index \in Known(q)
      BY <1>2, <1>3, <1>4, <1>8, <1>13, PeerFacts DEF PacketOK, GoodValue
    <2>2. PICK e : writer_decimation' = [writer_decimation EXCEPT ![q][v.signature_index] = e]
      BY <1>8, <1>13 DEF set_decimation
    <2>3. \A r \in Peers : \A i \in Indices :
             (r = q /\ i = v.signature_index) \/ writer_decimation'[r][i] = writer_decimation[r][i]
      BY <2>2 DEF Types, DecimationTypes
    <2>4. \A r \in Peers : \A i \in Indices : writer_decimation'[r][i].n # 0 => i \in Known(r)
      BY <1>10, <2>1, <2>3
    <2>5. TablesTrue'
      BY <1>9, <1>10, <1>13, <2>4 DEF introVars
    <2> QED
      BY <1>1, <1>6, <1>11, <1>13, <2>5 DEF RunInv
  <1>14. CASE x \in {"Sum", "Product"} /\ UNCHANGED <<decimatingVars, introVars, work>>
    <2>1. TablesTrue'
      BY <1>9, <1>10, <1>14 DEF introVars, decimatingVars
    <2> QED
      BY <1>1, <1>6, <1>11, <1>14, <2>1 DEF RunInv
  <1>15. CASE x = "B" /\ handle_B(q) /\ UNCHANGED <<decimatingVars, remote>>
    <2>1. PICK s : s = get_local(q, "Product")
      OBVIOUS
    <2>2. PICK reg : reg = IF s = "unregistered" THEN RegisterSample("Product") ELSE <<>>
      OBVIOUS
    <2>3. PICK enc : enc = IF s \in {"unregistered", "registered"} THEN Encode("Product") ELSE <<>>
      OBVIOUS
    <2>4. PICK more : more = reg \o enc \o Encode("Sum")
      OBVIOUS
    <2>5. status' = [status EXCEPT ![q]["Product"] = s] /\ work' = [work EXCEPT ![d] = more]
      BY <1>15, <2>1, <2>2, <2>3, <2>4 DEF handle_B, HasSignature, d
    <2>6. q = "server" /\ Peer("server") = "client" /\ d # Decoder("client") /\ d[1] = "server"
      <3>1. handled[q] \subseteq Base(q) \cup (IF q = "client" THEN {"Product"} ELSE {})
        BY <1>0 DEF Begins
      <3>2. q = "server"
        BY <1>15, <3>1 DEF Base, Own, Peers
      <3> QED
        BY <3>2, PeerFacts DEF d, Decoder
    <2>7. s \in {"unregistered", "registered"} => Ready
      BY <1>10, <2>1, <2>6 DEF get_local
    <2>8. TablesTrue'
      <3>1. status'["server"]["Product"] \in {"unregistered", "registered"} => Ready
        BY <2>5, <2>6, <2>7 DEF Types, TableTypes, Peers, Names
      <3> QED
        BY <1>9, <1>10, <1>15, <3>1 DEF decimatingVars
    <2>9. /\ "Sum" \in MayDefine(d[1]) \ Own /\ "Sum" \in Names /\ "Product" \in Names
          /\ s \in {"unregistered", "registered"} => "Product" \in MayDefine(d[1]) \ Own
      BY <2>6, <2>7 DEF MayDefine, Base, Own, Names
    <2>10. /\ reg \in Seq(Steps) /\ EntryNext(reg) /\ ~ HasEntry(reg)
           /\ \A k \in 1 .. Len(reg) : StepOK(d, reg[k])
      <3>1. CASE s = "unregistered"
        BY <2>2, <2>6, <2>9, <3>1, PiecesOK, ListFacts
      <3>2. CASE s # "unregistered"
        BY <2>2, <3>2, PiecesOK
      <3> QED
        BY <3>1, <3>2
    <2>11. /\ enc \in Seq(Steps) /\ EntryNext(enc) /\ ~ HasEntry(enc)
           /\ \A k \in 1 .. Len(enc) : StepOK(d, enc[k])
      <3>1. CASE s \in {"unregistered", "registered"}
        BY <2>3, <2>6, <2>9, <3>1, PiecesOK, ListFacts
      <3>2. CASE s \notin {"unregistered", "registered"}
        BY <2>3, <3>2, PiecesOK
      <3> QED
        BY <3>1, <3>2
    <2>12. PICK last : last = Encode("Sum")
      OBVIOUS
    <2>13. /\ last \in Seq(Steps) /\ EntryNext(last) /\ ~ HasEntry(last)
           /\ \A k \in 1 .. Len(last) : StepOK(d, last[k])
      BY <2>6, <2>9, <2>12, PiecesOK, ListFacts
    <2>14. PICK both : both = reg \o enc
      OBVIOUS
    <2>15. /\ both \in Seq(Steps) /\ EntryNext(both) /\ ~ HasEntry(both)
           /\ \A k \in 1 .. Len(both) : StepOK(d, both[k])
      BY <2>10, <2>11, <2>14, JoinOK
    <2>16. more = both \o last
      BY <2>4, <2>12, <2>14
    <2>17. /\ more \in Seq(Steps) /\ EntryNext(more) /\ ~ HasEntry(more)
           /\ \A k \in 1 .. Len(more) : StepOK(d, more[k])
      BY <2>13, <2>15, <2>16, JoinOK
    <2>18. WorkOK'
      BY <1>0, <1>5, <1>6, <2>5, <2>17, WorkSet
    <2>19. OneEntry' /\ (Entering => Entering' \/ Ready')
      <3>1. work'[Main("client")] = work[Main("client")]
        BY <1>5, <2>5
      <3> QED
        BY <1>0, <1>1, <1>7, <3>1, OneEntryStays
    <2>20. QueueOK'
      BY <1>0, <1>1, <1>6, <2>19, QueueStays
    <2>21. Begins'
      <3>1. \A r \in Peers : Decoder(r) \in Threads /\ (r # q => Decoder(r) # d)
        BY PeerFacts DEF d
      <3>2. \A r \in Peers :
              IF r = q THEN work'[Decoder(r)] = more ELSE work'[Decoder(r)] = work[Decoder(r)]
        BY <1>5, <2>5, <3>1 DEF d
      <3>3. \A r \in Peers :
              /\ \/ work'[Decoder(r)] = work[Decoder(r)]
                 \/ work[Decoder(r)] # <<>> /\ work'[Decoder(r)] = Tail(work[Decoder(r)])
                      /\ Head(work[Decoder(r)]).op # "entry"
                 \/ work[Decoder(r)] = <<>> /\ ~ HasEntry(work'[Decoder(r)])
              /\ remote_index'[r] = remote_index[r] \/ work[Decoder(r)] = <<>>
        BY <1>1, <1>5, <2>17, <3>2 DEF d
      <3> QED
        BY <1>0, <1>1, <3>3, BeginsStays
    <2> QED
      BY <1>1, <1>6, <2>8, <2>18, <2>19, <2>20, <2>21 DEF RunInv
  <1> QED
    BY <1>1, <1>12, <1>13, <1>14, <1>15

\* Every step keeps the invariant, and no decoder thread leaves its loop.
LEMMA StepRun ==
    ASSUME Types, DecimationExact, RunInv, NEW t \in Threads, Step(t)
    PROVE  RunInv' /\ UNCHANGED stopped
  <1>1. CASE t = Main("client") /\ NextRound
    BY <1>1, NextRoundRuns
  <1>2. ASSUME NEW q \in Peers, handle_sample_def(q) PROVE RunInv' /\ UNCHANGED stopped
    BY <1>2, SampleDefRuns
  <1>3. ASSUME NEW q \in Peers, Handle(q) PROVE RunInv' /\ UNCHANGED stopped
    BY <1>3, HandleRuns
  <1>4. ASSUME NEW q \in Peers PROVE ~ Unknown(q)
    BY PacketFacts DEF Unknown
  <1> QED
    BY <1>1, <1>2, <1>3, <1>4, Write1Runs, RunDeferredRuns, DeferredDoneRuns, StartHandlerRuns,
       EnterHandlerRuns, DefinedRuns, IoctlReadRuns, IoctlSetRuns DEF Step, Main

\* The program of a decoder thread: three handlers, each started and then entered.
LEMMA LayersAre ==
    ASSUME NEW x
    PROVE  LET s == Layers \o RegisterHandler(x) IN
             /\ Len(s) = 6
             /\ s[1] = Do("start", "handles_signature") /\ s[2] = Do("entry", "handles_signature")
             /\ s[3] = Do("start", "set_decimation") /\ s[4] = Do("entry", "set_decimation")
             /\ s[5] = Do("start", x) /\ s[6] = Do("entry", x)
  <1>1. \A a, b, c, d, e, f :
          LET s == <<a, b>> \o <<c, d>> \o <<e, f>> IN
            Len(s) = 6 /\ s[1] = a /\ s[2] = b /\ s[3] = c /\ s[4] = d /\ s[5] = e /\ s[6] = f
    OBVIOUS
  <1> QED
    BY <1>1 DEF Layers, IntrospectingReaderAlloc, DecimatingReaderAlloc, RegisterHandler

LEMMA InitRun == Init => RunInv /\ DecodersRun
  <1> SUFFICES ASSUME Init PROVE RunInv /\ DecodersRun
    OBVIOUS
  <1>0. /\ queue = [p \in Peers |-> IntrospectingWriterAlloc \o DecimatingWriterAlloc]
        /\ registered = [p \in Peers |-> {}] /\ handled = [p \in Peers |-> {}]
        /\ remote_index = [p \in Peers |-> [x \in Names |-> 0]]
        /\ remote = [p \in Peers |-> {}]
        /\ status = [p \in Peers |-> [x \in Names |-> "none"]]
        /\ writer_decimation = [p \in Peers |-> [i \in Indices |-> [n |-> 0, current |-> 0]]]
        /\ pipe = [p \in Peers |-> <<>>]
        /\ work = [t \in Threads |-> Programs(t)]
        /\ stopped = {} /\ round = 0 /\ ioctl_index = 0
    BY DEF Init, IntrospectingInit, DecimatingInit
  <1>1. \A t \in Threads : work[t] = Programs(t) /\ work[t] \in Seq(Steps)
    BY <1>0, ProgramFacts
  <1>2. /\ EntryNext(Programs(Main("client"))) /\ ~ HasEntry(Programs(Main("client")))
        /\ \A k \in 1 .. Len(Programs(Main("client"))) :
             StepOK(Main("client"), Programs(Main("client"))[k])
    <2>1. PICK t : t = Main("client")
      OBVIOUS
    <2>2. PICK a : a = RegisterSample("B")
      OBVIOUS
    <2>3. PICK b : b = <<Do("ioctl", "Sum")>>
      OBVIOUS
    <2>4. t[1] = "client" /\ t # Decoder("client") /\ "B" \in MayDefine(t[1]) \ Own
      BY <2>1, PeerFacts DEF Main, MayDefine, Base, Own, Peers
    <2>5. /\ a \in Seq(Steps) /\ EntryNext(a) /\ ~ HasEntry(a) /\ \A k \in 1 .. Len(a) : StepOK(t, a[k])
      BY <2>2, <2>4, PiecesOK, ListFacts DEF Names
    <2>6. /\ b \in Seq(Steps) /\ EntryNext(b) /\ ~ HasEntry(b) /\ \A k \in 1 .. Len(b) : StepOK(t, b[k])
      <3>1. PICK s \in Steps : s = Do("ioctl", "Sum")
        BY ListFacts DEF StepOps, Names
      <3>2. s.op = "ioctl"
        BY <3>1 DEF Do
      <3>3. b \in Seq(Steps) /\ EntryNext(b) /\ ~ HasEntry(b)
        BY <2>3, <3>1, <3>2, PiecesOK
      <3>4. StepOK(t, s)
        BY <2>1, <3>2 DEF StepOK, WriteOps
      <3> QED
        BY <2>3, <3>1, <3>3, <3>4
    <2>7. Programs(t) = a \o b
      BY <2>1, <2>2, <2>3, ProgramFacts
    <2> QED
      BY <2>1, <2>5, <2>6, <2>7, JoinOK
  <1>3. /\ EntryNext(Programs(Main("server")))
        /\ \A k \in 1 .. Len(Programs(Main("server"))) :
             StepOK(Main("server"), Programs(Main("server"))[k])
    <2>1. PICK t : t = Main("server")
      OBVIOUS
    <2>2. PICK a : a = RegisterSample("Sum")
      OBVIOUS
    <2>3. PICK b : b = <<Do("sleep", "Sum")>>
      OBVIOUS
    <2>4. t[1] = "server" /\ t # Decoder("client") /\ "Sum" \in MayDefine(t[1]) \ Own
      BY <2>1, PeerFacts DEF Main, MayDefine, Base, Own, Peers
    <2>5. /\ a \in Seq(Steps) /\ EntryNext(a) /\ ~ HasEntry(a) /\ \A k \in 1 .. Len(a) : StepOK(t, a[k])
      BY <2>2, <2>4, PiecesOK, ListFacts DEF Names
    <2>6. /\ b \in Seq(Steps) /\ EntryNext(b) /\ ~ HasEntry(b) /\ \A k \in 1 .. Len(b) : StepOK(t, b[k])
      <3>1. PICK s \in Steps : s = Do("sleep", "Sum")
        BY ListFacts DEF StepOps, Names
      <3>2. s.op = "sleep"
        BY <3>1 DEF Do
      <3>3. b \in Seq(Steps) /\ EntryNext(b) /\ ~ HasEntry(b)
        BY <2>3, <3>1, <3>2, PiecesOK
      <3>4. StepOK(t, s)
        BY <2>4, <3>2 DEF StepOK, WriteOps
      <3> QED
        BY <2>3, <3>1, <3>3, <3>4
    <2>7. Programs(t) = a \o b
      BY <2>1, <2>2, <2>3, ProgramFacts
    <2> QED
      BY <2>1, <2>5, <2>6, <2>7, JoinOK
  <1>4. ASSUME NEW p \in Peers
        PROVE  /\ EntryNext(Programs(Decoder(p)))
               /\ \A k \in 1 .. Len(Programs(Decoder(p))) :
                    StepOK(Decoder(p), Programs(Decoder(p))[k])
               /\ \A x \in Base(p) :
                    \E k \in 1 .. Len(Programs(Decoder(p))) : Programs(Decoder(p))[k] = Do("entry", x)
    <2>1. PICK x : x = IF p = "client" THEN "Sum" ELSE "B"
      OBVIOUS
    <2>2. PICK s : s = Programs(Decoder(p))
      OBVIOUS
    <2>3. s = Layers \o RegisterHandler(x)
      BY <2>1, <2>2, ProgramFacts DEF Peers
    <2>4. /\ Len(s) = 6
          /\ s[1] = Do("start", "handles_signature") /\ s[2] = Do("entry", "handles_signature")
          /\ s[3] = Do("start", "set_decimation") /\ s[4] = Do("entry", "set_decimation")
          /\ s[5] = Do("start", x) /\ s[6] = Do("entry", x)
      BY <2>3, LayersAre
    <2>5. \A y : /\ Do("start", y).op = "start" /\ Do("start", y).x = y
                 /\ Do("entry", y).op = "entry" /\ Do("entry", y).x = y
      BY DEF Do
    <2>6. Base(p) = {"handles_signature", "set_decimation", x}
      BY <2>1 DEF Base, Own
    <2>7. \A k \in 1 .. Len(s) : k \in {1, 2, 3, 4, 5, 6}
      BY <2>4
    <2>8. EntryNext(s)
      BY <2>4, <2>5, <2>7 DEF EntryNext
    <2>9. \A y \in Base(p) : StepOK(Decoder(p), Do("start", y)) /\ StepOK(Decoder(p), Do("entry", y))
      BY <2>5 DEF StepOK, WriteOps, Decoder
    <2>10. \A k \in 1 .. Len(s) : StepOK(Decoder(p), s[k])
      BY <2>4, <2>6, <2>7, <2>9
    <2>11. \A y \in Base(p) : \E k \in 1 .. Len(s) : s[k] = Do("entry", y)
      <3>1. 2 \in 1 .. Len(s) /\ 4 \in 1 .. Len(s) /\ 6 \in 1 .. Len(s)
        BY <2>4
      <3> QED
        BY <2>4, <2>6, <3>1
    <2> QED
      BY <2>2, <2>8, <2>10, <2>11
  <1>5. WorkOK
    <2>1. \A t \in Threads : EntryNext(Programs(t)) /\ \A k \in 1 .. Len(Programs(t)) : StepOK(t, Programs(t)[k])
      <3>1. \A t \in Threads : t \in {Main("client"), Decoder("client"), Main("server"), Decoder("server")}
        BY ProgramFacts
      <3> QED
        BY <1>2, <1>3, <1>4, <3>1 DEF Peers
    <2> QED
      BY <1>1, <2>1 DEF WorkOK
  <1>6. ~ Ready
    BY <1>0 DEF Ready, Peers
  <1>7. OneEntry
    <2>1. work[Main("client")] = Programs(Main("client"))
      BY <1>1, PeerFacts DEF Peers
    <2> QED
      BY <1>0, <1>2, <1>6, <2>1 DEF OneEntry, OnlyEntry, HasEntry
  <1>8. QueueOK
    <2> SUFFICES ASSUME NEW p \in Peers, NEW k \in 1 .. Len(queue[p]) PROVE ActionOK(p, queue[p][k])
      BY DEF QueueOK
    <2>1. queue[p] = <<Do("register", "handles_signature")>> \o <<Do("register", "set_decimation")>>
      BY <1>0 DEF IntrospectingWriterAlloc, DecimatingWriterAlloc
    <2>2. \A a, b : LET s == <<a>> \o <<b>> IN Len(s) = 2 /\ s[1] = a /\ s[2] = b
      OBVIOUS
    <2>3. queue[p][k] \in {Do("register", "handles_signature"), Do("register", "set_decimation")}
      BY <2>1, <2>2
    <2> QED
      BY <2>3 DEF ActionOK, Own, Do
  <1>9. PipeOK /\ Definitions
    BY <1>0, PeerFacts DEF PipeOK, Definitions
  <1>10. Begins
    <2>1. \A p \in Peers : work[Decoder(p)] = Programs(Decoder(p))
      BY <1>1, PeerFacts
    <2> QED
      BY <1>0, <1>4, <2>1 DEF Begins
  <1>11. TablesTrue
    BY <1>0 DEF TablesTrue, Peers, Names
  <1> QED
    BY <1>0, <1>5, <1>7, <1>8, <1>9, <1>10, <1>11 DEF RunInv, DecodersRun

\* Neither peer is ever sent a definition or a sample that it has no handler for, which
\* would end its decoder thread: for any number of rounds, any numbering and connections of
\* any capacity.
THEOREM DecodersRunCorrect == Spec => []DecodersRun
  <1>1. (Types /\ DecimationExact) /\ (RunInv /\ DecodersRun) /\ [Next]_vars => (RunInv /\ DecodersRun)'
    <2>1. CASE Next
      BY <2>1, StepRun DEF Next, DecodersRun
    <2>2. CASE UNCHANGED vars
      <3>1. UNCHANGED <<queue, handled, registered, remote_index, remote, status, pipe, ioctl_index,
                        writer_decimation, work, round, stopped>>
        BY <2>2 DEF vars, decoderVars, decimatingVars, introVars, encoderVars, mainVars
      <3>2. UNCHANGED RunInv
        BY <3>1
           DEF RunInv, WorkOK, OneEntry, QueueOK, PipeOK, Definitions, Begins, TablesTrue,
               StepOK, ActionOK, PacketOK, MayDefine, Known, Ready, Entering
      <3> QED
        BY <3>1, <3>2 DEF DecodersRun
    <2> QED
      BY <2>1, <2>2
  <1> QED
    BY <1>1, InitTypes, NextTypes, InitRun, PTL DEF Spec
=============================================================================
