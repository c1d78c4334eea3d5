------------------------- MODULE ThrottleNetProofs -------------------------
(***************************************************************************)
(* Proofs about ThrottleNet, for any senders, packets, fragment sizes and  *)
(* losses: the fragments of a message are never shifted.                   *)
(***************************************************************************)
EXTENDS ThrottleNet, TLAPS

-----------------------------------------------------------------------------
(* Arithmetic and sequences.                                               *)

LEMMA Remainder ==
    ASSUME NEW b \in Nat \ {0}, NEW a \in Nat
    PROVE  /\ a \div b \in Nat /\ a % b \in 0 .. b - 1 /\ a = (a \div b) * b + (a % b)
           /\ a < b => a % b = a
           /\ (a + b) % b = a % b
  <1>1. a \div b \in Nat /\ a % b \in 0 .. b - 1 /\ a = (a \div b) * b + (a % b)
    OBVIOUS
  <1>2. a < b => a % b = a
    OBVIOUS
  <1>3. (a + b) % b = a % b
    <2> DEFINE q == a \div b
    <2> DEFINE r == a % b
    <2> DEFINE p == (a + b) \div b
    <2> DEFINE s == (a + b) % b
    <2>1. p \in Nat /\ s \in 0 .. b - 1 /\ a + b = p * b + s
      OBVIOUS
    <2>2. q \in Nat /\ r \in 0 .. b - 1 /\ a = q * b + r
      BY <1>1
    <2> HIDE DEF p, q, r, s
    <2>3. CASE p <= q
      <3>1. p * b <= q * b
        BY <2>1, <2>2, <2>3
      <3> QED
        BY <2>1, <2>2, <3>1
    <2>4. CASE p >= q + 2
      <3>1. p * b >= (q + 2) * b /\ (q + 2) * b = q * b + b + b
        BY <2>1, <2>2, <2>4
      <3>2. p * b \in Int /\ q * b \in Int
        BY <2>1, <2>2
      <3> QED
        BY <2>1, <2>2, <3>1, <3>2
    <2>5. CASE p = q + 1
      <3>1. p * b = q * b + b /\ q * b \in Int
        BY <2>2, <2>5
      <3>2. s = r
        BY <2>1, <2>2, <3>1
      <3> QED
        BY <3>2 DEF r, s
    <2> QED
      BY <2>1, <2>2, <2>3, <2>4, <2>5
  <1> QED
    BY <1>1, <1>2, <1>3

\* How many fragments there are, and where the last one begins.
LEMMA FragmentFacts ==
    ASSUME NEW f \in Nat \ {0}, NEW n \in Nat \ {0}
    PROVE  /\ Fragments(n, f) \in Nat \ {0}
           /\ \A i \in 1 .. Fragments(n, f) - 1 : (i - 1) * f + f < n
           /\ \A i \in 1 .. Fragments(n, f) : (i - 1) * f < n
           /\ \A m \in Nat \ {0} : n <= m => Fragments(n, f) <= Fragments(m, f)
  <1> DEFINE q == (n - 1) \div f
  <1>1. q \in Nat /\ q * f <= n - 1 /\ n - 1 < (q + 1) * f
    OBVIOUS
  <1>2. Fragments(n, f) = q + 1
    BY DEF Fragments
  <1>3. ASSUME NEW m \in Nat \ {0}, n <= m
        PROVE  Fragments(n, f) <= Fragments(m, f)
    <2> DEFINE p == (m - 1) \div f
    <2>1. p \in Nat /\ m - 1 < (p + 1) * f
      OBVIOUS
    <2> HIDE DEF p, q
    <2>2. CASE p + 1 <= q
      <3>1. (p + 1) * f <= q * f /\ q * f \in Nat /\ (p + 1) * f \in Nat
        BY <1>1, <2>1, <2>2
      <3> QED
        BY <1>1, <1>3, <2>1, <3>1
    <2>3. Fragments(m, f) = p + 1
      BY DEF Fragments, p
    <2> QED
      BY <1>1, <1>2, <2>1, <2>2, <2>3
  <1> HIDE DEF q
  <1>4. ASSUME NEW i \in 1 .. Fragments(n, f)
        PROVE  (i - 1) * f <= q * f
    BY <1>1, <1>2
  <1>5. ASSUME NEW i \in 1 .. Fragments(n, f) - 1
        PROVE  (i - 1) * f + f <= q * f
    <2>1. i \in Nat /\ i <= q
      BY <1>1, <1>2
    <2>2. i * f <= q * f /\ i * f = (i - 1) * f + f
      BY <1>1, <2>1
    <2> QED
      BY <2>2
  <1>6. \A i \in 1 .. Fragments(n, f) : (i - 1) * f < n
    <2> TAKE i \in 1 .. Fragments(n, f)
    <2>1. (i - 1) * f <= q * f /\ (i - 1) * f \in Int /\ q * f \in Int
      BY <1>1, <1>2, <1>4
    <2> QED
      BY <1>1, <2>1
  <1>7. \A i \in 1 .. Fragments(n, f) - 1 : (i - 1) * f + f < n
    <2> TAKE i \in 1 .. Fragments(n, f) - 1
    <2>1. (i - 1) * f + f <= q * f /\ (i - 1) * f \in Int /\ q * f \in Int
      BY <1>1, <1>2, <1>5
    <2> QED
      BY <1>1, <2>1
  <1> QED
    BY <1>1, <1>2, <1>3, <1>6, <1>7

LEMMA TakeDrop ==
    ASSUME NEW S, NEW s \in Seq(S), NEW n \in Nat
    PROVE  /\ Take(s, n) \in Seq(S) /\ Len(Take(s, n)) = Least(n, Len(s))
           /\ \A k \in 1 .. Len(Take(s, n)) : k \in 1 .. Len(s) /\ k <= n /\ Take(s, n)[k] = s[k]
           /\ Drop(s, n) \in Seq(S)
           /\ \A k \in 1 .. Len(Drop(s, n)) : n + k \in 1 .. Len(s) /\ Drop(s, n)[k] = s[n + k]
  <1>1. Len(s) \in Nat
    OBVIOUS
  <1> DEFINE m == Least(n, Len(s))
  <1>2. m \in Nat /\ m <= Len(s) /\ m <= n
    BY <1>1 DEF Least
  <1> HIDE DEF m
  <1>3. /\ SubSeq(s, 1, m) \in Seq(S) /\ Len(SubSeq(s, 1, m)) = m
        /\ \A k \in 1 .. m : SubSeq(s, 1, m)[k] = s[k]
    BY <1>1, <1>2
  <1>4. Take(s, n) = SubSeq(s, 1, m)
    BY DEF Take, m
  <1>5. /\ Take(s, n) \in Seq(S) /\ Len(Take(s, n)) = m
        /\ \A k \in 1 .. Len(Take(s, n)) : k \in 1 .. Len(s) /\ k <= n /\ Take(s, n)[k] = s[k]
    BY <1>1, <1>2, <1>3, <1>4
  <1>6. CASE n >= Len(s)
    <2>1. Drop(s, n) = <<>>
      BY <1>1, <1>6 DEF Drop
    <2>2. <<>> \in Seq(S) /\ Len(<<>>) = 0
      OBVIOUS
    <2> QED
      BY <1>5, <2>1, <2>2 DEF m
  <1>7. CASE n < Len(s)
    <2> DEFINE d == SubSeq(s, n + 1, Len(s))
    <2>1. /\ d \in Seq(S) /\ Len(d) = Len(s) - n
          /\ \A k \in 1 .. Len(s) - n : d[k] = s[n + k]
      BY <1>1, <1>7
    <2>2. Drop(s, n) = d
      BY DEF Drop
    <2> HIDE DEF d
    <2>3. \A k \in 1 .. Len(d) : n + k \in 1 .. Len(s) /\ d[k] = s[n + k]
      BY <1>1, <1>7, <2>1
    <2> QED
      BY <1>5, <2>1, <2>2, <2>3 DEF m
  <1> QED
    BY <1>1, <1>6, <1>7

-----------------------------------------------------------------------------
(* What the writer puts in its buffer, and what decode_one makes of it.    *)

\* The packet's bytes from m[1] on.
Follow(m) ==
    /\ m \in Seq(Bytes)
    /\ m[1].packet # 0 /\ m[1].off % BufferSize = 0
    /\ \A k \in 1 .. Len(m) :
         m[k] = Byte(m[1].from, m[1].packet, m[1].len, m[1].off + k - 1)

\* A message: as much of a packet as the buffer takes.
Message(m) ==
    /\ Len(m) > 0 /\ Follow(m)
    /\ Len(m) = Least(BufferSize, m[1].len - m[1].off)

\* The end of a packet.
Pending(r) == Len(r) > 0 => Follow(r) /\ Len(r) = r[1].len - r[1].off

LoopType == [i : 0 .. CharMod - 1, tot : Nat, length : Nat, data : Nat]

SenderTypes ==
    /\ chn \in [Senders -> {Closed} \cup 0 .. CharMod - 1]
    /\ spc \in [Senders -> {"idle", "flush", "send"}]
    /\ packets \in [Senders -> Nat]
    /\ buf \in [Senders -> Seq(Bytes)] /\ rest \in [Senders -> Seq(Bytes)]
    /\ loop \in [Senders -> LoopType]
    /\ \A s \in Senders : spc[s] # "idle" => chn[s] # Closed
    /\ \A s \in Senders : spc[s] = "send" => chn[s] # 0

WriterInv ==
    /\ \A s \in Senders : (spc[s] # "idle" => Message(buf[s])) /\ Pending(rest[s])
    /\ \A msg \in sent : Message(msg)

LEMMA Multiple ==
    ASSUME NEW b \in Nat \ {0}, NEW a \in Nat, a % b = 0, NEW c \in 0 .. b - 1
    PROVE  (a + c) % b = c
  <1> DEFINE q == a \div b
  <1> DEFINE p == (a + c) \div b
  <1> DEFINE s == (a + c) % b
  <1>1. q \in Nat /\ a = q * b
    OBVIOUS
  <1>2. p \in Nat /\ s \in 0 .. b - 1 /\ a + c = p * b + s
    OBVIOUS
  <1> HIDE DEF p, q, s
  <1>3. CASE p <= q - 1
    <2>1. p * b <= (q - 1) * b /\ (q - 1) * b = q * b - b /\ p * b \in Int /\ q * b \in Int
      BY <1>1, <1>2, <1>3
    <2> QED
      BY <1>1, <1>2, <2>1
  <1>4. CASE p >= q + 1
    <2>1. p * b >= (q + 1) * b /\ (q + 1) * b = q * b + b /\ p * b \in Int /\ q * b \in Int
      BY <1>1, <1>2, <1>4
    <2> QED
      BY <1>1, <1>2, <2>1
  <1>5. CASE p = q
    <2>1. s = c
      BY <1>1, <1>2, <1>5
    <2> QED
      BY <2>1 DEF s
  <1> QED
    BY <1>1, <1>2, <1>3, <1>4, <1>5

\* Filling the buffer from the end of a packet: a message, and again the end of a packet.
LEMMA Fill ==
    ASSUME NEW r, r \in Seq(Bytes), Len(r) > 0, Pending(r)
    PROVE  /\ Message(Take(r, BufferSize)) /\ Pending(Drop(r, BufferSize))
           /\ Take(r, BufferSize) \in Seq(Bytes) /\ Drop(r, BufferSize) \in Seq(Bytes)
  <1> DEFINE t == Take(r, BufferSize)
  <1> DEFINE d == Drop(r, BufferSize)
  <1>b. BufferSize \in Nat \ {0}
    BY ThrottleAssumption
  <1>1. /\ t \in Seq(Bytes) /\ Len(t) = Least(BufferSize, Len(r))
        /\ \A k \in 1 .. Len(t) : k \in 1 .. Len(r) /\ k <= BufferSize /\ t[k] = r[k]
        /\ d \in Seq(Bytes)
        /\ \A k \in 1 .. Len(d) : BufferSize + k \in 1 .. Len(r) /\ d[k] = r[BufferSize + k]
    BY <1>b, TakeDrop
  <1>2. Len(r) \in Nat /\ Len(t) \in Nat /\ Len(t) > 0 /\ Len(d) \in Nat
    BY <1>1, <1>b DEF Least
  <1>3. r[1] \in Bytes /\ r[1].len \in Nat /\ r[1].off \in Nat
    <2>1. r[1] \in Bytes
      OBVIOUS
    <2> QED
      BY <2>1 DEF Bytes
  <1>4. /\ r[1].packet # 0 /\ r[1].off % BufferSize = 0 /\ Len(r) = r[1].len - r[1].off
        /\ \A k \in 1 .. Len(r) : r[k] = Byte(r[1].from, r[1].packet, r[1].len, r[1].off + k - 1)
    BY DEF Pending, Follow
  <1>5. t[1] = r[1]
    BY <1>1, <1>2
  <1>6. Message(t)
    <2>1. \A k \in 1 .. Len(t) : t[k] = Byte(t[1].from, t[1].packet, t[1].len, t[1].off + k - 1)
      BY <1>1, <1>4, <1>5
    <2>2. Len(t) = Least(BufferSize, t[1].len - t[1].off)
      BY <1>1, <1>4, <1>5
    <2> HIDE DEF t
    <2> QED
      BY <1>1, <1>2, <1>4, <1>5, <2>1, <2>2 DEF Message, Follow
  <1>7. Pending(d)
    <2> SUFFICES ASSUME Len(d) > 0
                 PROVE  Follow(d) /\ Len(d) = d[1].len - d[1].off
      BY DEF Pending
    <2>1. Len(r) > BufferSize /\ Len(d) = Len(r) - BufferSize
      <3>1. BufferSize + 1 \in 1 .. Len(r)
        BY <1>1, <1>2
      <3>2. Len(SubSeq(r, BufferSize + 1, Len(r))) = Len(r) - BufferSize
        BY <1>b, <1>2, <3>1
      <3> QED
        BY <1>b, <1>2, <3>1, <3>2 DEF Drop
    <2>2. d[1] = Byte(r[1].from, r[1].packet, r[1].len, r[1].off + BufferSize)
      <3>1. d[1] = r[BufferSize + 1] /\ BufferSize + 1 \in 1 .. Len(r)
        BY <1>1, <1>2
      <3>2. r[1].off + (BufferSize + 1) - 1 = r[1].off + BufferSize
        BY <1>3, <1>b
      <3> QED
        BY <1>4, <3>1, <3>2
    <2> HIDE DEF d, t
    <2>3. /\ d[1].from = r[1].from /\ d[1].packet = r[1].packet /\ d[1].len = r[1].len
          /\ d[1].off = r[1].off + BufferSize
      BY <2>2 DEF Byte
    <2>4. d[1].off % BufferSize = 0
      BY <1>b, <1>3, <1>4, <2>3, Remainder
    <2>5. ASSUME NEW k \in 1 .. Len(d)
          PROVE  d[k] = Byte(d[1].from, d[1].packet, d[1].len, d[1].off + k - 1)
      <3>1. d[k] = r[BufferSize + k] /\ BufferSize + k \in 1 .. Len(r)
        BY <1>1
      <3>2. r[1].off + (BufferSize + k) - 1 = d[1].off + k - 1
        BY <1>3, <1>b, <2>3
      <3> QED
        BY <1>4, <2>3, <3>1, <3>2
    <2>6. Len(d) = d[1].len - d[1].off
      BY <1>4, <1>3, <1>b, <2>1, <2>3
    <2> QED
      BY <1>1, <1>4, <2>3, <2>4, <2>5, <2>6 DEF Follow
  <1> QED
    BY <1>1, <1>6, <1>7

LEMMA PacketPending ==
    ASSUME NEW s \in Senders, NEW n \in Nat \ {0}, NEW len \in Nat \ {0}
    PROVE  /\ PacketBytes(s, n, len) \in Seq(Bytes)
           /\ Len(PacketBytes(s, n, len)) = len
           /\ Pending(PacketBytes(s, n, len))
  <1> DEFINE p == PacketBytes(s, n, len)
  <1>b. BufferSize \in Nat \ {0}
    BY ThrottleAssumption
  <1>1. \A k \in 1 .. len : Byte(s, n, len, k - 1) \in Bytes
    BY DEF Byte, Bytes
  <1>2. p \in Seq(Bytes) /\ Len(p) = len /\ \A k \in 1 .. len : p[k] = Byte(s, n, len, k - 1)
    BY <1>1 DEF PacketBytes
  <1> HIDE DEF p
  <1>3. p[1].from = s /\ p[1].packet = n /\ p[1].len = len /\ p[1].off = 0
    BY <1>2 DEF Byte
  <1>4. 0 % BufferSize = 0
    BY <1>b, Remainder
  <1>5. \A k \in 1 .. Len(p) : p[k] = Byte(p[1].from, p[1].packet, p[1].len, p[1].off + k - 1)
    BY <1>2, <1>3
  <1>6. Pending(p)
    BY <1>2, <1>3, <1>4, <1>5 DEF Pending, Follow
  <1> QED
    BY <1>2, <1>6 DEF p

SenderInv == SenderTypes /\ WriterInv

LEMMA LoopTypes ==
    ASSUME NEW i \in 0 .. CharMod - 1, NEW tot \in Nat, NEW length \in Nat, NEW data \in Nat
    PROVE  [i |-> i, tot |-> tot, length |-> length, data |-> data] \in LoopType
  BY DEF LoopType

LEMMA Loop0Type == Loop0 \in LoopType
  BY ThrottleAssumption, LoopTypes DEF Loop0

LEMMA SenderInit == Init => SenderInv
  <1> SUFFICES ASSUME Init PROVE SenderInv
    OBVIOUS
  <1>1. <<>> \in Seq(Bytes) /\ Len(<<>>) = 0
    OBVIOUS
  <1>2. SenderTypes
    <2>1. chn \in [Senders -> {Closed} \cup 0 .. CharMod - 1]
      BY DEF Init
    <2>2. loop \in [Senders -> LoopType]
      BY Loop0Type DEF Init
    <2> QED
      BY <1>1, <2>1, <2>2 DEF Init, SenderTypes
  <1>3. WriterInv
    BY <1>1 DEF Init, WriterInv, Pending
  <1> QED
    BY <1>2, <1>3 DEF SenderInv

\* The next part of the packet, or none.
LEMMA WriterNextKeeps ==
    ASSUME SenderInv, NEW s \in Senders, WriterNext(s), spc[s] # "idle"
    PROVE  /\ buf' \in [Senders -> Seq(Bytes)] /\ rest' \in [Senders -> Seq(Bytes)]
           /\ spc' \in [Senders -> {"idle", "flush", "send"}]
           /\ \A u \in Senders : (spc'[u] # "idle" => Message(buf'[u])) /\ Pending(rest'[u])
           /\ \A u \in Senders : spc'[u] # "idle" => spc[u] # "idle"
           /\ \A u \in Senders : spc'[u] = "send" => spc[u] = "send"
           /\ spc'[s] # "send"
  <1>1. /\ buf \in [Senders -> Seq(Bytes)] /\ rest \in [Senders -> Seq(Bytes)]
        /\ spc \in [Senders -> {"idle", "flush", "send"}]
        /\ \A u \in Senders : (spc[u] # "idle" => Message(buf[u])) /\ Pending(rest[u])
    BY DEF SenderInv, SenderTypes, WriterInv
  <1>2. /\ buf' = [buf EXCEPT ![s] = Take(rest[s], BufferSize)]
        /\ rest' = [rest EXCEPT ![s] = Drop(rest[s], BufferSize)]
        /\ spc' = [spc EXCEPT ![s] = IF rest[s] = <<>> THEN "idle" ELSE "flush"]
    BY DEF WriterNext
  <1>b. BufferSize \in Nat
    BY ThrottleAssumption
  <1>3. Take(rest[s], BufferSize) \in Seq(Bytes) /\ Drop(rest[s], BufferSize) \in Seq(Bytes)
    BY <1>1, <1>b, TakeDrop
  <1>4. rest[s] # <<>> => Message(Take(rest[s], BufferSize)) /\ Pending(Drop(rest[s], BufferSize))
    <2> SUFFICES ASSUME rest[s] # <<>>
                 PROVE  Message(Take(rest[s], BufferSize)) /\ Pending(Drop(rest[s], BufferSize))
      OBVIOUS
    <2>1. rest[s] \in Seq(Bytes) /\ Pending(rest[s])
      BY <1>1
    <2>2. Len(rest[s]) > 0
      BY <2>1
    <2> QED
      BY <2>1, <2>2, Fill
  <1>5. rest[s] = <<>> => Pending(Drop(rest[s], BufferSize))
    <2> SUFFICES ASSUME rest[s] = <<>>, Len(Drop(rest[s], BufferSize)) > 0
                 PROVE  FALSE
      BY DEF Pending
    <2>0. 1 \in 1 .. Len(Drop(rest[s], BufferSize)) /\ rest[s] \in Seq(Bytes)
      BY <1>1, <1>3
    <2>1. BufferSize + 1 \in 1 .. Len(rest[s])
      BY <1>b, <2>0, TakeDrop
    <2>2. Len(rest[s]) = 0
      OBVIOUS
    <2> QED
      BY <1>b, <2>1, <2>2
  <1> QED
    BY <1>1, <1>2, <1>3, <1>4, <1>5

LEMMA SenderStepKeeps ==
    ASSUME SenderInv, NEW s \in Senders,
           thr_init(s) \/ thr_open_chn(s) \/ WriterStart(s) \/ thr_send(s) \/ SendStep(s)
    PROVE  SenderInv'
  <1> USE DEF SenderInv
  <1>1. CASE thr_init(s)
    BY <1>1 DEF thr_init, SenderTypes, WriterInv
  <1>2. CASE thr_open_chn(s)
    <2>1. PICK f \in FragSizes[s] : chn' = [chn EXCEPT ![s] = f % CharMod]
      BY <1>2 DEF thr_open_chn
    <2>2. f \in Nat /\ CharMod \in Nat \ {0}
      BY ThrottleAssumption
    <2>3. f % CharMod \in 0 .. CharMod - 1
      BY <2>2, Remainder
    <2>4. chn' \in [Senders -> {Closed} \cup 0 .. CharMod - 1]
      BY <2>1, <2>3 DEF SenderTypes
    <2>5. chn[s] = Closed /\ UNCHANGED <<spc, packets, buf, rest, loop, sent>>
      BY <1>2 DEF thr_open_chn
    <2>6. SenderTypes'
      BY <2>1, <2>3, <2>4, <2>5 DEF SenderTypes, Closed
    <2>7. WriterInv'
      BY <2>5 DEF WriterInv
    <2> QED
      BY <2>6, <2>7
  <1>3. CASE WriterStart(s)
    <2> DEFINE bytes(len) == PacketBytes(s, packets[s] + 1, len)
    <2>1. PICK len \in Lengths[s] :
             /\ buf' = [buf EXCEPT ![s] = Take(bytes(len), BufferSize)]
             /\ rest' = [rest EXCEPT ![s] = Drop(bytes(len), BufferSize)]
      BY <1>3 DEF WriterStart
    <2>2. len \in Nat \ {0} /\ packets[s] + 1 \in Nat \ {0}
      BY ThrottleAssumption DEF SenderTypes
    <2>3. bytes(len) \in Seq(Bytes) /\ Len(bytes(len)) > 0 /\ Pending(bytes(len))
      BY <2>2, PacketPending
    <2>4. /\ Message(Take(bytes(len), BufferSize)) /\ Pending(Drop(bytes(len), BufferSize))
          /\ Take(bytes(len), BufferSize) \in Seq(Bytes) /\ Drop(bytes(len), BufferSize) \in Seq(Bytes)
      BY <2>3, Fill
    <2>5. /\ packets' = [packets EXCEPT ![s] = @ + 1] /\ spc' = [spc EXCEPT ![s] = "flush"]
          /\ chn[s] # Closed /\ UNCHANGED <<chn, loop, sent>>
      BY <1>3 DEF WriterStart
    <2> HIDE DEF bytes
    <2>6. SenderTypes'
      BY <2>1, <2>2, <2>4, <2>5 DEF SenderTypes
    <2>7. WriterInv'
      BY <2>1, <2>4, <2>5 DEF WriterInv, SenderTypes
    <2> QED
      BY <2>6, <2>7
  <1>4. CASE thr_send(s)
    <2>1. spc[s] = "flush" /\ UNCHANGED <<chn, packets>>
      BY <1>4 DEF thr_send
    <2>2. CASE WriterNext(s) /\ UNCHANGED <<loop, sent>>
      BY <2>1, <2>2, WriterNextKeeps DEF SenderTypes, WriterInv
    <2>3. CASE /\ chn[s] # 0 /\ buf[s] # <<>>
               /\ loop' = [loop EXCEPT ![s] =
                             [i |-> 1, tot |-> Fragments(Len(buf[s]), chn[s]),
                              length |-> Len(buf[s]), data |-> 0]]
               /\ sent' = sent \cup {buf[s]}
               /\ spc' = [spc EXCEPT ![s] = "send"]
               /\ UNCHANGED <<buf, rest>>
      <3>c. CharMod \in Nat /\ buf[s] \in Seq(Bytes)
        BY ThrottleAssumption DEF SenderTypes
      <3>0. chn[s] \in 1 .. CharMod - 1 /\ chn[s] \in Nat \ {0}
        BY <2>1, <2>3, <3>c DEF SenderTypes
      <3>1. Message(buf[s]) /\ Len(buf[s]) \in Nat \ {0}
        BY <2>1, <3>c DEF WriterInv, Message
      <3>2. Fragments(Len(buf[s]), chn[s]) \in Nat
        BY <3>0, <3>1, FragmentFacts
      <3>3. 1 \in 0 .. CharMod - 1
        BY <3>0, <3>c
      <3>4. [i |-> 1, tot |-> Fragments(Len(buf[s]), chn[s]), length |-> Len(buf[s]), data |-> 0] \in LoopType
        BY <3>1, <3>2, <3>3, LoopTypes
      <3>5. loop' \in [Senders -> LoopType]
        BY <2>3, <3>4 DEF SenderTypes
      <3>6. SenderTypes'
        BY <2>1, <2>3, <3>5 DEF SenderTypes
      <3>7. WriterInv'
        BY <2>1, <2>3, <3>1 DEF WriterInv, SenderTypes
      <3> QED
        BY <3>6, <3>7
    <2> QED
      BY <1>4, <2>2, <2>3 DEF thr_send
  <1>5. CASE SendFragment(s)
    <2>1. /\ spc[s] = "send" /\ Advance(s) /\ UNCHANGED <<chn, spc, packets, buf, rest, sent>>
      BY <1>5 DEF SendFragment
    <2>2. loop[s] \in LoopType /\ chn[s] \in 1 .. CharMod - 1 /\ Len(buf[s]) \in Nat
      BY <2>1 DEF SenderTypes
    <2>3. /\ loop[s].i \in Nat /\ loop[s].tot \in Nat /\ loop[s].length \in Nat /\ loop[s].data \in Nat
          /\ loop[s] = [i |-> loop[s].i, tot |-> loop[s].tot, length |-> loop[s].length, data |-> loop[s].data]
      BY <2>2 DEF LoopType
    <2>4. (loop[s].i + 1) % CharMod \in 0 .. CharMod - 1
      <3>1. loop[s].i + 1 \in Nat /\ CharMod \in Nat \ {0}
        BY <2>3, ThrottleAssumption
      <3> QED
        BY <3>1, Remainder
    <2>5. (IF loop[s].length >= chn[s] THEN loop[s].length - chn[s] ELSE loop[s].length) \in Nat
      BY <2>2, <2>3
    <2>6. Least(loop[s].data + FragLen(s), Len(buf[s])) \in Nat
      BY <2>2, <2>3 DEF FragLen, Least
    <2> DEFINE next == [i |-> (loop[s].i + 1) % CharMod, tot |-> loop[s].tot,
                        length |-> IF loop[s].length >= chn[s] THEN loop[s].length - chn[s] ELSE loop[s].length,
                        data |-> Least(loop[s].data + FragLen(s), Len(buf[s]))]
    <2>7. next \in LoopType
      BY <2>3, <2>4, <2>5, <2>6, LoopTypes
    <2>8. loop' = [loop EXCEPT ![s] = next]
      BY <2>1 DEF Advance
    <2> HIDE DEF next
    <2>9. loop' \in [Senders -> LoopType]
      BY <2>7, <2>8 DEF SenderTypes
    <2> QED
      BY <2>1, <2>9 DEF SenderTypes, WriterInv
  <1>6. CASE SendFails(s) \/ SendDone(s)
    <2>1. /\ spc[s] = "send" /\ WriterNext(s) /\ loop' = [loop EXCEPT ![s] = Loop0]
          /\ UNCHANGED <<chn, packets, sent>>
      BY <1>6 DEF SendFails, SendDone
    <2>2. loop' \in [Senders -> LoopType]
      BY <2>1, Loop0Type DEF SenderTypes
    <2> QED
      BY <2>1, <2>2, WriterNextKeeps DEF SenderTypes, WriterInv
  <1> QED
    BY <1>1, <1>2, <1>3, <1>4, <1>5, <1>6 DEF SendStep

LEMMA SenderKeeps ==
    ASSUME SenderInv, [Next]_vars
    PROVE  SenderInv'
  <1>1. CASE UNCHANGED senderVars
    BY <1>1 DEF senderVars, SenderInv, SenderTypes, WriterInv
  <1>2. CASE \E s \in Senders :
          thr_init(s) \/ thr_open_chn(s) \/ WriterStart(s) \/ thr_send(s) \/ SendStep(s)
    BY <1>2, SenderStepKeeps
  <1> QED
    BY <1>1, <1>2 DEF Next, vars, thr_receive, ReceiveError, Handle, OtherTraffic

-----------------------------------------------------------------------------
(* decode_one reads a whole packet.                                        *)

\* Whoever sends: as long as every message handed over was one that was sent.
ReadInv ==
    ~mixed /\ (\A msg \in sent : msg[1].len <= BufferSize) => unread = <<>> /\ ~misread

\* A message that starts a packet, and has room in the buffer, is the packet.
LEMMA WholePacket ==
    ASSUME NEW m, Message(m), m[1].len <= BufferSize
    PROVE  /\ m \in Seq(Bytes) /\ m # <<>> /\ m[1].packet # 0 /\ m[1].off = 0
           /\ Len(m) = m[1].len /\ Len(m) <= BufferSize /\ Len(m) \in Nat
  <1>b. BufferSize \in Nat \ {0}
    BY ThrottleAssumption
  <1>1. m \in Seq(Bytes) /\ Len(m) > 0 /\ Len(m) \in Nat
    BY DEF Message, Follow
  <1>2. m[1] \in Bytes
    BY <1>1
  <1>3. m[1].len \in Nat /\ m[1].off \in Nat
    BY <1>2 DEF Bytes
  <1>4. /\ m[1].packet # 0 /\ m[1].off % BufferSize = 0
        /\ Len(m) = Least(BufferSize, m[1].len - m[1].off)
    BY DEF Message, Follow
  <1>5. m[1].off < m[1].len
    BY <1>b, <1>1, <1>3, <1>4 DEF Least
  <1>6. m[1].off = 0
    <2>1. m[1].off < BufferSize
      BY <1>b, <1>3, <1>5
    <2>2. m[1].off % BufferSize = m[1].off
      BY <1>b, <1>3, <2>1, Remainder
    <2> QED
      BY <1>4, <2>2
  <1>7. m # <<>>
    BY <1>1
  <1> QED
    BY <1>b, <1>1, <1>3, <1>4, <1>6, <1>7 DEF Least

\* Reading all of a sequence leaves nothing.
LEMMA TakeAll ==
    ASSUME NEW S, NEW m \in Seq(S), NEW n \in Nat, n >= Len(m)
    PROVE  Take(m, n) = m /\ Drop(m, n) = <<>>
  <1>1. Least(n, Len(m)) = Len(m) /\ Len(m) \in Nat
    BY DEF Least
  <1>2. SubSeq(m, 1, Len(m)) = m
    BY <1>1
  <1>3. SubSeq(m, n + 1, Len(m)) = <<>>
    BY <1>1
  <1> QED
    BY <1>1, <1>2, <1>3 DEF Take, Drop

LEMMA ReadKeeps ==
    ASSUME SenderInv, SenderInv', ReadInv, [Next]_vars
    PROVE  ReadInv'
  <1> SUFFICES ASSUME ~mixed', \A msg \in sent' : msg[1].len <= BufferSize
               PROVE  unread' = <<>> /\ ~misread'
    BY DEF ReadInv
  <1>1. CASE Handle
    <2>1. /\ mixed' = (mixed \/ p_msg \notin sent) /\ sent' = sent
      BY <1>1 DEF Handle, senderVars
    <2>2. p_msg \in sent /\ ~mixed
      BY <2>1
    <2>3. unread = <<>> /\ ~misread
      BY <2>1, <2>2 DEF ReadInv
    <2>4. Message(p_msg) /\ p_msg[1].len <= BufferSize
      BY <2>1, <2>2 DEF SenderInv, WriterInv
    <2>5. /\ p_msg \in Seq(Bytes) /\ p_msg # <<>> /\ p_msg[1].packet # 0 /\ p_msg[1].off = 0
          /\ Len(p_msg) = p_msg[1].len /\ Len(p_msg) <= BufferSize /\ Len(p_msg) \in Nat
      BY <2>4, WholePacket
    <2>6. BufferSize \in Nat
      BY ThrottleAssumption
    <2>7. thr_read = p_msg
      BY <2>5, <2>6, TakeAll DEF thr_read
    <2>8. ReaderStart = p_msg /\ \A len : ReaderContinue(len) = p_msg
      BY <2>3, <2>7 DEF ReaderStart, ReaderContinue
    <2>9. HeaderLengths(Head(ReaderStart)) = {p_msg[1].len}
      <3>1. Head(p_msg) = p_msg[1]
        BY <2>5
      <3> QED
        BY <2>5, <2>8, <3>1 DEF HeaderLengths
    <2>10. PICK len \in HeaderLengths(Head(ReaderStart)) :
             /\ unread' = Drop(ReaderContinue(len), len)
             /\ misread' = (misread \/ Len(ReaderContinue(len)) < len \/ Take(ReaderContinue(len), len) # p_msg)
      BY <1>1 DEF Handle
    <2>11. len = Len(p_msg)
      BY <2>5, <2>9
    <2>12. Take(p_msg, len) = p_msg /\ Drop(p_msg, len) = <<>> /\ ~(Len(p_msg) < len)
      BY <2>5, <2>11, TakeAll
    <2> QED
      BY <2>3, <2>8, <2>10, <2>12
  <1>2. CASE UNCHANGED <<unread, mixed, misread>> /\ sent \subseteq sent'
    BY <1>2 DEF ReadInv
  <1>3. ASSUME NEW s \in Senders,
               thr_init(s) \/ thr_open_chn(s) \/ WriterStart(s) \/ thr_send(s) \/ SendStep(s)
        PROVE  UNCHANGED <<unread, mixed, misread>> /\ sent \subseteq sent'
    BY <1>3 DEF thr_init, thr_open_chn, WriterStart, thr_send, SendStep, SendFragment, SendFails,
                SendDone, receiverVars
  <1>4. CASE thr_receive \/ ReceiveError \/ OtherTraffic \/ UNCHANGED vars
    BY <1>2, <1>4 DEF thr_receive, ReceiveError, OtherTraffic, vars, senderVars, receiverVars
  <1> QED
    BY <1>1, <1>2, <1>3, <1>4 DEF Next

\* A receiver to which only sent messages are handed over, each of one whole packet,
\* decodes exactly these packets: for any number of senders and whatever is lost,
\* decode_one never reads beyond a message and leaves nothing in the reader's buffer
\* (labcomm_thr_reader start and continue).
THEOREM DecodesWholeCorrect == Spec => []DecodesWhole
  <1>1. Init => SenderInv /\ ReadInv
    BY SenderInit DEF Init, ReadInv
  <1>2. SenderInv /\ ReadInv /\ [Next]_vars => (SenderInv /\ ReadInv)'
    <2>1. SenderInv /\ [Next]_vars => SenderInv'
      BY SenderKeeps
    <2>2. SenderInv /\ SenderInv' /\ ReadInv /\ [Next]_vars => ReadInv'
      BY ReadKeeps
    <2> QED
      BY <2>1, <2>2
  <1>3. SenderInv /\ ReadInv => DecodesWhole
    BY DEF ReadInv, DecodesWhole
  <1> QED
    BY <1>1, <1>2, <1>3, PTL DEF Spec

-----------------------------------------------------------------------------
(* Fragments are never shifted.                                            *)

NetTypes == net \in Seq(Frames) /\ lostBefore \in BOOLEAN

ReceiverTypes ==
    /\ rpc \in {"receive", "handle"} /\ frag_index \in Nat \ {0}
    /\ joined \in Seq(Bytes) /\ p_msg \in Seq(Bytes)

\* s is the channel's only sender, and f its fragment size.
Sole(s, f) ==
    /\ s \in Senders /\ f \in 1 .. CharMod - 1
    /\ \A u \in Senders : Chn[u] = RecvChn => u = s
    /\ FragSizes[s] = {f} /\ Fragments(BufferSize, f) <= MaxFragments

\* The frame g carries the fragment g.num of m.
Piece(g, m, f) ==
    /\ g.num \in 1 .. g.tot /\ g.tot = Fragments(Len(m), f)
    /\ Len(g.payload) = Least(f, Len(m) - (g.num - 1) * f)
    /\ \A k \in 1 .. Len(g.payload) : g.payload[k] = m[(g.num - 1) * f + k]

\* The loop of thr_send is where the fragment number says.
LoopInv(s, f) ==
    /\ chn[s] \in {Closed, f}
    /\ spc[s] = "send" =>
         /\ buf[s] \in sent /\ loop[s].tot = Fragments(Len(buf[s]), f)
         /\ loop[s].i \in 1 .. loop[s].tot + 1
         /\ loop[s].i <= loop[s].tot =>
              /\ loop[s].data = (loop[s].i - 1) * f
              /\ loop[s].length = Len(buf[s]) - (loop[s].i - 1) * f

NetInv(f) == \A k \in 1 .. Len(net) : thr_msg_check(net[k]) => \E m \in sent : Piece(net[k], m, f)

\* Every byte stands where it stood in its message.
Placed(m) == \A k \in 1 .. Len(m) : m[k].packet # 0 /\ m[k].off % BufferSize = k - 1

JoinInv(f) ==
    /\ rpc = "receive" => Placed(joined) /\ Len(joined) = (frag_index - 1) * f
    /\ rpc = "handle" => Placed(p_msg)

LEMMA MessagePlaced ==
    ASSUME NEW m, Message(m)
    PROVE  Placed(m) /\ Len(m) \in 1 .. BufferSize /\ m \in Seq(Bytes)
  <1>b. BufferSize \in Nat \ {0}
    BY ThrottleAssumption
  <1>1. m \in Seq(Bytes) /\ Len(m) > 0 /\ Len(m) \in Nat
    BY DEF Message, Follow
  <1>2. m[1] \in Bytes
    BY <1>1
  <1>3. m[1].len \in Nat /\ m[1].off \in Nat
    BY <1>2 DEF Bytes
  <1>4. /\ m[1].packet # 0 /\ m[1].off % BufferSize = 0
        /\ Len(m) = Least(BufferSize, m[1].len - m[1].off)
        /\ \A k \in 1 .. Len(m) : m[k] = Byte(m[1].from, m[1].packet, m[1].len, m[1].off + k - 1)
    BY DEF Message, Follow
  <1>5. Len(m) <= BufferSize
    BY <1>b, <1>1, <1>3, <1>4 DEF Least
  <1>6. ASSUME NEW k \in 1 .. Len(m)
        PROVE  m[k].packet # 0 /\ m[k].off % BufferSize = k - 1
    <2>1. m[k].packet = m[1].packet /\ m[k].off = m[1].off + k - 1
      <3>1. m[k] = Byte(m[1].from, m[1].packet, m[1].len, m[1].off + k - 1)
        BY <1>4
      <3> QED
        BY <3>1 DEF Byte
    <2>2. m[1].off + k - 1 = m[1].off + (k - 1) /\ k - 1 \in 0 .. BufferSize - 1
      BY <1>b, <1>1, <1>3, <1>5
    <2>3. (m[1].off + (k - 1)) % BufferSize = k - 1
      BY <1>b, <1>3, <1>4, <2>2, Multiple
    <2> QED
      BY <1>4, <2>1, <2>2, <2>3
  <1> QED
    BY <1>b, <1>1, <1>5, <1>6 DEF Placed

\* What a fragment's number says of its place and its length.
LEMMA PieceFacts ==
    ASSUME NEW f \in Nat \ {0}, NEW m, Message(m), NEW g, Piece(g, m, f), g.payload \in Seq(Bytes)
    PROVE  /\ g.tot \in Nat \ {0} /\ g.num \in 1 .. g.tot /\ g.tot = Fragments(Len(m), f)
           /\ (g.num - 1) * f \in Nat /\ (g.num - 1) * f < Len(m)
           /\ Len(g.payload) \in Nat \ {0} /\ Len(g.payload) <= f
           /\ (g.num - 1) * f + Len(g.payload) <= Len(m)
           /\ g.num < g.tot => Len(g.payload) = f
           /\ g.num = g.tot => (g.num - 1) * f + Len(g.payload) = Len(m)
           /\ g.tot <= BufferSize /\ g.tot <= Fragments(BufferSize, f)
           /\ \A k \in 1 .. Len(g.payload) :
                (g.num - 1) * f + k \in 1 .. Len(m) /\ g.payload[k] = m[(g.num - 1) * f + k]
  <1>b. BufferSize \in Nat \ {0}
    BY ThrottleAssumption
  <1>1. Len(m) \in Nat \ {0} /\ Len(m) <= BufferSize
    BY <1>b, MessagePlaced
  <1>2. /\ g.tot \in Nat \ {0} /\ g.num \in 1 .. g.tot /\ g.tot = Fragments(Len(m), f)
        /\ Len(g.payload) = Least(f, Len(m) - (g.num - 1) * f)
        /\ \A k \in 1 .. Len(g.payload) : g.payload[k] = m[(g.num - 1) * f + k]
    BY <1>1, FragmentFacts DEF Piece
  <1> DEFINE at == (g.num - 1) * f
  <1>3. at \in Nat
    <2>1. g.num - 1 \in Nat
      BY <1>2
    <2> HIDE <1>2
    <2> QED
      BY <2>1
  <1>4. at < Len(m) /\ (g.num < g.tot => at + f < Len(m))
    <2>1. /\ \A i \in 1 .. g.tot : (i - 1) * f < Len(m)
          /\ \A i \in 1 .. g.tot - 1 : (i - 1) * f + f < Len(m)
      BY <1>1, <1>2, FragmentFacts
    <2>2. g.num < g.tot => g.num \in 1 .. g.tot - 1
      BY <1>2
    <2> QED
      BY <1>2, <2>1, <2>2
  <1>5. g.tot <= Fragments(BufferSize, f)
    BY <1>b, <1>1, <1>2, FragmentFacts
  <1>6. Fragments(Len(m), f) <= Len(m) /\ (g.num = g.tot => Len(m) <= at + f)
    <2> DEFINE q == (Len(m) - 1) \div f
    <2>1. q \in Nat /\ q * f <= Len(m) - 1 /\ Len(m) - 1 < (q + 1) * f
      BY <1>1
    <2>2. Fragments(Len(m), f) = q + 1
      BY DEF Fragments
    <2> HIDE DEF q
    <2>3. q <= q * f
      BY <2>1
    <2>4. (q + 1) * f = q * f + f /\ q * f \in Int
      BY <2>1
    <2> HIDE DEF at
    <2>5. g.num = g.tot => at = q * f
      BY <1>2, <2>1, <2>2 DEF at
    <2> QED
      BY <1>1, <1>3, <2>1, <2>2, <2>3, <2>4, <2>5
  <1> HIDE DEF at
  <1>7. Len(g.payload) = Least(f, Len(m) - at)
    BY <1>2 DEF at
  <1>8. /\ Len(g.payload) \in Nat \ {0} /\ Len(g.payload) <= f
        /\ at + Len(g.payload) <= Len(m)
        /\ g.num < g.tot => Len(g.payload) = f
        /\ g.num = g.tot => at + Len(g.payload) = Len(m)
    BY <1>1, <1>3, <1>4, <1>6, <1>7 DEF Least
  <1>9. \A k \in 1 .. Len(g.payload) : at + k \in 1 .. Len(m)
    BY <1>1, <1>3, <1>8
  <1>10. \A k \in 1 .. Len(g.payload) : g.payload[k] = m[at + k]
    BY <1>2 DEF at
  <1>11. g.tot <= BufferSize
    BY <1>b, <1>1, <1>2, <1>6
  <1> QED
    BY <1>2, <1>3, <1>4, <1>5, <1>8, <1>9, <1>10, <1>11 DEF at

LEMMA Concat ==
    ASSUME NEW S, NEW a \in Seq(S), NEW b \in Seq(S)
    PROVE  /\ a \o b \in Seq(S) /\ Len(a \o b) = Len(a) + Len(b)
           /\ \A k \in 1 .. Len(a) : (a \o b)[k] = a[k]
           /\ \A k \in 1 .. Len(a \o b) : k > Len(a) => (a \o b)[k] = b[k - Len(a)]
  OBVIOUS

\* The fragment expected is appended where it belongs.
LEMMA JoinPlaced ==
    ASSUME NEW f \in Nat \ {0}, NEW m, Message(m), NEW g, Piece(g, m, f), g.payload \in Seq(Bytes),
           NEW j \in Seq(Bytes), Placed(j), Len(j) = (g.num - 1) * f
    PROVE  /\ j \o g.payload \in Seq(Bytes) /\ Placed(j \o g.payload)
           /\ g.num < g.tot => Len(j \o g.payload) = g.num * f
           /\ Len(j \o g.payload) = Len(j) + Len(g.payload)
  <1> DEFINE at == (g.num - 1) * f
  <1>1. /\ at \in Nat /\ Len(g.payload) \in Nat \ {0} /\ g.num \in Nat
        /\ g.num < g.tot => Len(g.payload) = f
        /\ \A k \in 1 .. Len(g.payload) : at + k \in 1 .. Len(m) /\ g.payload[k] = m[at + k]
    BY PieceFacts
  <1>2. at + f = g.num * f
    BY <1>1
  <1>3. Len(j) = at
    OBVIOUS
  <1> HIDE DEF at
  <1>4. /\ j \o g.payload \in Seq(Bytes) /\ Len(j \o g.payload) = at + Len(g.payload)
        /\ \A k \in 1 .. at : (j \o g.payload)[k] = j[k]
        /\ \A k \in 1 .. Len(j \o g.payload) :
             k > at => (j \o g.payload)[k] = g.payload[k - at]
    <2>1. /\ j \o g.payload \in Seq(Bytes) /\ Len(j \o g.payload) = Len(j) + Len(g.payload)
          /\ \A k \in 1 .. Len(j) : (j \o g.payload)[k] = j[k]
          /\ \A k \in 1 .. Len(j \o g.payload) :
               k > Len(j) => (j \o g.payload)[k] = g.payload[k - Len(j)]
      BY Concat, Zenon
    <2> QED
      BY <1>3, <2>1, Zenon
  <1>5. ASSUME NEW k \in 1 .. Len(j \o g.payload)
        PROVE  (j \o g.payload)[k].packet # 0 /\ (j \o g.payload)[k].off % BufferSize = k - 1
    <2>1. CASE k <= at
      <3>1. k \in 1 .. Len(j)
        BY <1>1, <1>3, <1>4, <2>1
      <3> QED
        BY <1>4, <2>1, <3>1 DEF Placed
    <2>2. CASE k > at
      <3>1. k - at \in 1 .. Len(g.payload) /\ at + (k - at) = k
        BY <1>1, <1>4, <2>2
      <3>2. k \in 1 .. Len(m) /\ (j \o g.payload)[k] = m[k]
        BY <1>1, <1>4, <2>2, <3>1
      <3> QED
        BY <3>2, MessagePlaced DEF Placed
    <2> QED
      BY <1>1, <2>1, <2>2
  <1> QED
    BY <1>1, <1>2, <1>3, <1>4, <1>5 DEF Placed

LEMMA CopyFacts ==
    ASSUME NEW s \in Senders, NEW bytes \in Seq(Bytes), NEW at \in Nat, NEW len \in Nat
    PROVE  /\ Copy(s, bytes, at, len) \in Seq(Bytes) /\ Len(Copy(s, bytes, at, len)) = len
           /\ \A k \in 1 .. len : at + k <= Len(bytes) => Copy(s, bytes, at, len)[k] = bytes[at + k]
  <1>1. Stray(s) \in Bytes
    BY DEF Stray, Byte, Bytes
  <1>2. \A k \in 1 .. len : (IF at + k <= Len(bytes) THEN bytes[at + k] ELSE Stray(s)) \in Bytes
    BY <1>1
  <1> QED
    BY <1>2 DEF Copy

\* What the record of a frame holds.
LEMMA FrameFields ==
    ASSUME NEW g \in Frames
    PROVE  /\ g.payload \in Seq(Bytes) /\ g.num \in Nat /\ g.tot \in Nat /\ g.gap \in BOOLEAN
  BY ThrottleAssumption DEF Frames

LEMMA FrameType ==
    ASSUME SenderInv, NetTypes, NEW s \in Senders, spc[s] = "send"
    PROVE  Frame(s) \in Frames
  <1>1. loop[s] \in LoopType /\ buf[s] \in Seq(Bytes)
    BY DEF SenderInv, SenderTypes
  <1>2. /\ loop[s].i \in 0 .. CharMod - 1 /\ loop[s].tot \in Nat /\ loop[s].length \in Nat
        /\ loop[s].data \in Nat
    BY <1>1 DEF LoopType
  <1>3. chn[s] \in Nat
    BY ThrottleAssumption DEF SenderInv, SenderTypes
  <1>4. FragLen(s) \in Nat
    BY <1>2, <1>3 DEF FragLen, Least
  <1>5. Copy(s, buf[s], loop[s].data, FragLen(s)) \in Seq(Bytes)
    BY <1>1, <1>2, <1>4, CopyFacts
  <1>6. Chn[s] \in Nat /\ (lostBefore /\ Chn[s] = RecvChn) \in BOOLEAN
    BY ThrottleAssumption
  <1> QED
    BY <1>2, <1>5, <1>6 DEF Frame, Frames

LEMMA OtherType == OtherFrame \in Frames
  <1>1. Stray("other") \in Bytes
    BY DEF Stray, Byte, Bytes
  <1>2. <<Stray("other")>> \in Seq(Bytes)
    BY <1>1
  <1>3. 1 \in 0 .. CharMod - 1 /\ 1 \in Nat /\ RecvChn \in Nat
    BY ThrottleAssumption
  <1> QED
    BY <1>2, <1>3 DEF OtherFrame, Frames

\* Frames are added at the end by a sender or by other traffic.
LEMMA AppendFacts ==
    ASSUME NEW S, NEW ns \in Seq(S), NEW g \in S
    PROVE  /\ Append(ns, g) \in Seq(S) /\ Len(Append(ns, g)) = Len(ns) + 1
           /\ \A k \in 1 .. Len(ns) : Append(ns, g)[k] = ns[k]
           /\ Append(ns, g)[Len(ns) + 1] = g
  OBVIOUS

LEMMA TailFacts ==
    ASSUME NEW S, NEW ns \in Seq(S), ns # <<>>
    PROVE  /\ Tail(ns) \in Seq(S) /\ Len(Tail(ns)) = Len(ns) - 1 /\ Len(ns) \in Nat \ {0}
           /\ \A k \in 1 .. Len(Tail(ns)) : k + 1 \in 1 .. Len(ns) /\ Tail(ns)[k] = ns[k + 1]
           /\ Head(ns) = ns[1] /\ ns[1] \in S
  OBVIOUS

\* The three outcomes of a fragment: the message is complete, it is one more, or it
\* is not the one expected.
Completes(g) ==
    /\ frag_index = g.num /\ frag_index + 1 > g.tot /\ frag_index' = frag_index + 1
    /\ joined' = joined \o g.payload /\ p_msg' = joined \o g.payload /\ rpc' = "handle"

Extends(g) ==
    /\ frag_index = g.num /\ ~(frag_index + 1 > g.tot) /\ frag_index' = frag_index + 1
    /\ joined' = joined \o g.payload /\ UNCHANGED <<rpc, p_msg>>

Discards(g) ==
    /\ frag_index # g.num /\ frag_index' = 1 /\ joined' = <<>> /\ UNCHANGED <<rpc, p_msg>>

LEMMA JoinCases ==
    ASSUME NEW g, Join(g)
    PROVE  Completes(g) \/ Extends(g) \/ Discards(g)
  BY DEF Join, Completes, Extends, Discards

LEMMA TypesKeep ==
    ASSUME SenderInv, NetTypes, ReceiverTypes, [Next]_vars
    PROVE  NetTypes' /\ ReceiverTypes'
  <1>e. <<>> \in Seq(Bytes)
    OBVIOUS
  <1>1. CASE UNCHANGED <<net, lostBefore, receiverVars>>
    BY <1>1 DEF NetTypes, ReceiverTypes, receiverVars
  <1>2. ASSUME NEW s \in Senders, SendFragment(s)
        PROVE  NetTypes' /\ ReceiverTypes'
    <2>1. Frame(s) \in Frames
      BY <1>2, FrameType DEF SendFragment
    <2>2. net' \in Seq(Frames) /\ lostBefore' \in BOOLEAN
      BY <1>2, <2>1, AppendFacts DEF SendFragment, eth_send, NetTypes
    <2> QED
      BY <1>2, <2>2 DEF SendFragment, NetTypes, ReceiverTypes, receiverVars
  <1>3. CASE thr_receive
    <2>1. /\ net # <<>> /\ net' = Tail(net) /\ UNCHANGED lostBefore
      BY <1>3 DEF thr_receive
    <2>2. NetTypes'
      BY <2>1, TailFacts DEF NetTypes
    <2>3. Head(net) \in Frames
      BY <2>1 DEF NetTypes
    <2>4. Head(net).payload \in Seq(Bytes)
      BY <2>3, FrameFields
    <2>5. joined \o Head(net).payload \in Seq(Bytes)
      BY <2>4 DEF ReceiverTypes
    <2>6. CASE thr_msg_check(Head(net))
      <3>1. Join(Head(net))
        BY <1>3, <2>6 DEF thr_receive
      <3>2. CASE Completes(Head(net)) \/ Extends(Head(net))
        <4>1. frag_index' \in Nat \ {0}
          BY <3>2 DEF Completes, Extends, ReceiverTypes
        <4>2. joined' \in Seq(Bytes) /\ (p_msg' = p_msg \/ p_msg' \in Seq(Bytes))
          BY <2>5, <3>2, Zenon DEF Completes, Extends
        <4>3. rpc' = rpc \/ rpc' = "handle"
          BY <3>2, Zenon DEF Completes, Extends
        <4> QED
          BY <2>2, <4>1, <4>2, <4>3 DEF ReceiverTypes
      <3>3. CASE Discards(Head(net))
        BY <1>e, <2>2, <3>3 DEF Discards, ReceiverTypes
      <3> QED
        <4>1. Completes(Head(net)) \/ Extends(Head(net)) \/ Discards(Head(net))
          BY <3>1, JoinCases
        <4> QED
          BY <3>2, <3>3, <4>1
    <2>7. CASE ~thr_msg_check(Head(net))
      BY <1>3, <2>2, <2>7 DEF thr_receive, ReceiverTypes
    <2> QED
      BY <2>6, <2>7
  <1>4. CASE ReceiveError
    <2>1. /\ net # <<>> /\ net' = Tail(net) /\ UNCHANGED <<lostBefore, rpc, frag_index, joined, p_msg>>
      BY <1>4 DEF ReceiveError
    <2> QED
      BY <2>1, TailFacts DEF NetTypes, ReceiverTypes
  <1>5. CASE Handle
    BY <1>e, <1>5 DEF Handle, NetTypes, ReceiverTypes
  <1>6. CASE OtherTraffic
    BY <1>6, OtherType, AppendFacts DEF OtherTraffic, NetTypes, ReceiverTypes, receiverVars
  <1>7. ASSUME NEW s \in Senders,
               \/ thr_init(s) \/ thr_open_chn(s) \/ WriterStart(s) \/ thr_send(s)
               \/ SendFails(s) \/ SendDone(s)
        PROVE  UNCHANGED <<net, lostBefore, receiverVars>>
    BY <1>7 DEF thr_init, thr_open_chn, WriterStart, thr_send, SendFails, SendDone
  <1>8. CASE UNCHANGED vars
    BY <1>1, <1>8 DEF vars
  <1> QED
    BY <1>1, <1>2, <1>3, <1>4, <1>5, <1>6, <1>7, <1>8 DEF Next, SendStep

FragInv(s, f) == LoopInv(s, f) /\ NetInv(f) /\ JoinInv(f)

LEMMA Times ==
    ASSUME NEW i \in Nat \ {0}, NEW f \in Nat
    PROVE  (i - 1) * f \in Nat /\ (i + 1 - 1) * f = (i - 1) * f + f
  <1> DEFINE j == i - 1
  <1>1. j \in Nat /\ i + 1 - 1 = j + 1
    OBVIOUS
  <1> HIDE DEF j
  <1>2. j * f \in Nat /\ (j + 1) * f = j * f + f
    BY <1>1
  <1> QED
    BY <1>1, <1>2 DEF j

LEMMA SoleFacts ==
    ASSUME NEW s, NEW f, Sole(s, f)
    PROVE  /\ s \in Senders /\ f \in Nat \ {0} /\ f < CharMod /\ FragSizes[s] = {f}
           /\ f % CharMod = f
           /\ \A u \in Senders : Chn[u] = RecvChn => u = s
           /\ Fragments(BufferSize, f) <= CharMod - 2
           /\ CharMod \in Nat /\ BufferSize \in Nat \ {0}
  <1>1. CharMod \in Nat \ {0} /\ BufferSize \in Nat \ {0}
    BY ThrottleAssumption
  <1>2. f \in Nat \ {0} /\ f < CharMod
    BY <1>1 DEF Sole
  <1>3. f % CharMod = f
    BY <1>1, <1>2, Remainder
  <1> QED
    BY <1>1, <1>2, <1>3 DEF Sole, MaxFragments

\* The frame that thr_send composes is the fragment it says it is.
LEMMA FramePiece ==
    ASSUME SenderInv, NetTypes, NEW s, NEW f, Sole(s, f), LoopInv(s, f),
           spc[s] = "send", loop[s].i <= loop[s].tot
    PROVE  Piece(Frame(s), buf[s], f)
  <1>1. s \in Senders /\ f \in Nat \ {0}
    BY SoleFacts
  <1>2. buf[s] \in Seq(Bytes) /\ Message(buf[s]) /\ loop[s] \in LoopType
    BY <1>1 DEF SenderInv, SenderTypes, WriterInv
  <1>3. /\ chn[s] = f /\ loop[s].tot = Fragments(Len(buf[s]), f)
        /\ loop[s].i \in 1 .. loop[s].tot
        /\ loop[s].data = (loop[s].i - 1) * f
        /\ loop[s].length = Len(buf[s]) - (loop[s].i - 1) * f
    <2>1. chn[s] # Closed /\ loop[s].tot \in Nat /\ loop[s].i \in Nat
      BY <1>1, <1>2 DEF SenderInv, SenderTypes, LoopType
    <2> QED
      BY <2>1 DEF LoopInv
  <1>4. loop[s].data \in Nat /\ loop[s].length \in Nat
    BY <1>2 DEF LoopType
  <1> DEFINE at == (loop[s].i - 1) * f
  <1>5. at \in Nat /\ Len(buf[s]) \in Nat /\ Len(buf[s]) - at \in Nat
    BY <1>2, <1>3, <1>4
  <1>6. /\ Frame(s).num = loop[s].i /\ Frame(s).tot = loop[s].tot
        /\ Frame(s).payload = Copy(s, buf[s], loop[s].data, FragLen(s))
    BY DEF Frame
  <1>7. FragLen(s) = Least(f, Len(buf[s]) - at)
    BY <1>1, <1>3, <1>5 DEF FragLen, Least
  <1> HIDE DEF at
  <1>8. FragLen(s) \in Nat /\ FragLen(s) <= Len(buf[s]) - at
    BY <1>1, <1>5, <1>7 DEF Least
  <1>9. /\ Len(Frame(s).payload) = FragLen(s)
        /\ \A k \in 1 .. FragLen(s) : at + k <= Len(buf[s]) => Frame(s).payload[k] = buf[s][at + k]
    <2>1. Frame(s).payload = Copy(s, buf[s], at, FragLen(s))
      BY <1>3, <1>6 DEF at
    <2>2. /\ Len(Copy(s, buf[s], at, FragLen(s))) = FragLen(s)
          /\ \A k \in 1 .. FragLen(s) :
               at + k <= Len(buf[s]) => Copy(s, buf[s], at, FragLen(s))[k] = buf[s][at + k]
      <3>1. s \in Senders /\ buf[s] \in Seq(Bytes) /\ at \in Nat /\ FragLen(s) \in Nat
        BY <1>1, <1>2, <1>5, <1>8
      <3> QED
        BY <3>1, CopyFacts, Zenon
    <2> QED
      BY <2>1, <2>2
  <1>10. \A k \in 1 .. FragLen(s) : Frame(s).payload[k] = buf[s][at + k]
    <2>1. \A k \in 1 .. FragLen(s) : at + k <= Len(buf[s])
      BY <1>5, <1>8
    <2> QED
      BY <1>9, <2>1
  <1> QED
    BY <1>3, <1>6, <1>7, <1>9, <1>10 DEF Piece, at

\* thr_send goes on to the next fragment; the unsigned char i does not wrap.
LEMMA LoopAdvances ==
    ASSUME SenderInv, NEW s, NEW f, Sole(s, f), LoopInv(s, f), SendFragment(s)
    PROVE  LoopInv(s, f)' /\ loop'[s].i = loop[s].i + 1
  <1>1. /\ s \in Senders /\ f \in Nat \ {0} /\ Fragments(BufferSize, f) <= CharMod - 2
        /\ CharMod \in Nat /\ BufferSize \in Nat \ {0}
    BY SoleFacts
  <1>2. buf[s] \in Seq(Bytes) /\ Message(buf[s]) /\ loop[s] \in LoopType
    BY <1>1 DEF SenderInv, SenderTypes, WriterInv, SendFragment
  <1>3. /\ chn[s] = f /\ loop[s].tot = Fragments(Len(buf[s]), f) /\ buf[s] \in sent
        /\ loop[s].i \in 1 .. loop[s].tot /\ loop[s].tot \in Nat
        /\ loop[s].data = (loop[s].i - 1) * f
        /\ loop[s].length = Len(buf[s]) - (loop[s].i - 1) * f
    <2>1. spc[s] = "send" /\ loop[s].i <= loop[s].tot
      BY DEF SendFragment
    <2>2. chn[s] # Closed /\ loop[s].tot \in Nat /\ loop[s].i \in Nat
      BY <1>1, <1>2, <2>1 DEF SenderInv, SenderTypes, LoopType
    <2> QED
      BY <2>1, <2>2 DEF LoopInv
  <1>4. Len(buf[s]) \in Nat \ {0} /\ Len(buf[s]) <= BufferSize
    BY <1>1, <1>2, MessagePlaced
  <1>5. loop[s].tot <= CharMod - 2
    <2>1. Fragments(Len(buf[s]), f) <= Fragments(BufferSize, f) /\ Fragments(BufferSize, f) \in Nat
      BY <1>1, <1>4, FragmentFacts
    <2> QED
      BY <1>1, <1>3, <2>1
  <1>6. (loop[s].i + 1) % CharMod = loop[s].i + 1
    <2>1. loop[s].i + 1 \in Nat /\ loop[s].i + 1 < CharMod /\ CharMod \in Nat \ {0}
      BY <1>1, <1>3, <1>5
    <2> QED
      BY <2>1, Remainder
  <1>7. /\ loop'[s].i = loop[s].i + 1 /\ loop'[s].tot = loop[s].tot
        /\ loop'[s].length = IF loop[s].length >= f THEN loop[s].length - f ELSE loop[s].length
        /\ loop'[s].data = Least(loop[s].data + FragLen(s), Len(buf[s]))
    BY <1>1, <1>3, <1>6 DEF SendFragment, Advance, SenderInv, SenderTypes
  <1>8. UNCHANGED <<chn, spc, buf, sent>>
    BY DEF SendFragment
  <1> DEFINE at == (loop[s].i - 1) * f
  <1>9. at \in Nat /\ (loop[s].i + 1 - 1) * f = at + f
    <2>1. loop[s].i \in Nat \ {0}
      BY <1>3
    <2> QED
      BY <1>1, <2>1, Times
  <1>10. loop[s].i + 1 <= loop[s].tot => at + f < Len(buf[s])
    <2> SUFFICES ASSUME loop[s].i + 1 <= loop[s].tot PROVE at + f < Len(buf[s])
      OBVIOUS
    <2>1. \A i \in 1 .. loop[s].tot - 1 : (i - 1) * f + f < Len(buf[s])
      BY <1>1, <1>3, <1>4, FragmentFacts
    <2>2. loop[s].i \in 1 .. loop[s].tot - 1
      BY <1>3
    <2> QED
      BY <2>1, <2>2
  <1>11. loop[s].data = at /\ loop[s].length = Len(buf[s]) - at
    BY <1>3
  <1> HIDE DEF at
  <1>12. loop[s].i + 1 <= loop[s].tot =>
           /\ loop'[s].data = at + f
           /\ loop'[s].length = Len(buf[s]) - (at + f)
    <2> SUFFICES ASSUME loop[s].i + 1 <= loop[s].tot
                 PROVE  loop'[s].data = at + f /\ loop'[s].length = Len(buf[s]) - (at + f)
      OBVIOUS
    <2>1. at + f < Len(buf[s])
      BY <1>10
    <2>2. loop[s].length >= f /\ FragLen(s) = f
      BY <1>1, <1>3, <1>4, <1>9, <1>11, <2>1 DEF FragLen, Least
    <2>3. loop'[s].length = Len(buf[s]) - at - f
      BY <1>7, <1>11, <2>2
    <2>4. loop'[s].data = Least(at + f, Len(buf[s]))
      BY <1>7, <1>11, <2>2
    <2> QED
      BY <1>1, <1>4, <1>9, <2>1, <2>3, <2>4 DEF Least
  <1>13. loop'[s].i \in 1 .. loop'[s].tot + 1
    BY <1>3, <1>7
  <1> QED
    BY <1>3, <1>7, <1>8, <1>9, <1>12, <1>13 DEF LoopInv

LEMMA LoopKeeps ==
    ASSUME SenderInv, NEW s, NEW f, Sole(s, f), LoopInv(s, f), [Next]_vars
    PROVE  LoopInv(s, f)'
  <1>0. s \in Senders /\ f \in Nat \ {0} /\ FragSizes[s] = {f} /\ f % CharMod = f
    BY SoleFacts
  <1>1. CASE chn'[s] = chn[s] /\ spc'[s] = spc[s] /\ buf'[s] = buf[s] /\ loop'[s] = loop[s]
             /\ sent \subseteq sent'
    BY <1>1 DEF LoopInv
  <1>2. ASSUME NEW u \in Senders, u # s,
               thr_init(u) \/ thr_open_chn(u) \/ WriterStart(u) \/ thr_send(u) \/ SendStep(u)
        PROVE  chn'[s] = chn[s] /\ spc'[s] = spc[s] /\ buf'[s] = buf[s] /\ loop'[s] = loop[s]
               /\ sent \subseteq sent'
    BY <1>0, <1>2 DEF thr_init, thr_open_chn, WriterStart, thr_send, SendStep, SendFragment, SendFails,
                      SendDone, WriterNext, Advance, SenderInv, SenderTypes
  <1>3. CASE thr_init(s) \/ UNCHANGED senderVars
    BY <1>1, <1>3 DEF thr_init, senderVars
  <1>4. CASE thr_open_chn(s)
    <2>1. chn'[s] = f /\ chn[s] = Closed /\ UNCHANGED spc
      BY <1>0, <1>4 DEF thr_open_chn, SenderInv, SenderTypes
    <2>2. spc'[s] # "send"
      BY <1>0, <2>1 DEF SenderInv, SenderTypes
    <2> QED
      BY <2>1, <2>2 DEF LoopInv
  <1>5. CASE WriterStart(s)
    BY <1>0, <1>5 DEF WriterStart, LoopInv, SenderInv, SenderTypes
  <1>6. CASE (thr_send(s) \/ SendFails(s) \/ SendDone(s)) /\ WriterNext(s)
    <2>1. spc[s] # "idle" /\ UNCHANGED chn
      BY <1>6 DEF thr_send, SendFails, SendDone
    <2>2. spc'[s] # "send"
      BY <1>0, <1>6, <2>1, WriterNextKeeps
    <2> QED
      BY <2>1, <2>2 DEF LoopInv
  <1>7. CASE thr_send(s) /\ ~WriterNext(s)
    <2>1. /\ spc[s] = "flush" /\ chn[s] # 0 /\ UNCHANGED <<chn, buf>> /\ sent' = sent \cup {buf[s]}
          /\ loop' = [loop EXCEPT ![s] = [i |-> 1, tot |-> Fragments(Len(buf[s]), chn[s]),
                                          length |-> Len(buf[s]), data |-> 0]]
      BY <1>7 DEF thr_send
    <2>2. chn[s] = f
      BY <1>0, <2>1 DEF LoopInv, SenderInv, SenderTypes
    <2>3. loop'[s] = [i |-> 1, tot |-> Fragments(Len(buf[s]), f), length |-> Len(buf[s]), data |-> 0]
      BY <1>0, <2>1, <2>2 DEF SenderInv, SenderTypes
    <2>4. /\ loop'[s].i = 1 /\ loop'[s].tot = Fragments(Len(buf[s]), f)
          /\ loop'[s].length = Len(buf[s]) /\ loop'[s].data = 0
      BY <2>3
    <2>5. Message(buf[s])
      BY <1>0, <2>1 DEF SenderInv, WriterInv
    <2>6. Len(buf[s]) \in Nat \ {0} /\ BufferSize \in Nat
      BY <2>5, MessagePlaced, SoleFacts
    <2>7. Fragments(Len(buf[s]), f) \in Nat \ {0} /\ (1 - 1) * f = 0
      <3>1. Fragments(Len(buf[s]), f) \in Nat \ {0}
        BY <1>0, <2>6, FragmentFacts
      <3>2. (1 - 1) * f = 0
        BY <1>0
      <3> QED
        BY <3>1, <3>2
    <2> QED
      BY <2>1, <2>2, <2>4, <2>6, <2>7 DEF LoopInv
  <1>8. CASE SendFragment(s)
    BY <1>8, LoopAdvances
  <1>9. ASSUME NEW u \in Senders, SendFails(u) \/ SendDone(u)
        PROVE  WriterNext(u)
    BY <1>9 DEF SendFails, SendDone
  <1> QED
    BY <1>1, <1>2, <1>3, <1>4, <1>5, <1>6, <1>7, <1>8, <1>9
       DEF Next, SendStep, vars, thr_receive, ReceiveError, Handle, OtherTraffic

\* A frame that the receiver takes comes from the channel's sender.
LEMMA ForeignFrame ==
    ASSUME NEW s, NEW f, Sole(s, f), NEW u \in Senders, thr_msg_check(Frame(u))
    PROVE  u = s /\ Chn[s] = RecvChn
  <1>1. Frame(u).chn = Chn[u]
    BY DEF Frame
  <1> QED
    BY <1>1, SoleFacts DEF thr_msg_check

LEMMA OtherIgnored == ~thr_msg_check(OtherFrame)
  <1>1. OtherFrame.proto = "other"
    BY DEF OtherFrame
  <1> QED
    BY <1>1 DEF thr_msg_check

LEMMA NetKeeps ==
    ASSUME SenderInv, NetTypes, NEW s, NEW f, Sole(s, f), LoopInv(s, f), NetInv(f), [Next]_vars
    PROVE  NetInv(f)'
  <1>0. sent \subseteq sent'
    BY DEF Next, thr_init, thr_open_chn, WriterStart, thr_send, SendStep, SendFragment, SendFails, SendDone,
           senderVars, vars, thr_receive, ReceiveError, Handle, OtherTraffic
  <1>1. CASE net' = net
    BY <1>0, <1>1 DEF NetInv
  <1>2. ASSUME net # <<>>, net' = Tail(net)
        PROVE  NetInv(f)'
    <2>1. \A k \in 1 .. Len(net') : k + 1 \in 1 .. Len(net) /\ net'[k] = net[k + 1]
      BY <1>2, TailFacts DEF NetTypes
    <2> QED
      BY <1>0, <2>1 DEF NetInv
  <1>3. ASSUME NEW g \in Frames, net' = Append(net, g),
               thr_msg_check(g) => \E m \in sent : Piece(g, m, f)
        PROVE  NetInv(f)'
    <2>1. /\ Len(net') = Len(net) + 1 /\ Len(net) \in Nat
          /\ \A k \in 1 .. Len(net) : net'[k] = net[k]
          /\ net'[Len(net) + 1] = g
      BY <1>3, AppendFacts DEF NetTypes
    <2>2. \A k \in 1 .. Len(net') : k \in 1 .. Len(net) \/ k = Len(net) + 1
      BY <2>1
    <2> QED
      BY <1>0, <1>3, <2>1, <2>2 DEF NetInv
  <1>4. ASSUME NEW u \in Senders, SendFragment(u), net' # net
        PROVE  NetInv(f)'
    <2>1. net' = Append(net, Frame(u)) /\ spc[u] = "send" /\ loop[u].i <= loop[u].tot
      BY <1>4 DEF SendFragment, eth_send
    <2>2. Frame(u) \in Frames
      BY <2>1, FrameType
    <2>3. thr_msg_check(Frame(u)) => \E m \in sent : Piece(Frame(u), m, f)
      <3> SUFFICES ASSUME thr_msg_check(Frame(u)) PROVE \E m \in sent : Piece(Frame(u), m, f)
        OBVIOUS
      <3>1. u = s
        BY ForeignFrame
      <3>2. Piece(Frame(s), buf[s], f) /\ buf[s] \in sent
        BY <2>1, <3>1, FramePiece DEF LoopInv
      <3> QED
        BY <3>1, <3>2
    <2> QED
      BY <1>3, <2>1, <2>2, <2>3
  <1>5. CASE OtherTraffic
    BY <1>3, <1>5, OtherType, OtherIgnored DEF OtherTraffic
  <1>6. CASE thr_receive \/ ReceiveError
    BY <1>2, <1>6 DEF thr_receive, ReceiveError
  <1> QED
    BY <1>1, <1>4, <1>5, <1>6
       DEF Next, vars, thr_init, thr_open_chn, WriterStart, thr_send, SendStep, SendFails, SendDone, Handle

LEMMA JoinKeeps ==
    ASSUME WriterInv, NetTypes, ReceiverTypes, NEW f \in Nat \ {0}, NetInv(f), JoinInv(f), [Next]_vars
    PROVE  JoinInv(f)'
  <1>e. Placed(<<>>) /\ Len(<<>>) = 0 /\ (1 - 1) * f = 0
    BY DEF Placed
  <1>1. CASE UNCHANGED <<rpc, frag_index, joined, p_msg>>
    BY <1>1 DEF JoinInv
  <1>2. CASE Handle
    <2>1. rpc' = "receive" /\ frag_index' = 1 /\ joined' = <<>>
      BY <1>2 DEF Handle
    <2> QED
      BY <1>e, <2>1 DEF JoinInv
  <1>3. ASSUME thr_receive, thr_msg_check(Head(net))
        PROVE  JoinInv(f)'
    <2> DEFINE g == Head(net)
    <2>1. rpc = "receive" /\ net # <<>> /\ Join(g)
      BY <1>3 DEF thr_receive
    <2>2. g = net[1] /\ g \in Frames /\ 1 \in 1 .. Len(net)
      BY <2>1, TailFacts DEF NetTypes
    <2>3. g.payload \in Seq(Bytes)
      BY <2>2, FrameFields
    <2>4. PICK m \in sent : Piece(g, m, f)
      BY <1>3, <2>2 DEF NetInv
    <2>5. Message(m)
      BY DEF WriterInv
    <2> HIDE DEF g
    <2>6. Placed(joined) /\ Len(joined) = (frag_index - 1) * f /\ joined \in Seq(Bytes)
      BY <2>1 DEF JoinInv, ReceiverTypes
    <2>7. frag_index = g.num =>
            /\ Placed(joined \o g.payload)
            /\ g.num < g.tot => Len(joined \o g.payload) = g.num * f
      BY <2>3, <2>4, <2>5, <2>6, JoinPlaced
    <2>8. g.tot \in Nat /\ g.num \in Nat /\ g.num <= g.tot
      BY <2>3, <2>4, <2>5, PieceFacts
    <2>9. CASE Completes(g)
      BY <2>7, <2>9 DEF Completes, JoinInv
    <2>10. CASE Extends(g)
      <3>1. /\ frag_index = g.num /\ g.num < g.tot /\ frag_index' = g.num + 1 /\ rpc' = "receive"
            /\ joined' = joined \o g.payload
        BY <2>1, <2>8, <2>10 DEF Extends
      <3>2. Placed(joined') /\ Len(joined') = g.num * f
        BY <2>7, <3>1
      <3>3. (frag_index' - 1) * f = g.num * f
        <4>1. frag_index' - 1 = g.num
          BY <2>8, <3>1
        <4> QED
          BY <4>1
      <3> QED
        BY <3>1, <3>2, <3>3 DEF JoinInv
    <2>11. CASE Discards(g)
      <3>1. rpc' = "receive" /\ frag_index' = 1 /\ joined' = <<>>
        BY <2>1, <2>11 DEF Discards
      <3> QED
        BY <1>e, <3>1 DEF JoinInv
    <2> QED
      BY <2>1, <2>9, <2>10, <2>11, JoinCases
  <1>4. ASSUME thr_receive, ~thr_msg_check(Head(net))
        PROVE  UNCHANGED <<rpc, frag_index, joined, p_msg>>
    BY <1>4 DEF thr_receive
  <1>5. CASE ReceiveError \/ OtherTraffic \/ UNCHANGED vars
    BY <1>1, <1>5 DEF ReceiveError, OtherTraffic, receiverVars, vars
  <1>6. ASSUME NEW s \in Senders,
               thr_init(s) \/ thr_open_chn(s) \/ WriterStart(s) \/ thr_send(s) \/ SendStep(s)
        PROVE  UNCHANGED <<rpc, frag_index, joined, p_msg>>
    BY <1>6 DEF thr_init, thr_open_chn, WriterStart, thr_send, SendStep, SendFragment, SendFails,
                SendDone, receiverVars
  <1> QED
    BY <1>1, <1>2, <1>3, <1>4, <1>5, <1>6 DEF Next

\* The part of the inductive invariant that does not depend on the losses.
PlacesInv ==
    /\ SenderInv /\ NetTypes /\ ReceiverTypes
    /\ \A s, f : Sole(s, f) => FragInv(s, f)

LEMMA PlacesInit == Init => PlacesInv
  <1> SUFFICES ASSUME Init PROVE PlacesInv
    OBVIOUS
  <1>1. NetTypes /\ ReceiverTypes
    <2>1. <<>> \in Seq(Bytes) /\ <<>> \in Seq(Frames)
      OBVIOUS
    <2>2. /\ net = <<>> /\ lostBefore = FALSE /\ rpc = "receive" /\ frag_index = 1
          /\ joined = <<>> /\ p_msg = <<>>
      BY DEF Init
    <2>3. NetTypes
      BY <2>1, <2>2, Zenon DEF NetTypes
    <2>4. joined \in Seq(Bytes) /\ p_msg \in Seq(Bytes)
      BY <2>1, <2>2, Zenon
    <2> QED
      BY <2>2, <2>3, <2>4 DEF ReceiverTypes
  <1>2. ASSUME NEW s, NEW f, Sole(s, f)
        PROVE  FragInv(s, f)
    <2>1. s \in Senders /\ f \in Nat
      BY <1>2, SoleFacts
    <2>2. LoopInv(s, f)
      BY <2>1 DEF Init, LoopInv
    <2>3. Len(net) = 0
      BY DEF Init
    <2>4. NetInv(f)
      BY <2>3 DEF NetInv
    <2>5. JoinInv(f)
      <3>1. joined = <<>> /\ rpc = "receive" /\ frag_index = 1
        BY DEF Init
      <3>2. Len(joined) = 0 /\ (frag_index - 1) * f = 0
        BY <2>1, <3>1
      <3> QED
        BY <3>1, <3>2 DEF JoinInv, Placed
    <2> QED
      BY <2>2, <2>4, <2>5 DEF FragInv
  <1> QED
    BY <1>1, <1>2, SenderInit DEF PlacesInv

LEMMA PlacesKeep ==
    ASSUME PlacesInv, [Next]_vars
    PROVE  PlacesInv'
  <1>1. SenderInv /\ NetTypes /\ ReceiverTypes
    BY DEF PlacesInv
  <1>2. SenderInv' /\ NetTypes' /\ ReceiverTypes'
    BY <1>1, SenderKeeps, TypesKeep
  <1>3. ASSUME NEW s, NEW f, Sole(s, f)
        PROVE  FragInv(s, f)'
    <2>1. LoopInv(s, f) /\ NetInv(f) /\ JoinInv(f)
      BY <1>3 DEF PlacesInv, FragInv
    <2>2. LoopInv(s, f)'
      BY <1>1, <1>3, <2>1, LoopKeeps
    <2>3. NetInv(f)'
      BY <1>1, <1>3, <2>1, NetKeeps
    <2>4. JoinInv(f)'
      BY <1>1, <1>3, <2>1, JoinKeeps, SoleFacts DEF SenderInv
    <2> QED
      BY <2>2, <2>3, <2>4 DEF FragInv
  <1> QED
    BY <1>2, <1>3 DEF PlacesInv, Sole

\* On a channel with one sender, whatever is lost, every byte of a message handed to
\* the handler stands at its own offset: for any buffer size, fragment size and width
\* of the fragment counter, and any packets (thr_send, thr_receive).
THEOREM OffsetsKeptCorrect == Spec => []OffsetsKept
  <1>1. PlacesInv => OffsetsKept
    <2> SUFFICES ASSUME PlacesInv, OneSender, rpc = "handle"
                 PROVE  \A k \in DOMAIN p_msg : p_msg[k].packet # 0 /\ p_msg[k].off % BufferSize = k - 1
      BY DEF OffsetsKept
    <2>1. \E s, f : Sole(s, f)
      BY DEF OneSender, Sole
    <2>2. Placed(p_msg) /\ p_msg \in Seq(Bytes)
      BY <2>1 DEF PlacesInv, FragInv, JoinInv, ReceiverTypes
    <2> QED
      BY <2>2 DEF Placed
  <1> QED
    BY <1>1, PlacesInit, PlacesKeep, PTL DEF Spec

-----------------------------------------------------------------------------
(* Frames that arrive one after the other, with no loss between them.      *)

\* g begins a message, or is the next fragment of the message of h.
Continues(h, g, st, f) ==
    g.num = 1 \/ (g.num = h.num + 1 /\ \E m \in st : Piece(h, m, f) /\ Piece(g, m, f))

\* The frames of the channel behind position p of ns, as seen from the frame h before
\* them: the first of them continues h, unless a frame was lost between the two; when
\* there is none, the sender's next fragment (one of nxt, if any) does.
After(h, ns, p, st, nxt, f) ==
    /\ \A q \in p + 1 .. Len(ns) :
         /\ thr_msg_check(ns[q]) /\ ~ns[q].gap
         /\ \A r \in p + 1 .. q - 1 : ~thr_msg_check(ns[r])
         => Continues(h, ns[q], st, f)
    /\ (\A r \in p + 1 .. Len(ns) : ~thr_msg_check(ns[r])) =>
         \A x \in nxt : x.num = 1 \/ (x.num = h.num + 1 /\ Piece(h, x.msg, f))

Linked(ns, st, nxt, f) ==
    \A p \in 1 .. Len(ns) : thr_msg_check(ns[p]) => After(ns[p], ns, p, st, nxt, f)

\* The fragment that the sender s will send next, if nothing was lost before it.
Upcoming(s) ==
    IF ~lostBefore /\ spc[s] = "send" /\ loop[s].i <= loop[s].tot /\ Chn[s] = RecvChn
    THEN {[num |-> loop[s].i, msg |-> buf[s]]} ELSE {}

LEMMA AfterTail ==
    ASSUME NEW S, NEW ns \in Seq(S), ns # <<>>, NEW h, NEW p \in Nat, NEW st, NEW nxt, NEW f,
           After(h, ns, p + 1, st, nxt, f)
    PROVE  After(h, Tail(ns), p, st, nxt, f)
  <1> DEFINE t == Tail(ns)
  <1>1. /\ Len(t) = Len(ns) - 1 /\ Len(ns) \in Nat \ {0} /\ Len(t) \in Nat
        /\ \A k \in 1 .. Len(t) : k + 1 \in 1 .. Len(ns) /\ t[k] = ns[k + 1]
    BY TailFacts
  <1> HIDE DEF t
  <1>2. ASSUME NEW q \in p + 1 .. Len(t), thr_msg_check(t[q]), ~t[q].gap,
               \A r \in p + 1 .. q - 1 : ~thr_msg_check(t[r])
        PROVE  Continues(h, t[q], st, f)
    <2>1. t[q] = ns[q + 1] /\ q + 1 \in p + 1 + 1 .. Len(ns)
      BY <1>1
    <2>2. ASSUME NEW r \in p + 1 + 1 .. q + 1 - 1
          PROVE  ~thr_msg_check(ns[r])
      <3>1. r - 1 \in p + 1 .. q - 1 /\ r - 1 \in 1 .. Len(t)
        BY <1>1, <2>1
      <3>2. t[r - 1] = ns[r]
        BY <1>1, <3>1
      <3> QED
        BY <1>2, <3>1, <3>2
    <2> QED
      BY <1>2, <2>1, <2>2 DEF After
  <1>3. ASSUME \A r \in p + 1 .. Len(t) : ~thr_msg_check(t[r])
        PROVE  \A x \in nxt : x.num = 1 \/ (x.num = h.num + 1 /\ Piece(h, x.msg, f))
    <2>1. ASSUME NEW r \in p + 1 + 1 .. Len(ns)
          PROVE  ~thr_msg_check(ns[r])
      <3>1. r - 1 \in p + 1 .. Len(t) /\ r - 1 \in 1 .. Len(t)
        BY <1>1
      <3>2. t[r - 1] = ns[r]
        BY <1>1, <3>1
      <3> QED
        BY <1>3, <3>1, <3>2
    <2> QED
      BY <2>1 DEF After
  <1>4. After(h, t, p, st, nxt, f)
    BY <1>2, <1>3 DEF After
  <1> QED
    BY <1>4 DEF t

\* A frame that the receiver does not take changes nothing.
LEMMA AfterSkip ==
    ASSUME NEW S, NEW ns \in Seq(S), ns # <<>>, NEW h, NEW st, NEW nxt, NEW f,
           After(h, ns, 0, st, nxt, f), ~thr_msg_check(ns[1])
    PROVE  After(h, Tail(ns), 0, st, nxt, f)
  <1>1. After(h, ns, 0 + 1, st, nxt, f)
    <2>1. ASSUME NEW q \in 0 + 1 + 1 .. Len(ns), thr_msg_check(ns[q]), ~ns[q].gap,
                 \A r \in 0 + 1 + 1 .. q - 1 : ~thr_msg_check(ns[r])
          PROVE  Continues(h, ns[q], st, f)
      <3>1. \A r \in 0 + 1 .. q - 1 : r = 1 \/ r \in 0 + 1 + 1 .. q - 1
        OBVIOUS
      <3>2. \A r \in 0 + 1 .. q - 1 : ~thr_msg_check(ns[r])
        BY <2>1, <3>1
      <3>3. q \in 0 + 1 .. Len(ns)
        OBVIOUS
      <3> QED
        BY <2>1, <3>2, <3>3 DEF After
    <2>2. ASSUME \A r \in 0 + 1 + 1 .. Len(ns) : ~thr_msg_check(ns[r])
          PROVE  \A r \in 0 + 1 .. Len(ns) : ~thr_msg_check(ns[r])
      <3>1. \A r \in 0 + 1 .. Len(ns) : r = 1 \/ r \in 0 + 1 + 1 .. Len(ns)
        OBVIOUS
      <3> QED
        BY <2>2, <3>1
    <2> QED
      BY <2>1, <2>2 DEF After
  <1> QED
    BY <1>1, AfterTail

\* The first frame of the channel in ns continues h.
LEMMA AfterHead ==
    ASSUME NEW S, NEW ns \in Seq(S), ns # <<>>, NEW h, NEW st, NEW nxt, NEW f,
           After(h, ns, 0, st, nxt, f), thr_msg_check(ns[1]), ~ns[1].gap
    PROVE  Continues(h, ns[1], st, f)
  <1>1. 1 \in 0 + 1 .. Len(ns) /\ \A r \in 0 + 1 .. 1 - 1 : FALSE
    OBVIOUS
  <1> QED
    BY <1>1 DEF After

\* g is a frame that the receiver does not take, or the sender's next fragment; nxt2
\* is what comes after it.
Fits(g, st, nxt, nxt2, f) ==
    \/ ~thr_msg_check(g) /\ nxt2 = nxt
    \/ /\ thr_msg_check(g)
       /\ g.gap \/ \E x \in nxt : x.num = g.num /\ x.msg \in st /\ Piece(g, x.msg, f)
       /\ \A x \in nxt2 : x.num = 1 \/ (x.num = g.num + 1 /\ Piece(g, x.msg, f))

\* Such a frame is added at the end.
LEMMA AfterAppend ==
    ASSUME NEW S, NEW ns \in Seq(S), NEW g \in S, NEW h, NEW p \in Nat, p <= Len(ns),
           NEW st, NEW nxt, NEW nxt2, NEW f,
           After(h, ns, p, st, nxt, f), Fits(g, st, nxt, nxt2, f)
    PROVE  After(h, Append(ns, g), p, st, nxt2, f)
  <1> DEFINE a == Append(ns, g)
  <1>1. /\ Len(a) = Len(ns) + 1 /\ Len(ns) \in Nat /\ a[Len(ns) + 1] = g
        /\ \A k \in 1 .. Len(ns) : a[k] = ns[k]
    BY AppendFacts
  <1> HIDE DEF a
  <1>2. \A k \in p + 1 .. Len(ns) : a[k] = ns[k]
    BY <1>1
  <1>3. ASSUME NEW q \in p + 1 .. Len(a), thr_msg_check(a[q]), ~a[q].gap,
               \A r \in p + 1 .. q - 1 : ~thr_msg_check(a[r])
        PROVE  Continues(h, a[q], st, f)
    <2>1. CASE q <= Len(ns)
      <3>1. q \in p + 1 .. Len(ns) /\ a[q] = ns[q] /\ \A r \in p + 1 .. q - 1 : a[r] = ns[r]
        BY <1>1, <1>2, <2>1
      <3>2. \A r \in p + 1 .. q - 1 : ~thr_msg_check(ns[r])
        BY <1>3, <3>1
      <3> QED
        BY <1>3, <3>1, <3>2 DEF After
    <2>2. CASE q > Len(ns)
      <3>1. q = Len(ns) + 1 /\ a[q] = g
        BY <1>1, <2>2
      <3>2. \A r \in p + 1 .. Len(ns) : ~thr_msg_check(ns[r])
        <4>1. \A r \in p + 1 .. Len(ns) : r \in p + 1 .. q - 1
          BY <1>1, <3>1
        <4> QED
          BY <1>2, <1>3, <4>1
      <3>3. \A x \in nxt : x.num = 1 \/ (x.num = h.num + 1 /\ Piece(h, x.msg, f))
        BY <3>2 DEF After
      <3>4. PICK x \in nxt : x.num = g.num /\ x.msg \in st /\ Piece(g, x.msg, f)
        BY <1>3, <3>1 DEF Fits
      <3> QED
        BY <3>1, <3>3, <3>4 DEF Continues
    <2> QED
      BY <1>1, <2>1, <2>2
  <1>4. ASSUME \A r \in p + 1 .. Len(a) : ~thr_msg_check(a[r])
        PROVE  \A x \in nxt2 : x.num = 1 \/ (x.num = h.num + 1 /\ Piece(h, x.msg, f))
    <2>1. Len(ns) + 1 \in p + 1 .. Len(a) /\ \A r \in p + 1 .. Len(ns) : r \in p + 1 .. Len(a)
      BY <1>1
    <2>2. ~thr_msg_check(g) /\ nxt2 = nxt
      BY <1>1, <1>4, <2>1 DEF Fits
    <2>3. \A r \in p + 1 .. Len(ns) : ~thr_msg_check(ns[r])
      BY <1>2, <1>4, <2>1
    <2> QED
      BY <2>2, <2>3 DEF After
  <1>5. After(h, a, p, st, nxt2, f)
    BY <1>3, <1>4 DEF After
  <1> QED
    BY <1>5 DEF a

\* The sender begins another message, or has nothing to send.
LEMMA AfterSender ==
    ASSUME NEW ns, NEW h, NEW p, NEW st, NEW nxt, NEW st2, NEW nxt2, NEW f,
           After(h, ns, p, st, nxt, f), st \subseteq st2, \A x \in nxt2 : x.num = 1 \/ x \in nxt
    PROVE  After(h, ns, p, st2, nxt2, f)
  <1>1. \A g : Continues(h, g, st, f) => Continues(h, g, st2, f)
    BY DEF Continues
  <1> QED
    BY <1>1 DEF After

LEMMA LinkedTail ==
    ASSUME NEW S, NEW ns \in Seq(S), ns # <<>>, NEW st, NEW nxt, NEW f, Linked(ns, st, nxt, f)
    PROVE  /\ Linked(Tail(ns), st, nxt, f)
           /\ thr_msg_check(ns[1]) => After(ns[1], Tail(ns), 0, st, nxt, f)
  <1> DEFINE t == Tail(ns)
  <1>1. /\ Len(ns) \in Nat \ {0} /\ Len(t) \in Nat
        /\ \A k \in 1 .. Len(t) : k + 1 \in 1 .. Len(ns) /\ t[k] = ns[k + 1]
    BY TailFacts
  <1>2. ASSUME NEW p \in 1 .. Len(t), thr_msg_check(t[p])
        PROVE  After(t[p], t, p, st, nxt, f)
    <2>1. t[p] = ns[p + 1] /\ p + 1 \in 1 .. Len(ns) /\ p \in Nat
      BY <1>1
    <2>2. After(t[p], ns, p + 1, st, nxt, f)
      BY <1>2, <2>1 DEF Linked
    <2> QED
      BY <2>1, <2>2, AfterTail
  <1>3. ASSUME thr_msg_check(ns[1])
        PROVE  After(ns[1], t, 0, st, nxt, f)
    <2>1. After(ns[1], ns, 0 + 1, st, nxt, f)
      BY <1>1, <1>3 DEF Linked
    <2> QED
      BY <2>1, AfterTail
  <1> QED
    BY <1>2, <1>3 DEF Linked

LEMMA LinkedAppend ==
    ASSUME NEW S, NEW ns \in Seq(S), NEW g \in S, NEW st, NEW nxt, NEW nxt2, NEW f,
           Linked(ns, st, nxt, f), Fits(g, st, nxt, nxt2, f)
    PROVE  Linked(Append(ns, g), st, nxt2, f)
  <1> DEFINE a == Append(ns, g)
  <1>1. /\ Len(a) = Len(ns) + 1 /\ Len(ns) \in Nat /\ a[Len(ns) + 1] = g
        /\ \A k \in 1 .. Len(ns) : a[k] = ns[k]
    BY AppendFacts
  <1>2. ASSUME NEW p \in 1 .. Len(a), thr_msg_check(a[p])
        PROVE  After(a[p], a, p, st, nxt2, f)
    <2>1. CASE p <= Len(ns)
      <3>1. p \in 1 .. Len(ns) /\ a[p] = ns[p] /\ p \in Nat
        BY <1>1, <2>1
      <3>2. After(a[p], ns, p, st, nxt, f)
        BY <1>2, <3>1 DEF Linked
      <3> QED
        BY <2>1, <3>1, <3>2, AfterAppend
    <2>2. CASE p > Len(ns)
      <3>1. p = Len(ns) + 1 /\ a[p] = g /\ thr_msg_check(g)
        BY <1>1, <1>2, <2>2
      <3>2. \A q \in p + 1 .. Len(a) : FALSE
        BY <1>1, <3>1
      <3> HIDE DEF a
      <3> QED
        BY <3>1, <3>2 DEF After, Fits
    <2> QED
      BY <1>1, <2>1, <2>2
  <1> QED
    BY <1>2 DEF Linked

LEMMA LinkedSender ==
    ASSUME NEW ns, NEW st, NEW nxt, NEW st2, NEW nxt2, NEW f,
           Linked(ns, st, nxt, f), st \subseteq st2, \A x \in nxt2 : x.num = 1 \/ x \in nxt
    PROVE  Linked(ns, st2, nxt2, f)
  BY AfterSender DEF Linked

\* Two messages that share a byte are the same.
LEMMA SameMessage ==
    ASSUME NEW m, NEW n, Message(m), Message(n),
           NEW k \in 1 .. Len(m), k \in 1 .. Len(n), m[k] = n[k]
    PROVE  m = n
  <1>1. m \in Seq(Bytes) /\ n \in Seq(Bytes) /\ Len(m) > 0 /\ Len(n) > 0
    BY DEF Message, Follow
  <1>2. m[1] \in Bytes /\ n[1] \in Bytes /\ Len(m) \in Nat /\ Len(n) \in Nat
    BY <1>1
  <1>3. m[1].off \in Nat /\ n[1].off \in Nat
    BY <1>2 DEF Bytes
  <1>4. /\ m[k] = Byte(m[1].from, m[1].packet, m[1].len, m[1].off + k - 1)
        /\ n[k] = Byte(n[1].from, n[1].packet, n[1].len, n[1].off + k - 1)
    BY DEF Message, Follow
  <1>5. /\ m[1].from = n[1].from /\ m[1].packet = n[1].packet /\ m[1].len = n[1].len
        /\ m[1].off + k - 1 = n[1].off + k - 1
    <2>1. Byte(m[1].from, m[1].packet, m[1].len, m[1].off + k - 1)
          = Byte(n[1].from, n[1].packet, n[1].len, n[1].off + k - 1)
      BY <1>4
    <2> QED
      BY <2>1 DEF Byte
  <1>6. m[1].off = n[1].off
    BY <1>2, <1>3, <1>5
  <1>7. Len(m) = Len(n)
    BY <1>5, <1>6 DEF Message
  <1>8. \A j \in 1 .. Len(m) : m[j] = n[j]
    <2> TAKE j \in 1 .. Len(m)
    <2>1. /\ m[j] = Byte(m[1].from, m[1].packet, m[1].len, m[1].off + j - 1)
          /\ n[j] = Byte(n[1].from, n[1].packet, n[1].len, n[1].off + j - 1)
      BY <1>7 DEF Message, Follow
    <2> QED
      BY <1>5, <1>6, <2>1
  <1> QED
    BY <1>1, <1>7, <1>8

\* A message is the one that its bytes name.
LEMMA MessageNamed ==
    ASSUME NEW m, Message(m)
    PROVE  m = MessageOf(Last(m))
  <1>b. BufferSize \in Nat \ {0}
    BY ThrottleAssumption
  <1> DEFINE k == Len(m)
  <1>1. m \in Seq(Bytes) /\ k > 0 /\ k \in Nat /\ Placed(m) /\ k <= BufferSize
    BY <1>b, MessagePlaced
  <1>2. m[1] \in Bytes
    BY <1>1
  <1>3. m[1].off \in Nat /\ m[1].len \in Nat
    BY <1>2 DEF Bytes
  <1>4. /\ \A j \in 1 .. k : m[j] = Byte(m[1].from, m[1].packet, m[1].len, m[1].off + j - 1)
        /\ k = Least(BufferSize, m[1].len - m[1].off)
    BY DEF Message, Follow
  <1> DEFINE b == m[k]
  <1>5. Last(m) = b
    BY DEF Last
  <1> HIDE DEF k
  <1>6. b.off % BufferSize = k - 1
    BY <1>1 DEF Placed, k
  <1>7. b = Byte(m[1].from, m[1].packet, m[1].len, m[1].off + k - 1)
    BY <1>1, <1>4
  <1>8. b.from = m[1].from /\ b.packet = m[1].packet /\ b.len = m[1].len /\ b.off = m[1].off + k - 1
    BY <1>7 DEF Byte
  <1> HIDE DEF b
  <1>9. b.off - (b.off % BufferSize) = m[1].off
    BY <1>1, <1>3, <1>6, <1>8
  <1>10. MessageOf(b) = [j \in 1 .. k |-> Byte(m[1].from, m[1].packet, m[1].len, m[1].off + j - 1)]
    BY <1>4, <1>8, <1>9 DEF MessageOf
  <1>11. m = [j \in 1 .. k |-> m[j]]
    BY <1>1 DEF k
  <1>12. [j \in 1 .. k |-> m[j]] = [j \in 1 .. k |-> Byte(m[1].from, m[1].packet, m[1].len, m[1].off + j - 1)]
    BY <1>4
  <1> QED
    BY <1>5, <1>10, <1>11, <1>12

\* What a step does to the frames under way and to the sender's next fragment.
LEMMA SenderMoves ==
    ASSUME SenderInv, NetTypes, NEW s, NEW f, Sole(s, f), LoopInv(s, f), NEW u \in Senders,
           thr_init(u) \/ thr_open_chn(u) \/ WriterStart(u) \/ thr_send(u) \/ SendStep(u)
    PROVE  /\ sent \subseteq sent'
           /\ \/ net' = net /\ \A x \in Upcoming(s)' : x.num = 1 \/ x \in Upcoming(s)
              \/ /\ Frame(u) \in Frames /\ net' = Append(net, Frame(u)) /\ sent' = sent
                 /\ Fits(Frame(u), sent, Upcoming(s), Upcoming(s)', f)
  <1>0. s \in Senders /\ f \in Nat \ {0} /\ \A v \in Senders : Chn[v] = RecvChn => v = s
    BY SoleFacts
  <1>1. CASE ~SendFragment(u)
    <2>1. net' = net /\ lostBefore' = lostBefore /\ sent \subseteq sent'
      BY <1>1 DEF thr_init, thr_open_chn, WriterStart, thr_send, SendStep, SendFails, SendDone
    <2>2. CASE loop'[s] = loop[s] /\ spc'[s] = spc[s] /\ buf'[s] = buf[s]
      <3>1. Upcoming(s)' = Upcoming(s)
        BY <2>1, <2>2 DEF Upcoming
      <3> QED
        BY <2>1, <3>1
    <2>3. CASE spc'[s] # "send"
      <3>1. Upcoming(s)' = {}
        BY <2>3 DEF Upcoming
      <3> QED
        BY <2>1, <3>1
    <2>4. CASE loop'[s].i = 1
      <3>1. \A x \in Upcoming(s)' : x.num = 1
        BY <2>4 DEF Upcoming
      <3> QED
        BY <2>1, <3>1
    <2>5. CASE u # s
      <3>1. loop'[s] = loop[s] /\ spc'[s] = spc[s] /\ buf'[s] = buf[s]
        BY <1>0, <1>1, <2>5 DEF thr_init, thr_open_chn, WriterStart, thr_send, SendStep, SendFails,
                                SendDone, WriterNext, SenderInv, SenderTypes
      <3> QED
        BY <2>2, <3>1
    <2>6. CASE u = s /\ (thr_init(s) \/ thr_open_chn(s))
      BY <2>2, <2>6 DEF thr_init, thr_open_chn
    <2>7. CASE u = s /\ WriterStart(s)
      BY <1>0, <2>3, <2>7 DEF WriterStart, SenderInv, SenderTypes
    <2>8. CASE u = s /\ WriterNext(s) /\ spc[s] # "idle"
      BY <1>0, <2>3, <2>8, WriterNextKeeps
    <2>9. CASE u = s /\ thr_send(s) /\ ~WriterNext(s)
      <3>1. loop' = [loop EXCEPT ![s] = [i |-> 1, tot |-> Fragments(Len(buf[s]), chn[s]),
                                         length |-> Len(buf[s]), data |-> 0]]
        BY <2>9 DEF thr_send
      <3>2. loop'[s].i = 1
        BY <1>0, <3>1 DEF SenderInv, SenderTypes
      <3> QED
        BY <2>4, <3>2
    <2>10. CASE u = s /\ (thr_send(s) \/ SendFails(s) \/ SendDone(s))
      <3>1. spc[s] # "idle" /\ (~thr_send(s) => WriterNext(s))
        BY <2>10 DEF thr_send, SendFails, SendDone
      <3> QED
        BY <2>8, <2>9, <2>10, <3>1
    <2> QED
      BY <1>1, <2>5, <2>6, <2>7, <2>10 DEF SendStep
  <1>2. CASE SendFragment(u) /\ u # s
    <2>1. Chn[u] # RecvChn /\ lostBefore \in BOOLEAN
      BY <1>0, <1>2 DEF NetTypes
    <2>2. lostBefore' = lostBefore /\ (net' = net \/ net' = Append(net, Frame(u)))
      BY <1>2, <2>1 DEF SendFragment, eth_send
    <2>3. spc' = spc /\ buf' = buf /\ sent' = sent /\ loop'[s] = loop[s]
      BY <1>0, <1>2 DEF SendFragment, Advance, SenderInv, SenderTypes
    <2>4. Upcoming(s)' = Upcoming(s)
      BY <2>2, <2>3 DEF Upcoming
    <2>5. ~thr_msg_check(Frame(u))
      BY <1>2, ForeignFrame
    <2>6. Frame(u) \in Frames
      BY <1>2, FrameType DEF SendFragment
    <2> QED
      BY <2>2, <2>3, <2>4, <2>5, <2>6 DEF Fits
  <1>3. CASE SendFragment(s) /\ u = s
    <2>1. /\ spc[s] = "send" /\ loop[s].i <= loop[s].tot /\ UNCHANGED <<spc, buf, sent>> /\ eth_send(s)
      BY <1>3 DEF SendFragment
    <2>2. loop'[s].i = loop[s].i + 1
      BY <1>3, LoopAdvances
    <2>3. Piece(Frame(s), buf[s], f) /\ buf[s] \in sent
      BY <2>1, FramePiece DEF LoopInv
    <2>4. Frame(s) \in Frames
      BY <1>0, <2>1, FrameType
    <2>5. Message(buf[s]) /\ Frame(s).payload \in Seq(Bytes)
      BY <1>0, <2>1, <2>4, FrameFields DEF SenderInv, WriterInv
    <2>6. Frame(s).payload # <<>>
      <3>1. Len(Frame(s).payload) # 0
        BY <1>0, <2>3, <2>5, PieceFacts
      <3> QED
        BY <3>1
    <2>7. /\ Frame(s).num = loop[s].i /\ Frame(s).gap = (lostBefore /\ Chn[s] = RecvChn)
          /\ Frame(s).proto = "throttle" /\ Frame(s).chn = Chn[s]
      BY DEF Frame
    <2>8. CASE Chn[s] # RecvChn
      <3>1. Upcoming(s) = {} /\ Upcoming(s)' = {} /\ ~thr_msg_check(Frame(s))
        BY <2>7, <2>8 DEF Upcoming, thr_msg_check
      <3> QED
        BY <1>3, <2>1, <2>4, <3>1 DEF Fits, eth_send
    <2>9. CASE Chn[s] = RecvChn /\ net' = net /\ lostBefore'
      BY <2>1, <2>9 DEF Upcoming
    <2>10. CASE Chn[s] = RecvChn /\ net' = Append(net, Frame(s))
      <3>1. thr_msg_check(Frame(s))
        BY <2>6, <2>7, <2>10 DEF thr_msg_check
      <3>2. \A x \in Upcoming(s)' : x.num = loop[s].i + 1 /\ x.msg = buf[s]
        BY <2>1, <2>2 DEF Upcoming
      <3>3. ~lostBefore => [num |-> loop[s].i, msg |-> buf[s]] \in Upcoming(s)
        BY <2>1, <2>10 DEF Upcoming
      <3>4. ~Frame(s).gap => \E x \in Upcoming(s) : x.num = Frame(s).num /\ x.msg \in sent /\ Piece(Frame(s), x.msg, f)
        <4> SUFFICES ASSUME ~Frame(s).gap
                     PROVE  \E x \in Upcoming(s) : x.num = Frame(s).num /\ x.msg \in sent /\ Piece(Frame(s), x.msg, f)
          OBVIOUS
        <4>1. [num |-> loop[s].i, msg |-> buf[s]] \in Upcoming(s)
          BY <2>7, <2>10, <3>3
        <4> WITNESS [num |-> loop[s].i, msg |-> buf[s]] \in Upcoming(s)
        <4> QED
          BY <2>3, <2>7
      <3>5. Fits(Frame(s), sent, Upcoming(s), Upcoming(s)', f)
        BY <2>3, <2>7, <3>1, <3>2, <3>4 DEF Fits
      <3> QED
        BY <1>3, <2>1, <2>4, <2>10, <3>5
    <2> QED
      BY <1>3, <2>1, <2>8, <2>9, <2>10 DEF eth_send
  <1> QED
    BY <1>1, <1>2, <1>3

-----------------------------------------------------------------------------
(* What the receiver joins.                                                *)

\* m begins with j.
Begins(j, m) == \A k \in 1 .. Len(j) : j[k] = m[k]

\* h is the last frame of the channel that arrived.  Counting since the last loss tells
\* whether the fragments joined are all of h's message, and two whole messages in a row
\* that the receiver is in step.
Recent(h, s, f) ==
    /\ h \in Frames /\ \E m \in sent : Piece(h, m, f)
    /\ After(h, net, 0, sent, Upcoming(s), f)
    /\ prevLast = (h.num = h.tot)
    /\ rpc = "receive" /\ frag_index >= 2 =>
         /\ h.num = frag_index - 1
         /\ consecutive >= frag_index - 1 => \E m \in sent : Piece(h, m, f) /\ Begins(joined, m)
    /\ streak >= 1 /\ ~prevLast =>
         rpc = "receive" /\ frag_index = h.num + 1 /\ consecutive >= h.num

CountTypes == consecutive \in Nat /\ streak \in Nat /\ prevLast \in BOOLEAN /\ handled \in BOOLEAN

StepInv ==
    /\ streak >= 1 => consecutive >= 1
    /\ prevLast /\ rpc = "receive" => frag_index = 1
    /\ rpc = "handle" => prevLast
    /\ rpc = "handle" /\ consecutive >= frag_index - 1 => p_msg \in sent
    /\ streak >= 2 /\ prevLast => handled \/ (rpc = "handle" /\ p_msg \in sent)

LinkInv(s, f) ==
    /\ Linked(net, sent, Upcoming(s), f)
    /\ consecutive >= 1 => \E h : Recent(h, s, f)

\* The fragments joined and the one that arrives are of one message.
LEMMA JoinBegins ==
    ASSUME NEW f \in Nat \ {0}, NEW m, Message(m), NEW g, Piece(g, m, f), g.payload \in Seq(Bytes),
           NEW j \in Seq(Bytes), Begins(j, m), Len(j) = (g.num - 1) * f
    PROVE  /\ Begins(j \o g.payload, m)
           /\ g.num = g.tot => j \o g.payload = m
  <1> DEFINE at == (g.num - 1) * f
  <1>1. /\ at \in Nat /\ Len(g.payload) \in Nat \ {0}
        /\ g.num = g.tot => at + Len(g.payload) = Len(m)
        /\ \A k \in 1 .. Len(g.payload) : at + k \in 1 .. Len(m) /\ g.payload[k] = m[at + k]
    BY PieceFacts
  <1>3. Len(j) = at
    OBVIOUS
  <1> HIDE DEF at
  <1>4. /\ j \o g.payload \in Seq(Bytes) /\ Len(j \o g.payload) = at + Len(g.payload)
        /\ \A k \in 1 .. at : (j \o g.payload)[k] = j[k]
        /\ \A k \in 1 .. Len(j \o g.payload) :
             k > at => (j \o g.payload)[k] = g.payload[k - at]
    <2>1. /\ j \o g.payload \in Seq(Bytes) /\ Len(j \o g.payload) = Len(j) + Len(g.payload)
          /\ \A k \in 1 .. Len(j) : (j \o g.payload)[k] = j[k]
          /\ \A k \in 1 .. Len(j \o g.payload) :
               k > Len(j) => (j \o g.payload)[k] = g.payload[k - Len(j)]
      BY Concat, Zenon
    <2> QED
      BY <1>3, <2>1, Zenon
  <1>5. ASSUME NEW k \in 1 .. Len(j \o g.payload)
        PROVE  (j \o g.payload)[k] = m[k]
    <2>1. CASE k <= at
      <3>1. k \in 1 .. at
        BY <1>1, <1>4, <2>1
      <3> QED
        BY <1>3, <1>4, <3>1 DEF Begins
    <2>2. CASE k > at
      <3>1. k - at \in 1 .. Len(g.payload) /\ at + (k - at) = k
        BY <1>1, <1>4, <2>2
      <3> QED
        BY <1>1, <1>4, <2>2, <3>1
    <2> QED
      BY <1>1, <2>1, <2>2
  <1>6. g.num = g.tot => j \o g.payload = m
    <2> SUFFICES ASSUME g.num = g.tot PROVE j \o g.payload = m
      OBVIOUS
    <2> DEFINE x == j \o g.payload
    <2>1. x \in Seq(Bytes) /\ Len(x) = Len(m) /\ m \in Seq(Bytes) /\ \A k \in 1 .. Len(x) : x[k] = m[k]
      BY <1>1, <1>4, <1>5, MessagePlaced
    <2> HIDE DEF x
    <2>2. x = m
      BY <2>1
    <2> QED
      BY <2>2 DEF x
  <1> QED
    BY <1>5, <1>6 DEF Begins

\* A fragment is a fragment of one message only.
LEMMA PieceOnce ==
    ASSUME NEW f \in Nat \ {0}, NEW g, g.payload \in Seq(Bytes),
           NEW m, Message(m), Piece(g, m, f), NEW n, Message(n), Piece(g, n, f)
    PROVE  m = n
  <1> DEFINE at == (g.num - 1) * f
  <1>1. /\ Len(g.payload) \in Nat \ {0}
        /\ \A k \in 1 .. Len(g.payload) : at + k \in 1 .. Len(m) /\ g.payload[k] = m[at + k]
    BY PieceFacts
  <1>2. \A k \in 1 .. Len(g.payload) : at + k \in 1 .. Len(n) /\ g.payload[k] = n[at + k]
    BY PieceFacts
  <1>3. 1 \in 1 .. Len(g.payload)
    BY <1>1
  <1> HIDE DEF at
  <1>4. at + 1 \in 1 .. Len(m) /\ at + 1 \in 1 .. Len(n) /\ m[at + 1] = n[at + 1]
    BY <1>1, <1>2, <1>3
  <1> QED
    BY <1>4, SameMessage

\* The frame g goes on with what was received whole before.
Unbroken(g) == streak >= 1 /\ ~g.gap /\ (g.num = 1 => prevLast)

LEMMA Observed ==
    ASSUME CountTypes, NEW g \in Frames, Observe(g)
    PROVE  /\ consecutive' = Least(BufferSize, IF g.gap THEN 1 ELSE consecutive + 1)
           /\ consecutive' \in Nat /\ consecutive' >= 1
           /\ prevLast' = (g.num = g.tot) /\ prevLast' \in BOOLEAN /\ handled' = FALSE
           /\ streak' \in Nat
           /\ streak' >= 1 /\ g.num # g.tot => Unbroken(g)
           /\ streak' >= 2 => Unbroken(g)
  <1>1. g.gap \in BOOLEAN /\ BufferSize \in Nat \ {0} /\ g.num \in Nat /\ g.tot \in Nat
    BY FrameFields, ThrottleAssumption
  <1> DEFINE run == Least(BufferSize, IF g.gap THEN 1 ELSE consecutive + 1)
  <1> DEFINE broken == g.gap \/ (g.num = 1 /\ ~prevLast)
  <1> DEFINE before == IF broken THEN 0 ELSE streak
  <1>2. /\ consecutive' = run /\ prevLast' = (g.num = g.tot) /\ handled' = FALSE
        /\ streak' = IF g.num = g.tot /\ run >= g.tot THEN Least(2, before + 1) ELSE before
    BY DEF Observe
  <1>3. run \in Nat /\ run >= 1
    BY <1>1 DEF Least, CountTypes
  <1>4. before \in Nat /\ (before >= 1 => Unbroken(g))
    BY DEF CountTypes, Unbroken
  <1> HIDE DEF before, run
  <1>5. /\ streak' \in Nat
        /\ streak' >= 1 /\ g.num # g.tot => before >= 1
        /\ streak' >= 2 => before >= 1
    BY <1>2, <1>4 DEF Least
  <1> QED
    BY <1>2, <1>3, <1>4, <1>5 DEF run

\* A fragment that the receiver expects, in a run of frames that reaches back to the
\* first fragment.
LEMMA JoinsMessage ==
    ASSUME WriterInv, NetTypes, ReceiverTypes, CountTypes, NEW s, NEW f, Sole(s, f),
           NetInv(f), JoinInv(f), LinkInv(s, f), rpc = "receive", net # <<>>, thr_msg_check(net[1]),
           frag_index = net[1].num,
           Least(BufferSize, IF net[1].gap THEN 1 ELSE consecutive + 1) >= net[1].num
    PROVE  \E n \in sent : /\ Piece(net[1], n, f) /\ Begins(joined \o net[1].payload, n)
                           /\ net[1].num = net[1].tot => joined \o net[1].payload = n
  <1> DEFINE g == net[1]
  <1>1. f \in Nat \ {0} /\ BufferSize \in Nat \ {0}
    BY SoleFacts
  <1>2. g \in Frames /\ 1 \in 1 .. Len(net)
    BY TailFacts DEF NetTypes
  <1>3. g.payload \in Seq(Bytes) /\ g.gap \in BOOLEAN /\ g.num \in Nat
    BY <1>2, FrameFields
  <1>4. PICK m \in sent : Piece(g, m, f)
    BY <1>2 DEF NetInv
  <1>5. joined \in Seq(Bytes) /\ Len(joined) = (g.num - 1) * f
    BY DEF JoinInv, ReceiverTypes
  <1>6. ASSUME NEW n \in sent, Piece(g, n, f), Begins(joined, n)
        PROVE  \E n2 \in sent : /\ Piece(g, n2, f) /\ Begins(joined \o g.payload, n2)
                                /\ g.num = g.tot => joined \o g.payload = n2
    <2>1. Message(n)
      BY DEF WriterInv
    <2>2. Begins(joined \o g.payload, n) /\ (g.num = g.tot => joined \o g.payload = n)
      BY <1>1, <1>3, <1>5, <1>6, <2>1, JoinBegins
    <2> QED
      BY <1>6, <2>2
  <1>7. g.num >= 1
    BY <1>3 DEF ReceiverTypes
  <1>8. CASE g.num = 1
    <2>1. Len(joined) = 0
      BY <1>1, <1>5, <1>8
    <2>2. Begins(joined, m)
      BY <2>1 DEF Begins
    <2> QED
      BY <1>4, <1>6, <2>2
  <1>9. CASE g.num >= 2
    <2>1. ~g.gap /\ consecutive >= g.num - 1 /\ consecutive >= 1
      BY <1>1, <1>3, <1>9 DEF Least, CountTypes
    <2>2. PICK h : Recent(h, s, f)
      BY <2>1 DEF LinkInv
    <2>3. PICK n0 \in sent : Piece(h, n0, f) /\ Begins(joined, n0)
      BY <1>9, <2>1, <2>2 DEF Recent
    <2>4. Continues(h, g, sent, f)
      <3>1. After(h, net, 0, sent, Upcoming(s), f)
        BY <2>2 DEF Recent
      <3> QED
        BY <2>1, <3>1, AfterHead DEF NetTypes
    <2>5. PICK n \in sent : Piece(h, n, f) /\ Piece(g, n, f)
      BY <1>3, <1>9, <2>4 DEF Continues
    <2>6. h.payload \in Seq(Bytes)
      BY <2>2, FrameFields DEF Recent
    <2>7. Message(n) /\ Message(n0)
      BY DEF WriterInv
    <2>8. n = n0
      BY <1>1, <2>3, <2>5, <2>6, <2>7, PieceOnce
    <2> QED
      BY <1>6, <2>3, <2>5, <2>8
  <1> QED
    BY <1>3, <1>7, <1>8, <1>9

\* After a whole message the receiver expects exactly the frames that come.
LEMMA InStep ==
    ASSUME WriterInv, NetTypes, ReceiverTypes, CountTypes, NEW s, NEW f, Sole(s, f),
           NetInv(f), LinkInv(s, f), StepInv, rpc = "receive", net # <<>>, thr_msg_check(net[1]),
           Unbroken(net[1])
    PROVE  /\ frag_index = net[1].num
           /\ Least(BufferSize, IF net[1].gap THEN 1 ELSE consecutive + 1) >= net[1].num
  <1> DEFINE g == net[1]
  <1>1. f \in Nat \ {0} /\ BufferSize \in Nat \ {0}
    BY SoleFacts
  <1>2. g \in Frames /\ 1 \in 1 .. Len(net)
    BY TailFacts DEF NetTypes
  <1>3. g.payload \in Seq(Bytes) /\ ~g.gap /\ streak >= 1
    BY <1>2, FrameFields DEF Unbroken
  <1>4. PICK m \in sent : Piece(g, m, f)
    BY <1>2 DEF NetInv
  <1>5. g.tot \in Nat \ {0} /\ g.num \in 1 .. g.tot /\ g.tot <= BufferSize
    BY <1>1, <1>3, <1>4, PieceFacts DEF WriterInv
  <1>6. consecutive >= 1 /\ consecutive \in Nat
    BY <1>3 DEF StepInv, CountTypes
  <1>7. PICK h : Recent(h, s, f)
    BY <1>6 DEF LinkInv
  <1>8. Continues(h, g, sent, f)
    <2>1. After(h, net, 0, sent, Upcoming(s), f)
      BY <1>7 DEF Recent
    <2> QED
      BY <1>3, <2>1, AfterHead DEF NetTypes
  <1>9. /\ prevLast = (h.num = h.tot) /\ h.num \in Nat
        /\ ~prevLast => frag_index = h.num + 1 /\ consecutive >= h.num
    <2>1. h \in Frames
      BY <1>7 DEF Recent
    <2> QED
      BY <1>3, <1>7, <2>1, FrameFields DEF Recent
  <1>10. CASE prevLast
    <2>1. frag_index = 1 /\ h.num = h.tot
      BY <1>9, <1>10 DEF StepInv
    <2>2. g.num = 1
      <3> SUFFICES ASSUME g.num # 1 PROVE FALSE
        OBVIOUS
      <3>1. PICK n \in sent : Piece(h, n, f) /\ Piece(g, n, f) /\ g.num = h.num + 1
        BY <1>8 DEF Continues
      <3>2. h.tot = g.tot
        BY <3>1 DEF Piece
      <3> QED
        BY <1>5, <1>9, <2>1, <3>1, <3>2
    <2> QED
      BY <1>1, <1>3, <1>6, <2>1, <2>2 DEF Least
  <1>11. CASE ~prevLast
    <2>1. g.num # 1
      BY <1>11 DEF Unbroken
    <2>2. g.num = h.num + 1
      BY <1>8, <2>1 DEF Continues
    <2> QED
      BY <1>1, <1>3, <1>5, <1>6, <1>9, <1>11, <2>2 DEF Least
  <1> QED
    BY <1>10, <1>11

LEMMA ReceiveJoins ==
    ASSUME WriterInv, NetTypes, ReceiverTypes, CountTypes, NEW s, NEW f, Sole(s, f),
           NetInv(f), JoinInv(f), LinkInv(s, f), StepInv, thr_receive, thr_msg_check(Head(net))
    PROVE  LinkInv(s, f)' /\ StepInv'
  <1>0. PICK g : g = net[1]
    OBVIOUS
  <1>1. /\ rpc = "receive" /\ net # <<>> /\ net' = Tail(net) /\ Head(net) = g
        /\ UNCHANGED <<senderVars, lostBefore>>
    BY <1>0, TailFacts DEF thr_receive, NetTypes
  <1>2. Observe(g) /\ Join(g) /\ thr_msg_check(g)
    BY <1>1 DEF thr_receive
  <1>3. f \in Nat \ {0} /\ BufferSize \in Nat \ {0}
    BY SoleFacts
  <1>4. g \in Frames /\ 1 \in 1 .. Len(net)
    BY <1>0, <1>1, TailFacts DEF NetTypes
  <1>5. g.payload \in Seq(Bytes)
    BY <1>4, FrameFields
  <1>6. PICK m \in sent : Piece(g, m, f)
    BY <1>0, <1>2, <1>4 DEF NetInv
  <1>7. g.tot \in Nat \ {0} /\ g.num \in 1 .. g.tot
    BY <1>3, <1>5, <1>6, PieceFacts DEF WriterInv
  <1>8. /\ consecutive' = Least(BufferSize, IF g.gap THEN 1 ELSE consecutive + 1)
        /\ consecutive' \in Nat /\ consecutive' >= 1
        /\ prevLast' = (g.num = g.tot) /\ prevLast' \in BOOLEAN
        /\ streak' >= 1 /\ g.num # g.tot => Unbroken(g)
        /\ streak' >= 2 => Unbroken(g)
    BY <1>2, <1>4, Observed
  <1>9. frag_index = g.num /\ consecutive' >= g.num =>
          \E n \in sent : /\ Piece(g, n, f) /\ Begins(joined \o g.payload, n)
                          /\ g.num = g.tot => joined \o g.payload = n
    BY <1>0, <1>1, <1>2, <1>8, JoinsMessage
  <1>10. Unbroken(g) => frag_index = g.num /\ consecutive' >= g.num
    BY <1>0, <1>1, <1>2, <1>8, InStep
  <1>11. sent' = sent /\ Upcoming(s)' = Upcoming(s)
    BY <1>1 DEF Upcoming, senderVars
  <1>12. /\ Linked(net', sent', Upcoming(s)', f)
         /\ After(g, net', 0, sent', Upcoming(s)', f)
    <2>1. Linked(net, sent, Upcoming(s), f) /\ net \in Seq(Frames)
      BY DEF LinkInv, NetTypes
    <2>2. /\ Linked(Tail(net), sent, Upcoming(s), f)
          /\ After(g, Tail(net), 0, sent, Upcoming(s), f)
      BY <1>0, <1>1, <1>2, <2>1, LinkedTail
    <2> QED
      BY <1>1, <1>11, <2>2
  <1>13. Completes(g) \/ Extends(g) \/ Discards(g)
    BY <1>2, JoinCases
  <1>14. frag_index \in Nat \ {0}
    BY DEF ReceiverTypes
  <1>15. /\ rpc' = "handle" => Completes(g) /\ g.num = g.tot /\ frag_index' = g.num + 1
         /\ rpc' # "handle" => rpc' = "receive"
         /\ rpc' = "receive" /\ frag_index' >= 2 => Extends(g)
         /\ prevLast' /\ rpc' = "receive" => frag_index' = 1
         /\ frag_index = g.num /\ g.num = g.tot => Completes(g)
         /\ frag_index = g.num /\ g.num # g.tot => Extends(g)
    <2>1. CASE Completes(g)
      BY <1>7, <1>8, <1>14, <2>1 DEF Completes
    <2>2. CASE Extends(g)
      <3>1. /\ frag_index = g.num /\ g.num < g.tot /\ rpc' = "receive" /\ frag_index' = g.num + 1
        BY <1>1, <1>7, <1>14, <2>2 DEF Extends
      <3>2. g.num # g.tot
        BY <1>7, <3>1
      <3>3. ~prevLast'
        BY <1>8, <3>2, Zenon
      <3> QED
        BY <1>7, <2>2, <3>1, <3>2, <3>3
    <2>3. CASE Discards(g)
      BY <1>1, <1>7, <1>8, <1>14, <2>3 DEF Discards
    <2> QED
      BY <1>13, <2>1, <2>2, <2>3
  <1>16. Completes(g) /\ consecutive' >= g.num => p_msg' \in sent'
    <2> SUFFICES ASSUME Completes(g), consecutive' >= g.num PROVE p_msg' \in sent'
      OBVIOUS
    <2>1. frag_index = g.num /\ g.num = g.tot /\ p_msg' = joined \o g.payload
      BY <1>7, <1>14 DEF Completes
    <2> QED
      BY <1>9, <1>11, <2>1
  <1>17. StepInv'
    <2>1. prevLast' /\ rpc' = "receive" => frag_index' = 1
      BY <1>15
    <2>2. rpc' = "handle" => prevLast'
      BY <1>8, <1>15
    <2>3. rpc' = "handle" /\ consecutive' >= frag_index' - 1 => p_msg' \in sent'
      <3> SUFFICES ASSUME rpc' = "handle", consecutive' >= frag_index' - 1 PROVE p_msg' \in sent'
        OBVIOUS
      <3>1. Completes(g) /\ frag_index' = g.num + 1
        BY <1>15
      <3>2. consecutive' >= g.num
        BY <1>7, <1>8, <3>1
      <3> QED
        BY <1>16, <3>1, <3>2
    <2>4. streak' >= 2 /\ prevLast' => rpc' = "handle" /\ p_msg' \in sent'
      <3> SUFFICES ASSUME streak' >= 2, prevLast' PROVE rpc' = "handle" /\ p_msg' \in sent'
        OBVIOUS
      <3>1. Completes(g) /\ consecutive' >= g.num
        BY <1>8, <1>10, <1>15
      <3> QED
        BY <1>16, <3>1 DEF Completes
    <2> QED
      BY <1>8, <2>1, <2>2, <2>3, <2>4 DEF StepInv
  <1>18. Recent(g, s, f)'
    <2>1. \E n \in sent' : Piece(g, n, f)
      BY <1>6, <1>11
    <2>2. ASSUME rpc' = "receive", frag_index' >= 2
          PROVE  /\ g.num = frag_index' - 1
                 /\ consecutive' >= frag_index' - 1 => \E n \in sent' : Piece(g, n, f) /\ Begins(joined', n)
      <3>1. Extends(g)
        BY <1>15, <2>2
      <3>2. frag_index = g.num /\ frag_index' - 1 = g.num /\ joined' = joined \o g.payload
        BY <1>14, <3>1 DEF Extends
      <3> QED
        BY <1>9, <1>11, <3>2
    <2>3. ASSUME streak' >= 1, ~prevLast'
          PROVE  rpc' = "receive" /\ frag_index' = g.num + 1 /\ consecutive' >= g.num
      <3>1. g.num # g.tot /\ frag_index = g.num /\ consecutive' >= g.num
        BY <1>8, <1>10, <2>3
      <3>2. Extends(g)
        BY <1>15, <3>1
      <3> QED
        BY <1>1, <3>1, <3>2 DEF Extends
    <2> QED
      BY <1>4, <1>8, <1>12, <2>1, <2>2, <2>3 DEF Recent
  <1> QED
    BY <1>12, <1>17, <1>18 DEF LinkInv

\* A step that leaves the receiver where it is.
LEMMA RecentMoves ==
    ASSUME NEW s, NEW f, NEW h, Recent(h, s, f), sent \subseteq sent',
           UNCHANGED <<rpc, frag_index, joined, consecutive, prevLast, streak>>,
           After(h, net', 0, sent', Upcoming(s)', f)
    PROVE  Recent(h, s, f)'
  BY DEF Recent

LEMMA StepMoves ==
    ASSUME StepInv, sent \subseteq sent',
           UNCHANGED <<rpc, frag_index, p_msg, consecutive, prevLast, streak, handled>>
    PROVE  StepInv'
  BY DEF StepInv

LEMMA CountsKeep ==
    ASSUME NetTypes, CountTypes, [Next]_vars
    PROVE  CountTypes'
  <1>1. CASE thr_receive /\ thr_msg_check(Head(net))
    <2>1. Head(net) \in Frames /\ Observe(Head(net))
      BY <1>1 DEF thr_receive, NetTypes
    <2> QED
      BY <2>1, Observed DEF CountTypes
  <1>2. CASE thr_receive /\ ~thr_msg_check(Head(net))
    BY <1>2 DEF thr_receive, CountTypes
  <1>3. CASE ReceiveError
    BY <1>3 DEF ReceiveError, CountTypes
  <1>4. CASE Handle
    BY <1>4 DEF Handle, CountTypes
  <1>5. CASE UNCHANGED receiverVars
    BY <1>5 DEF receiverVars, CountTypes
  <1>6. ASSUME NEW s \in Senders,
               thr_init(s) \/ thr_open_chn(s) \/ WriterStart(s) \/ thr_send(s) \/ SendStep(s)
        PROVE  UNCHANGED receiverVars
    BY <1>6 DEF thr_init, thr_open_chn, WriterStart, thr_send, SendStep, SendFragment, SendFails, SendDone
  <1> QED
    BY <1>1, <1>2, <1>3, <1>4, <1>5, <1>6 DEF Next, OtherTraffic, vars

LEMMA ChannelKeeps ==
    ASSUME PlacesInv, CountTypes, NEW s, NEW f, Sole(s, f), LinkInv(s, f), StepInv, [Next]_vars
    PROVE  LinkInv(s, f)' /\ StepInv'
  <1>0. /\ SenderInv /\ WriterInv /\ NetTypes /\ ReceiverTypes
        /\ LoopInv(s, f) /\ NetInv(f) /\ JoinInv(f) /\ net \in Seq(Frames)
        /\ Linked(net, sent, Upcoming(s), f)
    BY DEF PlacesInv, FragInv, SenderInv, NetTypes, LinkInv
  <1>1. ASSUME UNCHANGED receiverVars, sent \subseteq sent',
               Linked(net', sent', Upcoming(s)', f),
               \A h : After(h, net, 0, sent, Upcoming(s), f) => After(h, net', 0, sent', Upcoming(s)', f)
        PROVE  LinkInv(s, f)' /\ StepInv'
    <2>1. StepInv'
      BY <1>1, StepMoves DEF receiverVars
    <2>2. ASSUME NEW h, Recent(h, s, f) PROVE Recent(h, s, f)'
      <3>1. After(h, net', 0, sent', Upcoming(s)', f)
        BY <1>1, <2>2 DEF Recent
      <3> QED
        BY <1>1, <2>2, <3>1, RecentMoves DEF receiverVars
    <2>3. consecutive' = consecutive
      BY <1>1 DEF receiverVars
    <2> QED
      BY <1>1, <2>1, <2>2, <2>3 DEF LinkInv
  <1>2. ASSUME NEW u \in Senders,
               thr_init(u) \/ thr_open_chn(u) \/ WriterStart(u) \/ thr_send(u) \/ SendStep(u)
        PROVE  LinkInv(s, f)' /\ StepInv'
    <2>1. UNCHANGED receiverVars
      BY <1>2 DEF thr_init, thr_open_chn, WriterStart, thr_send, SendStep, SendFragment, SendFails, SendDone
    <2>2. /\ sent \subseteq sent'
          /\ \/ net' = net /\ \A x \in Upcoming(s)' : x.num = 1 \/ x \in Upcoming(s)
             \/ /\ Frame(u) \in Frames /\ net' = Append(net, Frame(u)) /\ sent' = sent
                /\ Fits(Frame(u), sent, Upcoming(s), Upcoming(s)', f)
      BY <1>0, <1>2, SenderMoves
    <2>3. CASE net' = net /\ \A x \in Upcoming(s)' : x.num = 1 \/ x \in Upcoming(s)
      <3>1. Linked(net', sent', Upcoming(s)', f)
        BY <1>0, <2>2, <2>3, LinkedSender
      <3>2. ASSUME NEW h, After(h, net, 0, sent, Upcoming(s), f)
            PROVE  After(h, net', 0, sent', Upcoming(s)', f)
        BY <2>2, <2>3, <3>2, AfterSender
      <3> QED
        BY <1>1, <2>1, <2>2, <3>1, <3>2
    <2>4. CASE /\ Frame(u) \in Frames /\ net' = Append(net, Frame(u)) /\ sent' = sent
               /\ Fits(Frame(u), sent, Upcoming(s), Upcoming(s)', f)
      <3>1. Linked(net', sent', Upcoming(s)', f)
        BY <1>0, <2>4, LinkedAppend
      <3>2. ASSUME NEW h, After(h, net, 0, sent, Upcoming(s), f)
            PROVE  After(h, net', 0, sent', Upcoming(s)', f)
        BY <1>0, <2>4, <3>2, AfterAppend
      <3> QED
        BY <1>1, <2>1, <2>2, <3>1, <3>2
    <2> QED
      BY <2>2, <2>3, <2>4
  <1>3. CASE OtherTraffic
    <2>1. /\ net' = Append(net, OtherFrame) /\ UNCHANGED <<senderVars, lostBefore, receiverVars>>
      BY <1>3 DEF OtherTraffic
    <2>2. sent' = sent /\ Upcoming(s)' = Upcoming(s)
      BY <2>1 DEF senderVars, Upcoming
    <2>3. Fits(OtherFrame, sent, Upcoming(s), Upcoming(s), f) /\ OtherFrame \in Frames
      BY OtherIgnored, OtherType DEF Fits
    <2>4. Linked(net', sent', Upcoming(s)', f)
      BY <1>0, <2>1, <2>2, <2>3, LinkedAppend
    <2>5. ASSUME NEW h, After(h, net, 0, sent, Upcoming(s), f)
          PROVE  After(h, net', 0, sent', Upcoming(s)', f)
      BY <1>0, <2>1, <2>2, <2>3, <2>5, AfterAppend
    <2> QED
      BY <1>1, <2>1, <2>2, <2>4, <2>5
  <1>4. CASE thr_receive /\ thr_msg_check(Head(net))
    BY <1>0, <1>4, ReceiveJoins
  <1>5. CASE (thr_receive \/ ReceiveError) /\ ~thr_msg_check(Head(net))
    <2>1. /\ net # <<>> /\ net' = Tail(net) /\ UNCHANGED <<senderVars, lostBefore, receiverVars>>
      BY <1>5 DEF thr_receive, ReceiveError, receiverVars
    <2>2. sent' = sent /\ Upcoming(s)' = Upcoming(s) /\ Head(net) = net[1]
      BY <1>0, <2>1, TailFacts DEF senderVars, Upcoming
    <2>3. Linked(net', sent', Upcoming(s)', f)
      BY <1>0, <2>1, <2>2, LinkedTail
    <2>4. ASSUME NEW h, After(h, net, 0, sent, Upcoming(s), f)
          PROVE  After(h, net', 0, sent', Upcoming(s)', f)
      BY <1>0, <1>5, <2>1, <2>2, <2>4, AfterSkip
    <2> QED
      BY <1>1, <2>1, <2>2, <2>3, <2>4
  <1>6. CASE ReceiveError /\ thr_msg_check(Head(net))
    <2>1. /\ net # <<>> /\ net' = Tail(net) /\ UNCHANGED <<senderVars, lostBefore, rpc, frag_index, prevLast>>
          /\ consecutive' = 0 /\ streak' = 0 /\ rpc = "receive"
      BY <1>6 DEF ReceiveError
    <2>2. sent' = sent /\ Upcoming(s)' = Upcoming(s)
      BY <2>1 DEF senderVars, Upcoming
    <2>3. Linked(net', sent', Upcoming(s)', f)
      BY <1>0, <2>1, <2>2, LinkedTail
    <2> QED
      BY <2>1, <2>3 DEF LinkInv, StepInv
  <1>7. CASE Handle
    <2>1. /\ rpc = "handle" /\ rpc' = "receive" /\ frag_index' = 1 /\ handled' = TRUE
          /\ UNCHANGED <<senderVars, net, lostBefore, consecutive, prevLast, streak>>
      BY <1>7 DEF Handle
    <2>2. sent' = sent /\ Upcoming(s)' = Upcoming(s)
      BY <2>1 DEF senderVars, Upcoming
    <2>3. ASSUME NEW h, Recent(h, s, f) PROVE Recent(h, s, f)'
      <3>1. prevLast
        BY <2>1 DEF StepInv
      <3>2. After(h, net', 0, sent', Upcoming(s)', f)
        BY <2>1, <2>2, <2>3 DEF Recent
      <3> QED
        BY <2>1, <2>2, <2>3, <3>1, <3>2 DEF Recent
    <2>4. StepInv'
      BY <2>1, <2>2 DEF StepInv
    <2>5. Linked(net', sent', Upcoming(s)', f)
      BY <1>0, <2>1, <2>2
    <2> QED
      BY <2>1, <2>3, <2>4, <2>5 DEF LinkInv
  <1>8. CASE UNCHANGED vars
    <2>1. sent' = sent /\ Upcoming(s)' = Upcoming(s) /\ net' = net /\ UNCHANGED receiverVars
      BY <1>8 DEF vars, senderVars, Upcoming
    <2> QED
      BY <1>0, <1>1, <2>1
  <1> QED
    BY <1>2, <1>3, <1>4, <1>5, <1>6, <1>7, <1>8 DEF Next

\* The inductive invariant: where every byte belongs, and how the frames that arrive
\* follow one another.
ChannelInv ==
    /\ PlacesInv /\ CountTypes
    /\ \A s, f : Sole(s, f) => LinkInv(s, f) /\ StepInv

\* Every state of the channel has it, whatever is lost, interrupted or sent by others.
THEOREM ChannelInvariant == Spec => []ChannelInv
  <1>1. Init => ChannelInv
    <2> SUFFICES ASSUME Init PROVE ChannelInv
      OBVIOUS
    <2>1. CountTypes /\ StepInv
      <3>1. /\ consecutive = 0 /\ streak = 0 /\ prevLast = TRUE /\ handled = FALSE
            /\ rpc = "receive" /\ frag_index = 1
        BY DEF Init
      <3>2. consecutive \in Nat /\ streak \in Nat
        BY <3>1
      <3>3. prevLast \in BOOLEAN /\ handled \in BOOLEAN
        BY <3>1, Zenon
      <3>4. StepInv
        BY <3>1 DEF StepInv
      <3> QED
        BY <3>2, <3>3, <3>4 DEF CountTypes
    <2>2. Len(net) = 0 /\ consecutive = 0
      BY DEF Init
    <2>3. \A s, f : LinkInv(s, f)
      BY <2>2 DEF LinkInv, Linked
    <2> QED
      BY <2>1, <2>3, PlacesInit DEF ChannelInv
  <1>2. ChannelInv /\ [Next]_vars => ChannelInv'
    <2> SUFFICES ASSUME ChannelInv, [Next]_vars PROVE ChannelInv'
      OBVIOUS
    <2>1. PlacesInv' /\ CountTypes'
      BY PlacesKeep, CountsKeep DEF ChannelInv, PlacesInv
    <2>2. ASSUME NEW s, NEW f, Sole(s, f) PROVE LinkInv(s, f)' /\ StepInv'
      BY <2>2, ChannelKeeps DEF ChannelInv
    <2> QED
      BY <2>1, <2>2 DEF ChannelInv, Sole
  <1> QED
    BY <1>1, <1>2, PTL DEF Spec

\* A message handed over on a channel with one sender is one that was sent, unless a
\* frame was lost, or could not be received, among the last frag_index - 1 of them: the
\* only way for thr_receive to join parts of two messages.
THEOREM RebuiltCorrect == Spec => []Rebuilt
  <1>1. ChannelInv => Rebuilt
    <2>1. OneSender => \E s, f : Sole(s, f)
      BY DEF OneSender, Sole
    <2> QED
      BY <2>1 DEF ChannelInv, StepInv, Rebuilt
  <1> QED
    BY <1>1, ChannelInvariant, PTL

\* After two whole messages in a row without a loss the second has been handed to the
\* handler or is being handed to it, whatever the receiver had joined before.
THEOREM ResyncCorrect == Spec => []Resync
  <1>1. ChannelInv => Resync
    <2> SUFFICES ASSUME ChannelInv, OneSender, streak >= 2, prevLast, ~handled
                 PROVE  rpc = "handle" /\ p_msg = MessageOf(Last(p_msg))
      BY DEF Resync
    <2>1. \E s, f : Sole(s, f)
      BY DEF OneSender, Sole
    <2>2. rpc = "handle" /\ p_msg \in sent
      BY <2>1 DEF ChannelInv, StepInv
    <2>3. Message(p_msg)
      BY <2>2 DEF ChannelInv, PlacesInv, SenderInv, WriterInv
    <2> QED
      BY <2>2, <2>3, MessageNamed
  <1> QED
    BY <1>1, ChannelInvariant, PTL
=============================================================================
