--------------------------- MODULE RenamingProofs ---------------------------
(***************************************************************************)
(* Proofs about Renaming, for any layers, threads and signatures: a rename *)
(* is counted exactly, the registry holds exactly what is in use, and the  *)
(* calls for a signature come to the plain encoder or decoder as one.      *)
(***************************************************************************)
EXTENDS Renaming, FiniteSetTheorems, InductionLemmas, TLAPS

-----------------------------------------------------------------------------
(* The inductive invariant.                                                *)

\* An array of signature indices: empty, or the elements from first to last - 1.
Arrays ==
    {a \in [first : Nat, last : Nat, data : Seq(Nat)] :
        /\ Len(a.data) = a.last - a.first
        /\ a.first = 0 => a.last = 0
        /\ a.first <= a.last}

OpNames ==
    {"sample_register", "ref_register", "type_register", "type_bind", "encode", "ioctl", "ref_get",
     "free"}

\* The calls there can be when n signatures have been numbered.
Calls(n) ==
    {c \in [op : OpNames, layer : Layers \cup {0}, sig : 0 .. n, from : Layers, root : Roots,
            has_deps : BOOLEAN, settled : BOOLEAN] :
        /\ c.op \in Registering => c.sig # 0
        /\ c.op = "free" => c.layer = c.from}

Parts == Roots \cup {Affix[l] : l \in Layers}

\* Everything has its type, and nothing refers to an index that was not handed out.
StoreTypes ==
    /\ name \in Seq(Seq(Parts)) /\ NRoots <= Len(name)
    /\ \A i \in DOMAIN registry : registry[i] \in [base : Nat, renames : Seq(Nat)]
    /\ DOMAIN registry \subseteq Indices
    /\ \A r \in DOMAIN rename : rename[r] \in [use_count : Nat, base : Nat]
    /\ DOMAIN rename \subseteq Indices

TableTypes ==
    /\ renamed \in [Layers -> Arrays]
    /\ \A l \in Layers, i \in Nat : Get(renamed[l], i, 0) # 0 => i \in Indices
    /\ alive \subseteq Layers
    /\ entry \in [Threads -> Nat]

ThreadTypes ==
    /\ lock \in [{"writer", "data"} -> Threads \cup {NoThread}]
    /\ pc \in [Threads -> {"call", "rename_new", "insert", "store", "rename_free"}]
    /\ todo \in [Threads -> Seq(Calls(Len(name)))]

\* The call c that came in at c.from has come down to c.layer through the layers S.
Path(c, S) ==
    /\ c.from \in S /\ c.layer \in S \cup {0}
    /\ \A l \in S : l = c.from \/ \E k \in S : Below[k] = l

\* No layer goes while it is in use: existing layers sit on existing ones, calls come down
\* through existing ones, a layer being freed carries no other and is in use by nobody
\* else, and the table of a layer that does not exist is empty.
AliveClosed == \A l \in alive : Below[l] # 0 => Below[l] \in alive
PathInv ==
    \A t \in Threads : \A n \in 1 .. Len(todo[t]) : \E S \in SUBSET alive : Path(todo[t][n], S)
FreeInv ==
    \A t \in Threads : \A n \in 1 .. Len(todo[t]) : todo[t][n].op = "free" =>
      /\ Len(todo[t]) = 1
      /\ \A k \in alive : Below[k] # todo[t][n].layer
      /\ \A u \in Threads : \A m \in 1 .. Len(todo[u]) :
            u # t => todo[u][m].from # todo[t][n].layer
DeadEmpty == \A l \in Layers \ alive : \A i \in Nat : Get(renamed[l], i, 0) = 0

UseInv == AliveClosed /\ PathInv /\ FreeInv /\ DeadEmpty

\* Where a thread is inside set_renamed, and what it holds there.
HeadInv ==
    \A t \in Threads : pc[t] # "call" =>
      todo[t] # <<>> /\ Head(todo[t]).op \in Registering /\ Head(todo[t]).layer # 0
InsertInv ==
    \A t \in Threads : pc[t] = "insert" => lock["data"] = t /\ base \in DOMAIN registry \ DOMAIN rename
EntryInv == \A t \in Threads : entry[t] # 0 <=> pc[t] \in {"store", "rename_free"}
TakenInv ==
    \A t \in Threads : pc[t] = "rename_free" =>
      Get(renamed[Head(todo[t]).layer], Head(todo[t]).sig, 0) # 0

PlaceInv == HeadInv /\ InsertInv /\ EntryInv /\ TakenInv

\* The registry inside and outside the data lock: an entry that is no rename and has none
\* is the base of a rename about to be inserted.
RegistryInv ==
    /\ \A r \in DOMAIN rename :
          /\ r \in DOMAIN registry
          /\ registry[r] = [base |-> rename[r].base, renames |-> <<>>]
          /\ rename[r].base \in DOMAIN registry \ DOMAIN rename
    /\ \A b \in DOMAIN registry \ DOMAIN rename :
          LET list == registry[b].renames IN
             /\ registry[b].base = 0
             /\ \A n \in 1 .. Len(list) : list[n] \in DOMAIN rename /\ rename[list[n]].base = b
             /\ \A r \in DOMAIN rename : rename[r].base = b => \E n \in 1 .. Len(list) : list[n] = r
             /\ \A m, n \in 1 .. Len(list) : name[list[m]] = name[list[n]] => m = n
             /\ list = <<>> => base = b /\ \E t \in Threads : pc[t] = "insert"

\* The table entries with index up to n, and the threads, that refer to rename r.
Refs(tables, n, r)  == {e \in Layers \X (1 .. n) : Get(tables[e[1]], e[2], 0) = r}
Holders(entries, r) == {t \in Threads : entries[t] = r}

\* UseCountsExact in these terms.
CountInv ==
    \A r \in DOMAIN rename :
      rename[r].use_count =
        Cardinality(Refs(renamed, Len(name), r)) + Cardinality(Holders(entry, r))
RefInv ==
    /\ \A l \in Layers, i \in Nat :
          Get(renamed[l], i, 0) # 0 => Get(renamed[l], i, 0) \in DOMAIN rename
    /\ \A t \in Threads : entry[t] # 0 => entry[t] \in DOMAIN rename

IInv ==
    /\ StoreTypes /\ TableTypes /\ ThreadTypes
    /\ UseInv /\ PlaceInv /\ RegistryInv
    /\ CountInv /\ RefInv

-----------------------------------------------------------------------------
(* Arrays and counting.                                                    *)

LEMMA LayerFacts == IsFiniteSet(Layers) /\ Layers \subseteq Nat \ {0} /\ IsFiniteSet(Threads)
                    /\ (\A l \in Layers : Below[l] = 0 \/ Below[l] \in Layers)
  <1>1. Below \in Seq(Nat) /\ Layers = 1 .. Len(Below) /\ Len(Below) \in Nat
    BY LayersAssumption DEF Layers
  <1>2. IsFiniteSet(1 .. Len(Below))
    BY <1>1, FS_Interval
  <1> QED
    BY <1>1, <1>2, LayersAssumption DEF Layers

\* What labcomm2014_signature_array_ref returns for one index leaves the others alone.
LEMMA ArrayPut ==
    ASSUME NEW a \in Arrays, NEW i \in Nat \ {0}, NEW v \in Nat
    PROVE  /\ Put(a, i, v) \in Arrays
           /\ \A j \in Nat : Get(Put(a, i, v), j, 0) = IF j = i THEN v ELSE Get(a, j, 0)
  <1> DEFINE b == Grow(a, i)
  <1>1. /\ a.first \in Nat /\ a.last \in Nat /\ a.data \in Seq(Nat) /\ Len(a.data) = a.last - a.first
        /\ a.first <= a.last /\ (a.first = 0 => a.last = 0)
    BY DEF Arrays
  <1>2. /\ b \in Arrays /\ b.first <= i /\ i < b.last /\ b.first # 0
        /\ \A j \in Nat : j # i => Get(b, j, 0) = Get(a, j, 0)
    <2>1. CASE a.first = 0 /\ a.last = 0
      <3>1. b = [first |-> i, last |-> i + 1, data |-> <<0>>]
        BY <2>1 DEF Grow
      <3>2. <<0>> \in Seq(Nat) /\ Len(<<0>>) = 1 /\ <<0>>[1] = 0
        OBVIOUS
      <3>3. b.first = i /\ b.last = i + 1 /\ b.data = <<0>>
        BY <3>1
      <3>4. b \in [first : Nat, last : Nat, data : Seq(Nat)]
        BY <3>1, <3>2
      <3> HIDE DEF b
      <3>5. b \in Arrays
        <4>1. Len(b.data) = b.last - b.first /\ b.first # 0 /\ b.first <= b.last
          BY <3>2, <3>3
        <4> QED
          BY <3>4, <4>1 DEF Arrays
      <3>6. \A j \in Nat : j # i => Get(b, j, 0) = Get(a, j, 0)
        BY <2>1, <3>3 DEF Get
      <3> QED
        BY <3>3, <3>5, <3>6
    <2>2. CASE ~ (a.first = 0 /\ a.last = 0)
      <3> DEFINE first == IF i < a.first THEN i ELSE a.first
      <3> DEFINE last == IF a.last <= i THEN i + 1 ELSE a.last
      <3> DEFINE data == [n \in 1 .. last - first |->
                            IF first + n - 1 \in a.first .. a.last - 1
                              THEN a.data[first + n - a.first] ELSE 0]
      <3>1. b = [first |-> first, last |-> last, data |-> data]
        BY <2>2 DEF Grow
      <3>2. /\ first \in Nat \ {0} /\ last \in Nat /\ first <= i /\ i < last /\ first <= a.first
            /\ a.last <= last /\ last - first \in Nat
            /\ a.first \in Nat \ {0}
        BY <1>1, <2>2
      <3> HIDE DEF first, last
      <3>4. ASSUME NEW n \in 1 .. last - first, first + n - 1 \in a.first .. a.last - 1
            PROVE  a.data[first + n - a.first] \in Nat
        <4>1. first + n - a.first \in 1 .. Len(a.data)
          BY <1>1, <3>2, <3>4, SMTT(30)
        <4>2. \A k \in 1 .. Len(a.data) : a.data[k] \in Nat
          BY <1>1
        <4> QED
          BY <4>1, <4>2, Zenon
      <3>5. data \in [1 .. last - first -> Nat]
        BY <3>4
      <3>6. data \in Seq(Nat) /\ Len(data) = last - first
        BY <3>2, <3>5
      <3>7. \A j \in Nat : first <= j /\ j < last =>
               /\ j - first + 1 \in 1 .. last - first
               /\ data[j - first + 1] =
                     IF a.first <= j /\ j < a.last THEN a.data[j - a.first + 1] ELSE 0
        <4> TAKE j \in Nat
        <4> HAVE first <= j /\ j < last
        <4>0. j \in Int /\ first \in Int /\ last \in Int /\ a.first \in Int
          BY <1>1, <3>2
        <4> HIDE DEF data
        <4>1. j - first + 1 \in 1 .. last - first /\ first + (j - first + 1) - 1 = j
              /\ first + (j - first + 1) - a.first = j - a.first + 1
          BY <4>0
        <4> USE DEF data
        <4>2. j \in a.first .. a.last - 1 <=> a.first <= j /\ j < a.last
          BY <1>1
        <4> QED
          BY <4>1, <4>2
      <3> HIDE DEF data
      <3>8. b \in Arrays
        BY <3>1, <3>2, <3>6 DEF Arrays
      <3>9. \A j \in Nat : j # i => Get(b, j, 0) = Get(a, j, 0)
        <4> TAKE j \in Nat
        <4> HAVE j # i
        <4>1. CASE first <= j /\ j < last
          <5>1. Get(b, j, 0) = data[j - first + 1]
            BY <3>1, <4>1 DEF Get
          <5> QED
            BY <3>7, <4>1, <5>1 DEF Get
        <4>2. CASE ~ (first <= j /\ j < last)
          <5>1. Get(b, j, 0) = 0
            BY <3>1, <4>2 DEF Get
          <5>2. ~ (a.first <= j /\ j < a.last)
            BY <1>1, <3>2, <4>2
          <5> QED
            BY <5>1, <5>2 DEF Get
        <4> QED
          BY <4>1, <4>2
      <3> QED
        BY <3>1, <3>2, <3>8, <3>9
    <2> QED
      BY <2>1, <2>2
  <1>3. Put(a, i, v) = [b EXCEPT !.data[i - b.first + 1] = v]
    BY DEF Put
  <1> HIDE DEF b
  <1> DEFINE d == [b.data EXCEPT ![i - b.first + 1] = v]
  <1>4. /\ b.first \in Nat /\ b.last \in Nat /\ b.data \in Seq(Nat) /\ Len(b.data) = b.last - b.first
    BY <1>2 DEF Arrays
  <1>5. d \in Seq(Nat) /\ Len(d) = Len(b.data) /\ \A n \in 1 .. Len(d) : d[n] =
            IF n = i - b.first + 1 THEN v ELSE b.data[n]
    <2>1. b.data \in [1 .. Len(b.data) -> Nat] /\ Len(b.data) \in Nat
      BY <1>4
    <2>2. d \in [1 .. Len(b.data) -> Nat]
      BY <2>1
    <2>3. d \in Seq(Nat) /\ Len(d) = Len(b.data)
      BY <2>1, <2>2
    <2> QED
      BY <2>1, <2>3
  <1>6. b = [first |-> b.first, last |-> b.last, data |-> b.data]
    BY <1>2 DEF Arrays
  <1>7. Put(a, i, v) = [first |-> b.first, last |-> b.last, data |-> d]
    BY <1>2, <1>3, <1>6 DEF Arrays
  <1> HIDE DEF d
  <1>8. Put(a, i, v) \in Arrays
    BY <1>2, <1>4, <1>5, <1>7 DEF Arrays
  <1>9. \A j \in Nat : Get(Put(a, i, v), j, 0) = IF j = i THEN v ELSE Get(b, j, 0)
    <2> TAKE j \in Nat
    <2>1. CASE b.first <= j /\ j < b.last
      <3>1. Get(Put(a, i, v), j, 0) = d[j - b.first + 1] /\ Get(b, j, 0) = b.data[j - b.first + 1]
        BY <1>7, <2>1 DEF Get
      <3>2. j - b.first + 1 \in 1 .. Len(d) /\ (j - b.first + 1 = i - b.first + 1 <=> j = i)
        BY <1>4, <1>5, <2>1, SMTT(30)
      <3> QED
        BY <1>5, <3>1, <3>2, SMTT(30)
    <2>2. CASE ~ (b.first <= j /\ j < b.last)
      <3>1. Get(Put(a, i, v), j, 0) = 0 /\ Get(b, j, 0) = 0
        BY <1>7, <2>2 DEF Get
      <3> QED
        BY <1>2, <2>2, <3>1
    <2> QED
      BY <2>1, <2>2
  <1> QED
    BY <1>2, <1>8, <1>9

LEMMA ArrayFacts ==
    /\ EmptyArray \in Arrays
    /\ \A i \in Nat : Get(EmptyArray, i, 0) = 0
    /\ \A a \in Arrays, i \in Nat : Get(a, i, 0) \in Nat
    /\ \A a \in Arrays : \A i : i \in Keys(a) <=> i \in Nat /\ Get(a, i, 0) # 0
  <1>1. EmptyArray \in Arrays
    BY DEF EmptyArray, Arrays
  <1>2. \A i \in Nat : Get(EmptyArray, i, 0) = 0
    BY DEF EmptyArray, Get
  <1>3. ASSUME NEW a \in Arrays, NEW i \in Nat
        PROVE  Get(a, i, 0) \in Nat
    <2>1. /\ a.first \in Nat /\ a.last \in Nat /\ a.data \in Seq(Nat)
          /\ Len(a.data) = a.last - a.first
      BY DEF Arrays
    <2>2. CASE a.first <= i /\ i < a.last
      <3>1. i - a.first + 1 \in 1 .. Len(a.data)
        BY <2>1, <2>2
      <3> QED
        BY <2>1, <2>2, <3>1 DEF Get
    <2> QED
      BY <2>2 DEF Get
  <1>4. ASSUME NEW a \in Arrays, NEW i
        PROVE  i \in Keys(a) <=> i \in Nat /\ Get(a, i, 0) # 0
    <2>1. a.first \in Nat /\ a.last \in Nat
      BY DEF Arrays
    <2> QED
      BY <2>1 DEF Keys, Get
  <1> QED
    BY <1>1, <1>2, <1>3, <1>4

LEMMA CountTypes ==
    ASSUME NEW n \in Nat, NEW r, NEW tables, NEW entries
    PROVE  /\ IsFiniteSet(Refs(tables, n, r)) /\ Cardinality(Refs(tables, n, r)) \in Nat
           /\ IsFiniteSet(Holders(entries, r)) /\ Cardinality(Holders(entries, r)) \in Nat
  <1>1. IsFiniteSet(1 .. n)
    BY FS_Interval
  <1>2. IsFiniteSet(Layers \X (1 .. n))
    BY <1>1, LayerFacts, FS_Product
  <1>3. IsFiniteSet(Refs(tables, n, r))
    BY <1>2, FS_Subset DEF Refs
  <1>4. IsFiniteSet(Holders(entries, r))
    BY LayerFacts, FS_Subset DEF Holders
  <1> QED
    BY <1>3, <1>4, FS_CardinalityType

\* The tables T are the tables S but for element i of layer l, which is w.
Changes(S, T, n, l, i, w) ==
    \A k \in Layers, j \in 1 .. n :
      Get(T[k], j, 0) = IF k = l /\ j = i THEN w ELSE Get(S[k], j, 0)

LEMMA RefsChange ==
    ASSUME NEW n \in Nat, NEW S, NEW T, NEW l \in Layers, NEW i \in 1 .. n, NEW w,
           Changes(S, T, n, l, i, w), Get(S[l], i, 0) # w
    PROVE  LET v == Get(S[l], i, 0) IN
             /\ Cardinality(Refs(T, n, w)) = Cardinality(Refs(S, n, w)) + 1
             /\ Cardinality(Refs(S, n, v)) = Cardinality(Refs(T, n, v)) + 1
             /\ \A r : r \notin {v, w} => Refs(T, n, r) = Refs(S, n, r)
  <1> DEFINE v == Get(S[l], i, 0)
  <1> DEFINE e == <<l, i>>
  <1>1. e \in Layers \X (1 .. n) /\ e[1] = l /\ e[2] = i
    OBVIOUS
  <1>2. \A x \in Layers \X (1 .. n) :
           /\ x[1] \in Layers /\ x[2] \in 1 .. n
           /\ x[1] = l /\ x[2] = i <=> x = e
    OBVIOUS
  <1> HIDE DEF e
  <1>3. \A x \in Layers \X (1 .. n) :
           Get(T[x[1]], x[2], 0) = IF x = e THEN w ELSE Get(S[x[1]], x[2], 0)
    BY <1>2 DEF Changes
  <1>4. Get(S[e[1]], e[2], 0) = v
    BY <1>1
  <1>5. Refs(T, n, w) = Refs(S, n, w) \cup {e} /\ e \notin Refs(S, n, w)
    BY <1>1, <1>3, <1>4 DEF Refs
  <1>6. Refs(S, n, v) = Refs(T, n, v) \cup {e} /\ e \notin Refs(T, n, v)
    BY <1>1, <1>3, <1>4 DEF Refs
  <1>7. \A r : r \notin {v, w} => Refs(T, n, r) = Refs(S, n, r)
    BY <1>1, <1>3, <1>4 DEF Refs
  <1>8. \A r : IsFiniteSet(Refs(S, n, r)) /\ IsFiniteSet(Refs(T, n, r))
    BY CountTypes
  <1>9. /\ Cardinality(Refs(T, n, w)) = Cardinality(Refs(S, n, w)) + 1
        /\ Cardinality(Refs(S, n, v)) = Cardinality(Refs(T, n, v)) + 1
    <2> HIDE DEF v
    <2> QED
      BY <1>5, <1>6, <1>8, FS_AddElement
  <1> QED
    BY <1>7, <1>9

\* One thread's entry changes to w.
LEMMA HoldersChange ==
    ASSUME NEW E \in [Threads -> Nat], NEW t \in Threads, NEW w \in Nat, E[t] # w
    PROVE  LET F == [E EXCEPT ![t] = w]  v == E[t] IN
             /\ Cardinality(Holders(F, w)) = Cardinality(Holders(E, w)) + 1
             /\ Cardinality(Holders(E, v)) = Cardinality(Holders(F, v)) + 1
             /\ \A r : r \notin {v, w} => Holders(F, r) = Holders(E, r)
  <1> DEFINE F == [E EXCEPT ![t] = w]
  <1> DEFINE v == E[t]
  <1>0. \A u \in Threads : F[u] = IF u = t THEN w ELSE E[u]
    OBVIOUS
  <1> HIDE DEF F
  <1>1. Holders(F, w) = Holders(E, w) \cup {t} /\ t \notin Holders(E, w)
    BY <1>0 DEF Holders
  <1>2. Holders(E, v) = Holders(F, v) \cup {t} /\ t \notin Holders(F, v)
    BY <1>0 DEF Holders
  <1>3. \A r : r \notin {v, w} => Holders(F, r) = Holders(E, r)
    BY <1>0 DEF Holders
  <1>4. \A r : IsFiniteSet(Holders(E, r)) /\ IsFiniteSet(Holders(F, r))
    BY CountTypes
  <1>5. /\ Cardinality(Holders(F, w)) = Cardinality(Holders(E, w)) + 1
        /\ Cardinality(Holders(E, v)) = Cardinality(Holders(F, v)) + 1
    BY <1>1, <1>2, <1>4, FS_AddElement
  <1> QED
    BY <1>3, <1>5 DEF F

\* What nobody refers to counts nothing, and what somebody refers to at least one.
LEMMA CountZero ==
    ASSUME NEW n \in Nat, NEW r, NEW tables, NEW entries
    PROVE  /\ Cardinality(Refs(tables, n, r)) = 0 <=>
                \A l \in Layers, i \in 1 .. n : Get(tables[l], i, 0) # r
           /\ Cardinality(Holders(entries, r)) = 0 <=> \A t \in Threads : entries[t] # r
  <1>1. Refs(tables, n, r) = {} <=> \A l \in Layers, i \in 1 .. n : Get(tables[l], i, 0) # r
    <2>1. ASSUME NEW l \in Layers, NEW i \in 1 .. n, Get(tables[l], i, 0) = r
          PROVE  <<l, i>> \in Refs(tables, n, r)
      BY <2>1 DEF Refs
    <2>2. ASSUME NEW e \in Refs(tables, n, r)
          PROVE  e[1] \in Layers /\ e[2] \in 1 .. n /\ Get(tables[e[1]], e[2], 0) = r
      BY DEF Refs
    <2> QED
      BY <2>1, <2>2
  <1>2. Holders(entries, r) = {} <=> \A t \in Threads : entries[t] # r
    BY DEF Holders
  <1> QED
    BY <1>1, <1>2, CountTypes, FS_EmptySet

-----------------------------------------------------------------------------
(* The registry.                                                           *)

\* Unlinking an element that stands in a list once.
LEMMA Unlinked ==
    ASSUME NEW s \in Seq(Nat), NEW k \in 1 .. Len(s),
           \A j \in 1 .. Len(s) : s[j] = s[k] => j = k
    PROVE  LET left == Lists!RemoveFirst(s, s[k]) IN
             /\ left \in Seq(Nat) /\ Len(left) = Len(s) - 1
             /\ \A j \in 1 .. Len(left) : left[j] = IF j < k THEN s[j] ELSE s[j + 1]
  <1> DEFINE I == {i \in 1 .. Len(s) : s[i] = s[k]}
  <1> DEFINE left == Lists!RemoveFirst(s, s[k])
  <1> DEFINE a == SubSeq(s, 1, k - 1)
  <1> DEFINE b == SubSeq(s, k + 1, Len(s))
  <1>1. I = {k}
    OBVIOUS
  <1>2. Lists!Min({k}) = k
    <2>1. k <= k
      OBVIOUS
    <2>2. \A x \in {k} : x = k
      OBVIOUS
    <2> QED
      BY <2>1, <2>2 DEF Lists!Min
  <1>3. Lists!SelectInSeq(s, LAMBDA v : v = s[k]) = k
    <2>1. Lists!SelectInSeq(s, LAMBDA v : v = s[k]) = IF I # {} THEN Lists!Min(I) ELSE 0
      BY DEF Lists!SelectInSeq
    <2> HIDE DEF I
    <2> QED
      BY <1>1, <1>2, <2>1
  <1>4. \E i \in 1 .. Len(s) : s[i] = s[k]
    OBVIOUS
  <1>5. left = Lists!RemoveAt(s, Lists!SelectInSeq(s, LAMBDA v : v = s[k]))
    BY <1>4 DEF Lists!RemoveFirst
  <1>6. left = a \o b
    BY <1>3, <1>5 DEF Lists!RemoveAt
  <1> HIDE DEF left
  <1>7. Len(s) \in Nat /\ k \in Nat
    OBVIOUS
  <1>8. a \in Seq(Nat) /\ Len(a) = k - 1 /\ \A j \in 1 .. k - 1 : a[j] = s[j]
    BY <1>7
  <1>9. b \in Seq(Nat) /\ Len(b) = Len(s) - k /\ \A j \in 1 .. Len(s) - k : b[j] = s[k + j]
    BY <1>7
  <1> HIDE DEF a, b
  <1> DEFINE n == Len(s)
  <1> HIDE DEF n
  <1>0. n \in Nat /\ k \in 1 .. n /\ Len(a) = k - 1 /\ Len(b) = n - k
    BY <1>7, <1>8, <1>9 DEF n
  <1>a. /\ a \o b \in Seq(Nat) /\ Len(a \o b) = Len(a) + Len(b)
        /\ \A j \in 1 .. Len(a) : (a \o b)[j] = a[j]
        /\ \A j \in 1 .. Len(b) : (a \o b)[Len(a) + j] = b[j]
    <2>1. a \in Seq(Nat) /\ b \in Seq(Nat)
      BY <1>8, <1>9
    <2> QED
      BY <2>1
  <1>10. left \in Seq(Nat) /\ Len(left) = n - 1
    BY <1>0, <1>6, <1>a
  <1>11. ASSUME NEW j \in 1 .. Len(left)
         PROVE  left[j] = IF j < k THEN s[j] ELSE s[j + 1]
    <2>0. j \in 1 .. n - 1
      BY <1>10
    <2>1. CASE j < k
      <3>1. j \in 1 .. k - 1
        BY <1>0, <2>0, <2>1
      <3> QED
        BY <1>0, <1>6, <1>8, <1>a, <2>1, <3>1
    <2>2. CASE ~ (j < k)
      <3> DEFINE i == j - (k - 1)
      <3>1. i \in 1 .. n - k /\ k + i = j + 1 /\ (k - 1) + i = j
        BY <1>0, <2>0, <2>2
      <3> HIDE DEF i
      <3>2. left[j] = b[i] /\ b[i] = s[k + i]
        BY <1>0, <1>6, <1>9, <1>a, <3>1 DEF n
      <3> QED
        BY <2>2, <3>1, <3>2
    <2> QED
      BY <2>1, <2>2
  <1> QED
    BY <1>10, <1>11 DEF left, n

\* What rename_free leaves of the registry and of the renames, with nobody between
\* registry_new and the insertion of a rename.
LEMMA FreeRename ==
    ASSUME StoreTypes, RegistryInv, \A t \in Threads : pc[t] # "insert",
           NEW r \in DOMAIN rename, rename_free(r), UNCHANGED name
    PROVE  /\ StoreTypes' /\ RegistryInv'
           /\ DOMAIN rename' = IF rename[r].use_count > 1 THEN DOMAIN rename ELSE DOMAIN rename \ {r}
           /\ rename[r].use_count > 1 => rename'[r].use_count = rename[r].use_count - 1
           /\ \A q \in DOMAIN rename \ {r} : q \in DOMAIN rename' /\ rename'[q] = rename[q]
  <1>1. rename[r] \in [use_count : Nat, base : Nat]
    BY DEF StoreTypes
  <1>2. CASE rename[r].use_count > 1
    <2>1. /\ rename' = [rename EXCEPT ![r].use_count = rename[r].use_count - 1]
          /\ UNCHANGED registry
      BY <1>2 DEF rename_free
    <2>2. /\ DOMAIN rename' = DOMAIN rename
          /\ rename'[r].use_count = rename[r].use_count - 1
          /\ rename'[r].base = rename[r].base
          /\ rename'[r] \in [use_count : Nat, base : Nat]
          /\ \A q \in DOMAIN rename \ {r} : rename'[q] = rename[q]
      BY <1>1, <1>2, <2>1
    <2>3. \A q \in DOMAIN rename : rename'[q].base = rename[q].base
      BY <2>2
    <2>4. StoreTypes'
      BY <2>1, <2>2 DEF StoreTypes, Indices
    <2>5. \A b \in DOMAIN registry \ DOMAIN rename : registry[b].renames # <<>>
      BY DEF RegistryInv
    <2>6. RegistryInv'
      BY <2>1, <2>2, <2>3, <2>5 DEF RegistryInv
    <2> QED
      BY <1>2, <2>2, <2>4, <2>6
  <1>3. CASE ~ (rename[r].use_count > 1)
    <2> DEFINE b == rename[r].base
    <2> DEFINE list == registry[b].renames
    <2> DEFINE left == Lists!RemoveFirst(list, r)
    <2> DEFINE gone == IF left = <<>> THEN {r, b} ELSE {r}
    <2>1. /\ registry' = [j \in DOMAIN registry \ gone |->
                            IF j = b THEN [registry[b] EXCEPT !.renames = left] ELSE registry[j]]
          /\ rename' = [q \in DOMAIN rename \ {r} |-> rename[q]]
      BY <1>3 DEF rename_free, Restrict
    <2>2. b \in DOMAIN registry \ DOMAIN rename /\ registry[b].base = 0 /\ r # b
      <3>1. \A q \in DOMAIN rename : rename[q].base \in DOMAIN registry \ DOMAIN rename
        BY Zenon DEF RegistryInv
      <3>2. \A x \in DOMAIN registry \ DOMAIN rename : registry[x].base = 0
        BY Zenon DEF RegistryInv
      <3>3. b \in DOMAIN registry \ DOMAIN rename
        BY <3>1, Zenon
      <3> QED
        BY <3>2, <3>3, Zenon
    <2>3. registry[b] \in [base : Nat, renames : Seq(Nat)] /\ list \in Seq(Nat)
      BY <2>2, SMTT(30) DEF StoreTypes
    <2>4. PICK k \in 1 .. Len(list) : list[k] = r
      BY <2>2 DEF RegistryInv
    <2>5. \A m, n \in 1 .. Len(list) : name[list[m]] = name[list[n]] => m = n
      BY <2>2 DEF RegistryInv
    <2>6. \A j \in 1 .. Len(list) : list[j] \in DOMAIN rename /\ rename[list[j]].base = b
      BY <2>2 DEF RegistryInv
    <2>7. /\ left \in Seq(Nat) /\ Len(left) = Len(list) - 1
          /\ \A j \in 1 .. Len(left) : left[j] = IF j < k THEN list[j] ELSE list[j + 1]
      <3> HIDE DEF list
      <3>1. \A j \in 1 .. Len(list) : list[j] = list[k] => j = k
        BY <2>5
      <3> QED
        BY <2>3, <2>4, <3>1, Unlinked
    <2>8. /\ DOMAIN registry' = DOMAIN registry \ gone
          /\ \A j \in DOMAIN registry' : j # b => registry'[j] = registry[j]
          /\ b \in DOMAIN registry' =>
               registry'[b] = [base |-> 0, renames |-> left] /\ left # <<>>
      BY <2>1, <2>2, <2>3
    <2>9. DOMAIN rename' = DOMAIN rename \ {r} /\ \A q \in DOMAIN rename' : rename'[q] = rename[q]
      BY <2>1
    <2> HIDE DEF list, left
    <2>a. Len(list) \in Nat /\ k \in Nat /\ k >= 1 /\ k <= Len(list)
      BY <2>3, <2>4
    <2>10. StoreTypes'
      <3>1. \A j \in DOMAIN registry' : registry'[j] \in [base : Nat, renames : Seq(Nat)]
        BY <2>7, <2>8 DEF StoreTypes
      <3> QED
        BY <2>8, <2>9, <3>1 DEF StoreTypes, Indices
    <2>11. ASSUME NEW q \in DOMAIN rename'
           PROVE  /\ q \in DOMAIN registry'
                  /\ registry'[q] = [base |-> rename'[q].base, renames |-> <<>>]
                  /\ rename'[q].base \in DOMAIN registry' \ DOMAIN rename'
      <3>1. q \in DOMAIN rename /\ q # r /\ q # b /\ rename'[q] = rename[q]
        BY <2>2, <2>9
      <3>2. q \in DOMAIN registry' /\ registry'[q] = registry[q]
        BY <2>8, <3>1 DEF RegistryInv
      <3>3. rename[q].base \in DOMAIN registry /\ rename[q].base \notin DOMAIN rename
        BY <3>1 DEF RegistryInv
      <3>4. rename[q].base = b => left # <<>>
        <4> HAVE rename[q].base = b
        <4>1. PICK j \in 1 .. Len(list) : list[j] = q
          BY <2>2, <3>1 DEF RegistryInv, list
        <4>2. j # k
          BY <2>4, <3>1, <4>1
        <4>3. Len(left) # 0
          BY <2>3, <2>4, <2>7, <4>1, <4>2
        <4> QED
          BY <4>3
      <3>5. registry[q] = [base |-> rename[q].base, renames |-> <<>>]
        BY <3>1 DEF RegistryInv
      <3>6. registry'[q] = [base |-> rename'[q].base, renames |-> <<>>]
        BY <3>1, <3>2, <3>5
      <3>7. rename[q].base # r
        BY <3>3
      <3>8. rename[q].base \in DOMAIN registry'
        BY <2>8, <3>3, <3>4, <3>7
      <3> QED
        BY <2>9, <3>1, <3>2, <3>3, <3>6, <3>8
    <2>12. ASSUME NEW c \in DOMAIN registry' \ DOMAIN rename'
           PROVE  /\ registry'[c].base = 0
                  /\ \A n \in 1 .. Len(registry'[c].renames) :
                       /\ registry'[c].renames[n] \in DOMAIN rename'
                       /\ rename'[registry'[c].renames[n]].base = c
                  /\ \A q \in DOMAIN rename' : rename'[q].base = c =>
                       \E n \in 1 .. Len(registry'[c].renames) : registry'[c].renames[n] = q
                  /\ \A m, n \in 1 .. Len(registry'[c].renames) :
                       name'[registry'[c].renames[m]] = name'[registry'[c].renames[n]] => m = n
                  /\ registry'[c].renames # <<>>
      <3>1. c \in DOMAIN registry \ DOMAIN rename /\ c # r
        BY <2>8, <2>9
      <3>2. CASE c # b
        <4>1. registry'[c] = registry[c] /\ registry[c].renames # <<>>
          BY <2>8, <3>1, <3>2 DEF RegistryInv
        <4>2. \A n \in 1 .. Len(registry[c].renames) :
                 registry[c].renames[n] \in DOMAIN rename /\ rename[registry[c].renames[n]].base = c
          BY <3>1 DEF RegistryInv
        <4>3. \A n \in 1 .. Len(registry[c].renames) : registry[c].renames[n] # r
          BY <3>2, <4>2
        <4>4. \A q \in DOMAIN rename : rename[q].base = c =>
                 \E n \in 1 .. Len(registry[c].renames) : registry[c].renames[n] = q
          BY <3>1 DEF RegistryInv
        <4>5. /\ registry[c].base = 0
              /\ \A m, n \in 1 .. Len(registry[c].renames) :
                   name[registry[c].renames[m]] = name[registry[c].renames[n]] => m = n
          BY <3>1 DEF RegistryInv
        <4> QED
          BY <2>9, <4>1, <4>2, <4>3, <4>4, <4>5
      <3>3. CASE c = b
        <4>1. registry'[c].base = 0 /\ registry'[c].renames = left /\ left # <<>>
          BY <2>8, <3>3
        <4>2. \A n \in 1 .. Len(left) :
                 \E j \in 1 .. Len(list) : left[n] = list[j] /\ j # k /\ j = IF n < k THEN n ELSE n + 1
          <5> TAKE n \in 1 .. Len(left)
          <5> DEFINE j == IF n < k THEN n ELSE n + 1
          <5>1. n \in Nat /\ n >= 1 /\ n <= Len(list) - 1
            BY <2>7, <2>a
          <5>2. j \in 1 .. Len(list) /\ j # k
            BY <2>a, <5>1
          <5>3. left[n] = list[j]
            BY <2>7
          <5> QED
            BY <5>2, <5>3
        <4>3. \A j \in 1 .. Len(list) : j # k => list[j] # r
          BY <2>4, <2>5
        <4>4. \A n \in 1 .. Len(left) : left[n] \in DOMAIN rename' /\ rename'[left[n]].base = c
          BY <2>6, <2>9, <3>3, <4>2, <4>3
        <4>5. ASSUME NEW q \in DOMAIN rename', rename'[q].base = c
              PROVE  \E n \in 1 .. Len(left) : left[n] = q
          <5>1. q \in DOMAIN rename /\ q # r /\ rename[q].base = b
            BY <2>9, <3>3, <4>5
          <5>2. PICK j \in 1 .. Len(list) : list[j] = q
            BY <2>2, <5>1 DEF RegistryInv, list
          <5>3. j # k
            BY <2>4, <5>1, <5>2
          <5>4. CASE j < k
            <6>1. j \in 1 .. Len(left)
              BY <2>7, <2>a, <5>2, <5>4
            <6>2. left[j] = list[j]
              BY <2>7, <5>4, <6>1
            <6> QED
              BY <5>2, <6>1, <6>2
          <5>5. CASE j > k
            <6>1. j - 1 \in 1 .. Len(left) /\ ~ (j - 1 < k) /\ (j - 1) + 1 = j
              BY <2>7, <2>a, <5>2, <5>5
            <6>2. left[j - 1] = list[j]
              BY <2>7, <6>1
            <6> QED
              BY <5>2, <6>1, <6>2
          <5> QED
            BY <2>a, <5>2, <5>3, <5>4, <5>5
        <4>6. \A m, n \in 1 .. Len(left) : name[left[m]] = name[left[n]] => m = n
          <5> TAKE m, n \in 1 .. Len(left)
          <5> HAVE name[left[m]] = name[left[n]]
          <5>1. PICK i \in 1 .. Len(list) : left[m] = list[i] /\ i # k /\ i = IF m < k THEN m ELSE m + 1
            BY <4>2
          <5>2. PICK j \in 1 .. Len(list) : left[n] = list[j] /\ j # k /\ j = IF n < k THEN n ELSE n + 1
            BY <4>2
          <5>3. i = j
            BY <2>5, <5>1, <5>2
          <5>4. m \in Nat /\ n \in Nat /\ k \in Nat
            BY <2>7, <2>a
          <5> QED
            BY <5>1, <5>2, <5>3, <5>4
        <4> QED
          BY <4>1, <4>4, <4>5, <4>6
      <3> QED
        BY <3>2, <3>3
    <2>13. RegistryInv'
      BY <2>11, <2>12 DEF RegistryInv
    <2> QED
      BY <1>3, <2>9, <2>10, <2>13
  <1> QED
    BY <1>2, <1>3

-----------------------------------------------------------------------------
(* Calls on their way down.                                                *)

\* What every call that c turns into has in common with it.
Down(c, d) == d.op = c.op /\ d.from = c.from /\ d.layer = Below[c.layer]

LEMMA CallsGrow ==
    ASSUME NEW m \in Nat, NEW n \in Nat, m <= n
    PROVE  Calls(m) \subseteq Calls(n) /\ Seq(Calls(m)) \subseteq Seq(Calls(n))
  <1>1. Calls(m) \subseteq Calls(n)
    BY DEF Calls
  <1> QED
    BY <1>1

\* The calls that a layer makes to the layer below.
LEMMA PassedFacts ==
    ASSUME NEW n \in Nat, NEW c \in Calls(n), c.layer # 0, c.op # "free", NEW g \in 0 .. n,
           c.op \in Registering => g # 0
    PROVE  /\ Passed(c, g) \in Seq(Calls(n))
           /\ \A k \in 1 .. Len(Passed(c, g)) : Down(c, Passed(c, g)[k])
  <1> DEFINE Fields == [op : OpNames, layer : Layers \cup {0}, sig : 0 .. n, from : Layers, root : Roots,
                        has_deps : BOOLEAN, settled : BOOLEAN]
  <1>1. /\ c \in Fields /\ c.op \in OpNames /\ c.layer \in Layers /\ c.sig \in 0 .. n
        /\ (c.op \in Registering => c.sig # 0) /\ Below[c.layer] \in Layers \cup {0}
    BY LayerFacts DEF Calls
  <1>2. ASSUME NEW i \in 0 .. n, c.op \in Registering => i # 0
        PROVE  /\ To(c, i) \in Calls(n) /\ Down(c, To(c, i))
               /\ [To(c, i) EXCEPT !.has_deps = TRUE] \in Calls(n)
               /\ Down(c, [To(c, i) EXCEPT !.has_deps = TRUE])
    <2>1. To(c, i) \in Fields /\ To(c, i).op = c.op /\ To(c, i).sig = i
          /\ To(c, i).from = c.from /\ To(c, i).layer = Below[c.layer]
      BY <1>1 DEF To
    <2> DEFINE d == [To(c, i) EXCEPT !.has_deps = TRUE]
    <2>2. d \in Fields /\ d.op = c.op /\ d.sig = i /\ d.from = c.from /\ d.layer = Below[c.layer]
      BY <2>1
    <2> HIDE DEF d
    <2>3. To(c, i) \in Calls(n) /\ d \in Calls(n)
      BY <1>2, <2>1, <2>2 DEF Calls
    <2> QED
      BY <2>1, <2>2, <2>3 DEF Down, d
  <1>3. /\ \A d, e \in Calls(n) : <<d, e>> \in Seq(Calls(n)) /\ <<d>> \in Seq(Calls(n))
        /\ <<>> \in Seq(Calls(n))
    OBVIOUS
  <1>4. /\ \A d : Down(c, d) => \A k \in 1 .. Len(<<d>>) : Down(c, <<d>>[k])
        /\ \A d, e : Down(c, d) /\ Down(c, e) => \A k \in 1 .. Len(<<d, e>>) : Down(c, <<d, e>>[k])
        /\ \A k \in 1 .. Len(<<>>) : Down(c, <<>>[k])
    OBVIOUS
  <1>5. To(c, g) \in Calls(n) /\ Down(c, To(c, g))
    BY <1>2
  <1>6. To(c, c.sig) \in Calls(n) /\ Down(c, To(c, c.sig))
    BY <1>1, <1>2
  <1>7. /\ [To(c, g) EXCEPT !.has_deps = TRUE] \in Calls(n)
        /\ Down(c, [To(c, g) EXCEPT !.has_deps = TRUE])
    BY <1>2
  <1>8. c.op \in OpNames \ {"free"}
    BY <1>1
  <1> HIDE DEF Fields
  <1>9. CASE c.op = "type_register"
    <2>1. Passed(c, g) = IF g = 0 THEN <<To(c, c.sig)>> ELSE <<To(c, c.sig), To(c, g)>>
      BY <1>9 DEF Passed, do_type_register
    <2> QED
      BY <1>3, <1>4, <1>5, <1>6, <2>1
  <1>10. CASE c.op = "type_bind"
    <2>1. Passed(c, g) = IF g = 0 THEN <<To(c, c.sig)>> ELSE <<[To(c, g) EXCEPT !.has_deps = TRUE]>>
      BY <1>10 DEF Passed, do_type_bind
    <2> QED
      BY <1>3, <1>4, <1>6, <1>7, <2>1
  <1>11. CASE c.op = "encode"
    <2>1. Passed(c, g) = IF g = 0 THEN <<>> ELSE <<To(c, g)>>
      BY <1>11 DEF Passed, do_encode
    <2> QED
      BY <1>3, <1>4, <1>5, <2>1
  <1>12. CASE c.op = "ioctl" \/ c.op = "ref_get"
    <2>1. Passed(c, g) = <<To(c, g)>> \/ Passed(c, g) = <<To(c, c.sig)>>
      BY <1>12 DEF Passed, do_ioctl, do_ref_get
    <2> QED
      BY <1>3, <1>4, <1>5, <1>6, <2>1
  <1>13. CASE c.op \in Registering
    <2>1. Passed(c, g) = <<To(c, g)>>
      BY <1>13 DEF Passed, Registering
    <2> QED
      BY <1>3, <1>4, <1>5, <2>1
  <1> QED
    BY <1>8, <1>9, <1>10, <1>11, <1>12, <1>13 DEF OpNames, Registering

\* A call that goes down one layer is still on a path of existing layers.
LEMMA PathDown ==
    ASSUME AliveClosed, NEW c, NEW d, Down(c, d), c.layer # 0,
           NEW S \in SUBSET alive, Path(c, S), alive \subseteq Layers
    PROVE  \E T \in SUBSET alive : Path(d, T)
  <1>1. c.layer \in S /\ c.layer \in Layers
    BY DEF Path
  <1>2. CASE Below[c.layer] = 0
    BY <1>2 DEF Path, Down
  <1>3. CASE Below[c.layer] # 0
    <2> DEFINE T == S \cup {Below[c.layer]}
    <2>1. T \in SUBSET alive
      BY <1>1, <1>3 DEF AliveClosed
    <2>2. Path(d, T)
      BY <1>1 DEF Path, Down
    <2> QED
      BY <2>1, <2>2
  <1> QED
    BY <1>2, <1>3

\* A thread's calls are replaced by others that belong to the same uses of layers.
LEMMA CallsReplaced ==
    ASSUME PathInv, FreeInv, AliveClosed, UNCHANGED alive, NEW t \in Threads,
           NEW more, DOMAIN todo = Threads, todo' = [todo EXCEPT ![t] = more],
           \A k \in 1 .. Len(more) :
              /\ more[k].op # "free"
              /\ \E j \in 1 .. Len(todo[t]) : more[k].from = todo[t][j].from
              /\ \E S \in SUBSET alive : Path(more[k], S)
    PROVE  PathInv' /\ FreeInv' /\ AliveClosed'
  <1>1. \A u \in Threads : todo'[u] = IF u = t THEN more ELSE todo[u]
    OBVIOUS
  <1>2. PathInv'
    BY <1>1 DEF PathInv
  <1>3. FreeInv'
    <2> SUFFICES ASSUME NEW u \in Threads, NEW n \in 1 .. Len(todo'[u]), todo'[u][n].op = "free"
                 PROVE  /\ Len(todo'[u]) = 1
                        /\ \A k \in alive : Below[k] # todo'[u][n].layer
                        /\ \A v \in Threads : \A m \in 1 .. Len(todo'[v]) :
                              v # u => todo'[v][m].from # todo'[u][n].layer
      BY DEF FreeInv
    <2>1. u # t /\ todo'[u] = todo[u]
      BY <1>1
    <2>2. /\ Len(todo[u]) = 1
          /\ \A k \in alive : Below[k] # todo[u][n].layer
          /\ \A v \in Threads : \A m \in 1 .. Len(todo[v]) :
                v # u => todo[v][m].from # todo[u][n].layer
      BY <2>1 DEF FreeInv
    <2> QED
      BY <1>1, <2>1, <2>2
  <1>4. AliveClosed'
    BY DEF AliveClosed
  <1> QED
    BY <1>2, <1>3, <1>4

\* The calls of a thread that goes on with g, or with the rest of its calls.
LEMMA GoFacts ==
    ASSUME ThreadTypes, PathInv, FreeInv, AliveClosed, alive \subseteq Layers, Len(name) \in Nat,
           NEW t \in Threads, todo[t] # <<>>, Head(todo[t]).op # "free"
    PROVE  LET c == Head(todo[t])  rest == Tail(todo[t]) IN
             /\ c \in Calls(Len(name)) /\ rest \in Seq(Calls(Len(name)))
             /\ \A k \in 1 .. Len(rest) :
                   /\ rest[k].op # "free"
                   /\ \E j \in 1 .. Len(todo[t]) : rest[k].from = todo[t][j].from
                   /\ \E S \in SUBSET alive : Path(rest[k], S)
             /\ \A g \in 0 .. Len(name) : c.layer # 0 /\ (c.op \in Registering => g # 0) =>
                   LET more == Passed(c, g) \o rest IN
                     /\ more \in Seq(Calls(Len(name)))
                     /\ \A k \in 1 .. Len(more) :
                           /\ more[k].op # "free"
                           /\ \E j \in 1 .. Len(todo[t]) : more[k].from = todo[t][j].from
                           /\ \E S \in SUBSET alive : Path(more[k], S)
  <1> DEFINE n == Len(name)
  <1> DEFINE s == todo[t]
  <1> DEFINE c == Head(s)
  <1> DEFINE rest == Tail(s)
  <1> DEFINE Good(d) == /\ d.op # "free"
                        /\ \E j \in 1 .. Len(s) : d.from = s[j].from
                        /\ \E S \in SUBSET alive : Path(d, S)
  <1>1. s \in Seq(Calls(n)) /\ s # <<>>
    BY DEF ThreadTypes
  <1>2. \A j \in 1 .. Len(s) : \E S \in SUBSET alive : Path(s[j], S)
    BY DEF PathInv
  <1>3. \A j \in 1 .. Len(s) : s[j].op = "free" => Len(s) = 1
    BY DEF FreeInv
  <1> HIDE DEF n, s
  <1>4. /\ c \in Calls(n) /\ rest \in Seq(Calls(n)) /\ c = s[1] /\ 1 \in 1 .. Len(s)
        /\ Len(rest) = Len(s) - 1 /\ Len(s) \in Nat /\ \A k \in 1 .. Len(rest) : rest[k] = s[k + 1]
    BY <1>1
  <1>5. \A k \in 1 .. Len(rest) : Good(rest[k])
    <2> TAKE k \in 1 .. Len(rest)
    <2>1. rest[k] = s[k + 1] /\ k + 1 \in 1 .. Len(s) /\ Len(s) # 1
      BY <1>4
    <2> HIDE DEF rest
    <2> QED
      BY <1>2, <1>3, <2>1
  <1>6. ASSUME NEW g \in 0 .. n, c.layer # 0, c.op \in Registering => g # 0
        PROVE  /\ Passed(c, g) \o rest \in Seq(Calls(n))
               /\ \A k \in 1 .. Len(Passed(c, g) \o rest) : Good((Passed(c, g) \o rest)[k])
    <2> DEFINE first == Passed(c, g)
    <2>0. n \in Nat /\ c.op # "free"
      BY DEF n, s
    <2>1. first \in Seq(Calls(n)) /\ \A k \in 1 .. Len(first) : Down(c, first[k])
      <3> HIDE DEF c
      <3> QED
        BY <1>4, <1>6, <2>0, PassedFacts
    <2>2. \A k \in 1 .. Len(first) : Good(first[k])
      <3> TAKE k \in 1 .. Len(first)
      <3>1. Down(c, first[k])
        BY <2>1
      <3>2. PICK S \in SUBSET alive : Path(c, S)
        BY <1>2, <1>4
      <3>3. \E T \in SUBSET alive : Path(first[k], T)
        BY <1>6, <3>1, <3>2, PathDown
      <3>4. first[k].op # "free" /\ first[k].from = s[1].from
        BY <1>4, <2>0, <3>1 DEF Down
      <3> QED
        BY <1>4, <3>3, <3>4
    <2> HIDE DEF first, rest, Good
    <2>3. \A k \in 1 .. Len(first \o rest) :
             \/ k \in 1 .. Len(first) /\ (first \o rest)[k] = first[k]
             \/ k - Len(first) \in 1 .. Len(rest) /\ (first \o rest)[k] = rest[k - Len(first)]
      BY <1>4, <2>1
    <2>4. first \o rest \in Seq(Calls(n))
      BY <1>4, <2>1
    <2> QED
      BY <1>5, <2>2, <2>3, <2>4 DEF first
  <1> QED
    BY <1>4, <1>5, <1>6 DEF n, s

-----------------------------------------------------------------------------
(* The steps of the threads.                                               *)

\* Steps that change nothing but where a thread is and what it has to do.
LEMMA QuietStep ==
    ASSUME IInv, UNCHANGED <<stores, renamed, alive, lock, entry>>, NEW t \in Threads,
           pc[t] = "call", NEW p \in {"call", "rename_new"}, pc' = [pc EXCEPT ![t] = p],
           NEW more \in Seq(Calls(Len(name))), todo' = [todo EXCEPT ![t] = more],
           p = "rename_new" =>
             more # <<>> /\ Head(more).op \in Registering /\ Head(more).layer # 0,
           PathInv' /\ FreeInv' /\ AliveClosed'
    PROVE  IInv'
  <1> USE DEF IInv
  <1>1. UNCHANGED <<name, registry, rename, base, renamed, alive, lock, entry>>
    BY DEF stores
  <1>2. StoreTypes' /\ TableTypes'
    BY <1>1 DEF StoreTypes, TableTypes, Indices
  <1>3. /\ \A u \in Threads : pc'[u] = IF u = t THEN p ELSE pc[u]
        /\ \A u \in Threads : todo'[u] = IF u = t THEN more ELSE todo[u]
    BY DEF ThreadTypes
  <1>4. ThreadTypes'
    BY <1>1 DEF ThreadTypes
  <1>5. UseInv'
    <2>1. DeadEmpty'
      BY <1>1 DEF UseInv, DeadEmpty
    <2> QED
      BY <2>1 DEF UseInv
  <1>6. PlaceInv'
    <2>1. HeadInv'
      BY <1>3 DEF PlaceInv, HeadInv
    <2>2. InsertInv'
      BY <1>1, <1>3 DEF PlaceInv, InsertInv
    <2>3. EntryInv'
      BY <1>1, <1>3 DEF PlaceInv, EntryInv
    <2>4. TakenInv'
      BY <1>1, <1>3 DEF PlaceInv, TakenInv
    <2> QED
      BY <2>1, <2>2, <2>3, <2>4 DEF PlaceInv
  <1>7. RegistryInv'
    <2>1. (\E u \in Threads : pc[u] = "insert") => \E u \in Threads : pc'[u] = "insert"
      BY <1>3
    <2> QED
      BY <1>1, <2>1 DEF RegistryInv
  <1>8. CountInv' /\ RefInv'
    BY <1>1 DEF CountInv, RefInv, Refs, Holders
  <1> QED
    BY <1>2, <1>4, <1>5, <1>6, <1>7, <1>8

\* The index that a layer's table has for a signature.
LEMMA TableFacts ==
    ASSUME IInv
    PROVE  /\ Len(name) \in Nat /\ alive \subseteq Layers /\ NRoots <= Len(name)
           /\ \A l \in Layers, i \in Nat : Get(renamed[l], i, 0) \in 0 .. Len(name)
           /\ \A t \in Threads : entry[t] \in 0 .. Len(name)
           /\ \A t \in Threads : todo[t] \in Seq(Calls(Len(name)))
  <1> USE DEF IInv
  <1>1. Len(name) \in Nat /\ NRoots <= Len(name) /\ DOMAIN rename \subseteq 1 .. Len(name)
    BY DEF StoreTypes, Indices
  <1>2. ASSUME NEW l \in Layers, NEW i \in Nat
        PROVE  Get(renamed[l], i, 0) \in 0 .. Len(name)
    BY <1>1 DEF RefInv
  <1>3. ASSUME NEW t \in Threads
        PROVE  entry[t] \in 0 .. Len(name)
    BY <1>1 DEF RefInv
  <1> QED
    BY <1>1, <1>2, <1>3 DEF TableTypes, ThreadTypes

LEMMA LookupStep ==
    ASSUME IInv, NEW t \in Threads, Lookup(t) \/ SetRenamed(t) \/ PlainCall(t)
    PROVE  IInv'
  <1> USE DEF IInv
  <1> DEFINE c == Head(todo[t])
  <1> DEFINE rest == Tail(todo[t])
  <1> DEFINE g == get_renamed(c.layer, c.sig)
  <1>1. /\ Len(name) \in Nat /\ alive \subseteq Layers /\ ThreadTypes
        /\ AliveClosed /\ PathInv /\ FreeInv
    BY TableFacts DEF UseInv
  <1>2. pc[t] = "call" /\ todo[t] # <<>> /\ DOMAIN todo = Threads /\ DOMAIN pc = Threads
    BY DEF Lookup, SetRenamed, PlainCall, At, ThreadTypes
  <1>3. c \in Calls(Len(name))
    BY <1>1, <1>2 DEF ThreadTypes
  <1>4. c.layer \in Layers \cup {0} /\ c.sig \in Nat /\ (c.op = "free" => c.layer # 0)
    BY <1>3, LayerFacts DEF Calls
  <1>5. c.op # "free"
    BY <1>4 DEF Lookup, SetRenamed, PlainCall, Registering
  <1>6. /\ UNCHANGED <<stores, renamed, alive, lock, entry>> /\ UNCHANGED alive
    BY DEF Lookup, SetRenamed, PlainCall
  <1>7. c.layer # 0 => g \in 0 .. Len(name)
    BY <1>4, TableFacts DEF get_renamed
  <1> HIDE DEF c, g, rest
  <1> DEFINE Good(s) == \A k \in 1 .. Len(s) :
                /\ s[k].op # "free"
                /\ \E j \in 1 .. Len(todo[t]) : s[k].from = todo[t][j].from
                /\ \E S \in SUBSET alive : Path(s[k], S)
  <1>8. ASSUME NEW s \in Seq(Calls(Len(name))), Good(s), todo' = [todo EXCEPT ![t] = s],
               UNCHANGED pc
        PROVE  IInv'
    <2>1. PathInv' /\ FreeInv' /\ AliveClosed'
      BY <1>1, <1>2, <1>6, <1>8, CallsReplaced
    <2>2. pc' = [pc EXCEPT ![t] = "call"]
      BY <1>2, <1>8 DEF ThreadTypes
    <2> HIDE DEF IInv
    <2> QED
      BY <1>2, <1>6, <1>8, <2>1, <2>2, QuietStep
  <1>9. /\ rest \in Seq(Calls(Len(name))) /\ Good(rest)
        /\ \A h \in 0 .. Len(name) : c.layer # 0 /\ (c.op \in Registering => h # 0) =>
              /\ Passed(c, h) \o rest \in Seq(Calls(Len(name))) /\ Good(Passed(c, h) \o rest)
    BY <1>1, <1>2, <1>5, GoFacts DEF c, rest
  <1> HIDE DEF Good
  <1>10. CASE PlainCall(t)
    <2>1. todo' = [todo EXCEPT ![t] = rest] /\ UNCHANGED pc
      BY <1>10 DEF PlainCall, rest
    <2> QED
      BY <1>8, <1>9, <2>1
  <1>11. CASE (Lookup(t) \/ SetRenamed(t)) /\ UNCHANGED pc /\ Go(t, g)
    <2>1. todo' = [todo EXCEPT ![t] = Passed(c, g) \o rest] /\ UNCHANGED pc
      BY <1>11 DEF Go, c, rest
    <2>2. c.layer # 0 /\ (c.op \in Registering => g # 0)
      BY <1>2, <1>11 DEF Lookup, SetRenamed, c, g
    <2> QED
      BY <1>7, <1>8, <1>9, <2>1, <2>2
  <1>12. CASE SetRenamed(t) /\ pc' = [pc EXCEPT ![t] = "rename_new"] /\ UNCHANGED todo
    <2>1. c.layer # 0 /\ c.op \in Registering
      BY <1>12 DEF SetRenamed, c
    <2>2. todo' = [todo EXCEPT ![t] = todo[t]] /\ todo[t] \in Seq(Calls(Len(name)))
      BY <1>12, <1>1 DEF ThreadTypes
    <2>3. PathInv' /\ FreeInv' /\ AliveClosed'
      BY <1>1, <1>6, <1>12 DEF PathInv, FreeInv, AliveClosed
    <2> HIDE DEF IInv
    <2> QED
      BY <1>2, <1>6, <1>12, <2>1, <2>2, <2>3, QuietStep DEF c
  <1> QED
    BY <1>10, <1>11, <1>12 DEF Lookup, SetRenamed, c, g

\* The calls the application makes.
LEMMA CallFacts ==
    ASSUME IInv, NEW l \in alive, NEW s \in Roots, NEW op \in OpNames
    PROVE  LET c == Call(l, s, op) IN
             /\ c \in Calls(Len(name)) /\ c.op = op /\ c.from = l /\ c.layer = l
             /\ \E S \in SUBSET alive : Path(c, S)
  <1> DEFINE c == Call(l, s, op)
  <1> DEFINE Fields == [op : OpNames, layer : Layers \cup {0}, sig : 0 .. Len(name), from : Layers,
                        root : Roots, has_deps : BOOLEAN, settled : BOOLEAN]
  <1>1. l \in Layers /\ s \in 0 .. Len(name) /\ s # 0
    <2>1. l \in Layers /\ NRoots <= Len(name) /\ Len(name) \in Nat
      BY TableFacts
    <2>2. s \in 1 .. NRoots /\ NRoots \in Nat
      BY LayersAssumption DEF Roots
    <2> QED
      BY <2>1, <2>2
  <1>2. (op = "type_bind" /\ s \in Depends) \in BOOLEAN /\ Known(l, s) \in BOOLEAN
    BY DEF Known
  <1>3. c \in Fields /\ c.op = op /\ c.from = l /\ c.layer = l /\ c.sig = s
    BY <1>1, <1>2 DEF Call
  <1> HIDE DEF c
  <1>4. c \in Calls(Len(name))
    BY <1>1, <1>3 DEF Calls
  <1>5. Path(c, {l}) /\ {l} \in SUBSET alive
    BY <1>3 DEF Path
  <1> QED
    BY <1>3, <1>4, <1>5 DEF c

LEMMA UseStep ==
    ASSUME IInv, NEW t \in Threads, NEW l \in Layers, NEW s \in Samples[l], Use(t, l, s)
    PROVE  IInv'
  <1> DEFINE N == OpNames \ {"free"}
  <1>1. /\ ThreadTypes /\ AliveClosed /\ PathInv /\ FreeInv /\ PlaceInv
        /\ l \in alive /\ s \in Roots /\ todo[t] = <<>> /\ Len(name) \in Nat
        /\ UNCHANGED <<stores, renamed, alive, lock, entry>> /\ UNCHANGED <<alive, pc>>
    BY TableFacts, LayersAssumption DEF IInv, UseInv, Use
  <1>2. pc[t] = "call" /\ pc' = [pc EXCEPT ![t] = "call"] /\ DOMAIN todo = Threads
    BY <1>1 DEF PlaceInv, HeadInv, ThreadTypes
  <1>3. \E more \in Seq(Calls(Len(name))) :
           /\ todo' = [todo EXCEPT ![t] = more]
           /\ \A k \in 1 .. Len(more) : \E op \in N : more[k] = Call(l, s, op)
    <2>1. CASE RegisterSample(t, l, s)
      <3> DEFINE types == IF s \in Depends THEN <<"type_register">> ELSE <<>>
      <3> DEFINE ops == IF l \in Decoders THEN <<"sample_register">>
                        ELSE <<"sample_register">> \o types \o <<"type_bind">>
      <3>1. types \in Seq(N) /\ <<"sample_register">> \in Seq(N) /\ <<"type_bind">> \in Seq(N)
        <4>1. "type_register" \in N /\ "sample_register" \in N /\ "type_bind" \in N
          BY DEF OpNames
        <4> HIDE DEF N
        <4>2. <<>> \in Seq(N) /\ \A x \in N : <<x>> \in Seq(N)
          OBVIOUS
        <4> QED
          BY <4>1, <4>2
      <3> HIDE DEF types
      <3>2. <<"sample_register">> \o types \in Seq(N)
        BY <3>1
      <3>3. (<<"sample_register">> \o types) \o <<"type_bind">> \in Seq(N)
        BY <3>1, <3>2
      <3>4. ops \in Seq(N)
        BY <3>1, <3>3
      <3> DEFINE more == [n \in DOMAIN ops |-> Call(l, s, ops[n])]
      <3>5. todo' = [todo EXCEPT ![t] = more]
        BY <2>1 DEF RegisterSample, types
      <3> HIDE DEF ops
      <3>6. DOMAIN ops = 1 .. Len(ops) /\ Len(ops) \in Nat /\ \A n \in 1 .. Len(ops) : ops[n] \in N
        BY <3>4
      <3>7. \A n \in 1 .. Len(ops) : more[n] = Call(l, s, ops[n]) /\ more[n] \in Calls(Len(name))
        BY <1>1, <3>6, CallFacts
      <3>8. more \in [1 .. Len(ops) -> Calls(Len(name))]
        BY <3>6, <3>7
      <3>9. more \in Seq(Calls(Len(name))) /\ Len(more) = Len(ops)
        <4> HIDE DEF more
        <4> QED
          BY <3>6, <3>8
      <3> HIDE DEF more
      <3> QED
        BY <3>5, <3>6, <3>7, <3>9
    <2>2. CASE \E op \in Ops[l] : Other(t, l, s, op)
      <3>1. PICK op \in Ops[l] : todo' = [todo EXCEPT ![t] = <<Call(l, s, op)>>]
        BY <2>2 DEF Other
      <3>2. op \in N
        BY LayersAssumption DEF OpNames
      <3>3. Call(l, s, op) \in Calls(Len(name))
        BY <1>1, <3>2, CallFacts
      <3>4. <<Call(l, s, op)>> \in Seq(Calls(Len(name))) /\ Len(<<Call(l, s, op)>>) = 1
            /\ \A k \in 1 .. 1 : <<Call(l, s, op)>>[k] = Call(l, s, op)
        BY <3>3
      <3> QED
        BY <3>1, <3>2, <3>4
    <2> QED
      BY <2>1, <2>2 DEF Use
  <1>4. PICK more \in Seq(Calls(Len(name))) :
           /\ todo' = [todo EXCEPT ![t] = more]
           /\ \A k \in 1 .. Len(more) : \E op \in N : more[k] = Call(l, s, op)
    BY <1>3
  <1>5. \A k \in 1 .. Len(more) :
           more[k].op # "free" /\ more[k].from = l /\ \E S \in SUBSET alive : Path(more[k], S)
    BY <1>1, <1>4, CallFacts
  <1>6. \A u \in Threads : todo'[u] = IF u = t THEN more ELSE todo[u]
    BY <1>2, <1>4
  <1>7. PathInv'
    BY <1>1, <1>5, <1>6 DEF PathInv
  <1>8. AliveClosed'
    BY <1>1 DEF AliveClosed
  <1>9. FreeInv'
    <2> SUFFICES ASSUME NEW u \in Threads, NEW n \in 1 .. Len(todo'[u]), todo'[u][n].op = "free"
                 PROVE  /\ Len(todo'[u]) = 1
                        /\ \A k \in alive : Below[k] # todo'[u][n].layer
                        /\ \A v \in Threads : \A m \in 1 .. Len(todo'[v]) :
                              v # u => todo'[v][m].from # todo'[u][n].layer
      BY <1>1 DEF FreeInv
    <2>1. u # t /\ todo'[u] = todo[u]
      BY <1>5, <1>6
    <2>2. /\ Len(todo[u]) = 1
          /\ \A k \in alive : Below[k] # todo[u][n].layer
          /\ \A v \in Threads : \A m \in 1 .. Len(todo[v]) :
                v # u => todo[v][m].from # todo[u][n].layer
      BY <1>1, <2>1 DEF FreeInv
    <2>3. todo[u] \in Seq(Calls(Len(name))) /\ DOMAIN todo[u] = 1 .. Len(todo[u])
      BY <1>1 DEF ThreadTypes
    <2>4. todo[u][n] \in Calls(Len(name)) /\ todo[u][n].from # l
      BY <2>1, <2>3 DEF Use
    <2>5. todo[u][n].layer # l
      BY <2>1, <2>4 DEF Calls
    <2> QED
      BY <1>5, <1>6, <2>1, <2>2, <2>5
  <1> QED
    BY <1>1, <1>2, <1>4, <1>7, <1>8, <1>9, QuietStep

LEMMA FreeStep ==
    ASSUME IInv, NEW t \in Threads, NEW l \in Layers, Free(t, l)
    PROVE  IInv'
  <1> DEFINE c == Call(l, 1, "free")
  <1>1. /\ ThreadTypes /\ AliveClosed /\ PathInv /\ FreeInv /\ PlaceInv
        /\ l \in alive /\ 1 \in Roots /\ todo[t] = <<>> /\ Len(name) \in Nat
        /\ UNCHANGED <<stores, renamed, alive, lock, entry>> /\ UNCHANGED <<alive, pc>>
    BY TableFacts, LayersAssumption DEF IInv, UseInv, Free, Roots
  <1>2. pc[t] = "call" /\ pc' = [pc EXCEPT ![t] = "call"] /\ DOMAIN todo = Threads
    BY <1>1 DEF PlaceInv, HeadInv, ThreadTypes
  <1>3. /\ c \in Calls(Len(name)) /\ c.op = "free" /\ c.from = l /\ c.layer = l
        /\ \E S \in SUBSET alive : Path(c, S)
    BY <1>1, CallFacts DEF OpNames
  <1>4. todo' = [todo EXCEPT ![t] = <<c>>]
    BY DEF Free
  <1> HIDE DEF c
  <1>5. <<c>> \in Seq(Calls(Len(name))) /\ Len(<<c>>) = 1 /\ \A k \in 1 .. 1 : <<c>>[k] = c
    BY <1>3
  <1>6. \A u \in Threads : todo'[u] = IF u = t THEN <<c>> ELSE todo[u]
    BY <1>2, <1>4
  <1>7. PathInv'
    BY <1>1, <1>3, <1>5, <1>6 DEF PathInv
  <1>8. AliveClosed'
    BY <1>1 DEF AliveClosed
  <1>9. FreeInv'
    <2> SUFFICES ASSUME NEW u \in Threads, NEW n \in 1 .. Len(todo'[u]), todo'[u][n].op = "free"
                 PROVE  /\ Len(todo'[u]) = 1
                        /\ \A k \in alive : Below[k] # todo'[u][n].layer
                        /\ \A v \in Threads : \A m \in 1 .. Len(todo'[v]) :
                              v # u => todo'[v][m].from # todo'[u][n].layer
      BY <1>1 DEF FreeInv
    <2>1. \A v \in Threads : \A m \in 1 .. Len(todo[v]) : todo[v][m].from # l
      <3> TAKE v \in Threads
      <3>1. DOMAIN todo[v] = 1 .. Len(todo[v])
        BY <1>1 DEF ThreadTypes
      <3> QED
        BY <3>1 DEF Free
    <2>2. CASE u = t
      <3>1. todo'[u] = <<c>> /\ todo'[u][n] = c
        BY <1>5, <1>6, <2>2
      <3>2. \A k \in alive : Below[k] # l
        BY DEF Free
      <3> QED
        BY <1>3, <1>5, <1>6, <2>1, <2>2, <3>1, <3>2
    <2>3. CASE u # t
      <3>1. todo'[u] = todo[u]
        BY <1>6, <2>3
      <3>2. /\ Len(todo[u]) = 1
            /\ \A k \in alive : Below[k] # todo[u][n].layer
            /\ \A v \in Threads : \A m \in 1 .. Len(todo[v]) :
                  v # u => todo[v][m].from # todo[u][n].layer
        BY <1>1, <3>1 DEF FreeInv
      <3>3. todo[u][n] \in Calls(Len(name))
        <4>1. todo[u] \in Seq(Calls(Len(name)))
          BY <1>1 DEF ThreadTypes
        <4> QED
          BY <3>1, <4>1
      <3>4. todo[u][n].layer # l
        BY <2>1, <3>1, <3>3 DEF Calls
      <3> QED
        BY <1>3, <1>5, <1>6, <3>1, <3>2, <3>4
    <2> QED
      BY <2>2, <2>3
  <1> QED
    BY <1>1, <1>2, <1>4, <1>5, <1>7, <1>8, <1>9, QuietStep

\* Tables that have the same elements make the same references.
LEMMA SameRefs ==
    ASSUME NEW n \in Nat, NEW S, NEW T,
           \A l \in Layers, i \in Nat : Get(T[l], i, 0) = Get(S[l], i, 0)
    PROVE  \A r : Refs(T, n, r) = Refs(S, n, r)
  <1>1. \A e \in Layers \X (1 .. n) : Get(T[e[1]], e[2], 0) = Get(S[e[1]], e[2], 0)
    <2> TAKE e \in Layers \X (1 .. n)
    <2>1. e[1] \in Layers /\ e[2] \in Nat
      OBVIOUS
    <2> QED
      BY <2>1
  <1> QED
    BY <1>1 DEF Refs

LEMMA NewStep ==
    ASSUME IInv, NEW l \in Layers, New(l)
    PROVE  IInv'
  <1> USE DEF IInv
  <1>1. /\ UNCHANGED <<name, registry, rename, base, lock, pc, entry, todo>>
        /\ alive' = alive \cup {l} /\ l \notin alive /\ (Below[l] # 0 => Below[l] \in alive)
        /\ renamed' = [renamed EXCEPT ![l] = EmptyArray]
    BY DEF New, stores
  <1>2. /\ \A k \in Layers : renamed'[k] = IF k = l THEN EmptyArray ELSE renamed[k]
        /\ renamed' \in [Layers -> Arrays]
    BY <1>1, ArrayFacts DEF TableTypes
  <1>3. \A k \in Layers, i \in Nat : Get(renamed'[k], i, 0) = Get(renamed[k], i, 0)
    BY <1>1, <1>2, ArrayFacts DEF UseInv, DeadEmpty
  <1>4. StoreTypes' /\ ThreadTypes'
    BY <1>1 DEF StoreTypes, ThreadTypes, Indices
  <1>5. TableTypes'
    BY <1>1, <1>2, <1>3 DEF TableTypes, Indices
  <1>6. UseInv'
    <2>1. AliveClosed'
      BY <1>1 DEF UseInv, AliveClosed
    <2>2. PathInv'
      BY <1>1 DEF UseInv, PathInv
    <2>3. FreeInv'
      <3>1. ASSUME NEW u \in Threads, NEW n \in 1 .. Len(todo[u])
            PROVE  todo[u][n].op # "free"
        <4>1. DOMAIN todo[u] = 1 .. Len(todo[u])
          BY DEF ThreadTypes
        <4> QED
          BY <4>1 DEF New
      <3> QED
        BY <1>1, <3>1 DEF FreeInv
    <2>4. DeadEmpty'
      BY <1>1, <1>3 DEF UseInv, DeadEmpty
    <2> QED
      BY <2>1, <2>2, <2>3, <2>4 DEF UseInv
  <1>7. PlaceInv'
    <2>1. HeadInv' /\ InsertInv' /\ EntryInv'
      BY <1>1 DEF PlaceInv, HeadInv, InsertInv, EntryInv
    <2>2. TakenInv'
      <3> SUFFICES ASSUME NEW t \in Threads, pc[t] = "rename_free"
                   PROVE  Get(renamed'[Head(todo[t]).layer], Head(todo[t]).sig, 0) # 0
        BY <1>1 DEF TakenInv
      <3>1. todo[t] # <<>> /\ Head(todo[t]).layer # 0 /\ todo[t] \in Seq(Calls(Len(name)))
        BY DEF PlaceInv, HeadInv, ThreadTypes
      <3>2. Head(todo[t]) \in Calls(Len(name))
        BY <3>1
      <3>3. Head(todo[t]).layer \in Layers /\ Head(todo[t]).sig \in Nat
        BY <3>1, <3>2 DEF Calls
      <3> QED
        BY <1>3, <3>3 DEF PlaceInv, TakenInv
    <2> QED
      BY <2>1, <2>2 DEF PlaceInv
  <1>8. RegistryInv'
    BY <1>1 DEF RegistryInv
  <1>9. CountInv'
    <2>1. Len(name) \in Nat
      BY DEF StoreTypes
    <2>2. \A r : Refs(renamed', Len(name), r) = Refs(renamed, Len(name), r)
      BY <1>3, <2>1, SameRefs
    <2>3. \A r \in DOMAIN rename :
            rename[r].use_count =
              Cardinality(Refs(renamed', Len(name), r)) + Cardinality(Holders(entry, r))
      BY <2>2 DEF CountInv
    <2> QED
      BY <1>1, <2>3 DEF CountInv
  <1>10. RefInv'
    BY <1>1, <1>3 DEF RefInv
  <1> QED
    BY <1>4, <1>5, <1>6, <1>7, <1>8, <1>9, <1>10

\* Nobody is between registry_new and the insertion of a rename while the data lock is free.
LEMMA NobodyInserts ==
    ASSUME InsertInv, ThreadTypes, Unlocked("data")
    PROVE  \A t \in Threads : pc[t] # "insert"
  BY LayersAssumption DEF InsertInv, Unlocked

\* What a thread inside set_renamed works for: a layer that exists and a signature.
LEMMA InsideFacts ==
    ASSUME IInv, NEW t \in Threads, pc[t] # "call"
    PROVE  LET c == Head(todo[t]) IN
             /\ todo[t] # <<>> /\ c \in Calls(Len(name)) /\ c.op \in Registering
             /\ c.op # "free" /\ c.layer \in alive /\ c.layer \in Layers /\ c.layer # 0
             /\ c.sig \in Indices /\ c.sig \in Nat \ {0}
  <1> DEFINE c == Head(todo[t])
  <1>1. /\ todo[t] # <<>> /\ c.op \in Registering /\ c.layer # 0
        /\ todo[t] \in Seq(Calls(Len(name))) /\ Len(name) \in Nat
    BY TableFacts DEF IInv, PlaceInv, HeadInv
  <1>2. c \in Calls(Len(name)) /\ c = todo[t][1] /\ 1 \in 1 .. Len(todo[t])
    BY <1>1
  <1>3. PICK S \in SUBSET alive : Path(c, S)
    BY <1>2 DEF IInv, UseInv, PathInv
  <1>4. c.layer \in alive
    BY <1>1, <1>3 DEF Path
  <1> HIDE DEF c
  <1>5. c.layer \in Layers /\ c.sig \in 1 .. Len(name)
    BY <1>1, <1>2 DEF Calls
  <1> QED
    BY <1>1, <1>2, <1>4, <1>5 DEF c, Registering, Indices

LEMMA RenameNewStep ==
    ASSUME IInv, NEW t \in Threads, RenameNew(t)
    PROVE  IInv'
  <1> USE DEF IInv
  <1> DEFINE i == Head(todo[t]).sig
  <1>1. /\ UNCHANGED <<name, rename, renamed, alive, entry, todo>>
        /\ pc[t] = "rename_new" /\ pc' = [pc EXCEPT ![t] = "insert"]
        /\ lock' = [lock EXCEPT !["data"] = t]
        /\ registry' = registry_new(registry, i, 0)
        /\ base' = IF registry'[i].base # 0 THEN registry'[i].base ELSE i
    BY DEF RenameNew, At
  <1>2. \A u \in Threads : pc[u] # "insert"
    BY NobodyInserts DEF RenameNew, PlaceInv
  <1>3. i \in Indices /\ Indices \subseteq Nat \ {0}
    BY <1>1, InsideFacts DEF Indices
  <1> HIDE DEF i
  <1>4. /\ \A u \in Threads : pc'[u] = IF u = t THEN "insert" ELSE pc[u]
        /\ lock'["data"] = t
    BY <1>1 DEF ThreadTypes
  <1>5. /\ DOMAIN registry' = DOMAIN registry \cup {i}
        /\ \A j \in DOMAIN registry : registry'[j] = registry[j]
        /\ i \notin DOMAIN registry => registry'[i] = [base |-> 0, renames |-> <<>>]
    BY <1>1 DEF registry_new
  <1>6. \A b \in DOMAIN registry \ DOMAIN rename : registry[b].renames # <<>>
    BY <1>2 DEF RegistryInv
  <1>a. \A r \in DOMAIN rename :
           /\ r \in DOMAIN registry /\ registry[r].base = rename[r].base
           /\ rename[r].base \in DOMAIN registry \ DOMAIN rename
    <2>1. RegistryInv
      OBVIOUS
    <2> TAKE r \in DOMAIN rename
    <2>2. /\ r \in DOMAIN registry
          /\ registry[r] = [base |-> rename[r].base, renames |-> <<>>]
          /\ rename[r].base \in DOMAIN registry \ DOMAIN rename
      <3> HIDE DEF IInv
      <3> QED
        BY <2>1 DEF RegistryInv
    <2> QED
      BY <2>2
  <1>7. base' \in DOMAIN registry' \ DOMAIN rename /\ (i \notin DOMAIN registry => base' = i)
    <2>1. CASE i \in DOMAIN rename
      <3>1. registry'[i].base = rename[i].base /\ rename[i].base \in DOMAIN registry \ DOMAIN rename
            /\ i \in DOMAIN registry
        BY <1>5, <1>a, <2>1
      <3>2. registry'[i].base # 0
        BY <1>3, <3>1 DEF StoreTypes
      <3> QED
        BY <1>1, <1>5, <3>1, <3>2
    <2>2. CASE i \in DOMAIN registry \ DOMAIN rename
      BY <1>1, <1>5, <2>2 DEF RegistryInv
    <2>3. CASE i \notin DOMAIN registry
      <3>1. i \notin DOMAIN rename
        BY <2>3 DEF RegistryInv
      <3> QED
        BY <1>1, <1>5, <2>3, <3>1
    <2> QED
      BY <2>1, <2>2, <2>3
  <1>8. StoreTypes'
    <2>1. <<>> \in Seq(Nat)
      OBVIOUS
    <2>2. [base |-> 0, renames |-> <<>>] \in [base : Nat, renames : Seq(Nat)]
      BY <2>1
    <2>3. \A j \in DOMAIN registry : registry[j] \in [base : Nat, renames : Seq(Nat)]
      BY DEF StoreTypes
    <2>4. \A j \in DOMAIN registry' : registry'[j] \in [base : Nat, renames : Seq(Nat)]
      BY <1>5, <2>2, <2>3
    <2> QED
      BY <1>1, <1>3, <1>5, <2>4 DEF StoreTypes, Indices
  <1>9. TableTypes' /\ ThreadTypes'
    BY <1>1 DEF TableTypes, ThreadTypes, Indices
  <1>10. UseInv'
    BY <1>1 DEF UseInv, AliveClosed, PathInv, FreeInv, DeadEmpty
  <1>11. PlaceInv'
    <2>1. HeadInv'
      BY <1>1, <1>4 DEF PlaceInv, HeadInv
    <2>2. InsertInv'
      BY <1>1, <1>2, <1>4, <1>7 DEF InsertInv
    <2>3. EntryInv'
      BY <1>1, <1>4 DEF PlaceInv, EntryInv
    <2>4. TakenInv'
      BY <1>1, <1>4 DEF PlaceInv, TakenInv
    <2> QED
      BY <2>1, <2>2, <2>3, <2>4 DEF PlaceInv
  <1>12. RegistryInv'
    <2>1. ASSUME NEW r \in DOMAIN rename
          PROVE  /\ r \in DOMAIN registry'
                 /\ registry'[r] = [base |-> rename[r].base, renames |-> <<>>]
                 /\ rename[r].base \in DOMAIN registry' \ DOMAIN rename
      BY <1>5 DEF RegistryInv
    <2>2. ASSUME NEW b \in DOMAIN registry' \ DOMAIN rename
          PROVE  LET list == registry'[b].renames IN
                   /\ registry'[b].base = 0
                   /\ \A n \in 1 .. Len(list) : list[n] \in DOMAIN rename /\ rename[list[n]].base = b
                   /\ \A r \in DOMAIN rename : rename[r].base = b => \E n \in 1 .. Len(list) : list[n] = r
                   /\ \A m, n \in 1 .. Len(list) : name[list[m]] = name[list[n]] => m = n
                   /\ list = <<>> => base' = b /\ \E u \in Threads : pc'[u] = "insert"
      <3>1. CASE b \in DOMAIN registry
        <4>1. registry'[b] = registry[b] /\ registry[b].renames # <<>>
          BY <1>5, <1>6, <3>1
        <4> QED
          BY <3>1, <4>1 DEF RegistryInv
      <3>2. CASE b \notin DOMAIN registry
        <4>1. b = i /\ registry'[b].base = 0 /\ registry'[b].renames = <<>> /\ base' = b
          BY <1>5, <1>7, <3>2
        <4>2. \A r \in DOMAIN rename : rename[r].base # b
          BY <1>a, <3>2
        <4>3. Len(<<>>) = 0 /\ 1 .. 0 = {}
          OBVIOUS
        <4> QED
          BY <1>4, <4>1, <4>2, <4>3
      <3> QED
        BY <3>1, <3>2
    <2> QED
      BY <1>1, <2>1, <2>2 DEF RegistryInv
  <1>13. CountInv' /\ RefInv'
    BY <1>1 DEF CountInv, RefInv, Refs, Holders
  <1> QED
    BY <1>8, <1>9, <1>10, <1>11, <1>12, <1>13

\* Assignments to a thread's entry and to an element of a layer's table.
LEMMA EntryChange ==
    ASSUME entry \in [Threads -> Nat], NEW t \in Threads, NEW w \in Nat, entry[t] # w,
           entry' = [entry EXCEPT ![t] = w]
    PROVE  /\ entry' \in [Threads -> Nat]
           /\ \A u \in Threads : entry'[u] = IF u = t THEN w ELSE entry[u]
           /\ Cardinality(Holders(entry', w)) = Cardinality(Holders(entry, w)) + 1
           /\ Cardinality(Holders(entry, entry[t])) = Cardinality(Holders(entry', entry[t])) + 1
           /\ \A r : r \notin {entry[t], w} => Holders(entry', r) = Holders(entry, r)
  <1> DEFINE F == [entry EXCEPT ![t] = w]
  <1>1. /\ Cardinality(Holders(F, w)) = Cardinality(Holders(entry, w)) + 1
        /\ Cardinality(Holders(entry, entry[t])) = Cardinality(Holders(F, entry[t])) + 1
        /\ \A r : r \notin {entry[t], w} => Holders(F, r) = Holders(entry, r)
    BY HoldersChange
  <1>2. F \in [Threads -> Nat] /\ \A u \in Threads : F[u] = IF u = t THEN w ELSE entry[u]
    OBVIOUS
  <1>3. entry' = F
    OBVIOUS
  <1> HIDE DEF F
  <1> QED
    BY <1>1, <1>2, <1>3

Writes(l, i, w) == renamed' = [renamed EXCEPT ![l] = Put(@, i, w)]

LEMMA TableChange ==
    ASSUME renamed \in [Layers -> Arrays], NEW n \in Nat, NEW l \in Layers, NEW i \in 1 .. n,
           NEW w \in Nat, Get(renamed[l], i, 0) # w, Writes(l, i, w)
    PROVE  LET v == Get(renamed[l], i, 0) IN
             /\ renamed' \in [Layers -> Arrays]
             /\ \A k \in Layers, j \in Nat :
                   Get(renamed'[k], j, 0) = IF k = l /\ j = i THEN w ELSE Get(renamed[k], j, 0)
             /\ Cardinality(Refs(renamed', n, w)) = Cardinality(Refs(renamed, n, w)) + 1
             /\ Cardinality(Refs(renamed, n, v)) = Cardinality(Refs(renamed', n, v)) + 1
             /\ \A r : r \notin {v, w} => Refs(renamed', n, r) = Refs(renamed, n, r)
  <1> DEFINE a == renamed[l]
  <1> DEFINE T == [renamed EXCEPT ![l] = Put(a, i, w)]
  <1>1. a \in Arrays /\ i \in Nat \ {0}
    OBVIOUS
  <1>2. /\ Put(a, i, w) \in Arrays
        /\ \A j \in Nat : Get(Put(a, i, w), j, 0) = IF j = i THEN w ELSE Get(a, j, 0)
    <2> HIDE DEF a
    <2> QED
      BY <1>1, ArrayPut
  <1>3. /\ T \in [Layers -> Arrays]
        /\ \A k \in Layers : T[k] = IF k = l THEN Put(a, i, w) ELSE renamed[k]
    BY <1>2
  <1>4. renamed' = T
    BY DEF Writes
  <1> HIDE DEF T
  <1>5. \A k \in Layers, j \in Nat :
           Get(T[k], j, 0) = IF k = l /\ j = i THEN w ELSE Get(renamed[k], j, 0)
    BY <1>2, <1>3
  <1>6. Changes(renamed, T, n, l, i, w)
    BY <1>5 DEF Changes
  <1> DEFINE v == Get(renamed[l], i, 0)
  <1>7. /\ Cardinality(Refs(T, n, w)) = Cardinality(Refs(renamed, n, w)) + 1
        /\ Cardinality(Refs(renamed, n, v)) = Cardinality(Refs(T, n, v)) + 1
        /\ \A r : r \notin {v, w} => Refs(T, n, r) = Refs(renamed, n, r)
    BY <1>6, RefsChange
  <1> QED
    BY <1>3, <1>4, <1>5, <1>7

\* RegistryInv, a rename and a base entry at a time.
LEMMA RegistryFacts ==
    ASSUME RegistryInv
    PROVE  /\ \A r \in DOMAIN rename :
                /\ r \in DOMAIN registry
                /\ registry[r] = [base |-> rename[r].base, renames |-> <<>>]
                /\ rename[r].base \in DOMAIN registry \ DOMAIN rename
           /\ \A b \in DOMAIN registry \ DOMAIN rename :
                /\ registry[b].base = 0
                /\ \A n \in 1 .. Len(registry[b].renames) :
                      registry[b].renames[n] \in DOMAIN rename /\ rename[registry[b].renames[n]].base = b
                /\ \A r \in DOMAIN rename : rename[r].base = b =>
                      \E n \in 1 .. Len(registry[b].renames) : registry[b].renames[n] = r
                /\ \A m, n \in 1 .. Len(registry[b].renames) :
                      name[registry[b].renames[m]] = name[registry[b].renames[n]] => m = n
                /\ registry[b].renames = <<>> => base = b
  BY DEF RegistryInv

\* What Insert does besides the registry and the renames.
LEMMA InsertRest ==
    ASSUME IInv, NEW t \in Threads, pc[t] = "insert", pc' = [pc EXCEPT ![t] = "store"],
           lock' = [lock EXCEPT !["data"] = NoThread], NEW r \in Nat \ {0},
           entry' = [entry EXCEPT ![t] = r], UNCHANGED <<renamed, alive, todo>>,
           Len(name') \in Nat, Len(name) <= Len(name')
    PROVE  TableTypes' /\ ThreadTypes' /\ UseInv' /\ PlaceInv'
           /\ (\A u \in Threads : entry'[u] = IF u = t THEN r ELSE entry[u]) /\ entry[t] = 0
  <1> USE DEF IInv
  <1>1. Len(name) \in Nat
    BY TableFacts
  <1>2. /\ \A u \in Threads : pc'[u] = IF u = t THEN "store" ELSE pc[u]
        /\ \A u \in Threads : entry'[u] = IF u = t THEN r ELSE entry[u]
        /\ pc' \in [Threads -> {"call", "rename_new", "insert", "store", "rename_free"}]
        /\ entry' \in [Threads -> Nat]
    BY DEF ThreadTypes, TableTypes
  <1>3. lock["data"] = t /\ \A u \in Threads : u # t => pc[u] # "insert"
    BY DEF PlaceInv, InsertInv
  <1>4. TableTypes'
    <2>1. \A i : i \in 1 .. Len(name) => i \in 1 .. Len(name')
      BY <1>1
    <2> QED
      BY <1>2, <2>1 DEF TableTypes, Indices
  <1>5. ThreadTypes'
    <2>1. lock' \in [{"writer", "data"} -> Threads \cup {NoThread}]
      BY DEF ThreadTypes
    <2>2. Seq(Calls(Len(name))) \subseteq Seq(Calls(Len(name')))
      BY <1>1, CallsGrow
    <2>3. todo \in [Threads -> Seq(Calls(Len(name)))]
      BY DEF ThreadTypes
    <2>4. todo' \in [Threads -> Seq(Calls(Len(name')))]
      BY <2>2, <2>3
    <2>5. Calls(Len(name))' = Calls(Len(name'))
      BY DEF Calls
    <2> QED
      BY <1>2, <2>1, <2>4, <2>5 DEF ThreadTypes
  <1>6. UseInv'
    BY DEF UseInv, AliveClosed, PathInv, FreeInv, DeadEmpty
  <1>7. PlaceInv'
    <2>1. HeadInv'
      BY <1>2 DEF PlaceInv, HeadInv
    <2>2. InsertInv'
      BY <1>2, <1>3 DEF InsertInv
    <2>3. EntryInv'
      BY <1>2 DEF PlaceInv, EntryInv
    <2>4. TakenInv'
      BY <1>2 DEF PlaceInv, TakenInv
    <2> QED
      BY <2>1, <2>2, <2>3, <2>4 DEF PlaceInv
  <1> QED
    BY <1>2, <1>4, <1>5, <1>6, <1>7 DEF PlaceInv, EntryInv

\* What the list of base entry b is like.
BaseList(list, b, renames, names) ==
    /\ \A n \in 1 .. Len(list) : list[n] \in DOMAIN renames /\ renames[list[n]].base = b
    /\ \A r \in DOMAIN renames : renames[r].base = b => \E n \in 1 .. Len(list) : list[n] = r
    /\ \A m, n \in 1 .. Len(list) : names[list[m]] = names[list[n]] => m = n

\* rename_new finds a rename with the name.
LEMMA InsertFound ==
    ASSUME IInv, NEW t \in Threads, pc[t] = "insert", pc' = [pc EXCEPT ![t] = "store"],
           lock' = [lock EXCEPT !["data"] = NoThread], NEW n, NEW r \in Named(base, n),
           entry' = [entry EXCEPT ![t] = r], rename' = [rename EXCEPT ![r].use_count = @ + 1],
           UNCHANGED <<registry, name, base, renamed, alive, todo>>
    PROVE  IInv'
  <1> USE DEF IInv
  <1>1. base \in DOMAIN registry \ DOMAIN rename
    BY DEF PlaceInv, InsertInv
  <1>2. registry[base].renames \in Seq(Nat)
    BY <1>1 DEF StoreTypes
  <1>3. PICK k \in 1 .. Len(registry[base].renames) : registry[base].renames[k] = r
    <2>1. r \in Range(registry[base].renames)
      BY DEF Named
    <2>2. DOMAIN registry[base].renames = 1 .. Len(registry[base].renames)
      BY <1>2
    <2> QED
      BY <2>1, <2>2 DEF Range
  <1>4. r \in DOMAIN rename /\ registry[base].renames # <<>>
    <2>1. r \in DOMAIN rename
      BY <1>1, <1>3, RegistryFacts
    <2>2. Len(registry[base].renames) # 0
      BY <1>2, <1>3
    <2> QED
      BY <2>1, <2>2
  <1>5. r \in Nat \ {0} /\ Len(name) \in Nat /\ rename[r] \in [use_count : Nat, base : Nat]
    BY <1>4 DEF StoreTypes, Indices
  <1>6. TableTypes' /\ ThreadTypes' /\ UseInv' /\ PlaceInv'
        /\ (\A u \in Threads : entry'[u] = IF u = t THEN r ELSE entry[u]) /\ entry[t] = 0
    <2>1. Len(name') \in Nat /\ Len(name) <= Len(name')
      BY <1>5
    <2> QED
      BY <1>5, <2>1, InsertRest
  <1>7. /\ DOMAIN rename' = DOMAIN rename
        /\ rename'[r].use_count = rename[r].use_count + 1
        /\ rename'[r].base = rename[r].base
        /\ rename'[r] \in [use_count : Nat, base : Nat]
        /\ \A q \in DOMAIN rename \ {r} : rename'[q] = rename[q]
    BY <1>4, <1>5
  <1>8. \A q \in DOMAIN rename : rename'[q].base = rename[q].base
    BY <1>7
  <1>9. StoreTypes'
    BY <1>7 DEF StoreTypes, Indices
  <1>10. RegistryInv'
    <2>1. \A b \in DOMAIN registry \ DOMAIN rename : registry[b].renames # <<>>
      BY <1>4, RegistryFacts
    <2> QED
      BY <1>7, <1>8, <2>1 DEF RegistryInv
  <1>11. CountInv'
    <2>1. /\ Cardinality(Holders(entry', r)) = Cardinality(Holders(entry, r)) + 1
          /\ \A q : q \notin {0, r} => Holders(entry', q) = Holders(entry, q)
      BY <1>5, <1>6, EntryChange DEF TableTypes
    <2>2. /\ Cardinality(Refs(renamed, Len(name), r)) \in Nat
          /\ Cardinality(Holders(entry, r)) \in Nat
      BY <1>5, CountTypes
    <2>3. ASSUME NEW q \in DOMAIN rename
          PROVE  rename'[q].use_count =
                   Cardinality(Refs(renamed, Len(name), q)) + Cardinality(Holders(entry', q))
      <3>1. q # 0
        BY DEF StoreTypes, Indices
      <3>2. rename[q].use_count =
               Cardinality(Refs(renamed, Len(name), q)) + Cardinality(Holders(entry, q))
        BY DEF CountInv
      <3>3. CASE q = r
        BY <1>7, <2>1, <2>2, <3>2, <3>3
      <3>4. CASE q # r
        BY <1>7, <2>1, <3>1, <3>2, <3>4
      <3> QED
        BY <3>3, <3>4
    <2> QED
      BY <1>7, <2>3 DEF CountInv
  <1>12. RefInv'
    BY <1>4, <1>6, <1>7 DEF RefInv
  <1> QED
    BY <1>6, <1>9, <1>10, <1>11, <1>12

LEMMA RefsGrow ==
    ASSUME NEW n \in Nat, NEW T, NEW r, \A l \in Layers : Get(T[l], n + 1, 0) # r
    PROVE  Refs(T, n + 1, r) = Refs(T, n, r)
  <1>1. ASSUME NEW e \in Layers \X (1 .. n + 1), Get(T[e[1]], e[2], 0) = r
        PROVE  e \in Layers \X (1 .. n)
    <2>1. e = <<e[1], e[2]>> /\ e[1] \in Layers /\ e[2] \in 1 .. n + 1
      OBVIOUS
    <2>2. e[2] # n + 1
      BY <1>1, <2>1
    <2>3. e[2] \in 1 .. n
      BY <2>1, <2>2
    <2> QED
      BY <2>1, <2>3
  <1>2. Layers \X (1 .. n) \subseteq Layers \X (1 .. n + 1)
    OBVIOUS
  <1> QED
    BY <1>1, <1>2 DEF Refs

LEMMA NewNameType ==
    ASSUME NEW l \in Layers, NEW n \in Seq(Parts)
    PROVE  NewName(l, n) \in Seq(Parts)
  <1>1. <<Affix[l]>> \in Seq(Parts)
    BY DEF Parts
  <1>2. n \o <<Affix[l]>> \in Seq(Parts) /\ <<Affix[l]>> \o n \in Seq(Parts)
    BY <1>1
  <1> QED
    BY <1>2 DEF NewName

\* rename_new makes a rename with name n for thread t.
MakesRename(t, n) ==
    /\ pc[t] = "insert" /\ pc' = [pc EXCEPT ![t] = "store"]
    /\ lock' = [lock EXCEPT !["data"] = NoThread]
    /\ Named(base, n) = {}
    /\ entry' = [entry EXCEPT ![t] = local_index]
    /\ name' = Append(name, n)
    /\ DOMAIN registry' = DOMAIN registry \cup {local_index}
    /\ registry'[local_index] = [base |-> base, renames |-> <<>>]
    /\ registry'[base] = [base |-> registry[base].base,
                          renames |-> Append(registry[base].renames, local_index)]
    /\ \A j \in DOMAIN registry : j # base => registry'[j] = registry[j]
    /\ DOMAIN rename' = DOMAIN rename \cup {local_index}
    /\ rename'[local_index] = [use_count |-> 1, base |-> base]
    /\ \A r \in DOMAIN rename : rename'[r] = rename[r]
    /\ UNCHANGED <<base, renamed, alive, todo>>

LEMMA InsertNew ==
    ASSUME IInv, NEW t \in Threads, NEW n \in Seq(Parts), MakesRename(t, n)
    PROVE  IInv'
  <1> USE DEF IInv
  <1> DEFINE x == Len(name) + 1
  <1> DEFINE list == registry[base].renames
  <1>1. /\ base \in DOMAIN registry \ DOMAIN rename /\ x = local_index /\ Len(name) \in Nat
        /\ x \in Nat \ {0} /\ x \notin Indices /\ x \notin DOMAIN registry /\ x \notin DOMAIN rename
    BY TableFacts DEF MakesRename, PlaceInv, InsertInv, local_index, Indices, StoreTypes
  <1>2. registry[base] \in [base : Nat, renames : Seq(Nat)] /\ list \in Seq(Nat) /\ base \in Indices
    BY <1>1 DEF StoreTypes
  <1>3. /\ name \in Seq(Seq(Parts)) /\ name' = Append(name, n) /\ DOMAIN registry \subseteq Indices
        /\ DOMAIN rename \subseteq Indices /\ NRoots <= Len(name)
    BY DEF StoreTypes, MakesRename
  <1>4. /\ name' \in Seq(Seq(Parts)) /\ Len(name') = x /\ name'[x] = n
        /\ \A i \in Indices : name'[i] = name[i]
    BY <1>3 DEF Indices
  <1>5. TableTypes' /\ ThreadTypes' /\ UseInv' /\ PlaceInv' /\ entry[t] = 0
    <2>1. Len(name') \in Nat /\ Len(name) <= Len(name')
      BY <1>1, <1>4
    <2> QED
      BY <1>1, <2>1, InsertRest DEF MakesRename
  <1>6. /\ DOMAIN registry' = DOMAIN registry \cup {x}
        /\ registry'[x] = [base |-> base, renames |-> <<>>]
        /\ registry'[base].base = registry[base].base
        /\ registry'[base].renames = Append(list, x)
        /\ \A j \in DOMAIN registry : j # base => registry'[j] = registry[j]
    BY <1>1 DEF MakesRename
  <1>7. /\ DOMAIN rename' = DOMAIN rename \cup {x}
        /\ rename'[x] = [use_count |-> 1, base |-> base]
        /\ \A r \in DOMAIN rename : rename'[r] = rename[r]
    BY <1>1 DEF MakesRename
  <1> DEFINE more == Append(list, x)
  <1>8. /\ more \in Seq(Nat) /\ Len(more) = Len(list) + 1 /\ Len(list) \in Nat
        /\ more[Len(list) + 1] = x /\ \A k \in 1 .. Len(list) : more[k] = list[k]
    <2> HIDE DEF list, x
    <2> QED
      BY <1>1, <1>2
  <1>9. \A k \in 1 .. Len(list) : /\ list[k] \in DOMAIN rename /\ rename[list[k]].base = base
                                  /\ name[list[k]] # n
    <2> TAKE k \in 1 .. Len(list)
    <2>1. list[k] \in Range(list)
      BY <1>2 DEF Range
    <2>2. name[list[k]] # n
      BY <2>1 DEF MakesRename, Named
    <2> QED
      BY <1>1, <2>2, RegistryFacts
  <1> HIDE DEF x, list, more
  <1>10. StoreTypes'
    <2>1. <<>> \in Seq(Nat) /\ base \in Nat
      BY <1>2 DEF Indices
    <2>2. registry'[x] \in [base : Nat, renames : Seq(Nat)]
      <3>1. [base |-> base, renames |-> <<>>] \in [base : Nat, renames : Seq(Nat)]
        BY <2>1
      <3> QED
        BY <1>6, <3>1
    <2>3. ASSUME NEW j \in DOMAIN registry
          PROVE  registry'[j] \in [base : Nat, renames : Seq(Nat)]
      <3>1. registry[j] \in [base : Nat, renames : Seq(Nat)]
        BY DEF StoreTypes
      <3>2. CASE j = base
        <4>1. registry'[base] = [base |-> registry[base].base, renames |-> more]
          BY <1>1 DEF MakesRename, more, list, x
        <4>2. registry[base].base \in Nat
          BY <1>2
        <4> QED
          BY <1>8, <3>2, <4>1, <4>2
      <3>3. CASE j # base
        BY <1>6, <3>1, <3>3
      <3> QED
        BY <3>2, <3>3
    <2>4. \A j \in DOMAIN registry' : registry'[j] \in [base : Nat, renames : Seq(Nat)]
      BY <1>6, <2>2, <2>3
    <2>5. \A r \in DOMAIN rename' : rename'[r] \in [use_count : Nat, base : Nat]
      <3>1. \A r \in DOMAIN rename : rename[r] \in [use_count : Nat, base : Nat]
        BY DEF StoreTypes
      <3>2. rename'[x] \in [use_count : Nat, base : Nat]
        BY <1>7, <2>1
      <3> QED
        BY <1>7, <3>1, <3>2
    <2>6. Indices' = 1 .. x /\ Indices \subseteq 1 .. x /\ x \in 1 .. x
      BY <1>1, <1>4 DEF Indices, x
    <2>7. DOMAIN registry' \subseteq Indices' /\ DOMAIN rename' \subseteq Indices'
      BY <1>3, <1>6, <1>7, <2>6
    <2>8. NRoots <= Len(name')
      BY <1>1, <1>3, <1>4, LayersAssumption DEF x
    <2> QED
      BY <1>4, <2>4, <2>5, <2>7, <2>8 DEF StoreTypes
  <1>11. RegistryInv'
    <2>1. ASSUME NEW r \in DOMAIN rename'
          PROVE  /\ r \in DOMAIN registry'
                 /\ registry'[r] = [base |-> rename'[r].base, renames |-> <<>>]
                 /\ rename'[r].base \in DOMAIN registry' \ DOMAIN rename'
      <3>1. CASE r = x
        BY <1>1, <1>6, <1>7, <3>1
      <3>2. CASE r # x
        <4>1. r \in DOMAIN rename /\ rename'[r] = rename[r]
          BY <1>7, <3>2
        <4>2. /\ r \in DOMAIN registry
              /\ registry[r] = [base |-> rename[r].base, renames |-> <<>>]
              /\ rename[r].base \in DOMAIN registry \ DOMAIN rename
          BY <4>1, RegistryFacts
        <4>3. r # base /\ registry'[r] = registry[r]
          BY <1>1, <1>6, <4>1, <4>2
        <4> QED
          BY <1>1, <1>6, <1>7, <4>1, <4>2, <4>3
      <3> QED
        BY <3>1, <3>2
    <2>2. ASSUME NEW b \in DOMAIN registry' \ DOMAIN rename'
          PROVE  /\ registry'[b].base = 0
                 /\ BaseList(registry'[b].renames, b, rename', name')
                 /\ registry'[b].renames # <<>>
      <3>1. b \in DOMAIN registry \ DOMAIN rename /\ b # x
        BY <1>6, <1>7
      <3>2. CASE b # base
        <4>1. registry'[b] = registry[b]
          BY <1>6, <3>1, <3>2
        <4>2. /\ registry[b].base = 0
              /\ \A k \in 1 .. Len(registry[b].renames) :
                    registry[b].renames[k] \in DOMAIN rename /\ rename[registry[b].renames[k]].base = b
              /\ \A r \in DOMAIN rename : rename[r].base = b =>
                    \E k \in 1 .. Len(registry[b].renames) : registry[b].renames[k] = r
              /\ \A m, k \in 1 .. Len(registry[b].renames) :
                    name[registry[b].renames[m]] = name[registry[b].renames[k]] => m = k
              /\ registry[b].renames # <<>>
          BY <3>1, <3>2, RegistryFacts
        <4> DEFINE old == registry[b].renames
        <4>3. \A k \in 1 .. Len(old) : name'[old[k]] = name[old[k]]
          BY <1>3, <1>4, <4>2
        <4>4. \A k \in 1 .. Len(old) : old[k] \in DOMAIN rename' /\ rename'[old[k]].base = b
          BY <1>7, <4>2
        <4>5. \A r \in DOMAIN rename' : rename'[r].base = b => r \in DOMAIN rename /\ rename[r].base = b
          BY <1>7, <3>2
        <4>6. \A m, k \in 1 .. Len(old) : name'[old[m]] = name'[old[k]] => m = k
          BY <4>2, <4>3
        <4>7. \A r \in DOMAIN rename' : rename'[r].base = b => \E k \in 1 .. Len(old) : old[k] = r
          BY <4>2, <4>5
        <4>8. registry'[b].base = 0 /\ registry'[b].renames = old /\ old # <<>>
          BY <4>1, <4>2
        <4> HIDE DEF old
        <4> QED
          BY <4>4, <4>6, <4>7, <4>8 DEF BaseList
      <3>3. CASE b = base
        <4>1. registry'[b].base = 0 /\ registry'[b].renames = more
          <5>1. registry[base].base = 0
            BY <1>1, RegistryFacts
          <5> QED
            BY <1>6, <3>3, <5>1 DEF more
        <4>2. \A k \in 1 .. Len(more) : k \in 1 .. Len(list) \/ k = Len(list) + 1
          BY <1>8
        <4>3. \A k \in 1 .. Len(more) : more[k] \in DOMAIN rename' /\ rename'[more[k]].base = b
          BY <1>7, <1>8, <1>9, <3>3, <4>2
        <4>4. ASSUME NEW r \in DOMAIN rename', rename'[r].base = b
              PROVE  \E k \in 1 .. Len(more) : more[k] = r
          <5>1. CASE r = x
            BY <1>8, <5>1
          <5>2. CASE r # x
            <6>1. r \in DOMAIN rename /\ rename[r].base = base
              BY <1>7, <3>3, <4>4, <5>2
            <6>2. PICK k \in 1 .. Len(list) : list[k] = r
              BY <1>1, <6>1, RegistryFacts DEF list
            <6> QED
              BY <1>8, <6>2
          <5> QED
            BY <5>1, <5>2
        <4>5. ASSUME NEW m \in 1 .. Len(more), NEW k \in 1 .. Len(more),
                     name'[more[m]] = name'[more[k]]
              PROVE  m = k
          <5>1. \A j \in 1 .. Len(list) : name'[more[j]] = name[list[j]] /\ name[list[j]] # n
            BY <1>3, <1>4, <1>8, <1>9
          <5>2. name'[more[Len(list) + 1]] = n
            BY <1>4, <1>8
          <5>3. \A i, j \in 1 .. Len(list) : name[list[i]] = name[list[j]] => i = j
            BY <1>1, RegistryFacts DEF list
          <5> QED
            BY <4>2, <4>5, <5>1, <5>2, <5>3
        <4>6. more # <<>>
          BY <1>8
        <4>7. BaseList(more, b, rename', name')
          BY <4>3, <4>4, <4>5 DEF BaseList
        <4> QED
          BY <4>1, <4>6, <4>7
      <3> QED
        BY <3>2, <3>3
    <2> QED
      BY <2>1, <2>2 DEF RegistryInv, BaseList
  <1>12. CountInv' /\ RefInv'
    <2>1. /\ entry' = [entry EXCEPT ![t] = x] /\ entry \in [Threads -> Nat] /\ entry[t] # x
          /\ x \in Nat
      BY <1>1, <1>5 DEF TableTypes, MakesRename
    <2>2. /\ \A u \in Threads : entry'[u] = IF u = t THEN x ELSE entry[u]
          /\ Cardinality(Holders(entry', x)) = Cardinality(Holders(entry, x)) + 1
          /\ \A r : r \notin {0, x} => Holders(entry', r) = Holders(entry, r)
      BY <1>5, <2>1, EntryChange
    <2>3. \A l \in Layers : Get(renamed[l], x, 0) = 0
      BY <1>1 DEF TableTypes
    <2>4. ASSUME NEW r \in DOMAIN rename
          PROVE  rename'[r].use_count =
                   Cardinality(Refs(renamed, x, r)) + Cardinality(Holders(entry', r))
      <3>1. r # 0 /\ r # x
        BY <1>1, <1>3 DEF Indices
      <3>2. Refs(renamed, x, r) = Refs(renamed, Len(name), r)
        BY <1>1, <2>3, <3>1, RefsGrow DEF x
      <3>3. rename[r].use_count =
               Cardinality(Refs(renamed, Len(name), r)) + Cardinality(Holders(entry, r))
        BY DEF CountInv
      <3> QED
        BY <1>7, <2>2, <3>1, <3>2, <3>3
    <2>5. rename'[x].use_count =
             Cardinality(Refs(renamed, x, x)) + Cardinality(Holders(entry', x))
      <3>1. \A l \in Layers, i \in 1 .. x : Get(renamed[l], i, 0) # x
        BY <1>1 DEF RefInv
      <3>2. \A u \in Threads : entry[u] # x
        BY <1>1 DEF RefInv
      <3>3. Cardinality(Refs(renamed, x, x)) = 0 /\ Cardinality(Holders(entry, x)) = 0
        <4>1. x \in Nat
          BY <1>1
        <4> HIDE DEF IInv
        <4>2. Cardinality(Refs(renamed, x, x)) = 0
          BY <3>1, <4>1, CountZero
        <4>3. Cardinality(Holders(entry, x)) = 0
          BY <3>2, CountZero
        <4> QED
          BY <4>2, <4>3
      <3> QED
        BY <1>7, <2>2, <3>3
    <2>6. CountInv'
      <3>1. \A r \in DOMAIN rename' :
               rename'[r].use_count =
                 Cardinality(Refs(renamed', Len(name'), r)) + Cardinality(Holders(entry', r))
        <4>1. UNCHANGED renamed
          BY DEF MakesRename
        <4> QED
          BY <1>4, <1>7, <2>4, <2>5, <4>1
      <3> QED
        BY <3>1 DEF CountInv
    <2>7. RefInv'
      BY <1>7, <2>2 DEF RefInv, MakesRename
    <2> QED
      BY <2>6, <2>7
  <1> QED
    BY <1>5, <1>10, <1>11, <1>12

LEMMA InsertStep ==
    ASSUME IInv, NEW t \in Threads, Insert(t)
    PROVE  IInv'
  <1> DEFINE c == Head(todo[t])
  <1> DEFINE n == NewName(c.layer, name[c.sig])
  <1>1. /\ pc[t] = "insert" /\ pc' = [pc EXCEPT ![t] = "store"]
        /\ lock' = [lock EXCEPT !["data"] = NoThread]
        /\ UNCHANGED <<base, renamed, alive, todo>>
    BY DEF Insert, At
  <1>2. n \in Seq(Parts)
    <2>1. c.layer \in Layers /\ c.sig \in Indices
      BY <1>1, InsideFacts
    <2>2. name[c.sig] \in Seq(Parts)
      BY <2>1 DEF IInv, StoreTypes, Indices
    <2> QED
      BY <2>1, <2>2, NewNameType
  <1>3. CASE \E r \in Named(base, n) :
                /\ entry' = [entry EXCEPT ![t] = r]
                /\ rename' = [rename EXCEPT ![r].use_count = @ + 1]
                /\ UNCHANGED <<registry, name>>
    BY <1>1, <1>3, InsertFound
  <1>4. CASE /\ Named(base, n) = {}
             /\ entry' = [entry EXCEPT ![t] = local_index]
             /\ name' = Append(name, n)
             /\ registry' = [registry_new(registry, local_index, base)
                               EXCEPT ![base].renames = Append(@, local_index)]
             /\ rename' = [j \in DOMAIN rename \cup {local_index} |->
                   IF j = local_index THEN [use_count |-> 1, base |-> base] ELSE rename[j]]
    <2> DEFINE x == local_index
    <2> DEFINE reg == [j \in DOMAIN registry \cup {x} |->
                         IF j = x THEN [base |-> base, renames |-> <<>>] ELSE registry[j]]
    <2>1. /\ base \in DOMAIN registry \ DOMAIN rename /\ x \notin DOMAIN registry
          /\ x \notin DOMAIN rename /\ registry[base] \in [base : Nat, renames : Seq(Nat)]
      BY <1>1, TableFacts DEF IInv, PlaceInv, InsertInv, local_index, Indices, StoreTypes
    <2>2. registry_new(registry, x, base) = reg
      BY <2>1 DEF registry_new
    <2>3. reg[base] = registry[base] /\ base # x /\ base \in DOMAIN reg
      BY <2>1
    <2> DEFINE more == [registry[base] EXCEPT !.renames = Append(registry[base].renames, x)]
    <2>4. registry' = [reg EXCEPT ![base] = more]
      BY <1>4, <2>2, <2>3
    <2>5. more = [base |-> registry[base].base, renames |-> Append(registry[base].renames, x)]
      <3> DEFINE e == registry[base]
      <3>1. e \in [base : Nat, renames : Seq(Nat)]
        BY <2>1
      <3> HIDE DEF e
      <3>2. \A s : [e EXCEPT !.renames = s] = [base |-> e.base, renames |-> s]
        BY <3>1
      <3> QED
        BY <3>2 DEF e
    <2> HIDE DEF x, more
    <2>6. /\ DOMAIN registry' = DOMAIN registry \cup {x}
          /\ registry'[x] = [base |-> base, renames |-> <<>>]
          /\ registry'[base] = more
          /\ \A j \in DOMAIN registry : j # base => registry'[j] = registry[j]
      BY <2>1, <2>3, <2>4
    <2>7. /\ DOMAIN rename' = DOMAIN rename \cup {x}
          /\ rename'[x] = [use_count |-> 1, base |-> base]
          /\ \A r \in DOMAIN rename : rename'[r] = rename[r]
      BY <1>4, <2>1 DEF x
    <2>8. MakesRename(t, n)
      <3> HIDE DEF n
      <3>1. Named(base, n) = {} /\ entry' = [entry EXCEPT ![t] = x] /\ name' = Append(name, n)
        BY <1>4 DEF x
      <3> QED
        BY <1>1, <2>5, <2>6, <2>7, <3>1 DEF MakesRename, x
    <2> QED
      BY <1>2, <2>8, InsertNew
  <1> QED
    BY <1>3, <1>4 DEF Insert

\* Store finds that another thread was first.
StoreTaken(t) ==
    /\ pc[t] = "store" /\ Unlocked(LockOf(Head(todo[t]).layer))
    /\ Get(renamed[Head(todo[t]).layer], Head(todo[t]).sig, 0) # 0
    /\ lock' = [lock EXCEPT ![LockOf(Head(todo[t]).layer)] = t]
    /\ pc' = [pc EXCEPT ![t] = "rename_free"]
    /\ UNCHANGED <<name, registry, rename, base, renamed, alive, entry, todo>>

LEMMA StoreTakenStep ==
    ASSUME IInv, NEW t \in Threads, StoreTaken(t)
    PROVE  IInv'
  <1> USE DEF IInv
  <1>1. /\ UNCHANGED <<name, registry, rename, base, renamed, alive, entry, todo>>
        /\ pc[t] = "store" /\ pc' = [pc EXCEPT ![t] = "rename_free"]
    BY DEF StoreTaken
  <1>2. \A u \in Threads : pc'[u] = IF u = t THEN "rename_free" ELSE pc[u]
    BY <1>1 DEF ThreadTypes
  <1>3. StoreTypes' /\ TableTypes'
    BY <1>1 DEF StoreTypes, TableTypes, Indices
  <1>4. ThreadTypes'
    <2>1. LockOf(Head(todo[t]).layer) \in {"writer", "data"}
      BY DEF LockOf
    <2>2. lock' \in [{"writer", "data"} -> Threads \cup {NoThread}]
      BY <2>1 DEF ThreadTypes, StoreTaken
    <2> QED
      BY <1>1, <2>2 DEF ThreadTypes
  <1>5. UseInv'
    <2>1. AliveClosed' /\ DeadEmpty'
      BY <1>1 DEF UseInv, AliveClosed, DeadEmpty
    <2>2. PathInv'
      BY <1>1 DEF UseInv, PathInv
    <2>3. FreeInv'
      BY <1>1 DEF UseInv, FreeInv
    <2> QED
      BY <2>1, <2>2, <2>3 DEF UseInv
  <1>6. PlaceInv'
    <2>1. HeadInv'
      BY <1>1, <1>2 DEF PlaceInv, HeadInv
    <2>2. InsertInv'
      <3>1. CASE LockOf(Head(todo[t]).layer) = "data"
        BY <1>2, <3>1, NobodyInserts DEF InsertInv, StoreTaken, PlaceInv
      <3>2. CASE LockOf(Head(todo[t]).layer) # "data"
        <4>1. lock'["data"] = lock["data"]
          BY <3>2 DEF StoreTaken, ThreadTypes
        <4> QED
          BY <1>1, <1>2, <4>1 DEF PlaceInv, InsertInv
      <3> QED
        BY <3>1, <3>2
    <2>3. EntryInv'
      BY <1>1, <1>2 DEF PlaceInv, EntryInv
    <2>4. TakenInv'
      BY <1>1, <1>2 DEF PlaceInv, TakenInv, StoreTaken
    <2> QED
      BY <2>1, <2>2, <2>3, <2>4 DEF PlaceInv
  <1>7. RegistryInv'
    <2>1. (\E u \in Threads : pc[u] = "insert") => \E u \in Threads : pc'[u] = "insert"
      BY <1>1, <1>2
    <2> QED
      BY <1>1, <2>1 DEF RegistryInv
  <1>8. CountInv' /\ RefInv'
    BY <1>1 DEF CountInv, RefInv, Refs, Holders
  <1> QED
    BY <1>3, <1>4, <1>5, <1>6, <1>7, <1>8

\* The calls of a thread that leaves set_renamed with the rename g.
LEMMA LeaveCalls ==
    ASSUME IInv, NEW t \in Threads, pc[t] # "call", NEW g \in 1 .. Len(name), Go(t, g),
           UNCHANGED <<name, alive>>
    PROVE  /\ AliveClosed' /\ PathInv' /\ FreeInv'
           /\ todo' \in [Threads -> Seq(Calls(Len(name)))]
           /\ \A u \in Threads : u # t => todo'[u] = todo[u]
  <1> DEFINE c == Head(todo[t])
  <1> DEFINE more == Passed(c, g) \o Tail(todo[t])
  <1>1. /\ ThreadTypes /\ PathInv /\ FreeInv /\ AliveClosed /\ alive \subseteq Layers
        /\ Len(name) \in Nat /\ DOMAIN todo = Threads
    BY TableFacts DEF IInv, UseInv, ThreadTypes
  <1>2. todo[t] # <<>> /\ c.op # "free" /\ c.layer # 0
    BY InsideFacts
  <1>3. g \in 0 .. Len(name) /\ g # 0
    BY <1>1
  <1>4. /\ more \in Seq(Calls(Len(name)))
        /\ \A k \in 1 .. Len(more) :
              /\ more[k].op # "free"
              /\ \E j \in 1 .. Len(todo[t]) : more[k].from = todo[t][j].from
              /\ \E S \in SUBSET alive : Path(more[k], S)
    BY <1>1, <1>2, <1>3, GoFacts
  <1>5. todo' = [todo EXCEPT ![t] = more]
    BY DEF Go
  <1> HIDE DEF more
  <1>6. PathInv' /\ FreeInv' /\ AliveClosed'
    BY <1>1, <1>4, <1>5, CallsReplaced
  <1>7. todo' \in [Threads -> Seq(Calls(Len(name)))] /\ \A u \in Threads : u # t => todo'[u] = todo[u]
    BY <1>1, <1>4, <1>5 DEF ThreadTypes
  <1> QED
    BY <1>6, <1>7

\* Store puts the rename into the table.
Stores(t) ==
    /\ pc[t] = "store"
    /\ Get(renamed[Head(todo[t]).layer], Head(todo[t]).sig, 0) = 0
    /\ renamed' = [renamed EXCEPT ![Head(todo[t]).layer] = Put(@, Head(todo[t]).sig, entry[t])]
    /\ pc' = [pc EXCEPT ![t] = "call"]
    /\ entry' = [entry EXCEPT ![t] = 0]
    /\ Go(t, entry[t])
    /\ UNCHANGED <<name, registry, rename, base, alive, lock>>

LEMMA StoresStep ==
    ASSUME IInv, NEW t \in Threads, Stores(t)
    PROVE  IInv'
  <1> USE DEF IInv
  <1> DEFINE l == Head(todo[t]).layer
  <1> DEFINE i == Head(todo[t]).sig
  <1> DEFINE v == entry[t]
  <1> DEFINE n == Len(name)
  <1>1. /\ UNCHANGED <<name, registry, rename, base, alive, lock>>
        /\ pc[t] = "store" /\ pc' = [pc EXCEPT ![t] = "call"]
        /\ renamed' = [renamed EXCEPT ![l] = Put(@, i, v)] /\ Get(renamed[l], i, 0) = 0
        /\ entry' = [entry EXCEPT ![t] = 0] /\ Go(t, v)
    BY DEF Stores
  <1>2. l \in alive /\ l \in Layers /\ i \in 1 .. n /\ n \in Nat
    <2>1. pc[t] # "call"
      BY <1>1
    <2> QED
      BY <2>1, InsideFacts, TableFacts DEF Indices
  <1>3. v \in DOMAIN rename /\ v \in 1 .. n
    <2>1. v # 0
      BY <1>1 DEF PlaceInv, EntryInv
    <2> QED
      BY <1>2, <2>1, TableFacts DEF RefInv
  <1>4. renamed \in [Layers -> Arrays] /\ entry \in [Threads -> Nat]
    BY DEF TableTypes
  <1>5. /\ renamed' \in [Layers -> Arrays]
        /\ \A k \in Layers, j \in Nat :
              Get(renamed'[k], j, 0) = IF k = l /\ j = i THEN v ELSE Get(renamed[k], j, 0)
        /\ Cardinality(Refs(renamed', n, v)) = Cardinality(Refs(renamed, n, v)) + 1
        /\ \A r : r \notin {0, v} => Refs(renamed', n, r) = Refs(renamed, n, r)
    <2> HIDE DEF l, i, v, n
    <2>1. v \in Nat /\ 0 # v /\ l \in Layers /\ i \in 1 .. n /\ n \in Nat
      BY <1>2, <1>3
    <2>2. Writes(l, i, v) /\ Get(renamed[l], i, 0) = 0
      BY <1>1 DEF Writes
    <2>3. renamed \in [Layers -> Arrays] /\ Get(renamed[l], i, 0) # v
      BY <1>4, <2>1, <2>2
    <2>4. /\ renamed' \in [Layers -> Arrays]
          /\ \A k \in Layers, j \in Nat :
                Get(renamed'[k], j, 0) = IF k = l /\ j = i THEN v ELSE Get(renamed[k], j, 0)
          /\ Cardinality(Refs(renamed', n, v)) = Cardinality(Refs(renamed, n, v)) + 1
          /\ \A r : r \notin {Get(renamed[l], i, 0), v} => Refs(renamed', n, r) = Refs(renamed, n, r)
      <3> HIDE DEF IInv
      <3> QED
        BY <2>1, <2>2, <2>3, TableChange
    <2> QED
      BY <2>2, <2>4
  <1>6. /\ entry' \in [Threads -> Nat]
        /\ \A u \in Threads : entry'[u] = IF u = t THEN 0 ELSE entry[u]
        /\ Cardinality(Holders(entry, v)) = Cardinality(Holders(entry', v)) + 1
        /\ \A r : r \notin {0, v} => Holders(entry', r) = Holders(entry, r)
    <2>1. entry[t] # 0
      BY <1>2, <1>3
    <2> QED
      BY <1>1, <1>4, <2>1, EntryChange
  <1>7. /\ AliveClosed' /\ PathInv' /\ FreeInv'
        /\ todo' \in [Threads -> Seq(Calls(Len(name)))]
        /\ \A u \in Threads : u # t => todo'[u] = todo[u]
    <2>1. pc[t] # "call"
      BY <1>1
    <2> HIDE DEF v, IInv
    <2> QED
      BY <1>1, <1>3, <2>1, LeaveCalls
  <1>8. \A u \in Threads : pc'[u] = IF u = t THEN "call" ELSE pc[u]
    BY <1>1 DEF ThreadTypes
  <1> HIDE DEF l, i, v
  <1>9. StoreTypes'
    BY <1>1 DEF StoreTypes, Indices
  <1>10. TableTypes'
    BY <1>1, <1>2, <1>5, <1>6 DEF TableTypes, Indices
  <1>11. ThreadTypes'
    <2>1. Calls(Len(name))' = Calls(Len(name))
      BY <1>1 DEF Calls
    <2> QED
      BY <1>1, <1>7, <2>1 DEF ThreadTypes
  <1>12. UseInv'
    <2>1. DeadEmpty'
      BY <1>1, <1>2, <1>5 DEF UseInv, DeadEmpty
    <2> QED
      BY <1>7, <2>1 DEF UseInv
  <1>13. PlaceInv'
    <2>1. HeadInv'
      BY <1>7, <1>8 DEF PlaceInv, HeadInv
    <2>2. InsertInv'
      BY <1>1, <1>8 DEF PlaceInv, InsertInv
    <2>3. EntryInv'
      BY <1>1, <1>6, <1>8 DEF PlaceInv, EntryInv
    <2>4. TakenInv'
      <3> SUFFICES ASSUME NEW u \in Threads, pc'[u] = "rename_free"
                   PROVE  Get(renamed'[Head(todo'[u]).layer], Head(todo'[u]).sig, 0) # 0
        BY DEF TakenInv
      <3>1. u # t /\ pc[u] = "rename_free" /\ todo'[u] = todo[u]
        BY <1>7, <1>8
      <3>2. Get(renamed[Head(todo[u]).layer], Head(todo[u]).sig, 0) # 0
        BY <3>1 DEF PlaceInv, TakenInv
      <3>3. Head(todo[u]).layer \in Layers /\ Head(todo[u]).sig \in Nat
        BY <3>1, InsideFacts
      <3>4. Get(renamed[l], i, 0) = 0
        BY <1>1
      <3> QED
        BY <1>5, <3>1, <3>2, <3>3, <3>4
    <2> QED
      BY <2>1, <2>2, <2>3, <2>4 DEF PlaceInv
  <1>14. RegistryInv'
    <2>1. (\E u \in Threads : pc[u] = "insert") => \E u \in Threads : pc'[u] = "insert"
      BY <1>1, <1>8
    <2> QED
      BY <1>1, <2>1 DEF RegistryInv
  <1>15. CountInv'
    <2>1. ASSUME NEW r \in DOMAIN rename
          PROVE  rename[r].use_count =
                   Cardinality(Refs(renamed', n, r)) + Cardinality(Holders(entry', r))
      <3>1. r # 0
        BY DEF StoreTypes, Indices
      <3>2. rename[r].use_count =
               Cardinality(Refs(renamed, n, r)) + Cardinality(Holders(entry, r))
        BY DEF CountInv
      <3>3. CASE r = v
        <4>1. /\ Cardinality(Refs(renamed, n, v)) \in Nat
              /\ Cardinality(Holders(entry', v)) \in Nat
          BY <1>2, CountTypes
        <4> QED
          BY <1>5, <1>6, <3>2, <3>3, <4>1
      <3>4. CASE r # v
        BY <1>5, <1>6, <3>1, <3>2, <3>4
      <3> QED
        BY <3>3, <3>4
    <2> QED
      BY <1>1, <2>1 DEF CountInv
  <1>16. RefInv'
    BY <1>1, <1>3, <1>5, <1>6 DEF RefInv
  <1> QED
    BY <1>9, <1>10, <1>11, <1>12, <1>13, <1>14, <1>15, <1>16

LEMMA StoreStep ==
    ASSUME IInv, NEW t \in Threads, Store(t)
    PROVE  IInv'
  <1>1. StoreTaken(t) \/ Stores(t)
    BY DEF Store, At, stores, get_renamed, StoreTaken, Stores
  <1> QED
    BY <1>1, StoreTakenStep, StoresStep

\* What labcomm2014_renaming_rename_free leaves in DOMAIN rename.
Freed(r) ==
    /\ DOMAIN rename' = IF rename[r].use_count > 1 THEN DOMAIN rename ELSE DOMAIN rename \ {r}
    /\ rename[r].use_count > 1 => rename'[r].use_count = rename[r].use_count - 1
    /\ \A q \in DOMAIN rename \ {r} : q \in DOMAIN rename' /\ rename'[q] = rename[q]

\* A reference to r is dropped with its count: nobody refers to what is freed.
LEMMA DropCount ==
    ASSUME IInv, NEW r \in DOMAIN rename, Freed(r), UNCHANGED name,
           Cardinality(Refs(renamed, Len(name), r)) + Cardinality(Holders(entry, r))
             = Cardinality(Refs(renamed', Len(name), r)) + Cardinality(Holders(entry', r)) + 1,
           \A q : q \notin {0, r} => /\ Refs(renamed', Len(name), q) = Refs(renamed, Len(name), q)
                                     /\ Holders(entry', q) = Holders(entry, q),
           \A l \in Layers, i \in Nat : Get(renamed'[l], i, 0) \in {0, Get(renamed[l], i, 0)},
           \A u \in Threads : entry'[u] \in {0, entry[u]}
    PROVE  CountInv' /\ RefInv'
  <1> USE DEF IInv
  <1> DEFINE n == Len(name)
  <1> DEFINE a == Cardinality(Refs(renamed', n, r))
  <1> DEFINE b == Cardinality(Holders(entry', r))
  <1>1. n \in Nat /\ 0 \notin DOMAIN rename /\ rename[r].use_count \in Nat
    BY TableFacts DEF StoreTypes, Indices
  <1>2. a \in Nat /\ b \in Nat
    BY <1>1, CountTypes
  <1>3. \A q \in DOMAIN rename :
           rename[q].use_count = Cardinality(Refs(renamed, n, q)) + Cardinality(Holders(entry, q))
    BY DEF CountInv
  <1>4. rename[r].use_count = a + b + 1
    BY <1>3
  <1>5. ASSUME NEW q \in DOMAIN rename'
        PROVE  rename'[q].use_count = Cardinality(Refs(renamed', n, q)) + Cardinality(Holders(entry', q))
    <2>1. CASE q = r
      <3>1. rename[r].use_count > 1 /\ rename'[r].use_count = rename[r].use_count - 1
        BY <2>1 DEF Freed
      <3> QED
        BY <1>1, <1>2, <1>4, <2>1, <3>1
    <2>2. CASE q # r
      <3>1. q \in DOMAIN rename /\ rename'[q] = rename[q] /\ q # 0
        BY <1>1, <2>2 DEF Freed
      <3> QED
        BY <1>3, <2>2, <3>1
    <2> QED
      BY <2>1, <2>2
  <1>6. CountInv'
    BY <1>5 DEF CountInv
  <1>7. r \notin DOMAIN rename' =>
           (\A l \in Layers, i \in 1 .. n : Get(renamed'[l], i, 0) # r) /\ \A u \in Threads : entry'[u] # r
    <2> HAVE r \notin DOMAIN rename'
    <2>1. ~ (rename[r].use_count > 1)
      BY DEF Freed
    <2>2. a = 0 /\ b = 0
      <3> HIDE DEF a, b, IInv
      <3> QED
        BY <1>1, <1>2, <1>4, <2>1
    <2>3. \A l \in Layers, i \in 1 .. n : Get(renamed'[l], i, 0) # r
      BY <1>1, <2>2, CountZero
    <2>4. \A u \in Threads : entry'[u] # r
      BY <2>2, CountZero
    <2> QED
      BY <2>3, <2>4
  <1>8. ASSUME NEW l \in Layers, NEW i \in Nat, Get(renamed'[l], i, 0) # 0
        PROVE  Get(renamed'[l], i, 0) \in DOMAIN rename'
    <2>1. Get(renamed'[l], i, 0) = Get(renamed[l], i, 0)
      BY <1>8
    <2>2. Get(renamed[l], i, 0) \in DOMAIN rename /\ i \in 1 .. n
      BY <1>8, <2>1 DEF RefInv, TableTypes, Indices
    <2>3. Get(renamed[l], i, 0) = r => r \in DOMAIN rename'
      BY <1>7, <2>1, <2>2
    <2> QED
      BY <2>1, <2>2, <2>3 DEF Freed
  <1>9. ASSUME NEW u \in Threads, entry'[u] # 0
        PROVE  entry'[u] \in DOMAIN rename'
    <2>1. entry'[u] = entry[u] /\ entry[u] \in DOMAIN rename
      BY <1>9 DEF RefInv
    <2>2. entry[u] = r => r \in DOMAIN rename'
      BY <1>7, <2>1
    <2> QED
      BY <2>1, <2>2 DEF Freed
  <1>10. RefInv'
    BY <1>8, <1>9 DEF RefInv
  <1> QED
    BY <1>6, <1>10

\* What GiveBack does besides the registry and the renames.
GivesBack(t) ==
    /\ pc[t] = "rename_free" /\ Unlocked("data")
    /\ lock' = [lock EXCEPT ![LockOf(Head(todo[t]).layer)] = NoThread]
    /\ Go(t, Get(renamed[Head(todo[t]).layer], Head(todo[t]).sig, 0))
    /\ pc' = [pc EXCEPT ![t] = "call"]
    /\ entry' = [entry EXCEPT ![t] = 0]
    /\ UNCHANGED <<name, base, renamed, alive>>

LEMMA GiveBackStep ==
    ASSUME IInv, NEW t \in Threads, GiveBack(t)
    PROVE  IInv'
  <1> DEFINE r == entry[t]
  <1> DEFINE n == Len(name)
  <1>1. GivesBack(t) /\ rename_free(r)
    BY DEF GiveBack, GivesBack, At, get_renamed
  <1>2. /\ UNCHANGED <<name, base, renamed, alive>>
        /\ pc[t] = "rename_free" /\ pc' = [pc EXCEPT ![t] = "call"]
        /\ entry' = [entry EXCEPT ![t] = 0] /\ UNCHANGED name
    BY <1>1 DEF GivesBack
  <1>3. \A u \in Threads : pc[u] # "insert"
    BY <1>1, NobodyInserts DEF GivesBack, IInv, PlaceInv
  <1>4. r # 0 /\ r \in DOMAIN rename /\ r \in Nat /\ n \in Nat
    BY <1>2, TableFacts DEF IInv, PlaceInv, EntryInv, RefInv
  <1>5. StoreTypes' /\ RegistryInv' /\ Freed(r)
    <2>1. StoreTypes /\ RegistryInv
      BY DEF IInv
    <2> HIDE DEF r
    <2> QED
      BY <1>1, <1>2, <1>3, <1>4, <2>1, FreeRename DEF Freed
  <1>6. /\ \A u \in Threads : pc'[u] = IF u = t THEN "call" ELSE pc[u]
        /\ entry \in [Threads -> Nat]
    BY <1>2 DEF IInv, ThreadTypes, TableTypes
  <1>7. /\ entry' \in [Threads -> Nat]
        /\ \A u \in Threads : entry'[u] = IF u = t THEN 0 ELSE entry[u]
        /\ Cardinality(Holders(entry, r)) = Cardinality(Holders(entry', r)) + 1
        /\ \A q : q \notin {0, r} => Holders(entry', q) = Holders(entry, q)
    BY <1>2, <1>4, <1>6, EntryChange
  <1>8. /\ AliveClosed' /\ PathInv' /\ FreeInv'
        /\ todo' \in [Threads -> Seq(Calls(Len(name)))]
        /\ \A u \in Threads : u # t => todo'[u] = todo[u]
    <2> DEFINE g == Get(renamed[Head(todo[t]).layer], Head(todo[t]).sig, 0)
    <2>1. pc[t] # "call" /\ Head(todo[t]).layer \in Layers /\ Head(todo[t]).sig \in Nat
      BY <1>2, InsideFacts
    <2>2. g # 0 /\ g \in 0 .. Len(name)
      BY <1>2, <2>1, TableFacts DEF IInv, PlaceInv, TakenInv
    <2>3. Go(t, g) /\ UNCHANGED <<name, alive>>
      BY <1>1 DEF GivesBack
    <2> HIDE DEF g
    <2>4. g \in 1 .. Len(name)
      BY <1>4, <2>2
    <2> QED
      BY <2>1, <2>3, <2>4, LeaveCalls
  <1>9. TableTypes'
    BY <1>2, <1>7 DEF IInv, TableTypes, Indices
  <1>10. ThreadTypes'
    <2>1. Calls(Len(name))' = Calls(Len(name))
      BY <1>2 DEF Calls
    <2>2. LockOf(Head(todo[t]).layer) \in {"writer", "data"}
      BY DEF LockOf
    <2>3. lock' \in [{"writer", "data"} -> Threads \cup {NoThread}]
      BY <1>1, <2>2 DEF IInv, ThreadTypes, GivesBack
    <2>4. pc' \in [Threads -> {"call", "rename_new", "insert", "store", "rename_free"}]
      BY <1>2 DEF IInv, ThreadTypes
    <2> QED
      BY <1>8, <2>1, <2>3, <2>4 DEF ThreadTypes
  <1>11. UseInv'
    <2>1. DeadEmpty'
      BY <1>2 DEF IInv, UseInv, DeadEmpty
    <2> QED
      BY <1>8, <2>1 DEF UseInv
  <1>12. PlaceInv'
    <2>1. HeadInv'
      BY <1>6, <1>8 DEF IInv, PlaceInv, HeadInv
    <2>2. InsertInv'
      BY <1>3, <1>6 DEF InsertInv
    <2>3. EntryInv'
      BY <1>6, <1>7 DEF IInv, PlaceInv, EntryInv
    <2>4. TakenInv'
      BY <1>2, <1>6, <1>8 DEF IInv, PlaceInv, TakenInv
    <2> QED
      BY <2>1, <2>2, <2>3, <2>4 DEF PlaceInv
  <1>13. CountInv' /\ RefInv'
    <2>1. /\ Cardinality(Refs(renamed, n, r)) \in Nat
          /\ Cardinality(Holders(entry', r)) \in Nat
      BY <1>4, CountTypes
    <2>2. Cardinality(Refs(renamed, n, r)) + Cardinality(Holders(entry, r))
             = Cardinality(Refs(renamed', n, r)) + Cardinality(Holders(entry', r)) + 1
      BY <1>2, <1>7, <2>1
    <2>3. \A q : q \notin {0, r} => /\ Refs(renamed', n, q) = Refs(renamed, n, q)
                                    /\ Holders(entry', q) = Holders(entry, q)
      BY <1>2, <1>7
    <2>4. \A l \in Layers, i \in Nat : Get(renamed'[l], i, 0) \in {0, Get(renamed[l], i, 0)}
      BY <1>2
    <2>5. \A u \in Threads : entry'[u] \in {0, entry[u]}
      BY <1>7
    <2> HIDE DEF r
    <2> QED
      BY <1>2, <1>4, <1>5, <2>2, <2>3, <2>4, <2>5, DropCount
  <1> QED
    BY <1>5, <1>9, <1>10, <1>11, <1>12, <1>13 DEF IInv

\* Nobody else's calls come through a layer that is being freed.
LEMMA FreedAlone ==
    ASSUME IInv, NEW t \in Threads, todo[t] # <<>>, Head(todo[t]).op = "free",
           NEW u \in Threads, u # t, NEW m \in 1 .. Len(todo[u]),
           NEW S \in SUBSET alive, Path(todo[u][m], S)
    PROVE  Head(todo[t]).layer \notin S
  <1>1. /\ Head(todo[t]) = todo[t][1] /\ 1 \in 1 .. Len(todo[t])
    <2>1. todo[t] \in Seq(Calls(Len(name)))
      BY TableFacts
    <2> QED
      BY <2>1
  <1>2. /\ \A k \in alive : Below[k] # Head(todo[t]).layer
        /\ todo[u][m].from # Head(todo[t]).layer
    BY <1>1 DEF IInv, UseInv, FreeInv
  <1> QED
    BY <1>2 DEF Path

\* What a thread that frees a layer works for.
LEMMA FreeFacts ==
    ASSUME IInv, NEW t \in Threads, todo[t] # <<>>, Head(todo[t]).op = "free"
    PROVE  /\ Head(todo[t]).layer \in Layers /\ Head(todo[t]) \in Calls(Len(name))
           /\ todo[t] \in Seq(Calls(Len(name))) /\ Len(todo[t]) = 1 /\ todo[t][1] = Head(todo[t])
           /\ \A k \in alive : Below[k] # Head(todo[t]).layer
  <1>1. todo[t] \in Seq(Calls(Len(name)))
    BY TableFacts
  <1>2. Head(todo[t]) \in Calls(Len(name)) /\ todo[t][1] = Head(todo[t]) /\ 1 \in 1 .. Len(todo[t])
    BY <1>1
  <1>3. Head(todo[t]).layer \in Layers
    BY <1>2 DEF Calls
  <1>4. Len(todo[t]) = 1 /\ \A k \in alive : Below[k] # Head(todo[t]).layer
    BY <1>2 DEF IInv, UseInv, FreeInv
  <1> QED
    BY <1>1, <1>2, <1>3, <1>4

\* do_free gives the rename of the first signature in the table back.
LEMMA FreeEntryStep ==
    ASSUME IInv, NEW t \in Threads, pc[t] = "call", todo[t] # <<>>, Head(todo[t]).op = "free",
           NEW i \in Keys(renamed[Head(todo[t]).layer]), Unlocked("data"),
           rename_free(Get(renamed[Head(todo[t]).layer], i, 0)),
           Writes(Head(todo[t]).layer, i, 0),
           UNCHANGED <<name, base, alive, lock, pc, entry, todo>>
    PROVE  IInv'
  <1> DEFINE l == Head(todo[t]).layer
  <1> DEFINE n == Len(name)
  <1> DEFINE r == Get(renamed[l], i, 0)
  <1>1. l \in Layers /\ renamed \in [Layers -> Arrays] /\ n \in Nat
    BY FreeFacts, TableFacts DEF IInv, TableTypes
  <1>2. i \in Nat /\ r # 0
    <2>1. renamed[l] \in Arrays
      BY <1>1
    <2> QED
      BY <2>1, ArrayFacts
  <1>3. i \in 1 .. n /\ r \in DOMAIN rename /\ r \in Nat
    <2>1. i \in 1 .. n
      BY <1>1, <1>2 DEF IInv, TableTypes, Indices
    <2>2. r \in DOMAIN rename
      BY <1>1, <1>2 DEF IInv, RefInv
    <2>3. r \in Nat
      BY <2>2 DEF IInv, StoreTypes, Indices
    <2> QED
      BY <2>1, <2>2, <2>3
  <1>4. \A u \in Threads : pc[u] # "insert"
    BY NobodyInserts DEF IInv, PlaceInv
  <1>5. Writes(l, i, 0) /\ rename_free(r)
    OBVIOUS
  <1> HIDE DEF l, r
  <1>6. StoreTypes' /\ RegistryInv' /\ Freed(r)
    <2>1. StoreTypes /\ RegistryInv
      BY DEF IInv
    <2> QED
      BY <1>3, <1>4, <1>5, <2>1, FreeRename DEF Freed
  <1>7. /\ renamed' \in [Layers -> Arrays]
        /\ \A k \in Layers, j \in Nat :
              Get(renamed'[k], j, 0) = IF k = l /\ j = i THEN 0 ELSE Get(renamed[k], j, 0)
        /\ Cardinality(Refs(renamed, n, r)) = Cardinality(Refs(renamed', n, r)) + 1
        /\ \A q : q \notin {r, 0} => Refs(renamed', n, q) = Refs(renamed, n, q)
    BY <1>1, <1>2, <1>3, <1>5, TableChange DEF r
  <1>8. TableTypes'
    BY <1>7 DEF IInv, TableTypes, Indices
  <1>9. ThreadTypes'
    BY DEF IInv, ThreadTypes
  <1>10. UseInv'
    <2>1. AliveClosed' /\ FreeInv'
      BY DEF IInv, UseInv, AliveClosed, FreeInv
    <2>2. PathInv'
      BY DEF IInv, UseInv, PathInv
    <2>3. DeadEmpty'
      BY <1>7 DEF IInv, UseInv, DeadEmpty
    <2> QED
      BY <2>1, <2>2, <2>3 DEF UseInv
  <1>11. PlaceInv'
    <2>1. HeadInv' /\ EntryInv'
      BY DEF IInv, PlaceInv, HeadInv, EntryInv
    <2>2. InsertInv'
      BY <1>4 DEF InsertInv
    <2>3. TakenInv'
      <3> SUFFICES ASSUME NEW u \in Threads, pc[u] = "rename_free"
                   PROVE  Get(renamed'[Head(todo[u]).layer], Head(todo[u]).sig, 0) # 0
        BY DEF TakenInv
      <3> DEFINE c == Head(todo[u])
      <3>1. /\ c.layer \in Layers /\ c.sig \in Nat /\ c.layer # 0 /\ todo[u] # <<>>
            /\ todo[u] \in Seq(Calls(Len(name))) /\ u # t
        BY InsideFacts, TableFacts
      <3>2. c = todo[u][1] /\ 1 \in 1 .. Len(todo[u])
        BY <3>1
      <3>3. PICK S \in SUBSET alive : Path(todo[u][1], S)
        BY <3>2 DEF IInv, UseInv, PathInv
      <3>4. l \notin S
        BY <3>1, <3>2, <3>3, FreedAlone DEF l
      <3>5. c.layer # l
        BY <3>1, <3>2, <3>3, <3>4 DEF Path
      <3>6. Get(renamed[c.layer], c.sig, 0) # 0
        BY DEF IInv, PlaceInv, TakenInv
      <3> HIDE DEF c
      <3>7. Get(renamed'[c.layer], c.sig, 0) # 0
        BY <1>7, <3>1, <3>5, <3>6
      <3> QED
        BY <3>7 DEF c
    <2> QED
      BY <2>1, <2>2, <2>3 DEF PlaceInv
  <1>12. CountInv' /\ RefInv'
    <2>1. /\ Cardinality(Refs(renamed', n, r)) \in Nat /\ Cardinality(Holders(entry, r)) \in Nat
      BY <1>1, CountTypes
    <2>2. Cardinality(Refs(renamed, n, r)) + Cardinality(Holders(entry, r))
             = Cardinality(Refs(renamed', n, r)) + Cardinality(Holders(entry', r)) + 1
      BY <1>7, <2>1
    <2>3. \A q : q \notin {0, r} => /\ Refs(renamed', n, q) = Refs(renamed, n, q)
                                    /\ Holders(entry', q) = Holders(entry, q)
      BY <1>7
    <2>4. \A k \in Layers, j \in Nat : Get(renamed'[k], j, 0) \in {0, Get(renamed[k], j, 0)}
      BY <1>7
    <2>5. \A u \in Threads : entry'[u] \in {0, entry[u]}
      OBVIOUS
    <2> QED
      BY <1>3, <1>6, <2>2, <2>3, <2>4, <2>5, DropCount
  <1> QED
    BY <1>6, <1>8, <1>9, <1>10, <1>11, <1>12 DEF IInv

\* do_free with an empty table: the layer is gone.
LayerGone(t, l) ==
    /\ pc[t] = "call" /\ todo[t] # <<>> /\ Head(todo[t]).op = "free" /\ l = Head(todo[t]).layer
    /\ Keys(renamed[l]) = {}
    /\ alive' = alive \ {l}
    /\ todo' = [todo EXCEPT ![t] = Tail(@)]
    /\ UNCHANGED <<name, registry, rename, base, renamed, lock, pc, entry>>

LEMMA LayerGoneStep ==
    ASSUME IInv, NEW t \in Threads, NEW l, LayerGone(t, l)
    PROVE  IInv'
  <1>1. UNCHANGED <<name, registry, rename, base, renamed, lock, pc, entry>> /\ alive' = alive \ {l}
        /\ pc[t] = "call" /\ todo[t] # <<>> /\ Head(todo[t]).op = "free" /\ l = Head(todo[t]).layer
    BY DEF LayerGone
  <1>2. l \in Layers /\ Len(todo[t]) = 1 /\ todo[t] \in Seq(Calls(Len(name)))
        /\ \A k \in alive : Below[k] # l
    BY <1>1, FreeFacts
  <1> DEFINE rest == Tail(todo[t])
  <1>3. rest \in Seq(Calls(Len(name))) /\ Len(rest) = 0 /\ 1 .. 0 = {}
    BY <1>1, <1>2
  <1>4. /\ \A u \in Threads : todo'[u] = IF u = t THEN rest ELSE todo[u]
        /\ todo' \in [Threads -> Seq(Calls(Len(name)))]
    <2>1. todo' = [todo EXCEPT ![t] = rest] /\ todo \in [Threads -> Seq(Calls(Len(name)))]
      BY DEF LayerGone, IInv, ThreadTypes
    <2> HIDE DEF rest
    <2> QED
      BY <1>3, <2>1
  <1> HIDE DEF rest
  <1>5. StoreTypes'
    BY <1>1 DEF IInv, StoreTypes, Indices
  <1>6. TableTypes'
    BY <1>1 DEF IInv, TableTypes, Indices
  <1>7. ThreadTypes'
    <2>1. Calls(Len(name))' = Calls(Len(name))
      BY <1>1 DEF Calls
    <2> QED
      BY <1>1, <1>4, <2>1 DEF IInv, ThreadTypes
  <1>8. UseInv'
    <2>1. AliveClosed'
      BY <1>1, <1>2 DEF IInv, UseInv, AliveClosed
    <2>2. PathInv'
      <3> SUFFICES ASSUME NEW u \in Threads, NEW m \in 1 .. Len(todo'[u])
                   PROVE  \E S \in SUBSET alive' : Path(todo'[u][m], S)
        BY DEF PathInv
      <3>1. u # t /\ todo'[u] = todo[u]
        BY <1>3, <1>4
      <3>2. PICK S \in SUBSET alive : Path(todo[u][m], S)
        BY <3>1 DEF IInv, UseInv, PathInv
      <3>3. l \notin S
        BY <1>1, <3>1, <3>2, FreedAlone
      <3> QED
        BY <1>1, <3>1, <3>2, <3>3
    <2>3. FreeInv'
      <3> SUFFICES ASSUME NEW u \in Threads, NEW m \in 1 .. Len(todo'[u]), todo'[u][m].op = "free"
                   PROVE  /\ Len(todo'[u]) = 1
                          /\ \A k \in alive' : Below[k] # todo'[u][m].layer
                          /\ \A v \in Threads : \A j \in 1 .. Len(todo'[v]) :
                                v # u => todo'[v][j].from # todo'[u][m].layer
        BY DEF FreeInv
      <3>1. u # t /\ todo'[u] = todo[u]
        BY <1>3, <1>4
      <3>2. /\ Len(todo[u]) = 1
            /\ \A k \in alive : Below[k] # todo[u][m].layer
            /\ \A v \in Threads : \A j \in 1 .. Len(todo[v]) :
                  v # u => todo[v][j].from # todo[u][m].layer
        BY <3>1 DEF IInv, UseInv, FreeInv
      <3> QED
        BY <1>1, <1>3, <1>4, <3>1, <3>2
    <2>4. DeadEmpty'
      <3>1. \A i \in Nat : Get(renamed[l], i, 0) = 0
        <4>1. renamed[l] \in Arrays /\ Keys(renamed[l]) = {}
          BY <1>2 DEF IInv, TableTypes, LayerGone
        <4> QED
          BY <4>1, ArrayFacts
      <3> QED
        BY <1>1, <3>1 DEF IInv, UseInv, DeadEmpty
    <2> QED
      BY <2>1, <2>2, <2>3, <2>4 DEF UseInv
  <1>9. PlaceInv'
    <2>1. HeadInv'
      BY <1>1, <1>4 DEF IInv, PlaceInv, HeadInv
    <2>2. InsertInv'
      BY <1>1 DEF IInv, PlaceInv, InsertInv
    <2>3. EntryInv'
      BY <1>1 DEF IInv, PlaceInv, EntryInv
    <2>4. TakenInv'
      BY <1>1, <1>4 DEF IInv, PlaceInv, TakenInv
    <2> QED
      BY <2>1, <2>2, <2>3, <2>4 DEF PlaceInv
  <1>10. RegistryInv'
    BY <1>1 DEF IInv, RegistryInv
  <1>11. CountInv' /\ RefInv'
    BY <1>1 DEF IInv, CountInv, RefInv, Refs, Holders
  <1> QED
    BY <1>5, <1>6, <1>7, <1>8, <1>9, <1>10, <1>11 DEF IInv

LEMMA DoFreeStep ==
    ASSUME IInv, NEW t \in Threads, do_free(t)
    PROVE  IInv'
  <1> DEFINE l == Head(todo[t]).layer
  <1>1. /\ pc[t] = "call" /\ todo[t] # <<>> /\ Head(todo[t]).op = "free"
        /\ UNCHANGED <<name, base, lock, pc, entry>>
    BY DEF do_free, At
  <1>2. CASE \E i \in Keys(renamed[l]) :
               /\ Unlocked("data")
               /\ rename_free(Get(renamed[l], i, 0))
               /\ Writes(l, i, 0)
               /\ UNCHANGED <<alive, todo>>
    BY <1>1, <1>2, FreeEntryStep
  <1>3. CASE LayerGone(t, l)
    BY <1>3, LayerGoneStep
  <1> QED
    BY <1>2, <1>3 DEF do_free, At, get_renamed, Writes, LayerGone

-----------------------------------------------------------------------------
(* The invariant holds, and what follows from it.                          *)

LEMMA InitInv == Init => IInv
  <1> SUFFICES ASSUME Init
               PROVE  IInv
    OBVIOUS
  <1>1. NRoots \in Nat /\ Len(name) = NRoots /\ name \in Seq(Seq(Parts))
    <2>1. \A i \in Roots : <<i>> \in Seq(Parts)
      BY DEF Parts
    <2>2. name \in [1 .. NRoots -> Seq(Parts)] /\ NRoots \in Nat
      BY <2>1, LayersAssumption DEF Init, Roots
    <2> QED
      BY <2>2
  <1>2. \A S : <<>> \in Seq(S) /\ Len(<<>>) = 0 /\ DOMAIN <<>> = {} /\ 1 .. 0 = {}
    OBVIOUS
  <1>3. /\ DOMAIN registry = {} /\ DOMAIN rename = {}
        /\ \A l \in Layers : renamed[l] = EmptyArray
        /\ renamed \in [Layers -> Arrays]
        /\ \A t \in Threads : todo[t] = <<>> /\ entry[t] = 0 /\ pc[t] = "call"
    BY <1>2, ArrayFacts DEF Init
  <1>4. \A l \in Layers, i \in Nat : Get(renamed[l], i, 0) = 0
    BY <1>3, ArrayFacts
  <1>5. StoreTypes
    BY <1>1, <1>3 DEF StoreTypes
  <1>6. TableTypes
    BY <1>3, <1>4 DEF TableTypes, Init
  <1>7. ThreadTypes
    BY <1>2 DEF ThreadTypes, Init
  <1>8. UseInv
    <2>1. \A t \in Threads : Len(todo[t]) = 0
      BY <1>2, <1>3
    <2> QED
      BY <1>2, <1>4, <2>1 DEF UseInv, AliveClosed, PathInv, FreeInv, DeadEmpty, Init
  <1>9. PlaceInv
    BY <1>3 DEF PlaceInv, HeadInv, InsertInv, EntryInv, TakenInv
  <1>10. RegistryInv /\ CountInv /\ RefInv
    BY <1>3, <1>4 DEF RegistryInv, CountInv, RefInv
  <1> QED
    BY <1>5, <1>6, <1>7, <1>8, <1>9, <1>10 DEF IInv

LEMMA NextInv == IInv /\ [Next]_vars => IInv'
  <1> SUFFICES ASSUME IInv, [Next]_vars
               PROVE  IInv'
    OBVIOUS
  <1>1. CASE UNCHANGED vars
    <2>1. UNCHANGED <<name, registry, rename, base, renamed, alive, lock, pc, entry, todo>>
      BY <1>1 DEF vars, stores
    <2>2. StoreTypes' /\ TableTypes' /\ ThreadTypes'
      BY <2>1 DEF IInv, StoreTypes, TableTypes, ThreadTypes, Indices
    <2>3. AliveClosed' /\ FreeInv' /\ DeadEmpty'
      BY <2>1 DEF IInv, UseInv, AliveClosed, FreeInv, DeadEmpty
    <2>4. PathInv'
      BY <2>1 DEF IInv, UseInv, PathInv
    <2>5. PlaceInv'
      BY <2>1 DEF IInv, PlaceInv, HeadInv, InsertInv, EntryInv, TakenInv
    <2>6. RegistryInv'
      BY <2>1 DEF IInv, RegistryInv
    <2>7. CountInv' /\ RefInv'
      BY <2>1 DEF IInv, CountInv, RefInv, Refs, Holders
    <2> QED
      BY <2>2, <2>3, <2>4, <2>5, <2>6, <2>7 DEF IInv, UseInv
  <1>2. ASSUME NEW t \in Threads, Step(t)
        PROVE  IInv'
    <2>1. CASE Lookup(t) \/ SetRenamed(t) \/ PlainCall(t)
      BY <2>1, LookupStep
    <2>2. CASE RenameNew(t)
      BY <2>2, RenameNewStep
    <2>3. CASE Insert(t)
      BY <2>3, InsertStep
    <2>4. CASE Store(t)
      BY <2>4, StoreStep
    <2>5. CASE GiveBack(t)
      BY <2>5, GiveBackStep
    <2>6. CASE do_free(t)
      BY <2>6, DoFreeStep
    <2> QED
      BY <1>2, <2>1, <2>2, <2>3, <2>4, <2>5, <2>6 DEF Step
  <1>3. ASSUME NEW t \in Threads, NEW l \in Layers, Free(t, l)
        PROVE  IInv'
    BY <1>3, FreeStep
  <1>4. ASSUME NEW t \in Threads, NEW l \in Layers, NEW s \in Samples[l], Use(t, l, s)
        PROVE  IInv'
    BY <1>4, UseStep
  <1>5. ASSUME NEW l \in Layers, New(l)
        PROVE  IInv'
    BY <1>5, NewStep
  <1> QED
    BY <1>1, <1>2, <1>3, <1>4, <1>5 DEF Next

LEMMA InvCounts == IInv => UseCountsExact
  <1> SUFFICES ASSUME IInv
               PROVE  UseCountsExact
    OBVIOUS
  <1>1. \A r : {e \in Layers \X Indices : get_renamed(e[1], e[2]) = r} = Refs(renamed, Len(name), r)
    BY DEF Refs, get_renamed, Indices
  <1>2. \A r : {t \in Threads : entry[t] = r} = Holders(entry, r)
    BY DEF Holders
  <1>3. \A r \in DOMAIN rename :
          rename[r].use_count =
              Cardinality({e \in Layers \X Indices : get_renamed(e[1], e[2]) = r})
            + Cardinality({t \in Threads : entry[t] = r})
    BY <1>1, <1>2 DEF IInv, CountInv
  <1>4. \A l \in Layers : \A i \in Keys(renamed[l]) : get_renamed(l, i) \in DOMAIN rename
    <2> TAKE l \in Layers
    <2> TAKE i \in Keys(renamed[l])
    <2>1. renamed[l] \in Arrays
      BY DEF IInv, TableTypes
    <2>2. i \in Nat /\ Get(renamed[l], i, 0) # 0
      BY <2>1, ArrayFacts
    <2> QED
      BY <2>2 DEF IInv, RefInv, get_renamed
  <1>5. \A t \in Threads : entry[t] # 0 => entry[t] \in DOMAIN rename
    BY DEF IInv, RefInv
  <1> QED
    BY <1>3, <1>4, <1>5 DEF UseCountsExact

LEMMA InvRegistry == IInv => RegistryExact
  <1> SUFFICES ASSUME IInv, \A t \in Threads : pc[t] # "insert"
               PROVE  /\ DOMAIN registry = DOMAIN rename \cup {rename[r].base : r \in DOMAIN rename}
                      /\ \A r \in DOMAIN rename :
                            registry[r] = [base |-> rename[r].base, renames |-> <<>>]
                      /\ \A b \in DOMAIN registry \ DOMAIN rename :
                            /\ registry[b].base = 0
                            /\ Range(registry[b].renames) = {r \in DOMAIN rename : rename[r].base = b}
                            /\ \A m, n \in DOMAIN registry[b].renames :
                                 name[registry[b].renames[m]] = name[registry[b].renames[n]] => m = n
    BY DEF RegistryExact
  <1>1. RegistryInv
    BY DEF IInv
  <1>2. ASSUME NEW b \in DOMAIN registry \ DOMAIN rename
        PROVE  /\ registry[b].renames # <<>>
               /\ DOMAIN registry[b].renames = 1 .. Len(registry[b].renames)
               /\ Len(registry[b].renames) \in Nat
    <2>1. registry[b].renames # <<>>
      BY <1>1 DEF RegistryInv
    <2>2. registry[b].renames \in Seq(Nat)
      BY DEF IInv, StoreTypes
    <2> QED
      BY <2>1, <2>2
  <1>3. ASSUME NEW b \in DOMAIN registry \ DOMAIN rename
        PROVE  /\ registry[b].base = 0
               /\ Range(registry[b].renames) = {r \in DOMAIN rename : rename[r].base = b}
               /\ \A m, n \in DOMAIN registry[b].renames :
                    name[registry[b].renames[m]] = name[registry[b].renames[n]] => m = n
    <2> DEFINE list == registry[b].renames
    <2>1. /\ registry[b].base = 0
          /\ \A n \in 1 .. Len(list) : list[n] \in DOMAIN rename /\ rename[list[n]].base = b
          /\ \A r \in DOMAIN rename : rename[r].base = b => \E n \in 1 .. Len(list) : list[n] = r
          /\ \A m, n \in 1 .. Len(list) : name[list[m]] = name[list[n]] => m = n
      BY <1>1, RegistryFacts
    <2>2. DOMAIN list = 1 .. Len(list)
      BY <1>2
    <2> HIDE DEF list
    <2>3. Range(list) = {r \in DOMAIN rename : rename[r].base = b}
      BY <2>1, <2>2 DEF Range
    <2> QED
      BY <2>1, <2>2, <2>3 DEF list
  <1>4. ASSUME NEW b \in DOMAIN registry \ DOMAIN rename
        PROVE  \E r \in DOMAIN rename : rename[r].base = b
    <2>1. Len(registry[b].renames) # 0
      <3>1. registry[b].renames \in Seq(Nat)
        BY DEF IInv, StoreTypes
      <3> QED
        BY <1>2, <3>1
    <2>2. 1 \in 1 .. Len(registry[b].renames)
      BY <1>2, <2>1
    <2> QED
      BY <1>1, <2>2, RegistryFacts
  <1>5. \A r \in DOMAIN rename :
          /\ r \in DOMAIN registry
          /\ registry[r] = [base |-> rename[r].base, renames |-> <<>>]
          /\ rename[r].base \in DOMAIN registry
    BY <1>1, RegistryFacts
  <1>6. DOMAIN registry = DOMAIN rename \cup {rename[r].base : r \in DOMAIN rename}
    <2> DEFINE B == {rename[r].base : r \in DOMAIN rename}
    <2>1. \A b : b \in B <=> \E r \in DOMAIN rename : rename[r].base = b
      OBVIOUS
    <2> HIDE DEF B
    <2>2. \A b \in DOMAIN registry : b \in DOMAIN rename \/ b \in B
      BY <1>4, <2>1
    <2>3. \A b \in B : b \in DOMAIN registry
      BY <1>5, <2>1
    <2>4. \A r \in DOMAIN rename : r \in DOMAIN registry
      BY <1>5
    <2>5. DOMAIN registry = DOMAIN rename \cup B
      BY <2>2, <2>3, <2>4
    <2> QED
      BY <2>5 DEF B
  <1> QED
    BY <1>3, <1>5, <1>6

-----------------------------------------------------------------------------
(* The way of a call from the layer it came in at to where it is.          *)

\* s gives the signature of call c in every layer that it has come through: the tables T of
\* existing layers, the set A, lead from each to the next, and c is at the lowest.
Trail(T, A, c, s) ==
    /\ s \in [Layers \cup {0} -> Nat]
    /\ s[c.from] = c.root /\ s[c.layer] = c.sig
    /\ \A k \in Layers \cup {0} : s[k] # 0 =>
          /\ c.layer <= k
          /\ k # 0 => k \in A
          /\ k # c.from => \E h \in Layers : s[h] # 0 /\ Below[h] = k
    /\ \A k \in Layers : s[k] # 0 /\ k # c.layer =>
          Get(T[k], s[k], 0) # 0 /\ s[Below[k]] = Get(T[k], s[k], 0)

\* Call c is for its root or for a rename in R of it, which the tables lead to.
Routed(T, A, R, c) ==
    /\ c.from \in Layers /\ c.layer \in Layers \cup {0} /\ c.sig \in Nat \ {0} /\ c.root \in Roots
    /\ c.sig \in Roots => c.sig = c.root
    /\ c.sig \in DOMAIN R => R[c.sig].base = c.root
    /\ \E s : Trail(T, A, c, s)

\* What the plain encoder or decoder was told, as a call.
AtPlain(x) == [from |-> x.from, root |-> x.root, layer |-> 0, sig |-> x.sig]

\* A call of the application has no way behind it.
LEMMA RoutedStart ==
    ASSUME NEW T, NEW A, NEW R, NEW c, DOMAIN R \cap Roots = {},
           c.from \in Layers, c.from \in A, c.layer = c.from, c.root \in Roots, c.sig = c.root
    PROVE  Routed(T, A, R, c)
  <1> DEFINE s == [k \in Layers \cup {0} |-> IF k = c.from THEN c.root ELSE 0]
  <1>1. Layers \subseteq Nat \ {0} /\ Roots \subseteq Nat \ {0}
    BY LayerFacts, LayersAssumption DEF Roots
  <1>2. s \in [Layers \cup {0} -> Nat] /\ \A k \in Layers \cup {0} : s[k] # 0 <=> k = c.from
    BY <1>1
  <1>3. s[c.from] = c.root /\ s[c.layer] = c.sig
    OBVIOUS
  <1> HIDE DEF s
  <1>4. \A k \in Layers \cup {0} : s[k] # 0 => k = c.from /\ c.layer <= k /\ k \in A
    BY <1>1, <1>2
  <1>5. Trail(T, A, c, s)
    BY <1>2, <1>3, <1>4 DEF Trail
  <1> QED
    BY <1>1, <1>5 DEF Routed

\* Layers and tables change, but no way leads through the layer f, and the other
\* layers stay and keep what they have.
Kept(T, A, U, B, f) ==
    \A k \in A : k # f =>
      /\ k \in B
      /\ \A j \in Nat : Get(T[k], j, 0) # 0 => Get(U[k], j, 0) = Get(T[k], j, 0)

\* A call keeps its way when tables and layers change elsewhere.
LEMMA RoutedKept ==
    ASSUME NEW T, NEW A, NEW R, NEW U, NEW B, NEW Q, NEW c, NEW f, Routed(T, A, R, c),
           Kept(T, A, U, B, f), f \in Layers => c.from # f /\ \A k \in A : Below[k] # f,
           A \subseteq Layers,
           c.sig \in DOMAIN Q => c.sig \in DOMAIN R /\ Q[c.sig].base = R[c.sig].base
    PROVE  Routed(U, B, Q, c)
  <1>1. PICK s : Trail(T, A, c, s)
    BY DEF Routed
  <1>2. /\ s \in [Layers \cup {0} -> Nat]
        /\ s[c.from] = c.root /\ s[c.layer] = c.sig
        /\ \A k \in Layers \cup {0} : s[k] # 0 =>
              /\ c.layer <= k
              /\ k # 0 => k \in A
              /\ k # c.from => \E h \in Layers : s[h] # 0 /\ Below[h] = k
        /\ \A k \in Layers : s[k] # 0 /\ k # c.layer =>
              Get(T[k], s[k], 0) # 0 /\ s[Below[k]] = Get(T[k], s[k], 0)
    BY <1>1 DEF Trail
  <1>3. 0 \notin Layers
    BY LayerFacts
  <1>4. ASSUME NEW k \in Layers, s[k] # 0
        PROVE  k \in A /\ k # f
    <2>1. k \in A /\ (k # c.from => \E h \in Layers : s[h] # 0 /\ Below[h] = k)
      BY <1>2, <1>3, <1>4
    <2>2. \A h \in Layers : s[h] # 0 => h \in A
      BY <1>2, <1>3
    <2> QED
      BY <1>4, <2>1, <2>2
  <1>5. \A k \in Layers : s[k] # 0 =>
           /\ k \in B
           /\ Get(T[k], s[k], 0) # 0 => Get(U[k], s[k], 0) = Get(T[k], s[k], 0)
    <2> TAKE k \in Layers
    <2> HAVE s[k] # 0
    <2>1. k \in A /\ k # f /\ s[k] \in Nat
      BY <1>2, <1>4
    <2> QED
      BY <2>1 DEF Kept
  <1>6. \A k \in Layers \cup {0} : s[k] # 0 =>
              /\ c.layer <= k
              /\ k # 0 => k \in B
              /\ k # c.from => \E h \in Layers : s[h] # 0 /\ Below[h] = k
    BY <1>2, <1>5
  <1>7. \A k \in Layers : s[k] # 0 /\ k # c.layer =>
              Get(U[k], s[k], 0) # 0 /\ s[Below[k]] = Get(U[k], s[k], 0)
    BY <1>2, <1>5
  <1>8. Trail(U, B, c, s)
    BY <1>2, <1>6, <1>7 DEF Trail
  <1> QED
    BY <1>8 DEF Routed

\* A call that is no longer for its root is for something that a table holds.
LEMMA RoutedHeld ==
    ASSUME NEW T, NEW A, NEW R, NEW c, Routed(T, A, R, c), A \subseteq Layers
    PROVE  \/ c.layer = c.from /\ c.sig = c.root
           \/ \E k \in A, j \in Nat \ {0} : Below[k] = c.layer /\ c.sig = Get(T[k], j, 0)
  <1>1. PICK s : Trail(T, A, c, s)
    BY DEF Routed
  <1>2. c.layer \in Layers \cup {0} /\ c.sig # 0 /\ c.from \in Layers
    BY DEF Routed
  <1>3. CASE c.layer = c.from
    BY <1>1, <1>3 DEF Trail
  <1>4. CASE c.layer # c.from
    <2>1. s[c.layer] # 0 /\ s[c.layer] = c.sig
      BY <1>1, <1>2 DEF Trail
    <2>2. PICK h \in Layers : s[h] # 0 /\ Below[h] = c.layer
      BY <1>1, <1>2, <1>4, <2>1 DEF Trail
    <2>3. h # c.layer /\ h # 0
      BY <2>2, LayersAssumption, LayerFacts
    <2>4. h \in A /\ s[h] \in Nat \ {0}
      BY <1>1, <2>2, <2>3 DEF Trail
    <2>5. s[Below[h]] = Get(T[h], s[h], 0)
      BY <1>1, <2>2, <2>3 DEF Trail
    <2> QED
      BY <2>1, <2>2, <2>4, <2>5
  <1> QED
    BY <1>3, <1>4

\* Layers are numbered from below.
LEMMA BelowFacts ==
    \A l \in Layers : /\ l \in Nat /\ l # 0 /\ Below[l] \in Layers \cup {0} /\ Below[l] \in Nat
                      /\ Below[l] < l /\ Below[l] # l /\ l <= Len(Below) /\ Len(Below) \in Nat
  <1>1. Below \in Seq(Nat) /\ Layers = 1 .. Len(Below) /\ Len(Below) \in Nat
    BY LayersAssumption DEF Layers
  <1>2. \A l \in Layers : l \in Nat /\ l # 0 /\ Below[l] \in Nat /\ l <= Len(Below)
    BY <1>1
  <1>3. \A l \in Layers : Below[l] < l /\ Below[l] \in Layers \cup {0}
    BY LayersAssumption, LayerFacts
  <1>4. \A l \in Layers : Below[l] # l
    BY <1>2, <1>3
  <1> QED
    BY <1>1, <1>2, <1>3, <1>4

\* A call goes down one layer by that layer's table.
LEMMA RoutedDown ==
    ASSUME NEW T, NEW A, NEW R, NEW c, NEW d, Routed(T, A, R, c), c.layer # 0,
           d.from = c.from, d.root = c.root, d.layer = Below[c.layer],
           d.sig = Get(T[c.layer], c.sig, 0), d.sig \in Nat \ {0},
           A \subseteq Layers, \A k \in A : Below[k] # 0 => Below[k] \in A,
           d.sig \in Roots => d.sig = d.root, d.sig \in DOMAIN R => R[d.sig].base = d.root
    PROVE  Routed(T, A, R, d)
  <1>1. PICK s : Trail(T, A, c, s)
    BY DEF Routed
  <1>2. c.layer \in Layers /\ c.sig \in Nat \ {0} /\ c.from \in Layers /\ c.root \in Roots
    BY DEF Routed
  <1>3. /\ s \in [Layers \cup {0} -> Nat]
        /\ s[c.from] = c.root /\ s[c.layer] = c.sig
        /\ \A k \in Layers \cup {0} : s[k] # 0 =>
              /\ c.layer <= k
              /\ k # 0 => k \in A
              /\ k # c.from => \E h \in Layers : s[h] # 0 /\ Below[h] = k
        /\ \A k \in Layers : s[k] # 0 /\ k # c.layer =>
              Get(T[k], s[k], 0) # 0 /\ s[Below[k]] = Get(T[k], s[k], 0)
    BY <1>1 DEF Trail
  <1>4. PICK b : b = Below[c.layer]
    OBVIOUS
  <1>5. /\ b \in Layers \cup {0} /\ b < c.layer /\ b \in Nat /\ b # c.layer /\ c.layer \in Nat
        /\ d.layer = b
    BY <1>2, <1>4, BelowFacts
  <1>6. ~(c.layer <= b)
    BY <1>5
  <1>7. s[b] = 0
    BY <1>3, <1>5, <1>6
  <1>8. c.layer \in A /\ (b # 0 => b \in A)
    <2>1. s[c.layer] # 0 /\ c.layer \in Layers \cup {0}
      BY <1>2, <1>3
    <2>2. c.layer \in A
      BY <1>3, <2>1
    <2> QED
      BY <1>4, <2>2
  <1> DEFINE z == [s EXCEPT ![b] = d.sig]
  <1>9. z \in [Layers \cup {0} -> Nat]
        /\ \A k \in Layers \cup {0} : z[k] = IF k = b THEN d.sig ELSE s[k]
    BY <1>3, <1>5
  <1> HIDE DEF z
  <1>10. c.from # b
    <2>1. c.root # 0
      BY <1>2 DEF Roots
    <2> QED
      BY <1>3, <1>7, <2>1
  <1>11. z[d.from] = d.root /\ z[d.layer] = d.sig
    <2>1. z[c.from] = s[c.from] /\ z[b] = d.sig
      BY <1>2, <1>5, <1>9, <1>10
    <2> QED
      BY <1>3, <1>5, <2>1
  <1>12. \A k \in Layers \cup {0} : z[k] # 0 /\ k # b => s[k] # 0 /\ z[k] = s[k]
    BY <1>9
  <1>13. ASSUME NEW k \in Layers \cup {0}, z[k] # 0
         PROVE  /\ d.layer <= k
                /\ k # 0 => k \in A
                /\ k # d.from => \E h \in Layers : z[h] # 0 /\ Below[h] = k
    <2>1. CASE k = b
      <3>1. z[c.layer] = c.sig /\ c.sig # 0
        BY <1>2, <1>3, <1>5, <1>9
      <3>2. d.layer <= k
        BY <1>5, <2>1
      <3> QED
        BY <1>2, <1>4, <1>8, <2>1, <3>1, <3>2
    <2>2. CASE k # b
      <3>1. s[k] # 0
        BY <1>12, <1>13, <2>2
      <3>2. c.layer <= k /\ (k # 0 => k \in A)
        BY <1>3, <3>1
      <3>3. k \in Nat
        BY BelowFacts
      <3>4. d.layer <= k
        BY <1>5, <3>2, <3>3
      <3>5. ASSUME k # d.from PROVE \E h \in Layers : z[h] # 0 /\ Below[h] = k
        <4>1. PICK h \in Layers : s[h] # 0 /\ Below[h] = k
          BY <1>3, <3>1, <3>5
        <4>2. h # b
          BY <1>7, <4>1
        <4> QED
          BY <1>9, <4>1, <4>2
      <3> QED
        BY <3>2, <3>4, <3>5
    <2> QED
      BY <2>1, <2>2
  <1>14. ASSUME NEW k \in Layers, z[k] # 0, k # d.layer
         PROVE  Get(T[k], z[k], 0) # 0 /\ z[Below[k]] = Get(T[k], z[k], 0)
    <2>1. k # b /\ s[k] # 0 /\ z[k] = s[k]
      BY <1>5, <1>12, <1>14
    <2>2. CASE k = c.layer
      <3>1. z[k] = c.sig /\ Below[k] = b
        BY <1>3, <1>4, <2>1, <2>2
      <3>2. z[b] = d.sig
        BY <1>5, <1>9
      <3> QED
        BY <2>2, <3>1, <3>2
    <2>3. CASE k # c.layer
      <3>1. Get(T[k], s[k], 0) # 0 /\ s[Below[k]] = Get(T[k], s[k], 0)
        BY <1>3, <2>1, <2>3
      <3>2. Below[k] # b /\ Below[k] \in Layers \cup {0}
        BY <1>7, <3>1, BelowFacts
      <3>3. z[Below[k]] = s[Below[k]]
        BY <1>9, <3>2
      <3> QED
        BY <2>1, <3>1, <3>3
    <2> QED
      BY <2>2, <2>3
  <1>15. Trail(T, A, d, z)
    BY <1>9, <1>11, <1>13, <1>14 DEF Trail
  <1> QED
    BY <1>2, <1>5, <1>15 DEF Routed

\* Two calls for the same sample through the same layer: one is at the plain encoder, the
\* other has been wherever it is.
LEMMA RoutesMeet ==
    ASSUME NEW T, NEW A, NEW R, NEW c, NEW d, Routed(T, A, R, c), Routed(T, A, R, d),
           d.layer = 0, d.from = c.from, d.root = c.root
    PROVE  /\ c.layer # 0 => Get(T[c.layer], c.sig, 0) # 0
           /\ c.layer = 0 => c.sig = d.sig
  <1>1. PICK s, z : Trail(T, A, c, s) /\ Trail(T, A, d, z)
    BY DEF Routed
  <1>2. /\ s[c.from] = c.root /\ s[c.layer] = c.sig
        /\ \A k \in Layers \cup {0} : s[k] # 0 =>
              c.layer <= k /\ (k # c.from => \E h \in Layers : s[h] # 0 /\ Below[h] = k)
        /\ \A k \in Layers : s[k] # 0 /\ k # c.layer =>
              Get(T[k], s[k], 0) # 0 /\ s[Below[k]] = Get(T[k], s[k], 0)
    BY <1>1 DEF Trail
  <1>3. /\ z[c.from] = c.root /\ z[0] = d.sig
        /\ \A k \in Layers : z[k] # 0 =>
              Get(T[k], z[k], 0) # 0 /\ z[Below[k]] = Get(T[k], z[k], 0)
    BY <1>1, BelowFacts DEF Trail
  <1>4. c.layer \in Layers \cup {0} /\ c.sig # 0
    BY DEF Routed
  <1> DEFINE Bad == {k \in Layers \cup {0} : s[k] # 0 /\ z[k] # s[k]}
             Far == {n \in Nat : \E k \in Bad : n = Len(Below) - k}
  <1>5. Layers \cup {0} \subseteq Nat /\ Len(Below) \in Nat
        /\ \A k \in Layers \cup {0} : Len(Below) - k \in Nat
    <2>1. Below \in Seq(Nat) /\ Layers = 1 .. Len(Below)
      BY LayersAssumption DEF Layers
    <2> QED
      BY <2>1
  <1>6. ASSUME Bad # {} PROVE FALSE
    <2>1. PICK a : a \in Bad
      BY <1>6
    <2>2. Len(Below) - a \in Far
      BY <1>5, <2>1
    <2>3. Far \in SUBSET Nat /\ Far # {}
      BY <2>2
    <2> HIDE DEF Far
    <2>4. PICK n \in Far : \A m \in Far : n <= m
      BY <2>3, LeastElement
    <2> USE DEF Far
    <2>5. PICK k \in Bad : n = Len(Below) - k
      BY <2>4
    <2>6. k \in Layers \cup {0} /\ s[k] # 0 /\ z[k] # s[k]
      BY <2>5
    <2>7. k # c.from
      BY <1>2, <1>3, <2>6
    <2>8. PICK h \in Layers : s[h] # 0 /\ Below[h] = k
      BY <1>2, <2>6, <2>7
    <2>9. h \in Nat /\ k \in Nat /\ k < h /\ Len(Below) - h \in Nat
      BY <1>5, <2>8, BelowFacts
    <2>10. h \notin Bad
      <3>1. h \in Bad => Len(Below) - h \in Far
        BY <1>5, <2>8
      <3>2. h \in Bad => Len(Below) - k <= Len(Below) - h
        BY <2>4, <2>5, <3>1
      <3> HIDE DEF Bad
      <3> QED
        BY <1>5, <2>9, <3>2
    <2>11. z[h] = s[h]
      BY <2>8, <2>10
    <2>12. h # c.layer
      <3>1. c.layer <= k
        BY <1>2, <2>6
      <3> QED
        BY <2>9, <3>1
    <2>13. s[k] = Get(T[h], s[h], 0)
      BY <1>2, <2>8, <2>12
    <2>14. z[k] = Get(T[h], z[h], 0)
      BY <1>3, <2>8, <2>11
    <2> QED
      BY <2>6, <2>11, <2>13, <2>14
  <1>7. z[c.layer] = c.sig
    BY <1>2, <1>4, <1>6
  <1> QED
    BY <1>3, <1>4, <1>7

-----------------------------------------------------------------------------
(* Where a route ends.                                                     *)

\* What the tables T make of the indices up to n on the way down from layer l.
RouteStep(T, n, l, f) ==
    [k \in 0 .. l |-> [j \in 0 .. n |-> IF k = 0 \/ j = 0 THEN j ELSE f[Below[k]][Get(T[k], j, 0)]]]

\* The recursion down the layers that Resolved is defined by has a solution.
LEMMA RouteExists ==
    ASSUME NEW T, NEW n \in Nat, NEW l \in 0 .. Len(Below)
    PROVE  \E f : f = RouteStep(T, n, l, f)
  <1> DEFINE S == {m \in Nat : m > Len(Below) \/ \E f : f = RouteStep(T, n, m, f)}
  <1>0. Len(Below) \in Nat /\ Layers = 1 .. Len(Below)
    BY LayersAssumption DEF Layers
  <1>1. 0 \in S
    <2> DEFINE f == [k \in 0 .. 0 |-> [j \in 0 .. n |-> j]]
    <2>1. f = RouteStep(T, n, 0, f)
      BY DEF RouteStep
    <2> QED
      BY <2>1
  <1>2. ASSUME NEW m \in Nat, m \in S PROVE m + 1 \in S
    <2>1. CASE m + 1 <= Len(Below)
      <3>1. PICK f : f = RouteStep(T, n, m, f)
        BY <1>0, <1>2, <2>1
      <3>2. PICK g : g = RouteStep(T, n, m + 1, f)
        OBVIOUS
      <3>3. ASSUME NEW k \in 0 .. m + 1, k # 0 PROVE Below[k] \in 0 .. m
        <4>1. k \in Layers
          BY <1>0, <1>2, <2>1, <3>3
        <4>2. Below[k] \in Nat /\ Below[k] < k
          BY <4>1, BelowFacts
        <4> QED
          BY <4>2
      <3>4. ASSUME NEW k \in 0 .. m PROVE g[k] = f[k]
        <4>1. g[k] = [j \in 0 .. n |-> IF k = 0 \/ j = 0 THEN j ELSE f[Below[k]][Get(T[k], j, 0)]]
          <5>1. k \in 0 .. m + 1
            OBVIOUS
          <5> QED
            BY <3>2, <5>1 DEF RouteStep
        <4>2. f[k] = [j \in 0 .. n |-> IF k = 0 \/ j = 0 THEN j ELSE f[Below[k]][Get(T[k], j, 0)]]
          BY <3>1 DEF RouteStep
        <4> QED
          BY <4>1, <4>2
      <3>5. RouteStep(T, n, m + 1, f) = RouteStep(T, n, m + 1, g)
        BY <3>3, <3>4 DEF RouteStep
      <3> QED
        BY <3>2, <3>5
    <2>2. CASE ~(m + 1 <= Len(Below))
      BY <1>0, <2>2
    <2> QED
      BY <2>1, <2>2
  <1> HIDE DEF S
  <1>3. l \in S
    BY <1>0, <1>1, <1>2, SetInduction
  <1>4. ~(l > Len(Below))
    BY <1>0
  <1> QED
    BY <1>3, <1>4 DEF S

\* So Resolved is given by such a solution.
LEMMA ResolvedFacts ==
    ASSUME Len(name) \in Nat, NEW l \in 0 .. Len(Below), NEW i
    PROVE  \E f : f = RouteStep(renamed, Len(name), l, f) /\ Resolved(l, i) = f[l][i]
  <1> DEFINE E(g) == [k \in 0 .. l |-> [j \in 0 .. Len(name) |->
                        IF k = 0 \/ j = 0 THEN j ELSE g[Below[k]][get_renamed(k, j)]]]
             f == CHOOSE g : g = E(g)
  <1>1. Resolved(l, i) = f[l][i]
    BY DEF Resolved
  <1>2. \A g : E(g) = RouteStep(renamed, Len(name), l, g)
    BY DEF RouteStep, get_renamed
  <1>3. \E g : g = RouteStep(renamed, Len(name), l, g)
    BY RouteExists
  <1> HIDE DEF E
  <1>4. f = E(f)
    BY <1>2, <1>3
  <1> QED
    BY <1>1, <1>2, <1>4

\* A call that has come to the plain encoder is for what its root is resolved to.
LEMMA RoutedResolved ==
    ASSUME IInv, NEW A, NEW R, NEW c, Routed(renamed, A, R, c), c.layer = 0
    PROVE  c.sig = Resolved(c.from, c.root)
  <1> DEFINE l == c.from
             n == Len(name)
  <1>1. PICK s : Trail(renamed, A, c, s)
    BY DEF Routed
  <1>2. /\ s \in [Layers \cup {0} -> Nat] /\ s[l] = c.root /\ s[0] = c.sig
        /\ \A k \in Layers : s[k] # 0 /\ k # l => \E h \in Layers : s[h] # 0 /\ Below[h] = k
        /\ \A k \in Layers : s[k] # 0 =>
              Get(renamed[k], s[k], 0) # 0 /\ s[Below[k]] = Get(renamed[k], s[k], 0)
    BY <1>1, BelowFacts DEF Trail
  <1>3. l \in Layers /\ l \in 0 .. Len(Below) /\ c.root \in Roots /\ n \in Nat /\ NRoots <= n
        /\ c.root \in 1 .. n
    <2>1. l \in Layers /\ c.root \in Roots
      BY DEF Routed
    <2>2. l \in Nat /\ l <= Len(Below) /\ Len(Below) \in Nat
      BY <2>1, BelowFacts
    <2>3. n \in Nat /\ NRoots <= n
      BY TableFacts
    <2>4. NRoots \in Nat /\ c.root \in 1 .. NRoots
      BY <2>1, LayersAssumption DEF Roots
    <2> HIDE DEF l, n
    <2>5. l \in 0 .. Len(Below) /\ c.root \in 1 .. n
      BY <2>2, <2>3, <2>4
    <2> QED
      BY <2>1, <2>3, <2>5
  <1>4. PICK f : f = RouteStep(renamed, n, l, f) /\ Resolved(l, c.root) = f[l][c.root]
    BY <1>3, ResolvedFacts
  <1>5. \A k \in 0 .. l, j \in 0 .. n :
          f[k][j] = IF k = 0 \/ j = 0 THEN j ELSE f[Below[k]][Get(renamed[k], j, 0)]
    <2> HIDE DEF n, l
    <2>1. f = [k \in 0 .. l |-> [j \in 0 .. n |->
                 IF k = 0 \/ j = 0 THEN j ELSE f[Below[k]][Get(renamed[k], j, 0)]]]
      BY <1>4 DEF RouteStep
    <2>2. \A k \in 0 .. l : f[k] = [j \in 0 .. n |->
                 IF k = 0 \/ j = 0 THEN j ELSE f[Below[k]][Get(renamed[k], j, 0)]]
      BY <2>1
    <2> TAKE k \in 0 .. l, j \in 0 .. n
    <2>3. f[k] = [i \in 0 .. n |->
                    IF k = 0 \/ i = 0 THEN i ELSE f[Below[k]][Get(renamed[k], i, 0)]]
      BY <2>2
    <2> QED
      BY <2>3
  <1> HIDE DEF n
  <1>6. \A k \in Layers : s[k] # 0 => s[k] \in 0 .. n
    <2> TAKE k \in Layers
    <2> HAVE s[k] # 0
    <2>1. CASE k = l
      BY <1>2, <1>3, <2>1
    <2>2. CASE k # l
      <3>1. PICK h \in Layers : s[h] # 0 /\ Below[h] = k
        BY <1>2, <2>2
      <3>2. s[k] = Get(renamed[h], s[h], 0) /\ s[h] \in Nat
        BY <1>2, <3>1
      <3> QED
        BY <3>1, <3>2, TableFacts DEF n
    <2> QED
      BY <2>1, <2>2
  <1> DEFINE Bad == {k \in Layers : k <= l /\ s[k] # 0 /\ f[k][s[k]] # s[0]}
  <1>7. ASSUME Bad # {} PROVE FALSE
    <2>1. Bad \in SUBSET Nat
      BY BelowFacts
    <2>2. PICK k \in Bad : \A h \in Bad : k <= h
      <3> HIDE DEF Bad
      <3> QED
        BY <1>7, <2>1, LeastElement
    <2>3. k \in Layers /\ k <= l /\ s[k] # 0 /\ f[k][s[k]] # s[0]
      BY <2>2
    <2>4. PICK b : b = Below[k]
      OBVIOUS
    <2>5. /\ b \in Layers \cup {0} /\ b \in Nat /\ k \in Nat /\ k # 0 /\ b < k
          /\ l \in Nat
      BY <1>3, <2>3, <2>4, BelowFacts
    <2>6. k \in 0 .. l /\ b \in 0 .. l /\ b <= l /\ ~(k <= b)
      BY <2>3, <2>5
    <2>7. s[k] \in 0 .. n
      BY <1>6, <2>3
    <2>8. f[k][s[k]] = f[b][s[b]] /\ s[b] # 0
      <3>1. Get(renamed[k], s[k], 0) # 0 /\ s[b] = Get(renamed[k], s[k], 0)
        BY <1>2, <2>3, <2>4
      <3>2. f[k][s[k]] = f[b][Get(renamed[k], s[k], 0)]
        BY <1>5, <2>3, <2>4, <2>5, <2>6, <2>7
      <3> QED
        BY <3>1, <3>2
    <2>9. CASE b = 0
      <3>1. s[0] \in 0 .. n
        <4>1. s[0] = Get(renamed[k], s[k], 0)
          BY <1>2, <2>3, <2>4, <2>9
        <4> QED
          BY <2>3, <2>7, <4>1, TableFacts DEF n
      <3>2. f[0][s[0]] = s[0]
        BY <1>5, <2>6, <2>9, <3>1
      <3> QED
        BY <2>3, <2>8, <2>9, <3>2
    <2>10. CASE b # 0
      <3>1. b \in Layers /\ b \notin Bad
        BY <2>2, <2>5, <2>6, <2>10
      <3>2. f[b][s[b]] = s[0]
        BY <2>6, <2>8, <3>1
      <3> QED
        BY <2>3, <2>8, <3>2
    <2> QED
      BY <2>9, <2>10
  <1>8. l \notin Bad
    BY <1>7
  <1>9. s[l] # 0 /\ l <= l
    BY <1>2, <1>3, BelowFacts
  <1>10. f[l][c.root] = s[0]
    BY <1>2, <1>3, <1>8, <1>9
  <1> QED
    BY <1>2, <1>4, <1>10

-----------------------------------------------------------------------------
(* Names and bases.                                                        *)

\* Rename g is what layer l makes of signature i, and has the base that i has.
Fits(N, R, l, i, g) ==
    /\ N[g] = NewName(l, N[i])
    /\ i \in Roots => R[g].base = i
    /\ i \in DOMAIN R => R[g].base = R[i].base

TablesFit ==
    \A l \in Layers, i \in Nat : Get(renamed[l], i, 0) # 0 =>
      Fits(name, rename, l, i, Get(renamed[l], i, 0))
EntriesFit ==
    \A t \in Threads : entry[t] # 0 =>
      Fits(name, rename, Head(todo[t]).layer, Head(todo[t]).sig, entry[t])
BaseFits ==
    \A t \in Threads : pc[t] = "insert" =>
      /\ Head(todo[t]).sig \in Roots => base = Head(todo[t]).sig
      /\ Head(todo[t]).sig \in DOMAIN rename => base = rename[Head(todo[t]).sig].base
RootsPlain == \A r \in Roots : r \notin DOMAIN rename

NamesInv == TablesFit /\ EntriesFit /\ BaseFits /\ RootsPlain

\* Signatures keep their names, and renames their bases, as long as they exist.
StoresKept(N, R, M, Q) ==
    /\ \A i \in 1 .. Len(N) : M[i] = N[i]
    /\ \A r \in DOMAIN Q : r \in 1 .. Len(N) => r \in DOMAIN R /\ Q[r].base = R[r].base

\* A rename keeps fitting while names and bases are kept.
LEMMA FitsKept ==
    ASSUME NEW N, NEW R, NEW M, NEW Q, StoresKept(N, R, M, Q), NEW l,
           NEW i \in 1 .. Len(N), NEW g \in 1 .. Len(N), g \in DOMAIN Q, Fits(N, R, l, i, g)
    PROVE  Fits(M, Q, l, i, g)
  BY DEF Fits, StoresKept

\* The tables only lose entries, and threads only leave set_renamed.
LEMMA NamesKept ==
    ASSUME IInv, IInv', NamesInv, StoresKept(name, rename, name', rename'),
           \A l \in Layers, i \in Nat : Get(renamed'[l], i, 0) # 0 =>
              Get(renamed'[l], i, 0) = Get(renamed[l], i, 0),
           \A u \in Threads : entry'[u] # 0 =>
              entry'[u] = entry[u] /\ Head(todo'[u]) = Head(todo[u]),
           \A u \in Threads : pc'[u] = "insert" =>
              pc[u] = "insert" /\ Head(todo'[u]) = Head(todo[u]) /\ base' = base
    PROVE  NamesInv'
  <1>1. /\ TablesFit /\ EntriesFit /\ BaseFits /\ RootsPlain
        /\ DOMAIN rename \subseteq 1 .. Len(name)
        /\ \A l \in Layers, i \in Nat : Get(renamed[l], i, 0) # 0 => i \in 1 .. Len(name)
        /\ \A u \in Threads : entry[u] # 0 => pc[u] # "call"
        /\ Len(name) \in Nat /\ NRoots <= Len(name)
    BY TableFacts DEF NamesInv, IInv, StoreTypes, TableTypes, PlaceInv, EntryInv, Indices
  <1>2. /\ \A l \in Layers, i \in Nat :
             Get(renamed'[l], i, 0) # 0 => Get(renamed'[l], i, 0) \in DOMAIN rename'
        /\ \A u \in Threads : entry'[u] # 0 => entry'[u] \in DOMAIN rename'
    BY DEF IInv, RefInv
  <1>3. /\ \A l \in Layers, i \in Nat :
             Get(renamed[l], i, 0) # 0 => Get(renamed[l], i, 0) \in DOMAIN rename
        /\ \A u \in Threads : entry[u] # 0 => entry[u] \in DOMAIN rename
    BY DEF IInv, RefInv
  <1>4. \A u \in Threads : pc[u] # "call" => Head(todo[u]).sig \in 1 .. Len(name)
    BY InsideFacts DEF Indices
  <1>5. TablesFit'
    <2> SUFFICES ASSUME NEW l \in Layers, NEW i \in Nat, Get(renamed'[l], i, 0) # 0
                 PROVE  Fits(name', rename', l, i, Get(renamed'[l], i, 0))
      BY DEF TablesFit
    <2>1. PICK g : g = Get(renamed[l], i, 0)
      OBVIOUS
    <2>2. Get(renamed'[l], i, 0) = g /\ g # 0 /\ g \in DOMAIN rename' /\ g \in 1 .. Len(name)
          /\ i \in 1 .. Len(name)
      BY <1>1, <1>2, <1>3, <2>1
    <2>3. Fits(name, rename, l, i, g)
      BY <1>1, <2>1, <2>2 DEF TablesFit
    <2> QED
      BY <2>2, <2>3, FitsKept
  <1>6. EntriesFit'
    <2> SUFFICES ASSUME NEW u \in Threads, entry'[u] # 0
                 PROVE  Fits(name', rename', Head(todo'[u]).layer, Head(todo'[u]).sig, entry'[u])
      BY DEF EntriesFit
    <2>1. PICK g, c : g = entry[u] /\ c = Head(todo[u])
      OBVIOUS
    <2>2. entry'[u] = g /\ Head(todo'[u]) = c /\ g # 0
      BY <2>1
    <2>3. g \in DOMAIN rename' /\ g \in 1 .. Len(name) /\ c.sig \in 1 .. Len(name)
      BY <1>1, <1>2, <1>3, <1>4, <2>1, <2>2
    <2>4. Fits(name, rename, c.layer, c.sig, g)
      BY <1>1, <2>1, <2>2 DEF EntriesFit
    <2> QED
      BY <2>2, <2>3, <2>4, FitsKept
  <1>7. BaseFits'
    <2> SUFFICES ASSUME NEW u \in Threads, pc'[u] = "insert"
                 PROVE  /\ Head(todo'[u]).sig \in Roots => base' = Head(todo'[u]).sig
                        /\ Head(todo'[u]).sig \in DOMAIN rename' =>
                             base' = rename'[Head(todo'[u]).sig].base
      BY DEF BaseFits
    <2>1. pc[u] = "insert" /\ Head(todo'[u]) = Head(todo[u]) /\ base' = base
          /\ Head(todo[u]).sig \in 1 .. Len(name)
      BY <1>4
    <2> QED
      BY <1>1, <2>1 DEF BaseFits, StoresKept
  <1>8. RootsPlain'
    <2>1. Roots \subseteq 1 .. Len(name)
      BY <1>1, LayersAssumption DEF Roots
    <2> QED
      BY <1>1, <2>1 DEF RootsPlain, StoresKept
  <1> QED
    BY <1>5, <1>6, <1>7, <1>8 DEF NamesInv

\* Nothing happens to names and renames, or a rename is freed.
LEMMA SameStores == UNCHANGED <<name, rename>> => StoresKept(name, rename, name', rename')
  BY DEF StoresKept

LEMMA FreedStores ==
    ASSUME IInv, NEW r \in DOMAIN rename, rename_free(r), UNCHANGED name
    PROVE  StoresKept(name, rename, name', rename')
  <1>1. rename[r] \in [use_count : Nat, base : Nat]
    BY DEF IInv, StoreTypes
  <1>2. CASE rename[r].use_count > 1
    <2>1. rename' = [rename EXCEPT ![r].use_count = rename[r].use_count - 1]
      BY <1>2 DEF rename_free
    <2>2. \A q \in DOMAIN rename' : q \in DOMAIN rename /\ rename'[q].base = rename[q].base
      BY <1>1, <2>1
    <2> QED
      BY <2>2 DEF StoresKept
  <1>3. CASE ~(rename[r].use_count > 1)
    <2>1. rename' = Restrict(rename, DOMAIN rename \ {r})
      BY <1>3 DEF rename_free
    <2>2. \A q \in DOMAIN rename' : q \in DOMAIN rename /\ rename'[q].base = rename[q].base
      BY <2>1 DEF Restrict
    <2> QED
      BY <2>2 DEF StoresKept
  <1> QED
    BY <1>2, <1>3

\* rename_new finds the base: of a rename its base, of another signature itself.
LEMMA RenameNewNames ==
    ASSUME IInv, NamesInv, NEW t \in Threads, RenameNew(t)
    PROVE  NamesInv' /\ StoresKept(name, rename, name', rename')
  <1> DEFINE i == Head(todo[t]).sig
  <1>1. /\ UNCHANGED <<name, rename, renamed, entry, todo>>
        /\ pc[t] = "rename_new" /\ pc' = [pc EXCEPT ![t] = "insert"]
        /\ registry' = registry_new(registry, i, 0)
        /\ base' = IF registry'[i].base # 0 THEN registry'[i].base ELSE i
    BY DEF RenameNew, At
  <1>2. \A u \in Threads : pc[u] # "insert"
    BY NobodyInserts DEF IInv, RenameNew, PlaceInv
  <1>3. i \in Indices /\ Indices \subseteq Nat \ {0}
    BY <1>1, InsideFacts DEF Indices
  <1> HIDE DEF i
  <1>4. \A u \in Threads : pc'[u] = "insert" => u = t
    BY <1>1, <1>2 DEF IInv, ThreadTypes
  <1>5. registry'[i] = IF i \in DOMAIN registry THEN registry[i] ELSE [base |-> 0, renames |-> <<>>]
    BY <1>1 DEF registry_new
  <1>6. i \in Roots => base' = i
    <2> HAVE i \in Roots
    <2>1. i \notin DOMAIN rename
      BY DEF NamesInv, RootsPlain
    <2>2. RegistryInv
      BY DEF IInv
    <2>3. CASE i \in DOMAIN registry
      <3>1. registry[i].base = 0
        BY <2>1, <2>2, <2>3 DEF RegistryInv
      <3> QED
        BY <1>1, <1>5, <2>3, <3>1
    <2>4. CASE i \notin DOMAIN registry
      <3>1. [base |-> 0, renames |-> <<>>].base = 0
        OBVIOUS
      <3> QED
        BY <1>1, <1>5, <2>4, <3>1
    <2> QED
      BY <2>3, <2>4
  <1>7. i \in DOMAIN rename => base' = rename[i].base
    <2> HAVE i \in DOMAIN rename
    <2>1. i \in DOMAIN registry /\ registry[i].base = rename[i].base /\ rename[i].base \in DOMAIN registry
      <3>1. RegistryInv
        BY DEF IInv
      <3>2. /\ i \in DOMAIN registry /\ rename[i].base \in DOMAIN registry
            /\ registry[i] = [base |-> rename[i].base, renames |-> <<>>]
        BY <3>1 DEF RegistryInv
      <3>3. [base |-> rename[i].base, renames |-> <<>>].base = rename[i].base
        OBVIOUS
      <3> QED
        BY <3>2, <3>3
    <2>2. rename[i].base # 0
      BY <1>3, <2>1 DEF IInv, StoreTypes
    <2>3. registry'[i] = registry[i]
      BY <1>5, <2>1
    <2>4. registry'[i].base = rename[i].base
      BY <2>1, <2>3
    <2> QED
      BY <1>1, <2>2, <2>4
  <1>8. BaseFits'
    BY <1>1, <1>4, <1>6, <1>7 DEF BaseFits, i
  <1>9. TablesFit' /\ EntriesFit' /\ RootsPlain'
    BY <1>1 DEF NamesInv, TablesFit, EntriesFit, RootsPlain
  <1> QED
    BY <1>1, <1>8, <1>9, SameStores DEF NamesInv

\* What set_renamed is about to do fits: the rename has the name and the base.
LEMMA InsertNames ==
    ASSUME IInv, IInv', NamesInv, NEW t \in Threads, Insert(t)
    PROVE  NamesInv' /\ StoresKept(name, rename, name', rename')
  <1> DEFINE c == Head(todo[t])
             n == NewName(c.layer, name[c.sig])
  <1>1. /\ pc[t] = "insert" /\ pc' = [pc EXCEPT ![t] = "store"]
        /\ UNCHANGED <<base, renamed, alive, todo>>
    BY DEF Insert, At
  <1>2. c.layer \in Layers /\ c.sig \in 1 .. Len(name)
    BY <1>1, InsideFacts DEF Indices
  <1>3. /\ TablesFit /\ EntriesFit /\ BaseFits /\ RootsPlain /\ RegistryInv /\ StoreTypes
        /\ DOMAIN rename \subseteq 1 .. Len(name) /\ base \in DOMAIN registry \ DOMAIN rename
        /\ \A l \in Layers, i \in Nat : Get(renamed[l], i, 0) # 0 =>
              i \in 1 .. Len(name) /\ Get(renamed[l], i, 0) \in DOMAIN rename
        /\ \A u \in Threads : entry[u] # 0 => pc[u] # "call" /\ entry[u] \in DOMAIN rename
        /\ Len(name) \in Nat /\ NRoots <= Len(name)
    BY <1>1, TableFacts
    DEF NamesInv, IInv, StoreTypes, TableTypes, PlaceInv, EntryInv, InsertInv, RefInv, Indices
  <1>4. /\ c.sig \in Roots => base = c.sig
        /\ c.sig \in DOMAIN rename => base = rename[c.sig].base
    BY <1>1, <1>3 DEF BaseFits
  <1> HIDE DEF n, c
  <1> DEFINE Made == \E r \in DOMAIN rename' :
                     /\ \A u \in Threads : entry'[u] = IF u = t THEN r ELSE entry[u]
                     /\ name'[r] = n /\ rename'[r].base = base
                     /\ StoresKept(name, rename, name', rename')
                     /\ \A q \in DOMAIN rename : q \in DOMAIN rename'
                     /\ \A q \in Roots : q \notin DOMAIN rename'
  <1>5. Made
    <2>1. ASSUME NEW r \in Named(base, n), entry' = [entry EXCEPT ![t] = r],
                 rename' = [rename EXCEPT ![r].use_count = @ + 1], UNCHANGED <<registry, name>>
          PROVE  Made
      <3>1. registry[base].renames \in Seq(Nat)
        BY <1>3 DEF StoreTypes
      <3>2. DOMAIN registry[base].renames = 1 .. Len(registry[base].renames)
        BY <3>1
      <3>3. r \in Range(registry[base].renames) /\ name[r] = n
        BY <2>1 DEF Named
      <3>4. PICK k \in 1 .. Len(registry[base].renames) : registry[base].renames[k] = r
        BY <3>2, <3>3 DEF Range
      <3>5. r \in DOMAIN rename /\ rename[r].base = base
        BY <1>3, <3>4, RegistryFacts
      <3>6. rename[r] \in [use_count : Nat, base : Nat]
        BY <1>3, <3>5 DEF StoreTypes
      <3>7. DOMAIN rename' = DOMAIN rename /\ \A q \in DOMAIN rename : rename'[q].base = rename[q].base
        BY <2>1, <3>5, <3>6
      <3>8. StoresKept(name, rename, name', rename')
        BY <2>1, <3>7 DEF StoresKept
      <3>9. \A u \in Threads : entry'[u] = IF u = t THEN r ELSE entry[u]
        BY <2>1 DEF IInv, TableTypes
      <3> QED
        BY <1>3, <2>1, <3>3, <3>5, <3>7, <3>8, <3>9 DEF RootsPlain
    <2>2. ASSUME entry' = [entry EXCEPT ![t] = local_index], name' = Append(name, n),
                 rename' = [j \in DOMAIN rename \cup {local_index} |->
                   IF j = local_index THEN [use_count |-> 1, base |-> base] ELSE rename[j]]
          PROVE  Made
      <3>1. PICK x : x = local_index
        OBVIOUS
      <3>2. x = Len(name) + 1 /\ x \notin 1 .. Len(name) /\ x \notin Roots
        <4>1. x = Len(name) + 1
          BY <3>1 DEF local_index
        <4> QED
          BY <1>3, <4>1, LayersAssumption DEF Roots
      <3>3. name'[x] = n /\ \A i \in 1 .. Len(name) : name'[i] = name[i]
        BY <1>3, <2>2, <3>2 DEF StoreTypes
      <3>4. /\ DOMAIN rename' = DOMAIN rename \cup {x} /\ rename'[x].base = base
            /\ \A q \in DOMAIN rename : q # x => rename'[q].base = rename[q].base
        BY <2>2, <3>1
      <3>5. StoresKept(name, rename, name', rename')
        BY <1>3, <3>2, <3>3, <3>4 DEF StoresKept
      <3>6. \A u \in Threads : entry'[u] = IF u = t THEN x ELSE entry[u]
        BY <2>2, <3>1 DEF IInv, TableTypes
      <3> QED
        BY <1>3, <3>2, <3>3, <3>4, <3>5, <3>6 DEF RootsPlain
    <2> QED
      BY <2>1, <2>2 DEF Insert, c, n
  <1>6. PICK r \in DOMAIN rename' :
           /\ \A u \in Threads : entry'[u] = IF u = t THEN r ELSE entry[u]
           /\ name'[r] = n /\ rename'[r].base = base
           /\ StoresKept(name, rename, name', rename')
           /\ \A q \in DOMAIN rename : q \in DOMAIN rename'
           /\ \A q \in Roots : q \notin DOMAIN rename'
    BY <1>5
  <1>7. \A u \in Threads : pc[u] # "call" => Head(todo[u]).sig \in 1 .. Len(name)
    BY InsideFacts DEF Indices
  <1>8. TablesFit'
    <2> SUFFICES ASSUME NEW l \in Layers, NEW i \in Nat, Get(renamed[l], i, 0) # 0
                 PROVE  Fits(name', rename', l, i, Get(renamed[l], i, 0))
      BY <1>1 DEF TablesFit
    <2>1. PICK g : g = Get(renamed[l], i, 0)
      OBVIOUS
    <2>2. g \in DOMAIN rename' /\ g \in 1 .. Len(name) /\ i \in 1 .. Len(name)
      BY <1>3, <1>6, <2>1
    <2>3. Fits(name, rename, l, i, g)
      BY <1>3, <2>1 DEF TablesFit
    <2> QED
      BY <1>6, <2>1, <2>2, <2>3, FitsKept
  <1>9. Fits(name', rename', c.layer, c.sig, r)
    <2>1. name'[c.sig] = name[c.sig]
      BY <1>2, <1>6 DEF StoresKept
    <2>2. c.sig \in DOMAIN rename' => rename'[c.sig].base = base
      BY <1>2, <1>4, <1>6 DEF StoresKept
    <2> QED
      BY <1>4, <1>6, <2>1, <2>2 DEF Fits, n
  <1>10. EntriesFit'
    <2> SUFFICES ASSUME NEW u \in Threads, entry'[u] # 0
                 PROVE  Fits(name', rename', Head(todo[u]).layer, Head(todo[u]).sig, entry'[u])
      BY <1>1 DEF EntriesFit
    <2>1. CASE u = t
      BY <1>6, <1>9, <2>1 DEF c
    <2>2. CASE u # t
      <3>1. PICK g, d : g = entry[u] /\ d = Head(todo[u])
        OBVIOUS
      <3>2. entry'[u] = g /\ g # 0
        BY <1>6, <2>2, <3>1
      <3>3. g \in DOMAIN rename' /\ g \in 1 .. Len(name) /\ d.sig \in 1 .. Len(name)
        BY <1>3, <1>6, <1>7, <3>1, <3>2
      <3>4. Fits(name, rename, d.layer, d.sig, g)
        BY <1>3, <3>1, <3>2 DEF EntriesFit
      <3> QED
        BY <1>6, <3>1, <3>2, <3>3, <3>4, FitsKept
    <2> QED
      BY <2>1, <2>2
  <1>11. BaseFits'
    <2>1. \A u \in Threads : pc'[u] # "insert"
      <3>1. \A u \in Threads : u # t => pc[u] # "insert"
        BY <1>1, LayersAssumption DEF IInv, PlaceInv, InsertInv
      <3> QED
        BY <1>1, <3>1 DEF IInv, ThreadTypes
    <2> QED
      BY <2>1 DEF BaseFits
  <1>12. RootsPlain'
    BY <1>6 DEF RootsPlain
  <1> QED
    BY <1>6, <1>8, <1>10, <1>11, <1>12 DEF NamesInv

-----------------------------------------------------------------------------
(* The calls of a thread, and what the plain encoders and decoders know.   *)

\* The calls that have to come to what was registered.
Uses(c) == c.op \in Registering \cup {"type_bind"}
           \/ (c.settled /\ c.op \notin {"free", "type_register"})

Same(c, d) == c.from = d.from /\ c.root = d.root
KnownIn(K, c) == \E x \in K : x.op = "sample_register" /\ Same(x, c)

\* The calls of list q that come before the one at n.
Before(q, n) == {q[m] : m \in 1 .. n - 1}

CallFits(T, A, R, K, c) ==
    /\ Uses(c) => Routed(T, A, R, c)
    /\ c.settled /\ c.op # "free" => KnownIn(K, c)

\* The sample of a call at n in q was registered, or will be before the call is made.
Ordered(K, q, n) ==
    q[n].op \in {"type_register", "type_bind"} =>
      KnownIn(K, q[n]) \/ \E d \in Before(q, n) : d.op = "sample_register" /\ Same(d, q[n])

\* The two types that a type_bind at n in q is about were registered, or will be before.
Typed(T, A, R, K, q, n) ==
    q[n].op = "type_bind" =>
      /\ \/ \E x \in K : x.op = "type_register" /\ Same(x, q[n]) /\ x.sig = x.root
         \/ \E d \in Before(q, n) : d.op = "type_register" /\ Same(d, q[n]) /\ d.sig = d.root
      /\ \/ \E x \in K : x.op = "type_register" /\ Same(x, q[n]) /\ Routed(T, A, R, AtPlain(x))
         \/ \E d \in Before(q, n) : d.op = "type_register" /\ Same(d, q[n]) /\ Routed(T, A, R, d)

\* Every sample an encoder layer is used for depends on a typedef.
AllDepend == \A l \in Layers \ Decoders : Samples[l] \subseteq Depends

QueueFits(T, A, R, K, q) ==
    \A n \in 1 .. Len(q) :
      CallFits(T, A, R, K, q[n]) /\ Ordered(K, q, n) /\ (AllDepend => Typed(T, A, R, K, q, n))

PlainFits(T, A, R, K) ==
    \A x \in K : x.op = "sample_register" => Routed(T, A, R, AtPlain(x))

QueuesInv == \A t \in Threads : QueueFits(renamed, alive, rename, told, todo[t])
ToldInv ==
    /\ \A x \in told : x.from \in Layers /\ x.root \in Roots /\ x.sig \in 0 .. Len(name)
    /\ PlainFits(renamed, alive, rename, told)
    /\ \A x \in told : \A t \in Threads : \A n \in 1 .. Len(todo[t]) :
          todo[t][n].op = "free" => todo[t][n].from # x.from

RouteInv == NamesInv /\ QueuesInv /\ ToldInv

\* The tables change, the layer f is going and nobody is told anything about it.
LEMMA QueueKept ==
    ASSUME NEW T, NEW A, NEW R, NEW K, NEW U, NEW B, NEW Q, NEW L, NEW N, NEW M, NEW f,
           Len(N) \in Nat, NEW q \in Seq(Calls(Len(N))), QueueFits(T, A, R, K, q),
           Kept(T, A, U, B, f), StoresKept(N, R, M, Q), A \subseteq Layers,
           f \in Layers => \A k \in A : Below[k] # f,
           \A n \in 1 .. Len(q) : q[n].op # "free" => q[n].from # f,
           \A x \in K : x.from # f => x \in L,
           \A x \in K : x.sig \in 0 .. Len(N)
    PROVE  QueueFits(U, B, Q, L, q)
  <1> SUFFICES ASSUME NEW n \in 1 .. Len(q)
               PROVE  CallFits(U, B, Q, L, q[n]) /\ Ordered(L, q, n)
                      /\ (AllDepend => Typed(U, B, Q, L, q, n))
    BY DEF QueueFits
  <1>1. /\ CallFits(T, A, R, K, q[n]) /\ Ordered(K, q, n)
        /\ (AllDepend => Typed(T, A, R, K, q, n))
    BY DEF QueueFits
  <1>2. \A m \in 1 .. Len(q) : q[m] \in Calls(Len(N)) /\ q[m].sig \in 0 .. Len(N)
    <2>1. \A m \in 1 .. Len(q) : q[m] \in Calls(Len(N))
      OBVIOUS
    <2> QED
      BY <2>1 DEF Calls
  <1>3. \A d : Routed(T, A, R, d) /\ d.from # f /\ d.sig \in 0 .. Len(N) => Routed(U, B, Q, d)
    <2> TAKE d
    <2> HAVE Routed(T, A, R, d) /\ d.from # f /\ d.sig \in 0 .. Len(N)
    <2>1. d.sig \in DOMAIN Q => d.sig \in DOMAIN R /\ Q[d.sig].base = R[d.sig].base
      <3>1. d.sig # 0
        BY DEF Routed
      <3>2. d.sig \in 1 .. Len(N)
        BY <3>1
      <3> QED
        BY <3>2 DEF StoresKept
    <2> QED
      BY <2>1, RoutedKept
  <1>4. q[n].op # "free" => q[n].from # f
    OBVIOUS
  <1>5. \A d \in Before(q, n) : d.sig \in 0 .. Len(N)
    BY <1>2 DEF Before
  <1>6. CallFits(U, B, Q, L, q[n])
    <2>1. Uses(q[n]) => Routed(U, B, Q, q[n])
      <3>1. Uses(q[n]) => q[n].op # "free"
        BY DEF Uses, Registering
      <3> QED
        BY <1>1, <1>2, <1>3, <1>4, <3>1 DEF CallFits
    <2>2. q[n].settled /\ q[n].op # "free" => KnownIn(L, q[n])
      BY <1>1, <1>4 DEF CallFits, KnownIn, Same
    <2> QED
      BY <2>1, <2>2 DEF CallFits
  <1>7. Ordered(L, q, n)
    BY <1>1, <1>4 DEF Ordered, KnownIn, Same
  <1>8. ASSUME AllDepend PROVE Typed(U, B, Q, L, q, n)
    <2> SUFFICES ASSUME q[n].op = "type_bind"
                 PROVE  /\ \/ \E x \in L : x.op = "type_register" /\ Same(x, q[n]) /\ x.sig = x.root
                           \/ \E d \in Before(q, n) :
                                d.op = "type_register" /\ Same(d, q[n]) /\ d.sig = d.root
                        /\ \/ \E x \in L : /\ x.op = "type_register" /\ Same(x, q[n])
                                           /\ Routed(U, B, Q, AtPlain(x))
                           \/ \E d \in Before(q, n) : /\ d.op = "type_register" /\ Same(d, q[n])
                                                      /\ Routed(U, B, Q, d)
      BY DEF Typed
    <2>1. Typed(T, A, R, K, q, n) /\ q[n].from # f
      BY <1>1, <1>4, <1>8
    <2>2. \/ \E x \in L : x.op = "type_register" /\ Same(x, q[n]) /\ x.sig = x.root
          \/ \E d \in Before(q, n) : d.op = "type_register" /\ Same(d, q[n]) /\ d.sig = d.root
      BY <2>1 DEF Typed, Same
    <2>3. CASE \E x \in K : /\ x.op = "type_register" /\ Same(x, q[n])
                            /\ Routed(T, A, R, AtPlain(x))
      <3>1. PICK x \in K : /\ x.op = "type_register" /\ Same(x, q[n])
                           /\ Routed(T, A, R, AtPlain(x))
        BY <2>3
      <3>2. AtPlain(x).sig = x.sig /\ AtPlain(x).from = x.from /\ x.from # f
        BY <2>1, <3>1 DEF AtPlain, Same
      <3>3. Routed(U, B, Q, AtPlain(x)) /\ x \in L
        BY <1>3, <3>1, <3>2
      <3> QED
        BY <2>2, <3>1, <3>3
    <2>4. CASE \E d \in Before(q, n) : d.op = "type_register" /\ Same(d, q[n]) /\ Routed(T, A, R, d)
      <3>1. PICK d \in Before(q, n) : d.op = "type_register" /\ Same(d, q[n]) /\ Routed(T, A, R, d)
        BY <2>4
      <3>2. Routed(U, B, Q, d)
        BY <1>3, <1>5, <2>1, <3>1 DEF Same
      <3> QED
        BY <2>2, <3>1, <3>2
    <2> QED
      BY <2>1, <2>3, <2>4 DEF Typed
  <1> QED
    BY <1>6, <1>7, <1>8

\* A list of calls whose first call is replaced by the calls p.
LEMMA QueueShift ==
    ASSUME NEW S, NEW q \in Seq(S), q # <<>>, NEW p \in Seq(S)
    PROVE  LET w == p \o Tail(q) IN
           \A k \in 1 .. Len(w) :
             \/ k \in 1 .. Len(p) /\ w[k] = p[k]
             \/ \E n \in 1 .. Len(q) :
                  /\ w[k] = q[n]
                  /\ \A d \in Before(q, n) : d = Head(q) \/ d \in Before(w, k)
                  /\ \A j \in 1 .. Len(p) : p[j] \in Before(w, k)
  <1> DEFINE r == Tail(q)
             w == p \o r
  <1>1. /\ r \in Seq(S) /\ Len(r) = Len(q) - 1 /\ Len(q) \in Nat /\ Len(q) >= 1
        /\ \A j \in 1 .. Len(r) : r[j] = q[j + 1]
        /\ Head(q) = q[1]
    OBVIOUS
  <1> HIDE DEF r
  <1>2. /\ Len(w) = Len(p) + Len(r) /\ Len(p) \in Nat /\ Len(r) \in Nat
        /\ \A k \in 1 .. Len(p) : w[k] = p[k]
        /\ \A k \in 1 .. Len(r) : w[Len(p) + k] = r[k]
    <2>1. r \in Seq(S) /\ p \in Seq(S)
      BY <1>1
    <2>2. Len(p) \in Nat /\ Len(r) \in Nat /\ Len(w) = Len(p) + Len(r)
      BY <2>1
    <2>3. \A k \in 1 .. Len(p) + Len(r) : w[k] = IF k <= Len(p) THEN p[k] ELSE r[k - Len(p)]
      BY <2>1
    <2> HIDE DEF w
    <2>4. ASSUME NEW k \in 1 .. Len(r) PROVE w[Len(p) + k] = r[k]
      <3>1. Len(p) + k \in 1 .. Len(p) + Len(r) /\ ~(Len(p) + k <= Len(p)) /\ (Len(p) + k) - Len(p) = k
        BY <2>2
      <3> QED
        BY <2>3, <3>1
    <2>5. ASSUME NEW k \in 1 .. Len(p) PROVE w[k] = p[k]
      <3>1. k \in 1 .. Len(p) + Len(r) /\ k <= Len(p)
        BY <2>2
      <3> QED
        BY <2>3, <3>1
    <2> QED
      BY <2>2, <2>4, <2>5
  <1> HIDE DEF w
  <1> SUFFICES ASSUME NEW k \in 1 .. Len(w), k \notin 1 .. Len(p)
               PROVE  \E n \in 1 .. Len(q) :
                  /\ w[k] = q[n]
                  /\ \A d \in Before(q, n) : d = Head(q) \/ d \in Before(w, k)
                  /\ \A j \in 1 .. Len(p) : p[j] \in Before(w, k)
    BY <1>2 DEF w, r
  <1>3. PICK h : h = k - Len(p)
    OBVIOUS
  <1>4. h \in 1 .. Len(r) /\ Len(p) + h = k /\ h + 1 \in 1 .. Len(q) /\ h \in Nat /\ k \in Nat
    BY <1>1, <1>2, <1>3
  <1>5. w[k] = q[h + 1]
    BY <1>1, <1>2, <1>4
  <1>6. ASSUME NEW d \in Before(q, h + 1), d # Head(q) PROVE d \in Before(w, k)
    <2>1. PICK m \in 1 .. h : d = q[m]
      BY <1>4 DEF Before
    <2>2. m # 1
      BY <1>1, <1>6, <2>1
    <2>3. m - 1 \in 1 .. Len(r) /\ (m - 1) + 1 = m /\ Len(p) + (m - 1) \in 1 .. k - 1
      BY <1>2, <1>4, <2>2
    <2>4. w[Len(p) + (m - 1)] = q[m]
      BY <1>1, <1>2, <2>3
    <2> QED
      BY <2>1, <2>3, <2>4 DEF Before
  <1>7. ASSUME NEW j \in 1 .. Len(p) PROVE p[j] \in Before(w, k)
    <2>1. j \in 1 .. k - 1 /\ w[j] = p[j]
      BY <1>2, <1>4
    <2> QED
      BY <2>1 DEF Before
  <1> QED
    BY <1>4, <1>5, <1>6, <1>7

\* The first of a list of calls waits for nothing.
LEMMA BeforeFirst == \A q : Before(q, 1) = {}
  <1>1. \A m : m \notin 1 .. 1 - 1
    OBVIOUS
  <1> QED
    BY <1>1 DEF Before

-----------------------------------------------------------------------------
(* A call goes on.                                                         *)

\* d is what call c turns into: the same call for another signature, one layer down.
Follows(c, d) == Down(c, d) /\ Same(d, c) /\ d.settled = c.settled

\* What a call turns into: one call, two for a type_register, or none.
LEMMA PassedShape ==
    ASSUME NEW n \in Nat, NEW c \in Calls(n), c.layer # 0, c.op # "free", NEW g \in 0 .. n
    PROVE  LET p == Passed(c, g) IN
           /\ \A k \in 1 .. Len(p) :
                Follows(c, p[k]) /\ (g # 0 /\ c.op # "type_register" => p[k].sig = g)
           /\ c.op \in {"sample_register", "type_register"} => 1 \in 1 .. Len(p)
           /\ c.op = "type_register" => p[1].sig = c.sig
           /\ c.op = "type_register" /\ g # 0 => 2 \in 1 .. Len(p) /\ p[2].sig = g
  <1>1. /\ c \in [op : OpNames, layer : Layers \cup {0}, sig : 0 .. n, from : Layers, root : Roots,
                  has_deps : BOOLEAN, settled : BOOLEAN]
        /\ c.op \in OpNames \ {"free"}
    BY DEF Calls
  <1>2. \A i : Follows(c, To(c, i)) /\ To(c, i).sig = i
    <2> TAKE i
    <2>1. /\ To(c, i).op = c.op /\ To(c, i).sig = i /\ To(c, i).from = c.from
          /\ To(c, i).root = c.root /\ To(c, i).settled = c.settled
          /\ To(c, i).layer = Below[c.layer]
      BY <1>1 DEF To
    <2> QED
      BY <2>1 DEF Follows, Down, Same
  <1>3. \A i : Follows(c, [To(c, i) EXCEPT !.has_deps = TRUE])
               /\ [To(c, i) EXCEPT !.has_deps = TRUE].sig = i
    <2> TAKE i
    <2> DEFINE d == [To(c, i) EXCEPT !.has_deps = TRUE]
    <2>1. /\ d.op = c.op /\ d.sig = i /\ d.from = c.from /\ d.root = c.root
          /\ d.settled = c.settled /\ d.layer = Below[c.layer]
      BY <1>1 DEF To
    <2> QED
      BY <2>1 DEF Follows, Down, Same
  <1>4. /\ \A d : Len(<<d>>) = 1 /\ <<d>>[1] = d
        /\ \A d, e : Len(<<d, e>>) = 2 /\ <<d, e>>[1] = d /\ <<d, e>>[2] = e
        /\ Len(<<>>) = 0
    OBVIOUS
  <1>5. 1 .. 0 = {} /\ 1 .. 1 = {1} /\ 1 .. 2 = {1, 2}
    OBVIOUS
  <1>6. CASE c.op = "type_register"
    <2>1. CASE g = 0
      <3>1. PICK d : d = To(c, c.sig)
        OBVIOUS
      <3>2. Passed(c, g) = <<d>>
        BY <1>6, <2>1, <3>1 DEF Passed, do_type_register
      <3> QED
        BY <1>2, <1>4, <1>5, <1>6, <2>1, <3>1, <3>2
    <2>2. CASE g # 0
      <3>1. PICK d, e : d = To(c, c.sig) /\ e = To(c, g)
        OBVIOUS
      <3>2. Passed(c, g) = <<d, e>>
        BY <1>6, <2>2, <3>1 DEF Passed, do_type_register
      <3> QED
        BY <1>2, <1>4, <1>5, <1>6, <2>2, <3>1, <3>2
    <2> QED
      BY <2>1, <2>2
  <1>7. CASE c.op # "type_register"
    <2>1. \/ Passed(c, g) = <<To(c, g)>>
          \/ Passed(c, g) = <<To(c, c.sig)>> /\ g = 0 /\ c.op # "sample_register"
          \/ Passed(c, g) = <<[To(c, g) EXCEPT !.has_deps = TRUE]>> /\ c.op # "sample_register"
          \/ Passed(c, g) = <<>> /\ g = 0 /\ c.op # "sample_register"
      BY <1>1, <1>7
      DEF Passed, do_type_bind, do_encode, do_ioctl, do_ref_get, OpNames
    <2>2. CASE Passed(c, g) = <<>> /\ g = 0 /\ c.op # "sample_register"
      BY <1>4, <1>5, <1>7, <2>2
    <2>3. ASSUME NEW d, Passed(c, g) = <<d>>, Follows(c, d), g # 0 => d.sig = g
          PROVE  /\ \A k \in 1 .. Len(Passed(c, g)) :
                      /\ Follows(c, Passed(c, g)[k])
                      /\ g # 0 /\ c.op # "type_register" => Passed(c, g)[k].sig = g
                 /\ 1 \in 1 .. Len(Passed(c, g))
      BY <1>4, <1>5, <2>3
    <2> QED
      BY <1>2, <1>3, <1>7, <2>1, <2>2, <2>3
  <1> QED
    BY <1>6, <1>7

\* A call that the layer has a rename for goes on to that rename.
LEMMA FollowsRouted ==
    ASSUME NEW T, NEW A, NEW R, NEW c, NEW d, NEW g \in Nat \ {0}, Routed(T, A, R, c),
           c.layer # 0, g = Get(T[c.layer], c.sig, 0), Follows(c, d), d.sig = g,
           A \subseteq Layers, \A k \in A : Below[k] # 0 => Below[k] \in A,
           g \notin Roots, g \in DOMAIN R => R[g].base = c.root
    PROVE  Routed(T, A, R, d)
  <1>1. d.from = c.from /\ d.root = c.root /\ d.layer = Below[c.layer]
    BY DEF Follows, Down, Same
  <1>2. d.sig = Get(T[c.layer], c.sig, 0) /\ d.sig \in Nat \ {0} /\ (d.sig \in Roots => d.sig = d.root)
        /\ (d.sig \in DOMAIN R => R[d.sig].base = d.root)
    BY <1>1
  <1> QED
    BY <1>1, <1>2, RoutedDown

\* A layer has a rename for a call for a sample that was registered through it.
LEMMA KnownRouted ==
    ASSUME NEW T, NEW A, NEW R, NEW K, NEW c, Routed(T, A, R, c), KnownIn(K, c),
           PlainFits(T, A, R, K), c.layer # 0
    PROVE  Get(T[c.layer], c.sig, 0) # 0
  <1>1. PICK x \in K : x.op = "sample_register" /\ Same(x, c)
    BY DEF KnownIn
  <1>2. PICK d : d = AtPlain(x)
    OBVIOUS
  <1>3. Routed(T, A, R, d) /\ d.layer = 0 /\ d.from = c.from /\ d.root = c.root
    BY <1>1, <1>2 DEF PlainFits, AtPlain, Same
  <1> QED
    BY <1>3, RoutesMeet

\* The calls of a thread fit after the first has gone down one layer.
LEMMA Advance ==
    ASSUME NEW T, NEW A, NEW R, NEW K, NEW n \in Nat, NEW q \in Seq(Calls(n)), q # <<>>,
           NEW c, c = Head(q), c.layer # 0, c.op # "free",
           NEW g \in 0 .. n, g = Get(T[c.layer], c.sig, 0), c.op \in Registering => g # 0,
           QueueFits(T, A, R, K, q), PlainFits(T, A, R, K),
           A \subseteq Layers, \A k \in A : Below[k] # 0 => Below[k] \in A,
           g # 0 => g \notin Roots,
           Routed(T, A, R, c) /\ g \in DOMAIN R => R[g].base = c.root
    PROVE  QueueFits(T, A, R, K, Passed(c, g) \o Tail(q))
  <1>1. c \in Calls(n) /\ c = q[1] /\ 1 \in 1 .. Len(q)
    OBVIOUS
  <1>2. PICK p : p = Passed(c, g)
    OBVIOUS
  <1>3. /\ \A k \in 1 .. Len(p) :
             Follows(c, p[k]) /\ (g # 0 /\ c.op # "type_register" => p[k].sig = g)
        /\ c.op \in {"sample_register", "type_register"} => 1 \in 1 .. Len(p)
        /\ c.op = "type_register" => p[1].sig = c.sig
        /\ c.op = "type_register" /\ g # 0 => 2 \in 1 .. Len(p) /\ p[2].sig = g
    BY <1>1, <1>2, PassedShape
  <1>4. p \in Seq(Calls(n))
    BY <1>1, <1>2, PassedFacts
  <1>5. /\ CallFits(T, A, R, K, c)
        /\ c.op \in {"type_register", "type_bind"} => KnownIn(K, c)
        /\ AllDepend /\ c.op = "type_bind" =>
             /\ \E x \in K : x.op = "type_register" /\ Same(x, c) /\ x.sig = x.root
             /\ \E x \in K : x.op = "type_register" /\ Same(x, c) /\ Routed(T, A, R, AtPlain(x))
    <2>1. /\ CallFits(T, A, R, K, q[1]) /\ Ordered(K, q, 1)
          /\ (AllDepend => Typed(T, A, R, K, q, 1))
      BY <1>1 DEF QueueFits
    <2> QED
      BY <1>1, <2>1, BeforeFirst DEF Ordered, Typed
  <1>6. \A d : Routed(T, A, R, c) /\ g # 0 /\ Follows(c, d) /\ d.sig = g => Routed(T, A, R, d)
    <2> SUFFICES ASSUME NEW d, Routed(T, A, R, c), g # 0, Follows(c, d), d.sig = g
                 PROVE  Routed(T, A, R, d)
      OBVIOUS
    <2>1. g \in Nat \ {0} /\ g \notin Roots /\ (g \in DOMAIN R => R[g].base = c.root)
      OBVIOUS
    <2> QED
      BY <2>1, FollowsRouted
  <1>7. Routed(T, A, R, c) /\ KnownIn(K, c) => g # 0
    BY KnownRouted
  <1>8. \A k \in 1 .. Len(p) : /\ p[k].op = c.op /\ Same(p[k], c) /\ p[k].settled = c.settled
                               /\ (KnownIn(K, c) => KnownIn(K, p[k]))
    BY <1>3 DEF Follows, Down, Same, KnownIn
  <1>9. ASSUME NEW k \in 1 .. Len(p) PROVE CallFits(T, A, R, K, p[k])
    <2>1. p[k].settled /\ p[k].op # "free" => KnownIn(K, p[k])
      BY <1>5, <1>8 DEF CallFits
    <2>2. ASSUME Uses(p[k]) PROVE Routed(T, A, R, p[k])
      <3>1. Uses(c)
        BY <1>8, <2>2 DEF Uses
      <3>2. Routed(T, A, R, c)
        BY <1>5, <3>1 DEF CallFits
      <3>3. c.op \in Registering \/ KnownIn(K, c)
        BY <1>5, <3>1 DEF Uses, CallFits
      <3>4. g # 0 /\ c.op # "type_register"
        BY <1>7, <3>1, <3>2, <3>3 DEF Uses, Registering
      <3> QED
        BY <1>3, <1>6, <3>2, <3>4
    <2> QED
      BY <2>1, <2>2 DEF CallFits
  <1> DEFINE w == p \o Tail(q)
  <1>10. \A k \in 1 .. Len(w) :
             \/ k \in 1 .. Len(p) /\ w[k] = p[k]
             \/ \E m \in 1 .. Len(q) :
                  /\ w[k] = q[m]
                  /\ \A d \in Before(q, m) : d = Head(q) \/ d \in Before(w, k)
                  /\ \A j \in 1 .. Len(p) : p[j] \in Before(w, k)
    BY <1>4, QueueShift
  <1> HIDE DEF w
  <1> SUFFICES ASSUME NEW k \in 1 .. Len(w)
               PROVE  CallFits(T, A, R, K, w[k]) /\ Ordered(K, w, k)
                      /\ (AllDepend => Typed(T, A, R, K, w, k))
    BY <1>2 DEF QueueFits, w
  <1>11. CASE k \in 1 .. Len(p) /\ w[k] = p[k]
    <2>1. CallFits(T, A, R, K, w[k]) /\ Ordered(K, w, k)
      BY <1>5, <1>8, <1>9, <1>11 DEF Ordered
    <2>2. AllDepend => Typed(T, A, R, K, w, k)
      BY <1>5, <1>8, <1>11 DEF Typed, Same
    <2> QED
      BY <2>1, <2>2
  <1>12. CASE \E m \in 1 .. Len(q) :
                  /\ w[k] = q[m]
                  /\ \A d \in Before(q, m) : d = Head(q) \/ d \in Before(w, k)
                  /\ \A j \in 1 .. Len(p) : p[j] \in Before(w, k)
    <2>1. PICK m \in 1 .. Len(q) :
                  /\ w[k] = q[m]
                  /\ \A d \in Before(q, m) : d = c \/ d \in Before(w, k)
                  /\ \A j \in 1 .. Len(p) : p[j] \in Before(w, k)
      BY <1>12
    <2>2. /\ CallFits(T, A, R, K, q[m]) /\ Ordered(K, q, m)
          /\ (AllDepend => Typed(T, A, R, K, q, m))
      BY DEF QueueFits
    <2>3. Ordered(K, w, k)
      <3> SUFFICES ASSUME w[k].op \in {"type_register", "type_bind"}, ~KnownIn(K, w[k])
                   PROVE  \E d \in Before(w, k) : d.op = "sample_register" /\ Same(d, w[k])
        BY DEF Ordered
      <3>1. PICK d \in Before(q, m) : d.op = "sample_register" /\ Same(d, w[k])
        BY <2>1, <2>2 DEF Ordered
      <3>2. CASE d = c
        BY <1>3, <1>8, <2>1, <3>1, <3>2 DEF Same
      <3> QED
        BY <2>1, <3>1, <3>2
    <2>4. ASSUME AllDepend PROVE Typed(T, A, R, K, w, k)
      <3> SUFFICES ASSUME w[k].op = "type_bind"
                   PROVE  /\ \/ \E x \in K : x.op = "type_register" /\ Same(x, w[k]) /\ x.sig = x.root
                             \/ \E d \in Before(w, k) :
                                  d.op = "type_register" /\ Same(d, w[k]) /\ d.sig = d.root
                          /\ \/ \E x \in K : /\ x.op = "type_register" /\ Same(x, w[k])
                                             /\ Routed(T, A, R, AtPlain(x))
                             \/ \E d \in Before(w, k) : /\ d.op = "type_register" /\ Same(d, w[k])
                                                        /\ Routed(T, A, R, d)
        BY DEF Typed
      <3>1. Typed(T, A, R, K, q, m) /\ q[m].op = "type_bind"
        BY <2>1, <2>2, <2>4
      <3>2. ASSUME NEW d \in Before(q, m), d.op = "type_register", Same(d, w[k]), d.sig = d.root
            PROVE  \E e \in Before(w, k) : e.op = "type_register" /\ Same(e, w[k]) /\ e.sig = e.root
        <4>1. CASE d = c
          BY <1>3, <1>8, <2>1, <3>2, <4>1 DEF Same
        <4> QED
          BY <2>1, <3>2, <4>1
      <3>3. ASSUME NEW d \in Before(q, m), d.op = "type_register", Same(d, w[k]), Routed(T, A, R, d)
            PROVE  \E e \in Before(w, k) : e.op = "type_register" /\ Same(e, w[k]) /\ Routed(T, A, R, e)
        <4>1. CASE d = c
          <5>1. g # 0
            BY <1>5, <1>7, <3>3, <4>1
          <5>2. 2 \in 1 .. Len(p) /\ p[2].sig = g /\ Follows(c, p[2])
            BY <1>3, <3>3, <4>1, <5>1
          <5>3. Routed(T, A, R, p[2])
            BY <1>6, <3>3, <4>1, <5>1, <5>2
          <5> QED
            BY <1>8, <2>1, <3>3, <4>1, <5>2, <5>3 DEF Same
        <4> QED
          BY <2>1, <3>3, <4>1
      <3>4. \/ \E x \in K : x.op = "type_register" /\ Same(x, w[k]) /\ x.sig = x.root
            \/ \E d \in Before(w, k) : d.op = "type_register" /\ Same(d, w[k]) /\ d.sig = d.root
        BY <2>1, <3>1, <3>2 DEF Typed
      <3>5. \/ \E x \in K : x.op = "type_register" /\ Same(x, w[k]) /\ Routed(T, A, R, AtPlain(x))
            \/ \E d \in Before(w, k) : d.op = "type_register" /\ Same(d, w[k]) /\ Routed(T, A, R, d)
        BY <2>1, <3>1, <3>3 DEF Typed
      <3> QED
        BY <3>4, <3>5
    <2> QED
      BY <2>1, <2>2, <2>3, <2>4
  <1> QED
    BY <1>10, <1>11, <1>12

-----------------------------------------------------------------------------
(* A call comes to the plain encoder or decoder.                           *)

\* What the plain encoder or decoder is told by call c.
Tells(c) == [op |-> c.op, sig |-> c.sig, from |-> c.from, root |-> c.root]

\* The plain encoder or decoder is called, and remembers it.
LEMMA PlainQueue ==
    ASSUME NEW T, NEW A, NEW R, NEW K, NEW n \in Nat, NEW q \in Seq(Calls(n)), q # <<>>,
           NEW c, c = Head(q), c.layer = 0, NEW L,
           L = IF c.op \in {"sample_register", "type_register"} THEN K \cup {Tells(c)} ELSE K,
           QueueFits(T, A, R, K, q), PlainFits(T, A, R, K)
    PROVE  QueueFits(T, A, R, L, Tail(q)) /\ PlainFits(T, A, R, L)
  <1>1. c \in Calls(n) /\ c = q[1] /\ 1 \in 1 .. Len(q)
    OBVIOUS
  <1>2. PICK x : x = Tells(c)
    OBVIOUS
  <1>3. x.op = c.op /\ Same(x, c) /\ x.sig = c.sig /\ x.root = c.root
    BY <1>2 DEF Tells, Same
  <1>4. Routed(T, A, R, c) => Routed(T, A, R, AtPlain(x))
    <2> HAVE Routed(T, A, R, c)
    <2>1. PICK d : d = AtPlain(x)
      OBVIOUS
    <2>2. d.from = c.from /\ d.root = c.root /\ d.layer = c.layer /\ d.sig = c.sig
      BY <1>3, <2>1 DEF AtPlain, Same
    <2>3. Routed(T, A, R, d)
      BY <2>2 DEF Routed, Trail
    <2> QED
      BY <2>1, <2>3
  <1>5. PlainFits(T, A, R, L)
    <2>1. c.op = "sample_register" => Routed(T, A, R, c)
      BY <1>1 DEF QueueFits, CallFits, Uses, Registering
    <2> QED
      BY <1>2, <1>3, <1>4, <2>1 DEF PlainFits
  <1>6. K \subseteq L /\ (c.op \in {"sample_register", "type_register"} => x \in L)
    BY <1>2
  <1> DEFINE p == <<>>
             w == p \o Tail(q)
  <1>7. p \in Seq(Calls(n)) /\ w = Tail(q) /\ \A k : k \notin 1 .. Len(p)
    OBVIOUS
  <1>8. \A k \in 1 .. Len(w) :
             \E m \in 1 .. Len(q) :
                  /\ w[k] = q[m]
                  /\ \A d \in Before(q, m) : d = Head(q) \/ d \in Before(w, k)
    <2> HIDE DEF p
    <2> QED
      BY <1>7, QueueShift
  <1> HIDE DEF w
  <1>9. ASSUME NEW k \in 1 .. Len(w)
        PROVE  CallFits(T, A, R, L, w[k]) /\ Ordered(L, w, k)
               /\ (AllDepend => Typed(T, A, R, L, w, k))
    <2>1. PICK m \in 1 .. Len(q) :
                  w[k] = q[m] /\ \A d \in Before(q, m) : d = c \/ d \in Before(w, k)
      BY <1>8
    <2>2. /\ CallFits(T, A, R, K, q[m]) /\ Ordered(K, q, m)
          /\ (AllDepend => Typed(T, A, R, K, q, m))
      BY DEF QueueFits
    <2>3. CallFits(T, A, R, L, w[k])
      BY <1>6, <2>1, <2>2 DEF CallFits, KnownIn
    <2>4. Ordered(L, w, k)
      <3> SUFFICES ASSUME w[k].op \in {"type_register", "type_bind"}
                   PROVE  \/ KnownIn(L, w[k])
                          \/ \E d \in Before(w, k) : d.op = "sample_register" /\ Same(d, w[k])
        BY DEF Ordered
      <3>1. CASE KnownIn(K, w[k])
        BY <1>6, <3>1 DEF KnownIn
      <3>2. CASE \E d \in Before(q, m) : d.op = "sample_register" /\ Same(d, w[k])
        <4>1. PICK d \in Before(q, m) : d.op = "sample_register" /\ Same(d, w[k])
          BY <3>2
        <4>2. CASE d = c
          BY <1>3, <1>6, <4>1, <4>2 DEF KnownIn, Same
        <4> QED
          BY <2>1, <4>1, <4>2
      <3> QED
        BY <2>1, <2>2, <3>1, <3>2 DEF Ordered
    <2>5. ASSUME AllDepend PROVE Typed(T, A, R, L, w, k)
      <3> SUFFICES ASSUME w[k].op = "type_bind"
                   PROVE  /\ \/ \E y \in L : y.op = "type_register" /\ Same(y, w[k]) /\ y.sig = y.root
                             \/ \E d \in Before(w, k) :
                                  d.op = "type_register" /\ Same(d, w[k]) /\ d.sig = d.root
                          /\ \/ \E y \in L : /\ y.op = "type_register" /\ Same(y, w[k])
                                             /\ Routed(T, A, R, AtPlain(y))
                             \/ \E d \in Before(w, k) : /\ d.op = "type_register" /\ Same(d, w[k])
                                                        /\ Routed(T, A, R, d)
        BY DEF Typed
      <3>1. Typed(T, A, R, K, q, m) /\ q[m].op = "type_bind"
        BY <2>1, <2>2, <2>5
      <3>2. ASSUME NEW d \in Before(q, m), d.op = "type_register", Same(d, w[k]), d.sig = d.root
            PROVE  \/ \E y \in L : y.op = "type_register" /\ Same(y, w[k]) /\ y.sig = y.root
                   \/ \E e \in Before(w, k) :
                        e.op = "type_register" /\ Same(e, w[k]) /\ e.sig = e.root
        <4>1. CASE d = c
          BY <1>3, <1>6, <3>2, <4>1 DEF Same
        <4> QED
          BY <2>1, <3>2, <4>1
      <3>3. ASSUME NEW d \in Before(q, m), d.op = "type_register", Same(d, w[k]), Routed(T, A, R, d)
            PROVE  \/ \E y \in L : y.op = "type_register" /\ Same(y, w[k]) /\ Routed(T, A, R, AtPlain(y))
                   \/ \E e \in Before(w, k) :
                        e.op = "type_register" /\ Same(e, w[k]) /\ Routed(T, A, R, e)
        <4>1. CASE d = c
          BY <1>3, <1>4, <1>6, <3>3, <4>1 DEF Same
        <4> QED
          BY <2>1, <3>3, <4>1
      <3>4. \/ \E y \in L : y.op = "type_register" /\ Same(y, w[k]) /\ y.sig = y.root
            \/ \E d \in Before(w, k) : d.op = "type_register" /\ Same(d, w[k]) /\ d.sig = d.root
        BY <1>6, <2>1, <3>1, <3>2 DEF Typed
      <3>5. \/ \E y \in L : y.op = "type_register" /\ Same(y, w[k]) /\ Routed(T, A, R, AtPlain(y))
            \/ \E d \in Before(w, k) : d.op = "type_register" /\ Same(d, w[k]) /\ Routed(T, A, R, d)
        BY <1>6, <2>1, <3>1, <3>3 DEF Typed
      <3> QED
        BY <3>4, <3>5
    <2> QED
      BY <2>3, <2>4, <2>5
  <1>10. QueueFits(T, A, R, L, w)
    BY <1>9 DEF QueueFits
  <1> QED
    BY <1>5, <1>7, <1>10

\* The calls and what is known as the stores, tables and layers change: only layer f goes.
LEMMA RoutesKept ==
    ASSUME IInv, QueuesInv, ToldInv, NEW U, NEW B, NEW M, NEW Q, NEW L, NEW f,
           StoresKept(name, rename, M, Q), Kept(renamed, alive, U, B, f),
           \A x \in told : x.from # f => x \in L,
           f \in Layers =>
             /\ \A k \in alive : Below[k] # f
             /\ \A u \in Threads : \A n \in 1 .. Len(todo[u]) :
                  todo[u][n].op # "free" => todo[u][n].from # f,
           f \in Layers \cup {0}
    PROVE  /\ \A u \in Threads : QueueFits(U, B, Q, L, todo[u])
           /\ \A x \in told : x.from # f /\ x.op = "sample_register" => Routed(U, B, Q, AtPlain(x))
  <1>1. /\ Len(name) \in Nat /\ alive \subseteq Layers /\ 0 \notin Layers
        /\ \A u \in Threads : todo[u] \in Seq(Calls(Len(name)))
    BY TableFacts, LayerFacts
  <1>2. ASSUME NEW u \in Threads PROVE QueueFits(U, B, Q, L, todo[u])
    <2>1. PICK q : q = todo[u]
      OBVIOUS
    <2>2. q \in Seq(Calls(Len(name))) /\ QueueFits(renamed, alive, rename, told, q)
      BY <1>1, <2>1 DEF QueuesInv
    <2>3. \A n \in 1 .. Len(q) : q[n].op # "free" => q[n].from # f
      <3> TAKE n \in 1 .. Len(q)
      <3>1. q[n] \in Calls(Len(name))
        BY <2>2
      <3>2. q[n].from \in Layers
        BY <3>1 DEF Calls
      <3> QED
        BY <1>1, <2>1, <3>2
    <2>4. \A x \in told : x.sig \in 0 .. Len(name)
      BY DEF ToldInv
    <2>5. QueueFits(U, B, Q, L, q)
      BY <1>1, <2>2, <2>3, <2>4, QueueKept
    <2> QED
      BY <2>1, <2>5
  <1>3. ASSUME NEW x \in told, x.from # f, x.op = "sample_register"
        PROVE  Routed(U, B, Q, AtPlain(x))
    <2>1. PICK d : d = AtPlain(x)
      OBVIOUS
    <2>2. d.from = x.from /\ d.sig = x.sig
      BY <2>1 DEF AtPlain
    <2>3. Routed(renamed, alive, rename, d) /\ x.sig \in 0 .. Len(name)
      BY <1>3, <2>1 DEF ToldInv, PlainFits
    <2>4. d.sig \in DOMAIN Q => d.sig \in DOMAIN rename /\ Q[d.sig].base = rename[d.sig].base
      <3>1. d.sig # 0 /\ d.sig \in 0 .. Len(name)
        BY <2>2, <2>3 DEF Routed
      <3>2. d.sig \in 1 .. Len(name)
        BY <3>1
      <3> QED
        BY <3>2 DEF StoresKept
    <2>5. Routed(U, B, Q, d)
      BY <1>1, <1>3, <2>2, <2>3, <2>4, RoutedKept
    <2> QED
      BY <2>1, <2>5
  <1> QED
    BY <1>2, <1>3

-----------------------------------------------------------------------------
(* What a step does to the calls and tables.                               *)

\* Steps inside set_renamed that make no call.
LEMMA WithinRoute ==
    ASSUME IInv, RouteInv, NamesInv', StoresKept(name, rename, name', rename'),
           Len(name') \in Nat, Len(name) <= Len(name'), UNCHANGED <<renamed, alive, todo, told>>
    PROVE  RouteInv'
  <1>1. QueuesInv /\ ToldInv /\ Len(name) \in Nat /\ 0 \notin Layers
    BY TableFacts, LayerFacts DEF RouteInv
  <1>2. PICK M, Q : M = name' /\ Q = rename'
    OBVIOUS
  <1>3. Kept(renamed, alive, renamed, alive, 0) /\ StoresKept(name, rename, M, Q)
    BY <1>2 DEF Kept
  <1>4. /\ \A u \in Threads : QueueFits(renamed, alive, Q, told, todo[u])
        /\ \A x \in told : x.from # 0 /\ x.op = "sample_register" =>
              Routed(renamed, alive, Q, AtPlain(x))
    BY <1>1, <1>3, RoutesKept
  <1>5. QueuesInv'
    BY <1>2, <1>4 DEF QueuesInv
  <1>6. ToldInv'
    <2>1. \A x \in told : x.from # 0 /\ x.sig \in 0 .. Len(name')
      <3> TAKE x \in told
      <3>1. x.from \in Layers /\ x.sig \in 0 .. Len(name)
        BY <1>1 DEF ToldInv
      <3> QED
        BY <1>1, <3>1
    <2>2. PlainFits(renamed, alive, Q, told)
      BY <1>4, <2>1 DEF PlainFits
    <2>3. PlainFits(renamed, alive, rename, told)'
      BY <1>2, <2>2
    <2> QED
      BY <1>1, <2>1, <2>3 DEF ToldInv
  <1> QED
    BY <1>5, <1>6 DEF RouteInv

\* What a layer's table has for a call that was registered has the call's root as base.
TablesLead ==
    \A c : /\ c.layer \in Layers /\ c.sig \in Nat
           /\ Get(renamed[c.layer], c.sig, 0) # 0
      => /\ Get(renamed[c.layer], c.sig, 0) \notin Roots
         /\ Routed(renamed, alive, rename, c) =>
              rename[Get(renamed[c.layer], c.sig, 0)].base = c.root

\* The tables lead to renames only, with the base of what they lead from.
LEMMA TableBase == IInv /\ NamesInv => TablesLead
  <1> SUFFICES ASSUME IInv, NamesInv, NEW c, c.layer \in Layers, c.sig \in Nat, NEW g,
                      g = Get(renamed[c.layer], c.sig, 0), g # 0
               PROVE  /\ g \notin Roots
                      /\ Routed(renamed, alive, rename, c) => rename[g].base = c.root
    BY DEF TablesLead
  <1>1. g \in DOMAIN rename /\ g \notin Roots
    BY DEF IInv, RefInv, NamesInv, RootsPlain
  <1>2. Fits(name, rename, c.layer, c.sig, g)
    BY DEF NamesInv, TablesFit
  <1>3. ASSUME Routed(renamed, alive, rename, c) PROVE rename[g].base = c.root
    <2>1. /\ c.root \in Roots
          /\ c.sig \in Roots => c.sig = c.root
          /\ c.sig \in DOMAIN rename => rename[c.sig].base = c.root
      BY <1>3 DEF Routed
    <2>2. alive \subseteq Layers
      BY TableFacts
    <2>3. \/ c.layer = c.from /\ c.sig = c.root
          \/ \E k \in alive, j \in Nat \ {0} : Below[k] = c.layer /\ c.sig = Get(renamed[k], j, 0)
      BY <1>3, <2>2, RoutedHeld
    <2>4. c.sig # 0
      BY <1>3 DEF Routed
    <2>5. c.sig \in Roots \/ c.sig \in DOMAIN rename
      BY <2>1, <2>2, <2>3, <2>4 DEF IInv, RefInv
    <2> QED
      BY <1>2, <2>1, <2>5 DEF Fits
  <1> QED
    BY <1>1, <1>3

\* A thread's call goes on to the layer below.
LEMMA GoRoute ==
    ASSUME IInv, IInv', RouteInv, NamesInv', NEW t \in Threads, todo[t] # <<>>,
           StoresKept(name, rename, name', rename'), UNCHANGED <<name, alive, told>>,
           Kept(renamed, alive, renamed', alive, 0),
           NEW c, c = Head(todo[t]), c.layer # 0, c.op # "free",
           NEW g \in 0 .. Len(name), g = Get(renamed'[c.layer], c.sig, 0),
           c.op \in Registering => g # 0,
           todo' = [todo EXCEPT ![t] = Passed(c, g) \o Tail(todo[t])]
    PROVE  RouteInv'
  <1>1. /\ QueuesInv /\ ToldInv /\ Len(name) \in Nat /\ 0 \notin Layers /\ alive \subseteq Layers
        /\ todo[t] \in Seq(Calls(Len(name))) /\ DOMAIN todo = Threads
        /\ ThreadTypes /\ PathInv /\ FreeInv /\ AliveClosed
    BY TableFacts, LayerFacts DEF RouteInv, IInv, UseInv, ThreadTypes
  <1>2. PICK U, Q, n : U = renamed' /\ Q = rename' /\ n = Len(name)
    OBVIOUS
  <1>3. /\ \A u \in Threads : QueueFits(U, alive, Q, told, todo[u])
        /\ \A x \in told : x.from # 0 /\ x.op = "sample_register" => Routed(U, alive, Q, AtPlain(x))
    <2>1. StoresKept(name, rename, name, Q) /\ Kept(renamed, alive, U, alive, 0)
      BY <1>2
    <2> QED
      BY <1>1, <2>1, RoutesKept
  <1>4. c \in Calls(n) /\ c.layer \in Layers /\ c.sig \in Nat
    <2>1. c \in Calls(n)
      BY <1>1, <1>2
    <2> QED
      BY <1>1, <1>2, <2>1 DEF Calls
  <1>5. PlainFits(U, alive, Q, told)
    <2>1. \A x \in told : x.from # 0
      BY <1>1 DEF ToldInv
    <2> QED
      BY <1>3, <2>1 DEF PlainFits
  <1>6. /\ g # 0 => g \notin Roots
        /\ Routed(U, alive, Q, c) /\ g \in DOMAIN Q => Q[g].base = c.root
    <2>1. g # 0 => /\ g \notin Roots
                   /\ (Routed(renamed', alive', rename', c) => rename'[g].base = c.root)
      <3> HAVE g # 0
      <3>1. IInv' /\ NamesInv' => TablesLead'
        BY TableBase, PTL
      <3>2. g = Get(renamed'[c.layer], c.sig, 0)
        OBVIOUS
      <3> QED
        BY <1>4, <3>1, <3>2 DEF TablesLead
    <2>2. 0 \notin DOMAIN Q
      <3>1. DOMAIN rename' \subseteq 1 .. Len(name')
        BY DEF IInv, StoreTypes, Indices
      <3> QED
        BY <1>2, <3>1
    <2> QED
      BY <1>2, <2>1, <2>2
  <1>7. PICK q : q = todo[t]
    OBVIOUS
  <1>8. QueueFits(U, alive, Q, told, Passed(c, g) \o Tail(q))
    <2>1. /\ q \in Seq(Calls(n)) /\ q # <<>> /\ c = Head(q) /\ QueueFits(U, alive, Q, told, q)
          /\ n \in Nat /\ g \in 0 .. n /\ g = Get(U[c.layer], c.sig, 0)
          /\ \A k \in alive : Below[k] # 0 => Below[k] \in alive
      BY <1>1, <1>2, <1>3, <1>7 DEF AliveClosed
    <2> QED
      BY <1>1, <1>5, <1>6, <2>1, Advance
  <1>9. PICK more : more = Passed(c, g) \o Tail(q)
    OBVIOUS
  <1>10. \A u \in Threads : todo'[u] = IF u = t THEN more ELSE todo[u]
    BY <1>1, <1>7, <1>9
  <1>11. QueuesInv'
    <2>1. \A u \in Threads : QueueFits(U, alive, Q, told, todo'[u])
      BY <1>3, <1>8, <1>9, <1>10
    <2> QED
      BY <1>2, <2>1 DEF QueuesInv
  <1>12. \A k \in 1 .. Len(more) : more[k].op # "free"
    <2>1. c.layer # 0 /\ (c.op \in Registering => g # 0)
      OBVIOUS
    <2>2. more = Passed(Head(todo[t]), g) \o Tail(todo[t])
      BY <1>7, <1>9
    <2>3. \A h \in 0 .. Len(name) :
             Head(todo[t]).layer # 0 /\ (Head(todo[t]).op \in Registering => h # 0) =>
               \A k \in 1 .. Len(Passed(Head(todo[t]), h) \o Tail(todo[t])) :
                 (Passed(Head(todo[t]), h) \o Tail(todo[t]))[k].op # "free"
      BY <1>1, GoFacts
    <2> QED
      BY <2>1, <2>2, <2>3
  <1>13. ToldInv'
    <2>1. PlainFits(renamed, alive, rename, told)'
      BY <1>2, <1>5
    <2>2. \A x \in told : \A u \in Threads : \A m \in 1 .. Len(todo'[u]) :
             todo'[u][m].op = "free" => todo'[u][m].from # x.from
      <3> TAKE x \in told
      <3> TAKE u \in Threads
      <3>1. CASE u = t
        <4>1. todo'[u] = more
          BY <1>10, <3>1
        <4> QED
          BY <1>12, <4>1
      <3>2. CASE u # t
        <4>1. todo'[u] = todo[u]
          BY <1>10, <3>2
        <4>2. \A m \in 1 .. Len(todo[u]) : todo[u][m].op = "free" => todo[u][m].from # x.from
          BY <1>1 DEF ToldInv
        <4> QED
          BY <4>1, <4>2
      <3> QED
        BY <3>1, <3>2
    <2> QED
      BY <1>1, <2>1, <2>2 DEF ToldInv
  <1> QED
    BY <1>11, <1>13 DEF RouteInv

-----------------------------------------------------------------------------
(* The steps of the threads keep calls on their way.                       *)

\* A thread whose calls are not those of a set_renamed has no rename in hand.
LEMMA CallNames ==
    ASSUME IInv, IInv', NamesInv, NEW t \in Threads, pc[t] = "call", pc'[t] # "insert",
           \A u \in Threads : u # t => todo'[u] = todo[u] /\ pc'[u] = pc[u],
           UNCHANGED <<name, rename, renamed, base, entry>>
    PROVE  NamesInv'
  <1>1. entry[t] = 0
    BY DEF IInv, PlaceInv, EntryInv
  <1>2. StoresKept(name, rename, name', rename')
    BY SameStores
  <1>3. \A l \in Layers, i \in Nat : Get(renamed'[l], i, 0) # 0 =>
              Get(renamed'[l], i, 0) = Get(renamed[l], i, 0)
    OBVIOUS
  <1>4. \A u \in Threads : entry'[u] # 0 => entry'[u] = entry[u] /\ Head(todo'[u]) = Head(todo[u])
    BY <1>1
  <1>5. \A u \in Threads : pc'[u] = "insert" =>
              pc[u] = "insert" /\ Head(todo'[u]) = Head(todo[u]) /\ base' = base
    OBVIOUS
  <1> QED
    BY <1>2, <1>3, <1>4, <1>5, NamesKept

\* One lemma for each action: it keeps RouteInv.
LEMMA PlainRoute ==
    ASSUME IInv, IInv', RouteInv, NEW t \in Threads, PlainCall(t)
    PROVE  RouteInv'
  <1> DEFINE c == Head(todo[t])
  <1>1. /\ QueuesInv /\ ToldInv /\ Len(name) \in Nat /\ 0 \notin Layers /\ alive \subseteq Layers
        /\ todo[t] \in Seq(Calls(Len(name))) /\ DOMAIN todo = Threads
        /\ ThreadTypes /\ PathInv /\ FreeInv /\ AliveClosed /\ NamesInv
    BY TableFacts, LayerFacts DEF RouteInv, IInv, UseInv, ThreadTypes
  <1>2. /\ UNCHANGED <<name, registry, rename, base, renamed, alive, pc, entry>>
        /\ pc[t] = "call" /\ todo[t] # <<>> /\ c.layer = 0
        /\ todo' = [todo EXCEPT ![t] = Tail(todo[t])]
        /\ told' = IF c.op \in {"sample_register", "type_register"} THEN told \cup {Tells(c)} ELSE told
    BY DEF PlainCall, At, stores, Tells
  <1>3. PICK q, n, L : q = todo[t] /\ n = Len(name) /\ L = told'
    OBVIOUS
  <1>4. q \in Seq(Calls(n)) /\ q # <<>> /\ c = Head(q) /\ n \in Nat
        /\ QueueFits(renamed, alive, rename, told, q)
    BY <1>1, <1>2, <1>3 DEF QueuesInv
  <1>5. c \in Calls(n) /\ c = q[1] /\ 1 \in 1 .. Len(q)
    BY <1>4
  <1> HIDE DEF c
  <1>6. /\ c.op # "free" /\ c.from \in Layers /\ c.root \in Roots /\ c.sig \in 0 .. n
    BY <1>1, <1>2, <1>5 DEF Calls
  <1>7. QueueFits(renamed, alive, rename, L, Tail(q)) /\ PlainFits(renamed, alive, rename, L)
    <2>1. L = IF c.op \in {"sample_register", "type_register"} THEN told \cup {Tells(c)} ELSE told
      BY <1>2, <1>3
    <2>2. PlainFits(renamed, alive, rename, told)
      BY <1>1 DEF ToldInv
    <2> QED
      BY <1>2, <1>4, <2>1, <2>2, PlainQueue
  <1>8. \A u \in Threads : QueueFits(renamed, alive, rename, L, todo[u])
    <2>1. StoresKept(name, rename, name, rename) /\ Kept(renamed, alive, renamed, alive, 0)
      BY DEF StoresKept, Kept
    <2>2. \A x \in told : x.from # 0 => x \in L
      BY <1>2, <1>3
    <2> QED
      BY <1>1, <2>1, <2>2, RoutesKept
  <1>9. PICK more : more = Tail(q)
    OBVIOUS
  <1>10. \A u \in Threads : todo'[u] = IF u = t THEN more ELSE todo[u]
    BY <1>1, <1>2, <1>3, <1>9
  <1>11. QueuesInv'
    <2>1. \A u \in Threads : QueueFits(renamed, alive, rename, L, todo'[u])
      BY <1>7, <1>8, <1>9, <1>10
    <2> QED
      BY <1>2, <1>3, <2>1 DEF QueuesInv
  <1>12. \A k \in 1 .. Len(more) : more[k].op # "free"
    <2>1. Head(todo[t]).op # "free"
      BY <1>6 DEF c
    <2>2. \A k \in 1 .. Len(Tail(todo[t])) : Tail(todo[t])[k].op # "free"
      BY <1>1, <1>2, <2>1, GoFacts
    <2> QED
      BY <1>3, <1>9, <2>2
  <1>13. ToldInv'
    <2>1. \A x \in L : x \in told \/ x = Tells(c)
      BY <1>2, <1>3
    <2>2. \A x \in L : x.from \in Layers /\ x.root \in Roots /\ x.sig \in 0 .. n
      BY <1>1, <1>3, <1>6, <2>1 DEF Tells, ToldInv
    <2>3. ASSUME NEW x \in L, NEW u \in Threads, NEW m \in 1 .. Len(todo'[u]), todo'[u][m].op = "free"
          PROVE  todo'[u][m].from # x.from
      <3>1. u # t /\ todo'[u] = todo[u]
        BY <1>10, <1>12, <2>3
      <3>2. m \in 1 .. Len(todo[u]) /\ todo[u][m].op = "free"
        BY <2>3, <3>1
      <3>3. CASE x \in told
        BY <1>1, <3>1, <3>2, <3>3 DEF ToldInv
      <3>4. CASE x = Tells(c)
        <4>1. todo[u] \in Seq(Calls(n))
          BY <1>3, TableFacts
        <4>2. todo[u][m] \in Calls(n)
          BY <3>2, <4>1
        <4>3. todo[u][m].layer = todo[u][m].from
          BY <3>2, <4>2 DEF Calls
        <4>4. q[1].from # todo[u][m].layer
          BY <1>1, <1>3, <1>5, <3>1, <3>2 DEF FreeInv
        <4>5. x.from = c.from
          BY <3>4 DEF Tells
        <4> QED
          BY <1>5, <3>1, <4>3, <4>4, <4>5
      <3> QED
        BY <2>1, <3>3, <3>4
    <2>4. PlainFits(renamed, alive, rename, told)'
      BY <1>2, <1>3, <1>7
    <2> QED
      BY <1>2, <1>3, <2>2, <2>3, <2>4 DEF ToldInv
  <1>14. NamesInv'
    <2>1. pc'[t] # "insert" /\ \A u \in Threads : u # t => todo'[u] = todo[u] /\ pc'[u] = pc[u]
      BY <1>2, <1>10
    <2> QED
      BY <1>1, <1>2, <2>1, CallNames
  <1> QED
    BY <1>11, <1>13, <1>14 DEF RouteInv

LEMMA LookupRoute ==
    ASSUME IInv, IInv', RouteInv, NEW t \in Threads, Lookup(t) \/ SetRenamed(t)
    PROVE  RouteInv'
  <1> DEFINE c == Head(todo[t])
             g == Get(renamed[c.layer], c.sig, 0)
  <1>1. /\ UNCHANGED <<name, registry, rename, base, renamed, alive, told, entry>>
        /\ pc[t] = "call" /\ todo[t] # <<>> /\ c.layer # 0 /\ c.op # "free"
    BY DEF Lookup, SetRenamed, At, stores, Registering
  <1>2. /\ DOMAIN todo = Threads /\ DOMAIN pc = Threads /\ Len(name) \in Nat /\ NamesInv
        /\ todo[t] \in Seq(Calls(Len(name))) /\ c \in Calls(Len(name))
    <2>1. todo[t] \in Seq(Calls(Len(name)))
      BY TableFacts
    <2> QED
      BY <1>1, <2>1, TableFacts DEF RouteInv, IInv, ThreadTypes
  <1>3. StoresKept(name, rename, name', rename')
    BY <1>1, SameStores
  <1> HIDE DEF c, g
  <1>4. c.layer \in Layers /\ c.sig \in Nat /\ g \in 0 .. Len(name)
    <2>1. c.layer \in Layers /\ c.sig \in Nat
      BY <1>1, <1>2 DEF Calls
    <2> QED
      BY <2>1, TableFacts DEF g
  <1>5. CASE Go(t, g) /\ UNCHANGED pc /\ (c.op \in Registering => g # 0)
    <2>1. todo' = [todo EXCEPT ![t] = Passed(c, g) \o Tail(todo[t])]
      BY <1>5 DEF Go, c
    <2>2. NamesInv'
      <3>1. pc'[t] # "insert" /\ \A u \in Threads : u # t => todo'[u] = todo[u] /\ pc'[u] = pc[u]
        BY <1>1, <1>2, <1>5, <2>1
      <3> QED
        BY <1>1, <1>2, <3>1, CallNames
    <2>3. Kept(renamed, alive, renamed', alive, 0)
      BY <1>1 DEF Kept
    <2>4. g = Get(renamed'[c.layer], c.sig, 0) /\ c = Head(todo[t])
      BY <1>1 DEF g, c
    <2> QED
      BY <1>1, <1>3, <1>4, <1>5, <2>1, <2>2, <2>3, <2>4, GoRoute
  <1>6. CASE UNCHANGED todo /\ pc' = [pc EXCEPT ![t] = "rename_new"]
    <2>1. NamesInv'
      <3>1. pc'[t] # "insert" /\ \A u \in Threads : u # t => todo'[u] = todo[u] /\ pc'[u] = pc[u]
        BY <1>2, <1>6
      <3> QED
        BY <1>1, <1>2, <3>1, CallNames
    <2> QED
      BY <1>1, <1>2, <1>3, <1>6, <2>1, WithinRoute
  <1> QED
    BY <1>5, <1>6 DEF Lookup, SetRenamed, get_renamed, c, g

-----------------------------------------------------------------------------
(* set_renamed keeps calls on their way.                                   *)

LEMMA RenameNewRoute ==
    ASSUME IInv, IInv', RouteInv, NEW t \in Threads, RenameNew(t)
    PROVE  RouteInv'
  <1>1. NamesInv' /\ StoresKept(name, rename, name', rename')
    BY RenameNewNames DEF RouteInv
  <1>2. UNCHANGED <<name, renamed, alive, todo, told>> /\ Len(name) \in Nat
    BY TableFacts DEF RenameNew
  <1> QED
    BY <1>1, <1>2, WithinRoute

LEMMA InsertRoute ==
    ASSUME IInv, IInv', RouteInv, NEW t \in Threads, Insert(t)
    PROVE  RouteInv'
  <1>1. NamesInv' /\ StoresKept(name, rename, name', rename')
    BY InsertNames DEF RouteInv
  <1>2. UNCHANGED <<renamed, alive, todo, told>>
    BY DEF Insert
  <1>3. Len(name) \in Nat /\ Len(name') \in Nat /\ Len(name) <= Len(name')
    <2>1. Len(name) \in Nat /\ name \in Seq(Seq(Parts)) /\ name' \in Seq(Seq(Parts))
      BY TableFacts DEF IInv, StoreTypes, Parts
    <2>2. UNCHANGED name \/ \E n : name' = Append(name, n)
      BY DEF Insert
    <2> QED
      BY <2>1, <2>2
  <1> QED
    BY <1>1, <1>2, <1>3, WithinRoute

LEMMA StoreTakenRoute ==
    ASSUME IInv, IInv', RouteInv, NEW t \in Threads, StoreTaken(t), UNCHANGED told
    PROVE  RouteInv'
  <1>1. /\ UNCHANGED <<name, rename, base, renamed, alive, entry, todo>>
        /\ pc' = [pc EXCEPT ![t] = "rename_free"]
    BY DEF StoreTaken
  <1>2. StoresKept(name, rename, name', rename') /\ Len(name) \in Nat
    BY <1>1, SameStores, TableFacts
  <1>3. \A u \in Threads : pc'[u] = "insert" => pc[u] = "insert"
    BY <1>1 DEF IInv, ThreadTypes
  <1>4. NamesInv'
    BY <1>1, <1>2, <1>3, NamesKept DEF RouteInv
  <1> QED
    BY <1>1, <1>2, <1>4, WithinRoute

\* The rename that a thread stores has the name and the base that the layer gives it.
LEMMA StoresNames ==
    ASSUME IInv, NamesInv, NEW t \in Threads, Stores(t)
    PROVE  LET c == Head(todo[t]) IN
           /\ NamesInv' /\ Kept(renamed, alive, renamed', alive, 0)
           /\ Get(renamed'[c.layer], c.sig, 0) = entry[t] /\ entry[t] # 0
           /\ entry[t] \in 0 .. Len(name)
  <1> DEFINE c == Head(todo[t])
             l == c.layer
             i == c.sig
             v == entry[t]
             n == Len(name)
  <1>1. /\ UNCHANGED <<name, registry, rename, base, alive, lock>>
        /\ pc[t] = "store" /\ pc' = [pc EXCEPT ![t] = "call"]
        /\ renamed' = [renamed EXCEPT ![l] = Put(@, i, v)] /\ Get(renamed[l], i, 0) = 0
        /\ entry' = [entry EXCEPT ![t] = 0] /\ Go(t, v)
    BY DEF Stores
  <1>2. l \in alive /\ l \in Layers /\ i \in 1 .. n /\ n \in Nat
    <2>1. pc[t] # "call"
      BY <1>1
    <2> QED
      BY <2>1, InsideFacts, TableFacts DEF Indices
  <1>3. v \in 0 .. n /\ v # 0 /\ v \in Nat
    BY <1>1, <1>2, TableFacts DEF IInv, PlaceInv, EntryInv
  <1>4. Fits(name, rename, l, i, v)
    BY <1>3 DEF NamesInv, EntriesFit
  <1> HIDE DEF l, i, v, n, c
  <1>5. \A k \in Layers, j \in Nat :
          Get(renamed'[k], j, 0) = IF k = l /\ j = i THEN v ELSE Get(renamed[k], j, 0)
    <2>1. renamed \in [Layers -> Arrays] /\ Get(renamed[l], i, 0) # v /\ Writes(l, i, v)
      BY <1>1, <1>3 DEF IInv, TableTypes, Writes
    <2> QED
      BY <1>2, <1>3, <2>1, TableChange
  <1>6. /\ \A u \in Threads : entry'[u] = IF u = t THEN 0 ELSE entry[u]
        /\ \A u \in Threads : pc'[u] = IF u = t THEN "call" ELSE pc[u]
        /\ \A u \in Threads : u # t => todo'[u] = todo[u]
    BY <1>1 DEF IInv, TableTypes, ThreadTypes, Go
  <1>7. TablesFit'
    <2> SUFFICES ASSUME NEW k \in Layers, NEW j \in Nat, Get(renamed'[k], j, 0) # 0
                 PROVE  Fits(name, rename, k, j, Get(renamed'[k], j, 0))
      BY <1>1 DEF TablesFit
    <2>1. CASE k = l /\ j = i
      BY <1>4, <1>5, <2>1
    <2>2. CASE ~(k = l /\ j = i)
      BY <1>5, <2>2 DEF NamesInv, TablesFit
    <2> QED
      BY <2>1, <2>2
  <1>8. EntriesFit'
    BY <1>1, <1>6 DEF NamesInv, EntriesFit
  <1>9. BaseFits' /\ RootsPlain'
    BY <1>1, <1>6 DEF NamesInv, BaseFits, RootsPlain
  <1>10. Kept(renamed, alive, renamed', alive, 0)
    <2>1. alive \subseteq Layers
      BY TableFacts
    <2>2. \A k \in Layers, j \in Nat : Get(renamed[k], j, 0) # 0 =>
             Get(renamed'[k], j, 0) = Get(renamed[k], j, 0)
      BY <1>1, <1>5
    <2> QED
      BY <2>1, <2>2 DEF Kept
  <1>11. Get(renamed'[l], i, 0) = v
    BY <1>2, <1>5
  <1> QED
    BY <1>3, <1>7, <1>8, <1>9, <1>10, <1>11 DEF NamesInv, l, i, v, n, c

LEMMA StoresRoute ==
    ASSUME IInv, IInv', RouteInv, NEW t \in Threads, Stores(t), UNCHANGED told
    PROVE  RouteInv'
  <1>1. UNCHANGED <<name, rename, alive, told>> /\ pc[t] = "store" /\ Go(t, entry[t])
    BY DEF Stores
  <1>2. PICK c, g : c = Head(todo[t]) /\ g = entry[t]
    OBVIOUS
  <1>3. /\ NamesInv' /\ Kept(renamed, alive, renamed', alive, 0)
        /\ Get(renamed'[c.layer], c.sig, 0) = g /\ g # 0 /\ g \in 0 .. Len(name)
    BY <1>2, StoresNames DEF RouteInv
  <1>4. todo[t] # <<>> /\ c.layer # 0 /\ c.op # "free"
    <2>1. pc[t] # "call"
      BY <1>1
    <2> QED
      BY <1>2, <2>1, InsideFacts
  <1>5. todo' = [todo EXCEPT ![t] = Passed(c, g) \o Tail(todo[t])]
    BY <1>1, <1>2 DEF Go
  <1>6. StoresKept(name, rename, name', rename')
    BY <1>1, SameStores
  <1> QED
    BY <1>1, <1>2, <1>3, <1>4, <1>5, <1>6, GoRoute

LEMMA StoreRoute ==
    ASSUME IInv, IInv', RouteInv, NEW t \in Threads, Store(t)
    PROVE  RouteInv'
  <1>1. (StoreTaken(t) \/ Stores(t)) /\ UNCHANGED told
    BY DEF Store, At, stores, get_renamed, StoreTaken, Stores
  <1> QED
    BY <1>1, StoreTakenRoute, StoresRoute

LEMMA GiveBackRoute ==
    ASSUME IInv, IInv', RouteInv, NEW t \in Threads, GiveBack(t)
    PROVE  RouteInv'
  <1> DEFINE c == Head(todo[t])
             g == Get(renamed[c.layer], c.sig, 0)
             r == entry[t]
  <1>1. /\ UNCHANGED <<name, base, renamed, alive, told>>
        /\ pc[t] = "rename_free" /\ pc' = [pc EXCEPT ![t] = "call"] /\ rename_free(r)
        /\ entry' = [entry EXCEPT ![t] = 0] /\ Go(t, g)
    BY DEF GiveBack, At, get_renamed
  <1>2. /\ c.layer \in Layers /\ c.sig \in Nat /\ todo[t] # <<>> /\ c.layer # 0 /\ c.op # "free"
    <2>1. pc[t] # "call"
      BY <1>1
    <2> QED
      BY <2>1, InsideFacts
  <1>3. g # 0 /\ g \in 0 .. Len(name)
    BY <1>1, <1>2, TableFacts DEF IInv, PlaceInv, TakenInv
  <1>4. r \in DOMAIN rename
    BY <1>1 DEF IInv, PlaceInv, EntryInv, RefInv
  <1> HIDE DEF c, g, r
  <1>5. StoresKept(name, rename, name', rename')
    BY <1>1, <1>4, FreedStores
  <1>6. todo' = [todo EXCEPT ![t] = Passed(c, g) \o Tail(todo[t])]
    BY <1>1 DEF Go, c
  <1>7. NamesInv'
    <2>1. /\ \A u \in Threads : entry'[u] = IF u = t THEN 0 ELSE entry[u]
          /\ \A u \in Threads : pc'[u] = IF u = t THEN "call" ELSE pc[u]
          /\ \A u \in Threads : u # t => todo'[u] = todo[u]
      BY <1>1, <1>6 DEF IInv, TableTypes, ThreadTypes
    <2>2. \A u \in Threads : entry'[u] # 0 => entry'[u] = entry[u] /\ Head(todo'[u]) = Head(todo[u])
      BY <2>1
    <2>3. \A u \in Threads : pc'[u] = "insert" =>
              pc[u] = "insert" /\ Head(todo'[u]) = Head(todo[u]) /\ base' = base
      BY <1>1, <2>1
    <2>4. \A l \in Layers, i \in Nat : Get(renamed'[l], i, 0) # 0 =>
              Get(renamed'[l], i, 0) = Get(renamed[l], i, 0)
      BY <1>1
    <2> QED
      BY <1>5, <2>2, <2>3, <2>4, NamesKept DEF RouteInv
  <1>8. Kept(renamed, alive, renamed', alive, 0)
    BY <1>1 DEF Kept
  <1>9. g = Get(renamed'[c.layer], c.sig, 0) /\ c = Head(todo[t])
    BY <1>1 DEF g, c
  <1> QED
    BY <1>1, <1>2, <1>3, <1>5, <1>6, <1>7, <1>8, <1>9, GoRoute

-----------------------------------------------------------------------------
(* Layers come and go.                                                     *)

\* Layer l is being freed or was just created: no call but its own free is about it.
LEMMA GoingKept ==
    ASSUME IInv, QueuesInv, ToldInv, NEW U, NEW B, NEW Q, NEW l \in Layers,
           StoresKept(name, rename, name, Q), Kept(renamed, alive, U, B, l),
           \A k \in alive : Below[k] # l,
           \A u \in Threads : \A n \in 1 .. Len(todo[u]) :
             todo[u][n].op # "free" => todo[u][n].from # l
    PROVE  /\ \A u \in Threads : QueueFits(U, B, Q, told, todo[u])
           /\ \A x \in told : x.from # l /\ x.op = "sample_register" => Routed(U, B, Q, AtPlain(x))
  <1>1. /\ l \in Layers \cup {0} /\ \A x \in told : x.from # l => x \in told
        /\ l \in Layers =>
               /\ \A k \in alive : Below[k] # l
               /\ \A u \in Threads : \A n \in 1 .. Len(todo[u]) :
                    todo[u][n].op # "free" => todo[u][n].from # l
    OBVIOUS
  <1> QED
    BY <1>1, RoutesKept

\* The layer that thread t frees loses renames, or goes.
LEMMA GoingRoute ==
    ASSUME IInv, IInv', RouteInv, NamesInv', NEW t \in Threads, todo[t] # <<>>,
           NEW l, l = Head(todo[t]).layer, Head(todo[t]).op = "free", UNCHANGED <<name, told>>,
           StoresKept(name, rename, name', rename'), Kept(renamed, alive, renamed', alive', l),
           \A u \in Threads : todo'[u] = todo[u] \/ Len(todo'[u]) = 0
    PROVE  RouteInv'
  <1>1. /\ QueuesInv /\ ToldInv /\ l \in Layers /\ Head(todo[t]) \in Calls(Len(name))
        /\ Len(todo[t]) = 1 /\ todo[t][1] = Head(todo[t]) /\ FreeInv
        /\ \A k \in alive : Below[k] # l
    BY FreeFacts DEF RouteInv, IInv, UseInv
  <1>2. todo[t][1].from = l /\ todo[t][1].op = "free" /\ todo[t][1].layer = l /\ 1 \in 1 .. Len(todo[t])
    <2>1. Head(todo[t]).layer = Head(todo[t]).from
      BY <1>1 DEF Calls
    <2> QED
      BY <1>1, <2>1
  <1>3. \A u \in Threads : \A n \in 1 .. Len(todo[u]) :
           todo[u][n].op # "free" => todo[u][n].from # l
    <2> TAKE u \in Threads
    <2> TAKE n \in 1 .. Len(todo[u])
    <2>1. CASE u = t
      <3>1. n \in 1 .. 1
        BY <1>1, <2>1
      <3>2. n = 1
        BY <3>1
      <3> QED
        BY <1>2, <2>1, <3>2
    <2>2. CASE u # t
      <3>1. \A v \in Threads : \A m \in 1 .. Len(todo[v]) :
               v # t => todo[v][m].from # todo[t][1].layer
        BY <1>1, <1>2 DEF FreeInv
      <3> QED
        BY <1>2, <2>2, <3>1
    <2> QED
      BY <2>1, <2>2
  <1>4. \A x \in told : x.from # l
    BY <1>1, <1>2 DEF ToldInv
  <1>5. PICK U, B, Q : U = renamed' /\ B = alive' /\ Q = rename'
    OBVIOUS
  <1>6. /\ \A u \in Threads : QueueFits(U, B, Q, told, todo[u])
        /\ \A x \in told : x.from # l /\ x.op = "sample_register" => Routed(U, B, Q, AtPlain(x))
    <2>1. StoresKept(name, rename, name, Q) /\ Kept(renamed, alive, U, B, l)
      BY <1>5
    <2> QED
      BY <1>1, <1>3, <2>1, GoingKept
  <1>7. ASSUME NEW u \in Threads, NEW n \in 1 .. Len(todo'[u])
        PROVE  n \in 1 .. Len(todo[u]) /\ todo'[u] = todo[u]
    <2>1. Len(todo'[u]) # 0
      OBVIOUS
    <2>2. todo'[u] = todo[u]
      BY <2>1
    <2> QED
      BY <2>2
  <1>8. QueuesInv'
    <2>1. ASSUME NEW u \in Threads PROVE QueueFits(U, B, Q, told, todo'[u])
      <3>1. CASE todo'[u] = todo[u]
        BY <1>6, <3>1
      <3>2. CASE todo'[u] # todo[u]
        <4>1. \A n : n \notin 1 .. Len(todo'[u])
          BY <1>7, <3>2
        <4> QED
          BY <4>1 DEF QueueFits
      <3> QED
        BY <3>1, <3>2
    <2> QED
      BY <1>5, <2>1 DEF QueuesInv
  <1>9. ToldInv'
    <2>1. PlainFits(U, B, Q, told)
      BY <1>4, <1>6 DEF PlainFits
    <2>2. PlainFits(renamed, alive, rename, told)'
      BY <1>5, <2>1
    <2>3. ASSUME NEW x \in told, NEW u \in Threads, NEW n \in 1 .. Len(todo'[u]),
                 todo'[u][n].op = "free"
          PROVE  todo'[u][n].from # x.from
      <3>1. n \in 1 .. Len(todo[u]) /\ todo'[u] = todo[u]
        BY <1>7
      <3> QED
        BY <1>1, <2>3, <3>1 DEF ToldInv
    <2> QED
      BY <1>1, <2>2, <2>3 DEF ToldInv
  <1> QED
    BY <1>8, <1>9 DEF RouteInv

LEMMA DoFreeRoute ==
    ASSUME IInv, IInv', RouteInv, NEW t \in Threads, do_free(t)
    PROVE  RouteInv'
  <1> DEFINE l == Head(todo[t]).layer
  <1>1. /\ pc[t] = "call" /\ todo[t] # <<>> /\ Head(todo[t]).op = "free"
        /\ UNCHANGED <<name, base, lock, pc, entry, told>>
    BY DEF do_free, At
  <1>2. /\ l \in Layers /\ alive \subseteq Layers /\ renamed \in [Layers -> Arrays] /\ NamesInv
        /\ DOMAIN todo = Threads /\ entry[t] = 0 /\ Len(todo[t]) = 1
        /\ todo[t] \in Seq(Calls(Len(name))) /\ Len(name) \in Nat
    BY <1>1, FreeFacts, TableFacts DEF RouteInv, IInv, TableTypes, ThreadTypes, PlaceInv, EntryInv
  <1> HIDE DEF l
  <1>3. CASE \E i \in Keys(renamed[l]) :
               /\ rename_free(Get(renamed[l], i, 0))
               /\ Writes(l, i, 0)
               /\ UNCHANGED <<alive, todo>>
    <2>1. PICK i \in Keys(renamed[l]) :
               /\ rename_free(Get(renamed[l], i, 0))
               /\ Writes(l, i, 0)
               /\ UNCHANGED <<alive, todo>>
      BY <1>3
    <2>2. PICK r : r = Get(renamed[l], i, 0)
      OBVIOUS
    <2>3. i \in Nat /\ r # 0
      <3>1. renamed[l] \in Arrays
        BY <1>2
      <3> QED
        BY <2>2, <3>1, ArrayFacts
    <2>4. i \in 1 .. Len(name) /\ r \in DOMAIN rename
      BY <1>2, <2>2, <2>3 DEF IInv, TableTypes, RefInv, Indices
    <2>5. StoresKept(name, rename, name', rename')
      BY <1>1, <2>1, <2>2, <2>4, FreedStores
    <2>6. \A k \in Layers, j \in Nat :
            Get(renamed'[k], j, 0) = IF k = l /\ j = i THEN 0 ELSE Get(renamed[k], j, 0)
      <3>1. Get(renamed[l], i, 0) # 0 /\ 0 \in Nat /\ Writes(l, i, 0)
        BY <2>1, <2>2, <2>3
      <3> QED
        BY <1>2, <2>4, <3>1, TableChange
    <2>7. NamesInv'
      BY <1>1, <1>2, <2>1, <2>5, <2>6, NamesKept
    <2>8. Kept(renamed, alive, renamed', alive', l)
      BY <1>2, <2>1, <2>6 DEF Kept
    <2> QED
      BY <1>1, <2>1, <2>5, <2>7, <2>8, GoingRoute DEF l
  <1>4. CASE LayerGone(t, l)
    <2>1. /\ UNCHANGED <<rename, renamed>> /\ alive' = alive \ {l}
          /\ todo' = [todo EXCEPT ![t] = Tail(todo[t])]
      BY <1>4 DEF LayerGone
    <2>2. PICK rest : rest = Tail(todo[t])
      OBVIOUS
    <2>3. Len(rest) = 0
      BY <1>2, <2>2
    <2>4. \A u \in Threads : todo'[u] = IF u = t THEN rest ELSE todo[u]
      BY <1>2, <2>1, <2>2
    <2>5. StoresKept(name, rename, name', rename')
      BY <1>1, <2>1, SameStores
    <2>6. NamesInv'
      <3>1. pc'[t] # "insert" /\ \A u \in Threads : u # t => todo'[u] = todo[u] /\ pc'[u] = pc[u]
        BY <1>1, <2>4
      <3> QED
        BY <1>1, <1>2, <2>1, <3>1, CallNames
    <2>7. Kept(renamed, alive, renamed', alive', l)
      BY <2>1 DEF Kept
    <2>8. \A u \in Threads : todo'[u] = todo[u] \/ Len(todo'[u]) = 0
      BY <2>3, <2>4
    <2> QED
      BY <1>1, <2>5, <2>6, <2>7, <2>8, GoingRoute DEF l
  <1> QED
    BY <1>3, <1>4 DEF do_free, At, get_renamed, Writes, LayerGone, l

\* A layer is about to be freed, and what was known through it is forgotten.
LEMMA FreeRoute ==
    ASSUME IInv, IInv', RouteInv, NEW t \in Threads, NEW l \in Layers, Free(t, l)
    PROVE  RouteInv'
  <1> DEFINE c == Call(l, 1, "free")
  <1>1. /\ UNCHANGED <<name, registry, rename, base, renamed, alive, pc, entry>>
        /\ todo[t] = <<>> /\ told' = {x \in told : x.from # l} /\ todo' = [todo EXCEPT ![t] = <<c>>]
        /\ \A k \in alive : Below[k] # l
        /\ \A u \in Threads : \A n \in DOMAIN todo[u] : todo[u][n].from # l
    BY DEF Free, stores
  <1>2. /\ QueuesInv /\ ToldInv /\ NamesInv /\ DOMAIN todo = Threads /\ pc[t] = "call"
        /\ \A u \in Threads : todo[u] \in Seq(Calls(Len(name)))
    BY <1>1, TableFacts DEF RouteInv, IInv, ThreadTypes, PlaceInv, HeadInv
  <1>3. c.op = "free" /\ c.from = l
    BY DEF Call
  <1>4. PICK d, q : d = c /\ q = <<d>>
    OBVIOUS
  <1> HIDE DEF c
  <1>5. Len(q) = 1 /\ q[1] = d /\ 1 .. 1 = {1} /\ d.op = "free" /\ d.from = l
    BY <1>3, <1>4
  <1>6. \A u \in Threads : todo'[u] = IF u = t THEN q ELSE todo[u]
    BY <1>1, <1>2, <1>4
  <1>7. PICK L : L = told'
    OBVIOUS
  <1>8. \A u \in Threads : QueueFits(renamed, alive, rename, L, todo[u])
    <2>1. StoresKept(name, rename, name, rename) /\ Kept(renamed, alive, renamed, alive, l)
      BY DEF StoresKept, Kept
    <2>2. \A x \in told : x.from # l => x \in L
      BY <1>1, <1>7
    <2>3. \A u \in Threads : \A n \in 1 .. Len(todo[u]) : todo[u][n].from # l
      <3> TAKE u \in Threads
      <3>1. DOMAIN todo[u] = 1 .. Len(todo[u])
        BY <1>2
      <3> QED
        BY <1>1, <3>1
    <2> QED
      BY <1>1, <1>2, <2>1, <2>2, <2>3, RoutesKept
  <1>9. QueueFits(renamed, alive, rename, L, q)
    BY <1>5 DEF QueueFits, CallFits, Uses, Registering, Ordered, Typed
  <1>10. QueuesInv'
    <2>1. \A u \in Threads : QueueFits(renamed, alive, rename, L, todo'[u])
      BY <1>6, <1>8, <1>9
    <2> QED
      BY <1>1, <1>7, <2>1 DEF QueuesInv
  <1>11. ToldInv'
    <2>1. \A x \in told' : x \in told /\ x.from # l
      BY <1>1
    <2>2. PlainFits(renamed, alive, rename, L)
      BY <1>2, <1>7, <2>1 DEF ToldInv, PlainFits
    <2>3. PlainFits(renamed, alive, rename, told)'
      BY <1>1, <1>7, <2>2
    <2>4. ASSUME NEW x \in told', NEW u \in Threads, NEW n \in 1 .. Len(todo'[u]),
                 todo'[u][n].op = "free"
          PROVE  todo'[u][n].from # x.from
      <3>1. CASE u = t
        <4>1. todo'[u] = q
          BY <1>6, <3>1
        <4>2. n \in 1 .. Len(q)
          BY <2>4, <4>1
        <4>3. n = 1
          BY <1>5, <4>2
        <4> QED
          BY <1>5, <2>1, <4>1, <4>3
      <3>2. CASE u # t
        <4>1. todo'[u] = todo[u]
          BY <1>6, <3>2
        <4>2. n \in 1 .. Len(todo[u]) /\ todo[u][n].op = "free" /\ x \in told
          BY <2>1, <2>4, <4>1
        <4> QED
          BY <1>2, <4>1, <4>2 DEF ToldInv
      <3> QED
        BY <3>1, <3>2
    <2>5. \A x \in told' : x.from \in Layers /\ x.root \in Roots /\ x.sig \in 0 .. Len(name')
      BY <1>1, <1>2, <2>1 DEF ToldInv
    <2> QED
      BY <2>3, <2>4, <2>5 DEF ToldInv
  <1>12. NamesInv'
    <2>1. pc'[t] # "insert" /\ \A u \in Threads : u # t => todo'[u] = todo[u] /\ pc'[u] = pc[u]
      BY <1>1, <1>2, <1>6
    <2> QED
      BY <1>1, <1>2, <2>1, CallNames
  <1> QED
    BY <1>10, <1>11, <1>12 DEF RouteInv

\* A layer comes: it is on no way, and has no rename.
LEMMA NewRoute ==
    ASSUME IInv, IInv', RouteInv, NEW l \in Layers, New(l)
    PROVE  RouteInv'
  <1>1. /\ UNCHANGED <<name, registry, rename, base, pc, entry, todo, told>>
        /\ alive' = alive \cup {l} /\ l \notin alive
        /\ renamed' = [renamed EXCEPT ![l] = EmptyArray]
    BY DEF New, stores
  <1>2. /\ QueuesInv /\ ToldInv /\ NamesInv /\ renamed \in [Layers -> Arrays] /\ Len(name) \in Nat
        /\ alive \subseteq Layers /\ 0 \notin Layers
    BY TableFacts, LayerFacts DEF RouteInv, IInv, TableTypes
  <1>3. \A k \in Layers : renamed'[k] = IF k = l THEN EmptyArray ELSE renamed[k]
    BY <1>1, <1>2
  <1>4. \A k \in Layers, j \in Nat : Get(renamed'[k], j, 0) # 0 =>
           Get(renamed'[k], j, 0) = Get(renamed[k], j, 0)
    BY <1>3, ArrayFacts
  <1>5. StoresKept(name, rename, name', rename')
    BY <1>1, SameStores
  <1>6. NamesInv'
    BY <1>1, <1>2, <1>4, <1>5, NamesKept
  <1>7. PICK U, B : U = renamed' /\ B = alive'
    OBVIOUS
  <1>8. Kept(renamed, alive, U, B, 0)
    BY <1>1, <1>2, <1>3, <1>7 DEF Kept
  <1>9. /\ \A u \in Threads : QueueFits(U, B, rename, told, todo[u])
        /\ \A x \in told : x.from # 0 /\ x.op = "sample_register" => Routed(U, B, rename, AtPlain(x))
    <2>1. StoresKept(name, rename, name, rename)
      BY DEF StoresKept
    <2> QED
      BY <1>2, <1>8, <2>1, RoutesKept
  <1>10. QueuesInv'
    BY <1>1, <1>7, <1>9 DEF QueuesInv
  <1>11. ToldInv'
    <2>1. \A x \in told : x.from # 0
      BY <1>2 DEF ToldInv
    <2>2. PlainFits(U, B, rename, told)
      BY <1>9, <2>1 DEF PlainFits
    <2>3. PlainFits(renamed, alive, rename, told)'
      BY <1>1, <1>7, <2>2
    <2> QED
      BY <1>1, <1>2, <2>3 DEF ToldInv
  <1> QED
    BY <1>6, <1>10, <1>11 DEF RouteInv

-----------------------------------------------------------------------------
(* The calls of the application.                                           *)

\* Two sequences one after the other.
LEMMA Joined ==
    ASSUME NEW S, NEW x \in Seq(S), NEW y \in Seq(S)
    PROVE  /\ x \o y \in Seq(S) /\ Len(x \o y) = Len(x) + Len(y)
           /\ \A k \in 1 .. Len(x) : (x \o y)[k] = x[k]
           /\ \A k \in 1 .. Len(y) : (x \o y)[Len(x) + k] = y[k]
  <1> DEFINE w == x \o y
  <1>1. w \in Seq(S) /\ Len(x) \in Nat /\ Len(y) \in Nat /\ Len(w) = Len(x) + Len(y)
    OBVIOUS
  <1>2. \A k \in 1 .. Len(x) + Len(y) : w[k] = IF k <= Len(x) THEN x[k] ELSE y[k - Len(x)]
    OBVIOUS
  <1> HIDE DEF w
  <1>3. ASSUME NEW k \in 1 .. Len(y) PROVE w[Len(x) + k] = y[k]
    <2>1. Len(x) + k \in 1 .. Len(x) + Len(y) /\ ~(Len(x) + k <= Len(x)) /\ (Len(x) + k) - Len(x) = k
      BY <1>1
    <2> QED
      BY <1>2, <2>1
  <1>4. ASSUME NEW k \in 1 .. Len(x) PROVE w[k] = x[k]
    <2>1. k \in 1 .. Len(x) + Len(y) /\ k <= Len(x)
      BY <1>1
    <2> QED
      BY <1>2, <2>1
  <1> QED
    BY <1>1, <1>3, <1>4 DEF w

\* A call that the application makes.
LEMMA CallRoute ==
    ASSUME RootsPlain, NEW l \in Layers, l \in alive, NEW s \in Roots, NEW op, op # "free",
           NEW c, c = Call(l, s, op)
    PROVE  /\ c.op = op /\ c.from = l /\ c.root = s /\ c.sig = s
           /\ Routed(renamed, alive, rename, c)
           /\ CallFits(renamed, alive, rename, told, c)
  <1>1. /\ c.op = op /\ c.from = l /\ c.layer = l /\ c.root = s /\ c.sig = s
        /\ c.settled = Known(l, s)
    BY DEF Call
  <1>2. DOMAIN rename \cap Roots = {}
    BY DEF RootsPlain
  <1>3. Routed(renamed, alive, rename, c)
    BY <1>1, <1>2, RoutedStart
  <1>4. c.settled => KnownIn(told, c)
    BY <1>1 DEF Known, KnownIn, Same
  <1> QED
    BY <1>1, <1>3, <1>4 DEF CallFits

\* The calls of a registration: the sample, its type, and the binding of the two.
LEMMA RegisterQueue ==
    ASSUME RootsPlain, NEW l \in Layers, l \in alive, NEW s \in Samples[l], s \in Roots,
           NEW q, NEW N,
           \/ N = 1 /\ q[1].op = "sample_register"
           \/ N = 2 /\ q[1].op = "sample_register" /\ q[2].op = "type_bind"
                /\ l \notin Decoders /\ s \notin Depends
           \/ N = 3 /\ q[1].op = "sample_register" /\ q[2].op = "type_register" /\ q[3].op = "type_bind",
           Len(q) = N, \A n \in 1 .. N : q[n] = Call(l, s, q[n].op)
    PROVE  QueueFits(renamed, alive, rename, told, q)
           /\ \A n \in 1 .. Len(q) : q[n].op # "free"
  <1>1. N \in {1, 2, 3} /\ \A n \in 1 .. N : n \in {1, 2, 3} /\ n <= N
    OBVIOUS
  <1>2. \A n \in 1 .. N : q[n].op # "free"
    BY <1>1
  <1>3. ASSUME NEW n \in 1 .. N
        PROVE  /\ q[n].from = l /\ q[n].root = s /\ q[n].sig = s
               /\ Routed(renamed, alive, rename, q[n])
               /\ CallFits(renamed, alive, rename, told, q[n])
    <2>1. PICK c, op : c = q[n] /\ op = q[n].op
      OBVIOUS
    <2>2. c = Call(l, s, op) /\ op # "free"
      BY <1>2, <2>1
    <2> QED
      BY <2>1, <2>2, CallRoute
  <1>4. \A n \in 1 .. N, m \in 1 .. N : m < n => q[m] \in Before(q, n) /\ Same(q[m], q[n])
    <2> TAKE n \in 1 .. N, m \in 1 .. N
    <2> HAVE m < n
    <2>1. m \in 1 .. n - 1
      OBVIOUS
    <2> QED
      BY <1>3, <2>1 DEF Before, Same
  <1>5. ASSUME NEW n \in 1 .. N
        PROVE  Ordered(told, q, n)
    <2>1. CASE n = 1
      BY <2>1 DEF Ordered
    <2>2. CASE n # 1
      <3>1. 1 \in 1 .. N /\ 1 < n
        BY <1>1, <2>2
      <3> QED
        BY <1>4, <3>1 DEF Ordered
    <2> QED
      BY <2>1, <2>2
  <1>6. ASSUME NEW n \in 1 .. N, AllDepend
        PROVE  Typed(renamed, alive, rename, told, q, n)
    <2>1. CASE q[n].op # "type_bind"
      BY <2>1 DEF Typed
    <2>2. CASE q[n].op = "type_bind"
      <3>1. ~(l \notin Decoders /\ s \notin Depends)
        BY <1>6 DEF AllDepend
      <3>2. N = 3 /\ n = 3 /\ q[2].op = "type_register"
        BY <1>1, <2>2, <3>1
      <3>3. 2 \in 1 .. N /\ 2 < n
        BY <3>2
      <3>4. q[2] \in Before(q, n) /\ Same(q[2], q[n])
        BY <1>4, <3>3
      <3>5. q[2].sig = q[2].root /\ Routed(renamed, alive, rename, q[2])
        BY <1>3, <3>3
      <3> QED
        BY <3>2, <3>4, <3>5 DEF Typed
    <2> QED
      BY <2>1, <2>2
  <1> QED
    BY <1>2, <1>3, <1>5, <1>6 DEF QueueFits

LEMMA UseRoute ==
    ASSUME IInv, IInv', RouteInv, NEW t \in Threads, NEW l \in Layers, NEW s \in Samples[l], Use(t, l, s)
    PROVE  RouteInv'
  <1>1. /\ UNCHANGED <<name, registry, rename, base, renamed, alive, pc, entry, told>>
        /\ todo[t] = <<>> /\ l \in alive
        /\ \A u \in Threads : \A n \in DOMAIN todo[u] :
              todo[u][n].op = "free" => todo[u][n].from # l
    BY DEF Use, stores
  <1>2. /\ QueuesInv /\ ToldInv /\ NamesInv /\ RootsPlain /\ DOMAIN todo = Threads /\ pc[t] = "call"
        /\ s \in Roots
    BY <1>1, LayersAssumption DEF RouteInv, NamesInv, IInv, ThreadTypes, PlaceInv, HeadInv
  <1> DEFINE Good(q) == QueueFits(renamed, alive, rename, told, q)
                        /\ \A n \in 1 .. Len(q) : q[n].op # "free"
  <1>3. \E q : todo' = [todo EXCEPT ![t] = q] /\ Good(q)
    <2>1. CASE RegisterSample(t, l, s)
      <3> DEFINE types == IF s \in Depends THEN <<"type_register">> ELSE <<>>
                 ops   == IF l \in Decoders THEN <<"sample_register">>
                          ELSE <<"sample_register">> \o types \o <<"type_bind">>
                 q     == [n \in DOMAIN ops |-> Call(l, s, ops[n])]
      <3>1. todo' = [todo EXCEPT ![t] = q]
        BY <2>1 DEF RegisterSample
      <3>0. /\ \A x \in OpNames : <<x>> \in Seq(OpNames) /\ Len(<<x>>) = 1 /\ <<x>>[1] = x
            /\ <<>> \in Seq(OpNames) /\ Len(<<>>) = 0
            /\ {"sample_register", "type_register", "type_bind"} \subseteq OpNames
        BY DEF OpNames
      <3>2. \/ Len(ops) = 1 /\ ops[1] = "sample_register"
            \/ Len(ops) = 2 /\ ops[1] = "sample_register" /\ ops[2] = "type_bind"
                 /\ l \notin Decoders /\ s \notin Depends
            \/ Len(ops) = 3 /\ ops[1] = "sample_register" /\ ops[2] = "type_register"
                 /\ ops[3] = "type_bind"
        <4>1. CASE l \in Decoders
          BY <3>0, <4>1
        <4>2. CASE l \notin Decoders
          <5>1. PICK x, y, z : x = <<"sample_register">> /\ y = types /\ z = <<"type_bind">>
            OBVIOUS
          <5>2. /\ x \in Seq(OpNames) /\ Len(x) = 1 /\ x[1] = "sample_register"
                /\ z \in Seq(OpNames) /\ Len(z) = 1 /\ z[1] = "type_bind"
            BY <3>0, <5>1
          <5>3. /\ y \in Seq(OpNames)
                /\ s \in Depends => Len(y) = 1 /\ y[1] = "type_register"
                /\ s \notin Depends => Len(y) = 0
            <6>1. CASE s \in Depends
              BY <3>0, <5>1, <6>1
            <6>2. CASE s \notin Depends
              BY <3>0, <5>1, <6>2
            <6> QED
              BY <6>1, <6>2
          <5>4. ops = (x \o y) \o z
            BY <4>2, <5>1
          <5> HIDE DEF types, ops
          <5>5. PICK w, v : w = x \o y /\ v = w \o z
            OBVIOUS
          <5>6. /\ w \in Seq(OpNames) /\ Len(w) = Len(x) + Len(y)
                /\ \A k \in 1 .. Len(x) : w[k] = x[k]
                /\ \A k \in 1 .. Len(y) : w[Len(x) + k] = y[k]
            BY <5>2, <5>3, <5>5, Joined
          <5>7. /\ Len(v) = Len(w) + Len(z)
                /\ \A k \in 1 .. Len(w) : v[k] = w[k]
                /\ \A k \in 1 .. Len(z) : v[Len(w) + k] = z[k]
            <6>1. w \in Seq(OpNames) /\ z \in Seq(OpNames)
              BY <5>2, <5>6
            <6>2. /\ Len(w \o z) = Len(w) + Len(z)
                  /\ \A k \in 1 .. Len(w) : (w \o z)[k] = w[k]
                  /\ \A k \in 1 .. Len(z) : (w \o z)[Len(w) + k] = z[k]
              BY <6>1, Joined
            <6> QED
              BY <5>5, <6>2
          <5>8. CASE s \in Depends
            <6>1. Len(x) = 1 /\ Len(y) = 1 /\ Len(z) = 1 /\ Len(w) = 2 /\ Len(v) = 3
              <7>1. Len(x) = 1 /\ Len(z) = 1
                BY <5>2
              <7>2. Len(y) = 1
                BY <5>3, <5>8
              <7>3. Len(w) = Len(x) + Len(y)
                BY <5>6
              <7>4. Len(v) = Len(w) + Len(z)
                BY <5>7
              <7> QED
                BY <7>1, <7>2, <7>3, <7>4
            <6>2. w[1] = x[1] /\ w[2] = y[1]
              BY <5>6, <6>1
            <6>3. v[1] = w[1] /\ v[2] = w[2] /\ v[3] = z[1]
              BY <5>7, <6>1
            <6> QED
              BY <5>2, <5>3, <5>4, <5>5, <5>8, <6>1, <6>2, <6>3
          <5>9. CASE s \notin Depends
            <6>1. Len(x) = 1 /\ Len(y) = 0 /\ Len(z) = 1 /\ Len(w) = 1 /\ Len(v) = 2
              <7>1. Len(x) = 1 /\ Len(z) = 1
                BY <5>2
              <7>2. Len(y) = 0
                BY <5>3, <5>9
              <7>3. Len(w) = Len(x) + Len(y)
                BY <5>6
              <7>4. Len(v) = Len(w) + Len(z)
                BY <5>7
              <7> QED
                BY <7>1, <7>2, <7>3, <7>4
            <6>2. w[1] = x[1]
              BY <5>6, <6>1
            <6>3. v[1] = w[1] /\ v[2] = z[1]
              BY <5>7, <6>1
            <6> QED
              BY <4>2, <5>2, <5>4, <5>5, <5>9, <6>1, <6>2, <6>3
          <5> QED
            BY <5>8, <5>9
        <4> QED
          BY <4>1, <4>2
      <3>3. DOMAIN ops = 1 .. Len(ops) /\ Len(ops) \in Nat
        <4>1. /\ <<"sample_register">> \in Seq(OpNames) /\ <<"type_bind">> \in Seq(OpNames)
              /\ types \in Seq(OpNames)
          BY <3>0
        <4> HIDE DEF types
        <4>2. ops \in Seq(OpNames)
          BY <4>1
        <4> HIDE DEF ops
        <4> QED
          BY <4>2
      <3> HIDE DEF ops
      <3>4. DOMAIN q = 1 .. Len(ops) /\ Len(q) = Len(ops)
            /\ \A n \in 1 .. Len(ops) : q[n] = Call(l, s, ops[n])
        BY <3>3
      <3> HIDE DEF q
      <3>5. \A n \in 1 .. Len(ops) : q[n].op = ops[n]
        BY <3>4 DEF Call
      <3>6. \A n \in 1 .. Len(q) : q[n] = Call(l, s, q[n].op)
        BY <3>4, <3>5
      <3>7. \/ Len(q) = 1 /\ q[1].op = "sample_register"
            \/ Len(q) = 2 /\ q[1].op = "sample_register" /\ q[2].op = "type_bind"
                 /\ l \notin Decoders /\ s \notin Depends
            \/ Len(q) = 3 /\ q[1].op = "sample_register" /\ q[2].op = "type_register"
                 /\ q[3].op = "type_bind"
        BY <3>2, <3>4, <3>5
      <3>8. Good(q)
        BY <1>1, <1>2, <3>6, <3>7, RegisterQueue
      <3> QED
        BY <3>1, <3>8
    <2>2. CASE \E op \in Ops[l] : Other(t, l, s, op)
      <3>1. PICK op \in Ops[l] : todo' = [todo EXCEPT ![t] = <<Call(l, s, op)>>]
        BY <2>2 DEF Other
      <3>2. op \in {"ref_register", "encode", "ioctl", "ref_get"}
        BY LayersAssumption
      <3>3. PICK c, q : c = Call(l, s, op) /\ q = <<c>>
        OBVIOUS
      <3>4. c.op = op /\ CallFits(renamed, alive, rename, told, c)
        BY <1>1, <1>2, <3>2, <3>3, CallRoute
      <3>5. \A n \in 1 .. Len(q) : q[n] = c
        BY <3>3
      <3>6. QueueFits(renamed, alive, rename, told, q)
        BY <3>2, <3>4, <3>5 DEF QueueFits, Ordered, Typed
      <3>7. Good(q)
        BY <3>2, <3>4, <3>5, <3>6
      <3> QED
        BY <3>1, <3>3, <3>7
    <2> QED
      BY <2>1, <2>2 DEF Use
  <1>4. PICK q : todo' = [todo EXCEPT ![t] = q] /\ Good(q)
    BY <1>3
  <1>5. \A u \in Threads : todo'[u] = IF u = t THEN q ELSE todo[u]
    BY <1>2, <1>4
  <1>6. QueuesInv'
    <2>1. \A u \in Threads : QueueFits(renamed, alive, rename, told, todo'[u])
      BY <1>2, <1>4, <1>5 DEF QueuesInv
    <2> QED
      BY <1>1, <2>1 DEF QueuesInv
  <1>7. ToldInv'
    <2>1. PlainFits(renamed, alive, rename, told)'
      BY <1>1, <1>2 DEF ToldInv
    <2>2. ASSUME NEW x \in told, NEW u \in Threads, NEW n \in 1 .. Len(todo'[u]), todo'[u][n].op = "free"
          PROVE  todo'[u][n].from # x.from
      <3>1. u # t
        BY <1>4, <1>5, <2>2
      <3>2. todo'[u] = todo[u]
        BY <1>5, <3>1
      <3>3. n \in 1 .. Len(todo[u]) /\ todo[u][n].op = "free"
        BY <2>2, <3>2
      <3> QED
        BY <1>2, <3>2, <3>3 DEF ToldInv
    <2> QED
      BY <1>1, <1>2, <2>1, <2>2 DEF ToldInv
  <1>8. NamesInv'
    <2>1. pc'[t] # "insert" /\ \A u \in Threads : u # t => todo'[u] = todo[u] /\ pc'[u] = pc[u]
      BY <1>1, <1>2, <1>5
    <2> QED
      BY <1>1, <1>2, <2>1, CallNames
  <1> QED
    BY <1>6, <1>7, <1>8 DEF RouteInv

\* RouteInv is inductive relative to IInv.
LEMMA InitRoute == Init => RouteInv
  <1> SUFFICES ASSUME Init
               PROVE  RouteInv
    OBVIOUS
  <1>1. /\ \A l \in Layers : renamed[l] = EmptyArray
        /\ \A t \in Threads : todo[t] = <<>> /\ entry[t] = 0 /\ pc[t] = "call"
        /\ told = {} /\ DOMAIN rename = {}
    BY DEF Init
  <1>2. \A l \in Layers, i \in Nat : Get(renamed[l], i, 0) = 0
    BY <1>1, ArrayFacts
  <1>3. NamesInv
    BY <1>1, <1>2 DEF NamesInv, TablesFit, EntriesFit, BaseFits, RootsPlain
  <1>4. QueuesInv
    <2>1. \A t \in Threads : \A n : n \notin 1 .. Len(todo[t])
      BY <1>1
    <2> QED
      BY <2>1 DEF QueuesInv, QueueFits
  <1>5. ToldInv
    BY <1>1 DEF ToldInv, PlainFits
  <1> QED
    BY <1>3, <1>4, <1>5 DEF RouteInv

LEMMA NextRoute == IInv /\ IInv' /\ RouteInv /\ [Next]_vars => RouteInv'
  <1> SUFFICES ASSUME IInv, IInv', RouteInv, [Next]_vars
               PROVE  RouteInv'
    OBVIOUS
  <1>1. CASE UNCHANGED vars
    <2>1. UNCHANGED <<name, registry, rename, base, renamed, alive, lock, pc, entry, todo, told>>
      BY <1>1 DEF vars, stores
    <2>2. NamesInv'
      BY <2>1 DEF RouteInv, NamesInv, TablesFit, EntriesFit, BaseFits, RootsPlain
    <2>3. StoresKept(name, rename, name', rename') /\ Len(name) \in Nat
      BY <2>1, SameStores, TableFacts
    <2> QED
      BY <2>1, <2>2, <2>3, WithinRoute
  <1>2. ASSUME NEW t \in Threads, Step(t)
        PROVE  RouteInv'
    BY <1>2, LookupRoute, PlainRoute, RenameNewRoute, InsertRoute, StoreRoute, GiveBackRoute,
       DoFreeRoute DEF Step
  <1>3. ASSUME NEW t \in Threads, NEW l \in Layers, Free(t, l)
        PROVE  RouteInv'
    BY <1>3, FreeRoute
  <1>4. ASSUME NEW t \in Threads, NEW l \in Layers, NEW s \in Samples[l], Use(t, l, s)
        PROVE  RouteInv'
    BY <1>4, UseRoute
  <1>5. ASSUME NEW l \in Layers, New(l)
        PROVE  RouteInv'
    BY <1>5, NewRoute
  <1> QED
    BY <1>1, <1>2, <1>3, <1>4, <1>5 DEF Next

-----------------------------------------------------------------------------
(* What follows from RouteInv.                                             *)

\* RouteInv says where each call has come to: RoutesAgree and BoundTypeDeclared.
LEMMA RouteAgrees == IInv /\ RouteInv => RoutesAgree
  <1> SUFFICES ASSUME IInv, RouteInv
               PROVE  RoutesAgree
    OBVIOUS
  <1>1. /\ QueuesInv /\ ToldInv /\ TablesFit /\ alive \subseteq Layers /\ 0 \notin Layers
        /\ \A t \in Threads : todo[t] \in Seq(Calls(Len(name)))
        /\ Len(name) \in Nat
    BY TableFacts, LayerFacts DEF RouteInv, NamesInv, IInv, ThreadTypes
  <1>2. ASSUME NEW t \in Threads, todo[t] # <<>>,
               Head(todo[t]).layer = 0, Head(todo[t]).op # "type_register",
               Head(todo[t]).settled \/ Head(todo[t]).op \in Registering \cup {"type_bind"}
        PROVE  Head(todo[t]).sig = Resolved(Head(todo[t]).from, Head(todo[t]).root)
    <2>1. PICK q, c : q = todo[t] /\ c = Head(q)
      OBVIOUS
    <2>2. q \in Seq(Calls(Len(name))) /\ 1 \in 1 .. Len(q) /\ c = q[1]
          /\ QueueFits(renamed, alive, rename, told, q)
      BY <1>1, <1>2, <2>1 DEF QueuesInv
    <2>3. c \in Calls(Len(name))
      BY <2>2
    <2>4. c.op # "free"
      BY <1>1, <1>2, <2>1, <2>3 DEF Calls
    <2>5. Uses(c)
      BY <1>2, <2>1, <2>4 DEF Uses
    <2>6. Routed(renamed, alive, rename, c)
      BY <2>2, <2>5 DEF QueueFits, CallFits
    <2>7. c.layer = 0
      BY <1>2, <2>1
    <2>8. c.sig = Resolved(c.from, c.root)
      BY <2>6, <2>7, RoutedResolved
    <2> QED
      BY <2>1, <2>8
  <1>3. ASSUME NEW x \in told, x.op = "sample_register"
        PROVE  /\ x.sig = Resolved(x.from, x.root)
               /\ x.sig \in DOMAIN rename
               /\ rename[x.sig].base = x.root
    <2>1. PICK c : c = AtPlain(x)
      OBVIOUS
    <2>2. c.from = x.from /\ c.root = x.root /\ c.layer = 0 /\ c.sig = x.sig
      BY <2>1 DEF AtPlain
    <2>3. Routed(renamed, alive, rename, c)
      BY <1>1, <1>3, <2>1 DEF ToldInv, PlainFits
    <2>4. c.sig = Resolved(c.from, c.root)
      BY <2>2, <2>3, RoutedResolved
    <2>5. c.from \in Layers /\ c.sig # 0 /\ (c.sig \in DOMAIN rename => rename[c.sig].base = c.root)
      BY <2>3 DEF Routed
    <2>6. PICK k \in alive, j \in Nat \ {0} : c.sig = Get(renamed[k], j, 0)
      <3>1. \/ c.layer = c.from /\ c.sig = c.root
            \/ \E k \in alive, j \in Nat \ {0} :
                 Below[k] = c.layer /\ c.sig = Get(renamed[k], j, 0)
        BY <1>1, <2>3, RoutedHeld
      <3> QED
        BY <1>1, <2>2, <2>5, <3>1
    <2>7. c.sig \in DOMAIN rename
      BY <1>1, <2>5, <2>6 DEF IInv, RefInv
    <2> QED
      BY <2>2, <2>4, <2>5, <2>7
  <1>4. ASSUME NEW l \in alive, NEW i \in Keys(renamed[l])
        PROVE  name[get_renamed(l, i)] = NewName(l, name[i])
    <2>1. renamed[l] \in Arrays /\ l \in Layers
      BY <1>1 DEF IInv, TableTypes
    <2>2. i \in Nat /\ Get(renamed[l], i, 0) # 0
      BY <2>1, ArrayFacts
    <2> QED
      BY <1>1, <2>1, <2>2 DEF TablesFit, Fits, get_renamed
  <1> QED
    BY <1>2, <1>3, <1>4 DEF RoutesAgree

LEMMA BoundDeclared == AllDepend => (IInv /\ RouteInv => BoundTypeDeclared)
  <1> SUFFICES ASSUME AllDepend, IInv, RouteInv, NEW t \in Threads, todo[t] # <<>>,
                      Head(todo[t]).layer = 0, Head(todo[t]).op = "type_bind"
               PROVE  {Head(todo[t]).sig, Head(todo[t]).root}
                        \subseteq {x.sig : x \in {y \in told : y.op = "type_register"}}
    BY DEF BoundTypeDeclared
  <1>1. PICK q, c : q = todo[t] /\ c = Head(q)
    OBVIOUS
  <1>2. q \in Seq(Calls(Len(name))) /\ 1 \in 1 .. Len(q) /\ c = q[1]
        /\ QueueFits(renamed, alive, rename, told, q)
    BY <1>1 DEF RouteInv, QueuesInv, IInv, ThreadTypes
  <1>3. c.op = "type_bind" /\ c.layer = 0
    BY <1>1
  <1>4. Routed(renamed, alive, rename, c)
    BY <1>2, <1>3 DEF QueueFits, CallFits, Uses
  <1>5. /\ \E x \in told : x.op = "type_register" /\ Same(x, c) /\ x.sig = x.root
        /\ \E x \in told : /\ x.op = "type_register" /\ Same(x, c)
                           /\ Routed(renamed, alive, rename, AtPlain(x))
    <2>1. Typed(renamed, alive, rename, told, q, 1)
      BY <1>2 DEF QueueFits
    <2>2. \A d : d \notin Before(q, 1)
      BY BeforeFirst
    <2> QED
      BY <1>2, <1>3, <2>1, <2>2 DEF Typed
  <1>6. PICK x \in told : x.op = "type_register" /\ x.sig = c.root
    BY <1>5 DEF Same
  <1>7. PICK y \in told : y.op = "type_register" /\ y.sig = c.sig
    <2>1. PICK y \in told : /\ y.op = "type_register" /\ Same(y, c)
                            /\ Routed(renamed, alive, rename, AtPlain(y))
      BY <1>5
    <2>2. PICK d : d = AtPlain(y)
      OBVIOUS
    <2>3. d.layer = 0 /\ d.from = c.from /\ d.root = c.root /\ d.sig = y.sig
      BY <2>1, <2>2 DEF AtPlain, Same
    <2>4. Routed(renamed, alive, rename, d)
      BY <2>1, <2>2
    <2>5. c.sig = d.sig
      BY <1>3, <1>4, <2>3, <2>4, RoutesMeet
    <2> QED
      BY <2>1, <2>3, <2>5
  <1> QED
    BY <1>1, <1>6, <1>7

-----------------------------------------------------------------------------
(* The theorems.                                                           *)

\* The inductive invariant holds of every behaviour.
THEOREM RenamingInvariant == Spec => []IInv
  BY InitInv, NextInv, PTL DEF Spec

\* A rename is freed by its last user and not before (use_count of
\* labcomm2014_renaming_registry.c): its count is the number of table entries of all
\* layers, and of threads on their way through set_renamed, that refer to it, and nothing
\* refers to a rename that is gone.
THEOREM UseCountsExactCorrect == Spec => []UseCountsExact
  BY RenamingInvariant, InvCounts, PTL

\* Outside the data lock the registry holds exactly the live renames and what they are
\* renames of, each in the list of its base and in no other, under one name each
\* (labcomm2014_renaming_rename_new and labcomm2014_renaming_rename_free).
THEOREM RegistryExactCorrect == Spec => []RegistryExact
  BY RenamingInvariant, InvRegistry, PTL

\* The routes of the calls and the names of the renames hold of every behaviour.
THEOREM RenamingRoutes == Spec => []RouteInv
  <1>1. Spec => []IInv
    BY RenamingInvariant
  <1>2. Init => RouteInv
    BY InitRoute
  <1>3. IInv /\ IInv' /\ RouteInv /\ [Next]_vars => RouteInv'
    BY NextRoute
  <1> QED
    BY <1>1, <1>2, <1>3, PTL DEF Spec

\* Whichever thread makes a call and whatever other threads and layers are doing, the calls
\* for one signature through one stack of layers reach the plain encoder or decoder with
\* one and the same live rename of it, under the names the layers' rename functions give
\* (get_renamed and set_renamed of labcomm2014_renaming_encoder.c and
\* labcomm2014_renaming_decoder.c).
THEOREM RoutesAgreeCorrect == Spec => []RoutesAgree
  BY RenamingRoutes, RenamingInvariant, RouteAgrees, PTL

\* If every sample the encoder layers are used for depends on a typedef, each TYPE_BINDING
\* binds to types that were declared before (do_type_register and do_type_bind of
\* labcomm2014_renaming_encoder.c).
THEOREM BoundTypeDeclaredCorrect ==
    ASSUME AllDepend
    PROVE  Spec => []BoundTypeDeclared
  <1>1. IInv /\ RouteInv => BoundTypeDeclared
    BY BoundDeclared
  <1> QED
    BY <1>1, RenamingRoutes, RenamingInvariant, PTL
=============================================================================
