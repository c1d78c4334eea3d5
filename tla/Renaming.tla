------------------------------ MODULE Renaming ------------------------------
(* The renaming layers of labcomm2014_renaming_encoder.c and               *)
(* labcomm2014_renaming_decoder.c on top of a plain encoder or decoder,    *)
(* and the registry of renamed signatures that they share                  *)
(* (labcomm2014_renaming_registry.c).                                      *)
(*                                                                         *)
(* A signature is known by its local index.  Application signatures have   *)
(* the indices 1 to NRoots; every renamed signature takes a fresh one.     *)
(* Layer l sits on layer Below[l], a lower number, and on the plain        *)
(* encoder or decoder if that is 0.  A name is a sequence of parts.        *)
(*                                                                         *)
(* A call into a layer turns into calls into the layer below it, which the *)
(* thread keeps as a list of calls still to be made.  The registry is      *)
(* guarded by the scheduler's data lock, an encoder layer's table by the   *)
(* writer lock, and a decoder layer's table by the data lock.              *)
EXTENDS Naturals, Sequences, FiniteSets, Functions, SignatureArray

Lists == INSTANCE SequencesExt

CONSTANTS
    Threads,
    NoThread,       \* nobody holds the lock
    NRoots,         \* number of application signatures
    Depends,        \* those of them that depend on a typedef
    Below,          \* a sequence: the layer under each layer
    Decoders,       \* the layers that are decoders
    Suffixes,       \* the layers that add their affix at the end
    Affix,          \* the affix each layer adds
    Users,          \* the threads that call each layer
    Samples,        \* the signatures each layer is used for
    Ops,            \* what each is called for, apart from registering samples
    MaxLives        \* how often each layer is created

Roots  == 1 .. NRoots
Layers == DOMAIN Below

ASSUME LayersAssumption ==
    /\ NRoots \in Nat \ {0}
    /\ Depends \subseteq Roots
    /\ IsFiniteSet(Threads) /\ NoThread \notin Threads
    /\ Below \in Seq(Nat)
    /\ \A l \in Layers : Below[l] < l
    /\ Decoders \subseteq Layers /\ Suffixes \subseteq Layers
    /\ \A l \in Layers : Below[l] # 0 => (l \in Decoders <=> Below[l] \in Decoders)
    /\ Users \in [Layers -> SUBSET Threads]
    /\ Samples \in [Layers -> SUBSET Roots]
    /\ Ops \in [Layers -> SUBSET {"ref_register", "encode", "ioctl", "ref_get"}]
    /\ MaxLives \in [Layers -> Nat]

VARIABLES
    name,           \* the names of the signatures, by index
    registry,       \* index -> [base, renames], for the entries that exist
    rename,         \* index -> [use_count, base], for the renames that exist
    renamed,        \* layer -> signature array of the indices of the renames
    alive,          \* the layers that exist
    lives,          \* how often each layer was created
    lock,           \* who holds the writer and the data lock
    base,           \* the static variable of rename_new
    pc,             \* thread -> where in set_renamed it is
    entry,          \* thread -> the rename that rename_new gave it
    todo,           \* thread -> the calls it has still to make
    told            \* what the plain encoders and decoders have been told

stores == <<name, registry, rename, base>>
vars == <<stores, renamed, alive, lives, lock, pc, entry, todo, told>>

\* The next local index to hand out: indices are never reused.
local_index == Len(name) + 1

Registering == {"sample_register", "ref_register"}

-----------------------------------------------------------------------------
(* Names and locks.                                                        *)

\* labcomm2014_renaming_prefix, and labcomm2014_renaming_suffix, which is the
\* former with its arguments exchanged.
NewName(l, n) == IF l \in Suffixes THEN n \o <<Affix[l]>> ELSE <<Affix[l]>> \o n

\* The lock around a layer's table.
LockOf_Fault(l) == "data"
LockOf(l) == IF l \in Decoders THEN "data" ELSE "writer"

Unlocked(k) == lock[k] = NoThread

\* get_renamed: 0 stands for NULL.
get_renamed(l, i) == Get(renamed[l], i, 0)

-----------------------------------------------------------------------------
(* What a layer asks of the layer below, given the rename g of the         *)
(* signature.                                                              *)

To(c, i) == [c EXCEPT !.layer = Below[@], !.sig = i]

do_type_register_Fault(c, g) == IF g = 0 THEN <<To(c, c.sig)>> ELSE <<To(c, g)>>
do_type_register(c, g) ==
    IF g = 0 THEN <<To(c, c.sig)>> ELSE <<To(c, c.sig), To(c, g)>>

do_type_bind(c, g) ==
    IF g = 0 THEN <<To(c, c.sig)>> ELSE <<[To(c, g) EXCEPT !.has_deps = TRUE]>>

do_encode(c, g) == IF g = 0 THEN <<>> ELSE <<To(c, g)>>

do_ioctl(c, g) == <<To(c, IF g = 0 /\ c.layer \notin Decoders THEN c.sig ELSE g)>>

do_ref_get(c, g) == <<To(c, IF g = 0 THEN c.sig ELSE g)>>

Passed(c, g) ==
    CASE c.op = "type_register" -> do_type_register(c, g)
      [] c.op = "type_bind"     -> do_type_bind(c, g)
      [] c.op = "encode"        -> do_encode(c, g)
      [] c.op = "ioctl"         -> do_ioctl(c, g)
      [] c.op = "ref_get"       -> do_ref_get(c, g)
      [] OTHER                  -> <<To(c, g)>>

\* Thread t goes on with what its current call asks of the layer below.
Go(t, g) == todo' = [todo EXCEPT ![t] = Passed(Head(@), g) \o Tail(@)]

-----------------------------------------------------------------------------
(* The registry.                                                           *)

\* registry_new: the entry of a signature, made unless it exists.
registry_new(reg, i, b) ==
    IF i \in DOMAIN reg THEN reg
    ELSE [j \in DOMAIN reg \cup {i} |-> IF j = i THEN [base |-> b, renames |-> <<>>] ELSE reg[j]]

\* The renames in the list of base entry b that have name n.
Named_Fault(b, n) == Range(registry[b].renames)
Named(b, n) == {r \in Range(registry[b].renames) : name[r] = n}

\* labcomm2014_renaming_rename_free, under the data lock.
rename_free_Base(r) ==
    IF rename[r].use_count > 1
    THEN /\ rename' = [rename EXCEPT ![r].use_count = @ - 1]
         /\ UNCHANGED registry
    ELSE LET b    == rename[r].base
             left == Lists!RemoveFirst(registry[b].renames, r)
         IN  /\ registry' = [j \in DOMAIN registry \ {r} |->
                                IF j = b THEN [registry[b] EXCEPT !.renames = left]
                                         ELSE registry[j]]
             /\ rename' = Restrict(rename, DOMAIN rename \ {r})
rename_free(r) ==
    IF rename[r].use_count > 1
    THEN /\ rename' = [rename EXCEPT ![r].use_count = @ - 1]
         /\ UNCHANGED registry
    ELSE LET b    == rename[r].base
             left == Lists!RemoveFirst(registry[b].renames, r)
             gone == IF left = <<>> THEN {r, b} ELSE {r}
         IN  /\ registry' = [j \in DOMAIN registry \ gone |->
                                IF j = b THEN [registry[b] EXCEPT !.renames = left]
                                         ELSE registry[j]]
             /\ rename' = Restrict(rename, DOMAIN rename \ {r})

-----------------------------------------------------------------------------
(* The steps of a thread inside a layer.                                   *)

At(t, p) == pc[t] = p /\ todo[t] # <<>>

\* The calls that only look the signature up in the layer's table.
Lookup(t) ==
    /\ At(t, "call")
    /\ LET c == Head(todo[t]) IN
         /\ c.layer # 0
         /\ c.op \notin Registering \cup {"free"}
         /\ Unlocked(LockOf(c.layer))
         /\ Go(t, get_renamed(c.layer, c.sig))
    /\ UNCHANGED <<stores, renamed, alive, lives, lock, pc, entry, told>>

\* set_renamed as far as its call of rename_new.
SetRenamed(t) ==
    /\ At(t, "call")
    /\ LET c == Head(todo[t])
           g == get_renamed(c.layer, c.sig)
       IN  /\ c.layer # 0
           /\ c.op \in Registering
           /\ Unlocked(LockOf(c.layer))
           /\ \/ g # 0 /\ Go(t, g) /\ UNCHANGED pc
              \/ g = 0 /\ pc' = [pc EXCEPT ![t] = "rename_new"] /\ UNCHANGED todo
    /\ UNCHANGED <<stores, renamed, alive, lives, lock, entry, told>>

\* rename_new takes the data lock and finds the base entry, its own or the one
\* of the signature that this one is a rename of.
RenameNew(t) ==
    /\ At(t, "rename_new")
    /\ Unlocked("data")
    /\ lock' = [lock EXCEPT !["data"] = t]
    /\ LET i == Head(todo[t]).sig IN
         /\ registry' = registry_new(registry, i, 0)
         /\ base' = IF registry'[i].base # 0 THEN registry'[i].base ELSE i
    /\ pc' = [pc EXCEPT ![t] = "insert"]
    /\ UNCHANGED <<name, rename, renamed, alive, lives, entry, todo, told>>

\* rename_new looks for a rename with the new name, makes it unless there is
\* one, counts the use, and unlocks.
Insert_Fault(t) ==
    /\ At(t, "insert")
    /\ LET c     == Head(todo[t])
           n     == NewName(c.layer, name[c.sig])
           found == Named(base, n)
       IN  /\ entry' = [entry EXCEPT ![t] =
                           IF found = {} THEN local_index ELSE CHOOSE r \in found : TRUE]
           /\ \/ /\ found # {}
                 /\ UNCHANGED <<rename, registry, name>>
              \/ /\ found = {}
                 /\ name' = Append(name, n)
                 /\ registry' = [registry_new(registry, local_index, base)
                                   EXCEPT ![base].renames = Append(@, local_index)]
                 /\ rename' = [j \in DOMAIN rename \cup {local_index} |->
                       IF j = local_index THEN [use_count |-> 1, base |-> base] ELSE rename[j]]
    /\ lock' = [lock EXCEPT !["data"] = NoThread]
    /\ pc' = [pc EXCEPT ![t] = "store"]
    /\ UNCHANGED <<base, renamed, alive, lives, todo, told>>
Insert(t) ==
    /\ At(t, "insert")
    /\ LET c     == Head(todo[t])
           n     == NewName(c.layer, name[c.sig])
           found == Named(base, n)
       IN  \/ \E r \in found :
                /\ entry' = [entry EXCEPT ![t] = r]
                /\ rename' = [rename EXCEPT ![r].use_count = @ + 1]
                /\ UNCHANGED <<registry, name>>
           \/ /\ found = {}
              /\ entry' = [entry EXCEPT ![t] = local_index]
              /\ name' = Append(name, n)
              /\ registry' = [registry_new(registry, local_index, base)
                                EXCEPT ![base].renames = Append(@, local_index)]
              /\ rename' = [j \in DOMAIN rename \cup {local_index} |->
                    IF j = local_index THEN [use_count |-> 1, base |-> base] ELSE rename[j]]
    /\ lock' = [lock EXCEPT !["data"] = NoThread]
    /\ pc' = [pc EXCEPT ![t] = "store"]
    /\ UNCHANGED <<base, renamed, alive, lives, todo, told>>

\* set_renamed stores the rename in the layer's table; if another thread was
\* first, the rename has to be given back before the table is unlocked.
Store(t) ==
    /\ At(t, "store")
    /\ LET c == Head(todo[t]) IN
         /\ Unlocked(LockOf(c.layer))
         /\ \/ /\ get_renamed(c.layer, c.sig) # 0
               /\ lock' = [lock EXCEPT ![LockOf(c.layer)] = t]
               /\ pc' = [pc EXCEPT ![t] = "rename_free"]
               /\ UNCHANGED <<renamed, entry, todo>>
            \/ /\ get_renamed(c.layer, c.sig) = 0
               /\ renamed' = [renamed EXCEPT ![c.layer] = Put(@, c.sig, entry[t])]
               /\ pc' = [pc EXCEPT ![t] = "call"]
               /\ entry' = [entry EXCEPT ![t] = 0]
               /\ Go(t, entry[t])
               /\ UNCHANGED lock
    /\ UNCHANGED <<stores, alive, lives, told>>

\* The second thread's rename_free, which locks the data lock, and its unlock.
GiveBack(t) ==
    /\ At(t, "rename_free")
    /\ Unlocked("data")
    /\ rename_free(entry[t])
    /\ LET c == Head(todo[t]) IN
         /\ lock' = [lock EXCEPT ![LockOf(c.layer)] = NoThread]
         /\ Go(t, get_renamed(c.layer, c.sig))
    /\ pc' = [pc EXCEPT ![t] = "call"]
    /\ entry' = [entry EXCEPT ![t] = 0]
    /\ UNCHANGED <<name, base, renamed, alive, lives, told>>

\* do_free: the renames of the table are given back in order of their index,
\* then the layer is gone.
do_free(t) ==
    /\ At(t, "call")
    /\ LET l == Head(todo[t]).layer
           d == Keys(renamed[l])
       IN  /\ Head(todo[t]).op = "free"
           /\ \/ \E i \in d :
                   /\ \A j \in d : i <= j
                   /\ Unlocked("data")
                   /\ rename_free(get_renamed(l, i))
                   /\ renamed' = [renamed EXCEPT ![l] = Put(@, i, 0)]
                   /\ UNCHANGED <<alive, todo>>
              \/ /\ d = {}
                 /\ alive' = alive \ {l}
                 /\ todo' = [todo EXCEPT ![t] = Tail(@)]
                 /\ UNCHANGED <<registry, rename, renamed>>
    /\ UNCHANGED <<name, base, lives, lock, pc, entry, told>>

\* The plain encoder or decoder is called.  What it is told of samples and
\* types is remembered, with the call of the application it came from.
PlainCall(t) ==
    /\ At(t, "call")
    /\ LET c == Head(todo[t]) IN
         /\ c.layer = 0
         /\ told' = IF c.op \in {"sample_register", "type_register"}
                      THEN told \cup {[op |-> c.op, sig |-> c.sig, from |-> c.from, root |-> c.root]}
                      ELSE told
    /\ todo' = [todo EXCEPT ![t] = Tail(@)]
    /\ UNCHANGED <<stores, renamed, alive, lives, lock, pc, entry>>

Step(t) ==
    \/ Lookup(t) \/ SetRenamed(t) \/ RenameNew(t) \/ Insert(t) \/ Store(t)
    \/ GiveBack(t) \/ do_free(t) \/ PlainCall(t)

-----------------------------------------------------------------------------
(* The application.                                                        *)

\* A registration of root s through layer l has reached the plain encoder.
Known(l, s) == \E x \in told : x.op = "sample_register" /\ x.from = l /\ x.root = s

Call(l, s, op) ==
    [op |-> op, layer |-> l, sig |-> s, from |-> l, root |-> s,
     has_deps |-> op = "type_bind" /\ s \in Depends, settled |-> Known(l, s)]

\* A registration of a sample: the functions the compiler generates.  The type
\* is registered only if the sample depends on a typedef.
RegisterSample(t, l, s) ==
    LET types == IF s \in Depends THEN <<"type_register">> ELSE <<>>
        ops   == IF l \in Decoders THEN <<"sample_register">>
                 ELSE <<"sample_register">> \o types \o <<"type_bind">>
    IN  todo' = [todo EXCEPT ![t] = [n \in DOMAIN ops |-> Call(l, s, ops[n])]]

\* A decoder layer has no encode, and its ioctl is for registered samples only.
Other(t, l, s, op) ==
    /\ l \in Decoders => op # "encode" /\ (op = "ioctl" => Known(l, s))
    /\ todo' = [todo EXCEPT ![t] = <<Call(l, s, op)>>]

Use(t, l, s) ==
    /\ todo[t] = <<>>
    /\ l \in alive
    /\ t \in Users[l]
    /\ \A u \in Threads : \A n \in DOMAIN todo[u] :
          todo[u][n].op = "free" => todo[u][n].from # l
    /\ RegisterSample(t, l, s) \/ \E op \in Ops[l] : Other(t, l, s, op)
    /\ UNCHANGED <<stores, renamed, alive, lives, lock, pc, entry, told>>

\* labcomm2014_renaming_encoder_new and labcomm2014_renaming_decoder_new.
New(l) ==
    /\ l \notin alive
    /\ Below[l] # 0 => Below[l] \in alive
    /\ \A u \in Threads : \A n \in DOMAIN todo[u] : todo[u][n].op # "free"
    /\ lives[l] < MaxLives[l]
    /\ alive' = alive \cup {l}
    /\ lives' = [lives EXCEPT ![l] = @ + 1]
    /\ renamed' = [renamed EXCEPT ![l] = EmptyArray]
    /\ UNCHANGED <<stores, lock, pc, entry, todo, told>>

\* A layer is freed when nobody is using it and no other layer sits on it.
Free(t, l) ==
    /\ todo[t] = <<>>
    /\ l \in alive
    /\ t \in Users[l]
    /\ \A k \in alive : Below[k] # l
    /\ \A u \in Threads : \A n \in DOMAIN todo[u] : todo[u][n].from # l
    /\ todo' = [todo EXCEPT ![t] = <<Call(l, 1, "free")>>]
    /\ told' = {x \in told : x.from # l}
    /\ UNCHANGED <<stores, renamed, alive, lives, lock, pc, entry>>

Init ==
    /\ name = [i \in Roots |-> <<i>>]
    /\ registry = <<>>
    /\ rename = <<>>
    /\ renamed = [l \in Layers |-> EmptyArray]
    /\ alive = {}
    /\ lives = [l \in Layers |-> 0]
    /\ lock = [k \in {"writer", "data"} |-> NoThread]
    /\ base = 0
    /\ pc = [t \in Threads |-> "call"]
    /\ entry = [t \in Threads |-> 0]
    /\ todo = [t \in Threads |-> <<>>]
    /\ told = {}

Next ==
    \/ \E t \in Threads : Step(t)
    \/ \E t \in Threads, l \in Layers : Free(t, l) \/ \E s \in Samples[l] : Use(t, l, s)
    \/ \E l \in Layers : New(l)

Spec == Init /\ [][Next]_vars
FairSpec == Spec /\ \A t \in Threads : WF_vars(Step(t))

-----------------------------------------------------------------------------
(* Properties.                                                             *)

Indices == 1 .. Len(name)

\* Types: every entry, rename and table is about signatures that have an
\* index, and a use count (renaming_registry.c:42) is never negative.
TypeOK ==
    /\ \A i \in Indices : name[i] # <<>>
    /\ DOMAIN registry \subseteq Indices
    /\ \A i \in DOMAIN registry :
          /\ registry[i].base \in 0 .. Len(name)
          /\ Range(registry[i].renames) \subseteq Indices
    /\ DOMAIN rename \subseteq Indices \ Roots
    /\ \A r \in DOMAIN rename : rename[r].use_count \in Nat /\ rename[r].base \in Roots
    /\ \A l \in Layers : Keys(renamed[l]) \cup Range(renamed[l].data) \subseteq Indices \cup {0}
    /\ alive \subseteq Layers
    /\ lock \in [{"writer", "data"} -> Threads \cup {NoThread}]
    /\ base \in 0 .. NRoots
    /\ pc \in [Threads -> {"call", "rename_new", "insert", "store", "rename_free"}]
    /\ entry \in [Threads -> 0 .. Len(name)]

\* A rename is freed by its last user and not before (rename_new's
\* use_count++ and rename_free's use_count--): the count is the number of
\* table entries of all layers, encoders and decoders, and of threads between
\* rename_new and the end of set_renamed, that refer to it.
UseCountsExact ==
    /\ \A r \in DOMAIN rename :
          rename[r].use_count =
              Cardinality({e \in Layers \X Indices : get_renamed(e[1], e[2]) = r})
            + Cardinality({t \in Threads : entry[t] = r})
    /\ \A l \in Layers : \A i \in Keys(renamed[l]) : get_renamed(l, i) \in DOMAIN rename
    /\ \A t \in Threads : entry[t] # 0 => entry[t] \in DOMAIN rename

\* Outside the data lock the registry holds exactly the live renames and the
\* signatures they are renames of, each rename in the list of its base and in
\* no other, and no two renames in one list have the same name: nothing
\* leaks when the last layer using it is freed, and nothing dangles.
RegistryExact ==
    (\A t \in Threads : pc[t] # "insert") =>
        /\ DOMAIN registry = DOMAIN rename \cup {rename[r].base : r \in DOMAIN rename}
        /\ \A r \in DOMAIN rename :
              registry[r] = [base |-> rename[r].base, renames |-> <<>>]
        /\ \A b \in DOMAIN registry \ DOMAIN rename :
              LET list == registry[b].renames IN
                 /\ registry[b].base = 0
                 /\ Range(list) = {r \in DOMAIN rename : rename[r].base = b}
                 /\ \A m, n \in DOMAIN list : name[list[m]] = name[list[n]] => m = n

\* The signature that a call for i through layer l ends up with at the plain
\* encoder or decoder, 0 if some layer has no rename.
Resolved(l, i) ==
    LET down[k \in 0 .. l] ==
          [j \in 0 .. Len(name) |->
              IF k = 0 \/ j = 0 THEN j ELSE down[Below[k]][get_renamed(k, j)]]
    IN  down[l][i]

\* All calls for one signature through one stack of layers reach the plain
\* encoder or decoder with one and the same live rename of it, the one that
\* was registered there, whichever thread makes them and whatever other
\* threads and layers are doing; and each layer's part of it has the name the
\* layer's rename function gives.
RoutesAgree ==
    /\ \A t \in Threads :
         LET c == Head(todo[t]) IN
           todo[t] # <<>> /\ c.layer = 0 /\ c.op # "type_register"
             /\ (c.settled \/ c.op \in Registering \cup {"type_bind"})
           => c.sig = Resolved(c.from, c.root)
    /\ \A x \in told : x.op = "sample_register" =>
          /\ x.sig = Resolved(x.from, x.root)
          /\ x.sig \in DOMAIN rename
          /\ rename[x.sig].base = x.root
    /\ \A l \in alive : \A i \in Keys(renamed[l]) :
          name[get_renamed(l, i)] = NewName(l, name[i])

\* A TYPE_BINDING that a renaming encoder sends on binds the sample to zero, or
\* to a type that has been declared, and so has the type which that type is a
\* rename of (do_type_register's "Register base type and renamed type").
BoundTypeDeclared ==
    \A t \in Threads :
      LET c == Head(todo[t]) IN
        todo[t] # <<>> /\ c.layer = 0 /\ c.op = "type_bind" /\ c.has_deps =>
          {c.sig, c.root} \subseteq {x.sig : x \in {y \in told : y.op = "type_register"}}

\* Every call into a layer returns: no thread waits for a lock for ever, in
\* particular not for the data lock in the rename_free that set_renamed calls
\* with the layer's own lock held.
CallsReturn == \A t \in Threads : todo[t] # <<>> ~> todo[t] = <<>>
=============================================================================
