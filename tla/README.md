# TLA+ models of LabComm

LabComm sends typed samples over a byte stream. A compiler turns declarations
into encoding, decoding and registration functions; a library carries them: an
encoder on one side declares each sample type once and then sends samples under
a number of its own, a decoder on the other side matches the declarations with
the types its program has registered handlers for, and calls the handlers. The
C library (`src/lib/c/2014`) is the reference here; Java, C#, Python and RAPID
have libraries of their own.

This directory models the concurrent and stateful parts of the C library, its
two-way example and its throttle driver, checks small instances with TLC and
proves most of their invariants with TLAPS for every value of the constants.

## 1. Inventory

| part | state | operations | interacts with |
|---|---|---|---|
| pthread scheduler (`labcomm2014_pthread_scheduler.c`) | two mutexes, a condition variable, `wakeup`, `running_deferred`, the queue of immediate and the queue of delayed actions | `writer_lock/unlock`, `data_lock/unlock`, `sleep`, `wakeup`, `enqueue`, `run_deferred` | called by encoder and decoder; calls back deferred actions that call it in turn |
| encoder (`labcomm2014_encoder.c`) | `registered`, `sample_ref`, `typedefs`, the writer with its sticky error | registration of samples, references, types, bindings; `encode`; the version packet | writer chain (`start`, `flush`, `end`), scheduler's writer lock |
| generated registration functions (`C_CodeGen.jrag`) | none | `labcomm2014_encoder_register_X`, `..._type_register_X` | several encoder calls in a row, recursively over the typedefs |
| decoder (`labcomm2014_decoder.c`) | `local`, `remote_to_local`, `local_ref`, `remote_to_local_ref`, `version_ok`, the reader with its sticky error | `decode_one` per kind of packet, `run`, registration of handlers and references | reader chain, scheduler's data lock, application handlers |
| fd writer and reader | byte buffer, position, error | `start`, `flush`; `fill` | `write(2)`, `read(2)` |
| dynamic buffer writer | growing buffer | `start`, `flush`, ioctls | |
| signature arrays and numbering (`labcomm2014.c`) | `first`, `last`, data; the counter of local indices | `array_ref`, `set_local_index` | all tables above |
| renaming encoder, decoder, registry | a table of renamed signatures per layer; one registry with use counts | every encoder or decoder operation, passed on under another name; `rename_new`, `rename_free` | encoder, decoder, both locks of the scheduler |
| decimating and introspecting layers (`examples/twoway`) | counters and states per signature | wrap `start` and `ioctl` of reader and writer | scheduler (`enqueue`), both ends |
| throttle driver (`experimental/ThrottleDrv`) | fragment counter, message buffer | `thr_send`, `thr_receive` | raw Ethernet |
| signature parser (`experimental`) | stacks | parse, skip | type declarations |
| Java, C#, Python, RAPID libraries; compiler; tools | | | |

What is hard in this code: `run_action` releases the data lock around the action
it calls; deferred actions take the writer lock themselves; a sleeper's deadline
is computed from a queue that changes while it waits; a registration is noted
before it is written; two threads register samples that share typedefs; the
channel may break in the middle of a packet; the two ends number their
signatures independently; a handler is looked up under a lock and called after
the lock is gone; references are announced, registered and used in any order;
variables are returned uninitialized when a table is empty. A packet may fill the
writer's buffer exactly, overflow it, be accepted in part by `write`, and reach
the reader in pieces of any size. Fragments of the throttle driver carry no
message identity and their counter has 8 bits. Renamed signatures are shared by
layers and threads and freed by their last user, found and counted in separate
critical sections. The layers of the two-way example register and send their own
samples from deferred actions, which must come in an order that works although
each is queued by another thread. `PROJECT.json` lists these hazards at their
lines, with the properties that watch them or the reason why none does.

What makes the parts correct:

* scheduler: actions are called one at a time and in order, never too early,
  never by a thread that holds the writer lock; no wakeup and no action is lost;
* encoder: declarations come once and before what relies on them; nothing
  follows a packet that was cut short;
* decoder and channel: what is received is a prefix of what was sent, each
  sample as its own type, each reference as its own type or null; nothing is
  accepted from a peer of another version;
* buffers and encoding: the stream is the concatenation of the packets' bytes,
  however it is buffered, cut and joined; the reader stays in step with it; a
  writer has no error that nothing caused;
* throttle driver: every byte of a rebuilt message stands where it was sent, a
  message is mixed only if a frame was lost, the receiver finds back into step,
  and sending ends;
* renaming: a rename lives exactly as long as somebody uses it, all calls for a
  sample through a stack of layers meet in the same renamed signature, and every
  call returns;
* two-way layers: the peers are sent nothing they do not handle, every n-th
  sample passes, and what a peer asks for and announces takes effect.

## 2. Modules

| module | models | composed of |
|---|---|---|
| `DeferredActions` | abstract: actions submitted and called | |
| `PthreadScheduler` | the pthread scheduler | refines `DeferredActions` |
| `Wire` | packets, signature numbering | |
| `Encoder` | encoder, generated registration functions, writer errors | `Wire` |
| `Decoder` | decoder, reader errors | `Wire` |
| `TypedChannel` | abstract: samples sent and received | |
| `Channel` | both ends and the stream between them | `Encoder`, `Decoder`; refines `TypedChannel` |
| `ByteStream` | packed numbers, strings and primitives, fd writer, dynamic buffer writer, fd reader | |
| `SignatureArray` | the arrays indexed by signature | |
| `Renaming` | renaming encoder and decoder, registry | `SignatureArray` |
| `ThrottleNet` | throttle driver, its reader and writer | |
| `TwoWay` | client and server of `examples/twoway`, decimating and introspecting layers | |
| `MC...` | values of the constants for TLC | |
| `PthreadSchedulerProofs`, `EncoderProofs`, `ChannelProofs`, `ByteStreamProofs`, `RenamingProofs`, `ThrottleNetProofs`, `TwoWayProofs` | theorems about the module they are named after | |
| `InductionLemmas` | least elements, induction, definition by recursion: used by the proofs | |

Definitions called `..._Fault` or with another suffix after an underscore
(`Wakeup_NoSignal`) are deliberately wrong variants of the definition they
stand before. `Spec` never uses them; each shows that a property notices the
mistake.

### PthreadScheduler

Everything between two lock operations is one step. Each thread has two
contexts, its client code and the body of a deferred action called on it, and
both may lock, wake and enqueue, so the reentrancy of the code is in the model.
`pc` says where a context is; the labels are named after the functions
(`wl_` writer lock, `wu_` writer unlock, `rd_` and `ra_` run_deferred and
run_action, `sl_` sleep). A `pthread_cond_wait` is the label `sl_wait`; a
signal moves one waiting thread, and threads may wake spuriously. `timespec` is
a number of ticks, and zero means never, as in `timespec_compare`. `started` is
a history variable: the actions called, in order.

Bounds: `MaxElements` actions and `MaxTime` ticks. Three actions with delays 0,
1 and 2 and a clock of three ticks are enough for insertion before, between and
after queued elements, for equal due times, and for an action that enqueues
others.

### Wire, Encoder, Decoder, Channel

A packet is a record; its bytes are in `ByteStream`. Two programs can compare only
a signature's key (name and flat signature), which a declaration carries; the
numbers are private to each program. `whole = 0` marks a packet that was only
partly written.

An operation of the encoder holds the writer lock from its first look at the
tables until the packet is written, so it is one step; a generated
`labcomm2014_encoder_register_X` is several, and `todo[t]` holds what thread `t`
still has to call. `StartResults` says what the writer's `start` chain may
answer: `ok`, `already` (`-EALREADY`, as the decimating layer answers), `error`.
`Write` covers a failing `write(2)`; the error is never reset.

The decoder's steps are the critical sections of the data lock. For a sample
these are the lookup (`LookupHandler`), the resolution of a reference in the
body (`DecodeBody`) and the handler's call (`CallHandler`); registrations may
come between any two. Undefined results (`result` in `handle_sample_def` and
`handle_sample_ref` when the table is empty) are a free choice between going on,
ending `decoder_run` and ending the process. `delivered` is a history variable.

Bounds: `MaxPackets` limits the packets sent; nothing else grows. In the run
`channel` the receiver has the sender's sample under another index, and twice, so
that a confusion of local and remote indices shows and a lookup by key meets two
candidates. Type packets and a foreign tag are skipped on the way.

`EventuallyDelivered` lets `decoder_run` end (`Ended`) only when reading fails, the
process is ended, or the packet it stopped at is one to end at: before a good version,
a sample or declaration it has no handler for (the uninitialized result included), the
tag 0. Any other packet, skipped ones above all, has to be passed.

### ByteStream

One encoder call at a time is inside the writer lock. `left` is the list of
functions it has still to call; each writes its bytes into `w.data`, and the fd
writer flushes a full buffer on the way: `Flush` gives `write(2)` any number of
bytes to accept, or lets it fail. A function that has nothing to store, such as
the loop over an empty signature, returns without looking at the buffer
(`Return`). The dynamic buffer writer grows instead and its
program takes the bytes after each packet. The reader fills a buffer of `ReadSize`
bytes with pieces of any size and reads the packets back with the functions of
`labcomm2014_private.h`; a declaration without an intention for it is skipped by
its length. `WriterLayer` says which actions a layer above the writer implements:
the others are looked up further down, as `labcomm2014_writer_start` and its
kin do.

`AfterError` says what follows a failed write. A declaration goes on with its next
function, and in the loop over the signature with the same byte, as its results are
ignored. A sample stops, except after the length of a variable array: the generated
encoder looks at the results of primitives and strings and not at that one
(`C_CodeGen.jrag:1063-1065`), and goes on with the elements. If the writes that
follow succeed, what the reader gets has a hole. A write that fails in a function
after which the call goes on is the fault `hole`; `Damaged` excepts these runs from
`StreamInOrder` and `InStep`. `-EALREADY` changes nothing.
The loops over the bytes of a number (`Power`, `Unpacked`, `Assembled`) are recursive
functions, of which the prover can be given the equations. `Layout` is what the
generated decoder functions read; `LayoutAssumption` says that they list the fields
that the generated encoder functions write.

Bounds: a byte carries `Group = 4` values in a packed number and integers are
below `Word = 32`, so packed numbers take 1 to `MaxGroups = 3` bytes (5 in the
code, the size of `tmp` in `labcomm2014_write_packed32`): that is every case but
the fourth and fifth byte. `BufferSize = 6` is
the least that holds a tag and a length, the code's own assumption. The sample is a
byte, a string and a variable array of bytes: one value of it is as long as the
buffer, one overflows it in the string, where the encoder stops, and one at the length
of the array, where it does not; its declaration fills the buffer twice. Three calls
are enough for a packet after a full buffer and for a call after an error.

### SignatureArray, Renaming

`SignatureArray` is the growing array of `labcomm2014.c` with its `first` and
`last`. `Renaming` stacks any number of renaming layers on a plain encoder or
decoder: a call into a layer turns into calls into the layer below, which
`todo[t]` lists. `set_renamed` is modelled section by section: `rename_new`
(takes the data lock and finds the base entry), `insert` (finds or makes the
rename, counts the use and unlocks), `store` (the layer's table, under the layer's
lock) and `rename_free` for a rename that came
too late. A name is a sequence of parts. Layers are created and freed while
others are in use; `told` records what reached the plain encoder.

All layers share one registry and one scheduler. A decoder layer is used by one
thread: with two, `set_renamed` of the renaming decoder waits for the data lock
it holds (see the hazard at `labcomm2014_renaming_decoder.c:82`).

Bounds: a prefix encoder, a suffix encoder on top of it and a prefix decoder that
makes the same names, two threads, two samples; each layer is created once. That
is enough for two threads to rename the same sample at the same time, for a
rename of a rename, and for an encoder and a decoder that share one.

### ThrottleNet

`thr_send` is a loop with one frame per step, `thr_receive` one step per frame.
Frames are delivered in order, and any may be lost; there is no acknowledgement,
so a loss is never repaired. Sends and receives may fail, and other traffic may
come in between. `p_msg`'s bytes carry where they were sent (`packet`, `off`),
which is how the properties see a mixture.

The properties hold for one sender per channel, one fragment size and messages of
at most `MaxFragments` fragments (`OneSender`), as the examples use the driver.
The model shows what happens otherwise: two senders on one channel can be mixed
without any loss, and `thr_send` never returns for a message of 255 or more
fragments, or for a fragment size that is 0 as an unsigned char (the loop's
8-bit counter never reaches the total): the second sender of the instance does
this. A packet longer than `BUFFER_SIZE` is sent as two messages and never decoded
as one, and after a mixed message the reader may start the next with leftovers.

Bounds: `CharMod = 5` for the 256 values of a char, `BufferSize = 6`, packets of 5
and 8 bytes in fragments of 2: three fragments, and four in two messages; up to
four messages, so that one is broken, one taken for its end, and others follow.

### TwoWay

Both programs are lists of steps for two threads each, with the scheduler's queue
of deferred actions between them and a pipe in each direction. A step is a
critical section: `start` and `ioctl` of a layer, registration, encoding, a
handler, a deferred action. Packets are definitions (`tag = 0`) and samples; the
indices of the two programs differ. `asked`, `passed`, `refused`, `stopped`, `got`
and `overlap` are for the properties.

Left out: `A`, `Diff` and `Terminate`, which are treated like `B`, `Sum` and `B`;
type bindings; the version packet (see `Channel`). The last sleep of `main` stands
for all that follow.

`reader_alloc` is run by whoever registers or reads first, after a check without a
lock (`labcomm2014_decoder.c:262`). The model assumes that this is the decoder
thread, and not the client's `main` in its ioctl (`client.c:172`): only timing gives
that, as `main` has three registrations to write first. `RunDeferred` takes an
action from the queue and calls it in one step; the lock is free between the two, but
`running_deferred` keeps every other runner out (`OneRunner`).

Bounds: `Rounds = 3`, `Product` handled from round `Late = 2`, every `Amount = 2`-nd
`Sum`: there are rounds before and after each change. `PipeCap = 1` lets a writer
block on a full connection.

## 3. Runs

| run | instance | shows |
|---|---|---|
| `scheduler_safety` | 2 threads that do everything, 3 actions, delays 0..2 | `TypeOK`; `OneRunner`: one thread in `run_deferred` although the lock is released in it; `NoSelfDeadlock`; `WakeupNotLost`; `ImplementsDeferredActions`; no deadlock |
| `scheduler_delayed` | 1 sleeping and 1 other thread, delays 0, 2 | `NoOversleep`, `DelayedEventuallyRuns`, `DeferredEventuallyRuns` (while no delayed action is around), `WakeupEventuallyConsumed` |
| `scheduler_sleeping` | 1 thread, delays 0, 1 | **violated**: `NothingDeferredBeforeSleeping` |
| `encoder_types` | 2 threads, 2 samples over 2 nested typedefs, 9 packets | `EncoderTypeOK`, `DeclaredOnce`, `SignatureBeforeSamples`, `TypesBeforeUse`, `NothingAfterTruncation` |
| `encoder_skipped_signature` | `start` may answer `-EALREADY` | **violated**: `SignatureBeforeSamples` |
| `channel` | one sample with references, known to the receiver under other indices and twice; any `start` result, peers of another version, foreign tags, type handlers, 5 packets, fairness | `TypeOK`, `RightHandler`, `RemoteIndexAgrees`, `VersionFirst`, `ImplementsTypedChannel`, `EventuallyDelivered` |
| `channel_lost_ref` | references registered late | **violated**: `ReferenceStaysKnown` |
| `bytes` | 5 different calls, of which 3 are made, both writers, any `start` result, writes and reads of any size that may fail | `TypeOK` (no buffer overrun), `StreamInOrder`, `NoSpuriousError`, `InStep`, `EventuallyDecoded` |
| `throttle` | a sender and its receiver, lost frames, a sender on another channel | `OffsetsKept`, `Rebuilt`, `Resync`, `DecodesWhole`, `SendEnds` |
| `renaming` | 3 layers, 2 threads | `UseCountsExact`, `RegistryExact`, `RoutesAgree`, `BoundTypeDeclared` (samples that depend on a typedef), `CallsReturn` |
| `renaming_binding` | samples without typedefs | **violated**: `BoundTypeDeclared` |
| `twoway` | client and server, 3 rounds | `DecodersRun`, `NothingRefused`, `DecimationExact`, `DecimationArrives`, `ProductFromThen` |

`TypeOK` of `ThrottleNet`, `Renaming` and `TwoWay` and `DataLockHeld` of
`PthreadScheduler` hold in these runs too and can be added to their cfgs; they are
not part of what the runs show.

All runs but the scheduler's switch the deadlock check off: a program may send its
last packet, `decoder_run` may end, all layers may be freed. `SignatureBeforeSamples`
is asked of a writer that skips nothing in `encoder_types`, and fails for one that
does in `encoder_skipped_signature`.

Disagreements found, with the lines in `PROJECT.json`:

* `run_deferred` empties the immediate queue before the delayed one, so an
  action enqueued by a delayed action stays behind when the thread goes to
  sleep, against the comment in `scheduler_sleep`. `DeferredEventuallyRuns` is
  therefore only true where no action has a delay.
* A writer layer that skips a registration leaves samples without a declaration,
  against the technical report. `wrap_writer_start` of the decimating example
  counts registrations like samples: once a sample is decimated, the declaration
  of a reference to it, or of its type, can be skipped.
* `do_ref_register` of the decoder clears an entry of a table indexed by remote
  indices at a local index, and so forgets a reference of the sender.
* `do_type_bind` of the renaming encoder says that a renamed sample has a type of
  its own even when it depends on no typedef; the type it is bound to is never
  declared, where the report asks for a binding to zero.

Seen while reading or modelling, without a run of their own:

* `handle_sample_ref` returns an uninitialized value when no reference is
  registered; `Decoder` chooses its outcome freely.
* A declaration without a handler ends the process through the default error
  handler, where the report says the channel is paused.
* `do_encode` calls `end` after a `start` that failed; the empty flush sets the
  writer's error for good. The registrations do not.
* A declaration goes on after a transient write error and may leave a hole; so does
  a sample with a variable array, if the error comes at the array's length
  (`C_CodeGen.jrag:1064`). The writer's error stays, so nothing follows the packet.
* The report numbers declarations in separate series, the code uses one counter.
* `do_ioctl` of the decoder reads the sender's index in one critical section, and
  the decimating layer stores the amount in a later one: a definition handled
  between them finds no amount, the ioctl has no index, and `set_decimation` is
  never sent. `DecimationArrives` excepts this (`overlap`).
* The server's decoder thread is started before `main` registers Sum: an early B
  makes it encode a Sum that is refused (`NothingRefused` excepts this).
* A decoder layer used by two threads that rename the same sample deadlocks.
* `rename_new` keeps its locals in static variables, which the data lock guards
  only as long as all registries of a program have the same scheduler.

### Fairness

`PthreadScheduler!FairSpec`: time passes; a running thread goes on, and since
what it waits for is a mutex, which may be taken and released by others in
between, this is strong fairness: it assumes that a mutex is granted to a thread
that keeps asking, which the default Linux mutex gives in practice but POSIX
does not promise. A caller releases the locks it took, an action returns, and a
sleeping thread sleeps again, as the loops around `labcomm2014_scheduler_sleep`
in the examples do. No fairness is put on spurious wakeups or on new requests.

`Channel!FairSpec`: weak fairness of the decoder's thread only, which is in the
loop of `labcomm2014_decoder_run`. The sender may stop at any time, and reading
may fail at any time.

`ByteStream!FairSpec`: weak fairness of a call under way (`WriterProceeds`) and of
the reading thread (`ReaderProceeds`); no new call is ever owed. `ThrottleNet`:
weak fairness of each sender in `thr_send`'s loop, none of the net or the
receiver. `Renaming`: weak fairness of each thread inside a call; a lock that is
released finally stays free, since calls are finite in number. `TwoWay`: weak
fairness of `Next` alone, which suffices as no step can be taken for ever: every
list of steps is finite, so every thread that can go on does.

## 4. Proofs

All theorems are about `Spec` without fairness, for every value of the constants
that satisfies the named `ASSUME`s. These ask for little: "none" values that
are no members of the sets they stand outside of, signatures that are sequences of
keys, registered signatures that are numbered; in `Renaming` a finite set of
threads and layers that sit on layers made before them; in `ThrottleNet` a channel
number and a char of more than one value; in `ByteStream` (`ByteAssumption`,
`CallsAssumption`, `LayoutAssumption`) integers that fit into a word and words that
fit into `MaxGroups` bytes, strings and signatures as long as an integer can say, a
buffer that holds a tag and a length, and layouts that list the fields of the samples
in their order, as both functions are generated from one type. Two theorems of the
encoder have a hypothesis of their own (below).

### PthreadSchedulerProofs

`TypeCorrect`, `DataLockCorrect`, `OneRunnerCorrect`, `NoSelfDeadlockCorrect`. The
inductive invariant adds to the checked ones that the
data lock is held exactly inside its critical sections (`DataLockHeld`), that
an action body exists exactly while its thread is in `in_action` (`ContextInv`),
that run_deferred knows its caller and its loop (`ReturnInv`), that the holder
of the writer lock is in its own code (`WriterInv`), and that the delayed loop
compares with a time that was read (`ClockReadInv`): without the last, an empty
queue would look due. `NoSelfDeadlock` follows from `ContextInv` and `WriterInv`.

`WakeupNotLostCorrect`: if the flag is up while a thread waits, another sleeper
looks at the flag before it waits again (`WillCheck`); the invariant needs that only
sleeping threads are ever there (`SleeperInv`).

`NoOversleepCorrect`: a lone sleeper's deadline is not after the head of the delayed
queue. Taking from the queue only moves its head back, since it is sorted
(`TailRaisesHead`); an element that becomes the head is signalled to a waiting thread,
and when only one thread sleeps it is that one (`SleeperInv`, `NextNoOversleep`).

`ImplementsDeferredActionsCorrect`: the scheduler refines `DeferredActions`. The
mapping needs `QueueInv`: elements are numbered as they are submitted, the delayed
queue is sorted by due time and then by number, the immediate one by number, and a
thread in the delayed loop compares with a time that has come (`NowInv`). Steps that
leave the queues alone stutter (`ControlStep`); an enqueue is a submission; the call
of an action is the abstract call, which asks that it be due and first of its kind.

### EncoderProofs

`EncoderTypeCorrect`; `DeclaredOnceCorrect` and `NothingAfterTruncationCorrect`
(together `EncoderSafe`), for a writer that may skip or refuse anything, from
`Noted` (a declaration on the wire is noted in its table) and `AllWhole` (as
long as the writer is in order all packets are whole). The six actions are first
reduced to four kinds of step (`OneStep`), so that each conjunct is proved for a
packet and not for an action.

`SignatureBeforeSamplesCorrect` and `TypesBeforeUseCorrect` have the hypothesis
`StartResults = {"ok"}`, a writer that skips nothing: it cannot be dropped, as
the run `encoder_skipped_signature` shows. The first follows from `NotedIsSent`
(while the writer is in order, what is noted is on the wire). The second is about
the generated functions, whose calls interleave with those of other threads:
`OrderInv` says that in the list of what a thread has still to call, whatever a call
relies on is declared or is declared by an earlier call of the same list. The lists
are spliced when a call expands into those for its typedefs, and the other thread's
declarations only help (`ReadyGrows`).

### ChannelProofs

`ChannelTypeCorrect` and `RightHandlerCorrect`. The invariant
follows a key from the sender to the handler: a declaration on the wire carries
the key of its index (`WireInv`), the map leads from a remote index to a
registered signature with that key (`MapInv`), a lookup under way holds such a
signature (`WrapInv`), and so does every call made (`DeliveredInv`).
Registrations may come at any point: they replace handlers and never remove one.

`RemoteIndexAgreesCorrect` and `VersionFirstCorrect`, from `LearntInv`: a remote index
that an entry knows was declared by a packet that has been read (`RemoteSeen`), so
that, with `DeclaredOnce`, it cannot be declared again for another entry; the only
version packet is the first, and if it was not written nothing is (`VersionOnWire`);
and until a good one is read the tables are empty (`VersionRead`).

`ImplementsTypedChannelCorrect`: the channel refines `TypedChannel`. Its `Sent` and
`Received` are selections from `wire` and `delivered` (`Selects`), recursive functions
whose equations are first derived (`Iteration`); appending to what is selected from
appends to the selection or leaves it alone (`OneMorePacket`, `OneMoreCall`). The
invariant `ChannelInv` adds three facts to the one above: the samples received are as
many as the samples among the packets that `decode_one` is done with (`CountInv`, so
that the next packet is the sample to receive); a body that was read to its end was
whole and its reference resolved to the same type (`BodyInv`); and the map of
references is true of the sender (`RefMapInv`). A sample whose number the decoder
cannot map, or that was cut short, ends the decoder: it never skips one, which is why
the count is exact.

### ByteStreamProofs

`NoSpuriousErrorCorrect`. `fd_flush` of an empty buffer sets an error that stays, and
it is also the end of every packet; `Started` says why it never meets an empty
buffer: while a packet is written without an error, the buffer has bytes or the
function at work has still some to store. A function stores at least one byte after
every flush, so a packet that fills the buffer exactly is flushed by its end and
not before. A call writes its tag first, which has at least one byte
(`FunctionsFacts`).

`TypeOKCorrect`: neither buffer is overrun (`BufferInv`, `ReaderTypes`).

`StreamInOrderCorrect`. The inductive invariant is `OrderInv`: as long as there is no
error, the stream, the buffer and the functions that are left are together what the
calls write (`Total`), byte for byte; after an error the stream is the beginning of it
and what is left of the call has been dropped, or the call went on with a hole and the
stream begins with all the calls before it.

`InStepCorrect` is the theorem of both ends: for any calls, layouts and sizes of the
buffers, and however `write(2)` and `read(2)` cut the stream, the packets that are
decoded are those that were written, with their values. The argument has four layers:

* What a number is written as is read as that number (`PackedRead`), and likewise a
  primitive (`PrimitiveRead`). The loops are recursive functions, whose equations
  are first derived (`Iteration`), and the digits of a number are added up by induction
  over their count (`Digits`). A packed number ends with its first byte without
  the top bit, which is what the reader stops at.
* One item (`Pending`): the bytes read of it and those to come are together the bytes of
  the field that the writer wrote for it. It is complete exactly when none is to
  come (`PendingValue`, `PendingByte`); a string is two items one after the other
  (`PendingLength`).
* One packet (`Within`): what the reader still wants are the items of the fields that
  it has not read. `CallReadable` shows that the reader's choice of items fits what the
  encoder writes, for samples, for definitions, and for packets skipped by their
  length: there the sizes computed in advance have to equal the bytes that are written
  (`DeclarationLength`).
* The stream (`Reads`, the invariant `ReadInv`): the reader has consumed whole packets
  and a part of the next one, its buffer holds what follows in the stream, and the
  stream goes along with the calls (`StreamAlong`). So the next byte in the
  buffer is the next byte of the packet (`NextByte`). When a call has a hole
  nothing is known of the reader from there on (`Lost`), as in the property.

### RenamingProofs

`UseCountsExactCorrect` and `RegistryExactCorrect`, from one inductive invariant
(`IInv`, theorem `RenamingInvariant`) of four parts:

* `UseInv`: no layer goes while in use. A call that came in at a layer has passed
  only living layers (`Path`), a layer that is being freed carries no other and
  nobody else has a call in it, and the table of a dead layer is empty.
* `PlaceInv`: where a thread is in `set_renamed` and what it holds there: the
  data lock and an inserted base between `rename_new` and `insert`, a rename that is
  counted and not stored after it.
* `RegistryInv`: renames and their base point at each other, no two renames of a
  base have the same name, and a base without renames is the one under the lock.
* `CountInv` and `RefInv`: the count of a rename is the number of table entries that
  refer to it (`Refs`) plus the number of threads that hold it (`Holders`), and
  whatever refers to a rename refers to one that is alive.

The last part is a count over two finite sets, and every step adds one member to one
set, takes one from another, or moves one: `store` moves the thread's reference into the
table, `rename_free` gives back the reference that came too late, and freeing a layer
takes away all entries of its table, one rename at a time (`LayerGone`).

`RoutesAgreeCorrect` and `BoundTypeDeclaredCorrect`, from a second invariant
(`RouteInv`, theorem `RenamingRoutes`), inductive once `IInv` is known:

* `QueuesInv`: every call that has to come to what was registered is `Routed`. The
  layers' tables lead from its root, at the layer it came in at, to the signature it
  is for now, at the layer it has come to (`Trail`), through existing layers only; and
  it is for the root itself or for a rename with the root as base. Registering makes
  the way, one layer at a time (`GoRoute`); nothing takes an entry from a table except the
  free of a layer, which nobody else may then be using (`RoutedKept`, `GoingKept`). A
  call of a settled signature follows a way that is there already (`RoutesMeet`).
* `ToldInv`: what the plain encoder or decoder was told by a registration is `Routed`
  too, so that two calls for one root through one layer meet in one signature, and
  when samples depend on a typedef their two types are declared, or are declared by an
  earlier call of the same thread (`Typed`), before the binding.
* `NamesInv`: a rename in a table has the name its layer gives it and the base of what
  it renames (`Fits`); so has the rename that a thread is about to store, and the
  static `base` is the base of the signature being inserted.

`Resolved` is a recursive function over the layers. `RouteExists` derives its equations
(by `SetInduction`), and `RoutedResolved` follows a `Trail` down to where it ends.
`BoundTypeDeclaredCorrect` has the hypothesis `AllDepend`, that every sample an encoder
layer is used for depends on a typedef: it cannot be dropped, as the run
`renaming_binding` shows.

### ThrottleNetProofs

For any number of senders, packets, fragment sizes and losses; as in the runs, what is
said of a channel asks for one sender, one fragment size and messages short enough
for the 8-bit counter (`Sole`).

`DecodesWholeCorrect`: from `WriterInv` (a message is a run of consecutive bytes of
one packet, of at most `BufferSize`) and `ReadInv`, for any senders.

`OffsetsKeptCorrect`: the loop of `thr_send` is where the fragment number says
(`LoopInv`: this is where the counter must not wrap), a frame is a `Piece` of a
message that was sent (`NetInv`), and what the receiver has joined is as long as the
fragments it has counted, every byte at its place (`JoinInv`), whichever
messages they are from.

`RebuiltCorrect` and `ResyncCorrect`: the frames on the wire form a chain. A frame that
is not marked by a loss continues the one before it, or begins a message (`Linked`), and
so does the one the sender will send next (`Upcoming`). The receiver knows the last
frame that arrived (`Recent`); counting back from it without a loss it has either the
beginning of that frame's message, or has started before the loss. Any byte of a
message identifies the message (`SameMessage`), so that neighbours in the chain belong to
the same one. After one whole message without a loss the receiver waits for the first
fragment; the second is therefore rebuilt, which is `StepInv`.

### TwoWayProofs

`DecimationExactCorrect` needs the types of the layers' tables only: `passed` and
`current` move together under the lock, whichever thread asks and whenever the amount
changes, to 0 or 1 as well.

`NothingRefusedCorrect`: every list of steps registers before it encodes
(`OrderedLists`); the layers' own samples are registered, or their registration is in
the queue ahead of anything another thread adds to it (`OwnRegistered`); the client's
`B` is registered or about to be (`BRegistered`); and the introspecting layer only calls
registered what is (`StatusTrue`). Sum, which the server's decoder thread may encode
before `main` registers it, is excepted, as in the property.

`DecodersRunCorrect`: no decoder thread meets what it has no handler for. The
invariant `RunInv` follows a definition or a sample from the program text to the peer:
what is left of each list of steps (`WorkOK`, `OneEntry`), what is deferred
(`QueueOK`), what is in the pipe (`PipeOK`): each is only of samples the peer handles
from the beginning, or of `Product` once the client is `Ready` for it. A sample comes
after its definition (`Definitions`), a peer reads nothing before its first handlers are
in the table (`Begins`), and what the tables of the two layers say of the other program
is true (`TablesTrue`). The order of `StartHandler`, which announces, and
`EnterHandler` is the critical one: the announcement of `Product` is queued before the
handler is in the table, but the client's main thread, which queues it, is also the only
one to run deferred actions there, and enters the handler first (`Entering`).

### Only model-checked

* All liveness properties: `EventuallyDelivered`, `EventuallyDecoded` and the others that
  assume fairness, which the prover cannot use.

## 5. Not modelled

Within the modelled parts: steps of the system clock backwards; allocation
failure; creation and freeing of schedulers, encoders and decoders while in use
(the renaming layers excepted); forwarding of ioctls below the layers that answer
them; an application that calls `decoder_run` again after it ended; the generated
encoding of composite types, beyond sequences of primitives, strings and variable
arrays of bytes.

Parts of the repository without a model:

* The default scheduler has no state: its locks do nothing and the rest ends the
  program.
* Type signatures and their printing, memory and time wrappers: formatting and
  calls passed on.
* The experimental signature parser is used by its own test only; what it computes
  is defined by recursion over data of any depth.
* The experimental UDP reader and writer end the program on any error; the rest
  repeats the throttle driver's reader and writer.
* The Java, C#, Python and RAPID libraries implement the same protocol again; it is
  modelled once, from the C library.
* The compiler has no run-time state; what it generates for registration is in
  `Encoder`. The conversion tool reads a file and prints it.

## 6. Plan

Of the theorems planned nothing is left: every safety property the passing runs check
is proved, and with them that `Channel` implements `TypedChannel` and
`PthreadScheduler` implements `DeferredActions`. Liveness stays with the model checker.
