-------------------------- MODULE PthreadScheduler --------------------------
(***************************************************************************)
(* The scheduler of lib/c/2014/labcomm2014_pthread_scheduler.c: a writer   *)
(* mutex, a data mutex with its condition variable, a FIFO queue of        *)
(* deferred actions and a queue of delayed ones sorted by due time.        *)
(*                                                                         *)
(* A thread executes code in one of two contexts: its client code, or the  *)
(* body of a deferred action that run_deferred called on it.  Both may     *)
(* call the scheduler, so the operations below take a context c; a thread  *)
(* in an action body keeps its client context suspended at "in_action".    *)
(* Everything between two lock operations is one step; a local variable is *)
(* cleared when it goes out of scope.                                      *)
(***************************************************************************)
EXTENDS Integers, Sequences

CONSTANTS
    Threads,        \* the threads that share the scheduler
    Sleepers,       \* the ones whose client code calls scheduler_sleep
    NoOwner,        \* "this mutex is free"
    Delays,         \* delays passed to scheduler_enqueue, in clock ticks
    MaxElements,    \* bound on the actions ever enqueued
    MaxTime         \* bound on the clock

ASSUME ThreadsAssumption ==
    /\ Sleepers \subseteq Threads
    /\ NoOwner \notin Threads
    /\ NoOwner \notin Threads \X {"client", "action"}
ASSUME BoundsAssumption ==
    Delays \subseteq Nat /\ MaxElements \in Nat /\ MaxTime \in Nat \ {0}

VARIABLES
    clock,              \* CLOCK_REALTIME
    dataOwner,          \* the thread that holds data_mutex
    writerOwner,        \* the context that holds writer_mutex
    wakeup,             \* scheduler->wakeup
    runningDeferred,    \* scheduler->running_deferred
    deferred,           \* scheduler->deferred, a sequence of elements
    delayed,            \* scheduler->deferred_with_delay
    when,               \* element->when of every allocated element
    pc,                 \* where each context is
    ret,                \* where run_deferred returns to
    phase,              \* the loop of run_deferred that called run_action
    now,                \* run_deferred's local now
    until,              \* scheduler_sleep's time argument
    deadline,           \* the time given to pthread_cond_timedwait
    started             \* history: the elements whose action was called, in order

threadVars == <<ret, phase, now, until, deadline>>
queueVars  == <<deferred, delayed, when, started>>
vars == <<clock, dataOwner, writerOwner, wakeup, runningDeferred, queueVars,
          pc, threadVars>>

Contexts  == Threads \X {"client", "action"}
client(t) == <<t, "client">>
action(t) == <<t, "action">>
thread(c) == c[1]

\* Elements are numbered in the order in which they were linked into a queue.
Elements == 1..MaxElements

(* Times.  The zero timespec is the end of time, and a NULL time argument  *)
(* behaves as one: it never passes.                                        *)
EndOfTime == 0

timespec_compare(t1, t2) ==
    IF t1 = t2 THEN 0
    ELSE IF t1 = EndOfTime \/ (t2 # EndOfTime /\ t2 < t1) THEN 1
    ELSE -1

\* The due time at the head of the delayed queue, whose sentinel never comes due.
HeadWhen == IF delayed = <<>> THEN EndOfTime ELSE when[Head(delayed)]

-----------------------------------------------------------------------------
(* Mutexes and the condition variable.                                     *)

LockData(t)   == dataOwner = NoOwner /\ dataOwner' = t
UnlockData(t) == dataOwner = t /\ dataOwner' = NoOwner
Goto(c, l)    == pc' = [pc EXCEPT ![c] = l]

Waiting == {t \in Threads : pc[client(t)] = "sl_wait"}

\* pthread_cond_signal wakes one waiting thread, if there is one.
Signal ==
    IF Waiting = {} THEN UNCHANGED pc
    ELSE \E w \in Waiting : Goto(client(w), "sl_woken")

-----------------------------------------------------------------------------
(* run_deferred and run_action, called with the data lock held.            *)

\* Fault: running_deferred is tested and never set.
RunDeferred_FlagNotSet(c, back) ==
    IF runningDeferred = 1
    THEN Goto(c, back) /\ UNCHANGED <<runningDeferred, ret>>
    ELSE /\ ret' = [ret EXCEPT ![thread(c)] = back]
         /\ Goto(c, "rd_loop")
         /\ UNCHANGED runningDeferred

\* Fault: the caller that run_deferred returns to is not recorded.
RunDeferred_CallerLost(c, back) ==
    IF runningDeferred = 1
    THEN Goto(c, back) /\ UNCHANGED <<runningDeferred, ret>>
    ELSE /\ runningDeferred' = 1
         /\ Goto(c, "rd_loop")
         /\ UNCHANGED ret

\* Entry to run_deferred: skipped altogether when some thread is already in it.
RunDeferred(c, back) ==
    IF runningDeferred = 1
    THEN Goto(c, back) /\ UNCHANGED <<runningDeferred, ret>>
    ELSE /\ runningDeferred' = 1
         /\ ret' = [ret EXCEPT ![thread(c)] = back]
         /\ Goto(c, "rd_loop")

\* run_action up to the call: the element is unlinked before the data lock is released.
RunAction(t, e, loop) ==
    /\ UnlockData(t)
    /\ phase' = [phase EXCEPT ![t] = loop]
    /\ started' = Append(started, e)
    /\ pc' = [pc EXCEPT ![client(t)] = "in_action", ![action(t)] = "code"]
    /\ UNCHANGED <<clock, writerOwner, wakeup, runningDeferred, when, ret, now,
                   until, deadline>>

RunDeferredAction(t) ==
    /\ pc[client(t)] = "rd_loop"
    /\ deferred # <<>>
    /\ RunAction(t, Head(deferred), "rd_loop")
    /\ deferred' = Tail(deferred)
    /\ UNCHANGED delayed

\* The clock is read once, before the loop over the delayed actions.
RunDeferredReadClock(t) ==
    /\ pc[client(t)] = "rd_loop"
    /\ deferred = <<>>
    /\ delayed # <<>>
    /\ now' = [now EXCEPT ![t] = clock]
    /\ Goto(client(t), "rd_delayed")
    /\ UNCHANGED <<clock, dataOwner, writerOwner, wakeup, runningDeferred, queueVars,
                   ret, phase, until, deadline>>

HeadIsDue(t) == timespec_compare(HeadWhen, now[t]) <= 0

RunDelayedAction(t) ==
    /\ pc[client(t)] = "rd_delayed"
    /\ HeadIsDue(t)
    /\ RunAction(t, Head(delayed), "rd_delayed")
    /\ delayed' = Tail(delayed)
    /\ UNCHANGED deferred

RunDeferredDone(t) ==
    /\ \/ pc[client(t)] = "rd_loop" /\ deferred = <<>> /\ delayed = <<>>
       \/ pc[client(t)] = "rd_delayed" /\ ~HeadIsDue(t)
    /\ runningDeferred' = 0
    /\ Goto(client(t), ret[t])
    /\ ret' = [ret EXCEPT ![t] = "none"]
    /\ now' = [now EXCEPT ![t] = EndOfTime]
    /\ UNCHANGED <<clock, dataOwner, writerOwner, wakeup, queueVars, phase, until,
                   deadline>>

\* The action returns; its element is freed and run_action locks again.
ActionReturn(t) ==
    /\ pc[action(t)] = "code"
    /\ writerOwner # action(t)
    /\ pc' = [pc EXCEPT ![client(t)] = "ra_relock", ![action(t)] = "off"]
    /\ UNCHANGED <<clock, dataOwner, writerOwner, wakeup, runningDeferred, queueVars,
                   threadVars>>

RunActionRelock(t) ==
    /\ pc[client(t)] = "ra_relock"
    /\ LockData(t)
    /\ Goto(client(t), phase[t])
    /\ phase' = [phase EXCEPT ![t] = "none"]
    /\ UNCHANGED <<clock, writerOwner, wakeup, runningDeferred, queueVars, ret, now,
                   until, deadline>>

-----------------------------------------------------------------------------
(* scheduler_writer_lock and scheduler_writer_unlock.  A caller takes the  *)
(* writer lock only when it does not hold it and releases what it holds.   *)

WriterLock(c) ==
    /\ pc[c] = "code"
    /\ writerOwner # c
    /\ Goto(c, "wl_data")
    /\ UNCHANGED <<clock, dataOwner, writerOwner, wakeup, runningDeferred, queueVars,
                   threadVars>>

WriterLockData(c) ==
    /\ pc[c] = "wl_data"
    /\ LockData(thread(c))
    /\ RunDeferred(c, "wl_unlock")
    /\ UNCHANGED <<clock, writerOwner, wakeup, queueVars, phase, now, until, deadline>>

WriterLockUnlockData(c) ==
    /\ pc[c] = "wl_unlock"
    /\ UnlockData(thread(c))
    /\ Goto(c, "wl_writer")
    /\ UNCHANGED <<clock, writerOwner, wakeup, runningDeferred, queueVars, threadVars>>

WriterLockWriter(c) ==
    /\ pc[c] = "wl_writer"
    /\ writerOwner = NoOwner
    /\ writerOwner' = c
    /\ Goto(c, "code")
    /\ UNCHANGED <<clock, dataOwner, wakeup, runningDeferred, queueVars, threadVars>>

\* Fault: deferred actions are run before the writer mutex is released.
WriterUnlock_Late(c) ==
    /\ pc[c] = "code"
    /\ writerOwner = c
    /\ Goto(c, "wu_data")
    /\ UNCHANGED <<clock, dataOwner, writerOwner, wakeup, runningDeferred, queueVars,
                   threadVars>>

WriterUnlock(c) ==
    /\ pc[c] = "code"
    /\ writerOwner = c
    /\ writerOwner' = NoOwner
    /\ Goto(c, "wu_data")
    /\ UNCHANGED <<clock, dataOwner, wakeup, runningDeferred, queueVars, threadVars>>

WriterUnlockData(c) ==
    /\ pc[c] = "wu_data"
    /\ LockData(thread(c))
    /\ RunDeferred(c, "wu_unlock")
    /\ UNCHANGED <<clock, writerOwner, wakeup, queueVars, phase, now, until, deadline>>

WriterUnlockUnlockData(c) ==
    /\ pc[c] = "wu_unlock"
    /\ UnlockData(thread(c))
    /\ Goto(c, "code")
    /\ UNCHANGED <<clock, writerOwner, wakeup, runningDeferred, queueVars, threadVars>>

-----------------------------------------------------------------------------
(* scheduler_data_lock and scheduler_data_unlock, as callers use them: the *)
(* code between the two calls nothing of the scheduler.                    *)

DataLock(c) ==
    /\ pc[c] = "code"
    /\ LockData(thread(c))
    /\ Goto(c, "in_data")
    /\ UNCHANGED <<clock, writerOwner, wakeup, runningDeferred, queueVars, threadVars>>

DataUnlock(c) ==
    /\ pc[c] = "in_data"
    /\ UnlockData(thread(c))
    /\ Goto(c, "code")
    /\ UNCHANGED <<clock, writerOwner, wakeup, runningDeferred, queueVars, threadVars>>

-----------------------------------------------------------------------------
(* scheduler_sleep, called by client code that does not hold the writer    *)
(* lock, with a time or with NULL.                                         *)

Sleep(t, time) ==
    /\ pc[client(t)] = "code"
    /\ writerOwner # client(t)
    /\ until' = [until EXCEPT ![t] = time]
    /\ Goto(client(t), "sl_data")
    /\ UNCHANGED <<clock, dataOwner, writerOwner, wakeup, runningDeferred, queueVars,
                   ret, phase, now, deadline>>

\* Fault: the sleeper does not run deferred actions when it is woken.
SleepRunDeferred_Skipped(t) ==
    /\ pc[client(t)] \in {"sl_data", "sl_woken"}
    /\ LockData(t)
    /\ Goto(client(t), "sl_check")
    /\ UNCHANGED <<clock, writerOwner, wakeup, runningDeferred, queueVars, threadVars>>

\* The lock is taken by data_lock the first time and by the condition wait later.
SleepRunDeferred(t) ==
    /\ pc[client(t)] \in {"sl_data", "sl_woken"}
    /\ LockData(t)
    /\ RunDeferred(client(t), "sl_check")
    /\ deadline' = [deadline EXCEPT ![t] = EndOfTime]
    /\ UNCHANGED <<clock, writerOwner, wakeup, queueVars, phase, now, until>>

DoneWaiting(t) == wakeup = 1 \/ timespec_compare(until[t], clock) <= 0

SleepDone(t) ==
    /\ pc[client(t)] = "sl_check"
    /\ DoneWaiting(t)
    /\ wakeup' = 0
    /\ UnlockData(t)
    /\ until' = [until EXCEPT ![t] = EndOfTime]
    /\ Goto(client(t), "code")
    /\ UNCHANGED <<clock, writerOwner, runningDeferred, queueVars, ret, phase, now,
                   deadline>>

\* Fault: the sleeper waits for its own time only.
SleepWait_OwnTime(t) ==
    /\ pc[client(t)] = "sl_check"
    /\ ~DoneWaiting(t)
    /\ deadline' = [deadline EXCEPT ![t] = until[t]]
    /\ UnlockData(t)
    /\ Goto(client(t), "sl_wait")
    /\ UNCHANGED <<clock, writerOwner, wakeup, runningDeferred, queueVars, ret, phase,
                   now, until>>

\* The sleeper waits for the head of the delayed queue or for its own time,
\* whichever comes first.
SleepWait(t) ==
    /\ pc[client(t)] = "sl_check"
    /\ ~DoneWaiting(t)
    /\ deadline' = [deadline EXCEPT ![t] =
           IF timespec_compare(until[t], HeadWhen) < 0 THEN until[t] ELSE HeadWhen]
    /\ UnlockData(t)
    /\ Goto(client(t), "sl_wait")
    /\ UNCHANGED <<clock, writerOwner, wakeup, runningDeferred, queueVars, ret, phase,
                   now, until>>

SleepTimeout(t) ==
    /\ pc[client(t)] = "sl_wait"
    /\ timespec_compare(deadline[t], clock) <= 0
    /\ Goto(client(t), "sl_woken")
    /\ UNCHANGED <<clock, dataOwner, writerOwner, wakeup, runningDeferred, queueVars,
                   threadVars>>

\* POSIX lets a condition wait return for no reason.
SpuriousWakeup(t) ==
    /\ pc[client(t)] = "sl_wait"
    /\ Goto(client(t), "sl_woken")
    /\ UNCHANGED <<clock, dataOwner, writerOwner, wakeup, runningDeferred, queueVars,
                   threadVars>>

-----------------------------------------------------------------------------
(* scheduler_wakeup and scheduler_enqueue: each is one critical section of *)
(* the data lock.                                                          *)

\* Fault: the flag is set and nobody is told.
Wakeup_NoSignal(c) ==
    /\ pc[c] = "code"
    /\ dataOwner = NoOwner
    /\ wakeup' = 1
    /\ UNCHANGED <<clock, dataOwner, writerOwner, runningDeferred, queueVars, pc,
                   threadVars>>

Wakeup(c) ==
    /\ pc[c] = "code"
    /\ dataOwner = NoOwner
    /\ wakeup' = 1
    /\ Signal
    /\ UNCHANGED <<clock, dataOwner, writerOwner, runningDeferred, queueVars, threadVars>>

\* Fault: an element is linked before those with the same due time.
InsertBefore_Unstable(i, due) ==
    /\ i \in 1..Len(delayed) + 1
    /\ \A j \in 1..i - 1 : timespec_compare(due, when[delayed[j]]) > 0
    /\ i <= Len(delayed) => timespec_compare(due, when[delayed[i]]) <= 0

\* Fault: an element is linked at the end of the queue, whatever its due time.
InsertBefore_Last(i, due) == i = Len(delayed) + 1

\* The loop over the delayed queue stops at the first element due later.
InsertBefore(i, due) ==
    /\ i \in 1..Len(delayed) + 1
    /\ \A j \in 1..i - 1 : timespec_compare(due, when[delayed[j]]) >= 0
    /\ i <= Len(delayed) => timespec_compare(due, when[delayed[i]]) < 0

LinkBefore(i, e) ==
    [j \in 1..Len(delayed) + 1 |->
        CASE j < i -> delayed[j] [] j = i -> e [] j > i -> delayed[j - 1]]

\* The element is allocated before the lock is taken and numbered once it is held.
Enqueue(c, delay) ==
    LET e   == Len(started) + Len(deferred) + Len(delayed) + 1
        due == clock + delay
    IN  /\ pc[c] = "code"
        /\ dataOwner = NoOwner
        /\ e \in Elements
        /\ \/ /\ delay = 0
              /\ deferred' = Append(deferred, e)
              /\ UNCHANGED <<delayed, when>>
           \/ /\ delay # 0
              /\ \E i \in 1..Len(delayed) + 1 :
                    InsertBefore(i, due) /\ delayed' = LinkBefore(i, e)
              /\ when' = [when EXCEPT ![e] = due]
              /\ UNCHANGED deferred
        /\ Signal
        /\ UNCHANGED <<clock, dataOwner, writerOwner, wakeup, runningDeferred, started,
                       threadVars>>

\* No memory for the element: -ENOMEM is returned and nothing has changed, so the
\* failed call is a stuttering step and needs no action.

-----------------------------------------------------------------------------

Tick ==
    /\ clock < MaxTime
    /\ clock' = clock + 1
    /\ UNCHANGED <<dataOwner, writerOwner, wakeup, runningDeferred, queueVars, pc,
                   threadVars>>

Init ==
    /\ clock = 1
    /\ dataOwner = NoOwner
    /\ writerOwner = NoOwner
    /\ wakeup = 0
    /\ runningDeferred = 0
    /\ deferred = <<>>
    /\ delayed = <<>>
    /\ when = [e \in Elements |-> EndOfTime]
    /\ pc = [c \in Contexts |-> IF c[2] = "client" THEN "code" ELSE "off"]
    /\ ret = [t \in Threads |-> "none"]
    /\ phase = [t \in Threads |-> "none"]
    /\ now = [t \in Threads |-> EndOfTime]
    /\ until = [t \in Threads |-> EndOfTime]
    /\ deadline = [t \in Threads |-> EndOfTime]
    /\ started = <<>>

RunDeferredStep(t) ==
    \/ RunDeferredAction(t) \/ RunDeferredReadClock(t) \/ RunDelayedAction(t)
    \/ RunDeferredDone(t) \/ RunActionRelock(t)

WriterStep(c) ==
    \/ WriterLockData(c) \/ WriterLockUnlockData(c) \/ WriterLockWriter(c)
    \/ WriterUnlockData(c) \/ WriterUnlockUnlockData(c)

SleepStep(t) ==
    SleepRunDeferred(t) \/ SleepDone(t) \/ SleepWait(t) \/ SleepTimeout(t)

\* A caller sleeps until some future time, or, given EndOfTime, until woken.
CallSleep(t) ==
    /\ t \in Sleepers
    /\ \E time \in {EndOfTime} \cup (clock + 1)..MaxTime : Sleep(t, time)

\* MaxTime bounds due times, so that every delayed action can come due.
CallEnqueue(c) ==
    \E delay \in Delays : clock + delay <= MaxTime /\ Enqueue(c, delay)

Next ==
    \/ Tick
    \/ \E t \in Threads :
          RunDeferredStep(t) \/ ActionReturn(t) \/ CallSleep(t) \/ SleepStep(t)
          \/ SpuriousWakeup(t)
    \/ \E c \in Contexts :
          \/ WriterLock(c) \/ WriterUnlock(c) \/ WriterStep(c)
          \/ DataLock(c) \/ DataUnlock(c)
          \/ Wakeup(c) \/ CallEnqueue(c)

Spec == Init /\ [][Next]_vars

(* Every thread keeps running, and a mutex is granted to a thread that     *)
(* keeps asking for it.  A caller releases the writer lock it holds, an    *)
(* action returns, and a sleeper that has returned goes to sleep again.    *)
ThreadStep(t) ==
    \/ RunDeferredStep(t) \/ SleepStep(t)
    \/ \E c \in {client(t), action(t)} : WriterStep(c) \/ DataUnlock(c)

ReleaseWriter(t) == \E c \in {client(t), action(t)} : WriterUnlock(c)

Fairness ==
    /\ WF_vars(Tick)
    /\ \A t \in Threads :
          /\ SF_vars(ThreadStep(t))
          /\ SF_vars(ReleaseWriter(t))
          /\ SF_vars(ActionReturn(t) \/ CallSleep(t))

FairSpec == Spec /\ Fairness

-----------------------------------------------------------------------------
(* Properties.                                                             *)

RunLabels   == {"rd_loop", "rd_delayed", "in_action", "ra_relock"}
DataLabels  == {"rd_loop", "rd_delayed", "wl_unlock", "wu_unlock", "in_data", "sl_check"}
SleepLabels == {"sl_data", "sl_woken", "sl_check"}
Labels == {"off", "code", "in_data", "rd_loop", "rd_delayed", "in_action", "ra_relock",
           "wl_data", "wl_unlock", "wl_writer", "wu_data", "wu_unlock",
           "sl_data", "sl_check", "sl_wait", "sl_woken"}

QueueTypes ==
    /\ deferred \in Seq(Elements)
    /\ delayed \in Seq(Elements)
    /\ started \in Seq(Elements)
    /\ when \in [Elements -> Nat]

LockTypes ==
    /\ dataOwner \in Threads \cup {NoOwner}
    /\ writerOwner \in Contexts \cup {NoOwner}
    /\ wakeup \in {0, 1}
    /\ runningDeferred \in {0, 1}

ControlTypes ==
    /\ pc \in [Contexts -> Labels]
    /\ ret \in [Threads -> {"none", "wl_unlock", "wu_unlock", "sl_check"}]
    /\ phase \in [Threads -> {"none", "rd_loop", "rd_delayed"}]

TimeTypes ==
    /\ clock \in Nat \ {0}
    /\ now \in [Threads -> Nat]
    /\ until \in [Threads -> Nat]
    /\ deadline \in [Threads -> Nat]

\* The mutexes, the queues, the threads' places and the times keep their types.
TypeOK == QueueTypes /\ LockTypes /\ ControlTypes /\ TimeTypes

\* The data lock protects the queues: a thread inside run_deferred's loops, between
\* sleep's checks or in a caller's critical section owns data_mutex, and only then.
DataLockHeld ==
    \A t \in Threads :
        dataOwner = t <=> \E c \in {client(t), action(t)} : pc[c] \in DataLabels

\* running_deferred keeps every thread but one out of run_deferred, although
\* run_action releases the data lock around the action it calls.
OneRunner ==
    /\ \A t, u \in Threads :
          pc[client(t)] \in RunLabels /\ pc[client(u)] \in RunLabels => t = u
    /\ runningDeferred = 1 <=> \E t \in Threads : pc[client(t)] \in RunLabels

\* An action that takes the writer lock (to encode, say) is never called by a thread
\* that holds it: writer_lock runs deferred actions before it takes the mutex and
\* writer_unlock after it has released it.
NoSelfDeadlock ==
    \A t \in Threads : pc[action(t)] # "off" => writerOwner # client(t)

\* scheduler_wakeup is not lost: while its flag is up and some thread waits, another
\* sleeper is awake and on its way to the check that consumes the flag.
WakeupNotLost ==
    wakeup = 1 /\ Waiting # {} =>
        \E t \in Threads :
            \/ pc[client(t)] \in SleepLabels
            \/ pc[client(t)] \in RunLabels /\ ret[t] = "sl_check"

\* When one thread sleeps, it never waits past the due time at the head of the delayed
\* queue: enqueue signals it when it links an earlier element.
NoOversleep ==
    \A t \in Waiting :
        Sleepers = {t} => timespec_compare(deadline[t], HeadWhen) <= 0

\* "Run deferred tasks before sleeping" (the comment in scheduler_sleep): a thread that
\* starts to wait while nobody is running deferred actions leaves none behind that
\* could have been run.
NothingDeferredBeforeSleeping ==
    [][\A t \in Threads :
          pc[client(t)] = "sl_check" /\ pc'[client(t)] = "sl_wait" /\ runningDeferred = 0
              => deferred = <<>>]_vars

ElementsOf(queue) == {queue[i] : i \in DOMAIN queue}

\* The queues, the locks and the flag implement the promise of DeferredActions.
Abstract == INSTANCE DeferredActions WITH
    Immediate <- EndOfTime,
    submitted <- Len(started) + Len(deferred) + Len(delayed),
    pending   <- ElementsOf(deferred) \cup ElementsOf(delayed),
    due       <- when,
    busy      <- \E t \in Threads : pc[client(t)] = "in_action"
ImplementsDeferredActions == Abstract!Spec

\* Under a thread that sleeps again and again, every delayed action is called.
DelayedEventuallyRuns ==
    \A e \in Elements : e \in ElementsOf(delayed) ~> e \in ElementsOf(started)

\* Likewise for actions without delay, as long as no action has one: run_deferred looks
\* at the queue of delayed actions last, and what those enqueue can stay behind.
DeferredEventuallyRuns ==
    [](delayed = <<>>) =>
        \A e \in Elements : e \in ElementsOf(deferred) ~> e \in ElementsOf(started)

\* A thread asleep returns from scheduler_sleep after a wakeup, or another one does.
WakeupEventuallyConsumed ==
    wakeup = 1 /\ Waiting # {} ~> wakeup = 0
=============================================================================
