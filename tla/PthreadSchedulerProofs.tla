---------------------- MODULE PthreadSchedulerProofs ----------------------
(***************************************************************************)
(* Proofs about PthreadScheduler, for any number of threads, elements and  *)
(* delays.                                                                 *)
(***************************************************************************)
EXTENDS PthreadScheduler, TLAPS

(* A thread is in the body of an action exactly while its client context   *)
(* is inside run_action, and an action body is never in a loop of          *)
(* run_deferred and never sleeps.                                          *)
ContextInv ==
    \A t \in Threads :
        /\ pc[client(t)] # "off"
        /\ pc[action(t)] # "off" <=> pc[client(t)] = "in_action"
        /\ pc[action(t)] \in {"off", "code", "in_data", "wl_data", "wl_unlock", "wl_writer",
                              "wu_data", "wu_unlock"}

\* run_deferred knows where to return to, and run_action which loop called it.
ReturnInv ==
    \A t \in Threads :
        /\ pc[client(t)] \in RunLabels => ret[t] # "none"
        /\ pc[client(t)] \in {"in_action", "ra_relock"} <=> phase[t] # "none"

\* The loop over the delayed actions compares with a time that was read from the clock,
\* so it ends when the queue is empty.
ClockReadInv ==
    \A t \in Threads :
        pc[client(t)] = "rd_delayed" \/ phase[t] = "rd_delayed" => now[t] # EndOfTime

\* Whoever holds the writer lock is in its own code, not in a scheduler call.
WriterInv ==
    \A c \in Contexts : writerOwner = c => pc[c] \in {"code", "in_data"}

LockInv == DataLockHeld /\ OneRunner /\ ContextInv /\ ReturnInv /\ WriterInv

IInv == TypeOK /\ LockInv /\ ClockReadInv

-----------------------------------------------------------------------------

\* What the two contexts of a thread are: the facts about pairs the proofs need.
LEMMA ContextFacts ==
    /\ \A t \in Threads :
          /\ client(t) \in Contexts /\ thread(client(t)) = t
          /\ action(t) \in Contexts /\ thread(action(t)) = t
    /\ \A t, u \in Threads :
          /\ client(t) # action(u)
          /\ client(t) = client(u) => t = u
          /\ action(t) = action(u) => t = u
    /\ \A c \in Contexts :
          /\ thread(c) \in Threads
          /\ c = client(thread(c)) \/ c = action(thread(c))
    /\ NoOwner \notin Contexts
    /\ NoOwner \notin Threads
  BY ThreadsAssumption DEF Contexts, client, action, thread

\* Linking an element into the delayed queue gives a queue of elements.
LEMMA LinkBeforeType ==
    ASSUME delayed \in Seq(Elements), NEW i \in 1..Len(delayed) + 1, NEW e \in Elements
    PROVE  LinkBefore(i, e) \in Seq(Elements)
  <1> DEFINE n == Len(delayed)
  <1>1. n \in Nat /\ \A j \in 1..n : delayed[j] \in Elements
    OBVIOUS
  <1>2. \A j \in 1..n + 1 : LinkBefore(i, e)[j] \in Elements
    BY <1>1 DEF LinkBefore
  <1>3. LinkBefore(i, e) \in [1..n + 1 -> Elements]
    BY <1>2 DEF LinkBefore
  <1> QED
    BY <1>1, <1>3

\* The initial state satisfies the inductive invariant.
LEMMA InitIInv == Init => IInv
  <1> SUFFICES ASSUME Init PROVE IInv
    OBVIOUS
  <1> USE DEF Init
  <1>1. \A t \in Threads : pc[client(t)] = "code" /\ pc[action(t)] = "off"
    BY DEF Contexts, client, action
  <1>2. ControlTypes
    BY DEF ControlTypes, Labels
  <1>3. QueueTypes /\ LockTypes /\ TimeTypes
    BY BoundsAssumption DEF QueueTypes, LockTypes, TimeTypes, EndOfTime
  <1>4. DataLockHeld /\ WriterInv
    BY <1>1, ContextFacts DEF DataLockHeld, WriterInv, DataLabels
  <1>5. OneRunner /\ ContextInv /\ ReturnInv /\ ClockReadInv
    BY <1>1 DEF OneRunner, ContextInv, ReturnInv, ClockReadInv, RunLabels
  <1> QED
    BY <1>2, <1>3, <1>4, <1>5 DEF IInv, TypeOK, LockInv

\* Every step preserves the inductive invariant.
LEMMA NextIInv == IInv /\ [Next]_vars => IInv'
  <1> SUFFICES ASSUME IInv, [Next]_vars PROVE IInv'
    OBVIOUS
  <1> USE ContextFacts
  <1> USE DEF IInv, TypeOK, Goto, queueVars, threadVars
  <1>1. ASSUME Tick PROVE IInv'
    <2>1. QueueTypes'
      BY <1>1 DEF QueueTypes, Tick
    <2>2. LockTypes'
      BY <1>1 DEF LockTypes, Tick
    <2>3. ControlTypes'
      BY <1>1 DEF LockInv, ReturnInv, RunLabels, ControlTypes, Labels, Tick
    <2>4. TimeTypes'
      BY <1>1, BoundsAssumption DEF TimeTypes, Tick, EndOfTime
    <2>5. LockInv'
      BY <1>1
         DEF LockTypes, ControlTypes, LockInv, DataLockHeld, OneRunner, ContextInv,
             ReturnInv, WriterInv, DataLabels, RunLabels, Tick
    <2>6. ClockReadInv'
      BY <1>1
         DEF LockTypes, ControlTypes, TimeTypes, LockInv, ContextInv, ReturnInv,
             ClockReadInv, RunLabels, EndOfTime, Tick
    <2> QED
      BY <2>1, <2>2, <2>3, <2>4, <2>5, <2>6
  <1>2. ASSUME NEW t \in Threads, RunDeferredAction(t) PROVE IInv'
    <2>1. QueueTypes'
      BY <1>2 DEF QueueTypes, RunDeferredAction, RunAction, UnlockData
    <2>2. LockTypes'
      BY <1>2 DEF LockTypes, RunDeferredAction, RunAction, UnlockData
    <2>3. ControlTypes'
      BY <1>2
         DEF LockInv, ReturnInv, RunLabels, ControlTypes, Labels, RunDeferredAction,
             RunAction, UnlockData
    <2>4. TimeTypes'
      BY <1>2, BoundsAssumption
         DEF TimeTypes, RunDeferredAction, RunAction, UnlockData, EndOfTime
    <2>5. DataLockHeld'
      BY <1>2
        
            DEF ControlTypes, LockInv, DataLockHeld, ContextInv, DataLabels,
                RunDeferredAction, RunAction, UnlockData
    <2>6. OneRunner'
      BY <1>2
         DEF ControlTypes, LockInv, OneRunner, RunLabels, RunDeferredAction, RunAction,
             UnlockData
    <2>7. (ContextInv /\ ReturnInv /\ WriterInv)'
      BY <1>2
        
            DEF ControlTypes, LockInv, ContextInv, ReturnInv, WriterInv, RunLabels,
                RunDeferredAction, RunAction, UnlockData
    <2>8. ClockReadInv'
      BY <1>2
         DEF LockTypes, ControlTypes, TimeTypes, LockInv, ContextInv, ReturnInv,
             ClockReadInv, RunLabels, EndOfTime, RunDeferredAction, RunAction, UnlockData
    <2> QED
      BY <2>1, <2>2, <2>3, <2>4, <2>5, <2>6, <2>7, <2>8 DEF LockInv
  <1>3. ASSUME NEW t \in Threads, RunDeferredReadClock(t) PROVE IInv'
    <2>1. QueueTypes'
      BY <1>3 DEF QueueTypes, RunDeferredReadClock
    <2>2. LockTypes'
      BY <1>3 DEF LockTypes, RunDeferredReadClock
    <2>3. ControlTypes'
      BY <1>3 DEF LockInv, ReturnInv, RunLabels, ControlTypes, Labels, RunDeferredReadClock
    <2>4. TimeTypes'
      BY <1>3, BoundsAssumption DEF TimeTypes, RunDeferredReadClock, EndOfTime
    <2>5. LockInv'
      BY <1>3
         DEF LockTypes, ControlTypes, LockInv, DataLockHeld, OneRunner, ContextInv,
             ReturnInv, WriterInv, DataLabels, RunLabels, RunDeferredReadClock
    <2>6. ClockReadInv'
      BY <1>3
         DEF TimeTypes, LockTypes, ControlTypes, TimeTypes, LockInv, ContextInv,
             ReturnInv, ClockReadInv, RunLabels, EndOfTime, RunDeferredReadClock
    <2> QED
      BY <2>1, <2>2, <2>3, <2>4, <2>5, <2>6
  <1>4. ASSUME NEW t \in Threads, RunDelayedAction(t) PROVE IInv'
    <2>0. delayed # <<>>
      BY <1>4
        
            DEF ClockReadInv, TimeTypes, RunDelayedAction, HeadIsDue, HeadWhen,
                timespec_compare, EndOfTime
    <2>1. QueueTypes'
      BY <1>4, <2>0 DEF QueueTypes, RunDelayedAction, RunAction
    <2>2. LockTypes'
      BY <1>4 DEF LockTypes, RunDelayedAction, RunAction, UnlockData
    <2>3. ControlTypes'
      BY <1>4
         DEF LockInv, ReturnInv, RunLabels, ControlTypes, Labels, RunDelayedAction,
             RunAction, UnlockData
    <2>4. TimeTypes'
      BY <1>4, BoundsAssumption
         DEF TimeTypes, RunDelayedAction, RunAction, UnlockData, EndOfTime
    <2>5. DataLockHeld'
      BY <1>4
        
            DEF ControlTypes, LockInv, DataLockHeld, ContextInv, DataLabels,
                RunDelayedAction, RunAction, UnlockData
    <2>6. OneRunner'
      BY <1>4
         DEF ControlTypes, LockInv, OneRunner, RunLabels, RunDelayedAction, RunAction,
             UnlockData
    <2>7. (ContextInv /\ ReturnInv /\ WriterInv)'
      BY <1>4
        
            DEF ControlTypes, LockInv, ContextInv, ReturnInv, WriterInv, RunLabels,
                RunDelayedAction, RunAction, UnlockData
    <2>8. ClockReadInv'
      BY <1>4
         DEF LockTypes, ControlTypes, TimeTypes, LockInv, ContextInv, ReturnInv,
             ClockReadInv, RunLabels, EndOfTime, RunDelayedAction, RunAction, UnlockData
    <2> QED
      BY <2>1, <2>2, <2>3, <2>4, <2>5, <2>6, <2>7, <2>8 DEF LockInv
  <1>5. ASSUME NEW t \in Threads, RunDeferredDone(t) PROVE IInv'
    <2>1. QueueTypes'
      BY <1>5 DEF QueueTypes, RunDeferredDone
    <2>2. LockTypes'
      BY <1>5 DEF LockTypes, RunDeferredDone
    <2>3. ControlTypes'
      BY <1>5 DEF LockInv, ReturnInv, RunLabels, ControlTypes, Labels, RunDeferredDone
    <2>4. TimeTypes'
      BY <1>5, BoundsAssumption DEF TimeTypes, RunDeferredDone, EndOfTime
    <2>5. LockInv'
      BY <1>5
         DEF LockTypes, ControlTypes, LockInv, DataLockHeld, OneRunner, ContextInv,
             ReturnInv, WriterInv, DataLabels, RunLabels, RunDeferredDone
    <2>6. ClockReadInv'
      BY <1>5
         DEF LockTypes, ControlTypes, TimeTypes, LockInv, ContextInv, ReturnInv,
             ClockReadInv, RunLabels, EndOfTime, RunDeferredDone
    <2> QED
      BY <2>1, <2>2, <2>3, <2>4, <2>5, <2>6
  <1>6. ASSUME NEW t \in Threads, ActionReturn(t) PROVE IInv'
    <2>1. QueueTypes'
      BY <1>6 DEF QueueTypes, ActionReturn
    <2>2. LockTypes'
      BY <1>6 DEF LockTypes, ActionReturn
    <2>3. ControlTypes'
      BY <1>6 DEF LockInv, ReturnInv, RunLabels, ControlTypes, Labels, ActionReturn
    <2>4. TimeTypes'
      BY <1>6, BoundsAssumption DEF TimeTypes, ActionReturn, EndOfTime
    <2>5. LockInv'
      BY <1>6
         DEF LockTypes, ControlTypes, LockInv, DataLockHeld, OneRunner, ContextInv,
             ReturnInv, WriterInv, DataLabels, RunLabels, ActionReturn
    <2>6. ClockReadInv'
      BY <1>6
         DEF LockTypes, ControlTypes, TimeTypes, LockInv, ContextInv, ReturnInv,
             ClockReadInv, RunLabels, EndOfTime, ActionReturn
    <2> QED
      BY <2>1, <2>2, <2>3, <2>4, <2>5, <2>6
  <1>7. ASSUME NEW t \in Threads, RunActionRelock(t) PROVE IInv'
    <2>1. QueueTypes'
      BY <1>7 DEF QueueTypes, RunActionRelock, LockData
    <2>2. LockTypes'
      BY <1>7 DEF LockTypes, RunActionRelock, LockData
    <2>3. ControlTypes'
      BY <1>7
         DEF LockInv, ReturnInv, RunLabels, ControlTypes, Labels, RunActionRelock,
             LockData
    <2>4. TimeTypes'
      BY <1>7, BoundsAssumption DEF TimeTypes, RunActionRelock, LockData, EndOfTime
    <2>5. LockInv'
      BY <1>7
         DEF LockTypes, ControlTypes, LockInv, DataLockHeld, OneRunner, ContextInv,
             ReturnInv, WriterInv, DataLabels, RunLabels, RunActionRelock, LockData
    <2>6. ClockReadInv'
      BY <1>7
         DEF LockTypes, ControlTypes, TimeTypes, LockInv, ContextInv, ReturnInv,
             ClockReadInv, RunLabels, EndOfTime, RunActionRelock, LockData
    <2> QED
      BY <2>1, <2>2, <2>3, <2>4, <2>5, <2>6
  <1>8. ASSUME NEW t \in Threads, SleepRunDeferred(t) PROVE IInv'
    <2>1. QueueTypes'
      BY <1>8 DEF QueueTypes, SleepRunDeferred, LockData, RunDeferred
    <2>2. LockTypes'
      BY <1>8 DEF LockTypes, SleepRunDeferred, LockData, RunDeferred
    <2>3. ControlTypes'
      BY <1>8
         DEF LockInv, ReturnInv, RunLabels, ControlTypes, Labels, SleepRunDeferred,
             LockData, RunDeferred
    <2>4. TimeTypes'
      BY <1>8, BoundsAssumption
         DEF TimeTypes, SleepRunDeferred, LockData, RunDeferred, EndOfTime
    <2>5. LockInv'
      BY <1>8
         DEF LockTypes, ControlTypes, LockInv, DataLockHeld, OneRunner, ContextInv,
             ReturnInv, WriterInv, DataLabels, RunLabels, SleepRunDeferred, LockData, RunDeferred
    <2>6. ClockReadInv'
      BY <1>8
         DEF LockTypes, ControlTypes, TimeTypes, LockInv, ContextInv, ReturnInv,
             ClockReadInv, RunLabels, EndOfTime, SleepRunDeferred, LockData, RunDeferred
    <2> QED
      BY <2>1, <2>2, <2>3, <2>4, <2>5, <2>6
  <1>9. ASSUME NEW t \in Threads, SleepDone(t) PROVE IInv'
    <2>1. QueueTypes'
      BY <1>9 DEF QueueTypes, SleepDone, UnlockData
    <2>2. LockTypes'
      BY <1>9 DEF LockTypes, SleepDone, UnlockData
    <2>3. ControlTypes'
      BY <1>9 DEF LockInv, ReturnInv, RunLabels, ControlTypes, Labels, SleepDone, UnlockData
    <2>4. TimeTypes'
      BY <1>9, BoundsAssumption DEF TimeTypes, SleepDone, UnlockData, EndOfTime
    <2>5. LockInv'
      BY <1>9
         DEF LockTypes, ControlTypes, LockInv, DataLockHeld, OneRunner, ContextInv,
             ReturnInv, WriterInv, DataLabels, RunLabels, SleepDone, UnlockData
    <2>6. ClockReadInv'
      BY <1>9
         DEF LockTypes, ControlTypes, TimeTypes, LockInv, ContextInv, ReturnInv,
             ClockReadInv, RunLabels, EndOfTime, SleepDone, UnlockData
    <2> QED
      BY <2>1, <2>2, <2>3, <2>4, <2>5, <2>6
  <1>10. ASSUME NEW t \in Threads, SleepWait(t) PROVE IInv'
    <2>1. QueueTypes'
      BY <1>10 DEF QueueTypes, SleepWait, UnlockData, HeadWhen
    <2>2. LockTypes'
      BY <1>10 DEF LockTypes, SleepWait, UnlockData, HeadWhen
    <2>3. ControlTypes'
      BY <1>10
         DEF LockInv, ReturnInv, RunLabels, ControlTypes, Labels, SleepWait, UnlockData,
             HeadWhen
    <2>4. TimeTypes'
      BY <1>10 DEF TimeTypes, QueueTypes, SleepWait, UnlockData, HeadWhen, EndOfTime
    <2>5. LockInv'
      BY <1>10
         DEF LockTypes, ControlTypes, LockInv, DataLockHeld, OneRunner, ContextInv,
             ReturnInv, WriterInv, DataLabels, RunLabels, SleepWait, UnlockData, HeadWhen
    <2>6. ClockReadInv'
      BY <1>10
         DEF LockTypes, ControlTypes, TimeTypes, LockInv, ContextInv, ReturnInv,
             ClockReadInv, RunLabels, EndOfTime, SleepWait, UnlockData, HeadWhen
    <2> QED
      BY <2>1, <2>2, <2>3, <2>4, <2>5, <2>6
  <1>11. ASSUME NEW t \in Threads, SleepTimeout(t) PROVE IInv'
    <2>1. QueueTypes'
      BY <1>11 DEF QueueTypes, SleepTimeout
    <2>2. LockTypes'
      BY <1>11 DEF LockTypes, SleepTimeout
    <2>3. ControlTypes'
      BY <1>11 DEF LockInv, ReturnInv, RunLabels, ControlTypes, Labels, SleepTimeout
    <2>4. TimeTypes'
      BY <1>11, BoundsAssumption DEF TimeTypes, SleepTimeout, EndOfTime
    <2>5. LockInv'
      BY <1>11
         DEF LockTypes, ControlTypes, LockInv, DataLockHeld, OneRunner, ContextInv,
             ReturnInv, WriterInv, DataLabels, RunLabels, SleepTimeout
    <2>6. ClockReadInv'
      BY <1>11
         DEF LockTypes, ControlTypes, TimeTypes, LockInv, ContextInv, ReturnInv,
             ClockReadInv, RunLabels, EndOfTime, SleepTimeout
    <2> QED
      BY <2>1, <2>2, <2>3, <2>4, <2>5, <2>6
  <1>12. ASSUME NEW t \in Threads, SpuriousWakeup(t) PROVE IInv'
    <2>1. QueueTypes'
      BY <1>12 DEF QueueTypes, SpuriousWakeup
    <2>2. LockTypes'
      BY <1>12 DEF LockTypes, SpuriousWakeup
    <2>3. ControlTypes'
      BY <1>12 DEF LockInv, ReturnInv, RunLabels, ControlTypes, Labels, SpuriousWakeup
    <2>4. TimeTypes'
      BY <1>12, BoundsAssumption DEF TimeTypes, SpuriousWakeup, EndOfTime
    <2>5. LockInv'
      BY <1>12
         DEF LockTypes, ControlTypes, LockInv, DataLockHeld, OneRunner, ContextInv,
             ReturnInv, WriterInv, DataLabels, RunLabels, SpuriousWakeup
    <2>6. ClockReadInv'
      BY <1>12
         DEF LockTypes, ControlTypes, TimeTypes, LockInv, ContextInv, ReturnInv,
             ClockReadInv, RunLabels, EndOfTime, SpuriousWakeup
    <2> QED
      BY <2>1, <2>2, <2>3, <2>4, <2>5, <2>6
  <1>13. ASSUME NEW c \in Contexts, WriterLock(c) PROVE IInv'
    <2>1. QueueTypes'
      BY <1>13 DEF QueueTypes, WriterLock
    <2>2. LockTypes'
      BY <1>13 DEF LockTypes, WriterLock
    <2>3. ControlTypes'
      BY <1>13 DEF LockInv, ReturnInv, RunLabels, ControlTypes, Labels, WriterLock
    <2>4. TimeTypes'
      BY <1>13, BoundsAssumption DEF TimeTypes, WriterLock, EndOfTime
    <2>5. LockInv'
      BY <1>13
         DEF LockTypes, ControlTypes, LockInv, DataLockHeld, OneRunner, ContextInv,
             ReturnInv, WriterInv, DataLabels, RunLabels, WriterLock
    <2>6. ClockReadInv'
      BY <1>13
         DEF LockTypes, ControlTypes, TimeTypes, LockInv, ContextInv, ReturnInv,
             ClockReadInv, RunLabels, EndOfTime, WriterLock
    <2> QED
      BY <2>1, <2>2, <2>3, <2>4, <2>5, <2>6
  <1>14. ASSUME NEW c \in Contexts, WriterLockData(c) PROVE IInv'
    <2>1. QueueTypes'
      BY <1>14 DEF QueueTypes, WriterLockData, LockData, RunDeferred
    <2>2. LockTypes'
      BY <1>14 DEF LockTypes, WriterLockData, LockData, RunDeferred
    <2>3. ControlTypes'
      BY <1>14
         DEF LockInv, ReturnInv, RunLabels, ControlTypes, Labels, WriterLockData,
             LockData, RunDeferred
    <2>4. TimeTypes'
      BY <1>14, BoundsAssumption
         DEF TimeTypes, WriterLockData, LockData, RunDeferred, EndOfTime
    <2>5. LockInv'
      BY <1>14
         DEF LockTypes, ControlTypes, LockInv, DataLockHeld, OneRunner, ContextInv,
             ReturnInv, WriterInv, DataLabels, RunLabels, WriterLockData, LockData, RunDeferred
    <2>6. ClockReadInv'
      BY <1>14
         DEF LockTypes, ControlTypes, TimeTypes, LockInv, ContextInv, ReturnInv,
             ClockReadInv, RunLabels, EndOfTime, WriterLockData, LockData, RunDeferred
    <2> QED
      BY <2>1, <2>2, <2>3, <2>4, <2>5, <2>6
  <1>15. ASSUME NEW c \in Contexts, WriterLockUnlockData(c) PROVE IInv'
    <2>1. QueueTypes'
      BY <1>15 DEF QueueTypes, WriterLockUnlockData, UnlockData
    <2>2. LockTypes'
      BY <1>15 DEF LockTypes, WriterLockUnlockData, UnlockData
    <2>3. ControlTypes'
      BY <1>15
         DEF LockInv, ReturnInv, RunLabels, ControlTypes, Labels, WriterLockUnlockData,
             UnlockData
    <2>4. TimeTypes'
      BY <1>15, BoundsAssumption DEF TimeTypes, WriterLockUnlockData, UnlockData, EndOfTime
    <2>5. LockInv'
      BY <1>15
         DEF LockTypes, ControlTypes, LockInv, DataLockHeld, OneRunner, ContextInv,
             ReturnInv, WriterInv, DataLabels, RunLabels, WriterLockUnlockData, UnlockData
    <2>6. ClockReadInv'
      BY <1>15
         DEF LockTypes, ControlTypes, TimeTypes, LockInv, ContextInv, ReturnInv,
             ClockReadInv, RunLabels, EndOfTime, WriterLockUnlockData, UnlockData
    <2> QED
      BY <2>1, <2>2, <2>3, <2>4, <2>5, <2>6
  <1>16. ASSUME NEW c \in Contexts, WriterLockWriter(c) PROVE IInv'
    <2>1. QueueTypes'
      BY <1>16 DEF QueueTypes, WriterLockWriter
    <2>2. LockTypes'
      BY <1>16 DEF LockTypes, WriterLockWriter
    <2>3. ControlTypes'
      BY <1>16 DEF LockInv, ReturnInv, RunLabels, ControlTypes, Labels, WriterLockWriter
    <2>4. TimeTypes'
      BY <1>16, BoundsAssumption DEF TimeTypes, WriterLockWriter, EndOfTime
    <2>5. LockInv'
      BY <1>16
         DEF LockTypes, ControlTypes, LockInv, DataLockHeld, OneRunner, ContextInv,
             ReturnInv, WriterInv, DataLabels, RunLabels, WriterLockWriter
    <2>6. ClockReadInv'
      BY <1>16
         DEF LockTypes, ControlTypes, TimeTypes, LockInv, ContextInv, ReturnInv,
             ClockReadInv, RunLabels, EndOfTime, WriterLockWriter
    <2> QED
      BY <2>1, <2>2, <2>3, <2>4, <2>5, <2>6
  <1>17. ASSUME NEW c \in Contexts, WriterUnlock(c) PROVE IInv'
    <2>1. QueueTypes'
      BY <1>17 DEF QueueTypes, WriterUnlock
    <2>2. LockTypes'
      BY <1>17 DEF LockTypes, WriterUnlock
    <2>3. ControlTypes'
      BY <1>17 DEF LockInv, ReturnInv, RunLabels, ControlTypes, Labels, WriterUnlock
    <2>4. TimeTypes'
      BY <1>17, BoundsAssumption DEF TimeTypes, WriterUnlock, EndOfTime
    <2>5. LockInv'
      BY <1>17
         DEF LockTypes, ControlTypes, LockInv, DataLockHeld, OneRunner, ContextInv,
             ReturnInv, WriterInv, DataLabels, RunLabels, WriterUnlock
    <2>6. ClockReadInv'
      BY <1>17
         DEF LockTypes, ControlTypes, TimeTypes, LockInv, ContextInv, ReturnInv,
             ClockReadInv, RunLabels, EndOfTime, WriterUnlock
    <2> QED
      BY <2>1, <2>2, <2>3, <2>4, <2>5, <2>6
  <1>18. ASSUME NEW c \in Contexts, WriterUnlockData(c) PROVE IInv'
    <2>1. QueueTypes'
      BY <1>18 DEF QueueTypes, WriterUnlockData, LockData, RunDeferred
    <2>2. LockTypes'
      BY <1>18 DEF LockTypes, WriterUnlockData, LockData, RunDeferred
    <2>3. ControlTypes'
      BY <1>18
         DEF LockInv, ReturnInv, RunLabels, ControlTypes, Labels, WriterUnlockData,
             LockData, RunDeferred
    <2>4. TimeTypes'
      BY <1>18, BoundsAssumption
         DEF TimeTypes, WriterUnlockData, LockData, RunDeferred, EndOfTime
    <2>5. LockInv'
      BY <1>18
         DEF LockTypes, ControlTypes, LockInv, DataLockHeld, OneRunner, ContextInv,
             ReturnInv, WriterInv, DataLabels, RunLabels, WriterUnlockData, LockData, RunDeferred
    <2>6. ClockReadInv'
      BY <1>18
         DEF LockTypes, ControlTypes, TimeTypes, LockInv, ContextInv, ReturnInv,
             ClockReadInv, RunLabels, EndOfTime, WriterUnlockData, LockData, RunDeferred
    <2> QED
      BY <2>1, <2>2, <2>3, <2>4, <2>5, <2>6
  <1>19. ASSUME NEW c \in Contexts, WriterUnlockUnlockData(c) PROVE IInv'
    <2>1. QueueTypes'
      BY <1>19 DEF QueueTypes, WriterUnlockUnlockData, UnlockData
    <2>2. LockTypes'
      BY <1>19 DEF LockTypes, WriterUnlockUnlockData, UnlockData
    <2>3. ControlTypes'
      BY <1>19
         DEF LockInv, ReturnInv, RunLabels, ControlTypes, Labels, WriterUnlockUnlockData,
             UnlockData
    <2>4. TimeTypes'
      BY <1>19, BoundsAssumption
         DEF TimeTypes, WriterUnlockUnlockData, UnlockData, EndOfTime
    <2>5. LockInv'
      BY <1>19
         DEF LockTypes, ControlTypes, LockInv, DataLockHeld, OneRunner, ContextInv,
             ReturnInv, WriterInv, DataLabels, RunLabels, WriterUnlockUnlockData, UnlockData
    <2>6. ClockReadInv'
      BY <1>19
         DEF LockTypes, ControlTypes, TimeTypes, LockInv, ContextInv, ReturnInv,
             ClockReadInv, RunLabels, EndOfTime, WriterUnlockUnlockData, UnlockData
    <2> QED
      BY <2>1, <2>2, <2>3, <2>4, <2>5, <2>6
  <1>20. ASSUME NEW c \in Contexts, DataLock(c) PROVE IInv'
    <2>1. QueueTypes'
      BY <1>20 DEF QueueTypes, DataLock, LockData
    <2>2. LockTypes'
      BY <1>20 DEF LockTypes, DataLock, LockData
    <2>3. ControlTypes'
      BY <1>20 DEF LockInv, ReturnInv, RunLabels, ControlTypes, Labels, DataLock, LockData
    <2>4. TimeTypes'
      BY <1>20, BoundsAssumption DEF TimeTypes, DataLock, LockData, EndOfTime
    <2>5. LockInv'
      BY <1>20
         DEF LockTypes, ControlTypes, LockInv, DataLockHeld, OneRunner, ContextInv,
             ReturnInv, WriterInv, DataLabels, RunLabels, DataLock, LockData
    <2>6. ClockReadInv'
      BY <1>20
         DEF LockTypes, ControlTypes, TimeTypes, LockInv, ContextInv, ReturnInv,
             ClockReadInv, RunLabels, EndOfTime, DataLock, LockData
    <2> QED
      BY <2>1, <2>2, <2>3, <2>4, <2>5, <2>6
  <1>21. ASSUME NEW c \in Contexts, DataUnlock(c) PROVE IInv'
    <2>1. QueueTypes'
      BY <1>21 DEF QueueTypes, DataUnlock, UnlockData
    <2>2. LockTypes'
      BY <1>21 DEF LockTypes, DataUnlock, UnlockData
    <2>3. ControlTypes'
      BY <1>21
         DEF LockInv, ReturnInv, RunLabels, ControlTypes, Labels, DataUnlock, UnlockData
    <2>4. TimeTypes'
      BY <1>21, BoundsAssumption DEF TimeTypes, DataUnlock, UnlockData, EndOfTime
    <2>5. LockInv'
      BY <1>21
         DEF LockTypes, ControlTypes, LockInv, DataLockHeld, OneRunner, ContextInv,
             ReturnInv, WriterInv, DataLabels, RunLabels, DataUnlock, UnlockData
    <2>6. ClockReadInv'
      BY <1>21
         DEF LockTypes, ControlTypes, TimeTypes, LockInv, ContextInv, ReturnInv,
             ClockReadInv, RunLabels, EndOfTime, DataUnlock, UnlockData
    <2> QED
      BY <2>1, <2>2, <2>3, <2>4, <2>5, <2>6
  <1>22. ASSUME NEW c \in Contexts, Wakeup(c) PROVE IInv'
    <2>1. QueueTypes'
      BY <1>22 DEF QueueTypes, Wakeup, Signal, Waiting
    <2>2. LockTypes'
      BY <1>22 DEF LockTypes, Wakeup, Signal, Waiting
    <2>3. ControlTypes'
      BY <1>22
         DEF LockInv, ReturnInv, RunLabels, ControlTypes, Labels, Wakeup, Signal, Waiting
    <2>4. TimeTypes'
      BY <1>22, BoundsAssumption DEF TimeTypes, Wakeup, Signal, Waiting, EndOfTime
    <2>5. LockInv'
      BY <1>22
         DEF LockTypes, ControlTypes, LockInv, DataLockHeld, OneRunner, ContextInv,
             ReturnInv, WriterInv, DataLabels, RunLabels, Wakeup, Signal, Waiting
    <2>6. ClockReadInv'
      BY <1>22
         DEF LockTypes, ControlTypes, TimeTypes, LockInv, ContextInv, ReturnInv,
             ClockReadInv, RunLabels, EndOfTime, Wakeup, Signal, Waiting
    <2> QED
      BY <2>1, <2>2, <2>3, <2>4, <2>5, <2>6
  <1>23. ASSUME NEW t \in Threads, CallSleep(t) PROVE IInv'
    <2>0. PICK time \in {EndOfTime} \cup (clock + 1)..MaxTime : Sleep(t, time)
      BY <1>23 DEF CallSleep
    <2>1. QueueTypes' /\ LockTypes'
      BY <2>0 DEF QueueTypes, LockTypes, Sleep
    <2>2. ControlTypes'
      BY <2>0 DEF ControlTypes, Labels, Sleep
    <2>3. TimeTypes'
      BY <2>0, BoundsAssumption DEF TimeTypes, EndOfTime, Sleep
    <2>4. LockInv'
      BY <2>0
         DEF LockTypes, ControlTypes, LockInv, DataLockHeld, OneRunner, ContextInv,
             ReturnInv, WriterInv, DataLabels, RunLabels, Sleep
    <2>5. ClockReadInv'
      BY <2>0 DEF ControlTypes, ClockReadInv, Sleep
    <2> QED
      BY <2>1, <2>2, <2>3, <2>4, <2>5
  <1>24. ASSUME NEW c \in Contexts, CallEnqueue(c) PROVE IInv'
    <2>0. PICK delay \in Delays : Enqueue(c, delay)
      BY <1>24 DEF CallEnqueue
    <2> DEFINE e == Len(started) + Len(deferred) + Len(delayed) + 1
    <2>1. QueueTypes'
      <3>1. e \in Elements /\ started' = started
        BY <2>0 DEF Enqueue
      <3>2. CASE delay = 0
        <4>1. deferred' = Append(deferred, e) /\ UNCHANGED <<delayed, when>>
          BY <2>0, <3>2 DEF Enqueue
        <4> HIDE DEF e
        <4> QED
          BY <3>1, <4>1 DEF QueueTypes
      <3>3. CASE delay # 0
        <4>1. PICK i \in 1..Len(delayed) + 1 : delayed' = LinkBefore(i, e)
          BY <2>0, <3>3 DEF Enqueue
        <4>2. delayed' \in Seq(Elements)
          BY <3>1, <4>1, LinkBeforeType DEF QueueTypes
        <4>3. clock + delay \in Nat
          BY BoundsAssumption DEF TimeTypes
        <4>4. when' \in [Elements -> Nat]
          BY <2>0, <3>1, <3>3, <4>3 DEF Enqueue, QueueTypes
        <4> QED
          BY <2>0, <3>1, <3>3, <4>2, <4>4 DEF Enqueue, QueueTypes
      <3> QED
        BY <3>2, <3>3
    <2>2. LockTypes' /\ TimeTypes'
      BY <2>0 DEF LockTypes, TimeTypes, Enqueue
    <2>3. Signal /\ UNCHANGED <<dataOwner, writerOwner, runningDeferred, now, ret, phase>>
      BY <2>0 DEF Enqueue
    <2>4. ControlTypes'
      BY <2>3 DEF ControlTypes, Labels, Signal, Waiting
    <2>5. LockInv'
      BY <2>3
         DEF LockTypes, ControlTypes, LockInv, DataLockHeld, OneRunner, ContextInv,
             ReturnInv, WriterInv, DataLabels, RunLabels, Signal, Waiting
    <2>6. ClockReadInv'
      BY <2>3 DEF ControlTypes, ClockReadInv, Signal, Waiting
    <2> QED
      BY <2>1, <2>2, <2>4, <2>5, <2>6
  <1>25. CASE UNCHANGED vars
    BY <1>25
       DEF vars, QueueTypes, LockTypes, ControlTypes, TimeTypes, LockInv, DataLockHeld,
           OneRunner, ContextInv, ReturnInv, WriterInv, ClockReadInv
  <1> QED
    BY <1>1, <1>2, <1>3, <1>4, <1>5, <1>6, <1>7, <1>8, <1>9, <1>10, <1>11, <1>12, <1>13,
       <1>14, <1>15, <1>16, <1>17, <1>18, <1>19, <1>20, <1>21, <1>22, <1>23, <1>24, <1>25
       DEF Next, RunDeferredStep, SleepStep, WriterStep

-----------------------------------------------------------------------------

\* The variables keep their types: the sequences hold elements, the locks name
\* a thread or a context, and no context jumps to a label that does not exist.
THEOREM TypeCorrect == Spec => []TypeOK
  <1>1. IInv => TypeOK
    BY DEF IInv
  <1> QED
    BY <1>1, InitIInv, NextIInv, PTL DEF Spec

\* data_mutex is owned exactly by the thread inside one of its critical sections.
THEOREM DataLockCorrect == Spec => []DataLockHeld
  <1>1. IInv => DataLockHeld
    BY DEF IInv, LockInv
  <1> QED
    BY <1>1, InitIInv, NextIInv, PTL DEF Spec

\* At most one thread is in run_deferred, however many call it.
THEOREM OneRunnerCorrect == Spec => []OneRunner
  <1>1. IInv => OneRunner
    BY DEF IInv, LockInv
  <1> QED
    BY <1>1, InitIInv, NextIInv, PTL DEF Spec

\* A deferred action never finds the writer lock held by the code it interrupted.
THEOREM NoSelfDeadlockCorrect == Spec => []NoSelfDeadlock
  <1>1. IInv => NoSelfDeadlock
    BY ContextFacts DEF IInv, LockInv, NoSelfDeadlock, ContextInv, WriterInv
  <1> QED
    BY <1>1, InitIInv, NextIInv, PTL DEF Spec

-----------------------------------------------------------------------------
(* The wakeup flag and the sleepers.                                       *)

\* A thread in scheduler_sleep that is not waiting, or in run_deferred on its behalf:
\* it will look at the wakeup flag again before it waits.
WillCheck(t) ==
    \/ pc[client(t)] \in SleepLabels
    \/ pc[client(t)] \in RunLabels /\ ret[t] = "sl_check"

\* Only the threads whose client code sleeps are ever in scheduler_sleep.
SleeperInv ==
    \A t \in Threads : WillCheck(t) \/ pc[client(t)] = "sl_wait" => t \in Sleepers

SleepInv == WakeupNotLost /\ SleeperInv

\* Every step preserves the invariant of the sleepers.
LEMMA NextSleepInv == IInv /\ SleepInv /\ [Next]_vars => SleepInv'
  <1> SUFFICES ASSUME IInv, SleepInv, [Next]_vars PROVE SleepInv'
    OBVIOUS
  <1> USE ContextFacts
  <1> USE DEF IInv, TypeOK, LockTypes, ControlTypes, LockInv, OneRunner, ContextInv, ReturnInv,
              SleepInv, WakeupNotLost, SleeperInv, WillCheck, Waiting, RunLabels, SleepLabels,
              Goto, threadVars
  <1>1. ASSUME Tick PROVE SleepInv'
    BY <1>1 DEF Tick
  <1>2. ASSUME NEW t \in Threads, RunDeferredAction(t) PROVE SleepInv'
    BY <1>2 DEF RunDeferredAction, RunAction
  <1>3. ASSUME NEW t \in Threads, RunDeferredReadClock(t) PROVE SleepInv'
    BY <1>3 DEF RunDeferredReadClock
  <1>4. ASSUME NEW t \in Threads, RunDelayedAction(t) PROVE SleepInv'
    BY <1>4 DEF RunDelayedAction, RunAction
  <1>5. ASSUME NEW t \in Threads, RunDeferredDone(t) PROVE SleepInv'
    BY <1>5 DEF RunDeferredDone
  <1>6. ASSUME NEW t \in Threads, ActionReturn(t) PROVE SleepInv'
    BY <1>6 DEF ActionReturn
  <1>7. ASSUME NEW t \in Threads, RunActionRelock(t) PROVE SleepInv'
    BY <1>7 DEF RunActionRelock
  <1>8. ASSUME NEW t \in Threads, SleepRunDeferred(t) PROVE SleepInv'
    BY <1>8 DEF SleepRunDeferred, RunDeferred
  <1>9. ASSUME NEW t \in Threads, SleepDone(t) PROVE SleepInv'
    BY <1>9 DEF SleepDone, DoneWaiting
  <1>10. ASSUME NEW t \in Threads, SleepWait(t) PROVE SleepInv'
    BY <1>10 DEF SleepWait, DoneWaiting
  <1>11. ASSUME NEW t \in Threads, SleepTimeout(t) PROVE SleepInv'
    BY <1>11 DEF SleepTimeout
  <1>12. ASSUME NEW t \in Threads, SpuriousWakeup(t) PROVE SleepInv'
    BY <1>12 DEF SpuriousWakeup
  <1>13. ASSUME NEW c \in Contexts, WriterLock(c) PROVE SleepInv'
    BY <1>13 DEF WriterLock
  <1>14. ASSUME NEW c \in Contexts, WriterLockData(c) PROVE SleepInv'
    BY <1>14 DEF WriterLockData, RunDeferred
  <1>15. ASSUME NEW c \in Contexts, WriterLockUnlockData(c) PROVE SleepInv'
    BY <1>15 DEF WriterLockUnlockData
  <1>16. ASSUME NEW c \in Contexts, WriterLockWriter(c) PROVE SleepInv'
    BY <1>16 DEF WriterLockWriter
  <1>17. ASSUME NEW c \in Contexts, WriterUnlock(c) PROVE SleepInv'
    BY <1>17 DEF WriterUnlock
  <1>18. ASSUME NEW c \in Contexts, WriterUnlockData(c) PROVE SleepInv'
    BY <1>18 DEF WriterUnlockData, RunDeferred
  <1>19. ASSUME NEW c \in Contexts, WriterUnlockUnlockData(c) PROVE SleepInv'
    BY <1>19 DEF WriterUnlockUnlockData
  <1>20. ASSUME NEW c \in Contexts, DataLock(c) PROVE SleepInv'
    BY <1>20 DEF DataLock
  <1>21. ASSUME NEW c \in Contexts, DataUnlock(c) PROVE SleepInv'
    BY <1>21 DEF DataUnlock
  <1>22. ASSUME NEW c \in Contexts, Wakeup(c) PROVE SleepInv'
    BY <1>22 DEF Wakeup, Signal, Waiting
  <1>23. ASSUME NEW t \in Threads, CallSleep(t) PROVE SleepInv'
    BY <1>23 DEF CallSleep, Sleep
  <1>24. ASSUME NEW c \in Contexts, CallEnqueue(c) PROVE SleepInv'
    <2>1. Signal /\ UNCHANGED <<wakeup, ret>>
      BY <1>24 DEF CallEnqueue, Enqueue
    <2> QED
      BY <2>1 DEF Signal
  <1>25. CASE UNCHANGED vars
    BY <1>25 DEF vars
  <1> QED
    BY <1>1, <1>2, <1>3, <1>4, <1>5, <1>6, <1>7, <1>8, <1>9, <1>10, <1>11, <1>12, <1>13,
       <1>14, <1>15, <1>16, <1>17, <1>18, <1>19, <1>20, <1>21, <1>22, <1>23, <1>24, <1>25
       DEF Next, RunDeferredStep, SleepStep, WriterStep

\* A wakeup is not lost: while the flag is up and some thread waits, another sleeper is
\* on its way to the check that consumes the flag.
THEOREM WakeupNotLostCorrect == Spec => []WakeupNotLost
  <1>1. Init => SleepInv
    BY ContextFacts DEF Init, SleepInv, WakeupNotLost, SleeperInv, WillCheck, SleepLabels,
                        RunLabels, Contexts, client
  <1>2. SleepInv => WakeupNotLost
    BY DEF SleepInv
  <1> QED
    BY <1>1, <1>2, InitIInv, NextIInv, NextSleepInv, PTL DEF Spec

-----------------------------------------------------------------------------
(* The queues.  An element is in at most one of them, the deferred ones in *)
(* the order they were enqueued and the delayed ones by due time, ties in  *)
(* the order they were enqueued; the numbers not yet given have no time.   *)

Submitted == Len(started) + Len(deferred) + Len(delayed)

DeferredInv ==
    /\ \A i \in 1..Len(deferred) :
          deferred[i] <= Submitted /\ when[deferred[i]] = EndOfTime
    /\ \A i, j \in 1..Len(deferred) : i < j => deferred[i] < deferred[j]

DelayedInv ==
    /\ \A i \in 1..Len(delayed) : delayed[i] <= Submitted /\ when[delayed[i]] # EndOfTime
    /\ \A i, j \in 1..Len(delayed) :
          i < j => \/ when[delayed[i]] < when[delayed[j]]
                   \/ when[delayed[i]] = when[delayed[j]] /\ delayed[i] < delayed[j]

FreshInv == \A e \in Elements : e > Submitted => when[e] = EndOfTime

\* A thread that runs deferred actions compares with a time that has come.
NowInv == \A t \in Threads : now[t] <= clock

QueueInv == DeferredInv /\ DelayedInv /\ FreshInv /\ NowInv

\* The steps that leave the queues alone and call no action.
ControlStep ==
    \/ \E t \in Threads :
          \/ RunDeferredReadClock(t) \/ RunDeferredDone(t) \/ RunActionRelock(t)
          \/ CallSleep(t) \/ SleepStep(t) \/ SpuriousWakeup(t)
    \/ \E c \in Contexts :
          \/ WriterLock(c) \/ WriterUnlock(c) \/ WriterStep(c)
          \/ DataLock(c) \/ DataUnlock(c) \/ Wakeup(c)

\* Running the first element of a queue leaves the rest of it, in order.
LEMMA TailFacts ==
    ASSUME NEW q \in Seq(Elements), q # <<>>
    PROVE  /\ Len(q) \in Nat /\ Len(q) > 0
           /\ Head(q) = q[1] /\ Head(q) \in Elements
           /\ Tail(q) \in Seq(Elements) /\ Len(Tail(q)) = Len(q) - 1
           /\ \A i \in 1..Len(q) - 1 : Tail(q)[i] = q[i + 1]
  OBVIOUS

\* An element runs: the queues lose their head and started gains it, so as many
\* elements have been submitted as before.
LEMMA RunKeepsQueueInv ==
    ASSUME IInv, QueueInv, NEW t \in Threads, RunDeferredAction(t) \/ RunDelayedAction(t)
    PROVE  QueueInv' /\ Submitted' = Submitted
  <1> USE DEF IInv, TypeOK, QueueTypes
  <1>1. CASE RunDeferredAction(t)
    <2>1. /\ deferred # <<>> /\ deferred' = Tail(deferred)
          /\ Len(started') = Len(started) + 1 /\ UNCHANGED <<delayed, when, now, clock>>
      BY <1>1, TailFacts DEF RunDeferredAction, RunAction
    <2>2. Submitted' = Submitted
      BY <2>1, TailFacts DEF Submitted
    <2>3. DeferredInv'
      BY <2>1, <2>2, TailFacts DEF QueueInv, DeferredInv
    <2>4. DelayedInv' /\ FreshInv' /\ NowInv'
      BY <2>1, <2>2 DEF QueueInv, DelayedInv, FreshInv, NowInv
    <2> QED
      BY <2>2, <2>3, <2>4 DEF QueueInv
  <1>2. CASE RunDelayedAction(t)
    <2>0. delayed # <<>>
      BY <1>2
         DEF ClockReadInv, TimeTypes, RunDelayedAction, HeadIsDue, HeadWhen,
             timespec_compare, EndOfTime
    <2>1. /\ delayed' = Tail(delayed)
          /\ Len(started') = Len(started) + 1 /\ UNCHANGED <<deferred, when, now, clock>>
      BY <1>2, <2>0, TailFacts DEF RunDelayedAction, RunAction
    <2>2. Submitted' = Submitted
      BY <2>0, <2>1, TailFacts DEF Submitted
    <2>3. DelayedInv'
      BY <2>0, <2>1, <2>2, TailFacts DEF QueueInv, DelayedInv
    <2>4. DeferredInv' /\ FreshInv' /\ NowInv'
      BY <2>1, <2>2 DEF QueueInv, DeferredInv, FreshInv, NowInv
    <2> QED
      BY <2>2, <2>3, <2>4 DEF QueueInv
  <1> QED
    BY <1>1, <1>2

\* The other steps but the clock's, an action's return and an enqueue leave the queues.
LEMMA ControlStepQueues ==
    ASSUME ControlStep
    PROVE  UNCHANGED <<clock, deferred, delayed, when, started>>
  BY DEF ControlStep, SleepStep, WriterStep, RunDeferredReadClock, RunDeferredDone,
         RunActionRelock, CallSleep, Sleep, SleepRunDeferred, SleepDone, SleepWait,
         SleepTimeout, SpuriousWakeup, WriterLock, WriterUnlock, WriterLockData,
         WriterLockUnlockData, WriterLockWriter, WriterUnlockData,
         WriterUnlockUnlockData, DataLock, DataUnlock, Wakeup, queueVars

\* What linking an element before the i-th one does to the delayed queue.
LEMMA LinkBeforeFacts ==
    ASSUME delayed \in Seq(Elements), NEW i \in 1..Len(delayed) + 1, NEW e \in Elements
    PROVE  /\ Len(LinkBefore(i, e)) = Len(delayed) + 1
           /\ LinkBefore(i, e)[i] = e
           /\ \A j \in 1..Len(delayed) + 1 :
                 /\ j < i => j \in 1..Len(delayed) /\ LinkBefore(i, e)[j] = delayed[j]
                 /\ j > i => j - 1 \in 1..Len(delayed) /\ LinkBefore(i, e)[j] = delayed[j - 1]
  <1> DEFINE n == Len(delayed)
  <1>1. n \in Nat
    OBVIOUS
  <1>2. DOMAIN LinkBefore(i, e) = 1..n + 1
    BY DEF LinkBefore
  <1>3. Len(LinkBefore(i, e)) = n + 1
    BY <1>1, <1>2, LinkBeforeType
  <1>4. \A j \in 1..n + 1 :
           LinkBefore(i, e)[j] = CASE j < i -> delayed[j] [] j = i -> e [] j > i -> delayed[j - 1]
    BY DEF LinkBefore
  <1> HIDE DEF n
  <1> QED
    BY <1>1, <1>3, <1>4 DEF n

\* On times other than the end of time, timespec_compare is the order of the numbers.
LEMMA CompareFacts ==
    ASSUME NEW a \in Nat \ {EndOfTime}, NEW b \in Nat \ {EndOfTime}
    PROVE  /\ timespec_compare(a, b) >= 0 <=> b <= a
           /\ timespec_compare(a, b) < 0 <=> a < b
           /\ timespec_compare(a, b) <= 0 <=> a <= b
  BY DEF timespec_compare, EndOfTime

\* Enqueueing numbers the element, and keeps both queues in order.
LEMMA EnqueueKeepsQueueInv ==
    ASSUME IInv, QueueInv, NEW c \in Contexts, NEW delay \in Delays, Enqueue(c, delay)
    PROVE  QueueInv' /\ Submitted' = Submitted + 1
  <1> DEFINE e == Submitted + 1
  <1> DEFINE n == Len(deferred)
  <1> DEFINE m == Len(delayed)
  <1>1. /\ e \in Elements
        /\ UNCHANGED <<clock, started, now>>
    BY DEF Enqueue, Submitted, threadVars
  <1>2. /\ deferred \in Seq(Elements) /\ delayed \in Seq(Elements)
        /\ when \in [Elements -> Nat] /\ n \in Nat /\ m \in Nat
    BY DEF IInv, TypeOK, QueueTypes
  <1>3. Submitted \in Nat /\ e = Submitted + 1 /\ Elements \subseteq Nat /\ EndOfTime = 0
    BY BoundsAssumption DEF Submitted, Elements, IInv, TypeOK, QueueTypes, EndOfTime
  <1>4. \A i \in 1..n : deferred[i] \in Elements /\ deferred[i] \in Nat
    <2>1. \A i \in 1..n : deferred[i] \in Elements
      BY <1>2
    <2> QED
      BY <1>3, <2>1
  <1>5. \A i \in 1..m : delayed[i] \in Elements /\ delayed[i] \in Nat /\ when[delayed[i]] \in Nat
    <2>1. \A i \in 1..m : delayed[i] \in Elements
      BY <1>2
    <2>2. \A x \in Elements : when[x] \in Nat
      BY <1>2
    <2> QED
      BY <1>3, <2>1, <2>2
  <1>6. CASE delay = 0
    <2>1. deferred' = Append(deferred, e) /\ UNCHANGED <<delayed, when>>
      BY <1>6 DEF Enqueue, Submitted
    <2> HIDE DEF e
    <2>2. /\ Len(deferred') = n + 1
          /\ deferred'[n + 1] = e
          /\ \A i \in 1..n : deferred'[i] = deferred[i]
      BY <1>1, <1>2, <2>1
    <2>3. Submitted' = Submitted + 1
      BY <1>1, <1>2, <2>1, <2>2 DEF Submitted, IInv, TypeOK, QueueTypes
    <2>4. when'[e] = EndOfTime
      BY <1>1, <1>3, <2>1 DEF QueueInv, FreshInv
    <2> HIDE DEF n
    <2>5. \A i \in 1..n : deferred[i] <= Submitted /\ when'[deferred[i]] = EndOfTime
      BY <2>1 DEF QueueInv, DeferredInv, n
    <2>6. \A i, j \in 1..n : i < j => deferred[i] < deferred[j]
      BY DEF QueueInv, DeferredInv, n
    <2>7. \A i \in 1..n + 1 : i \in 1..n \/ i = n + 1
      BY <1>2
    <2>8. \A i \in 1..n + 1 : deferred'[i] <= Submitted' /\ when'[deferred'[i]] = EndOfTime
      BY <1>3, <1>4, <2>2, <2>3, <2>4, <2>5, <2>7
    <2>9. ASSUME NEW i \in 1..n + 1, NEW j \in 1..n + 1, i < j
          PROVE  deferred'[i] < deferred'[j]
      <3>1. i \in 1..n
        BY <1>2, <2>9
      <3>2. CASE j \in 1..n
        BY <2>2, <2>6, <2>9, <3>1, <3>2
      <3>3. CASE j = n + 1
        BY <1>3, <1>4, <2>2, <2>5, <3>1, <3>3
      <3> QED
        BY <2>7, <3>2, <3>3
    <2>10. DeferredInv'
      BY <2>2, <2>8, <2>9 DEF DeferredInv
    <2>11. DelayedInv'
      BY <1>3, <1>5, <2>1, <2>3 DEF QueueInv, DelayedInv
    <2>12. FreshInv' /\ NowInv'
      BY <1>1, <1>3, <2>1, <2>3 DEF QueueInv, FreshInv, NowInv
    <2> QED
      BY <2>3, <2>10, <2>11, <2>12 DEF QueueInv
  <1>7. CASE delay # 0
    <2> DEFINE due == clock + delay
    <2>1. PICK i \in 1..Len(delayed) + 1 :
             InsertBefore(i, due) /\ delayed' = LinkBefore(i, e)
      BY <1>7 DEF Enqueue, Submitted
    <2>2. when' = [when EXCEPT ![e] = due] /\ UNCHANGED deferred
      BY <1>7 DEF Enqueue, Submitted
    <2>3. due \in Nat \ {EndOfTime}
      BY BoundsAssumption DEF IInv, TypeOK, TimeTypes, EndOfTime
    <2> HIDE DEF e, due
    <2>4. /\ Len(delayed') = m + 1 /\ delayed'[i] = e
          /\ \A j \in 1..m + 1 :
                /\ j < i => j \in 1..m /\ delayed'[j] = delayed[j]
                /\ j > i => j - 1 \in 1..m /\ delayed'[j] = delayed[j - 1]
      BY <1>1, <1>2, <2>1, LinkBeforeFacts
    <2>5. Submitted' = Submitted + 1
      BY <1>1, <2>2, <2>4 DEF Submitted, IInv, TypeOK, QueueTypes
    <2>6. \A f \in Elements : f # e => when'[f] = when[f]
      BY <1>2, <2>2
    <2>7. when'[e] = due
      BY <1>1, <1>2, <2>2
    <2>8. DeferredInv'
      <3>1. \A j \in 1..n : deferred[j] <= Submitted + 1 /\ when'[deferred[j]] = EndOfTime
        BY <1>3, <1>4, <2>6 DEF QueueInv, DeferredInv
      <3> QED
        BY <2>2, <2>5, <3>1 DEF QueueInv, DeferredInv
    <2>9. FreshInv' /\ NowInv'
      BY <1>1, <1>3, <2>5, <2>6 DEF QueueInv, FreshInv, NowInv
    <2> HIDE DEF m, n
    <2>10. \A j \in 1..m :
              /\ delayed[j] <= Submitted /\ when[delayed[j]] \in Nat \ {EndOfTime}
              /\ when'[delayed[j]] = when[delayed[j]]
      BY <1>3, <1>5, <2>6 DEF QueueInv, DelayedInv, m
    <2>11. \A j, k \in 1..m :
              j < k => \/ when[delayed[j]] < when[delayed[k]]
                       \/ when[delayed[j]] = when[delayed[k]] /\ delayed[j] < delayed[k]
      BY DEF QueueInv, DelayedInv, m
    <2>12. i \in 1..m + 1
      BY DEF m
    <2>13. \A j \in 1..m : j < i => when[delayed[j]] <= due
      <3>1. \A j \in 1..m : j < i => timespec_compare(due, when[delayed[j]]) >= 0
        BY <1>2, <2>1, <2>12 DEF InsertBefore
      <3> QED
        BY <2>3, <2>10, <3>1, CompareFacts
    <2>14. \A j \in 1..m : j >= i => due < when[delayed[j]]
      <3> SUFFICES ASSUME NEW j \in 1..m, j >= i PROVE due < when[delayed[j]]
        OBVIOUS
      <3>1. i \in 1..m
        BY <1>2, <2>12
      <3>2. timespec_compare(due, when[delayed[i]]) < 0
        BY <2>1, <3>1 DEF InsertBefore, m
      <3>3. due < when[delayed[i]]
        BY <2>3, <2>10, <3>1, <3>2, CompareFacts
      <3>4. when[delayed[i]] <= when[delayed[j]]
        BY <1>2, <2>10, <2>11, <3>1, SMTT(30)
      <3>5. when[delayed[i]] \in Nat /\ when[delayed[j]] \in Nat
        BY <2>10, <3>1
      <3> QED
        BY <2>3, <3>3, <3>4, <3>5
    <2>15. ASSUME NEW j \in 1..m + 1
           PROVE  delayed'[j] <= Submitted + 1 /\ when'[delayed'[j]] # EndOfTime
      <3>1. CASE j = i
        BY <1>3, <2>3, <2>4, <2>7, <3>1
      <3>2. CASE j # i
        <4>0. j < i \/ j > i
          BY <1>2, <2>12, <3>2
        <4>1. PICK k \in 1..m : delayed'[j] = delayed[k]
          BY <2>4, <4>0
        <4> QED
          BY <1>3, <1>5, <2>10, <4>1 DEF m
      <3> QED
        BY <3>1, <3>2
    <2>16. ASSUME NEW j \in 1..m + 1, NEW k \in 1..m + 1, j < k
           PROVE  \/ when'[delayed'[j]] < when'[delayed'[k]]
                  \/ when'[delayed'[j]] = when'[delayed'[k]] /\ delayed'[j] < delayed'[k]
      <3>1. CASE k < i
        <4>1. j \in 1..m /\ k \in 1..m /\ delayed'[j] = delayed[j] /\ delayed'[k] = delayed[k]
          BY <1>2, <2>4, <2>12, <2>16, <3>1
        <4> QED
          BY <2>10, <2>11, <2>16, <4>1
      <3>2. CASE k = i
        <4>1. j \in 1..m /\ j < i /\ delayed'[j] = delayed[j] /\ delayed'[k] = e
          BY <1>2, <2>4, <2>12, <2>16, <3>2
        <4>2. when[delayed[j]] <= due /\ delayed[j] < e /\ when[delayed[j]] \in Nat
          BY <1>3, <1>5, <2>10, <2>13, <4>1 DEF m
        <4> QED
          BY <2>3, <2>7, <2>10, <4>1, <4>2
      <3>3. CASE k > i /\ j = i
        <4>1. k - 1 \in 1..m /\ k - 1 >= i /\ delayed'[k] = delayed[k - 1] /\ delayed'[j] = e
          BY <1>2, <2>4, <2>12, <3>3
        <4> QED
          BY <2>7, <2>10, <2>14, <4>1
      <3>4. CASE k > i /\ j < i
        <4>1. k - 1 \in 1..m /\ k - 1 >= i /\ delayed'[k] = delayed[k - 1]
          BY <1>2, <2>4, <2>12, <3>4
        <4>2. j \in 1..m /\ delayed'[j] = delayed[j]
          BY <2>4, <3>4
        <4> QED
          BY <2>3, <2>10, <2>13, <2>14, <3>4, <4>1, <4>2
      <3>5. CASE j > i
        <4>1. /\ j - 1 \in 1..m /\ k - 1 \in 1..m /\ j - 1 < k - 1
              /\ delayed'[j] = delayed[j - 1] /\ delayed'[k] = delayed[k - 1]
          BY <1>2, <2>4, <2>12, <2>16, <3>5
        <4> QED
          BY <2>10, <2>11, <4>1
      <3> QED
        BY <1>2, <2>12, <2>16, <3>1, <3>2, <3>3, <3>4, <3>5
    <2>17. DelayedInv'
      BY <2>4, <2>5, <2>15, <2>16 DEF DelayedInv
    <2> QED
      BY <2>5, <2>8, <2>9, <2>17 DEF QueueInv
  <1> QED
    BY <1>6, <1>7

\* Every step preserves the invariant of the queues.
LEMMA NextQueueInv == IInv /\ QueueInv /\ [Next]_vars => QueueInv'
  <1> SUFFICES ASSUME IInv, QueueInv, [Next]_vars PROVE QueueInv'
    OBVIOUS
  <1>1. CASE Tick
    <2>1. UNCHANGED <<deferred, delayed, when, started, now>> /\ clock' = clock + 1
      BY <1>1 DEF Tick, queueVars, threadVars
    <2> QED
      BY <2>1
         DEF IInv, TypeOK, TimeTypes, QueueInv, DeferredInv, DelayedInv, FreshInv, NowInv,
             Submitted
  <1>2. CASE \E t \in Threads : RunDeferredAction(t) \/ RunDelayedAction(t)
    BY <1>2, RunKeepsQueueInv
  <1>3. CASE \E t \in Threads : ActionReturn(t)
    BY <1>3
       DEF ActionReturn, queueVars, threadVars, QueueInv, DeferredInv, DelayedInv, FreshInv,
           NowInv, Submitted
  <1>4. CASE ControlStep
    <2>1. DeferredInv' /\ DelayedInv' /\ FreshInv'
      BY <1>4, ControlStepQueues DEF QueueInv, DeferredInv, DelayedInv, FreshInv, Submitted
    <2>2. \/ UNCHANGED <<now, clock>>
          \/ \E t \in Threads : RunDeferredReadClock(t) \/ RunDeferredDone(t)
      BY <1>4
         DEF ControlStep, SleepStep, WriterStep, RunActionRelock, CallSleep, Sleep,
             SleepRunDeferred, SleepDone, SleepWait, SleepTimeout, SpuriousWakeup,
             WriterLock, WriterUnlock, WriterLockData, WriterLockUnlockData,
             WriterLockWriter, WriterUnlockData, WriterUnlockUnlockData, DataLock,
             DataUnlock, Wakeup, threadVars
    <2>3. NowInv'
      <3>1. clock \in Nat /\ now \in [Threads -> Nat] /\ EndOfTime = 0
        BY DEF IInv, TypeOK, TimeTypes, EndOfTime
      <3>2. CASE UNCHANGED <<now, clock>>
        BY <3>2 DEF QueueInv, NowInv
      <3>3. ASSUME NEW t \in Threads, RunDeferredReadClock(t) PROVE NowInv'
        BY <3>1, <3>3 DEF QueueInv, NowInv, RunDeferredReadClock
      <3>4. ASSUME NEW t \in Threads, RunDeferredDone(t) PROVE NowInv'
        BY <3>1, <3>4 DEF QueueInv, NowInv, RunDeferredDone
      <3> QED
        BY <2>2, <3>2, <3>3, <3>4
    <2> QED
      BY <2>1, <2>3 DEF QueueInv
  <1>5. CASE \E c \in Contexts : CallEnqueue(c)
    BY <1>5, EnqueueKeepsQueueInv DEF CallEnqueue
  <1>6. CASE UNCHANGED vars
    BY <1>6
       DEF vars, queueVars, threadVars, QueueInv, DeferredInv, DelayedInv, FreshInv, NowInv,
           Submitted
  <1> QED
    BY <1>1, <1>2, <1>3, <1>4, <1>5, <1>6 DEF Next, ControlStep, RunDeferredStep

LEMMA InitQueueInv == Init => QueueInv
  BY DEF Init, QueueInv, DeferredInv, DelayedInv, FreshInv, NowInv, Submitted, EndOfTime

-----------------------------------------------------------------------------
(* The deadline of a lone sleeper.                                         *)

\* The order that timespec_compare gives, the end of time being the last of all.
Until(a, b) == timespec_compare(a, b) <= 0

LEMMA UntilFacts ==
    /\ \A a \in Nat : Until(a, a) /\ Until(a, EndOfTime)
    /\ \A a, b, c \in Nat : Until(a, b) /\ Until(b, c) => Until(a, c)
    /\ \A a, b \in Nat : ~ (timespec_compare(a, b) < 0) => Until(b, a)
    /\ \A a, b \in Nat : timespec_compare(a, b) < 0 => Until(a, b)
    /\ \A a, b \in Nat : a # EndOfTime /\ a <= b => Until(a, b)
  BY DEF Until, timespec_compare, EndOfTime

\* HeadWhen is a time.
LEMMA HeadWhenType == IInv => HeadWhen \in Nat
  BY DEF IInv, TypeOK, QueueTypes, HeadWhen, EndOfTime

\* Taking the head off the delayed queue never brings the head's due time forward.
LEMMA TailRaisesHead ==
    ASSUME IInv, QueueInv, NEW t \in Threads, RunDelayedAction(t)
    PROVE  Until(HeadWhen, HeadWhen')
  <1>1. delayed # <<>>
    BY DEF IInv, TypeOK, ClockReadInv, TimeTypes, RunDelayedAction, HeadIsDue, HeadWhen,
           timespec_compare, EndOfTime
  <1>2. delayed' = Tail(delayed) /\ when' = when
    BY DEF RunDelayedAction, RunAction
  <1>3. delayed \in Seq(Elements) /\ when \in [Elements -> Nat] /\ HeadWhen \in Nat
    BY HeadWhenType DEF IInv, TypeOK, QueueTypes
  <1>4. CASE Tail(delayed) = <<>>
    BY <1>2, <1>3, <1>4, UntilFacts DEF HeadWhen
  <1>5. CASE Tail(delayed) # <<>>
    <2>1. Head(delayed) = delayed[1] /\ Head(Tail(delayed)) = delayed[2] /\ 2 \in 1..Len(delayed)
      BY <1>1, <1>3, <1>5
    <2>2. 1 \in 1..Len(delayed) /\ delayed[1] \in Elements /\ delayed[2] \in Elements
      BY <1>1, <1>3, <2>1
    <2>3. when[delayed[1]] # EndOfTime /\ when[delayed[1]] <= when[delayed[2]]
      BY <1>3, <2>1, <2>2 DEF QueueInv, DelayedInv
    <2> QED
      BY <1>1, <1>2, <1>3, <1>5, <2>1, <2>2, <2>3, UntilFacts DEF HeadWhen
  <1> QED
    BY <1>4, <1>5

\* Every step keeps a lone sleeper's deadline at or before the head of the delayed queue.
LEMMA NextNoOversleep ==
    ASSUME IInv, SleepInv, QueueInv, NoOversleep, [Next]_vars
    PROVE  NoOversleep'
  <1>1. ASSUME UNCHANGED <<delayed, when, deadline>>, Waiting' \subseteq Waiting
        PROVE  NoOversleep'
    BY <1>1 DEF NoOversleep, HeadWhen
  <1>2. ASSUME NEW t \in Threads, RunDelayedAction(t) PROVE NoOversleep'
    <2>1. Waiting' = Waiting /\ deadline' = deadline
      BY <1>2, ContextFacts
         DEF Waiting, RunDelayedAction, RunAction, IInv, TypeOK, ControlTypes
    <2>2. HeadWhen \in Nat /\ HeadWhen' \in Nat
      <3>1. IInv'
        BY NextIInv
      <3> QED
        BY <3>1, HeadWhenType DEF IInv, TypeOK, QueueTypes, HeadWhen, EndOfTime
    <2>3. \A u \in Threads : deadline[u] \in Nat
      BY DEF IInv, TypeOK, TimeTypes
    <2> QED
      BY <1>2, <2>1, <2>2, <2>3, TailRaisesHead, UntilFacts DEF NoOversleep, Until, Waiting
  <1>3. ASSUME NEW t \in Threads, SleepWait(t) PROVE NoOversleep'
    <2>1. UNCHANGED <<delayed, when>> /\ HeadWhen \in Nat /\ until[t] \in Nat
      BY <1>3, HeadWhenType DEF SleepWait, queueVars, IInv, TypeOK, TimeTypes
    <2>2. Until(deadline'[t], HeadWhen)
      BY <1>3, <2>1, UntilFacts DEF SleepWait, IInv, TypeOK, TimeTypes, Until
    <2>3. pc[client(t)] \in SleepLabels
      BY <1>3 DEF SleepWait, SleepLabels
    <2>4. t \in Sleepers
      BY <2>3 DEF SleepInv, SleeperInv, WillCheck
    <2> QED
      BY <2>1, <2>2, <2>4 DEF NoOversleep, Until, HeadWhen
  <1>4. ASSUME NEW c \in Contexts, CallEnqueue(c) PROVE NoOversleep'
    <2>1. Signal /\ deadline' = deadline
      BY <1>4 DEF CallEnqueue, Enqueue, threadVars
    <2>2. \A u \in Threads : Sleepers = {u} => Waiting \subseteq {u}
      BY DEF SleepInv, SleeperInv, Waiting
    <2>3. \A u \in Threads : Sleepers = {u} => Waiting' = {}
      BY <2>1, <2>2, ContextFacts DEF Signal, Waiting, Goto, IInv, TypeOK, ControlTypes
    <2> QED
      BY <2>3 DEF NoOversleep, Waiting
  <1>5. ASSUME NEW t \in Threads, SleepRunDeferred(t) PROVE NoOversleep'
    <2>1. UNCHANGED <<delayed, when>> /\ deadline' = [deadline EXCEPT ![t] = EndOfTime]
      BY <1>5 DEF SleepRunDeferred, queueVars
    <2>2. Waiting' \subseteq Waiting \ {t}
      BY <1>5, ContextFacts
         DEF SleepRunDeferred, RunDeferred, Waiting, Goto, IInv, TypeOK, ControlTypes
    <2>3. \A u \in Waiting \ {t} : deadline'[u] = deadline[u]
      BY <2>1 DEF Waiting, IInv, TypeOK, TimeTypes
    <2> QED
      BY <2>1, <2>2, <2>3 DEF NoOversleep, HeadWhen
  <1> USE ContextFacts
  <1> USE DEF Waiting, Goto, queueVars, threadVars, IInv, TypeOK, ControlTypes, LockInv,
              ReturnInv, RunLabels
  <1>6. ASSUME NEW t \in Threads,
               \/ RunDeferredAction(t) \/ RunDeferredReadClock(t) \/ RunDeferredDone(t)
               \/ ActionReturn(t) \/ RunActionRelock(t) \/ CallSleep(t) \/ SleepDone(t)
               \/ SleepTimeout(t) \/ SpuriousWakeup(t)
        PROVE  NoOversleep'
    <2>1. UNCHANGED <<delayed, when, deadline>>
      BY <1>6
         DEF RunDeferredAction, RunAction, RunDeferredReadClock, RunDeferredDone,
             ActionReturn, RunActionRelock, CallSleep, Sleep, SleepDone, SleepTimeout,
             SpuriousWakeup
    <2>2. Waiting' \subseteq Waiting
      <3>1. CASE RunDeferredAction(t) \/ ActionReturn(t)
        BY <3>1 DEF RunDeferredAction, RunAction, ActionReturn
      <3>2. CASE \/ RunDeferredReadClock(t) \/ CallSleep(t) \/ SleepDone(t) \/ SleepTimeout(t)
                 \/ SpuriousWakeup(t)
        BY <3>2
           DEF RunDeferredReadClock, CallSleep, Sleep, SleepDone, SleepTimeout, SpuriousWakeup
      <3>3. CASE RunDeferredDone(t) \/ RunActionRelock(t)
        BY <3>3 DEF RunDeferredDone, RunActionRelock
      <3> QED
        BY <1>6, <3>1, <3>2, <3>3
    <2> QED
      BY <1>1, <2>1, <2>2
  <1>7. ASSUME NEW c \in Contexts,
               \/ WriterLock(c) \/ WriterUnlock(c) \/ WriterStep(c) \/ DataLock(c)
               \/ DataUnlock(c) \/ Wakeup(c)
        PROVE  NoOversleep'
    <2>1. UNCHANGED <<delayed, when, deadline>>
      BY <1>7
         DEF WriterLock, WriterUnlock, WriterStep, WriterLockData, WriterLockUnlockData,
             WriterLockWriter, WriterUnlockData, WriterUnlockUnlockData, DataLock, DataUnlock,
             Wakeup
    <2>2. Waiting' \subseteq Waiting
      <3>1. CASE Wakeup(c)
        BY <3>1 DEF Wakeup, Signal
      <3>2. CASE WriterLockData(c) \/ WriterUnlockData(c)
        BY <3>2 DEF WriterLockData, WriterUnlockData, RunDeferred
      <3>3. CASE \/ WriterLock(c) \/ WriterUnlock(c) \/ WriterLockUnlockData(c)
                 \/ WriterLockWriter(c) \/ WriterUnlockUnlockData(c) \/ DataLock(c)
                 \/ DataUnlock(c)
        BY <3>3
           DEF WriterLock, WriterUnlock, WriterLockUnlockData, WriterLockWriter,
               WriterUnlockUnlockData, DataLock, DataUnlock
      <3> QED
        BY <1>7, <3>1, <3>2, <3>3 DEF WriterStep
    <2> QED
      BY <1>1, <2>1, <2>2
  <1>8. CASE Tick \/ UNCHANGED vars
    BY <1>1, <1>8 DEF Tick, vars
  <1> QED
    BY <1>2, <1>3, <1>4, <1>5, <1>6, <1>7, <1>8 DEF Next, RunDeferredStep, SleepStep

\* A lone sleeper never waits past the due time of the first delayed action: enqueue
\* signals it, and only later actions are left when one is called.
THEOREM NoOversleepCorrect == Spec => []NoOversleep
  <1>1. Init => SleepInv /\ NoOversleep
    BY ContextFacts DEF Init, SleepInv, WakeupNotLost, SleeperInv, WillCheck, SleepLabels,
                        RunLabels, Contexts, client, NoOversleep, Waiting
  <1> QED
    BY <1>1, InitIInv, InitQueueInv, NextIInv, NextSleepInv, NextQueueInv, NextNoOversleep,
       PTL DEF Spec

-----------------------------------------------------------------------------
(* The scheduler implements DeferredActions.                               *)

Pending == ElementsOf(deferred) \cup ElementsOf(delayed)
Busy    == \E t \in Threads : pc[client(t)] = "in_action"

\* A step that neither touches the queues nor enters or leaves an action body is a
\* stuttering step of DeferredActions.
LEMMA StutterStep ==
    ASSUME UNCHANGED <<clock, deferred, delayed, when, started>>, Busy' = Busy
    PROVE  UNCHANGED Abstract!vars
  BY DEF Abstract!vars, Busy, ElementsOf

\* The steps outside run_action leave the executing actions as they are.
LEMMA ControlStepBusy ==
    ASSUME IInv, ControlStep
    PROVE  Busy' = Busy
  <1> USE ContextFacts
  <1> USE DEF Busy, Goto, IInv, TypeOK, ControlTypes, LockInv, ContextInv, ReturnInv, RunLabels
  <1>1. ASSUME NEW t \in Threads,
               \/ RunDeferredReadClock(t) \/ CallSleep(t) \/ SleepDone(t) \/ SleepWait(t)
               \/ SleepTimeout(t) \/ SpuriousWakeup(t)
        PROVE  Busy' = Busy
    BY <1>1
       DEF RunDeferredReadClock, CallSleep, Sleep, SleepDone, SleepWait, SleepTimeout,
           SpuriousWakeup
  <1>2. ASSUME NEW t \in Threads, RunDeferredDone(t) \/ RunActionRelock(t)
        PROVE  Busy' = Busy
    BY <1>2 DEF RunDeferredDone, RunActionRelock
  <1>3. ASSUME NEW t \in Threads, SleepRunDeferred(t) PROVE Busy' = Busy
    BY <1>3 DEF SleepRunDeferred, RunDeferred
  <1>4. ASSUME NEW c \in Contexts, WriterLockData(c) \/ WriterUnlockData(c)
        PROVE  Busy' = Busy
    BY <1>4 DEF WriterLockData, WriterUnlockData, RunDeferred
  <1>5. ASSUME NEW c \in Contexts,
               \/ WriterLock(c) \/ WriterUnlock(c) \/ WriterLockUnlockData(c)
               \/ WriterLockWriter(c) \/ WriterUnlockUnlockData(c) \/ DataLock(c)
               \/ DataUnlock(c)
        PROVE  Busy' = Busy
    BY <1>5
       DEF WriterLock, WriterUnlock, WriterLockUnlockData, WriterLockWriter,
           WriterUnlockUnlockData, DataLock, DataUnlock
  <1>6. ASSUME NEW c \in Contexts, Wakeup(c) PROVE Busy' = Busy
    BY <1>6 DEF Wakeup, Signal, Waiting
  <1> QED
    BY <1>1, <1>2, <1>3, <1>4, <1>5, <1>6 DEF ControlStep, SleepStep, WriterStep

\* The elements of a queue without repetitions after its head is taken off.
LEMMA TailElements ==
    ASSUME NEW q \in Seq(Elements), q # <<>>,
           \A i, j \in 1..Len(q) : i < j => q[i] # q[j]
    PROVE  /\ Head(q) \in ElementsOf(q)
           /\ ElementsOf(Tail(q)) = ElementsOf(q) \ {Head(q)}
  <1> DEFINE n == Len(q)
  <1>1. /\ n \in Nat /\ n > 0 /\ DOMAIN q = 1..n /\ DOMAIN Tail(q) = 1..n - 1
        /\ Head(q) = q[1] /\ \A i \in 1..n - 1 : Tail(q)[i] = q[i + 1]
    OBVIOUS
  <1> HIDE DEF n
  <1>2. 1 \in 1..n /\ \A i \in 1..n - 1 : i + 1 \in 1..n /\ 1 < i + 1
    BY <1>1
  <1>3. \A i \in 1..n : i # 1 => i - 1 \in 1..n - 1 /\ (i - 1) + 1 = i
    BY <1>1
  <1>4. \A e \in ElementsOf(Tail(q)) : e \in ElementsOf(q) /\ e # Head(q)
    BY <1>1, <1>2 DEF ElementsOf, n
  <1>5. \A e \in ElementsOf(q) : e # Head(q) => e \in ElementsOf(Tail(q))
    <2> SUFFICES ASSUME NEW i \in 1..n, q[i] # Head(q) PROVE q[i] \in ElementsOf(Tail(q))
      BY <1>1 DEF ElementsOf
    <2>1. i - 1 \in 1..n - 1 /\ Tail(q)[i - 1] = q[i]
      BY <1>1, <1>3
    <2> QED
      BY <1>1, <2>1 DEF ElementsOf
  <1>6. Head(q) \in ElementsOf(q)
    BY <1>1, <1>2 DEF ElementsOf
  <1> QED
    BY <1>4, <1>5, <1>6 DEF ElementsOf

\* The elements of a queue after one is appended.
LEMMA AppendElements ==
    ASSUME NEW q \in Seq(Elements), NEW e \in Elements
    PROVE  ElementsOf(Append(q, e)) = ElementsOf(q) \cup {e}
  <1> DEFINE n == Len(q)
  <1> DEFINE r == Append(q, e)
  <1>1. /\ n \in Nat /\ DOMAIN q = 1..n /\ DOMAIN r = 1..n + 1
        /\ r[n + 1] = e /\ \A i \in 1..n : r[i] = q[i]
    OBVIOUS
  <1> HIDE DEF n, r
  <1>2. \A i \in 1..n + 1 : i \in 1..n \/ i = n + 1
    BY <1>1
  <1>3. n + 1 \in 1..n + 1 /\ \A i \in 1..n : i \in 1..n + 1
    BY <1>1
  <1>4. ElementsOf(r) = ElementsOf(q) \cup {e}
    BY <1>1, <1>2, <1>3 DEF ElementsOf
  <1> QED
    BY <1>4 DEF r

\* The elements of the two queues, as the invariant of the queues tells them apart.
LEMMA PendingFacts ==
    ASSUME IInv, QueueInv
    PROVE  /\ \A e \in ElementsOf(deferred) : e \in Elements /\ when[e] = EndOfTime
           /\ \A e \in ElementsOf(delayed) : e \in Elements /\ when[e] # EndOfTime
           /\ \A e \in Pending : e \in Nat /\ e <= Submitted /\ when[e] \in Nat
           /\ \A i, j \in 1..Len(deferred) : i < j => deferred[i] # deferred[j]
           /\ \A i, j \in 1..Len(delayed) : i < j => delayed[i] # delayed[j]
  <1>1. /\ deferred \in Seq(Elements) /\ delayed \in Seq(Elements)
        /\ when \in [Elements -> Nat] /\ Elements \subseteq Nat
    BY BoundsAssumption DEF IInv, TypeOK, QueueTypes, Elements
  <1>2. DOMAIN deferred = 1..Len(deferred) /\ DOMAIN delayed = 1..Len(delayed)
    BY <1>1
  <1>3. /\ \A i \in 1..Len(deferred) : deferred[i] \in Elements
        /\ \A i \in 1..Len(delayed) : delayed[i] \in Elements
    BY <1>1
  <1>4. \A i, j \in 1..Len(deferred) : i < j => deferred[i] # deferred[j]
    BY <1>1, <1>3 DEF QueueInv, DeferredInv
  <1>5. ASSUME NEW i \in 1..Len(delayed), NEW j \in 1..Len(delayed), i < j
        PROVE  delayed[i] # delayed[j]
    <2>1. delayed[i] \in Nat /\ delayed[j] \in Nat /\ when[delayed[i]] \in Nat
      BY <1>1, <1>3
    <2>2. when[delayed[i]] < when[delayed[j]] \/ delayed[i] < delayed[j]
      BY <1>5 DEF QueueInv, DelayedInv
    <2> QED
      BY <2>1, <2>2
  <1>6. \A e \in ElementsOf(deferred) : e \in Elements /\ when[e] = EndOfTime /\ e <= Submitted
    BY <1>2, <1>3 DEF QueueInv, DeferredInv, ElementsOf
  <1>7. \A e \in ElementsOf(delayed) : e \in Elements /\ when[e] # EndOfTime /\ e <= Submitted
    BY <1>2, <1>3 DEF QueueInv, DelayedInv, ElementsOf
  <1>8. \A e \in Pending : e \in Nat /\ e <= Submitted /\ when[e] \in Nat
    BY <1>1, <1>6, <1>7 DEF Pending
  <1> QED
    BY <1>4, <1>5, <1>6, <1>7, <1>8

\* No action is being executed while run_deferred looks for the next one to call.
LEMMA RunnerIdle ==
    ASSUME IInv, NEW t \in Threads, RunDeferredAction(t) \/ RunDelayedAction(t)
    PROVE  Busy = FALSE /\ Busy' = TRUE
  <1>1. pc[client(t)] \in {"rd_loop", "rd_delayed"}
    BY DEF RunDeferredAction, RunDelayedAction
  <1>2. \A u \in Threads : pc[client(u)] # "in_action"
    BY <1>1 DEF IInv, LockInv, OneRunner, RunLabels
  <1>3. pc'[client(t)] = "in_action"
    BY ContextFacts
       DEF RunDeferredAction, RunDelayedAction, RunAction, IInv, TypeOK, ControlTypes
  <1> QED
    BY <1>2, <1>3 DEF Busy

\* Calling the first deferred action starts the immediate action submitted first.
LEMMA DeferredStarts ==
    ASSUME IInv, QueueInv, NEW t \in Threads, RunDeferredAction(t)
    PROVE  \E e \in Pending : Abstract!Start(e)
  <1> DEFINE e == Head(deferred)
  <1>1. /\ deferred \in Seq(Elements) /\ deferred # <<>> /\ deferred' = Tail(deferred)
        /\ UNCHANGED <<clock, delayed, when>>
    BY DEF IInv, TypeOK, QueueTypes, RunDeferredAction, RunAction
  <1>2. e \in ElementsOf(deferred) /\ ElementsOf(deferred') = ElementsOf(deferred) \ {e}
    BY <1>1, PendingFacts, TailElements
  <1>3. e = deferred[1] /\ DOMAIN deferred = 1..Len(deferred) /\ Len(deferred) \in Nat
    BY <1>1
  <1> HIDE DEF e
  <1>4. when[e] = EndOfTime /\ e \notin ElementsOf(delayed)
    BY <1>2, PendingFacts
  <1>5. ASSUME NEW f \in Pending, when[f] = EndOfTime PROVE e <= f
    <2>1. f \in ElementsOf(deferred)
      BY <1>5, PendingFacts DEF Pending
    <2>2. PICK i \in 1..Len(deferred) : f = deferred[i]
      BY <1>3, <2>1 DEF ElementsOf
    <2>3. f \in Nat /\ e \in Nat
      BY <1>2, PendingFacts DEF Pending
    <2> QED
      BY <1>3, <2>2, <2>3 DEF QueueInv, DeferredInv
  <1>6. Pending' = Pending \ {e} /\ e \in Pending
    BY <1>1, <1>2, <1>4 DEF Pending, ElementsOf
  <1>7. Abstract!MayStart(e)
    BY <1>4, <1>5, <1>6 DEF Abstract!MayStart, Abstract!ImmediateActions, Pending
  <1>8. Submitted' = Submitted
    BY RunKeepsQueueInv
  <1>9. Abstract!Start(e)
    BY <1>1, <1>6, <1>7, <1>8, RunnerIdle DEF Abstract!Start, Pending, Busy, Submitted
  <1> QED
    BY <1>6, <1>9

\* Calling the first delayed action starts one that is due, and none is due earlier.
LEMMA DelayedStarts ==
    ASSUME IInv, QueueInv, NEW t \in Threads, RunDelayedAction(t)
    PROVE  \E e \in Pending : Abstract!Start(e)
  <1> DEFINE e == Head(delayed)
  <1>0. delayed # <<>>
    BY DEF IInv, TypeOK, ClockReadInv, TimeTypes, RunDelayedAction, HeadIsDue, HeadWhen,
           timespec_compare, EndOfTime
  <1>1. /\ delayed \in Seq(Elements) /\ delayed' = Tail(delayed)
        /\ UNCHANGED <<clock, deferred, when>>
    BY DEF IInv, TypeOK, QueueTypes, RunDelayedAction, RunAction
  <1>2. e \in ElementsOf(delayed) /\ ElementsOf(delayed') = ElementsOf(delayed) \ {e}
    BY <1>0, <1>1, PendingFacts, TailElements
  <1>3. e = delayed[1] /\ DOMAIN delayed = 1..Len(delayed) /\ Len(delayed) \in Nat
    BY <1>0, <1>1
  <1>4. HeadWhen = when[e]
    BY <1>0 DEF HeadWhen
  <1> HIDE DEF e
  <1>5. /\ when[e] \in Nat \ {EndOfTime} /\ e \in Nat /\ e \in Pending
        /\ e \notin ElementsOf(deferred)
    BY <1>2, PendingFacts DEF Pending
  <1>6. when[e] <= clock
    <2>1. now[t] \in Nat \ {EndOfTime} /\ now[t] <= clock /\ clock \in Nat
      BY DEF IInv, TypeOK, TimeTypes, ClockReadInv, QueueInv, NowInv, RunDelayedAction
    <2>2. timespec_compare(when[e], now[t]) <= 0
      BY <1>4 DEF RunDelayedAction, HeadIsDue
    <2> QED
      BY <1>5, <2>1, <2>2, CompareFacts
  <1>7. ASSUME NEW f \in Pending, when[f] # EndOfTime
        PROVE  when[e] < when[f] \/ (when[e] = when[f] /\ e <= f)
    <2>1. f \in ElementsOf(delayed)
      BY <1>7, PendingFacts DEF Pending
    <2>2. PICK i \in 1..Len(delayed) : f = delayed[i]
      BY <1>3, <2>1 DEF ElementsOf
    <2>3. f \in Nat /\ when[f] \in Nat
      BY PendingFacts
    <2> QED
      BY <1>3, <1>5, <2>2, <2>3 DEF QueueInv, DelayedInv
  <1>8. Pending' = Pending \ {e}
    BY <1>1, <1>2, <1>5 DEF Pending, ElementsOf
  <1>9. Abstract!MayStart(e)
    BY <1>5, <1>6, <1>7
       DEF Abstract!MayStart, Abstract!ImmediateActions, Abstract!DelayedActions, Pending
  <1>10. Submitted' = Submitted
    BY RunKeepsQueueInv
  <1>11. Abstract!Start(e)
    BY <1>1, <1>8, <1>9, <1>10, RunnerIdle DEF Abstract!Start, Pending, Busy, Submitted
  <1> QED
    BY <1>5, <1>11

\* Enqueueing an element submits an action, to be called at once or at a later time.
LEMMA EnqueueSubmits ==
    ASSUME IInv, QueueInv, NEW c \in Contexts, NEW delay \in Delays, Enqueue(c, delay)
    PROVE  Abstract!Submit
  <1> DEFINE e == Submitted + 1
  <1>1. e \in Elements /\ UNCHANGED <<clock, started>> /\ Signal
    BY DEF Enqueue, Submitted
  <1>2. Submitted' = e
    BY EnqueueKeepsQueueInv
  <1>3. Busy' = Busy
    BY <1>1, ContextFacts
       DEF Busy, Signal, Waiting, Goto, IInv, TypeOK, ControlTypes
  <1>4. /\ deferred \in Seq(Elements) /\ delayed \in Seq(Elements)
        /\ when \in [Elements -> Nat] /\ clock \in Nat /\ delay \in Nat /\ Submitted \in Nat
    BY BoundsAssumption DEF IInv, TypeOK, QueueTypes, TimeTypes, Submitted
  <1>5. \A f \in Pending : f \in Elements /\ f # e
    BY <1>4, PendingFacts DEF Pending
  <1>6. /\ Pending' = Pending \cup {e}
        /\ when'[e] = EndOfTime \/ when'[e] > clock
        /\ \A f \in Pending : when'[f] = when[f]
    <2>1. CASE delay = 0
      <3>1. deferred' = Append(deferred, e) /\ UNCHANGED <<delayed, when>>
        BY <2>1 DEF Enqueue, Submitted
      <3> HIDE DEF e
      <3>2. when[e] = EndOfTime
        <4>1. e > Submitted
          BY <1>4 DEF e
        <4> QED
          BY <1>1, <4>1 DEF QueueInv, FreshInv
      <3>3. ElementsOf(deferred') = ElementsOf(deferred) \cup {e}
        BY <1>1, <1>4, <3>1, AppendElements
      <3> QED
        BY <3>1, <3>2, <3>3 DEF Pending, ElementsOf
    <2>2. CASE delay # 0
      <3>1. PICK i \in 1..Len(delayed) + 1 : delayed' = LinkBefore(i, e)
        BY <2>2 DEF Enqueue, Submitted
      <3>2. when' = [when EXCEPT ![e] = clock + delay] /\ UNCHANGED deferred
        BY <2>2 DEF Enqueue, Submitted
      <3> HIDE DEF e
      <3>3. ElementsOf(delayed') = ElementsOf(delayed) \cup {e}
        <4> DEFINE m == Len(delayed)
        <4>1. m \in Nat /\ DOMAIN delayed = 1..m /\ i \in 1..m + 1
          BY <1>4
        <4>2. DOMAIN delayed' = 1..m + 1
          BY <3>1 DEF LinkBefore
        <4> HIDE DEF m
        <4>3. /\ delayed'[i] = e
              /\ \A j \in 1..m + 1 :
                    /\ j < i => j \in 1..m /\ delayed'[j] = delayed[j]
                    /\ j > i => j - 1 \in 1..m /\ delayed'[j] = delayed[j - 1]
          BY <1>1, <1>4, <3>1, LinkBeforeFacts DEF m
        <4>4. \A j \in 1..m + 1 : delayed'[j] \in ElementsOf(delayed) \cup {e}
          <5> SUFFICES ASSUME NEW j \in 1..m + 1
                       PROVE  delayed'[j] \in ElementsOf(delayed) \cup {e}
            OBVIOUS
          <5>1. j < i \/ j = i \/ j > i
            BY <4>1
          <5> QED
            BY <4>1, <4>3, <5>1 DEF ElementsOf
        <4>5. \A j \in 1..m : delayed[j] \in ElementsOf(delayed')
          <5> SUFFICES ASSUME NEW j \in 1..m PROVE delayed[j] \in ElementsOf(delayed')
            OBVIOUS
          <5>1. CASE j < i
            <6>1. j \in 1..m + 1
              BY <4>1
            <6>2. delayed'[j] = delayed[j]
              BY <4>3, <5>1, <6>1
            <6> QED
              BY <4>2, <6>1, <6>2 DEF ElementsOf
          <5>2. CASE j >= i
            <6>1. j + 1 \in 1..m + 1 /\ j + 1 > i /\ (j + 1) - 1 = j
              BY <4>1, <5>2
            <6>2. delayed'[j + 1] = delayed[j]
              BY <4>3, <6>1
            <6> QED
              BY <4>2, <6>1, <6>2 DEF ElementsOf
          <5> QED
            BY <4>1, <5>1, <5>2
        <4>6. e \in ElementsOf(delayed')
          BY <4>1, <4>2, <4>3 DEF ElementsOf
        <4> QED
          BY <4>1, <4>2, <4>4, <4>5, <4>6 DEF ElementsOf
      <3>4. when'[e] = clock + delay /\ \A f \in Pending : when'[f] = when[f]
        BY <1>1, <1>4, <1>5, <3>2
      <3>5. clock + delay > clock
        BY <1>4, <2>2
      <3> QED
        BY <3>2, <3>3, <3>4, <3>5 DEF Pending, ElementsOf
    <2> QED
      BY <2>1, <2>2
  <1> HIDE DEF e
  <1> QED
    BY <1>1, <1>2, <1>3, <1>6 DEF Abstract!Submit, Pending, Busy, Submitted, e

\* Every step of the scheduler is a step of DeferredActions or leaves its state alone.
LEMMA NextImplements ==
    IInv /\ QueueInv /\ [Next]_vars => [Abstract!Next]_(Abstract!vars)
  <1> SUFFICES ASSUME IInv, QueueInv, [Next]_vars
               PROVE  Abstract!Next \/ UNCHANGED Abstract!vars
    OBVIOUS
  <1>1. CASE Tick
    <2>1. clock' > clock /\ UNCHANGED <<deferred, delayed, when, started, pc>>
      BY <1>1 DEF Tick, queueVars, IInv, TypeOK, TimeTypes
    <2>2. Abstract!Advance
      BY <2>1 DEF Abstract!Advance, ElementsOf
    <2> QED
      BY <2>2 DEF Abstract!Next
  <1>2. CASE \E t \in Threads : RunDeferredAction(t) \/ RunDelayedAction(t)
    <2>1. \E e \in Pending : Abstract!Start(e)
      BY <1>2, DeferredStarts, DelayedStarts
    <2> QED
      BY <2>1 DEF Abstract!Next, Pending
  <1>3. ASSUME NEW t \in Threads, ActionReturn(t) PROVE Abstract!Next
    <2>1. pc[client(t)] = "in_action"
      BY <1>3 DEF ActionReturn, IInv, LockInv, ContextInv
    <2>2. \A u \in Threads : pc[client(u)] = "in_action" => u = t
      BY <2>1 DEF IInv, LockInv, OneRunner, RunLabels
    <2>3. \A u \in Threads : pc'[client(u)] # "in_action"
      BY <1>3, <2>2, ContextFacts DEF ActionReturn, IInv, TypeOK, ControlTypes
    <2>4. UNCHANGED <<clock, deferred, delayed, when, started>>
      BY <1>3 DEF ActionReturn, queueVars
    <2>5. Busy = TRUE /\ Busy' = FALSE
      BY <2>1, <2>3 DEF Busy
    <2>6. Abstract!Finish
      BY <2>4, <2>5 DEF Abstract!Finish, Busy, ElementsOf
    <2> QED
      BY <2>6 DEF Abstract!Next
  <1>4. CASE ControlStep
    BY <1>4, ControlStepQueues, ControlStepBusy, StutterStep
  <1>5. CASE \E c \in Contexts : CallEnqueue(c)
    BY <1>5, EnqueueSubmits DEF CallEnqueue, Abstract!Next
  <1>6. CASE UNCHANGED vars
    BY <1>6, StutterStep DEF vars, queueVars, Busy
  <1> QED
    BY <1>1, <1>2, <1>3, <1>4, <1>5, <1>6 DEF Next, ControlStep, RunDeferredStep

\* The scheduler implements DeferredActions: an enqueued action is called at most once
\* and alone, in the order its due time and its place in the queue give it, never early.
THEOREM ImplementsDeferredActionsCorrect == Spec => ImplementsDeferredActions
  <1>1. Init => Abstract!Init
    <2> SUFFICES ASSUME Init PROVE Abstract!Init
      OBVIOUS
    <2>1. Submitted = 0
      BY DEF Init, Submitted
    <2>2. Pending = {}
      BY DEF Init, Pending, ElementsOf
    <2>3. Busy = FALSE
      BY ContextFacts DEF Init, Busy, client
    <2> QED
      BY <2>1, <2>2, <2>3 DEF Abstract!Init, Submitted, Pending, Busy
  <1> QED
    BY <1>1, InitIInv, InitQueueInv, NextIInv, NextQueueInv, NextImplements, PTL
       DEF Spec, ImplementsDeferredActions, Abstract!Spec
=============================================================================
