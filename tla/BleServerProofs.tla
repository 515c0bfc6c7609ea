-------------------------- MODULE BleServerProofs --------------------------
(***************************************************************************)
(* Proofs about the path between NimBLE's task and the loop, for every     *)
(* queue depth, table size, and number of connections and writes: first    *)
(* the ring of pending filter writes alone, then the two threads with it.  *)
(***************************************************************************)
EXTENDS BleServer, TLAPS

-----------------------------------------------------------------------------
(* The ring of pending filter writes.                                        *)

\* The inductive invariant: the indices in range, the used slots filled.
QueueInv == QueueTypeOK /\ NoUnwrittenSlot

\* Three facts about indices less than one lap apart, h being a head.  Slots
\* are in range; advancing the head shifts every position by one; two positions
\* less than Depth apart are different slots.
LEMMA LapInRange ==
  ASSUME NEW h \in Slot, NEW i \in 0 .. Depth
  PROVE  (h + i) % Depth \in Slot
  BY DepthAssumption DEF Slot

LEMMA LapShift ==
  ASSUME NEW h \in Slot, NEW i \in 0 .. Depth
  PROVE  (((h + 1) % Depth) + i) % Depth = (h + (i + 1)) % Depth
  BY DepthAssumption DEF Slot

LEMMA LapDistinct ==
  ASSUME NEW h \in Slot, NEW c \in 0 .. Depth - 1, NEW i \in 0 .. c - 1
  PROVE  (h + i) % Depth # (h + c) % Depth
  BY DepthAssumption DEF Slot

LEMMA SlotInRange ==
  ASSUME QueueTypeOK, NEW i \in 0 .. Depth
  PROVE  SlotOf(i) \in Slot
  BY LapInRange DEF SlotOf, QueueTypeOK

\* The producer's slot is none of those in use: an accepted write overwrites
\* no write that is still queued.
LEMMA FreshSlot ==
  ASSUME QueueTypeOK, ~Full, NEW i \in 0 .. count - 1
  PROVE  SlotOf(i) # SlotOf(count)
<1>1. head \in Slot /\ count \in 0 .. Depth - 1
  BY DepthAssumption DEF QueueTypeOK, Full
<1> QED BY <1>1, LapDistinct DEF SlotOf

\* What the consumer's step does to the positions: the i-th oldest write after
\* it is the one that was (i+1)-th before.
LEMMA ShiftedSlot ==
  ASSUME QueueTypeOK, Dequeue, NEW i \in 0 .. count - 2
  PROVE  SlotOf(i)' = SlotOf(i + 1)
<1>1. head \in Slot /\ i \in 0 .. Depth /\ head' = (head + 1) % Depth
  BY DepthAssumption DEF QueueTypeOK, Dequeue
<1> QED BY <1>1, LapShift DEF SlotOf

\* The write the consumer copies out is one the producer put there, the first
\* of the abstract queue.
LEMMA OldestWrite ==
  ASSUME QueueInv, count > 0
  PROVE  Oldest \in Item /\ Oldest = Contents[1]
<1>1. head \in Slot /\ count \in 1 .. Depth
  BY DepthAssumption DEF QueueInv, QueueTypeOK
<1>2. SlotOf(0) = head
  BY <1>1, DepthAssumption DEF SlotOf, Slot
<1>3. ring[SlotOf(0)] \in Item
  BY <1>1 DEF QueueInv, NoUnwrittenSlot
<1>4. Contents[1] = ring[SlotOf(1 - 1)]
  BY <1>1 DEF Contents
<1> QED BY <1>2, <1>3, <1>4 DEF Oldest

LEMMA InitQueueInv == QueueInit => QueueInv
  BY DepthAssumption DEF QueueInit, QueueInv, QueueTypeOK, Slot, NoUnwrittenSlot

LEMMA NextQueueTypeOK == QueueTypeOK /\ [QueueNext]_queueVars => QueueTypeOK'
<1> SUFFICES ASSUME QueueTypeOK, [QueueNext]_queueVars PROVE QueueTypeOK'
  OBVIOUS
<1> USE DepthAssumption DEF QueueTypeOK, Slot
<1>1. ASSUME NEW x \in Item, Enqueue(x) PROVE QueueTypeOK'
  BY <1>1 DEF Enqueue, Full, SlotOf
<1>2. CASE Dequeue
  BY <1>2 DEF Dequeue
<1>3. CASE UNCHANGED queueVars
  BY <1>3 DEF queueVars
<1> QED BY <1>1, <1>2, <1>3 DEF QueueNext

LEMMA NextQueueInv == QueueInv /\ [QueueNext]_queueVars => QueueInv'
<1> SUFFICES ASSUME QueueInv, [QueueNext]_queueVars PROVE NoUnwrittenSlot'
  BY NextQueueTypeOK DEF QueueInv
<1>0. QueueTypeOK /\ QueueTypeOK' /\ NoUnwrittenSlot
  BY NextQueueTypeOK DEF QueueInv
<1>1. ASSUME NEW x \in Item, Enqueue(x) PROVE NoUnwrittenSlot'
  <2> SUFFICES ASSUME NEW i \in 0 .. count' - 1 PROVE ring'[SlotOf(i)'] \in Item
    BY DEF NoUnwrittenSlot
  <2>1. i \in 0 .. count /\ count \in 0 .. Depth /\ SlotOf(i)' = SlotOf(i)
    BY <1>0, <1>1, DepthAssumption DEF Enqueue, SlotOf, QueueTypeOK
  <2>2. SlotOf(count) \in Slot
    BY <2>1, <1>0, SlotInRange
  <2>3. CASE i = count
    BY <2>1, <2>2, <2>3, <1>0, <1>1 DEF Enqueue, QueueTypeOK
  <2>4. CASE i # count
    <3>1. i \in 0 .. count - 1
      BY <2>1, <2>4
    <3>2. SlotOf(i) # SlotOf(count)
      BY <3>1, <1>0, <1>1, FreshSlot DEF Enqueue
    <3> QED BY <3>1, <3>2, <2>1, <2>2, <1>0, <1>1 DEF Enqueue, QueueTypeOK, NoUnwrittenSlot
  <2> QED BY <2>3, <2>4
<1>2. CASE Dequeue
  <2> SUFFICES ASSUME NEW i \in 0 .. count' - 1 PROVE ring'[SlotOf(i)'] \in Item
    BY DEF NoUnwrittenSlot
  <2>1. i \in 0 .. count - 2 /\ i + 1 \in 0 .. count - 1
    BY <1>0, <1>2 DEF Dequeue, QueueTypeOK
  <2>2. SlotOf(i)' = SlotOf(i + 1)
    BY <2>1, <1>0, <1>2, ShiftedSlot
  <2> QED BY <2>1, <2>2, <1>0, <1>2 DEF Dequeue, NoUnwrittenSlot
<1>3. CASE UNCHANGED queueVars
  BY <1>3, <1>0 DEF queueVars, NoUnwrittenSlot, SlotOf
<1> QED BY <1>1, <1>2, <1>3 DEF QueueNext

\* The ring's indices and its counter stay in range.
THEOREM QueueTypeCorrect == QueueSpec => []QueueTypeOK
  BY InitQueueInv, NextQueueInv, PTL DEF QueueSpec, QueueInv

\* The consumer never reads a slot the producer has not filled.
THEOREM OnlyWrittenSlots == QueueSpec => []NoUnwrittenSlot
  BY InitQueueInv, NextQueueInv, PTL DEF QueueSpec, QueueInv

-----------------------------------------------------------------------------
\* The abstract queue's value is a sequence of writes as long as the counter.
LEMMA ContentsSeq ==
  ASSUME QueueInv
  PROVE  Contents \in Seq(Item) /\ Len(Contents) = count
<1>1. count \in Nat
  BY DepthAssumption DEF QueueInv, QueueTypeOK
<1>2. ASSUME NEW i \in 1 .. count PROVE ring[SlotOf(i - 1)] \in Item
  BY <1>1, <1>2 DEF QueueInv, NoUnwrittenSlot
<1> QED BY <1>1, <1>2 DEF Contents

\* The producer's step appends to the abstract queue.
LEMMA EnqueuePuts ==
  ASSUME QueueInv, NEW x \in Item, Enqueue(x), QueueInv'
  PROVE  Contents' = Append(Contents, x)
<1>1. QueueTypeOK /\ QueueTypeOK' /\ count \in 0 .. Depth /\ count' = count + 1 /\ ~Full
  BY DEF QueueInv, QueueTypeOK, Enqueue
<1>2. /\ Contents \in Seq(Item) /\ Len(Contents) = count
      /\ Contents' \in Seq(Item) /\ Len(Contents') = count + 1
  BY ContentsSeq, <1>1 DEF Contents, QueueInv, QueueTypeOK, NoUnwrittenSlot, SlotOf
<1>3. ASSUME NEW i \in 1 .. count + 1
      PROVE  Contents'[i] = Append(Contents, x)[i]
  <2>1. Contents'[i] = ring'[SlotOf(i - 1)]
    BY <1>1 DEF Contents, SlotOf, Enqueue
  <2>2. SlotOf(count) \in Slot
    BY <1>1, SlotInRange
  <2>3. CASE i = count + 1
    <3>1. i - 1 = count
      BY <2>3, <1>1
    <3> QED BY <3>1, <2>1, <2>2, <2>3, <1>1, <1>2 DEF Enqueue, QueueTypeOK
  <2>4. CASE i # count + 1
    <3>1. i \in 1 .. count /\ i - 1 \in 0 .. count - 1
      BY <2>4, <1>1
    <3>2. SlotOf(i - 1) # SlotOf(count)
      BY <3>1, <1>1, FreshSlot
    <3>3. ring'[SlotOf(i - 1)] = ring[SlotOf(i - 1)]
      BY <3>2, <2>2, <1>1 DEF Enqueue, QueueTypeOK
    <3>4. Contents[i] = ring[SlotOf(i - 1)]
      BY <3>1 DEF Contents
    <3>5. Append(Contents, x)[i] = Contents[i]
      BY <3>1, <1>2
    <3> QED BY <3>3, <3>4, <3>5, <2>1
  <2> QED BY <2>3, <2>4
<1>4. Append(Contents, x) \in Seq(Item) /\ Len(Append(Contents, x)) = count + 1
  BY <1>2
<1> QED BY <1>2, <1>3, <1>4

\* The consumer's step removes the abstract queue's oldest write.
LEMMA DequeueTakes ==
  ASSUME QueueInv, Dequeue, QueueInv'
  PROVE  Contents # << >> /\ Contents' = Tail(Contents)
<1>1. QueueTypeOK /\ QueueTypeOK' /\ count \in 1 .. Depth /\ count' = count - 1
  BY DEF QueueInv, QueueTypeOK, Dequeue
<1>2. /\ Contents \in Seq(Item) /\ Len(Contents) = count
      /\ Contents' \in Seq(Item) /\ Len(Contents') = count - 1
  BY ContentsSeq, <1>1 DEF Contents, QueueInv, QueueTypeOK, NoUnwrittenSlot, SlotOf
<1>3. Contents # << >>
  BY <1>1, <1>2
<1>4. Tail(Contents) \in Seq(Item) /\ Len(Tail(Contents)) = count - 1
  BY <1>1, <1>2, <1>3
<1>5. ASSUME NEW i \in 1 .. count - 1
      PROVE  Contents'[i] = Tail(Contents)[i]
  <2>1. i - 1 \in 0 .. count - 2 /\ (i - 1) + 1 = i /\ i + 1 \in 1 .. count /\ (i + 1) - 1 = i
    BY <1>1
  <2>2. SlotOf(i - 1)' = SlotOf(i)
    BY <2>1, <1>1, ShiftedSlot
  <2>3. Contents'[i] = ring'[SlotOf(i - 1)']
    BY <1>1 DEF Contents, SlotOf
  <2>4. Contents[i + 1] = ring[SlotOf(i)]
    BY <2>1 DEF Contents
  <2>5. Tail(Contents)[i] = Contents[i + 1]
    BY <1>2, <1>3, <1>1
  <2> QED BY <2>2, <2>3, <2>4, <2>5 DEF Dequeue
<1> QED BY <1>2, <1>3, <1>4, <1>5

\* For every depth, the ring is a bounded first-in first-out queue: what
\* enqueueFilterWrite accepts leaves drainEvents once, unaltered, in order.
THEOREM RingIsFifo == QueueSpec => IsFifo
<1>1. QueueInit => Fifo!Init
  BY DEF QueueInit, Fifo!Init, Contents
<1>2. QueueInv /\ QueueInv' /\ [QueueNext]_queueVars => [Fifo!Next]_Contents
  <2> SUFFICES ASSUME QueueInv, QueueInv', [QueueNext]_queueVars PROVE [Fifo!Next]_Contents
    OBVIOUS
  <2>1. ASSUME NEW x \in Item, Enqueue(x) PROVE Fifo!Next
    <3>1. Len(Contents) < Depth
      BY <2>1, ContentsSeq, DepthAssumption DEF Enqueue, Full, QueueInv, QueueTypeOK
    <3> QED BY <3>1, <2>1, EnqueuePuts DEF Fifo!Next, Fifo!Put
  <2>2. CASE Dequeue
    BY <2>2, DequeueTakes DEF Fifo!Next, Fifo!Take
  <2>3. CASE UNCHANGED queueVars
    BY <2>3 DEF queueVars, Contents, SlotOf
  <2> QED BY <2>1, <2>2, <2>3 DEF QueueNext
<1> QED BY <1>1, <1>2, InitQueueInv, NextQueueInv, PTL DEF QueueSpec, IsFifo, Fifo!Spec

-----------------------------------------------------------------------------
(* The server's two threads.                                                 *)

LEMMA DenyAllType == DenyAll \in Filters(Conn)
  BY DEF DenyAll, Filters

\* handleWrite keeps the filter a filter, whatever write it is given.
LEMMA HandleWriteType ==
  ASSUME NEW f \in Filters(Conn), NEW w \in FilterWrites(Conn)
  PROVE  HandleWrite(f, w) \in Filters(Conn)
<1>1. DenyAll \in Filters(Conn)
  BY DenyAllType
<1>2. w.cmd = "allowOne" => w.pid \in Pid
  BY DEF FilterWrites
<1>3. w.from \in Conn
  BY DEF FilterWrites
<1>4. CASE w.cmd = "denyAll"
  BY <1>1, <1>4 DEF HandleWrite
<1>5. CASE w.cmd = "allowAll"
  BY <1>3, <1>5 DEF HandleWrite, DenyAll, Filters
<1>6. CASE w.cmd = "allowOne" /\ (w.pid \in Listed(f) \/ Cardinality(Listed(f)) < MaxPids)
  BY <1>2, <1>3, <1>6 DEF HandleWrite, Filters
<1>7. CASE /\ w.cmd \notin {"denyAll", "allowAll"}
           /\ ~(w.cmd = "allowOne" /\ (w.pid \in Listed(f) \/ Cardinality(Listed(f)) < MaxPids))
  BY <1>7 DEF HandleWrite
<1> QED BY <1>4, <1>5, <1>6, <1>7

\* What a step of either thread does to the queue is a step of the queue.
LEMMA StepIsQueueStep == [Next]_vars => [QueueNext]_queueVars
  BY DEF Next, Host, Loop, vars, queueVars, QueueNext, LinkUp, LinkDown, RaiseEvent,
         WriteFilter, WriteBadLength, ReadEvent, Dispatch, Pop, Apply, Withhold, Decide,
         Notify

-----------------------------------------------------------------------------
\* The inductive invariant behind type correctness: the queue's own, and the
\* write in the loop's hand is one that was queued.
HoldsQueuedWrite == loopPc = "apply" => write \in Item

BleInv == TypeOK /\ NoUnwrittenSlot /\ HoldsQueuedWrite

LEMMA InitBleInv == Init => BleInv
<1> SUFFICES ASSUME Init PROVE BleInv
  OBVIOUS
<1>1. QueueTypeOK /\ NoUnwrittenSlot
  BY InitQueueInv DEF Init, QueueInv
<1>2. filter \in Filters(Conn) /\ asked \in Filters(Conn)
  BY DenyAllType DEF Init
<1>3. sent \in [to : Conn \cup {0}, by : SUBSET Conn]
  BY DEF Init
<1> QED BY <1>1, <1>2, <1>3 DEF Init, BleInv, HoldsQueuedWrite, TypeOK, Events

LEMMA NextBleInv == BleInv /\ [Next]_vars => BleInv'
<1> SUFFICES ASSUME BleInv, [Next]_vars PROVE BleInv'
  OBVIOUS
<1>0. QueueInv /\ TypeOK /\ HoldsQueuedWrite
  BY DEF BleInv, TypeOK, QueueInv
<1>1. QueueTypeOK' /\ NoUnwrittenSlot'
  BY <1>0, StepIsQueueStep, NextQueueInv DEF QueueInv
<1> SUFFICES TypeOK' /\ HoldsQueuedWrite'
  BY <1>1 DEF BleInv
<1>2. CASE LinkUp
  <2>1. conn' \in Conn
    BY <1>0, <1>2, BleAssumption DEF LinkUp, TypeOK, Conn
  <2> QED BY <2>1, <1>0, <1>1, <1>2, DenyAllType
          DEF LinkUp, TypeOK, HoldsQueuedWrite, loopVars
<1>3. CASE LinkDown
  BY <1>0, <1>1, <1>3 DEF LinkDown, TypeOK, HoldsQueuedWrite, loopVars
<1>4. CASE RaiseEvent
  BY <1>0, <1>1, <1>4 DEF RaiseEvent, TypeOK, HoldsQueuedWrite, loopVars, Events
<1>5. ASSUME NEW w \in Item, WriteFilter(w) PROVE TypeOK' /\ HoldsQueuedWrite'
  <2>1. HandleWrite(asked, w) \in Filters(Conn)
    BY <1>0, HandleWriteType, ItemAssumption DEF TypeOK
  <2> QED BY <2>1, <1>0, <1>1, <1>5 DEF WriteFilter, TypeOK, HoldsQueuedWrite, loopVars
<1>6. CASE WriteBadLength
  BY <1>0, <1>1, <1>6 DEF WriteBadLength, TypeOK, HoldsQueuedWrite, loopVars
<1>7. CASE ReadEvent
  BY <1>0, <1>1, <1>7 DEF ReadEvent, TypeOK, HoldsQueuedWrite, hostVars
<1>8. CASE Dispatch
  <2>0. filter' \in Filters(Conn)
    BY <1>8, DenyAllType DEF Dispatch
  <2>1. aligned' \in BOOLEAN
    <3>1. FreshStart \in BOOLEAN
      BY DEF FreshStart
    <3> QED BY <3>1, <1>8, Zenon DEF Dispatch
  <2>2. UNCHANGED <<connected, hostVars, event, write, chan, applied, sent>>
    BY <1>8 DEF Dispatch
  <2>3. pendingEvent' = "kNone" /\ loopPc' = "pop" /\ handled' = event
    BY <1>8 DEF Dispatch
  <2> QED BY <2>0, <2>1, <2>2, <2>3, <1>0, <1>1
          DEF TypeOK, HoldsQueuedWrite, hostVars, Events
<1>9. CASE Pop
  <2>1. count > 0 => Oldest \in Item
    BY <1>0, OldestWrite
  <2> QED BY <2>1, <1>0, <1>1, <1>9, BleAssumption
          DEF Pop, TypeOK, HoldsQueuedWrite, hostVars, Dequeue
<1>10. CASE Apply
  <2>1. HandleWrite(filter, write) \in Filters(Conn)
    BY <1>0, <1>10, HandleWriteType, ItemAssumption DEF TypeOK, HoldsQueuedWrite, Apply
  <2> QED BY <2>1, <1>0, <1>1, <1>10 DEF Apply, TypeOK, HoldsQueuedWrite, hostVars
<1>11. CASE Withhold
  BY <1>0, <1>1, <1>11, BleAssumption
  DEF Withhold, NextChannel, TypeOK, HoldsQueuedWrite, hostVars
<1>12. CASE Decide
  BY <1>0, <1>1, <1>12 DEF Decide, TypeOK, HoldsQueuedWrite, hostVars
<1>13. CASE Notify
  <2>1. Grantors(filter, chan) \subseteq Conn
    BY <1>0, BleAssumption DEF Grantors, TypeOK, Filters
  <2> QED BY <2>1, <1>0, <1>1, <1>13, BleAssumption
          DEF Notify, NextChannel, TypeOK, HoldsQueuedWrite, hostVars
<1>14. CASE UNCHANGED vars
  BY <1>0, <1>1, <1>14 DEF vars, TypeOK, HoldsQueuedWrite, hostVars, loopVars
<1> QED BY <1>2, <1>3, <1>4, <1>5, <1>6, <1>7, <1>8, <1>9, <1>10, <1>11, <1>12, <1>13,
           <1>14 DEF Next, Host, Loop

\* Both threads' variables keep their types, whatever the interleaving.
THEOREM TypeCorrect == Spec => []TypeOK
  BY InitBleInv, NextBleInv, PTL DEF Spec, BleInv

LEMMA NextAccounted ==
  ASSUME BleInv, WritesAccounted, [Next]_vars
  PROVE  WritesAccounted'
<1> USE DEF WritesAccounted
<1>0. /\ count \in Nat /\ applied \in Nat /\ accepted \in Nat /\ dropped \in Nat
      /\ written \in Nat
  BY DepthAssumption DEF BleInv, TypeOK, QueueTypeOK
<1>1. CASE LinkUp \/ LinkDown \/ RaiseEvent
  BY <1>1 DEF LinkUp, LinkDown, RaiseEvent, loopVars, queueVars
<1>2. ASSUME NEW w \in Item, WriteFilter(w) PROVE WritesAccounted'
  BY <1>0, <1>2 DEF WriteFilter, Enqueue, loopVars, queueVars
<1>3. CASE WriteBadLength
  BY <1>0, <1>3 DEF WriteBadLength, loopVars, queueVars
<1>4. CASE ReadEvent \/ Dispatch
  BY <1>4 DEF ReadEvent, Dispatch, hostVars, queueVars
<1>5. CASE Pop
  BY <1>0, <1>5 DEF Pop, Dequeue, hostVars, queueVars
<1>6. CASE Apply
  BY <1>0, <1>6 DEF Apply, hostVars, queueVars
<1>7. CASE Withhold \/ Decide \/ Notify
  BY <1>7 DEF Withhold, Decide, Notify, NextChannel, hostVars, queueVars
<1>8. CASE UNCHANGED vars
  BY <1>8 DEF vars, hostVars, loopVars, queueVars
<1> QED BY <1>1, <1>2, <1>3, <1>4, <1>5, <1>6, <1>7, <1>8 DEF Next, Host, Loop

\* No write of the app goes missing between the threads without being counted.
THEOREM AllWritesAccounted == Spec => []WritesAccounted
<1>1. Init => WritesAccounted
  BY DEF Init, QueueInit, WritesAccounted
<1>2. BleInv /\ WritesAccounted /\ [Next]_vars => WritesAccounted'
  BY NextAccounted
<1> QED BY <1>1, <1>2, InitBleInv, NextBleInv, PTL DEF Spec

\* For every depth and interleaving, the queue between the threads is a bounded
\* first-in first-out queue.
THEOREM BleQueueIsFifo == Spec => IsFifo
<1>1. Init => QueueInit
  BY DEF Init
<1>2. Spec => QueueSpec
  BY <1>1, StepIsQueueStep, PTL DEF Spec, QueueSpec
<1> QED BY <1>2, RingIsFifo

-----------------------------------------------------------------------------
(* Deny all until asked, while the loop keeps up with the link.              *)

\* Everything on its way to the filter, and everything in it, comes from the
\* current connection; nothing is on its way while the link is down, and once
\* the loop has handled that the filter denies all.
QueueIsOurs  == \A i \in 1 .. count : Contents[i].from = conn
HandIsOurs   == loopPc = "apply" => write.from = conn
FilterIsOurs == filter.all \in {0, conn} /\ \A p \in Pid : filter.pids[p] \in {0, conn}
DownIsQuiet  == ~connected => count = 0 /\ loopPc # "apply"
DownIsDenied ==
  (~connected /\ hostPc = "ready" /\ pendingEvent = "kNone" /\ loopPc # "dispatch")
    => filter = DenyAll
DecidedIsAllowed == loopPc = "notify" => Allowed(filter, chan)

\* A step of the system that changes the link only with the loop caught up.
PromptNext == Next /\ (connected' # connected => CaughtUp)

PromptInv == /\ BleInv
             /\ QueueIsOurs /\ HandIsOurs /\ FilterIsOurs
             /\ DownIsQuiet /\ DownIsDenied /\ DecidedIsAllowed
             /\ DenyAllUntilAsked

LEMMA InitPromptInv == Init => PromptInv
  BY InitBleInv
  DEF Init, QueueInit, PromptInv, QueueIsOurs, HandIsOurs, FilterIsOurs, DownIsQuiet,
      DownIsDenied, DecidedIsAllowed, DenyAllUntilAsked, DenyAll

\* A write of the current connection leaves the filter with grants of no other.
LEMMA HandleWriteIsOurs ==
  ASSUME BleInv, FilterIsOurs, NEW w \in Item, w.from = conn,
         filter' = HandleWrite(filter, w), conn' = conn
  PROVE  FilterIsOurs'
<1>1. filter \in Filters(Conn) /\ (w.cmd = "allowOne" => w.pid \in Pid)
  BY ItemAssumption DEF BleInv, TypeOK, FilterWrites
<1>2. CASE w.cmd = "denyAll"
  BY <1>2 DEF HandleWrite, FilterIsOurs, DenyAll
<1>3. CASE w.cmd = "allowAll"
  BY <1>3 DEF HandleWrite, FilterIsOurs, DenyAll
<1>4. CASE w.cmd = "allowOne" /\ (w.pid \in Listed(filter) \/ Cardinality(Listed(filter)) < MaxPids)
  BY <1>1, <1>4 DEF HandleWrite, FilterIsOurs, Filters
<1>5. CASE /\ w.cmd \notin {"denyAll", "allowAll"}
           /\ ~(w.cmd = "allowOne" /\ (w.pid \in Listed(filter) \/ Cardinality(Listed(filter)) < MaxPids))
  BY <1>5 DEF HandleWrite, FilterIsOurs
<1> QED BY <1>2, <1>3, <1>4, <1>5

LEMMA NextPromptInv == PromptInv /\ [PromptNext]_vars => PromptInv'
<1> SUFFICES ASSUME PromptInv, [PromptNext]_vars PROVE PromptInv'
  OBVIOUS
<1> USE DEF QueueIsOurs, HandIsOurs, FilterIsOurs, DownIsQuiet, DownIsDenied,
            DecidedIsAllowed, DenyAllUntilAsked
<1>0. BleInv /\ TypeOK /\ QueueInv /\ count \in Nat
  BY DepthAssumption DEF PromptInv, BleInv, TypeOK, QueueInv, QueueTypeOK
<1>1. BleInv' /\ QueueInv'
  BY <1>0, NextBleInv DEF PromptNext, BleInv, TypeOK, QueueInv
<1>2. UNCHANGED queueVars => Contents' = Contents /\ count' = count
  BY DEF queueVars, Contents, SlotOf
<1>3. CASE LinkUp /\ CaughtUp
  <2>1. filter = DenyAll /\ filter' = DenyAll /\ count' = 0
    BY <1>0, <1>2, <1>3 DEF PromptInv, LinkUp, CaughtUp, loopVars, queueVars
  <2>2. FilterIsOurs'
    BY <2>1 DEF DenyAll
  <2>3. ~Allowed(filter, chan)
    <3>1. chan \in Pid
      BY <1>0, BleAssumption DEF TypeOK
    <3> QED BY <3>1, <2>1 DEF DenyAll, Allowed
  <2>4. UNCHANGED <<chan, sent, loopPc>>
    BY <1>3 DEF LinkUp, loopVars
  <2>5. loopPc' # "notify" /\ loopPc' # "apply" /\ connected'
    BY <2>3, <2>4, <1>3 DEF PromptInv, LinkUp, CaughtUp
  <2>6. QueueIsOurs'
    BY <2>1
  <2>7. HandIsOurs' /\ DecidedIsAllowed'
    BY <2>5
  <2>8. DownIsQuiet' /\ DownIsDenied'
    BY <2>5
  <2>9. DenyAllUntilAsked'
    BY <2>4 DEF PromptInv
  <2> QED BY <2>2, <2>6, <2>7, <2>8, <2>9, <1>1 DEF PromptInv
<1>4. CASE LinkDown /\ CaughtUp
  BY <1>0, <1>1, <1>2, <1>4 DEF PromptInv, LinkDown, CaughtUp, loopVars, queueVars
<1>5. CASE RaiseEvent
  BY <1>0, <1>1, <1>2, <1>5 DEF PromptInv, RaiseEvent, loopVars, queueVars
<1>6. ASSUME NEW w \in Item, WriteFilter(w) PROVE PromptInv'
  <2>1. CASE Enqueue(w)
    <3>1. Contents' = Append(Contents, w) /\ count' = count + 1
      BY <2>1, <1>0, <1>1, EnqueuePuts DEF Enqueue
    <3>2. Contents \in Seq(Item) /\ Len(Contents) = count
      BY <1>0, ContentsSeq
    <3>3. QueueIsOurs'
      BY <3>1, <3>2, <1>0, <1>6 DEF WriteFilter, PromptInv
    <3> QED BY <3>3, <1>0, <1>1, <1>6 DEF PromptInv, WriteFilter, loopVars
  <2>2. CASE UNCHANGED queueVars
    BY <2>2, <1>0, <1>1, <1>2, <1>6 DEF PromptInv, WriteFilter, loopVars
  <2> QED BY <2>1, <2>2, <1>6 DEF WriteFilter
<1>7. CASE WriteBadLength
  BY <1>0, <1>1, <1>2, <1>7 DEF PromptInv, WriteBadLength, loopVars
<1>8. CASE ReadEvent
  BY <1>0, <1>1, <1>2, <1>8 DEF PromptInv, ReadEvent, hostVars
<1>9. CASE Dispatch
  BY <1>0, <1>1, <1>2, <1>9 DEF PromptInv, Dispatch, hostVars, DenyAll
<1>10. CASE Pop
  <2>1. CASE Dequeue /\ write' = Oldest /\ loopPc' = "apply"
    <3>1. Contents # << >> /\ Contents' = Tail(Contents) /\ count' = count - 1 /\ count > 0
      BY <2>1, <1>0, <1>1, DequeueTakes DEF Dequeue
    <3>2. Contents \in Seq(Item) /\ Len(Contents) = count
      BY <1>0, ContentsSeq
    <3>3. QueueIsOurs'
      BY <3>1, <3>2, <1>0, <1>10 DEF Pop, hostVars, PromptInv
    <3>4. HandIsOurs'
      BY <3>1, <2>1, <1>0, <1>10, OldestWrite DEF Pop, hostVars, PromptInv
    <3>5. UNCHANGED <<connected, pendingEvent, hostPc, conn, filter, sent>>
      BY <1>10 DEF Pop, hostVars
    <3>6. connected /\ DownIsQuiet' /\ DownIsDenied' /\ DecidedIsAllowed'
      BY <3>1, <3>5, <2>1 DEF PromptInv
    <3>7. FilterIsOurs' /\ DenyAllUntilAsked'
      BY <3>5 DEF PromptInv
    <3> QED BY <3>3, <3>4, <3>6, <3>7, <1>1 DEF PromptInv
  <2>2. CASE UNCHANGED queueVars /\ loopPc' = "publish"
    BY <2>2, <1>0, <1>1, <1>2, <1>10 DEF PromptInv, Pop, hostVars
  <2> QED BY <2>1, <2>2, <1>10 DEF Pop
<1>11. CASE Apply
  <2>1. FilterIsOurs'
    BY <1>0, <1>11, HandleWriteIsOurs DEF Apply, hostVars, PromptInv, BleInv, HoldsQueuedWrite
  <2> QED BY <2>1, <1>0, <1>1, <1>2, <1>11 DEF PromptInv, Apply, hostVars
<1>12. CASE Withhold
  BY <1>0, <1>1, <1>2, <1>12 DEF PromptInv, Withhold, NextChannel, hostVars
<1>13. CASE Decide
  BY <1>0, <1>1, <1>2, <1>13 DEF PromptInv, Decide, hostVars
<1>14. CASE Notify
  <2>1. connected => conn \in Grantors(filter, chan) \/ conn = 0
    BY <1>14, <1>0, BleAssumption DEF Notify, PromptInv, Grantors, Allowed, TypeOK
  <2> QED BY <2>1, <1>0, <1>1, <1>2, <1>14 DEF PromptInv, Notify, NextChannel, hostVars
<1>15. CASE UNCHANGED vars
  BY <1>0, <1>1, <1>2, <1>15 DEF PromptInv, vars, hostVars, loopVars
<1>16. LinkUp \/ LinkDown => connected' # connected
  BY <1>0 DEF LinkUp, LinkDown, TypeOK
<1> QED BY <1>3, <1>4, <1>5, <1>6, <1>7, <1>8, <1>9, <1>10, <1>11, <1>12, <1>13, <1>14,
           <1>15, <1>16 DEF PromptNext, Next, Host, Loop

\* prompt stays true only over a step that changes the link with the loop caught
\* up, if it changes it.
LEMMA PromptStep == prompt' /\ [Next]_vars => prompt /\ [PromptNext]_vars
<1> SUFFICES ASSUME prompt', [Next]_vars PROVE prompt /\ [PromptNext]_vars
  OBVIOUS
<1>1. CASE LinkUp \/ LinkDown
  BY <1>1 DEF LinkUp, LinkDown, PromptNext, Next, Host
<1>2. ASSUME NEW w \in Item, WriteFilter(w) PROVE UNCHANGED <<prompt, connected>>
  BY <1>2 DEF WriteFilter
<1>3. CASE RaiseEvent \/ WriteBadLength
  BY <1>3 DEF RaiseEvent, WriteBadLength, PromptNext, Next, Host
<1>4. CASE Loop
  <2>1. UNCHANGED <<prompt, connected>>
    BY <1>4 DEF Loop, ReadEvent, Dispatch, Pop, Apply, Withhold, Decide, Notify, hostVars
  <2> QED BY <2>1, <1>4 DEF PromptNext, Next
<1>5. CASE UNCHANGED vars
  BY <1>5 DEF vars, hostVars
<1> QED BY <1>1, <1>2, <1>3, <1>4, <1>5 DEF PromptNext, Next, Host

\* While the link changes only when the loop has caught up with it, every packet
\* goes to a connection that asked for it: for every queue depth, table size and
\* number of connections.
THEOREM PromptDenyAllHolds == Spec => []PromptDenyAll
<1> DEFINE Inv == BleInv /\ (prompt => PromptInv)
<1>1. Init => Inv
  BY InitPromptInv, InitBleInv
<1>2. Inv /\ [Next]_vars => Inv'
  BY NextPromptInv, NextBleInv, PromptStep
<1>3. Inv => PromptDenyAll
  BY DEF PromptInv, PromptDenyAll
<1> QED BY <1>1, <1>2, <1>3, PTL DEF Spec

-----------------------------------------------------------------------------
(* The loop publishes under what the connection asked for.                   *)

\* The filter when the write in the loop's hand has been applied.
AfterHand == IF loopPc = "apply" THEN HandleWrite(filter, write) ELSE filter

\* g gives the filters that the loop will go through as it applies what waits in
\* the ring; the last of them is what the connection's writes add up to.
Replays(g) ==
  /\ g \in [Nat -> Filters(Conn)]
  /\ g[0] = AfterHand
  /\ \A i \in 1 .. count : g[i] = HandleWrite(g[i - 1], Contents[i])
  /\ g[count] = asked

Replayed == aligned => \E g : Replays(g)

LEMMA ReplayUnchanged ==
  ASSUME Replayed, UNCHANGED <<queueVars, asked, aligned>>, AfterHand' = AfterHand
  PROVE  Replayed'
<1>1. Contents' = Contents /\ count' = count
  BY DEF queueVars, Contents, SlotOf
<1>2. \A g : Replays(g) => Replays(g)'
  BY <1>1 DEF Replays
<1> QED BY <1>2 DEF Replayed

LEMMA NextReplayed == BleInv /\ Replayed /\ [Next]_vars => Replayed'
<1> SUFFICES ASSUME BleInv, Replayed, [Next]_vars PROVE Replayed'
  OBVIOUS
<1>0. TypeOK /\ QueueInv /\ QueueInv' /\ count \in Nat /\ HoldsQueuedWrite
  BY NextBleInv, DepthAssumption DEF BleInv, TypeOK, QueueInv, QueueTypeOK
<1>1. CASE LinkUp \/ LinkDown
  BY <1>1 DEF LinkUp, LinkDown, Replayed
<1>2. CASE RaiseEvent \/ WriteBadLength
  BY <1>2, ReplayUnchanged DEF RaiseEvent, WriteBadLength, AfterHand, loopVars
<1>3. CASE ReadEvent \/ Withhold \/ Decide \/ Notify
  BY <1>3, ReplayUnchanged
     DEF ReadEvent, Withhold, Decide, Notify, NextChannel, AfterHand, hostVars
<1>4. CASE UNCHANGED vars
  BY <1>4, ReplayUnchanged DEF vars, hostVars, loopVars, AfterHand
\* A write is queued: one more filter to go through.
<1>5. ASSUME NEW w \in Item, WriteFilter(w) PROVE Replayed'
  <2>1. CASE Enqueue(w) /\ asked' = HandleWrite(asked, w)
    <3> SUFFICES ASSUME aligned PROVE \E g : Replays(g)'
      BY <1>5 DEF Replayed, WriteFilter
    <3>1. PICK g : Replays(g)
      BY DEF Replayed
    <3>2. /\ Contents' = Append(Contents, w) /\ count' = count + 1
          /\ Contents \in Seq(Item) /\ Len(Contents) = count
      BY <1>0, <2>1, EnqueuePuts, ContentsSeq DEF Enqueue
    <3>3. AfterHand' = AfterHand
      BY <1>5 DEF WriteFilter, AfterHand, loopVars
    <3>4. HandleWrite(asked, w) \in Filters(Conn)
      BY <1>0, HandleWriteType, ItemAssumption DEF TypeOK
    <3>5. PICK h \in [Nat -> Filters(Conn)] : /\ h[count + 1] = HandleWrite(asked, w)
                                              /\ \A i \in 0 .. count : h[i] = g[i]
      <4> DEFINE h == [g EXCEPT ![count + 1] = HandleWrite(asked, w)]
      <4>1. /\ h \in [Nat -> Filters(Conn)] /\ h[count + 1] = HandleWrite(asked, w)
            /\ \A i \in 0 .. count : h[i] = g[i]
        BY <1>0, <3>1, <3>4 DEF Replays
      <4> QED BY <4>1
    <3>6. ASSUME NEW i \in 1 .. count + 1
          PROVE  h[i] = HandleWrite(h[i - 1], Contents'[i])
      <4>1. CASE i = count + 1
        <5>1. Contents'[i] = w /\ h[i - 1] = asked
          BY <1>0, <3>1, <3>2, <3>5, <4>1 DEF Replays
        <5> QED BY <3>5, <4>1, <5>1
      <4>2. CASE i \in 1 .. count
        <5>1. Contents'[i] = Contents[i] /\ h[i - 1] = g[i - 1] /\ h[i] = g[i]
          BY <1>0, <3>2, <3>5, <4>2
        <5> QED BY <3>1, <4>2, <5>1 DEF Replays
      <4> QED BY <1>0, <4>1, <4>2
    <3>7. h[0] = AfterHand'
      BY <1>0, <3>1, <3>3, <3>5 DEF Replays
    <3>8. h[count'] = asked'
      BY <2>1, <3>2, <3>5
    <3>9. \A i \in 1 .. count' : h[i] = HandleWrite(h[i - 1], Contents'[i])
      BY <3>2, <3>6
    <3>10. Replays(h)'
      BY <3>5, <3>7, <3>8, <3>9 DEF Replays
    <3> QED BY <3>10
  <2>2. CASE UNCHANGED <<queueVars, asked>>
    BY <1>5, <2>2, ReplayUnchanged DEF WriteFilter, AfterHand, loopVars
  <2> QED BY <1>5, <2>1, <2>2 DEF WriteFilter
\* The filter starts afresh, with nothing asked for yet.
<1>6. CASE Dispatch
  <2> SUFFICES ASSUME FreshStart PROVE \E g : Replays(g)'
    BY <1>6 DEF Dispatch, Replayed
  <2>1. count' = 0 /\ asked' = DenyAll /\ AfterHand' = DenyAll
    BY <1>6 DEF Dispatch, FreshStart, AfterHand, hostVars, queueVars
  <2> DEFINE g == [i \in Nat |-> DenyAll]
  <2>2. g \in [Nat -> Filters(Conn)] /\ g[0] = DenyAll
    BY DenyAllType
  <2> HIDE DEF g
  <2>3. Replays(g)'
    BY <2>1, <2>2 DEF Replays
  <2> QED BY <2>3
\* The oldest write is taken in hand.
<1>7. CASE Pop
  <2>1. CASE Dequeue /\ write' = Oldest /\ loopPc' = "apply"
    <3> SUFFICES ASSUME aligned PROVE \E g : Replays(g)'
      BY <1>7 DEF Replayed, Pop
    <3>1. PICK g : Replays(g)
      BY DEF Replayed
    <3>2. /\ Contents' = Tail(Contents) /\ count' = count - 1 /\ count > 0
          /\ Contents \in Seq(Item) /\ Len(Contents) = count /\ Contents # <<>>
          /\ Oldest = Contents[1]
      BY <1>0, <2>1, DequeueTakes, ContentsSeq, OldestWrite DEF Dequeue
    <3>3. g[0] = filter /\ UNCHANGED <<filter, asked>>
      BY <1>7, <3>1 DEF Replays, AfterHand, Pop, hostVars
    <3> DEFINE h == [i \in Nat |-> g[i + 1]]
    <3>4. h \in [Nat -> Filters(Conn)] /\ \A i \in Nat : h[i] = g[i + 1]
      BY <3>1 DEF Replays
    <3> HIDE DEF h
    <3>5. h[0] = AfterHand'
      <4>1. h[0] = g[1]
        BY <3>4
      <4>2. g[1] = HandleWrite(g[0], Contents[1])
        BY <1>0, <3>1, <3>2 DEF Replays
      <4> QED BY <2>1, <3>2, <3>3, <4>1, <4>2 DEF AfterHand
    <3>6. ASSUME NEW i \in 1 .. count - 1
          PROVE  h[i] = HandleWrite(h[i - 1], Contents'[i])
      <4>1. Contents'[i] = Contents[i + 1]
        BY <1>0, <3>2
      <4>2. h[i] = g[i + 1] /\ h[i - 1] = g[(i + 1) - 1]
        BY <1>0, <3>4
      <4>3. i + 1 \in 1 .. count
        BY <1>0
      <4> QED BY <3>1, <4>1, <4>2, <4>3 DEF Replays
    <3>7. h[count - 1] = asked
      BY <1>0, <3>1, <3>2, <3>4 DEF Replays
    <3>8. Replays(h)'
      BY <3>2, <3>3, <3>4, <3>5, <3>6, <3>7 DEF Replays
    <3> QED BY <3>8
  <2>2. CASE UNCHANGED queueVars /\ loopPc' = "publish"
    BY <1>7, <2>2, ReplayUnchanged DEF Pop, AfterHand, hostVars
  <2> QED BY <1>7, <2>1, <2>2 DEF Pop
\* The write in hand is applied.
<1>8. CASE Apply
  <2>1. AfterHand' = AfterHand
    BY <1>8 DEF Apply, AfterHand
  <2> QED BY <1>8, <2>1, ReplayUnchanged DEF Apply, hostVars
<1> QED BY <1>1, <1>2, <1>3, <1>4, <1>5, <1>6, <1>7, <1>8 DEF Next, Host, Loop

\* A connection whose onConnect came before its first write publishes under what
\* its accepted writes add up to, for every depth, table size and interleaving.
THEOREM OwnSubscription == Spec => []PublishesUnderOwnSubscription
<1>1. Init => Replayed
  BY DEF Init, Replayed
<1>2. BleInv /\ Replayed => PublishesUnderOwnSubscription
  BY DEF Replayed, Replays, AfterHand, PublishesUnderOwnSubscription
<1> QED BY <1>1, <1>2, InitBleInv, NextBleInv, NextReplayed, PTL DEF Spec
=============================================================================
