---------------------------- MODULE FilterQueue ----------------------------
(***************************************************************************)
(* The ring of pending filter writes of BleTelemetryServer                 *)
(* (hal/ble_server.h: filterQueue_, filterHead_, filterCount_).  Both      *)
(* sides touch it only between portENTER_CRITICAL and portEXIT_CRITICAL,   *)
(* so one critical section is one action.                                  *)
(***************************************************************************)
EXTENDS Integers, Sequences

CONSTANTS Item,        \* a queued write: its bytes and its length
          NoItem,      \* what a slot holds before it is first written
          Depth        \* kFilterQueueDepth

ASSUME DepthAssumption == Depth \in Nat \ {0}

VARIABLES ring,        \* filterQueue_
          head,        \* filterHead_
          count        \* filterCount_

queueVars == <<ring, head, count>>

Slot == 0 .. Depth - 1

QueueTypeOK == /\ ring \in [Slot -> Item \cup {NoItem}]
               /\ head \in Slot
               /\ count \in 0 .. Depth

QueueInit == /\ ring = [s \in Slot |-> NoItem]
             /\ head = 0
             /\ count = 0

\* The slot that holds the i-th oldest write, i counted from 0.
SlotOf(i) == (head + i) % Depth

\* Faulty variants of the definitions below them, for checking that the
\* properties notice: a bound one too high, a slot one too far, the wrong end read.
FullOneLate == count = Depth + 1

EnqueueAhead(x) == /\ count < Depth
                   /\ ring' = [ring EXCEPT ![SlotOf(count + 1)] = x]
                   /\ count' = count + 1
                   /\ UNCHANGED head

NewestFirst == ring[SlotOf(count - 1)]

Full == count = Depth

\* The accepting branch of enqueueFilterWrite.
Enqueue(x) == /\ ~Full
              /\ ring' = [ring EXCEPT ![SlotOf(count)] = x]
              /\ count' = count + 1
              /\ UNCHANGED head

\* The write the consumer copies out before it advances the head.
Oldest == ring[head]

\* The consumer's critical section in drainEvents, when there is a write.
Dequeue == /\ count > 0
           /\ head' = (head + 1) % Depth
           /\ count' = count - 1
           /\ UNCHANGED ring

QueueNext == (\E x \in Item : Enqueue(x)) \/ Dequeue

QueueSpec == QueueInit /\ [][QueueNext]_queueVars

-----------------------------------------------------------------------------
\* The writes in the ring, oldest first: the abstract queue's value.
Contents == [i \in 1 .. count |-> ring[SlotOf(i - 1)]]

Fifo == INSTANCE BoundedFifo WITH items <- Contents

\* Every slot in use holds a write that was enqueued, never the initial
\* contents of the array: the consumer cannot hand the pipeline a slot that
\* the producer has not filled.
NoUnwrittenSlot == \A i \in 0 .. count - 1 : ring[SlotOf(i)] \in Item

\* The ring is a bounded first-in first-out queue: what enqueueFilterWrite
\* accepted leaves drainEvents once, unaltered, in the order of acceptance.
IsFifo == Fifo!Spec
=============================================================================
