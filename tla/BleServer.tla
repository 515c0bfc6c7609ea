----------------------------- MODULE BleServer -----------------------------
(***************************************************************************)
(* The one place where the firmware's two threads meet: BleTelemetryServer *)
(* (hal/ble_server.cpp) between NimBLE's host task, which runs the         *)
(* connection and write callbacks, and the Arduino loop, which drains them *)
(* into the pipeline's CAN filter and publishes.  An access to shared      *)
(* state that no lock covers is a step of its own.  Rate limiters and the  *)
(* filter's intervals are left to chance here: a packet the filter allows  *)
(* may always be withheld (Publishing models the clocks).                  *)
(***************************************************************************)
EXTENDS Integers, FilterQueue, Subscription

CONSTANTS MotionPid, StatusPid,   \* channels::kPidMotion, kPidStatus
          MaxConns,               \* bound: connections the phone makes
          MaxWrites               \* bound: filter writes the phone makes

ASSUME BleAssumption ==
  /\ MotionPid \in Pid /\ StatusPid \in Pid /\ MotionPid # StatusPid
  /\ MaxConns \in Nat /\ MaxWrites \in Nat

Conn == 1 .. MaxConns

ASSUME ItemAssumption == Item = FilterWrites(Conn) /\ NoItem \notin Item

VARIABLES
  \* Shared by the two threads, with ring, head and count.
  connected,      \* connected_
  pendingEvent,   \* pendingEvent_, a single slot
  \* The NimBLE host task.
  hostPc,         \* "ready", or "raise" inside onConnectionChanged
  conn,           \* number of the current or latest connection
  dropped,        \* droppedFilterWrites_
  \* The Arduino loop.
  loopPc,         \* where in drainEvents and the publishing calls it is
  event,          \* drainEvents' local event
  write,          \* drainEvents' local write
  chan,           \* the channel being published
  filter,         \* the pipeline's filter_
  handled,        \* last event given to the pipeline
  \* History.
  written,        \* filter writes made
  accepted,       \* of them, those the queue took
  applied,        \* of them, those given to the pipeline
  asked,          \* what the current connection's accepted writes add up to
  prompt,         \* the link has changed only when the loop had caught up
  aligned,        \* its onConnect ran before its first write, on an empty queue
  sent            \* last packet notified: to which connection, granted by which

hostVars  == <<hostPc, conn, dropped, written, accepted, asked, prompt>>
loopVars  == <<loopPc, event, write, chan, filter, handled, applied, sent>>
vars      == <<queueVars, connected, pendingEvent, aligned, hostVars, loopVars>>

Events == {"kNone", "kConnected", "kDisconnected"}

TypeOK ==
  /\ QueueTypeOK
  /\ connected \in BOOLEAN
  /\ pendingEvent \in Events
  /\ hostPc \in {"ready", "raise"}
  /\ conn \in Conn \cup {0}
  /\ loopPc \in {"read", "dispatch", "pop", "apply", "publish", "notify"}
  /\ event \in Events
  /\ write \in Item \cup {NoItem}
  /\ chan \in {MotionPid, StatusPid}
  /\ filter \in Filters(Conn)
  /\ asked \in Filters(Conn)
  /\ handled \in Events
  /\ aligned \in BOOLEAN /\ prompt \in BOOLEAN
  /\ dropped \in Nat /\ written \in Nat /\ accepted \in Nat /\ applied \in Nat
  /\ sent \in [to : Conn \cup {0}, by : SUBSET Conn]

Init ==
  /\ QueueInit
  /\ connected = FALSE /\ pendingEvent = "kNone"
  /\ hostPc = "ready" /\ conn = 0 /\ dropped = 0
  /\ loopPc = "read" /\ event = "kNone" /\ write = NoItem /\ chan = MotionPid
  /\ filter = DenyAll /\ handled = "kNone"
  /\ written = 0 /\ accepted = 0 /\ applied = 0
  /\ asked = DenyAll /\ aligned = FALSE /\ prompt = TRUE
  /\ sent = [to |-> 0, by |-> {}]

-----------------------------------------------------------------------------
(* The NimBLE host task.  It runs one callback at a time; a link comes up    *)
(* only when the device advertises, that is while there is no other link.    *)

\* The loop has consumed the previous link event and every write, as when no
\* turn of it outlasts a reconnect.
CaughtUp == pendingEvent = "kNone" /\ count = 0 /\ loopPc \notin {"dispatch", "apply"}

\* onConnect, up to the write of connected_ in onConnectionChanged(true).
LinkUp ==
  /\ hostPc = "ready" /\ ~connected /\ conn < MaxConns
  /\ connected' = TRUE
  /\ conn' = conn + 1
  /\ hostPc' = "raise"
  /\ asked' = DenyAll
  /\ aligned' = FALSE /\ prompt' = (prompt /\ CaughtUp)
  /\ UNCHANGED <<queueVars, pendingEvent, dropped, written, accepted, loopVars>>

\* onDisconnect, up to the write of connected_ in onConnectionChanged(false).
LinkDown ==
  /\ hostPc = "ready" /\ connected
  /\ connected' = FALSE
  /\ hostPc' = "raise"
  /\ aligned' = FALSE /\ prompt' = (prompt /\ CaughtUp)
  /\ UNCHANGED <<queueVars, pendingEvent, conn, dropped, written, accepted, asked,
                 loopVars>>

\* onConnectionChanged's last write, over whatever the slot held; the callback
\* then returns (after startAdvertising, when the link went down).
RaiseEvent ==
  /\ hostPc = "raise"
  /\ pendingEvent' = IF connected THEN "kConnected" ELSE "kDisconnected"
  /\ hostPc' = "ready"
  /\ UNCHANGED <<queueVars, connected, aligned, conn, dropped, written, accepted,
                 asked, prompt, loopVars>>

\* Faulty variant: a refused write that is not counted.
WriteFilterUncounted(w) ==
  /\ hostPc = "ready" /\ connected /\ written < MaxWrites /\ w.from = conn
  /\ written' = written + 1
  /\ \/ /\ Enqueue(w)
        /\ accepted' = accepted + 1
        /\ asked' = HandleWrite(asked, w)
     \/ /\ Full
        /\ UNCHANGED <<queueVars, accepted, asked>>
  /\ UNCHANGED <<connected, pendingEvent, aligned, hostPc, conn, dropped, prompt, loopVars>>

\* onWrite with a length of 1 to 8: enqueueFilterWrite's critical section.
WriteFilter(w) ==
  /\ hostPc = "ready" /\ connected /\ written < MaxWrites /\ w.from = conn
  /\ written' = written + 1
  /\ \/ /\ Enqueue(w)
        /\ accepted' = accepted + 1
        /\ asked' = HandleWrite(asked, w)
        /\ UNCHANGED dropped
     \/ /\ Full
        /\ dropped' = dropped + 1
        /\ UNCHANGED <<queueVars, accepted, asked>>
  /\ UNCHANGED <<connected, pendingEvent, aligned, hostPc, conn, prompt, loopVars>>

\* onWrite with no data or more than 8 bytes: counted, never queued.
WriteBadLength ==
  /\ hostPc = "ready" /\ connected /\ written < MaxWrites
  /\ written' = written + 1
  /\ dropped' = dropped + 1
  /\ UNCHANGED <<queueVars, connected, pendingEvent, aligned, hostPc, conn, accepted,
                 asked, prompt, loopVars>>

Host == \/ LinkUp \/ LinkDown \/ RaiseEvent \/ WriteBadLength
        \/ \E w \in Item : WriteFilter(w)

-----------------------------------------------------------------------------
(* The Arduino loop: drainEvents, then the motion and the status channel.    *)

\* Faulty variant: a loop that looks at the queue only after an event.
ReadEventOnly ==
  /\ loopPc = "read"
  /\ event' = pendingEvent
  /\ loopPc' = IF pendingEvent = "kNone" THEN "publish" ELSE "dispatch"
  /\ UNCHANGED <<queueVars, connected, pendingEvent, aligned, hostVars, write, chan,
                 filter, handled, applied, sent>>

\* drainEvents reads pendingEvent_.
ReadEvent ==
  /\ loopPc = "read"
  /\ event' = pendingEvent
  /\ loopPc' = IF pendingEvent = "kNone" THEN "pop" ELSE "dispatch"
  /\ UNCHANGED <<queueVars, connected, pendingEvent, aligned, hostVars, write, chan,
                 filter, handled, applied, sent>>

\* The current link's event reaches the pipeline before any write of it.
FreshStart == /\ event = "kConnected" /\ connected /\ hostPc = "ready"
              /\ count = 0 /\ asked = DenyAll

\* Faulty variant: an onDisconnect that leaves the filter to the next onConnect.
DispatchKeepingFilter ==
  /\ loopPc = "dispatch"
  /\ pendingEvent' = "kNone"
  /\ filter' = IF event = "kConnected" THEN DenyAll ELSE filter
  /\ handled' = event
  /\ aligned' = FreshStart
  /\ loopPc' = "pop"
  /\ UNCHANGED <<queueVars, connected, hostVars, event, write, chan, applied, sent>>

\* drainEvents clears pendingEvent_, whatever it holds by now, and calls the
\* pipeline's onConnect or onDisconnect: both reset the filter.  onConnect also
\* restarts the two rate limiters, which is what handled stands for.
Dispatch ==
  /\ loopPc = "dispatch"
  /\ pendingEvent' = "kNone"
  /\ filter' = DenyAll
  /\ handled' = event
  /\ aligned' = FreshStart
  /\ loopPc' = "pop"
  /\ UNCHANGED <<queueVars, connected, hostVars, event, write, chan, applied, sent>>

\* One turn of the draining loop, inside the lock: copy the oldest write out,
\* or find the queue empty and leave.
Pop ==
  /\ loopPc = "pop"
  /\ \/ /\ Dequeue
        /\ write' = Oldest
        /\ loopPc' = "apply"
        /\ UNCHANGED chan
     \/ /\ count = 0
        /\ loopPc' = "publish"
        /\ chan' = MotionPid
        /\ UNCHANGED <<queueVars, write>>
  /\ UNCHANGED <<connected, pendingEvent, aligned, hostVars, event, filter, handled,
                 applied, sent>>

\* The call to onCanFilterWrite, outside the lock.
Apply ==
  /\ loopPc = "apply"
  /\ filter' = HandleWrite(filter, write)
  /\ applied' = applied + 1
  /\ loopPc' = "pop"
  /\ UNCHANGED <<queueVars, connected, pendingEvent, aligned, hostVars, event, write,
                 chan, handled, sent>>

\* The motion channel is served before the status channel, then the loop ends.
NextChannel == IF chan = MotionPid THEN loopPc' = "publish" /\ chan' = StatusPid
                                   ELSE loopPc' = "read" /\ chan' = MotionPid

\* onMotionSample or tick returns without a packet: no sample, nobody
\* connected, rate or interval not elapsed, or the filter denies.
Withhold ==
  /\ loopPc = "publish"
  /\ NextChannel
  /\ UNCHANGED <<queueVars, connected, pendingEvent, aligned, hostVars, event, write,
                 filter, handled, applied, sent>>

\* isConnected, tryAcquire and shouldNotify all say yes.
Decide ==
  /\ loopPc = "publish"
  /\ connected
  /\ Allowed(filter, chan)
  /\ loopPc' = "notify"
  /\ UNCHANGED <<queueVars, connected, pendingEvent, aligned, hostVars, event, write,
                 chan, filter, handled, applied, sent>>

\* BleTelemetryServer::notify reads connected_ again and hands the packet to
\* NimBLE, which may refuse it.
Notify ==
  /\ loopPc = "notify"
  /\ \/ connected /\ sent' = [to |-> conn, by |-> Grantors(filter, chan)]
     \/ UNCHANGED sent
  /\ NextChannel
  /\ UNCHANGED <<queueVars, connected, pendingEvent, aligned, hostVars, event, write,
                 filter, handled, applied>>

Loop == ReadEvent \/ Dispatch \/ Pop \/ Apply \/ Withhold \/ Decide \/ Notify

-----------------------------------------------------------------------------
Next == Host \/ Loop

Spec == Init /\ [][Next]_vars

\* The loop never blocks for good, and a callback that started returns.
Fairness == WF_vars(Loop) /\ WF_vars(RaiseEvent)

FairSpec == Spec /\ Fairness

-----------------------------------------------------------------------------
\* Every filter write the phone makes is in one place: counted as dropped, in
\* the ring, in the loop's hand, or applied (enqueueFilterWrite, drainEvents).
WritesAccounted ==
  /\ written = dropped + accepted
  /\ accepted = applied + count + (IF loopPc = "apply" THEN 1 ELSE 0)

\* When a connection's onConnect ran before its first write reached an empty
\* queue, the loop publishes under exactly the subscription that connection's
\* accepted writes add up to, whatever the callbacks interleave with.
PublishesUnderOwnSubscription ==
  aligned /\ count = 0 /\ loopPc # "apply" => filter = asked

\* Every write the queue accepted reaches the filter (drainEvents drains to
\* empty on every pass, with or without a connection event).
EveryWriteApplied == \A i \in 1 .. MaxWrites : accepted >= i ~> applied >= i

\* "The firmware starts every connection in deny all, so nothing is published
\* until the app has asked": each packet goes to a connection one of whose own
\* writes allows its PID.
DenyAllUntilAsked == sent.to # 0 => sent.to \in sent.by

\* The same as long as the link has changed only when the loop had caught up with
\* it: what onDisconnect and onConnect (pipeline.cpp) do ensure.
PromptDenyAll == prompt => DenyAllUntilAsked
=============================================================================
