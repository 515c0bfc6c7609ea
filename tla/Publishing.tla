----------------------------- MODULE Publishing -----------------------------
(***************************************************************************)
(* When TelemetryPipeline publishes on the CAN characteristic: the rate    *)
(* ceiling of the motion channel, the status channel's own interval, and   *)
(* the filter the app controls, all on the wrapping clock.  One turn of    *)
(* loop() reads the clock once, drains the app's writes, serves the motion *)
(* sample if there is one, then ticks.                                     *)
(***************************************************************************)
EXTENDS CanFilter

CONSTANTS MotionPid, StatusPid,
          MotionInterval,   \* intervalForHz(motionPublishHz)
          StatusInterval,   \* statusPublishMs
          Interval,         \* notify intervals the app asks for
          Gaps,             \* how long a turn of the loop may take
          IdleGaps,         \* how long the device may sit unconnected
          MaxAge            \* bound: history ages saturate here

ASSUME PublishingAssumption ==
  /\ MotionPid \in Pid /\ StatusPid \in Pid /\ MotionPid # StatusPid
  /\ "all" \notin Pid
  /\ MotionInterval \in Nat /\ StatusInterval \in Nat
  /\ Interval \subseteq Nat /\ Gaps \subseteq Nat /\ IdleGaps \subseteq Nat
  /\ MaxAge \in Nat
  /\ \A i \in Interval \cup {MotionInterval, StatusInterval} : i <= MaxAge

VARIABLES
  now,            \* loop()'s now
  pc,             \* what the loop does next: "drain", "motion" or "tick"
  connected,      \* sink_.isConnected()
  filter,         \* filter_
  motionRate,     \* motionRate_
  statusRate,     \* statusRate_
  \* History.
  permitted,      \* the permissions the app's writes add up to
  rateAge,        \* real time since a channel last acquired its rate, if it did
  useAge,         \* real time since a filter entry was last used, if it was
  offered         \* the channel handed to the transport by the last step

vars == <<now, pc, connected, filter, motionRate, statusRate, permitted, rateAge, useAge,
          offered>>

Channel == {MotionPid, StatusPid}

Writes == [cmd : {"denyAll", "malformed"}, from : {1}]
          \cup [cmd : {"allowAll"}, interval : Interval, from : {1}]
          \cup [cmd : {"allowOne"}, pid : Pid, interval : Interval, from : {1}]

Entries == [interval : Interval \cup {-1}, limit : Limiters]

\* The entries of a filter: one per PID and the shared one.
Keys == Pid \cup {"all"}

\* The entry that channel c uses.
KeyOf(f, c) == IF c \in InTable(f) THEN c ELSE "all"

TypeOK ==
  /\ now \in Instant
  /\ pc \in {"drain", "motion", "tick"}
  /\ connected \in BOOLEAN
  /\ filter \in [all : Entries, pids : [Pid -> Entries]]
  /\ motionRate \in Limiters /\ statusRate \in Limiters
  /\ permitted \in Filters({1})
  /\ rateAge \in [Channel -> 0 .. MaxAge]
  /\ useAge \in [Keys -> 0 .. MaxAge]
  /\ offered \subseteq Channel

NoAges == [k \in Keys |-> MaxAge]

Init ==
  /\ now = 0 /\ pc = "drain" /\ connected = FALSE
  /\ filter = ResetFilter
  /\ motionRate = Unprimed /\ statusRate = Unprimed
  /\ permitted = DenyAll
  /\ rateAge = [c \in Channel |-> MaxAge]
  /\ useAge = NoAges
  /\ offered = {}

-----------------------------------------------------------------------------
Older(age, d) == IF age + d < MaxAge THEN age + d ELSE MaxAge

\* A turn of the loop begins d milliseconds after the last one.
Pass(d) ==
  /\ now' = After(now, d)
  /\ rateAge' = [c \in Channel |-> Older(rateAge[c], d)]
  /\ useAge' = [k \in Keys |-> Older(useAge[k], d)]

\* The link comes or goes at any moment, in NimBLE's task.
Link ==
  /\ connected' = ~connected
  /\ offered' = {}
  /\ UNCHANGED <<now, pc, filter, motionRate, statusRate, permitted, rateAge, useAge>>

\* drainEvents calls onConnect: the filter and both rates start over.
OnConnect ==
  /\ pc = "drain"
  /\ filter' = ResetFilter
  /\ motionRate' = Unprimed /\ statusRate' = Unprimed
  /\ permitted' = DenyAll
  /\ rateAge' = [c \in Channel |-> MaxAge]
  /\ useAge' = NoAges
  /\ offered' = {}
  /\ UNCHANGED <<now, pc, connected>>

\* drainEvents calls onDisconnect: the filter alone.
OnDisconnect ==
  /\ pc = "drain"
  /\ filter' = ResetFilter
  /\ permitted' = DenyAll
  /\ useAge' = NoAges
  /\ offered' = {}
  /\ UNCHANGED <<now, pc, connected, motionRate, statusRate, rateAge>>

\* resetSession, of which this module sees the two rates: by the SET button, which
\* is served between the motion channel and tick, or by the console after tick.
ResetSession ==
  /\ pc # "motion"
  /\ motionRate' = Unprimed /\ statusRate' = Unprimed
  /\ rateAge' = [c \in Channel |-> MaxAge]
  /\ offered' = {}
  /\ UNCHANGED <<now, pc, connected, filter, permitted, useAge>>

\* drainEvents calls onCanFilterWrite.  Ages of entries that the write removes
\* or creates start over.
OnCanFilterWrite(w) ==
  /\ pc = "drain"
  /\ filter' = ApplyWrite(filter, w)
  /\ permitted' = HandleWrite(permitted, w)
  /\ useAge' = [k \in Keys |->
       IF \/ w.cmd \in {"denyAll", "allowAll"}
          \/ w.cmd = "allowOne" /\ k = w.pid /\ w.pid \notin InTable(filter)
       THEN MaxAge ELSE useAge[k]]
  /\ offered' = {}
  /\ UNCHANGED <<now, pc, connected, motionRate, statusRate, rateAge>>

\* The queue is drained; the loop goes on with its next turn.  serviceImu may
\* have no sample for the pipeline.
Turn ==
  /\ pc = "drain"
  /\ pc' \in {"motion", "tick"}
  /\ \/ \E d \in Gaps : Pass(d)
     \/ ~connected /\ \E d \in IdleGaps : Pass(d)
  /\ offered' = {}
  /\ UNCHANGED <<connected, filter, motionRate, statusRate, permitted>>

\* Faulty variant of Offer: the entry's time of use is not recorded.
OfferUnrecorded(c) ==
  /\ rateAge' = [rateAge EXCEPT ![c] = 0]
  /\ IF ShouldNotify(filter, c, now)
     THEN /\ offered' = {c}
          /\ useAge' = [useAge EXCEPT ![KeyOf(filter, c)] = 0]
     ELSE offered' = {} /\ UNCHANGED useAge
  /\ UNCHANGED filter

\* publishCan, for a channel whose own rate allows it: the entry's time of use
\* is recorded before the transport has accepted the packet, and whether it does
\* changes nothing.
Offer(c) ==
  /\ rateAge' = [rateAge EXCEPT ![c] = 0]
  /\ IF ShouldNotify(filter, c, now)
     THEN /\ filter' = Notified(filter, c, now)
          /\ offered' = {c}
          /\ useAge' = [useAge EXCEPT ![KeyOf(filter, c)] = 0]
     ELSE offered' = {} /\ UNCHANGED <<filter, useAge>>

\* Faulty variant of OnMotionSample: the app's interval alone decides.
OnMotionSampleUncapped ==
  /\ pc = "motion" /\ pc' = "tick"
  /\ IF connected
     THEN Offer(MotionPid) /\ motionRate' = Acquired(now)
     ELSE offered' = {} /\ UNCHANGED <<filter, motionRate, rateAge, useAge>>
  /\ UNCHANGED <<now, connected, statusRate, permitted>>

\* onMotionSample: the rate is taken before the filter is asked.
OnMotionSample ==
  /\ pc = "motion" /\ pc' = "tick"
  /\ IF connected /\ MayAcquire(motionRate, MotionInterval, now)
     THEN Offer(MotionPid) /\ motionRate' = Acquired(now)
     ELSE offered' = {} /\ UNCHANGED <<filter, motionRate, rateAge, useAge>>
  /\ UNCHANGED <<now, connected, statusRate, permitted>>

\* Faulty variant of Tick: the rate is taken again on every turn.
TickEveryTurn ==
  /\ pc = "tick" /\ pc' = "drain"
  /\ IF connected /\ MayAcquire(statusRate, StatusInterval, now)
     THEN Offer(StatusPid) /\ statusRate' = Acquired(now)
     ELSE /\ statusRate' = Acquired(now)
          /\ offered' = {} /\ UNCHANGED <<filter, rateAge, useAge>>
  /\ UNCHANGED <<now, connected, motionRate, permitted>>

\* tick: likewise.
Tick ==
  /\ pc = "tick" /\ pc' = "drain"
  /\ IF connected /\ MayAcquire(statusRate, StatusInterval, now)
     THEN Offer(StatusPid) /\ statusRate' = Acquired(now)
     ELSE offered' = {} /\ UNCHANGED <<filter, statusRate, rateAge, useAge>>
  /\ UNCHANGED <<now, connected, motionRate, permitted>>

Next ==
  \/ Link \/ OnConnect \/ OnDisconnect \/ ResetSession
  \/ \E w \in Writes : OnCanFilterWrite(w)
  \/ Turn \/ OnMotionSample \/ Tick

Spec == Init /\ [][Next]_vars

\* The loop keeps turning.
Fairness == WF_vars(Turn) /\ WF_vars(OnMotionSample) /\ WF_vars(Tick)

FairSpec == Spec /\ Fairness

-----------------------------------------------------------------------------
\* The filter with its table, intervals and clocks allows exactly what the
\* sequence of the app's writes permits (CanFilter::handleWrite): the timing
\* never grants nor withdraws a permission.
FilterKeepsPermissions == Permissions(filter) = permitted

\* "Upper bound on the motion channel rate": two attempts at the motion channel
\* are MotionInterval of real time apart, across the clock's wrap too, unless a
\* connect or a session reset started the rate over.
MotionCeiling ==
  [][(MotionPid \in offered') => rateAge[MotionPid] >= MotionInterval]_vars

\* "Asking for a slower one will be honoured": two uses of a filter entry are at
\* least the interval it now asks for apart in real time; for allow-all that
\* covers every unlisted PID together.
AppIntervalHonoured ==
  [][\A c \in offered' :
       useAge[KeyOf(filter, c)] >= Governing(filter, c).interval]_vars

\* Nothing is offered on a PID the app has not asked for, or unconnected.
OnlyPermittedOffered ==
  [][\A c \in offered' : Allowed(permitted, c) /\ connected]_vars

\* The loop serves a sample on every turn and nobody presses SET, from some
\* time on.
Undisturbed == <>[][~ResetSession /\ (pc = "drain" => pc' # "tick")]_vars

\* A channel the app lists and keeps listed, on a link that stays up, is offered
\* again and again, whatever the phase of the rates and of the clock.
ListedChannelFlows ==
  \A c \in Channel :
    Undisturbed /\ <>[](connected /\ c \in InTable(filter)) => []<>(c \in offered)

\* From some time on the app leaves its subscription alone.
QuietApp == <>[][pc = "drain" => filter' = filter]_vars

\* "Status channel, published once per second": also when the app allows all
\* and leaves it at that.
StatusFlows ==
  Undisturbed /\ QuietApp /\ <>[](connected /\ filter.all.interval >= 0)
    => []<>(StatusPid \in offered)
=============================================================================
