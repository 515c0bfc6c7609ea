------------------------------ MODULE GpsLink ------------------------------
(***************************************************************************)
(* The serial link to the receiver: hal::GpsReceiver's begin,              *)
(* applyConfiguration and requestHotStart, which block while they send     *)
(* their frames one after the other, and a receiver that may have been     *)
(* configured before, that hears a frame only at its own baud rate, that   *)
(* misses frames, and that may be power cycled at any moment.  The         *)
(* receiver is external, modelled from what src/ says of it.               *)
(***************************************************************************)
EXTENDS Integers, Sequences

CONSTANTS BootBaud, RunBaud,   \* KARTGPS_GPS_BOOT_BAUD, KARTGPS_GPS_RUN_BAUD
          Configuration        \* the messages of applyConfiguration, in order

VARIABLES
  port,       \* the baud rate the UART is open at
  todo,       \* what the driver's call has still to do; the loop waits for it
  receiver,   \* the receiver's baud rate and the messages it has taken
  unspoilt    \* history: the calls since which nothing was missed or restarted

linkVars == <<port, todo, receiver, unspoilt>>

Bauds == {BootBaud, RunBaud}
Settings == {Configuration[i] : i \in DOMAIN Configuration} \cup {"prt"}

ASSUME LinkAssumption == Configuration \in Seq(Settings)

Open(baud) == [does |-> "open", with |-> baud]
Send(msg) == [does |-> "send", with |-> msg]
Steps == {Open(b) : b \in Bauds} \cup {Send(m) : m \in Settings \cup {"rst"}}

LinkTypeOK ==
  /\ port \in Bauds /\ todo \in Seq(Steps)
  /\ receiver \in [baud : Bauds, set : SUBSET Settings]
  /\ unspoilt \subseteq {"begin", "longPress"}

-----------------------------------------------------------------------------
\* applyConfiguration.  That it empties the parser is in FixAssembly.
ApplyConfiguration == [i \in DOMAIN Configuration |-> Send(Configuration[i])]

\* Faulty variant of BeginSteps: the port command is not repeated.
BeginStepsOnce == <<Open(BootBaud), Send("prt"), Open(RunBaud)>> \o ApplyConfiguration

\* begin.
BeginSteps ==
  <<Open(BootBaud), Send("prt"), Open(RunBaud), Send("prt")>> \o ApplyConfiguration

Unconfigured == [baud |-> BootBaud, set |-> {}]

\* setup calls begin.  The receiver may have kept settings from before.
LinkInit ==
  /\ port = BootBaud /\ todo = BeginSteps /\ unspoilt = {"begin"}
  /\ receiver \in [baud : Bauds, set : SUBSET Settings]

GpsBegin == todo' = BeginSteps /\ unspoilt' = {"begin"} /\ UNCHANGED <<port, receiver>>

\* requestHotStart and applyConfiguration, of a long press.
GpsHotStart ==
  /\ todo' = <<Send("rst")>> \o ApplyConfiguration
  /\ unspoilt' = unspoilt \cup {"longPress"}
  /\ UNCHANGED <<port, receiver>>

LinkUp == port = receiver.baud

\* What a frame does to a receiver that hears it: a hot start keeps the settings.
Taken(msg) ==
  [baud |-> IF msg = "prt" THEN RunBaud ELSE receiver.baud,
   set |-> receiver.set \cup ({msg} \cap Settings)]

OpenPort ==
  /\ todo # <<>> /\ Head(todo).does = "open"
  /\ port' = Head(todo).with /\ todo' = Tail(todo)
  /\ UNCHANGED <<receiver, unspoilt>>

\* sendUbx.
SendUbx ==
  /\ todo # <<>> /\ Head(todo).does = "send"
  /\ todo' = Tail(todo)
  /\ receiver' = IF LinkUp THEN Taken(Head(todo).with) ELSE receiver
  /\ UNCHANGED <<port, unspoilt>>

\* The frame is lost on the wire.
LoseUbx ==
  /\ todo # <<>> /\ Head(todo).does = "send" /\ LinkUp
  /\ todo' = Tail(todo) /\ unspoilt' = {}
  /\ UNCHANGED <<port, receiver>>

PowerCycle == receiver' = Unconfigured /\ unspoilt' = {} /\ UNCHANGED <<port, todo>>

-----------------------------------------------------------------------------
Configured == LinkUp /\ receiver.set = Settings

\* Whatever state the receiver was in, begin leaves it on the port's rate with
\* every setting made, if it is left alone and misses nothing, and the hot starts
\* of later long presses keep it so.
LinkConfigured == todo = <<>> /\ "begin" \in unspoilt => Configured

\* applyConfiguration is "used when the receiver has been power cycled behind our
\* back, or after a hot start" (gps_receiver.h): after a long press whose frames
\* were not lost the receiver is configured.
LongPressRecovers == todo = <<>> /\ "longPress" \in unspoilt => Configured
=============================================================================
