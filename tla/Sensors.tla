------------------------------ MODULE Sensors ------------------------------
(***************************************************************************)
(* The sensors HAL (libsensors): one thread of the framework polls for     *)
(* events while another one switches sensors on and off.  Each driver      *)
(* reads the events of one input device through a ring (InputRing); a wake *)
(* pipe gets the polling thread out of poll() when a sensor was activated. *)
(* The kernel's input devices and the framework's two threads are external *)
(* to the code.                                                            *)
(***************************************************************************)
EXTENDS InputRing

CONSTANTS
  Drivers,      \* the SensorBase objects of mSensors
  Order,        \* the order of mSensors: a sequence of the drivers
  Compass,      \* the drivers that collect kinds until EV_SYN (AmiSensor)
  Flagging,     \* those whose setInitialState raises mHasPendingEvent (LightSensor)
  Kinds,        \* the kinds of events of each driver; one, but for a compass
  Size,         \* numEvents of each ring
  Counts,       \* the counts with which the framework polls
  KindOrder,    \* the numbers AmiSensor.h gives the kinds
  Errno,        \* what a failing read() returns, negated
  MaxEvents,    \* bounds: input events of each device,
  MaxCalls,     \* calls of activate
  MaxFailures   \* failing system calls

AllKinds == UNION {Kinds[d] : d \in Drivers}
DriverOf(k) == CHOOSE d \in Drivers : k \in Kinds[d]

(* An input_event: EV_ABS of a kind with a value, or EV_SYN.               *)
Abs(k, v) == [type |-> "abs", kind |-> k, value |-> v]
Syn       == [type |-> "syn", kind |-> "none", value |-> 0]

ASSUME SensorsAssumption ==
  /\ Compass \subseteq Drivers /\ Flagging \subseteq Drivers \ Compass
  /\ Size \in [Drivers -> Nat \ {0}]
  /\ Order \in Seq(Drivers) /\ \A i, j \in 1 .. Len(Order) : Order[i] = Order[j] => i = j
  /\ \A d \in Drivers : \E i \in 1 .. Len(Order) : Order[i] = d
  /\ \A d, e \in Drivers : d # e => Kinds[d] \cap Kinds[e] = {}
  /\ \A d \in Drivers \ Compass : \E k \in Kinds[d] : Kinds[d] = {k}
  /\ KindOrder \in [AllKinds -> Nat] /\ Errno \in Nat \ {0}
  /\ Counts \subseteq Nat \ {0} /\ MaxEvents \in [Drivers -> Nat]
  /\ {MaxCalls, MaxFailures} \subseteq Nat

VARIABLES
  device,       \* of each driver: the events the kernel holds for data_fd,
  reported,     \* and how many there have been
  current,      \* of each kind: the value the kernel answers to EVIOCGABS
  ring,         \* mInputReader
  enabled,      \* mEnabled: the kinds that are switched on
  wanted,       \* the compass's *_Activate counters: those that are not zero
  flag,         \* mHasPendingEvent
  mask,         \* mPendingMask of every compass
  latest,       \* of each kind: the value in mPendingEvent or mPendingEvents
  revents,      \* POLLIN is set in mPollFds
  wake,         \* bytes in the wake pipe
  pc, turn,     \* where the polling thread is; its index into mSensors
  asked, got,   \* count and nbEvents of pollEvents
  cpc, call,    \* where the activating thread is; the driver it switches on
  calls, failures,
  misread,      \* history: the read()s that have failed in this call,
  unread,       \* the drivers whose read() has failed with events in the ring,
  marked,       \* the kinds reported since the last EV_SYN,
  due           \* and of each kind the samples reported and not yet dealt with

kernel == <<device, reported, current, marked>>
states == <<enabled, wanted>>
poller == <<revents, pc, turn, asked, got>>
client == <<cpc, call, calls>>
vars   == <<kernel, states, ring, flag, mask, latest, poller, wake,
            client, failures, misread, unread, due>>

\* The constructors; a driver may find its device switched on.
Init ==
  /\ device = [d \in Drivers |-> <<>>] /\ reported = [d \in Drivers |-> 0]
  /\ current = [k \in AllKinds |-> 0] /\ marked = {} /\ due = [k \in AllKinds |-> <<>>]
  /\ enabled \in {[d \in Drivers |-> IF d \in on THEN Kinds[d] ELSE {}] : on \in SUBSET Drivers}
  /\ wanted = enabled
  /\ ring = [d \in Drivers |-> NewRing(Size[d], Syn)]
  /\ flag = [d \in Drivers |-> d \in Flagging /\ enabled[d] # {}]
  /\ mask = {} /\ latest = [k \in AllKinds |-> 0]
  /\ revents = [d \in Drivers |-> FALSE] /\ wake = 0
  /\ pc = "out" /\ turn = 1 /\ asked = 0 /\ got = 0
  /\ cpc = "out" /\ call = Order[1]
  /\ calls = 0 /\ failures = 0 /\ misread = 0 /\ unread = {}

-----------------------------------------------------------------------------
(* The input devices.  A packet of values ends with EV_SYN, and then each  *)
(* of its kinds has a sample for the framework.                            *)
ReportValue(k) ==
  LET d == DriverOf(k) IN
  /\ reported[d] < MaxEvents[d] /\ k \notin marked
  /\ reported' = [reported EXCEPT ![d] = @ + 1]
  /\ device' = [device EXCEPT ![d] = Append(@, Abs(k, reported'[d]))]
  /\ current' = [current EXCEPT ![k] = reported'[d]]
  /\ marked' = marked \cup {k}
  /\ UNCHANGED <<states, ring, flag, mask, latest, poller, wake,
                 client, failures, misread, unread, due>>

ReportSyn(d) ==
  /\ reported[d] < MaxEvents[d] /\ marked \cap Kinds[d] # {}
  /\ reported' = [reported EXCEPT ![d] = @ + 1]
  /\ device' = [device EXCEPT ![d] = Append(@, Syn)]
  /\ marked' = marked \ Kinds[d]
  /\ due' = [k \in AllKinds |->
               IF k \in marked \cap Kinds[d] THEN Append(due[k], current[k]) ELSE due[k]]
  /\ UNCHANGED <<current, states, ring, flag, mask, latest, poller, wake,
                 client, failures, misread, unread>>

-----------------------------------------------------------------------------
(* sensors_poll_context_t::activate and the drivers' enable: switch the    *)
(* device, take over its current value, write to the wake pipe.            *)
CallBegins == cpc = "out" /\ calls < MaxCalls /\ calls' = calls + 1

\* The device is in that state already: nothing to switch.
ActivateAgain(k, on) ==
  /\ CallBegins
  /\ (k \in enabled[DriverOf(k)]) = on
  /\ cpc' = IF on THEN "wake" ELSE "out"
  /\ UNCHANGED <<kernel, states, ring, flag, mask, latest, poller, wake,
                 call, failures, misread, unread, due>>

\* AmiSensor switches on what its counters say, the other drivers their kind.
Switched(k, on) == IF on THEN wanted[DriverOf(k)] \cup {k} ELSE wanted[DriverOf(k)] \ {k}

Activate(k, on) ==
  LET d == DriverOf(k) IN
  /\ CallBegins
  /\ (k \in enabled[d]) # on
  /\ wanted' = [wanted EXCEPT ![d] = Switched(k, on)]
  /\ enabled' = [enabled EXCEPT ![d] = Switched(k, on)]
  /\ cpc' = IF ~on THEN "out" ELSE IF d \in Compass THEN "wake" ELSE "value"
  /\ call' = IF cpc' = "value" THEN d ELSE call
  /\ UNCHANGED <<kernel, ring, flag, mask, latest, poller, wake,
                 failures, misread, unread, due>>

\* The ioctl fails: AmiSensor has changed its counters all the same.
ActivateFails(k, on) ==
  LET d == DriverOf(k) IN
  /\ CallBegins /\ failures < MaxFailures
  /\ (k \in enabled[d]) # on
  /\ wanted' = IF d \in Compass THEN [wanted EXCEPT ![d] = Switched(k, on)] ELSE wanted
  /\ failures' = failures + 1
  /\ UNCHANGED <<kernel, enabled, ring, flag, mask, latest, poller, wake, cpc, call,
                 misread, unread, due>>

\* setInitialState; a failing ioctl leaves the value alone.
InitialValue ==
  /\ cpc = "value" /\ cpc' = "wake"
  /\ \/ /\ latest' = [k \in AllKinds |-> IF k \in Kinds[call] THEN current[k] ELSE latest[k]]
        /\ flag' = [flag EXCEPT ![call] = @ \/ call \in Flagging]
        /\ UNCHANGED failures
     \/ /\ failures < MaxFailures /\ failures' = failures + 1
        /\ UNCHANGED <<latest, flag>>
  /\ UNCHANGED <<kernel, states, ring, mask, poller, wake, call, calls, misread, unread, due>>

\* mutant: nothing is written to the pipe
NotWoken == wake

\* What write() leaves in the wake pipe.
Woken == wake + 1

WakeUp ==
  /\ cpc = "wake" /\ cpc' = "out"
  /\ wake' = Woken
  /\ UNCHANGED <<kernel, states, ring, flag, mask, latest, poller,
                 call, calls, failures, misread, unread, due>>

-----------------------------------------------------------------------------
(* pollEvents, in the framework's polling thread.                          *)
Room == asked - got
This == Order[turn]

PollCall(count) ==
  /\ pc = "out"
  /\ asked' = count /\ got' = 0 /\ turn' = 1 /\ pc' = "scan"
  /\ UNCHANGED <<kernel, states, ring, flag, mask, latest, revents, wake,
                 client, failures, misread, unread, due>>

Return == pc' = "out" /\ turn' = 1 /\ asked' = 0 /\ got' = 0 /\ misread' = 0

\* The loop over the drivers looks for one to read from.
HasEvents(i) == revents[Order[i]] \/ flag[Order[i]]

Scan ==
  /\ pc = "scan" /\ Room > 0
  /\ IF turn > Len(Order) THEN pc' = "poll" /\ UNCHANGED turn
     ELSE IF HasEvents(turn) THEN pc' = "read" /\ UNCHANGED turn
     ELSE turn' = turn + 1 /\ UNCHANGED pc
  /\ UNCHANGED <<kernel, states, ring, flag, mask, latest, revents, asked, got, wake,
                 client, failures, misread, unread, due>>

ArrayFull ==
  /\ pc = "scan" /\ Room = 0
  /\ Return
  /\ UNCHANGED <<kernel, states, ring, flag, mask, latest, revents, wake, client,
                 failures, unread, due>>

\* mutant: revents is cleared although the array is full
NeverKept == FALSE

\* pollEvents clears POLLIN unless readEvents filled the array.
KeptPollin == revents[This] /\ asked = got'

\* readEvents returns.
ReadReturns ==
  /\ revents' = [revents EXCEPT ![This] = KeptPollin]
  /\ turn' = turn + 1 /\ pc' = "scan"

\* readEvents has the initial value to return, and looks no further.
ReadInitial ==
  /\ pc = "read" /\ flag[This]
  /\ flag' = [flag EXCEPT ![This] = FALSE]
  /\ got' = IF enabled[This] # {} THEN got + 1 ELSE got
  /\ ReadReturns
  /\ UNCHANGED <<kernel, states, ring, mask, latest, asked, wake,
                 client, failures, misread, unread, due>>

(* fill: data_fd is opened without O_NONBLOCK, so read() waits for an      *)
(* event unless the ring is full.                                          *)
Takes == IF Len(device[This]) <= ring[This].free THEN Len(device[This]) ELSE ring[This].free

ReadDevice ==
  /\ pc = "read" /\ ~flag[This]
  /\ ring[This].free > 0 => device[This] # <<>>
  /\ ring' = [ring EXCEPT ![This] = Fill(@, SubSeq(device[This], 1, Takes))]
  /\ device' = [device EXCEPT ![This] = SubSeq(@, Takes + 1, Len(@))]
  /\ pc' = "handle" /\ unread' = unread \ {This}
  /\ UNCHANGED <<reported, current, marked, states, flag, mask, latest, revents, turn,
                 asked, got, wake, client, failures, misread, due>>

(* read() fails: -errno is taken for a number of events, so data moves back *)
(* and count grows.                                                        *)
ReadFails ==
  /\ pc = "read" /\ ~flag[This] /\ ring[This].free > 0
  /\ failures < MaxFailures /\ failures' = failures + 1
  /\ misread' = misread + 1
  /\ unread' = IF Available(ring[This]) > 0 THEN unread \cup {This} ELSE unread
  /\ got' = got - Errno
  /\ ReadReturns
  /\ UNCHANGED <<kernel, states, ring, flag, mask, latest, asked, wake, client, due>>

Event == Front(ring[This])

\* mutant: count is not looked at
MoreInRing == Available(ring[This]) > 0

More == Available(ring[This]) > 0 /\ Room > 0

Consume == ring' = [ring EXCEPT ![This] = Advance(@)]

HandleValue ==
  /\ pc = "handle" /\ More /\ Event.type = "abs"
  /\ latest' = [latest EXCEPT ![Event.kind] = Event.value]
  /\ mask' = IF This \in Compass THEN mask \cup {Event.kind} ELSE mask
  /\ Consume
  /\ UNCHANGED <<kernel, states, flag, poller, wake, client, failures, misread, unread, due>>

(* The sample of kind k is handed over, or dropped if k is switched off.   *)
Deliver(k) ==
  /\ got' = IF k \in enabled[This] THEN got + 1 ELSE got
  /\ due' = [due EXCEPT ![k] = SubSeq(@, 2, Len(@))]

HandleSyn ==
  /\ pc = "handle" /\ More /\ Event.type = "syn" /\ This \notin Compass
  /\ \E k \in Kinds[This] : Deliver(k)
  /\ Consume
  /\ UNCHANGED <<kernel, states, flag, mask, latest, revents, pc, turn, asked, wake,
                 client, failures, misread, unread>>

\* mutant: EV_SYN is consumed although kinds are left
AlwaysDone == TRUE

\* AmiSensor leaves EV_SYN in the ring until every kind has been dealt with.
SynDone == mask' \cap Kinds[This] = {}

HandleCompassSyn ==
  /\ pc = "handle" /\ More /\ Event.type = "syn" /\ This \in Compass
  /\ \E k \in mask \cap Kinds[This] :
       /\ \A j \in mask \cap Kinds[This] : KindOrder[k] <= KindOrder[j]
       /\ mask' = mask \ {k}
       /\ Deliver(k)
  /\ IF SynDone THEN Consume ELSE UNCHANGED ring
  /\ UNCHANGED <<kernel, states, flag, latest, revents, pc, turn, asked, wake,
                 client, failures, misread, unread>>

Handled ==
  /\ pc = "handle" /\ ~More
  /\ got' = got
  /\ ReadReturns
  /\ UNCHANGED <<kernel, states, ring, flag, mask, latest, asked, wake,
                 client, failures, misread, unread, due>>

(* poll(): waits only when there is nothing to return, and takes one byte  *)
(* from the wake pipe.                                                     *)
Ready == wake > 0 \/ \E d \in Drivers : device[d] # <<>>

Poll ==
  /\ pc = "poll"
  /\ got = 0 => Ready
  /\ revents' = [d \in Drivers |-> device[d] # <<>>]
  /\ wake' = IF wake > 0 THEN wake - 1 ELSE 0
  /\ IF Ready THEN turn' = 1 /\ pc' = "scan" /\ UNCHANGED <<asked, got, misread>> ELSE Return
  /\ UNCHANGED <<kernel, states, ring, flag, mask, latest, client, failures, unread, due>>

PollInterrupted ==
  /\ pc = "poll" /\ got = 0 /\ failures < MaxFailures
  /\ failures' = failures + 1
  /\ Return
  /\ UNCHANGED <<kernel, states, ring, flag, mask, latest, revents, wake, client, unread, due>>

-----------------------------------------------------------------------------
PollStep ==
  \/ Scan \/ ArrayFull \/ ReadInitial \/ ReadDevice \/ ReadFails \/ HandleValue \/ HandleSyn
  \/ HandleCompassSyn \/ Handled \/ Poll \/ PollInterrupted

Next ==
  \/ \E k \in AllKinds : ReportValue(k)
  \/ \E d \in Drivers : ReportSyn(d)
  \/ \E k \in AllKinds, on \in BOOLEAN :
       ActivateAgain(k, on) \/ Activate(k, on) \/ ActivateFails(k, on)
  \/ InitialValue \/ WakeUp
  \/ \E count \in Counts : PollCall(count)
  \/ PollStep

Spec == Init /\ [][Next]_vars

(* The framework finishes its calls and polls again and again.             *)
FairSpec ==
  /\ Spec
  /\ WF_vars(InitialValue \/ WakeUp)
  /\ WF_vars(\E count \in Counts : PollCall(count)) /\ WF_vars(PollStep)

-----------------------------------------------------------------------------
InputEvents == [type : {"abs"}, kind : AllKinds, value : Nat] \cup {Syn}

(* The variables are typed, and every ring is in order (RingOK): read()    *)
(* and the memcpy after it stay inside mBuffer.                            *)
TypeOK ==
  /\ device \in [Drivers -> Seq(InputEvents)] /\ reported \in [Drivers -> Nat]
  /\ enabled \in [Drivers -> SUBSET AllKinds] /\ wanted \in [Drivers -> SUBSET AllKinds]
  /\ flag \in [Drivers -> BOOLEAN] /\ revents \in [Drivers -> BOOLEAN]
  /\ mask \subseteq AllKinds /\ {wake, failures, misread} \subseteq Nat /\ unread \subseteq Drivers
  /\ pc \in {"out", "scan", "read", "handle", "poll"}
  /\ turn \in 1 .. Len(Order) + 1 /\ asked \in Nat /\ got \in Int
  /\ cpc \in {"out", "value", "wake"}
  /\ DOMAIN ring = Drivers
  /\ \A d \in Drivers : ring[d] \in Ring(Size[d], InputEvents) /\ RingOK(ring[d])

(* No event is ever written past the end of the caller's array, however    *)
(* the events of several drivers fill it; and before its beginning only by *)
(* the -errno of the read()s that have failed in this very call, which are *)
(* taken for counts of events.                                             *)
StaysInBuffer == got \in -(Errno * misread) .. asked

(* What a compass hands over, or drops, for a kind is the oldest sample of *)
(* that kind that was reported: none is skipped, repeated or mixed with a  *)
(* later one, though a packet may be cut in two by a full ring or array.   *)
CompassInOrder ==
  [][\A k \in AllKinds : (DriverOf(k) \in Compass /\ HandleCompassSyn /\ k \in mask \ mask') =>
       due[k] # <<>> /\ latest[k] = Head(due[k])]_vars

(* When a driver has read everything, no reported sample is outstanding.   *)
NothingLost ==
  \A d \in Drivers :
    (device[d] = <<>> /\ Available(ring[d]) = 0) => \A k \in Kinds[d] : due[k] = <<>>

(* poll() waits, or is about to, only if the rings are empty ("no more     *)
(* data for this sensor"), but of the drivers that have an initial value   *)
(* and of those whose last read() has failed with events in the ring.      *)
NoMoreData ==
  pc = "poll" => \A d \in Drivers \ (Flagging \cup unread) : Available(ring[d]) = 0

(* The thread is stuck in read(): POLLIN was kept, the device is empty.    *)
Blocked == pc = "read" /\ ~flag[This] /\ ring[This].free > 0 /\ device[This] = <<>>

(* An initial value is taken although the thread may have been asleep when *)
(* it appeared, unless the thread is stuck in read().                      *)
InitialValueTaken == \A d \in Flagging : flag[d] ~> (~flag[d] \/ Blocked)

(* "try to see if we can get some events immediately or just wait if we    *)
(* don't have anything to return": waiting, here in read(), with events in *)
(* hand or in the ring.                                                    *)
WaitsWithNothing == Blocked => got = 0 /\ Available(ring[This]) = 0
=============================================================================
