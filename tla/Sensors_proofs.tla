--------------------------- MODULE Sensors_proofs ---------------------------
(***************************************************************************)
(* The sensors HAL, for any drivers, rings and counts: no read() and no    *)
(* memcpy leaves a ring's array; pollEvents never writes past the caller's *)
(* array, and before it only by what failed read()s return; it waits only  *)
(* for drivers that it has read; and the samples that are due are those on their way in     *)
(* the kernel, the ring and the compass, so that none is lost, repeated or *)
(* handed over out of order.                                               *)
(***************************************************************************)
EXTENDS Sensors, InputRing_proofs

(* The inductive invariant, in groups that few actions change.             *)
KernelOK == device \in [Drivers -> Seq(InputEvents)] /\ reported \in [Drivers -> Nat]

SwitchesOK == enabled \in [Drivers -> SUBSET AllKinds] /\ wanted \in [Drivers -> SUBSET AllKinds]

FlagsOK ==
  flag \in [Drivers -> BOOLEAN] /\ revents \in [Drivers -> BOOLEAN] /\ mask \subseteq AllKinds

ClientOK == wake \in Nat /\ failures \in Nat /\ cpc \in {"out", "value", "wake"}

RingsOK ==
  /\ DOMAIN ring = Drivers
  /\ \A d \in Drivers : ring[d] \in Ring(Size[d], InputEvents) /\ RingOK(ring[d])

(* While it reads a driver, turn is that driver's index; it reads and polls *)
(* only when the array has room.                                           *)
PollerOK ==
  /\ pc \in {"out", "scan", "read", "handle", "poll"}
  /\ turn \in 1 .. Len(Order) + 1 /\ asked \in Nat /\ got \in Int
  /\ misread \in Nat /\ unread \subseteq Drivers
  /\ pc \in {"read", "handle"} => turn <= Len(Order)
  /\ StaysInBuffer
  /\ pc \in {"read", "poll"} => got < asked

IInv == KernelOK /\ SwitchesOK /\ FlagsOK /\ ClientOK /\ RingsOK /\ PollerOK

(* The invariant contains what the runs check.                             *)
LEMMA IInvTypes == IInv => TypeOK /\ StaysInBuffer
BY DEF IInv, KernelOK, SwitchesOK, FlagsOK, ClientOK, RingsOK, PollerOK, TypeOK

(* Init makes the rings empty.                                             *)
LEMMA InitIInv == Init => IInv
<1> SUFFICES ASSUME Init PROVE IInv
  OBVIOUS
<1>1. RingsOK
  <2> SUFFICES ASSUME NEW d \in Drivers
               PROVE  ring[d] \in Ring(Size[d], InputEvents) /\ RingOK(ring[d])
    BY DEF RingsOK, Init
  <2>1. Size[d] \in Nat \ {0} /\ Syn \in InputEvents /\ ring[d] = NewRing(Size[d], Syn)
    BY SensorsAssumption DEF InputEvents, Init, SensorsAssumption
  <2> QED BY <2>1, NewRingOK
<1>2. SwitchesOK
  <2>1. \A d \in Drivers : Kinds[d] \subseteq AllKinds
    BY DEF AllKinds
  <2> QED BY <2>1 DEF Init, SwitchesOK
<1>3. FlagsOK
  <2>1. flag \in [Drivers -> BOOLEAN] /\ revents \in [Drivers -> BOOLEAN]
    BY Zenon DEF Init
  <2> QED BY <2>1 DEF Init, FlagsOK
<1>4. KernelOK
  BY EmptySeq DEF Init, KernelOK
<1>5. PollerOK
  <2>1. Len(Order) \in Nat
    BY SensorsAssumption, LenProperties DEF SensorsAssumption
  <2> QED BY <2>1, SensorsAssumption DEF Init, PollerOK, StaysInBuffer, SensorsAssumption
<1>6. ClientOK
  BY DEF Init, ClientOK
<1> QED BY <1>1, <1>2, <1>3, <1>4, <1>5, <1>6 DEF IInv

-----------------------------------------------------------------------------
(* What a step leaves alone stays as it was.                               *)
LEMMA KernelStays == ASSUME IInv, UNCHANGED <<device, reported>> PROVE KernelOK'
BY DEF IInv, KernelOK

(* The same for what is switched on.                                       *)
LEMMA SwitchesStay == ASSUME IInv, UNCHANGED states PROVE SwitchesOK'
BY DEF IInv, SwitchesOK, states

(* The same for the flags.                                                 *)
LEMMA FlagsStay == ASSUME IInv, UNCHANGED <<flag, revents, mask>> PROVE FlagsOK'
BY Zenon DEF IInv, FlagsOK

(* The same for the wake pipe and the activating thread.                   *)
LEMMA ClientStays == ASSUME IInv, UNCHANGED <<wake, failures, cpc>> PROVE ClientOK'
BY DEF IInv, ClientOK

(* The same for the rings.                                                 *)
LEMMA RingsStay == ASSUME IInv, UNCHANGED ring PROVE RingsOK'
BY DEF IInv, RingsOK

(* The same for the polling thread.                                        *)
LEMMA PollerStays ==
  ASSUME IInv, UNCHANGED <<pc, turn, asked, got, misread, unread>>
  PROVE  PollerOK'
BY DEF IInv, PollerOK, StaysInBuffer

(* What failed read()s have taken off the number of events.                *)
LEMMA Misread ==
  ASSUME NEW n \in Nat
  PROVE  Errno * n \in Nat /\ Errno * (n + 1) = Errno * n + Errno
BY SensorsAssumption DEF SensorsAssumption

(* A kind belongs to its driver.                                           *)
LEMMA DriverOfKind ==
  ASSUME NEW k \in AllKinds
  PROVE  DriverOf(k) \in Drivers
BY DEF AllKinds, DriverOf

(* The driver that is being read is one.                                   *)
LEMMA ThisIsDriver ==
  ASSUME IInv, pc \in {"read", "handle"}
  PROVE  This \in Drivers
<1>1. turn \in 1 .. Len(Order)
  <2>1. Len(Order) \in Nat
    BY SensorsAssumption, LenProperties DEF SensorsAssumption
  <2> QED BY <2>1 DEF IInv, PollerOK
<1> QED BY <1>1, SensorsAssumption, ElementOfSeq DEF SensorsAssumption, This

(* The kernel's events are input events.                                   *)
LEMMA ReportValueIInv ==
  ASSUME IInv, NEW k \in AllKinds, ReportValue(k)
  PROVE  IInv'
<1> DEFINE d == DriverOf(k)
<1>1. d \in Drivers
  BY DriverOfKind
<1>2. reported' \in [Drivers -> Nat] /\ Abs(k, reported'[d]) \in InputEvents
  BY <1>1 DEF ReportValue, IInv, KernelOK, Abs, InputEvents
<1>3. device[d] \in Seq(InputEvents)
  BY <1>1 DEF IInv, KernelOK
<1>4. Append(device[d], Abs(k, reported'[d])) \in Seq(InputEvents)
  BY <1>2, <1>3, AppendProperties
<1>5. KernelOK'
  BY <1>2, <1>4 DEF ReportValue, IInv, KernelOK
<1> QED BY <1>5, SwitchesStay, FlagsStay, ClientStays, RingsStay, PollerStays
        DEF ReportValue, IInv, poller, client

(* The same for EV_SYN.                                                    *)
LEMMA ReportSynIInv ==
  ASSUME IInv, NEW d \in Drivers, ReportSyn(d)
  PROVE  IInv'
<1>1. reported' \in [Drivers -> Nat] /\ Syn \in InputEvents
  BY DEF ReportSyn, IInv, KernelOK, InputEvents
<1>2. device[d] \in Seq(InputEvents)
  BY DEF IInv, KernelOK
<1>3. Append(device[d], Syn) \in Seq(InputEvents)
  BY <1>1, <1>2, AppendProperties
<1>4. KernelOK'
  BY <1>1, <1>3 DEF ReportSyn, IInv, KernelOK
<1> QED BY <1>4, SwitchesStay, FlagsStay, ClientStays, RingsStay, PollerStays
        DEF ReportSyn, IInv, poller, client

(* The activating thread leaves the rings and the polling thread alone.    *)
LEMMA ActivateIInv ==
  ASSUME IInv, NEW k \in AllKinds, NEW on \in BOOLEAN,
         ActivateAgain(k, on) \/ Activate(k, on) \/ ActivateFails(k, on)
  PROVE  IInv'
<1>1. DriverOf(k) \in Drivers /\ Switched(k, on) \in SUBSET AllKinds
  BY DriverOfKind DEF IInv, SwitchesOK, Switched
<1>2. CASE ActivateAgain(k, on)
  <2>1. ClientOK'
    BY <1>2 DEF ActivateAgain, IInv, ClientOK
  <2> QED BY <1>2, <2>1, KernelStays, SwitchesStay, FlagsStay, RingsStay, PollerStays
          DEF ActivateAgain, IInv, kernel, poller
<1>3. CASE Activate(k, on)
  <2>1. SwitchesOK'
    BY <1>1, <1>3 DEF Activate, IInv, SwitchesOK
  <2>2. ClientOK'
    BY <1>3 DEF Activate, IInv, ClientOK
  <2> QED BY <1>3, <2>1, <2>2, KernelStays, FlagsStay, RingsStay, PollerStays
          DEF Activate, IInv, kernel, poller
<1>4. CASE ActivateFails(k, on)
  <2>1. SwitchesOK'
    BY <1>1, <1>4 DEF ActivateFails, IInv, SwitchesOK
  <2>2. ClientOK'
    BY <1>4 DEF ActivateFails, IInv, ClientOK
  <2> QED BY <1>4, <2>1, <2>2, KernelStays, FlagsStay, RingsStay, PollerStays
          DEF ActivateFails, IInv, kernel, poller
<1> QED BY <1>2, <1>3, <1>4

(* Nor does taking over an initial value touch them, or the wake pipe.     *)
LEMMA ClientStepIInv ==
  ASSUME IInv, InitialValue \/ WakeUp
  PROVE  IInv'
<1>1. CASE InitialValue
  <2>1. flag' \in [Drivers -> BOOLEAN]
    <3>1. flag' = [flag EXCEPT ![call] = @ \/ call \in Flagging] \/ flag' = flag
      BY <1>1, Zenon DEF InitialValue
    <3>2. (flag[call] \/ call \in Flagging) \in BOOLEAN
      BY Zenon
    <3> QED BY <3>1, <3>2, Zenon DEF IInv, FlagsOK
  <2>2. FlagsOK'
    BY <1>1, <2>1, Zenon DEF InitialValue, IInv, FlagsOK, poller
  <2>3. ClientOK'
    BY <1>1 DEF InitialValue, IInv, ClientOK
  <2> QED BY <1>1, <2>2, <2>3, KernelStays, SwitchesStay, RingsStay, PollerStays
          DEF InitialValue, IInv, kernel, poller
<1>2. CASE WakeUp
  <2>1. ClientOK'
    BY <1>2 DEF WakeUp, Woken, IInv, ClientOK
  <2> QED BY <1>2, <2>1, KernelStays, SwitchesStay, FlagsStay, RingsStay, PollerStays
          DEF WakeUp, IInv, kernel, poller
<1> QED BY <1>1, <1>2

-----------------------------------------------------------------------------
(* The loop of pollEvents.                                                 *)
LEMMA LoopIInv ==
  ASSUME IInv, (\E count \in Counts : PollCall(count)) \/ Scan \/ ArrayFull
  PROVE  IInv'
<1>1. Len(Order) \in Nat
  BY SensorsAssumption, LenProperties DEF SensorsAssumption
<1>2. CASE \E count \in Counts : PollCall(count)
  <2> PICK count \in Counts : PollCall(count)
    BY <1>2
  <2>1. count \in Nat \ {0}
    BY SensorsAssumption DEF SensorsAssumption
  <2>2. misread \in Nat /\ Errno * misread \in Nat
    BY Misread DEF IInv, PollerOK
  <2>3. PollerOK'
    BY <1>1, <2>1, <2>2 DEF PollCall, IInv, PollerOK, StaysInBuffer
  <2> QED BY <2>3, KernelStays, SwitchesStay, FlagsStay, ClientStays, RingsStay
          DEF PollCall, IInv, kernel, client
<1>3. CASE Scan
  <2>1. PollerOK'
    BY <1>1, <1>3 DEF Scan, Room, IInv, PollerOK, StaysInBuffer
  <2> QED BY <1>3, <2>1, KernelStays, SwitchesStay, FlagsStay, ClientStays, RingsStay
          DEF Scan, IInv, kernel, client
<1>4. CASE ArrayFull
  <2>1. PollerOK'
    BY <1>1, <1>4, SensorsAssumption DEF ArrayFull, Return, IInv, PollerOK, StaysInBuffer, SensorsAssumption
  <2> QED BY <1>4, <2>1, KernelStays, SwitchesStay, FlagsStay, ClientStays, RingsStay
          DEF ArrayFull, IInv, kernel, client
<1> QED BY <1>2, <1>3, <1>4

(* readEvents returns, with one event more at most.                        *)
LEMMA ReturnsIInv ==
  ASSUME IInv, pc \in {"read", "handle"}, ReadReturns, UNCHANGED asked,
         got' \in Int, misread' \in Nat, unread' \subseteq Drivers, StaysInBuffer'
  PROVE  PollerOK' /\ revents' \in [Drivers -> BOOLEAN]
<1>1. PollerOK'
  <2>1. Len(Order) \in Nat
    BY SensorsAssumption, LenProperties DEF SensorsAssumption
  <2> QED BY <2>1 DEF ReadReturns, IInv, PollerOK
<1>2. revents' \in [Drivers -> BOOLEAN]
  <2>1. KeptPollin \in BOOLEAN
    BY Zenon DEF KeptPollin
  <2> QED BY <2>1, Zenon DEF ReadReturns, IInv, FlagsOK
<1> QED BY <1>1, <1>2

(* readEvents, when it reads nothing from the ring.                        *)
LEMMA ReadIInv ==
  ASSUME IInv, ReadInitial \/ ReadFails \/ Handled
  PROVE  IInv'
<1>1. CASE ReadInitial
  <2>1. Errno * misread \in Nat
    BY Misread DEF IInv, PollerOK
  <2>2. got' \in Int /\ StaysInBuffer'
    BY <1>1, <2>1 DEF ReadInitial, IInv, PollerOK, StaysInBuffer
  <2>3. PollerOK' /\ revents' \in [Drivers -> BOOLEAN]
    BY <1>1, <2>2, ReturnsIInv DEF ReadInitial, IInv, PollerOK
  <2>4. FlagsOK'
    BY <1>1, <2>3, Zenon DEF ReadInitial, IInv, FlagsOK
  <2> QED BY <1>1, <2>3, <2>4, KernelStays, SwitchesStay, ClientStays, RingsStay
          DEF ReadInitial, IInv, kernel, client
<1>2. CASE ReadFails
  <2>1. Errno * misread \in Nat /\ Errno * (misread + 1) = Errno * misread + Errno
    BY Misread DEF IInv, PollerOK
  <2>2. got' \in Int /\ misread' \in Nat /\ StaysInBuffer'
    BY <1>2, <2>1, SensorsAssumption DEF ReadFails, IInv, PollerOK, StaysInBuffer, SensorsAssumption
  <2>3. unread' \subseteq Drivers
    BY <1>2, ThisIsDriver DEF ReadFails, IInv, PollerOK
  <2>4. PollerOK' /\ revents' \in [Drivers -> BOOLEAN]
    BY <1>2, <2>2, <2>3, ReturnsIInv DEF ReadFails
  <2>5. FlagsOK'
    BY <1>2, <2>4, Zenon DEF ReadFails, IInv, FlagsOK
  <2>6. ClientOK'
    BY <1>2 DEF ReadFails, IInv, ClientOK, client
  <2> QED BY <1>2, <2>4, <2>5, <2>6, KernelStays, SwitchesStay, RingsStay
          DEF ReadFails, IInv, kernel
<1>3. CASE Handled
  <2>1. got' \in Int /\ StaysInBuffer'
    BY <1>3 DEF Handled, IInv, PollerOK, StaysInBuffer
  <2>2. PollerOK' /\ revents' \in [Drivers -> BOOLEAN]
    BY <1>3, <2>1, ReturnsIInv DEF Handled, IInv, PollerOK
  <2>3. FlagsOK'
    BY <1>3, <2>2, Zenon DEF Handled, IInv, FlagsOK
  <2> QED BY <1>3, <2>2, <2>3, KernelStays, SwitchesStay, ClientStays, RingsStay
          DEF Handled, IInv, kernel, client
<1> QED BY <1>1, <1>2, <1>3

(* fill() takes at most what is free.                                      *)
LEMMA ReadDeviceIInv ==
  ASSUME IInv, ReadDevice
  PROVE  IInv'
<1>1. This \in Drivers
  BY ThisIsDriver DEF ReadDevice
<1> DEFINE d == This
           events == SubSeq(device[d], 1, Takes)
<1>2. /\ Size[d] \in Nat \ {0} /\ ring[d] \in Ring(Size[d], InputEvents) /\ RingOK(ring[d])
      /\ device[d] \in Seq(InputEvents)
  BY <1>1, SensorsAssumption DEF SensorsAssumption, IInv, RingsOK, KernelOK
<1>3. ring[d].free \in 0 .. Size[d]
  BY <1>2 DEF Ring, RingOK
<1>4. Len(device[d]) \in Nat /\ \A i \in 1 .. Len(device[d]) : device[d][i] \in InputEvents
  BY <1>2, LenProperties, ElementOfSeq
<1>5. Takes \in 0 .. Len(device[d]) /\ Takes <= ring[d].free
  BY <1>3, <1>4 DEF Takes
<1>6. events \in Seq(InputEvents) /\ Len(events) = Takes
  <2>1. /\ events \in Seq(InputEvents)
        /\ Len(events) = IF 1 <= Takes THEN Takes - 1 + 1 ELSE 0
    BY <1>4, <1>5, SubSeqProperties
  <2> QED BY <1>5, <2>1
<1>7. SubSeq(device[d], Takes + 1, Len(device[d])) \in Seq(InputEvents)
  BY <1>4, <1>5, SubSeqProperties
<1>8. Fill(ring[d], events) \in Ring(Size[d], InputEvents) /\ RingOK(Fill(ring[d], events))
  BY <1>2, <1>5, <1>6, FillOK
<1>9. KernelOK'
  BY <1>7 DEF ReadDevice, IInv, KernelOK
<1>10. RingsOK'
  <2>1. ring' = [ring EXCEPT ![d] = Fill(ring[d], events)]
    BY DEF ReadDevice
  <2> HIDE DEF d, events
  <2> QED BY <1>8, <2>1 DEF IInv, RingsOK
<1>11. PollerOK'
  BY <1>1 DEF ReadDevice, IInv, PollerOK, StaysInBuffer
<1> QED BY <1>9, <1>10, <1>11, SwitchesStay, FlagsStay, ClientStays
        DEF ReadDevice, IInv, client

(* An event is taken out of the ring.                                      *)
LEMMA ConsumeIInv ==
  ASSUME IInv, pc = "handle", Available(ring[This]) > 0, Consume \/ UNCHANGED ring
  PROVE  RingsOK' /\ Event \in InputEvents
<1>1. This \in Drivers
  BY ThisIsDriver
<1> DEFINE d == This
<1>2. Size[d] \in Nat \ {0} /\ ring[d] \in Ring(Size[d], InputEvents) /\ RingOK(ring[d])
  BY <1>1, SensorsAssumption DEF SensorsAssumption, IInv, RingsOK
<1>3. Advance(ring[d]) \in Ring(Size[d], InputEvents) /\ RingOK(Advance(ring[d]))
  BY <1>2, AdvanceOK
<1>4. Event \in InputEvents
  BY <1>2, FrontIsEvent DEF Event
<1>5. CASE Consume
  <2>1. ring' = [ring EXCEPT ![d] = Advance(ring[d])]
    BY <1>5 DEF Consume
  <2> HIDE DEF d
  <2> QED BY <1>3, <1>4, <2>1 DEF IInv, RingsOK
<1>6. CASE UNCHANGED ring
  BY <1>4, <1>6, RingsStay
<1> QED BY <1>5, <1>6

(* The loop of readEvents stops when the array is full.                    *)
LEMMA HandleIInv ==
  ASSUME IInv, HandleValue \/ HandleSyn \/ HandleCompassSyn
  PROVE  IInv'
<1>1. RingsOK' /\ Event \in InputEvents
  <2>1. /\ pc = "handle" /\ Available(ring[This]) > 0
        /\ Consume \/ UNCHANGED ring
    BY DEF HandleValue, HandleSyn, HandleCompassSyn, More
  <2> QED BY <2>1, ConsumeIInv
<1>2. CASE HandleValue
  <2>1. Event.kind \in AllKinds
    BY <1>1, <1>2 DEF HandleValue, InputEvents, Syn
  <2>2. mask' \subseteq AllKinds
    BY <1>2, <2>1 DEF HandleValue, IInv, FlagsOK
  <2>3. FlagsOK'
    BY <1>2, <2>2, Zenon DEF HandleValue, IInv, FlagsOK, poller
  <2>4. KernelOK' /\ SwitchesOK' /\ ClientOK' /\ PollerOK'
    BY <1>2, KernelStays, SwitchesStay, ClientStays, PollerStays
       DEF HandleValue, kernel, poller, client
  <2> QED BY <1>1, <2>3, <2>4 DEF IInv
<1>3. ASSUME HandleSyn \/ HandleCompassSyn PROVE IInv'
  <2>1. /\ pc = "handle" /\ got < asked /\ (got' = got \/ got' = got + 1)
        /\ UNCHANGED <<pc, turn, asked, misread, unread>>
    BY <1>3 DEF HandleSyn, HandleCompassSyn, More, Room, Deliver, IInv, PollerOK
  <2>2. Errno * misread \in Nat
    BY Misread DEF IInv, PollerOK
  <2>3. PollerOK'
    BY <2>1, <2>2 DEF IInv, PollerOK, StaysInBuffer
  <2>4. mask' \subseteq mask /\ UNCHANGED <<flag, revents>>
    BY <1>3 DEF HandleSyn, HandleCompassSyn
  <2>5. mask' \subseteq AllKinds
    BY <2>4 DEF IInv, FlagsOK
  <2>6. FlagsOK'
    BY <2>4, <2>5, Zenon DEF IInv, FlagsOK
  <2>7. KernelOK' /\ SwitchesOK' /\ ClientOK'
    BY <1>3, KernelStays, SwitchesStay, ClientStays
       DEF HandleSyn, HandleCompassSyn, kernel, client
  <2> QED BY <1>1, <2>3, <2>6, <2>7 DEF IInv
<1> QED BY <1>2, <1>3

(* poll() is called when there is room.                                    *)
LEMMA PollIInv ==
  ASSUME IInv, Poll \/ PollInterrupted
  PROVE  IInv'
<1>1. Len(Order) \in Nat
  BY SensorsAssumption, LenProperties DEF SensorsAssumption
<1>2. CASE Poll
  <2>1. revents' \in [Drivers -> BOOLEAN]
    <3>1. \A d \in Drivers : (device[d] # <<>>) \in BOOLEAN
      BY Zenon
    <3> QED BY <1>2, <3>1, Zenon DEF Poll
  <2>2. FlagsOK'
    BY <1>2, <2>1, Zenon DEF Poll, IInv, FlagsOK
  <2>3. ClientOK'
    BY <1>2 DEF Poll, IInv, ClientOK, client
  <2>4. PollerOK'
    BY <1>1, <1>2, SensorsAssumption DEF Poll, Return, IInv, PollerOK, StaysInBuffer, SensorsAssumption
  <2> QED BY <1>2, <2>2, <2>3, <2>4, KernelStays, SwitchesStay, RingsStay
          DEF Poll, IInv, kernel
<1>3. CASE PollInterrupted
  <2>1. PollerOK'
    BY <1>1, <1>3, SensorsAssumption DEF PollInterrupted, Return, IInv, PollerOK, StaysInBuffer, SensorsAssumption
  <2>2. ClientOK'
    BY <1>3 DEF PollInterrupted, IInv, ClientOK, client
  <2> QED BY <1>3, <2>1, <2>2, KernelStays, SwitchesStay, FlagsStay, RingsStay
          DEF PollInterrupted, IInv, kernel
<1> QED BY <1>2, <1>3

(* Every step keeps the invariant.                                         *)
LEMMA NextIInv == IInv /\ [Next]_vars => IInv'
<1> SUFFICES ASSUME IInv, [Next]_vars PROVE IInv'
  OBVIOUS
<1>1. CASE UNCHANGED vars
  BY <1>1, KernelStays, SwitchesStay, FlagsStay, ClientStays, RingsStay, PollerStays
     DEF vars, kernel, poller, client, IInv
<1>2. CASE Next
  BY <1>2, ReportValueIInv, ReportSynIInv, ActivateIInv, ClientStepIInv, LoopIInv, ReadIInv,
     ReadDeviceIInv, HandleIInv, PollIInv
     DEF Next, PollStep
<1> QED BY <1>1, <1>2

(* The invariant holds in every reachable state.                           *)
THEOREM Invariance == Spec => []IInv
BY InitIInv, NextIInv, PTL DEF Spec

(* No read() and no memcpy leaves a ring's array, whatever is read.        *)
THEOREM TypeCorrect == Spec => []TypeOK
<1>1. IInv => TypeOK
  BY IInvTypes
<1> QED BY <1>1, Invariance, PTL

(* pollEvents never writes past the end of the caller's array, and before  *)
(* its beginning only by the -errno of the read()s that failed in the call. *)
THEOREM WritesInsideTheArray == Spec => []StaysInBuffer
<1>1. IInv => StaysInBuffer
  BY IInvTypes
<1> QED BY <1>1, Invariance, PTL

-----------------------------------------------------------------------------
(* Why nothing readable is forgotten: a ring that holds events has POLLIN  *)
(* set, and the drivers that were passed have empty rings or filled the    *)
(* array.  Only drivers with an initial value raise mHasPendingEvent, and  *)
(* of those whose read() has failed nothing is said.                       *)
OnlyFlagging == \A d \in Drivers : flag[d] => d \in Flagging

Pollin ==
  \A d \in Drivers \ Flagging :
    /\ (d \notin unread /\ Available(ring[d]) > 0) => revents[d]
    /\ (pc \in {"read", "handle"} /\ d = This) => revents[d]

Passed ==
  \A i \in 1 .. Len(Order) :
    (i < turn /\ Order[i] \notin Flagging \cup unread /\ got < asked) => Available(ring[Order[i]]) = 0

AllPassed == pc = "poll" => turn > Len(Order)

NoneForgotten == OnlyFlagging /\ AllPassed /\ Pollin /\ Passed

(* The drivers in their order.                                             *)
LEMMA OrderFacts ==
  /\ Len(Order) \in Nat
  /\ \A i \in 1 .. Len(Order) : Order[i] \in Drivers
  /\ \A i, j \in 1 .. Len(Order) : Order[i] = Order[j] => i = j
  /\ \A d \in Drivers : \E i \in 1 .. Len(Order) : Order[i] = d
BY SensorsAssumption, LenProperties, ElementOfSeq DEF SensorsAssumption

(* A ring never holds less than nothing.                                   *)
LEMMA AvailableIsNat ==
  ASSUME RingsOK, NEW d \in Drivers
  PROVE  Available(ring[d]) \in Nat
<1>1. Size[d] \in Nat /\ ring[d] \in Ring(Size[d], InputEvents) /\ RingOK(ring[d])
  BY SensorsAssumption DEF SensorsAssumption, RingsOK
<1> QED BY <1>1 DEF Ring, RingOK, Available

(* Init: the rings are empty.                                              *)
LEMMA InitNoneForgotten == Init => NoneForgotten
<1> SUFFICES ASSUME Init PROVE NoneForgotten
  OBVIOUS
<1>1. \A d \in Drivers : Available(ring[d]) = 0
  <2> SUFFICES ASSUME NEW d \in Drivers PROVE Available(ring[d]) = 0
    OBVIOUS
  <2>1. Size[d] \in Nat \ {0} /\ ring[d] = NewRing(Size[d], Syn)
    BY SensorsAssumption DEF SensorsAssumption, Init
  <2> QED BY <2>1, NewRingOK
<1>2. OnlyFlagging
  BY DEF Init, OnlyFlagging
<1>3. AllPassed /\ Pollin /\ Passed
  BY <1>1, OrderFacts DEF Init, AllPassed, Pollin, Passed
<1> QED BY <1>2, <1>3 DEF NoneForgotten

(* Steps that leave the rings and the polling thread alone.                *)
LEMMA ForgetsStay ==
  ASSUME NoneForgotten, UNCHANGED <<ring, unread, poller>>, OnlyFlagging'
  PROVE  NoneForgotten'
<1>1. This' = This
  BY DEF poller, This
<1>2. Pollin => Pollin'
  BY <1>1 DEF Pollin, poller
<1>3. Passed => Passed'
  BY DEF Passed, poller
<1> QED BY <1>2, <1>3 DEF NoneForgotten, AllPassed, poller

(* The other thread and the devices do.                                    *)
LEMMA OthersForgetNothing ==
  ASSUME IInv, NoneForgotten,
         \/ \E k \in AllKinds : ReportValue(k)
         \/ \E d \in Drivers : ReportSyn(d)
         \/ \E k \in AllKinds, on \in BOOLEAN :
               ActivateAgain(k, on) \/ Activate(k, on) \/ ActivateFails(k, on)
         \/ InitialValue \/ WakeUp
  PROVE  NoneForgotten'
<1>1. UNCHANGED <<ring, unread, poller>>
  BY DEF ReportValue, ReportSyn, ActivateAgain, Activate, ActivateFails, InitialValue, WakeUp
<1>4. OnlyFlagging'
  <2>1. flag' = flag \/ flag' = [flag EXCEPT ![call] = @ \/ call \in Flagging]
    BY Zenon DEF ReportValue, ReportSyn, ActivateAgain, Activate, ActivateFails, InitialValue, WakeUp
  <2>2. CASE flag' = flag
    BY <2>2 DEF OnlyFlagging, NoneForgotten
  <2>3. CASE flag' = [flag EXCEPT ![call] = @ \/ call \in Flagging]
    <3> SUFFICES ASSUME NEW d \in Drivers, flag'[d] PROVE d \in Flagging
      BY DEF OnlyFlagging
    <3>1. flag'[d] = IF d = call THEN flag[d] \/ d \in Flagging ELSE flag[d]
      BY <2>3, Zenon DEF IInv, FlagsOK
    <3>2. flag[d] => d \in Flagging
      BY DEF NoneForgotten, OnlyFlagging
    <3> QED BY <3>1, <3>2, Zenon
  <2> QED BY <2>1, <2>2, <2>3
<1> QED BY <1>1, <1>4, ForgetsStay

(* The loop passes a driver only when POLLIN is not set for it.            *)
LEMMA LoopForgetsNothing ==
  ASSUME IInv, NoneForgotten, (\E count \in Counts : PollCall(count)) \/ Scan \/ ArrayFull
  PROVE  NoneForgotten'
<1>1. UNCHANGED <<flag, ring, revents, unread>>
  BY DEF PollCall, Scan, ArrayFull
<1>2. OnlyFlagging'
  BY <1>1 DEF OnlyFlagging, NoneForgotten
<1>3. CASE (\E count \in Counts : PollCall(count)) \/ ArrayFull
  <2>1. turn' = 1 /\ pc' \in {"out", "scan"}
    BY <1>3 DEF PollCall, ArrayFull, Return
  <2>2. Passed'
    BY <2>1, OrderFacts DEF Passed
  <2>3. Pollin => Pollin'
    BY <1>1, <2>1 DEF Pollin
  <2> QED BY <1>1, <1>2, <2>1, <2>2, <2>3 DEF NoneForgotten, AllPassed
<1>4. CASE Scan
  <2>0. turn \in Nat /\ got' = got /\ asked' = asked /\ pc = "scan"
    BY <1>4, OrderFacts DEF Scan, IInv, PollerOK
  <2>1. CASE turn > Len(Order) /\ pc' = "poll" /\ UNCHANGED turn
    BY <1>1, <1>2, <2>0, <2>1 DEF NoneForgotten, AllPassed, Pollin, Passed
  <2>2. CASE HasEvents(turn) /\ turn <= Len(Order) /\ pc' = "read" /\ UNCHANGED turn
    <3>1. This' = This /\ This \in Drivers
      BY <2>0, <2>2, OrderFacts DEF This, IInv, PollerOK
    <3>2. This \notin Flagging => revents[This]
      BY <2>2, <3>1 DEF HasEvents, This, NoneForgotten, OnlyFlagging
    <3>3. Pollin => Pollin'
      BY <1>1, <3>1, <3>2 DEF Pollin
    <3>4. Passed => Passed'
      BY <1>1, <2>0, <2>2 DEF Passed
    <3> QED BY <1>1, <1>2, <2>2, <3>3, <3>4 DEF NoneForgotten, AllPassed
  <2>3. CASE ~HasEvents(turn) /\ turn <= Len(Order) /\ turn' = turn + 1 /\ UNCHANGED pc
    <3>1. turn \in 1 .. Len(Order) /\ Order[turn] \in Drivers
      BY <2>0, <2>3, OrderFacts DEF IInv, PollerOK
    <3>2. Available(ring[Order[turn]]) \in Nat
      BY <3>1, AvailableIsNat DEF IInv
    <3>3. Order[turn] \notin Flagging \cup unread => Available(ring[Order[turn]]) = 0
      BY <2>3, <3>1, <3>2 DEF NoneForgotten, Pollin, HasEvents
    <3>4. Passed'
      <4> SUFFICES ASSUME NEW i \in 1 .. Len(Order), i < turn + 1,
                          Order[i] \notin Flagging \cup unread, got < asked
                   PROVE  Available(ring[Order[i]]) = 0
        BY <1>1, <2>0, <2>3 DEF Passed
      <4>1. CASE i = turn
        BY <3>3, <4>1
      <4>2. CASE i < turn
        BY <4>2 DEF NoneForgotten, Passed
      <4> QED BY <2>0, <4>1, <4>2
    <3>5. Pollin => Pollin'
      BY <1>1, <2>0, <2>3 DEF Pollin
    <3> QED BY <1>1, <1>2, <2>0, <2>3, <3>4, <3>5 DEF NoneForgotten, AllPassed
  <2> QED BY <1>4, <2>0, <2>1, <2>2, <2>3, OrderFacts DEF Scan
<1> QED BY <1>3, <1>4

(* A driver is passed: it has an initial value, or its ring is empty, or   *)
(* the array is full.                                                      *)
LEMMA PassesThis ==
  ASSUME IInv, NoneForgotten, pc \in {"read", "handle"}, ReadReturns, UNCHANGED <<asked, ring>>,
         got' \in Int, got <= got' \/ got < asked, unread \subseteq unread', OnlyFlagging',
         This \notin Flagging \cup unread' =>
           \/ Available(ring[This]) = 0
           \/ got' = asked
  PROVE  NoneForgotten'
<1>1. turn \in 1 .. Len(Order) /\ turn' = turn + 1 /\ pc' = "scan" /\ This \in Drivers
      /\ got \in Int /\ asked \in Nat
  BY ThisIsDriver, OrderFacts DEF ReadReturns, IInv, PollerOK
<1>2. Pollin'
  <2> SUFFICES ASSUME NEW d \in Drivers \ (Flagging \cup unread'), Available(ring[d]) > 0
               PROVE  revents'[d]
    BY <1>1 DEF Pollin
  <2>1. revents[d]
    BY DEF NoneForgotten, Pollin
  <2>2. CASE d = This
    <3>1. got' = asked
      BY <2>2
    <3>2. KeptPollin
      BY <2>1, <2>2, <3>1 DEF KeptPollin
    <3> QED BY <1>1, <2>2, <3>2, Zenon DEF ReadReturns, IInv, FlagsOK
  <2>3. CASE d # This
    BY <2>1, <2>3, Zenon DEF ReadReturns, IInv, FlagsOK
  <2> QED BY <2>2, <2>3
<1>3. Passed'
  <2> SUFFICES ASSUME NEW i \in 1 .. Len(Order), i < turn + 1,
                      Order[i] \notin Flagging \cup unread', got' < asked
               PROVE  Available(ring[Order[i]]) = 0
    BY <1>1 DEF Passed
  <2>1. CASE i = turn
    BY <1>1, <2>1 DEF This
  <2>2. CASE i < turn
    BY <1>1, <2>2 DEF NoneForgotten, Passed
  <2> QED BY <1>1, <2>1, <2>2
<1> QED BY <1>1, <1>2, <1>3 DEF NoneForgotten, AllPassed

(* readEvents returns without having read, or when it need not read on.    *)
LEMMA ReadForgetsNothing ==
  ASSUME IInv, NoneForgotten, ReadInitial \/ ReadFails \/ Handled
  PROVE  NoneForgotten'
<1>1. This \in Drivers /\ Available(ring[This]) \in Nat /\ got \in Int /\ asked \in Nat
  BY ThisIsDriver, AvailableIsNat DEF ReadInitial, ReadFails, Handled, IInv, PollerOK
<1>2. CASE ReadInitial
  <2>1. OnlyFlagging'
    BY <1>2, Zenon DEF ReadInitial, NoneForgotten, OnlyFlagging, IInv, FlagsOK
  <2>2. This \in Flagging
    BY <1>1, <1>2 DEF ReadInitial, NoneForgotten, OnlyFlagging
  <2>3. got <= got' /\ got' \in Int
    BY <1>1, <1>2 DEF ReadInitial
  <2> QED BY <1>2, <2>1, <2>2, <2>3, PassesThis DEF ReadInitial
<1>3. CASE ReadFails
  <2>1. got' \in Int /\ got < asked
    BY <1>1, <1>3, SensorsAssumption DEF ReadFails, IInv, PollerOK, SensorsAssumption
  <2>3. unread \subseteq unread' /\ (This \notin unread' => Available(ring[This]) = 0)
    BY <1>1, <1>3 DEF ReadFails
  <2>2. OnlyFlagging'
    BY <1>3 DEF ReadFails, NoneForgotten, OnlyFlagging
  <2> QED BY <1>3, <2>1, <2>2, <2>3, PassesThis DEF ReadFails
<1>4. CASE Handled
  <2>1. OnlyFlagging'
    BY <1>4 DEF Handled, NoneForgotten, OnlyFlagging
  <2>2. got <= asked
    BY DEF IInv, PollerOK, StaysInBuffer
  <2>3. Available(ring[This]) = 0 \/ got' = asked
    BY <1>1, <1>4, <2>2 DEF Handled, More, Room
  <2>4. unread' = unread /\ got' = got
    BY <1>4 DEF Handled
  <2> QED BY <1>1, <1>4, <2>1, <2>3, <2>4, PassesThis DEF Handled
<1> QED BY <1>2, <1>3, <1>4

(* What readEvents does to a ring concerns the driver that it reads.       *)
LEMMA RingForgetsNothing ==
  ASSUME IInv, NoneForgotten, ReadDevice \/ HandleValue \/ HandleSyn \/ HandleCompassSyn
  PROVE  NoneForgotten'
<1>1. This \in Drivers /\ turn \in 1 .. Len(Order)
  BY ThisIsDriver, OrderFacts
     DEF ReadDevice, HandleValue, HandleSyn, HandleCompassSyn, IInv, PollerOK
<1>2. /\ UNCHANGED <<flag, revents, turn, asked>> /\ pc' = "handle"
      /\ unread \ {This} \subseteq unread'
      /\ pc \in {"read", "handle"}
  BY DEF ReadDevice, HandleValue, HandleSyn, HandleCompassSyn, poller, client
<1>3. got \in Int /\ asked \in Nat /\ got' \in Int /\ got <= got'
  BY DEF ReadDevice, HandleValue, HandleSyn, HandleCompassSyn, Deliver, poller, IInv, PollerOK
<1>4. \A d \in Drivers : d # This => ring'[d] = ring[d]
  <2>1. ring' = ring \/ \E r : ring' = [ring EXCEPT ![This] = r]
    BY Zenon DEF ReadDevice, HandleValue, HandleSyn, HandleCompassSyn, Consume
  <2> QED BY <2>1, Zenon DEF IInv, RingsOK
<1>5. This' = This
  BY <1>2 DEF This
<1>6. OnlyFlagging'
  BY <1>2 DEF NoneForgotten, OnlyFlagging
<1>7. Pollin => Pollin'
  BY <1>2, <1>4, <1>5 DEF Pollin
<1>8. Passed => Passed'
  <2> SUFFICES ASSUME Passed, NEW i \in 1 .. Len(Order), i < turn,
                      Order[i] \notin Flagging \cup unread', got' < asked
               PROVE  Available(ring'[Order[i]]) = 0
    BY <1>2 DEF Passed, Available
  <2>1. Order[i] \in Drivers /\ Order[i] # This
    BY <1>1, OrderFacts DEF This
  <2>2. Available(ring[Order[i]]) = 0
    BY <1>2, <1>3, <2>1 DEF Passed
  <2> QED BY <1>4, <2>1, <2>2
<1> QED BY <1>2, <1>6, <1>7, <1>8 DEF NoneForgotten, AllPassed

(* When poll() is called every ring that POLLIN tells of is empty.         *)
LEMMA NothingIsLeft == IInv /\ NoneForgotten => NoMoreData
<1> SUFFICES ASSUME IInv, NoneForgotten, pc = "poll",
                    NEW d \in Drivers \ (Flagging \cup unread)
             PROVE  Available(ring[d]) = 0
  BY DEF NoMoreData
<1>1. PICK i \in 1 .. Len(Order) : Order[i] = d
  BY OrderFacts
<1>2. i < turn /\ got < asked
  BY <1>1, OrderFacts DEF NoneForgotten, AllPassed, IInv, PollerOK
<1> QED BY <1>1, <1>2 DEF NoneForgotten, Passed

(* poll() sets POLLIN anew.                                                *)
LEMMA PollForgetsNothing ==
  ASSUME IInv, NoneForgotten, Poll \/ PollInterrupted
  PROVE  NoneForgotten'
<1>1. UNCHANGED <<flag, ring, unread>> /\ turn' = 1 /\ pc' \in {"out", "scan"}
  BY DEF Poll, PollInterrupted, Return
<1>2. OnlyFlagging'
  BY <1>1 DEF NoneForgotten, OnlyFlagging
<1>3. Passed'
  BY <1>1, OrderFacts DEF Passed
<1>4. Pollin'
  <2>1. pc = "poll"
    BY DEF Poll, PollInterrupted
  <2>2. \A d \in Drivers \ (Flagging \cup unread) : Available(ring[d]) = 0
    BY <2>1, NothingIsLeft DEF NoMoreData
  <2> QED BY <1>1, <2>2 DEF Pollin
<1> QED BY <1>1, <1>2, <1>3, <1>4 DEF NoneForgotten, AllPassed

(* poll() waits, or is about to, only if the rings are empty, of the       *)
(* drivers that have no initial value and whose read() did not fail.       *)
THEOREM WaitsWhenRead == Spec => []NoMoreData
<1>1. (IInv /\ NoneForgotten) /\ [Next]_vars => (IInv /\ NoneForgotten)'
  <2> SUFFICES ASSUME IInv, NoneForgotten, [Next]_vars PROVE IInv' /\ NoneForgotten'
    OBVIOUS
  <2>1. CASE UNCHANGED vars
    BY <2>1, ForgetsStay, NextIInv DEF vars, NoneForgotten, OnlyFlagging
  <2>2. CASE Next
    BY <2>2, NextIInv, OthersForgetNothing, LoopForgetsNothing, ReadForgetsNothing,
       RingForgetsNothing, PollForgetsNothing
       DEF Next, PollStep
  <2> QED BY <2>1, <2>2
<1>2. IInv /\ NoneForgotten => NoMoreData
  BY NothingIsLeft
<1> QED BY <1>1, <1>2, InitIInv, InitNoneForgotten, PTL DEF Spec

-----------------------------------------------------------------------------
(* What is on its way to a driver: the events in its ring and then those   *)
(* that the kernel holds.                                                  *)
Stream(d) == Contents(ring[d]) \o device[d]

(* The places of the values of a kind: in the stream s, or 0 for a value   *)
(* that a compass has collected.                                           *)
Places(s, k, m) ==
  {i \in 0 .. Len(s) : IF i = 0 THEN k \in m ELSE s[i].type = "abs" /\ s[i].kind = k}

(* The values there; the collected one is l.                               *)
Values(s, k, m, l) == [i \in Places(s, k, m) |-> IF i = 0 THEN l ELSE s[i].value]

(* The places of EV_SYN.                                                   *)
Ends(s) == {i \in 1 .. Len(s) : s[i].type = "syn"}

(* The packet that place i belongs to has ended.                           *)
Ended(ends, i) == \E e \in ends : e > i

(* The samples of a kind k, whose values v are at the places P: each       *)
(* packet has at most one, a later one is greater and none exceeds n; one  *)
(* whose packet has not ended is the current value c of a marked kind; the *)
(* others are what is due.                                                 *)
SamplesOK(P, ends, v, k, kinds, c, q, n) ==
  /\ \A i, j \in P : i < j => v[i] < v[j] /\ \E e \in ends : i < e /\ e < j
  /\ \A i \in P : v[i] <= n
  /\ \A i \in P : ~Ended(ends, i) => k \in kinds
  /\ k \in kinds => \E i \in P : v[i] = c /\ ~Ended(ends, i)
  /\ \A i, j \in 1 .. Len(q) : i < j => q[i] < q[j]
  /\ \A i \in 1 .. Len(q) : \E p \in P : v[p] = q[i] /\ Ended(ends, p)
  /\ \A p \in P : Ended(ends, p) => \E i \in 1 .. Len(q) : q[i] = v[p]

(* Values of other kinds change nothing.                                   *)
LEMMA SamplesStay ==
  ASSUME NEW N \in Nat, NEW P \in SUBSET (0 .. N), NEW ends \in SUBSET (1 .. N),
         NEW v, \A i \in P : v[i] \in Nat, NEW w, \A i \in P : w[i] = v[i],
         NEW k, NEW kinds, NEW others, k \in others <=> k \in kinds,
         NEW c, NEW q, NEW n \in Nat, NEW m \in Nat, n <= m,
         SamplesOK(P, ends, v, k, kinds, c, q, n)
  PROVE  SamplesOK(P, ends, w, k, others, c, q, m)
<1>1. \A i, j \in P : i < j => w[i] < w[j] /\ \E e \in ends : i < e /\ e < j
  BY DEF SamplesOK
<1>2. \A i \in P : w[i] <= m
  BY DEF SamplesOK
<1>3. \A i \in P : ~Ended(ends, i) => k \in others
  BY Zenon DEF SamplesOK
<1>4. k \in others => \E i \in P : w[i] = c /\ ~Ended(ends, i)
  BY Zenon DEF SamplesOK
<1>5. \A i, j \in 1 .. Len(q) : i < j => q[i] < q[j]
  BY Zenon DEF SamplesOK
<1>6. \A i \in 1 .. Len(q) : \E p \in P : w[p] = q[i] /\ Ended(ends, p)
  BY Zenon DEF SamplesOK
<1>7. \A p \in P : Ended(ends, p) => \E i \in 1 .. Len(q) : q[i] = w[p]
  BY Zenon DEF SamplesOK
<1> QED BY <1>1, <1>2, <1>3, <1>4, <1>5, <1>6, <1>7, Zenon DEF SamplesOK

(* A value of the kind is reported: its packet has not ended.              *)
LEMMA SampleReported ==
  ASSUME NEW N \in Nat, NEW P \in SUBSET (0 .. N), NEW ends \in SUBSET (1 .. N),
         NEW v, \A i \in P : v[i] \in Nat,
         NEW x \in Nat, NEW w, \A i \in P : w[i] = v[i], w[N + 1] = x,
         NEW k, NEW kinds, k \notin kinds, NEW c, NEW q, NEW n \in Nat, n < x,
         SamplesOK(P, ends, v, k, kinds, c, q, n)
  PROVE  SamplesOK(P \cup {N + 1}, ends, w, k, kinds \cup {k}, x, q, x)
<1> DEFINE R == P \cup {N + 1}
<1>0. \A i \in P : i \in 0 .. N /\ Ended(ends, i) /\ w[i] < x
  BY DEF SamplesOK
<1>00. ~Ended(ends, N + 1)
  BY DEF Ended
<1>1. \A i, j \in R : i < j => w[i] < w[j] /\ \E e \in ends : i < e /\ e < j
  <2> SUFFICES ASSUME NEW i \in R, NEW j \in R, i < j
               PROVE  w[i] < w[j] /\ \E e \in ends : i < e /\ e < j
    OBVIOUS
  <2>1. i \in P
    BY <1>0
  <2>2. CASE j \in P
    BY <2>1, <2>2 DEF SamplesOK
  <2>3. CASE j = N + 1
    <3>1. PICK e \in ends : e > i
      BY <1>0, <2>1 DEF Ended
    <3> QED BY <1>0, <2>1, <2>3, <3>1
  <2> QED BY <2>2, <2>3
<1>2. \A i \in R : w[i] <= x
  BY <1>0
<1>4. \E i \in R : w[i] = x /\ ~Ended(ends, i)
  BY <1>00
<1>5. \A i, j \in 1 .. Len(q) : i < j => q[i] < q[j]
  BY Zenon DEF SamplesOK
<1>6. \A i \in 1 .. Len(q) : \E p \in R : w[p] = q[i] /\ Ended(ends, p)
  BY Zenon DEF SamplesOK
<1>7. \A p \in R : Ended(ends, p) => \E i \in 1 .. Len(q) : q[i] = w[p]
  BY <1>00, Zenon DEF SamplesOK
<1> QED BY <1>1, <1>2, <1>4, <1>5, <1>6, <1>7, Zenon DEF SamplesOK

(* EV_SYN ends the packet, and its sample of the kind becomes due.         *)
LEMMA SampleEnded ==
  ASSUME NEW N \in Nat, NEW P \in SUBSET (0 .. N), NEW ends \in SUBSET (1 .. N),
         NEW v, \A i \in P : v[i] \in Nat,
         NEW k, NEW kinds, k \in kinds, NEW others, k \notin others,
         NEW c \in Nat, NEW q \in Seq(Nat), NEW n \in Nat, NEW m \in Nat, n <= m,
         SamplesOK(P, ends, v, k, kinds, c, q, n)
  PROVE  SamplesOK(P, ends \cup {N + 1}, v, k, others, c, Append(q, c), m)
<1> DEFINE R == ends \cup {N + 1}
           r == Append(q, c)
<1>0. PICK o \in P : v[o] = c /\ ~Ended(ends, o)
  BY DEF SamplesOK
<1>a. \A i \in P : Ended(R, i)
  BY DEF Ended
<1>b. \A i \in P : ~Ended(ends, i) => i = o
  <2> SUFFICES ASSUME NEW i \in P, ~Ended(ends, i), i # o PROVE FALSE
    OBVIOUS
  <2>1. (i < o => \E e \in ends : i < e /\ e < o) /\ (o < i => \E e \in ends : o < e /\ e < i)
    BY DEF SamplesOK
  <2>2. i < o \/ o < i
    OBVIOUS
  <2> QED BY <1>0, <2>1, <2>2 DEF Ended
<1>c. \A i \in P : Ended(ends, i) => v[i] < c
  <2> SUFFICES ASSUME NEW i \in P, Ended(ends, i) PROVE v[i] < c
    OBVIOUS
  <2>1. PICK e \in ends : e > i
    BY DEF Ended
  <2>2. ~(e > o)
    BY <1>0 DEF Ended
  <2>3. i < o
    BY <2>1, <2>2
  <2> QED BY <1>0, <2>3 DEF SamplesOK
<1>d. /\ Len(q) \in Nat /\ Len(r) = Len(q) + 1 /\ r[Len(q) + 1] = c
      /\ \A i \in 1 .. Len(q) : r[i] = q[i] /\ q[i] \in Nat
  BY LenProperties, ElementOfSeq, AppendProperties
<1>f. \A j \in 1 .. Len(r) : j \in 1 .. Len(q) \/ j = Len(q) + 1
  <2>1. Len(q) \in Nat /\ Len(r) = Len(q) + 1
    BY <1>d
  <2> HIDE DEF r
  <2> QED BY <2>1
<1> HIDE DEF r
<1>1. \A i, j \in P : i < j => v[i] < v[j] /\ \E e \in R : i < e /\ e < j
  BY Zenon DEF SamplesOK
<1>2. \A i \in P : v[i] <= m
  BY DEF SamplesOK
<1>5. \A i, j \in 1 .. Len(r) : i < j => r[i] < r[j]
  <2> SUFFICES ASSUME NEW i \in 1 .. Len(r), NEW j \in 1 .. Len(r), i < j PROVE r[i] < r[j]
    OBVIOUS
  <2>1. i \in 1 .. Len(q)
    BY <1>d
  <2>2. CASE j \in 1 .. Len(q)
    BY <1>d, <2>1, <2>2 DEF SamplesOK
  <2>3. CASE j = Len(q) + 1
    <3>1. PICK p \in P : v[p] = q[i] /\ Ended(ends, p)
      BY <2>1, Zenon DEF SamplesOK
    <3> QED BY <1>c, <1>d, <2>1, <2>3, <3>1
  <2>4. j \in 1 .. Len(q) \/ j = Len(q) + 1
    BY <1>f
  <2> QED BY <2>2, <2>3, <2>4
<1>6. \A i \in 1 .. Len(r) : \E p \in P : v[p] = r[i] /\ Ended(R, p)
  <2> SUFFICES ASSUME NEW i \in 1 .. Len(r) PROVE \E p \in P : v[p] = r[i] /\ Ended(R, p)
    OBVIOUS
  <2>1. CASE i \in 1 .. Len(q)
    <3>1. PICK p \in P : v[p] = q[i] /\ Ended(ends, p)
      BY <2>1, Zenon DEF SamplesOK
    <3> QED BY <1>a, <1>d, <2>1, <3>1
  <2>2. CASE i = Len(q) + 1
    BY <1>0, <1>a, <1>d, <2>2
  <2>3. i \in 1 .. Len(q) \/ i = Len(q) + 1
    BY <1>d
  <2> QED BY <2>1, <2>2, <2>3
<1>7. \A p \in P : \E i \in 1 .. Len(r) : r[i] = v[p]
  <2> SUFFICES ASSUME NEW p \in P PROVE \E i \in 1 .. Len(r) : r[i] = v[p]
    OBVIOUS
  <2>1. CASE Ended(ends, p)
    <3>1. PICK i \in 1 .. Len(q) : q[i] = v[p]
      BY <2>1, Zenon DEF SamplesOK
    <3> QED BY <1>d, <3>1
  <2>2. CASE ~Ended(ends, p)
    BY <1>0, <1>b, <1>d, <2>2
  <2> QED BY <2>1, <2>2
<1> QED BY <1>a, <1>1, <1>2, <1>5, <1>6, <1>7, Zenon DEF SamplesOK, r

(* It ends packets without a value of the kind as well.                    *)
LEMMA NoSampleEnded ==
  ASSUME NEW N \in Nat, NEW P \in SUBSET (0 .. N), NEW ends \in SUBSET (1 .. N),
         NEW v, \A i \in P : v[i] \in Nat,
         NEW k, NEW kinds, k \notin kinds, NEW others, k \notin others,
         NEW c, NEW q, NEW n \in Nat, NEW m \in Nat, n <= m,
         SamplesOK(P, ends, v, k, kinds, c, q, n)
  PROVE  SamplesOK(P, ends \cup {N + 1}, v, k, others, c, q, m)
<1> DEFINE R == ends \cup {N + 1}
<1>a. \A i \in P : Ended(R, i) /\ Ended(ends, i)
  BY DEF Ended, SamplesOK
<1>1. \A i, j \in P : i < j => v[i] < v[j] /\ \E e \in R : i < e /\ e < j
  BY Zenon DEF SamplesOK
<1>2. \A i \in P : v[i] <= m
  BY DEF SamplesOK
<1>5. \A i, j \in 1 .. Len(q) : i < j => q[i] < q[j]
  BY Zenon DEF SamplesOK
<1>6. \A i \in 1 .. Len(q) : \E p \in P : v[p] = q[i] /\ Ended(R, p)
  BY <1>a, Zenon DEF SamplesOK
<1>7. \A p \in P : \E i \in 1 .. Len(q) : q[i] = v[p]
  BY <1>a, Zenon DEF SamplesOK
<1> QED BY <1>a, <1>1, <1>2, <1>5, <1>6, <1>7, Zenon DEF SamplesOK

(* What readEvents takes out of the ring moves everything one place on: a  *)
(* value is collected, or an EV_SYN whose packet has been dealt with goes. *)
Moved(i) == IF i = 0 THEN 0 ELSE i - 1

LEMMA SamplesMove ==
  ASSUME NEW N \in Nat, NEW P \in SUBSET (0 .. N), NEW ends \in SUBSET (1 .. N),
         NEW v, \A i \in P : v[i] \in Nat,
         0 \in P => 1 \notin P /\ 1 \notin ends,
         NEW R, \A i \in P : Moved(i) \in R, \A j \in R : \E i \in P : j = Moved(i),
         NEW w, \A i \in P : w[Moved(i)] = v[i],
         NEW fewer \in SUBSET Nat, \A e \in ends : e # 1 => e - 1 \in fewer,
         \A e \in fewer : e # 0 /\ e + 1 \in ends,
         1 \in ends => 1 \notin P,
         NEW k, NEW kinds, NEW c, NEW q, NEW n \in Nat,
         SamplesOK(P, ends, v, k, kinds, c, q, n)
  PROVE  SamplesOK(R, fewer, w, k, kinds, c, q, n)
<1>a. \A i \in P : i \in Nat /\ Moved(i) \in Nat
  BY DEF Moved
<1>b. \A i, j \in P : Moved(i) < Moved(j) => i < j
  BY DEF Moved
<1>c. \A i \in P, e \in ends : i < e /\ e # 1 => Moved(i) < e - 1
  BY DEF Moved
<1>d. \A i \in P, e \in fewer : Moved(i) < e => i < e + 1
  BY DEF Moved
<1>e. \A i \in P : Ended(fewer, Moved(i)) <=> Ended(ends, i)
  <2> SUFFICES ASSUME NEW i \in P PROVE Ended(fewer, Moved(i)) <=> Ended(ends, i)
    OBVIOUS
  <2>1. ASSUME NEW e \in fewer, e > Moved(i) PROVE \E f \in ends : f > i
    BY <1>a, <1>d, <2>1
  <2>2. ASSUME NEW e \in ends, e > i PROVE \E f \in fewer : f > Moved(i)
    <3>1. e # 1
      BY <2>2
    <3> QED BY <1>a, <1>c, <2>2, <3>1
  <2> QED BY <2>1, <2>2 DEF Ended
<1>1. \A i, j \in R : i < j => w[i] < w[j] /\ \E e \in fewer : i < e /\ e < j
  <2> SUFFICES ASSUME NEW i \in R, NEW j \in R, i < j
               PROVE  w[i] < w[j] /\ \E e \in fewer : i < e /\ e < j
    OBVIOUS
  <2>1. PICK a \in P, b \in P : i = Moved(a) /\ j = Moved(b)
    OBVIOUS
  <2>2. a < b
    BY <1>b, <2>1
  <2>3. v[a] < v[b]
    BY <2>2 DEF SamplesOK
  <2>4. PICK e \in ends : a < e /\ e < b
    BY <2>2, Zenon DEF SamplesOK
  <2>5. e # 1
    BY <2>4
  <2>6. e - 1 \in fewer /\ Moved(a) < e - 1 /\ e - 1 < Moved(b)
    BY <1>a, <1>c, <2>4, <2>5 DEF Moved
  <2> QED BY <2>1, <2>3, <2>6
<1>2. \A i \in R : w[i] <= n
  BY Zenon DEF SamplesOK
<1>3. \A i \in R : ~Ended(fewer, i) => k \in kinds
  <2> SUFFICES ASSUME NEW i \in R, ~Ended(fewer, i) PROVE k \in kinds
    OBVIOUS
  <2>1. PICK p \in P : i = Moved(p)
    OBVIOUS
  <2>2. ~Ended(ends, p)
    BY <1>e, <2>1
  <2> QED BY <2>2, Zenon DEF SamplesOK
<1>4. k \in kinds => \E i \in R : w[i] = c /\ ~Ended(fewer, i)
  BY <1>e, Zenon DEF SamplesOK
<1>5. \A i, j \in 1 .. Len(q) : i < j => q[i] < q[j]
  BY Zenon DEF SamplesOK
<1>6. \A i \in 1 .. Len(q) : \E p \in R : w[p] = q[i] /\ Ended(fewer, p)
  <2> SUFFICES ASSUME NEW i \in 1 .. Len(q) PROVE \E p \in R : w[p] = q[i] /\ Ended(fewer, p)
    OBVIOUS
  <2>1. PICK p \in P : v[p] = q[i] /\ Ended(ends, p)
    BY Zenon DEF SamplesOK
  <2> QED BY <1>e, <2>1, Zenon
<1>7. \A p \in R : Ended(fewer, p) => \E i \in 1 .. Len(q) : q[i] = w[p]
  <2> SUFFICES ASSUME NEW p \in R, Ended(fewer, p) PROVE \E i \in 1 .. Len(q) : q[i] = w[p]
    OBVIOUS
  <2>1. PICK i \in P : p = Moved(i)
    OBVIOUS
  <2>2. w[p] = v[i] /\ Ended(ends, i)
    BY <1>e, <2>1
  <2> QED BY <2>2, Zenon DEF SamplesOK
<1> QED BY <1>1, <1>2, <1>3, <1>4, <1>5, <1>6, <1>7, Zenon DEF SamplesOK

(* The collected value, once its packet has ended, is the oldest due: it   *)
(* is the one that is handed over.                                         *)
LEMMA SampleIsOldest ==
  ASSUME NEW N \in Nat, NEW P \in SUBSET (0 .. N), NEW ends \in SUBSET (1 .. N),
         NEW v, \A i \in P : v[i] \in Nat, 0 \in P, 1 \in ends,
         NEW k, NEW kinds, NEW c, NEW q \in Seq(Nat), NEW n,
         SamplesOK(P, ends, v, k, kinds, c, q, n)
  PROVE  q # <<>> /\ Len(q) \in Nat /\ Len(q) >= 1 /\ q[1] = v[0]
<1>1. Ended(ends, 0)
  BY DEF Ended
<1>2. PICK i \in 1 .. Len(q) : q[i] = v[0]
  BY <1>1, Zenon DEF SamplesOK
<1>3. Len(q) \in Nat /\ \A j \in 1 .. Len(q) : q[j] \in Nat
  BY LenProperties, ElementOfSeq
<1>4. Len(q) >= 1 /\ 1 \in 1 .. Len(q)
  BY <1>2, <1>3
<1>5. PICK p \in P : v[p] = q[1] /\ Ended(ends, p)
  BY <1>4, Zenon DEF SamplesOK
<1>6. ASSUME p # 0 PROVE FALSE
  <2>1. v[0] < v[p]
    BY <1>6 DEF SamplesOK
  <2>2. i # 1
    BY <1>2, <1>5, <2>1
  <2>3. q[1] < q[i]
    BY <1>3, <1>4, <2>2 DEF SamplesOK
  <2> QED BY <1>2, <1>3, <1>5, <2>1, <2>3
<1>7. q # <<>>
  BY <1>4, EmptySeq
<1> QED BY <1>3, <1>4, <1>5, <1>6, <1>7

(* What is handed over is no longer due.                                   *)
LEMMA SampleDelivered ==
  ASSUME NEW N \in Nat, NEW P \in SUBSET (0 .. N), NEW ends \in SUBSET (1 .. N),
         NEW v, \A i \in P : v[i] \in Nat, 0 \in P, 1 \in ends,
         NEW w, \A i \in P \ {0} : w[i] = v[i],
         NEW k, NEW kinds, NEW c, NEW q \in Seq(Nat), NEW n \in Nat,
         SamplesOK(P, ends, v, k, kinds, c, q, n)
  PROVE  SamplesOK(P \ {0}, ends, w, k, kinds, c, SubSeq(q, 2, Len(q)), n)
<1> DEFINE R == P \ {0}
           r == SubSeq(q, 2, Len(q))
<1>a. Ended(ends, 0)
  BY DEF Ended
<1>b. Len(q) \in Nat /\ Len(q) >= 1 /\ q[1] = v[0] /\ \A i \in 1 .. Len(q) : q[i] \in Nat
  BY SampleIsOldest, ElementOfSeq
<1>c. Len(r) = Len(q) - 1 /\ \A i \in 1 .. Len(q) - 1 : r[i] = q[i + 1]
  <2>1. r = Tail(q) /\ q # <<>>
    BY SampleIsOldest, TailIsSubSeq
  <2> HIDE DEF r
  <2> QED BY <2>1, HeadTailProperties
<1> HIDE DEF r
<1>1. \A i, j \in R : i < j => w[i] < w[j] /\ \E e \in ends : i < e /\ e < j
  BY DEF SamplesOK
<1>2. \A i \in R : w[i] <= n
  BY DEF SamplesOK
<1>3. \A i \in R : ~Ended(ends, i) => k \in kinds
  BY Zenon DEF SamplesOK
<1>4. k \in kinds => \E i \in R : w[i] = c /\ ~Ended(ends, i)
  BY <1>a, Zenon DEF SamplesOK
<1>5. \A i, j \in 1 .. Len(r) : i < j => r[i] < r[j]
  <2> SUFFICES ASSUME NEW i \in 1 .. Len(r), NEW j \in 1 .. Len(r), i < j PROVE r[i] < r[j]
    OBVIOUS
  <2>1. i + 1 \in 1 .. Len(q) /\ j + 1 \in 1 .. Len(q) /\ i + 1 < j + 1
    BY <1>b, <1>c
  <2>2. q[i + 1] < q[j + 1]
    BY <2>1 DEF SamplesOK
  <2> QED BY <1>c, <2>2
<1>6. \A i \in 1 .. Len(r) : \E p \in R : w[p] = r[i] /\ Ended(ends, p)
  <2> SUFFICES ASSUME NEW i \in 1 .. Len(r) PROVE \E p \in R : w[p] = r[i] /\ Ended(ends, p)
    OBVIOUS
  <2>1. i + 1 \in 1 .. Len(q) /\ 1 \in 1 .. Len(q) /\ 1 < i + 1 /\ r[i] = q[i + 1]
    BY <1>b, <1>c
  <2>2. PICK p \in P : v[p] = q[i + 1] /\ Ended(ends, p)
    BY <2>1, Zenon DEF SamplesOK
  <2>3. q[1] < q[i + 1]
    BY <2>1 DEF SamplesOK
  <2>4. p # 0
    BY <1>b, <2>1, <2>2, <2>3
  <2> QED BY <2>1, <2>2, <2>4
<1>7. \A p \in R : Ended(ends, p) => \E i \in 1 .. Len(r) : r[i] = w[p]
  <2> SUFFICES ASSUME NEW p \in R, Ended(ends, p) PROVE \E i \in 1 .. Len(r) : r[i] = w[p]
    OBVIOUS
  <2>1. PICK i \in 1 .. Len(q) : q[i] = v[p]
    BY Zenon DEF SamplesOK
  <2>2. v[0] < v[p]
    BY DEF SamplesOK
  <2>3. i # 1
    BY <1>b, <2>1, <2>2
  <2>4. i - 1 \in 1 .. Len(r) /\ r[i - 1] = q[i]
    BY <1>b, <1>c, <2>1, <2>3
  <2> QED BY <2>1, <2>4
<1> QED BY <1>1, <1>2, <1>3, <1>4, <1>5, <1>6, <1>7, Zenon DEF SamplesOK, r

-----------------------------------------------------------------------------
(* Appending to a concatenation.                                           *)
LEMMA ConcatAppend ==
  ASSUME NEW S, NEW s \in Seq(S), NEW t \in Seq(S), NEW x \in S
  PROVE  s \o Append(t, x) = Append(s \o t, x)
<1>1. <<x>> \in Seq(S)
  OBVIOUS
<1>2. s \o (t \o <<x>>) = (s \o t) \o <<x>>
  BY <1>1, ConcatAssociative
<1>3. s \o t \in Seq(S)
  BY ConcatProperties
<1> QED BY <1>2, <1>3, AppendIsConcat

(* The first element of a concatenation, and what follows it.              *)
LEMMA ConcatTail ==
  ASSUME NEW S, NEW s \in Seq(S), NEW t \in Seq(S), s # <<>>
  PROVE  /\ s \o t \in Seq(S) /\ s \o t # <<>>
         /\ Head(s \o t) = Head(s) /\ Tail(s \o t) = Tail(s) \o t
<1> DEFINE u == s \o t
<1>1. /\ u \in Seq(S) /\ Len(u) = Len(s) + Len(t)
      /\ \A i \in 1 .. Len(s) + Len(t) : u[i] = IF i <= Len(s) THEN s[i] ELSE t[i - Len(s)]
  BY ConcatProperties
<1>2. Len(s) \in Nat \ {0} /\ Len(t) \in Nat
  BY EmptySeq, LenProperties
<1>3. u # <<>>
  BY <1>1, <1>2, EmptySeq
<1>4. /\ Tail(s) \in Seq(S) /\ Len(Tail(s)) = Len(s) - 1
      /\ \A i \in 1 .. Len(Tail(s)) : Tail(s)[i] = s[i + 1]
  BY HeadTailProperties
<1>5. /\ Tail(u) \in Seq(S) /\ Len(Tail(u)) = Len(u) - 1
      /\ \A i \in 1 .. Len(Tail(u)) : Tail(u)[i] = u[i + 1]
  BY <1>1, <1>3, HeadTailProperties
<1>6. /\ Tail(s) \o t \in Seq(S) /\ Len(Tail(s) \o t) = Len(Tail(s)) + Len(t)
      /\ \A i \in 1 .. Len(Tail(s)) + Len(t) :
           (Tail(s) \o t)[i] = IF i <= Len(Tail(s)) THEN Tail(s)[i] ELSE t[i - Len(Tail(s))]
  BY <1>4, ConcatProperties
<1> HIDE DEF u
<1>7. Len(Tail(u)) = Len(Tail(s) \o t)
  BY <1>1, <1>2, <1>4, <1>5, <1>6
<1>8. ASSUME NEW i \in 1 .. Len(Tail(u)) PROVE Tail(u)[i] = (Tail(s) \o t)[i]
  <2>1. i \in 1 .. Len(s) + Len(t) - 1 /\ i + 1 \in 1 .. Len(s) + Len(t)
        /\ i + 1 - Len(s) = i - (Len(s) - 1)
    BY <1>1, <1>2, <1>5
  <2>2. Tail(u)[i] = IF i + 1 <= Len(s) THEN s[i + 1] ELSE t[i + 1 - Len(s)]
    BY <1>1, <1>5, <2>1
  <2>3. CASE i + 1 <= Len(s)
    <3>1. i <= Len(Tail(s)) /\ i \in 1 .. Len(Tail(s))
      BY <1>2, <1>4, <2>1, <2>3
    <3> QED BY <1>2, <1>4, <1>6, <2>1, <2>2, <2>3, <3>1
  <2>4. CASE ~(i + 1 <= Len(s))
    <3>1. ~(i <= Len(Tail(s)))
      BY <1>2, <1>4, <2>1, <2>4
    <3> QED BY <1>2, <1>4, <1>6, <2>1, <2>2, <2>4, <3>1
  <2> QED BY <2>3, <2>4
<1>9. Tail(u) = Tail(s) \o t
  BY <1>5, <1>6, <1>7, <1>8, SeqEqual
<1>10. Head(u) = Head(s)
  BY <1>1, <1>2
<1> QED BY <1>1, <1>3, <1>9, <1>10 DEF u

(* Moving the first events of a sequence to the end of the one before it.  *)
LEMMA ConcatSplit ==
  ASSUME NEW S, NEW s \in Seq(S), NEW t \in Seq(S), NEW n \in 0 .. Len(t)
  PROVE  (s \o SubSeq(t, 1, n)) \o SubSeq(t, n + 1, Len(t)) = s \o t
<1> DEFINE a == SubSeq(t, 1, n)
           b == SubSeq(t, n + 1, Len(t))
<1>1. Len(t) \in Nat /\ \A i \in 1 .. Len(t) : t[i] \in S
  BY LenProperties, ElementOfSeq
<1>2. a \in Seq(S)
  <2>1. \A i \in 1 .. n : t[i] \in S
    BY <1>1
  <2> QED BY <2>1, SubSeqProperties
<1>3. b \in Seq(S)
  <2>1. \A i \in n + 1 .. Len(t) : t[i] \in S
    BY <1>1
  <2> QED BY <1>1, <2>1, SubSeqProperties
<1>4. a \o b = t
  <2>1. 1 \in 1 .. Len(t) + 1 /\ n \in 1 - 1 .. Len(t) /\ Len(t) \in n .. Len(t)
    BY <1>1
  <2>2. a \o b = SubSeq(t, 1, Len(t))
    BY <2>1, ConcatAdjacentSubSeq
  <2> QED BY <2>2, SubSeqFull
<1> HIDE DEF a, b
<1>5. (s \o a) \o b = s \o (a \o b)
  BY <1>2, <1>3, ConcatAssociative
<1> QED BY <1>4, <1>5 DEF a, b

-----------------------------------------------------------------------------
(* An input event is a value of a kind or EV_SYN.                          *)
LEMMA EventTypes ==
  /\ Syn \in InputEvents /\ Syn.type = "syn"
  /\ \A k \in AllKinds, x \in Nat :
       /\ Abs(k, x) \in InputEvents /\ Abs(k, x).type = "abs"
       /\ Abs(k, x).kind = k /\ Abs(k, x).value = x
  /\ \A e \in InputEvents :
       /\ (e.type = "abs" /\ e.kind \in AllKinds /\ e.value \in Nat) \/ e.type = "syn"
BY DEF InputEvents, Syn, Abs

(* The places in a stream, and the values there.                           *)
LEMMA StreamPlaces ==
  ASSUME NEW s \in Seq(InputEvents), NEW k, NEW m, NEW l, k \in m => l \in Nat
  PROVE  /\ Len(s) \in Nat
         /\ Places(s, k, m) \in SUBSET (0 .. Len(s)) /\ Ends(s) \in SUBSET (1 .. Len(s))
         /\ \A i \in Places(s, k, m) : Values(s, k, m, l)[i] \in Nat
         /\ 0 \in Places(s, k, m) <=> k \in m
         /\ \A i \in Places(s, k, m) : i \notin Ends(s)
<1>1. Len(s) \in Nat /\ \A i \in 1 .. Len(s) : s[i] \in InputEvents
  BY LenProperties, ElementOfSeq
<1>2. \A i \in Places(s, k, m) : IF i = 0 THEN k \in m ELSE i \in 1 .. Len(s) /\ s[i].type = "abs"
  BY <1>1 DEF Places
<1>3. \A i \in Places(s, k, m) : (IF i = 0 THEN l ELSE s[i].value) \in Nat
  BY <1>1, <1>2, EventTypes
<1>4. \A i \in Places(s, k, m) : Values(s, k, m, l)[i] \in Nat
  BY <1>3 DEF Values
<1>5. 0 \in Places(s, k, m) <=> k \in m
  BY <1>1 DEF Places
<1>6. \A i \in Ends(s) : i \in 1 .. Len(s) /\ s[i].type = "syn"
  BY DEF Ends
<1>7. \A i \in Places(s, k, m) : i \notin Ends(s)
  BY <1>2, <1>6
<1> QED BY <1>1, <1>4, <1>5, <1>7 DEF Places, Ends

(* An event more at the end of the stream.                                 *)
LEMMA PlacesAppend ==
  ASSUME NEW s \in Seq(InputEvents), NEW x \in InputEvents, NEW k, NEW m
  PROVE  /\ (x.type = "abs" /\ x.kind = k) =>
              Places(Append(s, x), k, m) = Places(s, k, m) \cup {Len(s) + 1}
         /\ ~(x.type = "abs" /\ x.kind = k) => Places(Append(s, x), k, m) = Places(s, k, m)
<1> DEFINE t == Append(s, x)
           N == Len(s)
<1>1. N \in Nat /\ Len(t) = N + 1 /\ t[N + 1] = x /\ \A i \in 1 .. N : t[i] = s[i]
  BY LenProperties, AppendProperties
<1> HIDE DEF t, N
<1>2. \A i \in 0 .. N : i \in 0 .. N + 1 /\ i # N + 1 /\ (i # 0 => t[i] = s[i])
  BY <1>1
<1>3. \A i \in 0 .. N + 1 : i \in 0 .. N \/ i = N + 1
  BY <1>1
<1>4. N + 1 \in 0 .. N + 1 /\ N + 1 # 0
  BY <1>1
<1>5. \A i : i \in Places(t, k, m) <=>
          i \in Places(s, k, m) \/ (i = N + 1 /\ x.type = "abs" /\ x.kind = k)
  BY <1>1, <1>2, <1>3, <1>4 DEF Places, N
<1>6. ASSUME x.type = "abs", x.kind = k
      PROVE  Places(t, k, m) = Places(s, k, m) \cup {N + 1}
  <2>1. \A i : i \in Places(t, k, m) <=> i \in Places(s, k, m) \cup {N + 1}
    BY <1>5, <1>6, Zenon
  <2> QED BY <2>1, Zenon
<1>7. ASSUME ~(x.type = "abs" /\ x.kind = k) PROVE Places(t, k, m) = Places(s, k, m)
  BY <1>5, <1>7
<1> QED BY <1>6, <1>7, Zenon DEF t, N

(* So it is with the places of EV_SYN.                                     *)
LEMMA EndsAppend ==
  ASSUME NEW s \in Seq(InputEvents), NEW x \in InputEvents
  PROVE  /\ x.type = "syn" => Ends(Append(s, x)) = Ends(s) \cup {Len(s) + 1}
         /\ x.type # "syn" => Ends(Append(s, x)) = Ends(s)
<1> DEFINE t == Append(s, x)
           N == Len(s)
<1>1. N \in Nat /\ Len(t) = N + 1 /\ t[N + 1] = x /\ \A i \in 1 .. N : t[i] = s[i]
  BY LenProperties, AppendProperties
<1> HIDE DEF t, N
<1>2. \A i : i \in Ends(t) <=> i \in Ends(s) \/ (i = N + 1 /\ x.type = "syn")
  <2>1. \A i \in 1 .. N : i \in 1 .. N + 1 /\ i # N + 1
    BY <1>1
  <2>2. \A i \in 1 .. N + 1 : i \in 1 .. N \/ i = N + 1
    BY <1>1
  <2>3. N + 1 \in 1 .. N + 1
    BY <1>1
  <2> QED BY <1>1, <2>1, <2>2, <2>3 DEF Ends, N
<1> QED BY <1>2 DEF t, N

(* The values stay where they are.                                         *)
LEMMA ValuesAppend ==
  ASSUME NEW s \in Seq(InputEvents), NEW x \in InputEvents, NEW k, NEW m, NEW l
  PROVE  /\ \A i \in Places(s, k, m) : Values(Append(s, x), k, m, l)[i] = Values(s, k, m, l)[i]
         /\ (x.type = "abs" /\ x.kind = k) => Values(Append(s, x), k, m, l)[Len(s) + 1] = x.value
<1> DEFINE t == Append(s, x)
           N == Len(s)
<1>1. N \in Nat /\ Len(t) = N + 1 /\ t[N + 1] = x /\ \A i \in 1 .. N : t[i] = s[i]
  BY LenProperties, AppendProperties
<1>2. ASSUME x.type = "abs", x.kind = k
      PROVE  Places(t, k, m) = Places(s, k, m) \cup {N + 1}
  BY <1>2, PlacesAppend
<1>7. ASSUME ~(x.type = "abs" /\ x.kind = k) PROVE Places(t, k, m) = Places(s, k, m)
  BY <1>7, PlacesAppend
<1> HIDE DEF t, N
<1>3. \A i \in Places(s, k, m) : i \in Places(t, k, m) /\ i \in 0 .. N
  BY <1>2, <1>7 DEF Places, N
<1>4. \A i \in 0 .. N : i # 0 => t[i] = s[i]
  BY <1>1
<1>5. \A i \in Places(s, k, m) : Values(t, k, m, l)[i] = Values(s, k, m, l)[i]
  BY <1>3, <1>4 DEF Values
<1>6. (x.type = "abs" /\ x.kind = k) => Values(t, k, m, l)[N + 1] = x.value
  <2>1. N + 1 # 0
    BY <1>1
  <2> QED BY <1>1, <1>2, <2>1 DEF Values
<1> QED BY <1>5, <1>6 DEF t, N

(* An event less at the head of the stream.                                *)
LEMMA TailFacts ==
  ASSUME NEW s \in Seq(InputEvents), s # <<>>
  PROVE  /\ Len(s) \in Nat \ {0} /\ Len(Tail(s)) = Len(s) - 1
         /\ \A i \in 1 .. Len(s) - 1 : Tail(s)[i] = s[i + 1]
<1>1. Len(s) \in Nat \ {0}
  BY EmptySeq
<1>2. Len(Tail(s)) = Len(s) - 1 /\ \A i \in 1 .. Len(Tail(s)) : Tail(s)[i] = s[i + 1]
  BY HeadTailProperties
<1> QED BY <1>1, <1>2

(* An EV_SYN goes.                                                         *)
LEMMA EndsTail ==
  ASSUME NEW s \in Seq(InputEvents), s # <<>>
  PROVE  /\ \A e \in Ends(s) : e # 1 => e - 1 \in Ends(Tail(s))
         /\ \A e \in Ends(Tail(s)) : e # 0 /\ e + 1 \in Ends(s)
         /\ Ends(Tail(s)) \in SUBSET Nat
         /\ 1 \in Ends(s) <=> s[1].type = "syn"
<1> DEFINE t == Tail(s)
           N == Len(s)
<1>1. N \in Nat \ {0} /\ Len(t) = N - 1 /\ \A i \in 1 .. N - 1 : t[i] = s[i + 1]
  BY TailFacts
<1> HIDE DEF t, N
<1>2. 1 \in Ends(s) <=> s[1].type = "syn"
  BY <1>1 DEF Ends, N
<1>3. ASSUME NEW e \in Ends(s), e # 1 PROVE e - 1 \in Ends(t)
  <2>1. e \in 1 .. N /\ s[e].type = "syn"
    BY DEF Ends, N
  <2>2. e - 1 \in 1 .. N - 1 /\ (e - 1) + 1 = e
    BY <1>1, <1>3, <2>1
  <2>3. t[e - 1] = s[e]
    BY <1>1, <2>2
  <2> QED BY <1>1, <2>1, <2>2, <2>3 DEF Ends
<1>4. ASSUME NEW e \in Ends(t) PROVE e \in Nat /\ e # 0 /\ e + 1 \in Ends(s)
  <2>1. e \in 1 .. N - 1 /\ t[e].type = "syn"
    BY <1>1 DEF Ends
  <2>2. e + 1 \in 1 .. N /\ t[e] = s[e + 1]
    BY <1>1, <2>1
  <2> QED BY <2>1, <2>2 DEF Ends, N
<1>5. Ends(t) \in SUBSET Nat
  BY <1>4
<1> QED BY <1>2, <1>3, <1>4, <1>5 DEF t

(* A value may be collected: o are the kinds collected then.               *)
LEMMA PlacesTail ==
  ASSUME NEW s \in Seq(InputEvents), s # <<>>, NEW k, NEW m, NEW o,
         k \in o <=> k \in m \/ (s[1].type = "abs" /\ s[1].kind = k)
  PROVE  /\ \A i \in Places(s, k, m) : Moved(i) \in Places(Tail(s), k, o)
         /\ \A j \in Places(Tail(s), k, o) : \E i \in Places(s, k, m) : j = Moved(i)
         /\ 1 \in Places(s, k, m) <=> s[1].type = "abs" /\ s[1].kind = k
<1> DEFINE t == Tail(s)
           N == Len(s)
<1>1. N \in Nat \ {0} /\ Len(t) = N - 1 /\ \A i \in 1 .. N - 1 : t[i] = s[i + 1]
  BY TailFacts
<1> HIDE DEF t, N
<1>2. 1 \in Places(s, k, m) <=> s[1].type = "abs" /\ s[1].kind = k
  BY <1>1 DEF Places, N
<1>3. k \in o => 0 \in Places(t, k, o)
  BY <1>1 DEF Places
<1>4. ASSUME NEW i \in Places(s, k, m) PROVE Moved(i) \in Places(t, k, o)
  <2>1. i \in 0 .. N /\ IF i = 0 THEN k \in m ELSE s[i].type = "abs" /\ s[i].kind = k
    BY DEF Places, N
  <2>2. CASE i = 0 \/ i = 1
    <3>1. k \in o
      BY <2>1, <2>2
    <3> QED BY <1>3, <2>2, <3>1 DEF Moved
  <2>3. CASE i # 0 /\ i # 1
    <3>1. Moved(i) = i - 1 /\ i - 1 \in 1 .. N - 1 /\ i - 1 \in 0 .. N - 1 /\ i - 1 # 0
          /\ (i - 1) + 1 = i
      BY <1>1, <2>1, <2>3 DEF Moved
    <3>2. t[i - 1] = s[i]
      BY <1>1, <3>1
    <3> QED BY <1>1, <2>1, <2>3, <3>1, <3>2 DEF Places
  <2> QED BY <2>2, <2>3
<1>5. ASSUME NEW j \in Places(t, k, o) PROVE \E i \in Places(s, k, m) : j = Moved(i)
  <2>1. j \in 0 .. N - 1 /\ IF j = 0 THEN k \in o ELSE t[j].type = "abs" /\ t[j].kind = k
    BY <1>1 DEF Places
  <2>2. CASE j = 0
    <3>1. CASE k \in m
      <4>1. 0 \in Places(s, k, m) /\ j = Moved(0)
        BY <1>1, <2>2, <3>1 DEF Places, Moved, N
      <4> QED BY <4>1
    <3>2. CASE k \notin m
      <4>1. 1 \in Places(s, k, m) /\ j = Moved(1)
        BY <1>2, <2>1, <2>2, <3>2 DEF Moved
      <4> QED BY <4>1
    <3> QED BY <3>1, <3>2
  <2>3. CASE j # 0
    <3>1. j \in 1 .. N - 1 /\ j + 1 \in 0 .. N /\ j + 1 # 0 /\ (j + 1) - 1 = j
      BY <1>1, <2>1, <2>3
    <3>2. j + 1 \in Places(s, k, m)
      BY <1>1, <2>1, <2>3, <3>1 DEF Places, N
    <3>3. j = Moved(j + 1)
      BY <3>1 DEF Moved
    <3> QED BY <3>2, <3>3
  <2> QED BY <2>2, <2>3
<1> QED BY <1>2, <1>4, <1>5 DEF t

(* The values move with their places; p is the collected one then.         *)
LEMMA ValuesTail ==
  ASSUME NEW s \in Seq(InputEvents), s # <<>>, NEW k, NEW m, NEW o, NEW l, NEW p,
         k \in o <=> k \in m \/ (s[1].type = "abs" /\ s[1].kind = k),
         (s[1].type = "abs" /\ s[1].kind = k) => p = s[1].value /\ k \notin m,
         ~(s[1].type = "abs" /\ s[1].kind = k) => p = l,
         NEW i \in Places(s, k, m)
  PROVE  Values(Tail(s), k, o, p)[Moved(i)] = Values(s, k, m, l)[i]
<1> DEFINE t == Tail(s)
           N == Len(s)
<1>1. N \in Nat \ {0} /\ \A j \in 1 .. N - 1 : t[j] = s[j + 1]
  BY TailFacts
<1>2. Moved(i) \in Places(t, k, o)
  BY PlacesTail
<1> HIDE DEF t, N
<1>3. i \in 0 .. N /\ IF i = 0 THEN k \in m ELSE s[i].type = "abs" /\ s[i].kind = k
  BY DEF Places, N
<1>4. Values(s, k, m, l)[i] = IF i = 0 THEN l ELSE s[i].value
  BY DEF Values
<1>5. Values(t, k, o, p)[Moved(i)] = IF Moved(i) = 0 THEN p ELSE t[Moved(i)].value
  BY <1>2 DEF Values
<1>6. CASE i = 0
  BY <1>3, <1>4, <1>5, <1>6 DEF t, Moved
<1>7. CASE i = 1
  BY <1>3, <1>4, <1>5, <1>7 DEF t, Moved
<1>8. CASE i # 0 /\ i # 1
  <2>1. Moved(i) = i - 1 /\ i - 1 \in 1 .. N - 1 /\ i - 1 # 0 /\ (i - 1) + 1 = i
    BY <1>1, <1>3, <1>8 DEF Moved
  <2>2. t[i - 1] = s[i]
    BY <1>1, <2>1
  <2> QED BY <1>4, <1>5, <1>8, <2>1, <2>2 DEF t
<1> QED BY <1>6, <1>7, <1>8

-----------------------------------------------------------------------------
(* The samples of a kind k in a stream s: m are the collected kinds, l is  *)
(* the value collected of k.                                               *)
StreamOK(s, k, m, l, kinds, c, q, n) ==
  SamplesOK(Places(s, k, m), Ends(s), Values(s, k, m, l), k, kinds, c, q, n)

(* The device reports a value of the kind.                                 *)
LEMMA ReportsIt ==
  ASSUME NEW s \in Seq(InputEvents), NEW k \in AllKinds, NEW m, NEW l \in Nat,
         NEW kinds, k \notin kinds, NEW c, NEW q, NEW n \in Nat, NEW x \in Nat, n < x,
         StreamOK(s, k, m, l, kinds, c, q, n)
  PROVE  StreamOK(Append(s, Abs(k, x)), k, m, l, kinds \cup {k}, x, q, x)
<1> DEFINE e == Abs(k, x)
           t == Append(s, e)
<1>1. e \in InputEvents /\ e.type = "abs" /\ e.kind = k /\ e.value = x /\ e.type # "syn"
  BY EventTypes
<1> HIDE DEF e
<1>2. /\ Len(s) \in Nat
      /\ Places(s, k, m) \in SUBSET (0 .. Len(s)) /\ Ends(s) \in SUBSET (1 .. Len(s))
      /\ \A i \in Places(s, k, m) : Values(s, k, m, l)[i] \in Nat
  BY StreamPlaces
<1>3. /\ Places(t, k, m) = Places(s, k, m) \cup {Len(s) + 1} /\ Ends(t) = Ends(s)
      /\ \A i \in Places(s, k, m) : Values(t, k, m, l)[i] = Values(s, k, m, l)[i]
      /\ Values(t, k, m, l)[Len(s) + 1] = x
  <2>1. Places(t, k, m) = Places(s, k, m) \cup {Len(s) + 1}
    BY <1>1, PlacesAppend
  <2>3. Ends(t) = Ends(s)
    BY <1>1, EndsAppend
  <2>2. /\ \A i \in Places(s, k, m) : Values(t, k, m, l)[i] = Values(s, k, m, l)[i]
        /\ Values(t, k, m, l)[Len(s) + 1] = e.value
    BY <1>1, ValuesAppend
  <2> HIDE DEF t
  <2> QED BY <1>1, <2>1, <2>2, <2>3
<1> HIDE DEF t
<1>4. SamplesOK(Places(s, k, m), Ends(s), Values(s, k, m, l), k, kinds, c, q, n)
  BY DEF StreamOK
<1>5. SamplesOK(Places(s, k, m) \cup {Len(s) + 1}, Ends(s), Values(t, k, m, l), k,
                kinds \cup {k}, x, q, x)
  BY <1>2, <1>3, <1>4, SampleReported
<1>6. StreamOK(t, k, m, l, kinds \cup {k}, x, q, x)
  BY <1>3, <1>5 DEF StreamOK
<1> QED BY <1>6 DEF t, e

(* It reports a value of another kind.                                     *)
LEMMA ReportsAnother ==
  ASSUME NEW s \in Seq(InputEvents), NEW k \in AllKinds, NEW m, NEW l \in Nat,
         NEW kinds, NEW c, NEW q, NEW n \in Nat, NEW x \in Nat, n <= x,
         NEW j \in AllKinds, j # k, StreamOK(s, k, m, l, kinds, c, q, n)
  PROVE  StreamOK(Append(s, Abs(j, x)), k, m, l, kinds \cup {j}, c, q, x)
<1> DEFINE e == Abs(j, x)
           t == Append(s, e)
<1>1. e \in InputEvents /\ e.type = "abs" /\ e.kind # k /\ e.type # "syn"
  BY EventTypes
<1> HIDE DEF e
<1>2. /\ Len(s) \in Nat
      /\ Places(s, k, m) \in SUBSET (0 .. Len(s)) /\ Ends(s) \in SUBSET (1 .. Len(s))
      /\ \A i \in Places(s, k, m) : Values(s, k, m, l)[i] \in Nat
  BY StreamPlaces
<1>3. /\ Places(t, k, m) = Places(s, k, m) /\ Ends(t) = Ends(s)
      /\ \A i \in Places(s, k, m) : Values(t, k, m, l)[i] = Values(s, k, m, l)[i]
  BY <1>1, PlacesAppend, EndsAppend, ValuesAppend
<1> HIDE DEF t
<1>4. SamplesOK(Places(s, k, m), Ends(s), Values(s, k, m, l), k, kinds, c, q, n)
  BY DEF StreamOK
<1>5. k \in kinds \cup {j} <=> k \in kinds
  OBVIOUS
<1>6. SamplesOK(Places(s, k, m), Ends(s), Values(t, k, m, l), k, kinds \cup {j}, c, q, x)
  BY <1>2, <1>3, <1>4, <1>5, SamplesStay
<1>7. StreamOK(t, k, m, l, kinds \cup {j}, c, q, x)
  BY <1>3, <1>6 DEF StreamOK
<1> QED BY <1>7 DEF t, e

(* The device ends the packet; others are the kinds that stay marked.      *)
LEMMA ReportsEnd ==
  ASSUME NEW s \in Seq(InputEvents), NEW k \in AllKinds, NEW m, NEW l \in Nat,
         NEW kinds, NEW others, k \notin others, NEW c \in Nat, NEW q \in Seq(Nat),
         NEW n \in Nat, NEW x \in Nat, n <= x, StreamOK(s, k, m, l, kinds, c, q, n)
  PROVE  StreamOK(Append(s, Syn), k, m, l, others, c,
                  IF k \in kinds THEN Append(q, c) ELSE q, x)
<1> DEFINE t == Append(s, Syn)
           P == Places(s, k, m)
           v == Values(s, k, m, l)
           w == Values(t, k, m, l)
<1>1. Syn \in InputEvents /\ Syn.type = "syn"
  BY EventTypes
<1>2. /\ Len(s) \in Nat /\ P \in SUBSET (0 .. Len(s)) /\ Ends(s) \in SUBSET (1 .. Len(s))
      /\ \A i \in P : v[i] \in Nat
  BY StreamPlaces
<1>3. /\ Places(t, k, m) = P /\ Ends(t) = Ends(s) \cup {Len(s) + 1} /\ \A i \in P : w[i] = v[i]
  BY <1>1, PlacesAppend, EndsAppend, ValuesAppend
<1> HIDE DEF t, P, v, w
<1>4. SamplesOK(P, Ends(s), v, k, kinds, c, q, n)
  BY DEF StreamOK, P, v
<1>5. SamplesOK(P, Ends(s), w, k, kinds, c, q, x)
  BY <1>2, <1>3, <1>4, SamplesStay
<1>6. \A i \in P : w[i] \in Nat
  BY <1>2, <1>3
<1>7. CASE k \in kinds
  <2>1. SamplesOK(P, Ends(s) \cup {Len(s) + 1}, w, k, others, c, Append(q, c), x)
    <3>1. x <= x
      OBVIOUS
    <3> QED BY <3>1, <1>2, <1>5, <1>6, <1>7, SampleEnded, Zenon
  <2> QED BY <1>3, <1>7, <2>1 DEF StreamOK, t, w
<1>8. CASE k \notin kinds
  <2>1. SamplesOK(P, Ends(s) \cup {Len(s) + 1}, w, k, others, c, q, x)
    BY <1>2, <1>5, <1>6, <1>8, NoSampleEnded
  <2> QED BY <1>3, <1>8, <2>1 DEF StreamOK, t, w
<1> QED BY <1>7, <1>8

(* A value is taken out of the ring and collected; it may be one of k.     *)
LEMMA Collects ==
  ASSUME NEW s \in Seq(InputEvents), s # <<>>, s[1].type = "abs",
         NEW k \in AllKinds, NEW m, NEW l \in Nat, NEW p \in Nat,
         p = IF s[1].kind = k THEN s[1].value ELSE l,
         NEW kinds, NEW c, NEW q, NEW n \in Nat, StreamOK(s, k, m, l, kinds, c, q, n)
  PROVE  StreamOK(Tail(s), k, m \cup {s[1].kind}, p, kinds, c, q, n)
<1> DEFINE t == Tail(s)
           o == m \cup {s[1].kind}
           P == Places(s, k, m)
           v == Values(s, k, m, l)
           R == Places(t, k, o)
           w == Values(t, k, o, p)
<1>1. /\ Len(s) \in Nat /\ P \in SUBSET (0 .. Len(s)) /\ Ends(s) \in SUBSET (1 .. Len(s))
      /\ \A i \in P : v[i] \in Nat
      /\ 0 \in P <=> k \in m
  BY StreamPlaces
<1>2. SamplesOK(P, Ends(s), v, k, kinds, c, q, n)
  BY DEF StreamOK
<1>3. ASSUME s[1].kind = k PROVE k \notin m
  <2> SUFFICES ASSUME k \in m PROVE FALSE
    OBVIOUS
  <2>1. 1 \in P
    <3>1. Len(s) \in Nat \ {0}
      BY EmptySeq
    <3> QED BY <1>3, <3>1 DEF Places
  <2>2. 0 \in P /\ 0 < 1
    BY <1>1
  <2> HIDE DEF P, v
  <2>3. \E e \in Ends(s) : 0 < e /\ e < 1
    BY <1>2, <2>1, <2>2, Zenon DEF SamplesOK
  <2> QED BY <1>1, <2>3
<1>4. s[1].type # "syn"
  OBVIOUS
<1>5. /\ k \in o <=> k \in m \/ (s[1].type = "abs" /\ s[1].kind = k)
      /\ (s[1].type = "abs" /\ s[1].kind = k) => p = s[1].value /\ k \notin m
      /\ ~(s[1].type = "abs" /\ s[1].kind = k) => p = l
  BY <1>3
<1>6. /\ \A i \in P : Moved(i) \in R
      /\ \A j \in R : \E i \in P : j = Moved(i)
      /\ \A i \in P : w[Moved(i)] = v[i]
      /\ \A e \in Ends(s) : e # 1 => e - 1 \in Ends(t)
      /\ \A e \in Ends(t) : e # 0 /\ e + 1 \in Ends(s)
      /\ Ends(t) \in SUBSET Nat
      /\ 1 \in Ends(s) <=> s[1].type = "syn"
      /\ 1 \in P <=> s[1].type = "abs" /\ s[1].kind = k
  <2> HIDE DEF o
  <2>1. /\ \A i \in P : Moved(i) \in R
        /\ \A j \in R : \E i \in P : j = Moved(i)
        /\ 1 \in P <=> s[1].type = "abs" /\ s[1].kind = k
    BY <1>5, PlacesTail
  <2>2. \A i \in P : w[Moved(i)] = v[i]
    BY <1>5, ValuesTail
  <2> QED BY <2>1, <2>2, EndsTail
<1> HIDE DEF t, o, P, v, R, w
<1>7. /\ \A i \in P : Moved(i) \in R
      /\ 0 \in P => 1 \notin P /\ 1 \notin Ends(s)
      /\ 1 \in Ends(s) => 1 \notin P
  BY <1>1, <1>3, <1>4, <1>6
<1>8. SamplesOK(R, Ends(t), w, k, kinds, c, q, n)
  BY <1>1, <1>2, <1>6, <1>7, SamplesMove
<1> QED BY <1>8 DEF StreamOK, t, o, R, w

(* EV_SYN goes when the kind has been dealt with.                          *)
LEMMA PacketGoes ==
  ASSUME NEW s \in Seq(InputEvents), s # <<>>, s[1].type = "syn",
         NEW k \in AllKinds, NEW m, k \notin m, NEW l \in Nat,
         NEW kinds, NEW c, NEW q, NEW n \in Nat, StreamOK(s, k, m, l, kinds, c, q, n)
  PROVE  StreamOK(Tail(s), k, m, l, kinds, c, q, n)
<1> DEFINE t == Tail(s)
           P == Places(s, k, m)
           v == Values(s, k, m, l)
           R == Places(t, k, m)
           w == Values(t, k, m, l)
<1>1. /\ Len(s) \in Nat /\ P \in SUBSET (0 .. Len(s)) /\ Ends(s) \in SUBSET (1 .. Len(s))
      /\ \A i \in P : v[i] \in Nat
      /\ 0 \in P <=> k \in m
  BY StreamPlaces
<1>2. SamplesOK(P, Ends(s), v, k, kinds, c, q, n)
  BY DEF StreamOK
<1>3. s[1].type # "abs"
  OBVIOUS
<1>5. /\ k \in m <=> k \in m \/ (s[1].type = "abs" /\ s[1].kind = k)
      /\ (s[1].type = "abs" /\ s[1].kind = k) => l = s[1].value /\ k \notin m
      /\ ~(s[1].type = "abs" /\ s[1].kind = k) => l = l
  BY <1>3
<1>6. /\ \A i \in P : Moved(i) \in R
      /\ \A j \in R : \E i \in P : j = Moved(i)
      /\ \A i \in P : w[Moved(i)] = v[i]
      /\ \A e \in Ends(s) : e # 1 => e - 1 \in Ends(t)
      /\ \A e \in Ends(t) : e # 0 /\ e + 1 \in Ends(s)
      /\ Ends(t) \in SUBSET Nat
      /\ 1 \in Ends(s) <=> s[1].type = "syn"
      /\ 1 \in P <=> s[1].type = "abs" /\ s[1].kind = k
  <2>1. /\ \A i \in P : Moved(i) \in R
        /\ \A j \in R : \E i \in P : j = Moved(i)
        /\ 1 \in P <=> s[1].type = "abs" /\ s[1].kind = k
    BY <1>5, PlacesTail
  <2>2. \A i \in P : w[Moved(i)] = v[i]
    BY <1>5, ValuesTail
  <2> QED BY <2>1, <2>2, EndsTail
<1> HIDE DEF t, P, v, R, w
<1>7. /\ 0 \notin P /\ 1 \notin P
      /\ \A i \in P : Moved(i) \in R
  BY <1>1, <1>3, <1>6
<1>8. SamplesOK(R, Ends(t), w, k, kinds, c, q, n)
  BY <1>1, <1>2, <1>6, <1>7, SamplesMove
<1> QED BY <1>8 DEF StreamOK, t, R, w

(* The kind is dealt with: what is handed over is the oldest sample due.   *)
LEMMA HandsOver ==
  ASSUME NEW s \in Seq(InputEvents), s # <<>>, s[1].type = "syn",
         NEW k \in AllKinds, NEW m, k \in m, NEW l \in Nat,
         NEW kinds, NEW c, NEW q \in Seq(Nat), NEW n \in Nat,
         StreamOK(s, k, m, l, kinds, c, q, n)
  PROVE  /\ StreamOK(s, k, m \ {k}, l, kinds, c, SubSeq(q, 2, Len(q)), n)
         /\ q # <<>> /\ l = Head(q)
<1> DEFINE o == m \ {k}
           P == Places(s, k, m)
           v == Values(s, k, m, l)
           w == Values(s, k, o, l)
<1>1. /\ Len(s) \in Nat /\ P \in SUBSET (0 .. Len(s)) /\ Ends(s) \in SUBSET (1 .. Len(s))
      /\ \A i \in P : v[i] \in Nat
      /\ 0 \in P
  BY StreamPlaces
<1>2. SamplesOK(P, Ends(s), v, k, kinds, c, q, n)
  BY DEF StreamOK
<1>3. 1 \in Ends(s)
  <2>1. Len(s) \in Nat \ {0}
    BY EmptySeq
  <2> QED BY <2>1 DEF Ends
<1>4. Places(s, k, o) = P \ {0}
  BY <1>1 DEF Places
<1>5. \A i \in P \ {0} : w[i] = v[i]
  BY <1>4, Zenon DEF Values
<1>6. v[0] = l
  BY <1>1 DEF Values
<1> HIDE DEF o, P, v, w
<1>7. q # <<>> /\ l = Head(q)
  <2>1. q # <<>> /\ q[1] = v[0]
    BY <1>1, <1>2, <1>3, SampleIsOldest
  <2> QED BY <1>6, <2>1
<1>8. SamplesOK(P \ {0}, Ends(s), w, k, kinds, c, SubSeq(q, 2, Len(q)), n)
  BY <1>1, <1>2, <1>3, <1>5, SampleDelivered
<1> QED BY <1>4, <1>7, <1>8 DEF StreamOK, o, w

(* What does not concern the kind.                                         *)
LEMMA StreamStays ==
  ASSUME NEW s, NEW k, NEW m, NEW l, NEW kinds, NEW c, NEW q, NEW n, NEW o, NEW others,
         k \in o <=> k \in m, k \in others <=> k \in kinds,
         StreamOK(s, k, m, l, kinds, c, q, n)
  PROVE  StreamOK(s, k, o, l, others, c, q, n)
<1>1. Places(s, k, o) = Places(s, k, m)
  BY DEF Places
<1>2. Values(s, k, o, l) = Values(s, k, m, l)
  BY <1>1 DEF Values
<1>3. SamplesOK(Places(s, k, m), Ends(s), Values(s, k, m, l), k, others, c, q, n)
  BY Zenon DEF StreamOK, SamplesOK
<1> QED BY <1>1, <1>2, <1>3 DEF StreamOK

(* When nothing is on its way, nothing is due.                             *)
LEMMA NothingOnItsWay ==
  ASSUME NEW k, NEW m, NEW l, NEW kinds, NEW c, NEW q \in Seq(Nat), NEW n,
         StreamOK(<<>>, k, m, l, kinds, c, q, n)
  PROVE  q = <<>>
<1> SUFFICES ASSUME q # <<>> PROVE FALSE
  OBVIOUS
<1>1. Len(q) \in Nat \ {0}
  BY EmptySeq
<1>2. 1 \in 1 .. Len(q)
  BY <1>1
<1>3. \E p \in Places(<<>>, k, m) : Ended(Ends(<<>>), p)
  BY <1>2, Zenon DEF StreamOK, SamplesOK
<1>4. Ends(<<>>) = {}
  BY DEF Ends
<1> QED BY <1>3, <1>4 DEF Ended

-----------------------------------------------------------------------------
(* A driver of one kind k: values and EV_SYN take turns, and of the last   *)
(* value taken out of the ring the EV_SYN may be still to come.            *)
TurnsOK(s, k, kinds, q) ==
  \E o \in {0, 1} :
    /\ 2 * Len(q) + (IF k \in kinds THEN 1 ELSE 0) = Len(s) + o
    /\ s # <<>> => /\ s[1].type = "syn" <=> o = 1
                   /\ s[Len(s)].type = "syn" <=> k \notin kinds
    /\ \A i \in 1 .. Len(s) - 1 : s[i].type = "syn" <=> s[i + 1].type # "syn"

(* The device reports an event: a value if the last one was an EV_SYN.     *)
LEMMA TurnReported ==
  ASSUME NEW s \in Seq(InputEvents), NEW e \in InputEvents, NEW k, NEW kinds, NEW others,
         k \in others <=> k \notin kinds, e.type = "syn" <=> k \in kinds,
         NEW q \in Seq(Nat), NEW r \in Seq(Nat),
         Len(r) = IF k \in kinds THEN Len(q) + 1 ELSE Len(q),
         TurnsOK(s, k, kinds, q)
  PROVE  TurnsOK(Append(s, e), k, others, r)
<1> DEFINE t == Append(s, e)
           N == Len(s)
<1>1. PICK o \in {0, 1} :
        /\ 2 * Len(q) + (IF k \in kinds THEN 1 ELSE 0) = N + o
        /\ s # <<>> => (s[1].type = "syn" <=> o = 1) /\ (s[N].type = "syn" <=> k \notin kinds)
        /\ \A i \in 1 .. N - 1 : s[i].type = "syn" <=> s[i + 1].type # "syn"
  BY DEF TurnsOK
<1>2. /\ N \in Nat /\ Len(q) \in Nat /\ (s = <<>> \/ N # 0)
      /\ t # <<>> /\ Len(t) = N + 1 /\ t[N + 1] = e /\ \A i \in 1 .. N : t[i] = s[i]
  BY LenProperties, AppendProperties, EmptySeq
<1>3. s = <<>> => N = 0
  BY EmptySeq
<1> HIDE DEF t, N
<1>4. 2 * Len(r) + (IF k \in others THEN 1 ELSE 0) = N + 1 + o
  <2>1. CASE k \in kinds
    <3>1. k \notin others /\ Len(r) = Len(q) + 1 /\ 2 * Len(q) + 1 = N + o
      BY <1>1, <2>1
    <3> QED BY <1>2, <3>1
  <2>2. CASE k \notin kinds
    <3>1. k \in others /\ Len(r) = Len(q) /\ 2 * Len(q) + 0 = N + o
      BY <1>1, <2>2
    <3> QED BY <1>2, <3>1
  <2> QED BY <2>1, <2>2
<1>5. t[1].type = "syn" <=> o = 1
  <2>1. CASE s = <<>>
    <3>1. N = 0 /\ t[1] = e
      BY <1>2, <1>3, <2>1
    <3>2. o = 1 <=> k \in kinds
      BY <1>1, <1>2, <3>1
    <3> QED BY <3>1, <3>2
  <2>2. CASE s # <<>>
    <3>1. N # 0 /\ 1 \in 1 .. N
      BY <1>2, <2>2
    <3> QED BY <1>1, <1>2, <2>2, <3>1
  <2> QED BY <2>1, <2>2
<1>6. t[Len(t)].type = "syn" <=> k \notin others
  BY <1>2
<1>7. ASSUME NEW i \in 1 .. Len(t) - 1 PROVE t[i].type = "syn" <=> t[i + 1].type # "syn"
  <2>1. i \in 1 .. N /\ N # 0 /\ t[i] = s[i] /\ s # <<>>
    BY <1>2, <1>3
  <2>2. CASE i = N
    BY <1>1, <1>2, <2>1, <2>2
  <2>3. CASE i # N
    <3>1. i \in 1 .. N - 1 /\ i + 1 \in 1 .. N
      BY <1>2, <2>1, <2>3
    <3> QED BY <1>1, <1>2, <2>1, <3>1
  <2> QED BY <2>2, <2>3
<1> QED BY <1>2, <1>4, <1>5, <1>6, <1>7 DEF TurnsOK, t

(* An event is taken out of the ring: EV_SYN for the oldest sample due.    *)
LEMMA TurnTaken ==
  ASSUME NEW s \in Seq(InputEvents), s # <<>>, NEW k, NEW kinds,
         NEW q \in Seq(Nat), TurnsOK(s, k, kinds, q)
  PROVE  TurnsOK(Tail(s), k, kinds, IF s[1].type = "syn" THEN SubSeq(q, 2, Len(q)) ELSE q)
<1> DEFINE t == Tail(s)
           N == Len(s)
           r == IF s[1].type = "syn" THEN SubSeq(q, 2, Len(q)) ELSE q
<1>1. PICK o \in {0, 1} :
        /\ 2 * Len(q) + (IF k \in kinds THEN 1 ELSE 0) = N + o
        /\ (s[1].type = "syn" <=> o = 1) /\ (s[N].type = "syn" <=> k \notin kinds)
        /\ \A i \in 1 .. N - 1 : s[i].type = "syn" <=> s[i + 1].type # "syn"
  BY DEF TurnsOK
<1>2. N \in Nat \ {0} /\ Len(q) \in Nat
  BY LenProperties, EmptySeq
<1>3. Len(t) = N - 1 /\ \A i \in 1 .. N - 1 : t[i] = s[i + 1]
  <2>1. Len(t) = N - 1 /\ \A i \in 1 .. Len(t) : t[i] = s[i + 1]
    BY HeadTailProperties
  <2> QED BY <2>1
<1>4. Len(r) = Len(q) - o
  <2>1. CASE o = 1
    <3>1. Len(q) # 0
      BY <1>1, <1>2, <2>1
    <3>2. q # <<>>
      BY <3>1, EmptySeq
    <3>3. SubSeq(q, 2, Len(q)) = Tail(q) /\ Len(Tail(q)) = Len(q) - 1
      BY <3>2, TailIsSubSeq, HeadTailProperties
    <3> QED BY <1>1, <2>1, <3>3
  <2>2. CASE o = 0
    BY <1>1, <1>2, <2>2
  <2> QED BY <2>1, <2>2
<1>5. t # <<>> => N - 1 # 0
  <2>1. t \in Seq(InputEvents)
    BY HeadTailProperties
  <2>2. t # <<>> => Len(t) # 0
    BY <2>1, EmptySeq
  <2> QED BY <1>3, <2>2
<1> HIDE DEF t, N, r
<1>6. 2 * Len(r) + (IF k \in kinds THEN 1 ELSE 0) = N - 1 + (1 - o)
  BY <1>1, <1>2, <1>4
<1>7. ASSUME t # <<>>
      PROVE  (t[1].type = "syn" <=> 1 - o = 1) /\ (t[N - 1].type = "syn" <=> k \notin kinds)
  <2>1. 1 \in 1 .. N - 1 /\ N - 1 \in 1 .. N - 1 /\ (N - 1) + 1 = N
    BY <1>2, <1>5, <1>7
  <2>2. t[1] = s[2] /\ t[N - 1] = s[N] /\ (s[1].type = "syn" <=> s[2].type # "syn")
    BY <1>1, <1>3, <2>1
  <2> QED BY <1>1, <2>2
<1>8. ASSUME NEW i \in 1 .. N - 1 - 1 PROVE t[i].type = "syn" <=> t[i + 1].type # "syn"
  <2>1. i \in 1 .. N - 1 /\ i + 1 \in 1 .. N - 1
    BY <1>2
  <2> QED BY <1>1, <1>3, <2>1
<1>9. 1 - o \in {0, 1}
  OBVIOUS
<1> HIDE DEF r
<1>10. TurnsOK(t, k, kinds, r)
  BY <1>3, <1>6, <1>7, <1>8, <1>9 DEF TurnsOK
<1> QED BY <1>10 DEF t, r

(* When nothing is on its way, nothing is due.                             *)
LEMMA NoTurn ==
  ASSUME NEW k, NEW kinds, NEW q \in Seq(Nat), TurnsOK(<<>>, k, kinds, q)
  PROVE  q = <<>>
<1>1. Len(q) \in Nat /\ (q = <<>> \/ Len(q) # 0)
  BY EmptySeq, LenProperties
<1>2. PICK o \in {0, 1} : 2 * Len(q) + (IF k \in kinds THEN 1 ELSE 0) = o
  BY DEF TurnsOK
<1> QED BY <1>1, <1>2

-----------------------------------------------------------------------------
(* What is on its way to a driver, and what is due of its kind k.          *)
KindOK(d, k) ==
  IF d \in Compass
  THEN StreamOK(Stream(d), k, mask, latest[k], marked, current[k], due[k], reported[d])
  ELSE TurnsOK(Stream(d), k, marked, due[k])

(* A device reports the kinds of its driver only.                          *)
OwnKinds(d) ==
  \A i \in 1 .. Len(Stream(d)) : Stream(d)[i].type = "abs" => Stream(d)[i].kind \in Kinds[d]

(* Initial values are taken over by the drivers of one kind.               *)
DataOK ==
  /\ current \in [AllKinds -> Nat] /\ latest \in [AllKinds -> Nat]
  /\ due \in [AllKinds -> Seq(Nat)]
  /\ cpc = "value" => call \in Drivers \ Compass

StreamsOK == \A d \in Drivers : OwnKinds(d) /\ \A k \in Kinds[d] : KindOK(d, k)

DueOK == DataOK /\ StreamsOK

(* Every kind belongs to one driver, which has no other unless it is a     *)
(* compass.                                                                *)
LEMMA KindsApart ==
  /\ \A d \in Drivers : \A k \in Kinds[d] : k \in AllKinds /\ DriverOf(k) = d
  /\ \A k \in AllKinds : k \in Kinds[DriverOf(k)] /\ DriverOf(k) \in Drivers
  /\ \A d \in Drivers \ Compass : \A j, k \in Kinds[d] : j = k
<1>1. ASSUME NEW d \in Drivers, NEW k \in Kinds[d] PROVE k \in AllKinds /\ DriverOf(k) = d
  <2>1. \A e \in Drivers : k \in Kinds[e] => e = d
    BY <1>1, SensorsAssumption, Zenon DEF SensorsAssumption
  <2>2. k \in AllKinds
    BY <1>1 DEF AllKinds
  <2>3. DriverOf(k) \in Drivers /\ k \in Kinds[DriverOf(k)]
    BY <1>1, Zenon DEF DriverOf
  <2> QED BY <2>1, <2>2, <2>3
<1>2. ASSUME NEW k \in AllKinds PROVE k \in Kinds[DriverOf(k)] /\ DriverOf(k) \in Drivers
  <2>1. \E d \in Drivers : k \in Kinds[d]
    BY <1>2 DEF AllKinds
  <2> QED BY <2>1, Zenon DEF DriverOf
<1>3. ASSUME NEW d \in Drivers \ Compass, NEW j \in Kinds[d], NEW k \in Kinds[d] PROVE j = k
  <2>1. \E i \in Kinds[d] : Kinds[d] = {i}
    BY SensorsAssumption DEF SensorsAssumption
  <2> QED BY <2>1
<1> QED BY <1>1, <1>2, <1>3, Zenon

(* The events of a stream.                                                 *)
LEMMA StreamTypes ==
  ASSUME IInv, NEW d \in Drivers
  PROVE  /\ Contents(ring[d]) \in Seq(InputEvents) /\ Len(Contents(ring[d])) = Available(ring[d])
         /\ device[d] \in Seq(InputEvents) /\ Stream(d) \in Seq(InputEvents)
         /\ Size[d] \in Nat \ {0} /\ ring[d] \in Ring(Size[d], InputEvents) /\ RingOK(ring[d])
<1>1. Size[d] \in Nat \ {0} /\ ring[d] \in Ring(Size[d], InputEvents) /\ RingOK(ring[d])
  BY SensorsAssumption DEF SensorsAssumption, IInv, RingsOK
<1>2. Contents(ring[d]) \in Seq(InputEvents) /\ Len(Contents(ring[d])) = Available(ring[d])
  BY <1>1, ContentsAreEvents
<1>3. device[d] \in Seq(InputEvents)
  BY DEF IInv, KernelOK
<1> QED BY <1>1, <1>2, <1>3, ConcatProperties DEF Stream

(* A driver and a kind that a step does not concern.                       *)
LEMMA KindStays ==
  ASSUME NEW d \in Drivers, NEW k \in Kinds[d], KindOK(d, k),
         Stream(d)' = Stream(d), k \in mask' <=> k \in mask, k \in marked' <=> k \in marked,
         d \in Compass => latest'[k] = latest[k],
         current'[k] = current[k], due'[k] = due[k], reported'[d] = reported[d]
  PROVE  KindOK(d, k)'
<1>1. CASE d \in Compass
  <2>1. StreamOK(Stream(d), k, mask, latest[k], marked, current[k], due[k], reported[d])
    BY <1>1 DEF KindOK
  <2>2. StreamOK(Stream(d), k, mask', latest[k], marked', current[k], due[k], reported[d])
    BY <2>1, StreamStays
  <2> QED BY <1>1, <2>2 DEF KindOK
<1>2. CASE d \notin Compass
  <2>1. TurnsOK(Stream(d), k, marked, due[k])
    BY <1>2 DEF KindOK
  <2>2. TurnsOK(Stream(d), k, marked', due[k])
    BY <2>1, Zenon DEF TurnsOK
  <2> QED BY <1>2, <2>2 DEF KindOK
<1> QED BY <1>1, <1>2

(* A driver all of whose kinds a step does not concern.                    *)
LEMMA OwnKindsStay ==
  ASSUME NEW d \in Drivers, OwnKinds(d), Stream(d)' = Stream(d)
  PROVE  OwnKinds(d)'
BY DEF OwnKinds

(* Init: nothing is on its way.                                            *)
LEMMA InitDueOK == Init => DueOK
<1> SUFFICES ASSUME Init PROVE DueOK
  OBVIOUS
<1>1. DataOK
  <2>1. <<>> \in Seq(Nat)
    BY EmptySeq
  <2> QED BY <2>1 DEF Init, DataOK
<1>2. ASSUME NEW d \in Drivers PROVE Stream(d) = <<>>
  <2>1. IInv
    BY InitIInv
  <2>2. Size[d] \in Nat \ {0} /\ Syn \in InputEvents /\ ring[d] = NewRing(Size[d], Syn)
    BY SensorsAssumption, EventTypes DEF Init, SensorsAssumption
  <2>3. Available(ring[d]) = 0
    BY <2>2, NewRingOK
  <2>4. Contents(ring[d]) = <<>>
    BY <2>1, <2>3, StreamTypes, EmptySeq
  <2>5. device[d] = <<>>
    BY DEF Init
  <2> QED BY <2>1, <2>4, <2>5, StreamTypes, ConcatEmptySeq DEF Stream
<1>3. ASSUME NEW d \in Drivers PROVE OwnKinds(d)
  BY <1>2, EmptySeq DEF OwnKinds
<1>4. ASSUME NEW d \in Drivers, NEW k \in Kinds[d] PROVE KindOK(d, k)
  <2>1. k \in AllKinds /\ mask = {} /\ marked = {} /\ due[k] = <<>>
    BY KindsApart DEF Init
  <2>2. Len(<<>>) = 0
    BY EmptySeq
  <2>3. CASE d \in Compass
    <3>1. Places(<<>>, k, {}) = {}
      BY <2>2 DEF Places
    <3>2. \A i \in 1 .. Len(<<>>) : FALSE
      BY <2>2
    <3>3. SamplesOK(Places(<<>>, k, {}), Ends(<<>>), Values(<<>>, k, {}, latest[k]), k, {},
                    current[k], <<>>, reported[d])
      BY <3>1, <3>2, Zenon DEF SamplesOK
    <3> QED BY <1>2, <2>1, <2>3, <3>3 DEF KindOK, StreamOK
  <2>4. CASE d \notin Compass
    <3>1. TurnsOK(<<>>, k, {}, <<>>)
      <4>1. \A i \in 1 .. Len(<<>>) - 1 : FALSE
        BY <2>2
      <4>2. 2 * Len(<<>>) + (IF k \in {} THEN 1 ELSE 0) = Len(<<>>) + 0
        BY <2>2
      <4> QED BY <4>1, <4>2 DEF TurnsOK
    <3> QED BY <1>2, <2>1, <2>4, <3>1 DEF KindOK
  <2> QED BY <2>3, <2>4
<1> QED BY <1>1, <1>3, <1>4 DEF DueOK, StreamsOK

(* Steps that leave the streams and what is due alone.                     *)
LEMMA DueStays ==
  ASSUME IInv, DueOK, UNCHANGED <<device, reported, current, marked, ring, mask, due>>,
         \A d \in Compass : \A k \in Kinds[d] : latest'[k] = latest[k],
         latest' \in [AllKinds -> Nat],
         cpc' = "value" => call' \in Drivers \ Compass
  PROVE  DueOK'
<1>1. DataOK'
  BY DEF DueOK, DataOK
<1>2. ASSUME NEW d \in Drivers PROVE Stream(d)' = Stream(d)
  BY DEF Stream
<1>3. ASSUME NEW d \in Drivers PROVE OwnKinds(d)'
  BY <1>2, OwnKindsStay DEF DueOK, StreamsOK
<1>4. ASSUME NEW d \in Drivers, NEW k \in Kinds[d] PROVE KindOK(d, k)'
  BY <1>2, KindStays DEF DueOK, StreamsOK
<1> QED BY <1>1, <1>3, <1>4 DEF DueOK, StreamsOK

(* The activating thread.                                                  *)
LEMMA ClientKeepsDue ==
  ASSUME IInv, DueOK,
         \/ \E k \in AllKinds, on \in BOOLEAN :
              ActivateAgain(k, on) \/ Activate(k, on) \/ ActivateFails(k, on)
         \/ InitialValue \/ WakeUp
  PROVE  DueOK'
<1>1. CASE \E k \in AllKinds, on \in BOOLEAN :
             ActivateAgain(k, on) \/ Activate(k, on) \/ ActivateFails(k, on)
  <2> PICK k \in AllKinds, on \in BOOLEAN :
        ActivateAgain(k, on) \/ Activate(k, on) \/ ActivateFails(k, on)
    BY <1>1
  <2>1. UNCHANGED <<kernel, ring, mask, latest, due>>
    BY DEF ActivateAgain, Activate, ActivateFails
  <2>2. cpc' = "value" => call' \in Drivers \ Compass
    <3>1. CASE ActivateAgain(k, on)
      BY <3>1 DEF ActivateAgain
    <3>2. CASE Activate(k, on)
      BY <3>2, KindsApart DEF Activate
    <3>3. CASE ActivateFails(k, on)
      BY <3>3 DEF ActivateFails, CallBegins
    <3> QED BY <3>1, <3>2, <3>3
  <2> QED BY <2>1, <2>2, DueStays DEF kernel, DueOK, DataOK
<1>2. CASE InitialValue
  <2>1. call \in Drivers \ Compass
    BY <1>2 DEF InitialValue, DueOK, DataOK
  <2>2. \/ latest' = [k \in AllKinds |-> IF k \in Kinds[call] THEN current[k] ELSE latest[k]]
        \/ latest' = latest
    BY <1>2 DEF InitialValue
  <2>3. latest' \in [AllKinds -> Nat]
    BY <2>2 DEF DueOK, DataOK
  <2>4. \A d \in Compass : \A k \in Kinds[d] : latest'[k] = latest[k]
    <3> SUFFICES ASSUME NEW d \in Compass, NEW k \in Kinds[d] PROVE latest'[k] = latest[k]
      OBVIOUS
    <3>1. d \in Drivers /\ k \in AllKinds /\ k \notin Kinds[call]
      BY <2>1, SensorsAssumption, KindsApart DEF SensorsAssumption
    <3> QED BY <2>2, <3>1
  <2> QED BY <1>2, <2>3, <2>4, DueStays DEF InitialValue, kernel
<1>3. CASE WakeUp
  BY <1>3, DueStays DEF WakeUp, kernel, DueOK, DataOK
<1> QED BY <1>1, <1>2, <1>3

(* The polling thread, when it reads no event from a device or a ring.     *)
LEMMA LoopKeepsDue ==
  ASSUME IInv, DueOK,
         \/ \E count \in Counts : PollCall(count)
         \/ Scan \/ ArrayFull \/ ReadInitial \/ ReadFails \/ Handled \/ Poll \/ PollInterrupted
  PROVE  DueOK'
<1>1. UNCHANGED <<kernel, ring, mask, latest, due, client>>
  BY DEF PollCall, Scan, ArrayFull, ReadInitial, ReadFails, Handled, Poll, PollInterrupted
<1> QED BY <1>1, DueStays DEF kernel, client, DueOK, DataOK

(* fill() moves events from the device to the ring.                        *)
LEMMA ReadDeviceKeepsDue ==
  ASSUME IInv, DueOK, ReadDevice
  PROVE  DueOK'
<1>1. This \in Drivers
  BY ThisIsDriver DEF ReadDevice
<1> DEFINE d == This
           events == SubSeq(device[d], 1, Takes)
<1>2. /\ device[d] \in Seq(InputEvents) /\ Contents(ring[d]) \in Seq(InputEvents)
      /\ Size[d] \in Nat \ {0} /\ ring[d] \in Ring(Size[d], InputEvents) /\ RingOK(ring[d])
  BY <1>1, StreamTypes
<1>3. Takes \in 0 .. Len(device[d]) /\ Takes <= ring[d].free
  <2>1. ring[d].free \in 0 .. Size[d] /\ Len(device[d]) \in Nat
    BY <1>2, LenProperties DEF Ring, RingOK
  <2> QED BY <2>1 DEF Takes
<1>4. events \in Seq(InputEvents) /\ Len(events) = Takes
  <2>1. \A i \in 1 .. Takes : device[d][i] \in InputEvents
    BY <1>2, <1>3, ElementOfSeq, LenProperties
  <2>2. /\ events \in Seq(InputEvents)
        /\ Len(events) = IF 1 <= Takes THEN Takes - 1 + 1 ELSE 0
    BY <1>3, <2>1, SubSeqProperties
  <2> QED BY <1>3, <2>2
<1>5. Contents(Fill(ring[d], events)) = Contents(ring[d]) \o events
  BY <1>2, <1>3, <1>4, FillAppends
<1>6. ASSUME NEW e \in Drivers PROVE Stream(e)' = Stream(e)
  <2>1. /\ ring'[e] = IF e = d THEN Fill(ring[d], events) ELSE ring[e]
        /\ device'[e] = IF e = d THEN SubSeq(device[d], Takes + 1, Len(device[d])) ELSE device[e]
    BY <1>1 DEF ReadDevice, IInv, RingsOK, KernelOK
  <2> HIDE DEF events, d
  <2>2. CASE e = d
    <3>1. (Contents(ring[d]) \o SubSeq(device[d], 1, Takes))
            \o SubSeq(device[d], Takes + 1, Len(device[d])) = Contents(ring[d]) \o device[d]
      BY <1>2, <1>3, ConcatSplit
    <3> QED BY <1>5, <2>1, <2>2, <3>1 DEF Stream, events
  <2>3. CASE e # d
    BY <2>1, <2>3 DEF Stream
  <2> QED BY <2>2, <2>3
<1>7. UNCHANGED <<reported, current, marked, mask, latest, due, client>>
  BY DEF ReadDevice
<1>8. ASSUME NEW e \in Drivers PROVE OwnKinds(e)'
  BY <1>6, OwnKindsStay DEF DueOK, StreamsOK
<1>9. ASSUME NEW e \in Drivers, NEW k \in Kinds[e] PROVE KindOK(e, k)'
  BY <1>6, <1>7, KindStays DEF DueOK, StreamsOK
<1>10. DataOK'
  BY <1>7 DEF client, DueOK, DataOK
<1> QED BY <1>8, <1>9, <1>10 DEF DueOK, StreamsOK

(* A device reports a value or EV_SYN: it comes last in the stream.        *)
LEMMA ReportsLast ==
  ASSUME IInv, DueOK, NEW d \in Drivers, NEW e \in InputEvents,
         e.type = "abs" => e.kind \in Kinds[d],
         device' = [device EXCEPT ![d] = Append(@, e)], UNCHANGED ring
  PROVE  /\ Stream(d)' = Append(Stream(d), e) /\ OwnKinds(d)'
         /\ \A f \in Drivers : f # d => Stream(f)' = Stream(f)
<1>1. Stream(d)' = Append(Stream(d), e)
  <2>1. device'[d] = Append(device[d], e) /\ ring'[d] = ring[d]
    BY DEF IInv, KernelOK
  <2>2. Contents(ring[d]) \o Append(device[d], e) = Append(Contents(ring[d]) \o device[d], e)
    <3>1. PICK a \in Seq(InputEvents), b \in Seq(InputEvents) :
            a = Contents(ring[d]) /\ b = device[d]
      BY StreamTypes
    <3>2. a \o Append(b, e) = Append(a \o b, e)
      BY ConcatAppend
    <3> QED BY <3>1, <3>2
  <2> QED BY <2>1, <2>2 DEF Stream
<1>2. \A f \in Drivers : f # d => Stream(f)' = Stream(f)
  BY DEF Stream, IInv, KernelOK
<1>3. OwnKinds(d)'
  <2>1. PICK s \in Seq(InputEvents) : s = Stream(d)
    BY StreamTypes
  <2>2. \A i \in 1 .. Len(s) : s[i].type = "abs" => s[i].kind \in Kinds[d]
    BY <2>1 DEF DueOK, StreamsOK, OwnKinds
  <2>3. /\ Len(s) \in Nat /\ Len(Append(s, e)) = Len(s) + 1 /\ Append(s, e)[Len(s) + 1] = e
        /\ \A i \in 1 .. Len(s) : Append(s, e)[i] = s[i]
    BY LenProperties, AppendProperties
  <2>4. ASSUME NEW i \in 1 .. Len(Append(s, e)), Append(s, e)[i].type = "abs"
        PROVE  Append(s, e)[i].kind \in Kinds[d]
    <3>1. i \in 1 .. Len(s) \/ i = Len(s) + 1
      BY <2>3
    <3> QED BY <2>2, <2>3, <2>4, <3>1
  <2> QED BY <1>1, <2>1, <2>4 DEF OwnKinds
<1> QED BY <1>1, <1>2, <1>3

(* The device reports a value.                                             *)
LEMMA ReportValueKeepsDue ==
  ASSUME IInv, DueOK, NEW k \in AllKinds, ReportValue(k)
  PROVE  DueOK'
<1> DEFINE d == DriverOf(k)
<1>1. d \in Drivers /\ k \in Kinds[d]
  BY KindsApart
<1>2. PICK x \in Nat : x = reported'[d] /\ x = reported[d] + 1 /\ reported[d] \in Nat
  <2>1. reported[d] \in Nat /\ reported'[d] = reported[d] + 1
    BY <1>1 DEF ReportValue, IInv, KernelOK
  <2> QED BY <2>1
<1>3. /\ device' = [device EXCEPT ![d] = Append(@, Abs(k, x))]
      /\ reported' = [reported EXCEPT ![d] = @ + 1]
      /\ current' = [current EXCEPT ![k] = x] /\ marked' = marked \cup {k} /\ k \notin marked
      /\ UNCHANGED <<ring, mask, latest, due, client>>
  BY <1>2 DEF ReportValue
<1> HIDE DEF d
<1>4. /\ Stream(d)' = Append(Stream(d), Abs(k, x)) /\ OwnKinds(d)'
      /\ \A f \in Drivers : f # d => Stream(f)' = Stream(f)
  <2>1. Abs(k, x) \in InputEvents /\ Abs(k, x).kind \in Kinds[d]
    BY <1>1, EventTypes
  <2>2. device' = [device EXCEPT ![d] = Append(@, Abs(k, x))] /\ UNCHANGED ring
    BY <1>3
  <2> QED BY <1>1, <2>1, <2>2, ReportsLast
<1>5. ASSUME NEW e \in Drivers, NEW j \in Kinds[e] PROVE KindOK(e, j)'
  <2>1. KindOK(e, j) /\ j \in AllKinds
    BY <1>5, KindsApart DEF DueOK, StreamsOK
  <2>2. CASE e # d
    <3>1. j # k
      BY <1>1, <1>5, <2>2, KindsApart
    <3> QED BY <1>3, <1>4, <2>1, <2>2, <3>1, KindStays DEF IInv, KernelOK, DueOK, DataOK
  <2>3. CASE e = d /\ d \in Compass
    <3>1. StreamOK(Stream(d), j, mask, latest[j], marked, current[j], due[j], reported[d])
      BY <2>1, <2>3 DEF KindOK
    <3>2. Stream(d) \in Seq(InputEvents) /\ latest[j] \in Nat
      BY <1>1, <2>1, StreamTypes DEF DueOK, DataOK
    <3>3. CASE j = k
      <4>1. StreamOK(Append(Stream(d), Abs(k, x)), k, mask, latest[k], marked \cup {k},
                     x, due[k], x)
        BY <1>2, <1>3, <3>1, <3>2, <3>3, ReportsIt
      <4>2. current'[k] = x
        BY <1>3 DEF DueOK, DataOK
      <4> QED BY <1>2, <1>3, <1>4, <2>3, <3>3, <4>1, <4>2 DEF KindOK
    <3>4. CASE j # k
      <4>1. StreamOK(Append(Stream(d), Abs(k, x)), j, mask, latest[j], marked \cup {k},
                     current[j], due[j], x)
        BY <1>2, <2>1, <3>1, <3>2, <3>4, ReportsAnother
      <4>2. current'[j] = current[j]
        BY <1>3, <2>1, <3>4 DEF DueOK, DataOK
      <4> QED BY <1>2, <1>3, <1>4, <2>3, <4>1, <4>2 DEF KindOK
    <3> QED BY <3>3, <3>4
  <2>4. CASE e = d /\ d \notin Compass
    <3>1. j = k
      BY <1>1, <1>5, <2>4, KindsApart
    <3>2. TurnsOK(Stream(d), k, marked, due[k])
      BY <2>1, <2>4, <3>1 DEF KindOK
    <3>3. Stream(d) \in Seq(InputEvents) /\ due[k] \in Seq(Nat)
      BY <1>1, StreamTypes DEF DueOK, DataOK
    <3>4. /\ Abs(k, x) \in InputEvents
          /\ Abs(k, x).type = "syn" <=> k \in marked
          /\ k \in marked \cup {k} <=> k \notin marked
          /\ Len(due[k]) = IF k \in marked THEN Len(due[k]) + 1 ELSE Len(due[k])
      BY <1>3, EventTypes
    <3>5. TurnsOK(Append(Stream(d), Abs(k, x)), k, marked \cup {k}, due[k])
      BY <3>2, <3>3, <3>4, TurnReported
    <3> QED BY <1>3, <1>4, <2>4, <3>1, <3>5 DEF KindOK
  <2> QED BY <2>2, <2>3, <2>4
<1>6. ASSUME NEW e \in Drivers PROVE OwnKinds(e)'
  BY <1>4, OwnKindsStay DEF DueOK, StreamsOK
<1>7. DataOK'
  BY <1>3 DEF client, DueOK, DataOK
<1> QED BY <1>5, <1>6, <1>7 DEF DueOK, StreamsOK

(* The device reports EV_SYN.                                              *)
LEMMA ReportSynKeepsDue ==
  ASSUME IInv, DueOK, NEW d \in Drivers, ReportSyn(d)
  PROVE  DueOK'
<1>1. reported[d] \in Nat /\ reported'[d] \in Nat /\ reported[d] <= reported'[d]
  BY DEF ReportSyn, IInv, KernelOK
<1>2. /\ device' = [device EXCEPT ![d] = Append(@, Syn)]
      /\ reported' = [reported EXCEPT ![d] = @ + 1]
      /\ marked' = marked \ Kinds[d]
      /\ due' = [k \in AllKinds |->
                   IF k \in marked \cap Kinds[d] THEN Append(due[k], current[k]) ELSE due[k]]
      /\ UNCHANGED <<current, ring, mask, latest, client>>
  BY DEF ReportSyn
<1>3. /\ Stream(d)' = Append(Stream(d), Syn) /\ OwnKinds(d)'
      /\ \A f \in Drivers : f # d => Stream(f)' = Stream(f)
  BY <1>2, EventTypes, ReportsLast
<1>4. ASSUME NEW e \in Drivers, NEW j \in Kinds[e] PROVE KindOK(e, j)'
  <2>1. KindOK(e, j) /\ j \in AllKinds
    BY <1>4, KindsApart DEF DueOK, StreamsOK
  <2>2. CASE e # d
    <3>1. j \notin Kinds[d]
      BY <1>4, <2>2, KindsApart
    <3>2. reported'[e] = reported[e] /\ due'[j] = due[j] /\ (j \in marked' <=> j \in marked)
      BY <1>2, <2>1, <2>2, <3>1 DEF IInv, KernelOK
    <3> QED BY <1>2, <1>3, <2>1, <2>2, <3>2, KindStays
  <2>3. CASE e = d
    <3>1. /\ Stream(d) \in Seq(InputEvents) /\ latest[j] \in Nat /\ current[j] \in Nat
          /\ due[j] \in Seq(Nat) /\ j \notin marked'
      BY <1>2, <1>4, <2>1, <2>3, StreamTypes DEF DueOK, DataOK
    <3>2. due'[j] = IF j \in marked THEN Append(due[j], current[j]) ELSE due[j]
      BY <1>2, <1>4, <2>1, <2>3
    <3>3. CASE d \in Compass
      <4>1. StreamOK(Stream(d), j, mask, latest[j], marked, current[j], due[j], reported[d])
        BY <2>1, <2>3, <3>3 DEF KindOK
      <4>2. StreamOK(Append(Stream(d), Syn), j, mask, latest[j], marked', current[j],
                     IF j \in marked THEN Append(due[j], current[j]) ELSE due[j], reported'[d])
        BY <1>1, <2>1, <3>1, <4>1, ReportsEnd
      <4> QED BY <1>2, <1>3, <2>3, <3>2, <3>3, <4>2 DEF KindOK
    <3>4. CASE d \notin Compass
      <4>1. TurnsOK(Stream(d), j, marked, due[j])
        BY <2>1, <2>3, <3>4 DEF KindOK
      <4>2. j \in marked
        BY <1>4, <2>3, <3>4, KindsApart DEF ReportSyn
      <4>3. /\ due'[j] \in Seq(Nat)
            /\ Len(due'[j]) = IF j \in marked THEN Len(due[j]) + 1 ELSE Len(due[j])
        BY <3>1, <3>2, <4>2, AppendProperties
      <4>4. /\ Syn \in InputEvents
            /\ Syn.type = "syn" <=> j \in marked
            /\ j \in marked' <=> j \notin marked
        BY <3>1, <4>2, EventTypes
      <4>5. TurnsOK(Append(Stream(d), Syn), j, marked', due'[j])
        BY <3>1, <4>1, <4>3, <4>4, TurnReported
      <4> QED BY <1>3, <2>3, <3>4, <4>5 DEF KindOK
    <3> QED BY <3>3, <3>4
  <2> QED BY <2>2, <2>3
<1>5. ASSUME NEW e \in Drivers PROVE OwnKinds(e)'
  BY <1>3, OwnKindsStay DEF DueOK, StreamsOK
<1>6. DataOK'
  <2>1. \A k \in AllKinds : Append(due[k], current[k]) \in Seq(Nat)
    BY AppendProperties DEF DueOK, DataOK
  <2>2. due' \in [AllKinds -> Seq(Nat)]
    BY <1>2, <2>1 DEF DueOK, DataOK
  <2> QED BY <1>2, <2>2 DEF client, DueOK, DataOK
<1> QED BY <1>4, <1>5, <1>6 DEF DueOK, StreamsOK

(* readEvents looks at the oldest event, and next() takes it out of the    *)
(* stream.                                                                 *)
LEMMA TakesFirst ==
  ASSUME IInv, DueOK, NEW d \in Drivers, d = This, Available(ring[d]) > 0
  PROVE  /\ Stream(d) \in Seq(InputEvents) /\ Stream(d) # <<>> /\ Stream(d)[1] = Event
         /\ Event \in InputEvents /\ (Event.type = "abs" => Event.kind \in Kinds[d])
         /\ (Consume /\ UNCHANGED device) => Stream(d)' = Tail(Stream(d))
         /\ \A e \in Drivers :
              ((Consume \/ UNCHANGED ring) /\ UNCHANGED device /\ e # d) => Stream(e)' = Stream(e)
         /\ (UNCHANGED <<ring, device>>) => Stream(d)' = Stream(d)
<1>1. /\ Contents(ring[d]) \in Seq(InputEvents) /\ Len(Contents(ring[d])) = Available(ring[d])
      /\ device[d] \in Seq(InputEvents) /\ Stream(d) \in Seq(InputEvents)
      /\ Size[d] \in Nat \ {0} /\ ring[d] \in Ring(Size[d], InputEvents) /\ RingOK(ring[d])
  BY StreamTypes
<1>2. Contents(ring[d]) # <<>>
  BY <1>1, EmptySeq
<1>3. /\ Front(ring[d]) = Head(Contents(ring[d]))
      /\ Contents(Advance(ring[d])) = Tail(Contents(ring[d]))
  BY <1>1, AdvanceIsTail
<1>4. /\ Stream(d) # <<>> /\ Head(Stream(d)) = Head(Contents(ring[d]))
      /\ Tail(Stream(d)) = Tail(Contents(ring[d])) \o device[d]
  <2>1. PICK a \in Seq(InputEvents), b \in Seq(InputEvents) :
          a = Contents(ring[d]) /\ b = device[d]
    BY <1>1
  <2>2. a # <<>>
    BY <1>2, <2>1
  <2>3. a \o b # <<>> /\ Head(a \o b) = Head(a) /\ Tail(a \o b) = Tail(a) \o b
    BY <2>2, ConcatTail, Zenon
  <2> QED BY <2>1, <2>3 DEF Stream
<1>5. Stream(d)[1] = Event
  <2>1. PICK s \in Seq(InputEvents) : s = Stream(d)
    BY <1>1
  <2>2. Head(s) = s[1]
    BY <1>4, <2>1
  <2> QED BY <1>3, <1>4, <2>1, <2>2 DEF Event
<1>6. Event \in InputEvents /\ (Event.type = "abs" => Event.kind \in Kinds[d])
  <2>1. PICK s \in Seq(InputEvents) : s = Stream(d)
    BY <1>1
  <2>2. Len(s) \in Nat \ {0} /\ 1 \in 1 .. Len(s)
    BY <1>4, <2>1, EmptySeq
  <2>3. s[1] \in InputEvents
    BY <2>2, ElementOfSeq
  <2> QED BY <1>5, <2>1, <2>2, <2>3 DEF DueOK, StreamsOK, OwnKinds
<1>7. ASSUME Consume, UNCHANGED device PROVE Stream(d)' = Tail(Stream(d))
  <2>1. ring'[d] = Advance(ring[d])
    BY <1>7 DEF Consume, IInv, RingsOK
  <2> QED BY <1>3, <1>4, <1>7, <2>1 DEF Stream
<1>8. ASSUME NEW e \in Drivers, Consume \/ UNCHANGED ring, UNCHANGED device, e # d
      PROVE  Stream(e)' = Stream(e)
  <2>1. ring'[e] = ring[e]
    BY <1>8 DEF Consume, IInv, RingsOK
  <2> QED BY <1>8, <2>1 DEF Stream
<1>9. ASSUME UNCHANGED <<ring, device>> PROVE Stream(d)' = Stream(d)
  BY <1>9 DEF Stream
<1> QED BY <1>1, <1>4, <1>5, <1>6, <1>7, <1>8, <1>9

(* What is left of a stream are still the driver's kinds.                  *)
LEMMA OwnKindsTail ==
  ASSUME IInv, NEW d \in Drivers, OwnKinds(d), Stream(d) # <<>>, Stream(d)' = Tail(Stream(d))
  PROVE  OwnKinds(d)'
<1>1. PICK s \in Seq(InputEvents) : s = Stream(d)
  BY StreamTypes
<1>2. \A i \in 1 .. Len(s) : s[i].type = "abs" => s[i].kind \in Kinds[d]
  BY <1>1 DEF OwnKinds
<1>3. Len(s) \in Nat /\ Len(Tail(s)) = Len(s) - 1 /\ \A i \in 1 .. Len(s) - 1 : Tail(s)[i] = s[i + 1]
  BY <1>1, TailFacts
<1>4. ASSUME NEW i \in 1 .. Len(Tail(s)), Tail(s)[i].type = "abs" PROVE Tail(s)[i].kind \in Kinds[d]
  <2>1. i \in 1 .. Len(s) - 1 /\ i + 1 \in 1 .. Len(s)
    BY <1>3
  <2> QED BY <1>2, <1>3, <1>4, <2>1
<1> QED BY <1>1, <1>4 DEF OwnKinds

(* readEvents takes a value; a compass collects it.                        *)
LEMMA HandleValueKeepsDue ==
  ASSUME IInv, DueOK, HandleValue
  PROVE  DueOK'
<1>1. PICK d \in Drivers : d = This
  BY ThisIsDriver DEF HandleValue
<1>2. PICK s \in Seq(InputEvents) : s = Stream(d)
  BY StreamTypes
<1>3. /\ Consume /\ Event.type = "abs" /\ Available(ring[d]) > 0
      /\ UNCHANGED <<device, reported, current, marked, due, client>>
      /\ latest' = [latest EXCEPT ![Event.kind] = Event.value]
      /\ mask' = IF d \in Compass THEN mask \cup {Event.kind} ELSE mask
  BY <1>1 DEF HandleValue, More, kernel
<1>4. /\ s # <<>> /\ s[1] = Event /\ Event \in InputEvents /\ Event.kind \in Kinds[d]
      /\ Stream(d)' = Tail(s) /\ \A e \in Drivers : e # d => Stream(e)' = Stream(e)
  BY <1>1, <1>2, <1>3, TakesFirst
<1>5. Event.kind \in AllKinds /\ Event.value \in Nat
  BY <1>3, <1>4, EventTypes
<1>6. latest' \in [AllKinds -> Nat]
      /\ \A j \in AllKinds : latest'[j] = IF Event.kind = j THEN Event.value ELSE latest[j]
  BY <1>3, <1>5 DEF DueOK, DataOK
<1>7. ASSUME NEW e \in Drivers, NEW j \in Kinds[e] PROVE KindOK(e, j)'
  <2>1. KindOK(e, j) /\ j \in AllKinds
    BY <1>7, KindsApart DEF DueOK, StreamsOK
  <2>2. CASE e # d
    <3>1. j # Event.kind
      BY <1>4, <1>7, <2>2, KindsApart
    <3>2. latest'[j] = latest[j] /\ (j \in mask' <=> j \in mask)
      BY <1>3, <1>6, <2>1, <3>1
    <3> QED BY <1>3, <1>4, <2>1, <2>2, <3>2, KindStays
  <2>3. CASE e = d /\ d \in Compass
    <3>1. StreamOK(s, j, mask, latest[j], marked, current[j], due[j], reported[d])
      BY <1>2, <2>1, <2>3 DEF KindOK
    <3>2. /\ latest[j] \in Nat /\ latest'[j] \in Nat /\ reported[d] \in Nat
          /\ latest'[j] = IF s[1].kind = j THEN s[1].value ELSE latest[j]
      BY <1>4, <1>6, <2>1 DEF DueOK, DataOK, IInv, KernelOK
    <3>3. StreamOK(Tail(s), j, mask \cup {s[1].kind}, latest'[j], marked, current[j],
                   due[j], reported[d])
      BY <1>3, <1>4, <2>1, <3>1, <3>2, Collects
    <3> QED BY <1>3, <1>4, <2>3, <3>3 DEF KindOK
  <2>4. CASE e = d /\ d \notin Compass
    <3>1. TurnsOK(s, j, marked, due[j]) /\ due[j] \in Seq(Nat)
      BY <1>2, <2>1, <2>4 DEF KindOK, DueOK, DataOK
    <3>2. TurnsOK(Tail(s), j, marked, IF s[1].type = "syn" THEN SubSeq(due[j], 2, Len(due[j]))
                                                           ELSE due[j])
      BY <1>4, <3>1, TurnTaken
    <3>3. s[1].type # "syn"
      BY <1>3, <1>4
    <3>4. TurnsOK(Tail(s), j, marked, due[j])
      BY <3>2, <3>3
    <3> QED BY <1>3, <1>4, <2>4, <3>4 DEF KindOK
  <2> QED BY <2>2, <2>3, <2>4
<1>8. ASSUME NEW e \in Drivers PROVE OwnKinds(e)'
  BY <1>2, <1>4, OwnKindsStay, OwnKindsTail DEF DueOK, StreamsOK
<1>9. DataOK'
  BY <1>3, <1>6 DEF client, DueOK, DataOK
<1> QED BY <1>7, <1>8, <1>9 DEF DueOK, StreamsOK

(* What a driver hands over is no longer due.                              *)
LEMMA DeliverTypes ==
  ASSUME DueOK, NEW k \in AllKinds, Deliver(k)
  PROVE  /\ due' \in [AllKinds -> Seq(Nat)] /\ due'[k] = SubSeq(due[k], 2, Len(due[k]))
         /\ \A j \in AllKinds : j # k => due'[j] = due[j]
<1>1. due \in [AllKinds -> Seq(Nat)] /\ due[k] \in Seq(Nat)
  BY DEF DueOK, DataOK
<1>2. SubSeq(due[k], 2, Len(due[k])) \in Seq(Nat)
  <2>1. Len(due[k]) \in Nat /\ \A i \in 1 .. Len(due[k]) : due[k][i] \in Nat
    BY <1>1, LenProperties, ElementOfSeq
  <2>2. \A i \in 2 .. Len(due[k]) : due[k][i] \in Nat
    BY <2>1
  <2> QED BY <2>1, <2>2, SubSeqProperties
<1>3. due' = [due EXCEPT ![k] = SubSeq(due[k], 2, Len(due[k]))]
  BY DEF Deliver
<1> QED BY <1>1, <1>2, <1>3

(* A driver of one kind takes EV_SYN.                                      *)
LEMMA HandleSynKeepsDue ==
  ASSUME IInv, DueOK, HandleSyn
  PROVE  DueOK'
<1>1. PICK d \in Drivers : d = This
  BY ThisIsDriver DEF HandleSyn
<1>2. PICK s \in Seq(InputEvents) : s = Stream(d)
  BY StreamTypes
<1>3. /\ Consume /\ Event.type = "syn" /\ Available(ring[d]) > 0 /\ d \notin Compass
      /\ UNCHANGED <<device, reported, current, marked, latest, mask, client>>
  BY <1>1 DEF HandleSyn, More, kernel
<1>4. /\ s # <<>> /\ s[1] = Event
      /\ Stream(d)' = Tail(s) /\ \A e \in Drivers : e # d => Stream(e)' = Stream(e)
  BY <1>1, <1>2, <1>3, TakesFirst
<1>5. PICK k \in Kinds[d] : Deliver(k)
  BY <1>1 DEF HandleSyn
<1>6. /\ due' \in [AllKinds -> Seq(Nat)] /\ due'[k] = SubSeq(due[k], 2, Len(due[k]))
      /\ \A j \in AllKinds : j # k => due'[j] = due[j]
  BY <1>5, KindsApart, DeliverTypes
<1>7. ASSUME NEW e \in Drivers, NEW j \in Kinds[e] PROVE KindOK(e, j)'
  <2>1. KindOK(e, j) /\ j \in AllKinds
    BY <1>7, KindsApart DEF DueOK, StreamsOK
  <2>2. CASE e # d
    <3>1. j # k
      BY <1>5, <1>7, <2>2, KindsApart
    <3> QED BY <1>3, <1>4, <1>6, <2>1, <2>2, <3>1, KindStays
  <2>3. CASE e = d
    <3>1. j = k
      BY <1>3, <1>5, <1>7, <2>3, KindsApart
    <3>2. TurnsOK(s, k, marked, due[k]) /\ due[k] \in Seq(Nat)
      BY <1>2, <1>3, <2>1, <2>3, <3>1 DEF KindOK, DueOK, DataOK
    <3>3. TurnsOK(Tail(s), k, marked, IF s[1].type = "syn" THEN SubSeq(due[k], 2, Len(due[k]))
                                                           ELSE due[k])
      BY <1>4, <3>2, TurnTaken
    <3>4. TurnsOK(Tail(s), k, marked, due'[k])
      BY <1>3, <1>4, <1>6, <3>3
    <3> QED BY <1>3, <1>4, <2>3, <3>1, <3>4 DEF KindOK
  <2> QED BY <2>2, <2>3
<1>8. ASSUME NEW e \in Drivers PROVE OwnKinds(e)'
  BY <1>2, <1>4, OwnKindsStay, OwnKindsTail DEF DueOK, StreamsOK
<1>9. DataOK'
  BY <1>3, <1>6 DEF client, DueOK, DataOK
<1> QED BY <1>7, <1>8, <1>9 DEF DueOK, StreamsOK

(* A compass hands over the oldest sample of the kind it deals with.       *)
LEMMA CompassHandsOver ==
  ASSUME IInv, DueOK, HandleCompassSyn
  PROVE  \E k \in mask \cap Kinds[This] :
           /\ mask' = mask \ {k} /\ Deliver(k)
           /\ StreamOK(Stream(This), k, mask', latest[k], marked, current[k],
                       SubSeq(due[k], 2, Len(due[k])), reported[This])
           /\ due[k] # <<>> /\ latest[k] = Head(due[k])
<1>1. PICK d \in Drivers : d = This
  BY ThisIsDriver DEF HandleCompassSyn
<1>2. PICK k \in mask \cap Kinds[d] : mask' = mask \ {k} /\ Deliver(k)
  BY <1>1 DEF HandleCompassSyn
<1>3. d \in Compass /\ Event.type = "syn" /\ Available(ring[d]) > 0
  BY <1>1 DEF HandleCompassSyn, More
<1>4. PICK s \in Seq(InputEvents) : s = Stream(d)
  BY StreamTypes
<1>5. s # <<>> /\ s[1].type = "syn"
  BY <1>1, <1>3, <1>4, TakesFirst
<1>6. k \in AllKinds /\ latest[k] \in Nat /\ due[k] \in Seq(Nat) /\ reported[d] \in Nat
  BY KindsApart DEF DueOK, DataOK, IInv, KernelOK
<1>7. StreamOK(s, k, mask, latest[k], marked, current[k], due[k], reported[d])
  BY <1>3, <1>4 DEF DueOK, StreamsOK, KindOK
<1>8. k \in mask
  OBVIOUS
<1>9. /\ StreamOK(s, k, mask \ {k}, latest[k], marked, current[k],
                  SubSeq(due[k], 2, Len(due[k])), reported[d])
      /\ due[k] # <<>> /\ latest[k] = Head(due[k])
  <2>1. PICK l \in Nat, q \in Seq(Nat), n \in Nat :
          l = latest[k] /\ q = due[k] /\ n = reported[d]
    BY <1>6
  <2>2. PICK m, kinds, c : m = mask /\ kinds = marked /\ c = current[k]
    OBVIOUS
  <2>3. StreamOK(s, k, m, l, kinds, c, q, n)
    BY <1>7, <2>1, <2>2
  <2>4. s # <<>> /\ s[1].type = "syn" /\ k \in AllKinds /\ k \in m
    BY <1>5, <1>6, <1>8, <2>2
  <2>5. /\ StreamOK(s, k, m \ {k}, l, kinds, c, SubSeq(q, 2, Len(q)), n)
        /\ q # <<>> /\ l = Head(q)
    BY <2>3, <2>4, HandsOver, Zenon
  <2> QED BY <2>1, <2>2, <2>5
<1> QED BY <1>1, <1>2, <1>4, <1>9

(* A compass deals with EV_SYN.                                            *)
LEMMA HandleCompassSynKeepsDue ==
  ASSUME IInv, DueOK, HandleCompassSyn
  PROVE  DueOK'
<1>1. PICK d \in Drivers : d = This
  BY ThisIsDriver DEF HandleCompassSyn
<1>2. PICK s \in Seq(InputEvents) : s = Stream(d)
  BY StreamTypes
<1>3. PICK k \in mask \cap Kinds[d] :
        /\ mask' = mask \ {k} /\ Deliver(k)
        /\ StreamOK(s, k, mask', latest[k], marked, current[k],
                    SubSeq(due[k], 2, Len(due[k])), reported[d])
  BY <1>1, <1>2, CompassHandsOver
<1>4. /\ d \in Compass /\ Event.type = "syn" /\ Available(ring[d]) > 0
      /\ UNCHANGED <<device, reported, current, marked, latest, client>>
      /\ (mask' \cap Kinds[d] = {} /\ Consume) \/ UNCHANGED ring
  BY <1>1 DEF HandleCompassSyn, More, SynDone, kernel
<1>5. /\ s # <<>> /\ s[1].type = "syn" /\ (Consume => Stream(d)' = Tail(s))
      /\ ring' = ring => Stream(d)' = s
      /\ \A e \in Drivers : e # d => Stream(e)' = Stream(e)
  BY <1>1, <1>2, <1>4, TakesFirst
<1>6. /\ due' \in [AllKinds -> Seq(Nat)] /\ due'[k] = SubSeq(due[k], 2, Len(due[k]))
      /\ \A j \in AllKinds : j # k => due'[j] = due[j]
  BY <1>3, KindsApart, DeliverTypes
<1>7. ASSUME NEW e \in Drivers, NEW j \in Kinds[e] PROVE KindOK(e, j)'
  <2>1. KindOK(e, j) /\ j \in AllKinds
    BY <1>7, KindsApart DEF DueOK, StreamsOK
  <2>2. CASE e # d
    <3>1. j # k
      BY <1>3, <1>7, <2>2, KindsApart
    <3>2. (j \in mask' <=> j \in mask) /\ due'[j] = due[j]
      BY <1>3, <1>6, <2>1, <3>1
    <3> QED BY <1>4, <1>5, <2>1, <2>2, <3>2, KindStays
  <2>3. CASE e = d
    <3>1. StreamOK(s, j, mask', latest[j], marked, current[j], due'[j], reported[d])
      <4>1. CASE j = k
        BY <1>3, <1>6, <4>1
      <4>2. CASE j # k
        <5>1. StreamOK(s, j, mask, latest[j], marked, current[j], due[j], reported[d])
          BY <1>2, <1>4, <2>1, <2>3 DEF KindOK
        <5>2. j \in mask' <=> j \in mask
          BY <1>3, <4>2
        <5>3. due'[j] = due[j]
          BY <1>6, <2>1, <4>2
        <5> QED BY <5>1, <5>2, <5>3, StreamStays
      <4> QED BY <4>1, <4>2
    <3>2. CASE mask' \cap Kinds[d] = {} /\ Consume
      <4>1. j \notin mask' /\ latest[j] \in Nat /\ reported[d] \in Nat
        BY <1>7, <2>1, <2>3, <3>2 DEF DueOK, DataOK, IInv, KernelOK
      <4>2. StreamOK(Tail(s), j, mask', latest[j], marked, current[j], due'[j], reported[d])
        BY <1>5, <2>1, <3>1, <4>1, PacketGoes
      <4> QED BY <1>4, <1>5, <2>3, <3>2, <4>2 DEF KindOK
    <3>3. CASE UNCHANGED ring
      BY <1>4, <1>5, <2>3, <3>1, <3>3 DEF KindOK
    <3> QED BY <1>4, <3>2, <3>3
  <2> QED BY <2>2, <2>3
<1>8. ASSUME NEW e \in Drivers PROVE OwnKinds(e)'
  <2>1. Stream(e)' = Stream(e) \/ (e = d /\ s # <<>> /\ Stream(e)' = Tail(Stream(e)))
    BY <1>2, <1>4, <1>5
  <2> QED BY <1>2, <2>1, OwnKindsStay, OwnKindsTail DEF DueOK, StreamsOK
<1>9. DataOK'
  BY <1>4, <1>6 DEF client, DueOK, DataOK
<1> QED BY <1>7, <1>8, <1>9 DEF DueOK, StreamsOK

(* Every step keeps what is due.                                           *)
LEMMA NextDueOK == IInv /\ DueOK /\ [Next]_vars => DueOK'
<1> SUFFICES ASSUME IInv, DueOK, [Next]_vars PROVE DueOK'
  OBVIOUS
<1>1. CASE UNCHANGED vars
  BY <1>1, DueStays DEF vars, kernel, client, DueOK, DataOK
<1>2. CASE Next
  BY <1>2, ReportValueKeepsDue, ReportSynKeepsDue, ClientKeepsDue, LoopKeepsDue,
     ReadDeviceKeepsDue, HandleValueKeepsDue, HandleSynKeepsDue, HandleCompassSynKeepsDue
     DEF Next, PollStep
<1> QED BY <1>1, <1>2

(* For any number of drivers, with rings of any size and whatever counts   *)
(* the framework polls with: what is due is what is on its way.            *)
THEOREM DueIsOnItsWay == Spec => [](IInv /\ DueOK)
<1>1. Init => IInv /\ DueOK
  BY InitIInv, InitDueOK
<1>2. IInv /\ DueOK /\ [Next]_vars => (IInv /\ DueOK)'
  BY NextIInv, NextDueOK
<1> QED BY <1>1, <1>2, PTL DEF Spec

(* When a driver has read everything, no reported sample is outstanding:   *)
(* a full ring, a full array and a packet cut in two lose nothing.         *)
THEOREM NothingLostCorrect == Spec => []NothingLost
<1>1. IInv /\ DueOK => NothingLost
  <2> SUFFICES ASSUME IInv, DueOK, NEW d \in Drivers, device[d] = <<>>, Available(ring[d]) = 0,
                      NEW k \in Kinds[d]
               PROVE  due[k] = <<>>
    BY DEF NothingLost
  <2>1. Contents(ring[d]) = <<>>
    BY StreamTypes, EmptySeq
  <2>2. Stream(d) = <<>>
    BY <2>1, StreamTypes, ConcatEmptySeq DEF Stream
  <2>3. KindOK(d, k) /\ due[k] \in Seq(Nat)
    BY KindsApart DEF DueOK, StreamsOK, DataOK
  <2> QED BY <2>2, <2>3, NothingOnItsWay, NoTurn DEF KindOK
<1> QED BY <1>1, DueIsOnItsWay, PTL

(* What a compass hands over, or drops, for a kind is the oldest sample of *)
(* that kind: none is skipped, repeated or mixed with a later one.         *)
THEOREM CompassInOrderCorrect == Spec => CompassInOrder
<1>1. ASSUME IInv, DueOK, [Next]_vars, NEW k \in AllKinds,
             DriverOf(k) \in Compass, HandleCompassSyn, k \in mask \ mask'
      PROVE  due[k] # <<>> /\ latest[k] = Head(due[k])
  <2>1. PICK j \in mask \cap Kinds[This] :
          mask' = mask \ {j} /\ due[j] # <<>> /\ latest[j] = Head(due[j])
    BY <1>1, CompassHandsOver
  <2> QED BY <1>1, <2>1
<1>2. IInv /\ DueOK /\ [Next]_vars =>
        [\A k \in AllKinds : (DriverOf(k) \in Compass /\ HandleCompassSyn /\ k \in mask \ mask') =>
           due[k] # <<>> /\ latest[k] = Head(due[k])]_vars
  BY <1>1
<1> QED BY <1>2, DueIsOnItsWay, PTL DEF Spec, CompassInOrder
=============================================================================
