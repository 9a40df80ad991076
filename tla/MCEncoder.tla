----------------------------- MODULE MCEncoder -----------------------------
(* Small instances of Encoder.                                             *)
EXTENDS Encoder

CONSTANTS i1, i2, o1, o2

OneEach == [p \in Ports |-> 1]
TwoOut == [p \in Ports |-> IF p = "in" THEN 1 ELSE 2]
TwoIn == [p \in Ports |-> IF p = "in" THEN 2 ELSE 1]

BothPorts == <<"in", "out">>
StateRequests == {StateSet(s) : s \in States}
CycleRequests == {StateSet(s) : s \in {"Idle", "Loaded", "Executing", "Pause"}}
StreamRequests == {StateSet(s) : s \in {"Idle", "Executing", "Pause"}} \cup {Flush(BothPorts)}
PortRequests == {StateSet(s) : s \in {"Idle", "Executing"}}
                  \cup {Flush(<<"in">>), Disable(<<"out">>), Enable(<<"out">>),
                        Disable(BothPorts), Enable(BothPorts)}
AllRequests == StateRequests \cup PortRequests
=============================================================================
