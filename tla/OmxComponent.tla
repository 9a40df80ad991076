---------------------------- MODULE OmxComponent ----------------------------
(***************************************************************************)
(* What an OMX component promises an IL client that respects the protocol: *)
(* one change of state at a time, along the legal transitions; every       *)
(* buffer has one owner at any time; and the component owns no buffer once *)
(* it has become Idle.  encoder.c promises this to its clients through its *)
(* callbacks; Encoder implements it.                                       *)
(***************************************************************************)
CONSTANTS Buffers

VARIABLES
  state,    \* what GetState returns
  target,   \* the state last asked for
  owner     \* "none" while the buffer does not exist

vars == <<state, target, owner>>

Init ==
  /\ state = "Loaded" /\ target = "Loaded"
  /\ owner = [b \in Buffers |-> "none"]

NobodyOf(owners) == \A b \in Buffers : owner[b] \notin owners

\* A second change of state is refused while one is pending.
Request(s) ==
  /\ state # "Invalid" /\ target = state
  /\ target' = s
  /\ UNCHANGED <<state, owner>>

Refuse == target' = state /\ UNCHANGED <<state, owner>>

Complete ==
  /\ \/ state = "Loaded" /\ target \in {"Idle", "WaitForResources"}
     \/ state = "WaitForResources" /\ target = "Loaded"
     \/ state = "Idle" /\ target \in {"Executing", "Pause"}
     \/ state = "Executing" /\ target = "Pause"
     \/ state = "Pause" /\ target = "Executing"
     \/ state \in {"Executing", "Pause"} /\ target = "Idle" /\ NobodyOf({"component"})
     \/ state = "Idle" /\ target = "Loaded" /\ NobodyOf({"component", "client"})
  /\ state' = target
  /\ UNCHANGED <<target, owner>>

\* Invalid is for ever.
Fail == state' = "Invalid" /\ UNCHANGED <<target, owner>>

Give(b, from, to) ==
  /\ owner[b] = from
  /\ owner' = [owner EXCEPT ![b] = to]
  /\ UNCHANGED <<state, target>>

Allocate(b) == state # "Invalid" /\ Give(b, "none", "client")
Free(b)     == Give(b, "client", "none")
Submit(b)   == state \in {"Executing", "Pause"} /\ Give(b, "client", "component")
Return(b)   == Give(b, "component", "client")

Destroy ==
  /\ owner' = [b \in Buffers |-> "none"]
  /\ UNCHANGED <<state, target>>

Next ==
  \/ \E s \in {"Loaded", "Idle", "Executing", "Pause", "WaitForResources", "Invalid"} :
       Request(s)
  \/ Refuse \/ Complete \/ Fail \/ Destroy
  \/ \E b \in Buffers : Allocate(b) \/ Free(b) \/ Submit(b) \/ Return(b)

Spec == Init /\ [][Next]_vars
=============================================================================
