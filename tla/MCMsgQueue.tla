----------------------------- MODULE MCMsgQueue -----------------------------
(* Model values and symmetry for checking MsgQueue.                         *)
EXTENDS MsgQueue, TLC

Symmetry == Permutations(Senders) \cup Permutations(Nodes) \cup Permutations(Messages)
=============================================================================
