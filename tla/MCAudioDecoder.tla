--------------------------- MODULE MCAudioDecoder ---------------------------
(* Small instances of AudioDecoder.                                        *)
EXTENDS AudioDecoder, TLC

CONSTANTS i1, i2, o1, o2

AllRequests == {StateSet(s) : s \in States} \cup {Flush(ps) : ps \in {{"in"}, {"out"}, Ports}}
StreamRequests == {StateSet("Idle"), StateSet("Executing")}
StopRequests == {StateSet(s) : s \in {"Idle", "Executing", "Loaded", "Invalid"}}
                  \cup {Flush({"in"}), Flush(Ports)}

Symmetry == Permutations(InBuffers) \cup Permutations(OutBuffers)
=============================================================================
