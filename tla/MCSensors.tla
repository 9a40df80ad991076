----------------------------- MODULE MCSensors -----------------------------
(* A small instance of Sensors: a light sensor and a compass of two kinds. *)
EXTENDS Sensors

LightAndCompass == {"light", "compass"}
AsInTheCode == <<"light", "compass">>
OnlyCompass == {"compass"}
OnlyLight == {"light"}
KindsOf == [d \in LightAndCompass |-> IF d = "light" THEN {"L"} ELSE {"M", "O"}]
SmallRings == [d \in LightAndCompass |-> 2]
FewEvents == [d \in LightAndCompass |-> IF d = "light" THEN 2 ELSE 4]
Numbers == [k \in {"L", "M", "O"} |-> IF k = "O" THEN 2 ELSE 1]
=============================================================================
