---------------------------- MODULE MCUsbHotSwap ----------------------------
(* One device that two identities match, of which one is right; or that and *)
(* a second device of another kind.                                         *)
EXTENDS UsbHotSwap

CONSTANTS d1, d2, right, wrong, other

MCIdentity == {right, wrong, other}
OneMatching == [d \in {d1} |-> {right, wrong}]
OneActual == [d \in {d1} |-> right]
TwoMatching == [d \in {d1, d2} |-> IF d = d1 THEN {right, wrong} ELSE {other}]
TwoActual == [d \in {d1, d2} |-> IF d = d1 THEN right ELSE other]
=============================================================================
