--------------------------- MODULE MCStratumPool ---------------------------
(* Two connections, of equal or of different priority, and one miner. *)
EXTENDS StratumPool

CONSTANTS c1, c2

MCConn == {c1, c2}
Equal == [c \in MCConn |-> 0]
FirstHigher == [c \in MCConn |-> IF c = c1 THEN 1 ELSE 0]
=============================================================================
