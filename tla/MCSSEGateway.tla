---------------------------- MODULE MCSSEGateway ----------------------------
(* Two clients with a request each.                                        *)
EXTENDS SSEGateway

CONSTANTS s1, s2, r1, r2

MCSession == [r \in {r1, r2} |-> IF r = r1 THEN s1 ELSE s2]
=============================================================================
