--------------------------- MODULE MCEsiTransport ---------------------------
(* Two reads of one route and a write of another.                             *)
EXTENDS EsiTransport

CONSTANTS g1, g2, w1, ra, rb
MCRouteOf == [r \in Requests |-> IF r \in {g1, g2} THEN ra ELSE rb]
=============================================================================
