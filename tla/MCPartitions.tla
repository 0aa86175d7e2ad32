--------------------------- MODULE MCPartitions ---------------------------
(* Instances of Partitions: small ceilings, so that shares fall on both    *)
(* sides of the floor and three steps reach them.                          *)
EXTENDS Partitions

CONSTANTS c1, c2

MCWeight == [c \in Children |-> IF c = c1 THEN 1 ELSE 3]
MCRootCaps == {[usd |-> 3, tok |-> 4], [usd |-> 0, tok |-> 3]}
MCFloor == [usd |-> 2, tok |-> 1]
MCEstimates == {[usd |-> 1, tok |-> 1], [usd |-> 2, tok |-> 1]}
MCUses == {[usd |-> 1, tok |-> 2], [usd |-> 3, tok |-> 1]}
===========================================================================
