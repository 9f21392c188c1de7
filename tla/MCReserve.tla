------------------------------ MODULE MCReserve ------------------------------
(* Small instances of GoodReserve for TLC. *)
EXTENDS GoodReserve

\* A ratio of 100%, at which a G$ costs half a cDAI.
StartCurve == [reserveSupply |-> 4, gdSupply |-> 8, reserveRatio |-> 4,
               lastExpansion |-> 1]
\* No contribution, or half of what is sold.
HalfOrNone == {<<0, 1>>, <<1, 2>>}
=============================================================================
