------------------------------ MODULE MCFleet ------------------------------
(* Small instances of Fleet.                                                 *)
EXTENDS Fleet

CONSTANTS a1, a2, w1, w2, i1

\* Every worker runs in the one instance.
OneInstance == [w \in Workers |-> i1]
=============================================================================
