------------------------------ MODULE MCWeekly ------------------------------
(* Small instances of Weekly.                                                *)
EXTENDS Weekly

CONSTANTS u1, r1, r2
=============================================================================
