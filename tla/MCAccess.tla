------------------------------ MODULE MCAccess ------------------------------
(* A small instance of Access, and one of Maps: what administrators decide.  *)
(* A behaviour is of one of them, the other stays at rest.                   *)
EXTENDS Access, Maps, TLC

CONSTANTS a, b, c, r1, r2, x, i1, i2, e1, e2

VARIABLE part

parts == <<part, vars, mapsVars>>

BothInit == /\ part \in {"access", "maps"} /\ Init /\ MapsInit
            /\ part = "access" => oneCache

BothNext == \/ part = "access" /\ Next /\ UNCHANGED <<part, mapsVars>>
            \/ part = "maps" /\ MapsNext /\ UNCHANGED <<part, vars>>

BothSpec == BothInit /\ [][BothNext]_parts

Symmetric == Permutations(Requests) \cup Permutations(Instances) \cup Permutations(Entries)
=============================================================================
