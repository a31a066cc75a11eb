----------------------------- MODULE MCSupport -----------------------------
(* Small instances of Support and of Certificates: what staff answer and      *)
(* decide.  A behaviour is of one of them, the other stays at rest.           *)
EXTENDS Support, Certificates, TLC

CONSTANTS t1, r1, r2, x, y, c1

VARIABLE part

staffVars == <<part, vars, certVars>>

StaffInit == part \in {"tickets", "certificates"} /\ Init /\ CertInit

StaffNext == \/ part = "tickets" /\ Next /\ UNCHANGED <<part, certVars>>
             \/ part = "certificates" /\ CertNext /\ UNCHANGED <<part, vars>>

StaffSpec == StaffInit /\ [][StaffNext]_staffVars

Symmetric == Permutations({r1, r2}) \cup Permutations({x, y})
=============================================================================
