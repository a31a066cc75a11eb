----------------------------- MODULE MCRecords -----------------------------
(* Small instances of what is recorded of students: the announcement of a     *)
(* week; the figures of an account, its own or those of its teams, since no   *)
(* sync mixes them; and what they hide.  A behaviour is of one of them, the   *)
(* others stay at rest.                                                       *)
EXTENDS Weekly, Figures, Privacy, TLC

CONSTANTS u1, u2, r1, r2, p, q, t1, t2, k, l, i1, i2, x, y

VARIABLE part

all == <<part, vars, figureVars, privacyVars>>

RecordsInit == /\ part \in {"week", "own", "team", "privacy"}
               /\ Init /\ FiguresInit /\ PrivacyInit
               /\ part # "own" => ~renamed

\* A heavy sync always lacks the events of the teams: they are the third part.
OwnNext == \/ \E r \in Own : Push(r) \/ Leave(r)
           \/ \E s \in Heavies, listOk \in BOOLEAN : HeavyFetch(s, listOk, FALSE, FALSE)
           \/ \E s \in Lights : Light(s)

\* Heavy syncs get no listing, and light ones no commits.
TeamNext == \/ \E r \in Teams : Push(r) \/ Leave(r)
            \/ \E s \in Heavies, contribOk, teamOk \in BOOLEAN : HeavyFetch(s, FALSE, contribOk, teamOk)
            \/ \E s \in Lights, ok \in BOOLEAN : LightBegin(s, ok) \/ LightCount(s, ok, {})

EndsSync == \E s \in Syncs : Fails(s) \/ Store(s) \/ GiveUp(s)

RecordsNext ==
  \/ part = "week" /\ Next /\ UNCHANGED <<part, figureVars, privacyVars>>
  \/ part = "own" /\ (OwnNext \/ EndsSync) /\ UNCHANGED <<part, vars, privacyVars>>
  \/ part = "team" /\ (TeamNext \/ EndsSync) /\ UNCHANGED <<part, vars, privacyVars>>
  \/ part = "privacy" /\ PrivacyNext /\ UNCHANGED <<part, vars, figureVars>>

RecordsSpec == RecordsInit /\ [][RecordsNext]_all

Symmetric == Permutations(Requests) \cup Permutations(Audience) \cup Permutations(Own)
               \cup Permutations(Teams) \cup Permutations(Instances) \cup Permutations(Pupils)
=============================================================================
