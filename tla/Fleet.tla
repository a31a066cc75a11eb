------------------------------- MODULE Fleet -------------------------------
(* The snapshot table, the syncs that write it and the memos that page views *)
(* read it through.                                                          *)
EXTENDS SnapshotSync, ViewCache

CONSTANT InstanceOf    \* the server process a worker runs in

ASSUME FleetAssumption == InstanceOf \in [Workers -> Instances]

vars == <<snap, age, fresh, job, memo, fills>>

Init == SyncInit /\ CacheInit

Saves(w) == Save(w) /\ Outdated

Finishes(w) == Finish(w) /\ Invalidate(InstanceOf[w])

Works(w) == (Starts(w) \/ Quiet(w)) /\ UNCHANGED cacheVars

Views(i) == (Build(i) \/ Store(i) \/ Expire(i)) /\ UNCHANGED syncVars

Next == \/ \E w \in Workers : Works(w) \/ Saves(w) \/ Finishes(w)
        \/ Age /\ UNCHANGED cacheVars
        \/ \E i \in Instances : Views(i)

Spec == Init /\ [][Next]_vars
-----------------------------------------------------------------------------
(* Fairness.  A page view that built a value stores it, and time passes.     *)
CacheFairness ==
  \A i \in Instances : /\ WF_vars(Store(i) /\ UNCHANGED syncVars)
                        /\ WF_vars(Expire(i) /\ UNCHANGED syncVars)

\* The workflow calls /api/sync/heavy/next again and again; a thread keeps
\* running; GitHub's limit resets and the database comes back, so what is tried
\* for ever succeeds in the end.
SyncFairness ==
  /\ SF_vars(\E w \in Workers : StartNext(w) /\ UNCHANGED cacheVars)
  /\ \A w \in Workers :
       /\ WF_vars((Works(w) /\ job[w] # Idle) \/ Saves(w) \/ Finishes(w))
       /\ SF_vars(FetchOk(w) /\ UNCHANGED cacheVars)
       /\ SF_vars(Saves(w))

ViewSpec == Spec /\ CacheFairness
SyncSpec == Spec /\ SyncFairness
-----------------------------------------------------------------------------
TypeOK == SyncTypeOK /\ CacheTypeOK

Loses(e, field) == snap[e] # NoSnap /\ snap[e][field] /\ ~snap'[e][field]

\* A stored profile link disappears only when a heavy sync fails, and the heavy
\* figures only with a failed sync or one that missed some of them, or when the
\* sync was behind: a light one that reads the row and runs alone carries forward
\* everything it cannot fetch.
LostOnlyByErrorOrOverlap ==
  [][\A e \in Accounts :
       /\ Loses(e, "links") => \E w \in Workers : /\ At(w, "save") /\ job[w].email = e
                                                  /\ \/ job[w].behind
                                                     \/ job[w].op \in Heavy /\ job[w].result = "error"
       /\ Loses(e, "heavy") => \E w \in Workers : /\ At(w, "save") /\ job[w].email = e
                                                  /\ \/ job[w].behind
                                                     \/ job[w].result = "error"
                                                     \/ job[w].op \in Heavy /\ job[w].result = "partial"]_vars

\* "Preserve heavy analytics ... if it hit a rate limit": a sync that fetched the
\* account and missed some figures does not lose those that were stored.
LimitKeepsFigures ==
  [][\A e \in Accounts : Loses(e, "heavy") =>
       \E w \in Workers : /\ At(w, "save") /\ job[w].email = e
                          /\ job[w].result # "partial"]_vars

\* A failing login sync or nightly sweep does not hide a good row: only a forced
\* light sync, a heavy one, or one that was behind turns it into an error.
GoodRowKept ==
  [][\A e \in Accounts : Loses(e, "ok") =>
       \E w \in Workers : /\ At(w, "save") /\ job[w].email = e
                          /\ \/ job[w].op # "light"
                             \/ job[w].behind]_vars

RunsHeavy(e) == \E w \in Workers : job[w] # Idle /\ job[w].op \in Heavy /\ job[w].email = e
NoLightSync == \A w \in Workers : job[w] = Idle \/ job[w].op \in Heavy

\* The scheduled heavy sync reaches every account, if the light syncs, which
\* write the same timestamp, stop.
RotatesAlone == <>[]NoLightSync => \A e \in Accounts : []<>RunsHeavy(e)

\* "An unhooked write path still self-heals": once no sync saves any more,
\* every memo comes to show the table, even one filled across a save.
SelfHeals == <>[](\A w \in Workers : ~At(w, "save"))
               => <>[](\A i \in Instances : memo[i] # "stale")
=============================================================================
