---------------------------- MODULE FleetProofs ----------------------------
(* What a sync that is not behind keeps of the stored row, for any number *)
(* of accounts, workers and instances.                                       *)
EXTENDS Fleet, FiniteSetTheorems, TLAPS

RowsTyped == /\ snap \in [Accounts -> Snapshot \cup {NoSnap}]
             /\ job \in [Workers -> Job \cup {Idle}]

\* After its fetch a sync has a result, and only a heavy one has every figure.
Fetched(j) == j.pc \in {"links", "metrics", "save"} =>
                /\ j.result # "none"
                /\ j.result = "full" => j.op \in Heavy /\ j.heavy

\* What a sync has carried still covers the row, unless it was behind.
Covers(j) == Fetched(j) /\ (j.behind \/
  /\ j.pc = "metrics" => /\ j.result # "error"
                         /\ Has(j.email, "links") => j.links
  /\ j.pc = "save" /\ (j.op \in Light \/ j.result # "error") => (Has(j.email, "links") => j.links)
  /\ j.pc = "save" /\ j.op \in Light /\ j.result # "error" => (Has(j.email, "heavy") => j.heavy)
  /\ j.pc \in {"links", "save"} /\ j.result = "error" /\ j.op = "light" => ~Has(j.email, "ok"))

IInv == RowsTyped /\ \A w \in Workers : job[w] # Idle => Covers(job[w])
-----------------------------------------------------------------------------
Pcs == {"fetch", "links", "metrics", "save", "invalidate"}
Results == {"none", "full", "partial", "error"}

\* Updates of one field of a job.
LEMMA SetPc ==
  ASSUME NEW j \in Job, NEW x \in Pcs
  PROVE  LET n == [j EXCEPT !.pc = x]
         IN  /\ n \in Job /\ n.pc = x /\ n.email = j.email /\ n.op = j.op /\ n.result = j.result
             /\ (n.links <=> j.links) /\ (n.heavy <=> j.heavy) /\ (n.behind <=> j.behind)
BY DEF Job, Pcs

LEMMA SetResult ==
  ASSUME NEW j \in Job, NEW x \in Results
  PROVE  LET n == [j EXCEPT !.result = x]
         IN  /\ n \in Job /\ n.pc = j.pc /\ n.email = j.email /\ n.op = j.op /\ n.result = x
             /\ (n.links <=> j.links) /\ (n.heavy <=> j.heavy) /\ (n.behind <=> j.behind)
BY DEF Job, Results

LEMMA SetLinks ==
  ASSUME NEW j \in Job, NEW x \in BOOLEAN
  PROVE  LET n == [j EXCEPT !.links = x]
         IN  /\ n \in Job /\ n.pc = j.pc /\ n.email = j.email /\ n.op = j.op /\ n.result = j.result
             /\ (n.links <=> x) /\ (n.heavy <=> j.heavy) /\ (n.behind <=> j.behind)
BY DEF Job

LEMMA SetHeavy ==
  ASSUME NEW j \in Job, NEW x \in BOOLEAN
  PROVE  LET n == [j EXCEPT !.heavy = x]
         IN  /\ n \in Job /\ n.pc = j.pc /\ n.email = j.email /\ n.op = j.op /\ n.result = j.result
             /\ (n.links <=> j.links) /\ (n.heavy <=> x) /\ (n.behind <=> j.behind)
BY DEF Job

LEMMA SetBehind ==
  ASSUME NEW j \in Job, NEW x \in BOOLEAN
  PROVE  LET n == [j EXCEPT !.behind = x]
         IN  /\ n \in Job /\ n.pc = j.pc /\ n.email = j.email /\ n.op = j.op /\ n.result = j.result
             /\ (n.links <=> j.links) /\ (n.heavy <=> j.heavy) /\ (n.behind <=> x)
BY DEF Job

LEMMA NewJobTyped ==
  ASSUME NEW e \in Accounts, NEW op \in Light \cup Heavy
  PROVE  NewJob(e, op) \in Job /\ Covers(NewJob(e, op))
BY DEF NewJob, Job, Fetched, Covers

LEMMA LooksTyped == Looks \subseteq BOOLEAN
BY DEF Looks

LEMMA HasTyped == ASSUME RowsTyped, NEW e \in Accounts
                  PROVE  /\ Has(e, "links") \in BOOLEAN
                         /\ Has(e, "heavy") \in BOOLEAN
                         /\ Has(e, "ok") \in BOOLEAN
BY DEF Has, RowsTyped, Snapshot
-----------------------------------------------------------------------------
\* A step that changes one job and leaves the rows alone.
LEMMA OneJob ==
  ASSUME IInv, NEW w \in Workers, NEW n, n = Idle \/ (n \in Job /\ Covers(n)),
         job' = [job EXCEPT ![w] = n], UNCHANGED snap
  PROVE  IInv'
<1>1. RowsTyped'
  BY DEF IInv, RowsTyped
<1>2. ASSUME NEW v \in Workers, job'[v] # Idle PROVE Covers(job[v])'
  <2>1. CASE v = w
    <3>1. job'[v] = n /\ Covers(n)
      BY <1>2, <2>1 DEF IInv, RowsTyped
    <3> QED
      BY <3>1 DEF Fetched, Covers, Has
  <2>2. CASE v # w
    <3>1. job'[v] = job[v] /\ Covers(job[v])
      BY <1>2, <2>2 DEF IInv, RowsTyped
    <3> QED
      BY <3>1 DEF Fetched, Covers, Has
  <2> QED
    BY <2>1, <2>2
<1> QED
  BY <1>1, <1>2 DEF IInv

LEMMA Working ==
  ASSUME IInv, NEW w \in Workers, NEW pc, At(w, pc)
  PROVE  job[w] \in Job /\ job[w].pc = pc /\ Covers(job[w]) /\ job[w].email \in Accounts
BY DEF IInv, RowsTyped, At, Job

LEMMA StartsKeep == ASSUME IInv, NEW w \in Workers, Starts(w) PROVE IInv'
<1>1. PICK e \in Accounts, op \in Light \cup Heavy : Start(w, e, op)
  BY DEF Starts, StartLight, StartForced, StartSingle, StartNext, Stalest, Oldest, Stored, Light, Heavy
<1> QED
  BY <1>1, NewJobTyped, OneJob DEF Start

\* A failed fetch leads to an error row that covers what was seen to be there.
LEMMA Failing ==
  ASSUME IInv, NEW w \in Workers, At(w, "fetch"), NEW x \in {"links", "save"}, NEW b \in BOOLEAN,
         Fail(w, x, b), UNCHANGED snap,
         x = "save" => job[w].op \in Heavy,
         job[w].op = "light" => b \/ ~Has(job[w].email, "ok")
  PROVE  IInv'
<1> DEFINE j == job[w]
           l == [j EXCEPT !.pc = x]
           m == [l EXCEPT !.result = "error"]
           n == [m EXCEPT !.behind = b]
<1>1. j \in Job /\ x \in Pcs /\ "error" \in Results
  BY Working DEF Pcs, Results
<1>2. l \in Job /\ l.pc = x /\ l.op = j.op /\ l.email = j.email
  <2> HIDE DEF j
  <2> QED
    BY <1>1, SetPc
<1>3. m \in Job /\ m.pc = x /\ m.op = j.op /\ m.email = j.email /\ m.result = "error"
  <2> HIDE DEF l
  <2> QED
    BY <1>1, <1>2, SetResult
<1>4. n \in Job /\ n.pc = x /\ n.op = j.op /\ n.email = j.email /\ n.result = "error" /\ (n.behind <=> b)
  <2> HIDE DEF m
  <2> QED
    BY <1>3, SetBehind
<1>5. job' = [job EXCEPT ![w] = n]
  BY DEF Fail, Step
<1> HIDE DEF n
<1>6. Covers(n)
  BY <1>4 DEF Fetched, Covers, Light, Heavy
<1> QED
  BY <1>4, <1>5, <1>6, OneJob

LEMMA FetchKeeps == ASSUME IInv, NEW w \in Workers, FetchFails(w) \/ FetchLimited(w) \/ FetchOk(w)
                    PROVE  IInv'
<1> DEFINE j == job[w]
<1>1. j \in Job /\ j.pc = "fetch" /\ j.email \in Accounts
  BY Working DEF FetchFails, FetchLimited, FetchOk
<1>2. CASE FetchFails(w)
  <2>1. At(w, "fetch") /\ UNCHANGED snap
    BY <1>2 DEF FetchFails
  <2>2. CASE j.op \in Heavy /\ Fail(w, "save", FALSE)
    BY <2>1, <2>2, Failing DEF Heavy
  <2>3. CASE j.op = "forced" /\ Fail(w, "links", FALSE)
    BY <2>1, <2>3, Failing
  <2>4. ASSUME j.op = "light", NEW found \in Looks, found /\ Has(j.email, "ok"), Done(w) PROVE IInv'
    BY <2>1, <2>4, OneJob DEF Done
  <2>5. ASSUME j.op = "light", NEW found \in Looks, ~(found /\ Has(j.email, "ok")), Fail(w, "links", ~found)
        PROVE  IInv'
    BY <2>1, <2>5, LooksTyped, Failing
  <2> QED
    BY <1>2, <2>2, <2>3, <2>4, <2>5 DEF FetchFails
<1>3. CASE FetchLimited(w)
  <2>1. job' = [job EXCEPT ![w] = Idle] /\ UNCHANGED snap
    BY <1>3 DEF FetchLimited, Done
  <2> QED
    BY <2>1, OneJob
<1>4. CASE FetchOk(w)
  <2>1. PICK r \in {"full", "partial"} :
          /\ j.op \in Light => r = "partial"
          /\ job' = [job EXCEPT ![w] = [j EXCEPT !.pc = "links", !.result = r,
                                                 !.heavy = r = "full"]]
    BY <1>4 DEF FetchOk, Step
  <2> DEFINE k == [j EXCEPT !.pc = "links"]
             l == [k EXCEPT !.result = r]
             n == [l EXCEPT !.heavy = r = "full"]
  <2>2. k \in Job /\ k.pc = "links" /\ k.op = j.op
    BY <1>1, SetPc DEF Pcs
  <2>3. l \in Job /\ l.pc = "links" /\ l.result = r /\ l.op = j.op
    <3>1. r \in Results
      BY <2>1 DEF Results
    <3> HIDE DEF k
    <3> QED
      BY <2>2, <3>1, SetResult
  <2>5. n \in Job /\ n.pc = "links" /\ n.result = r /\ n.op = j.op /\ (n.heavy <=> r = "full")
    <3>1. (r = "full") \in BOOLEAN
      OBVIOUS
    <3> HIDE DEF l
    <3> QED
      BY <2>3, <3>1, SetHeavy
  <2>6. job' = [job EXCEPT ![w] = n]
    BY <2>1
  <2> HIDE DEF n
  <2>7. Covers(n)
    BY <1>1, <2>1, <2>5 DEF Fetched, Covers, Job
  <2>8. UNCHANGED snap
    BY <1>4 DEF FetchOk
  <2> QED
    BY <2>5, <2>6, <2>7, <2>8, OneJob
<1> QED
  BY <1>2, <1>3, <1>4

LEMMA LinksKeep == ASSUME IInv, NEW w \in Workers, CarryLinks(w) PROVE IInv'
<1> DEFINE j == job[w]
           pc == IF j.result = "error" THEN "save" ELSE "metrics"
<1>0. PICK found \in Looks :
        job' = [job EXCEPT ![w] = [j EXCEPT !.pc = pc, !.links = found /\ Has(j.email, "links"),
                                            !.behind = (@ /\ j.result = "error") \/ ~found]]
  BY DEF CarryLinks, Step
<1> DEFINE has == found /\ Has(j.email, "links")
           behind == (j.behind /\ j.result = "error") \/ ~found
           l == [j EXCEPT !.pc = pc]
           m == [l EXCEPT !.links = has]
           n == [m EXCEPT !.behind = behind]
<1>1. j \in Job /\ j.pc = "links" /\ j.email \in Accounts /\ Covers(j)
  BY Working DEF CarryLinks
<1>2. has \in BOOLEAN /\ pc \in Pcs /\ behind \in BOOLEAN
  BY <1>1, HasTyped, LooksTyped DEF IInv, Pcs, Job
<1>3. l \in Job /\ l.pc = pc /\ l.email = j.email /\ l.op = j.op /\ l.result = j.result
  <2> HIDE DEF pc
  <2> QED
    BY <1>1, <1>2, SetPc
<1>4. m \in Job /\ m.pc = pc /\ m.email = j.email /\ m.op = j.op /\ m.result = j.result
      /\ (m.links <=> has)
  <2> HIDE DEF l, has, pc
  <2> QED
    BY <1>2, <1>3, SetLinks
<1>5. n \in Job /\ n.pc = pc /\ n.email = j.email /\ n.op = j.op /\ n.result = j.result
      /\ (n.links <=> has) /\ (n.behind <=> behind)
  <2> HIDE DEF m, has, pc, behind
  <2> QED
    BY <1>2, <1>4, SetBehind
<1>8. n.heavy <=> j.heavy
  <2>1. l.heavy <=> j.heavy
    <3> HIDE DEF pc
    <3> QED
      BY <1>1, <1>2, SetPc
  <2>2. m.heavy <=> l.heavy
    <3> HIDE DEF l, has, pc
    <3> QED
      BY <1>2, <1>3, SetLinks
  <2>3. n.heavy <=> m.heavy
    <3> HIDE DEF m, has, pc, behind
    <3> QED
      BY <1>2, <1>4, SetBehind
  <2> QED
    BY <2>1, <2>2, <2>3
<1>6. job' = [job EXCEPT ![w] = n] /\ UNCHANGED snap
  BY <1>0 DEF CarryLinks
<1>7. Covers(n)
  <2> HIDE DEF n
  <2> QED
    BY <1>1, <1>5, <1>8 DEF Fetched, Covers, Light, Heavy, Job
<1> QED
  <2> HIDE DEF n
  <2> QED
    BY <1>5, <1>6, <1>7, OneJob

LEMMA MetricsKeep == ASSUME IInv, NEW w \in Workers, CarryMetrics(w) PROVE IInv'
<1> DEFINE j == job[w]
<1>0. PICK found \in Looks :
        job' = [job EXCEPT ![w] = [j EXCEPT !.pc = "save", !.heavy = IF j.op \in Light THEN found /\ Has(j.email, "heavy")
                                                      ELSE @,
                                            !.behind = @ \/ ~found]]
  BY DEF CarryMetrics, Step
<1> DEFINE heavy == IF j.op \in Light THEN found /\ Has(j.email, "heavy") ELSE j.heavy
           behind == j.behind \/ ~found
           l == [j EXCEPT !.pc = "save"]
           m == [l EXCEPT !.heavy = heavy]
           n == [m EXCEPT !.behind = behind]
<1>1. j \in Job /\ j.pc = "metrics" /\ j.email \in Accounts /\ Covers(j)
  BY Working DEF CarryMetrics
<1>2. heavy \in BOOLEAN /\ behind \in BOOLEAN
  BY <1>1, HasTyped, LooksTyped DEF IInv, Job
<1>3. l \in Job /\ l.pc = "save" /\ l.email = j.email /\ l.op = j.op /\ l.result = j.result
      /\ (l.links <=> j.links)
  BY <1>1, SetPc DEF Pcs
<1>4. m \in Job /\ m.pc = "save" /\ m.email = j.email /\ m.op = j.op /\ m.result = j.result
      /\ (m.links <=> j.links) /\ (m.heavy <=> heavy)
  <2> HIDE DEF l, heavy
  <2> QED
    BY <1>2, <1>3, SetHeavy
<1>5. n \in Job /\ n.pc = "save" /\ n.email = j.email /\ n.op = j.op /\ n.result = j.result
      /\ (n.links <=> j.links) /\ (n.heavy <=> heavy) /\ (n.behind <=> behind)
  <2> HIDE DEF m, heavy, behind
  <2> QED
    BY <1>2, <1>4, SetBehind
<1>6. job' = [job EXCEPT ![w] = n] /\ UNCHANGED snap
  BY <1>0 DEF CarryMetrics
<1>7. Covers(n)
  <2>1. j.op \in Light \/ j.op \in Heavy
    BY <1>1 DEF Job
  <2>2. j.op \in Heavy => j.op \notin Light
    BY DEF Light, Heavy
  <2> HIDE DEF n
  <2> QED
    BY <1>1, <1>5, <2>1, <2>2 DEF Fetched, Covers
<1> QED
  <2> HIDE DEF n
  <2> QED
    BY <1>5, <1>6, <1>7, OneJob

\* A save overtakes the other syncs of its account.
LEMMA SaveKeeps == ASSUME IInv, NEW w \in Workers, Save(w) PROVE IInv'
<1> DEFINE j == job[w]
           e == j.email
           row == [ok |-> j.result # "error", links |-> j.links, heavy |-> j.heavy]
           n == [j EXCEPT !.pc = "invalidate"]
<1>1. j \in Job /\ e \in Accounts
  BY Working DEF Save
<1>2. row \in Snapshot
  BY <1>1 DEF Snapshot, Job
<1>3. snap' = [snap EXCEPT ![e] = row] /\ job' = [Overtake(w, e) EXCEPT ![w] = n]
  BY DEF Save
<1>4. n \in Job /\ n.pc = "invalidate"
  BY <1>1, SetPc DEF Pcs
<1>5. \A v \in Workers \ {w} : job'[v] = IF job[v] # Idle /\ job[v].email = e
                                           THEN [job[v] EXCEPT !.behind = TRUE] ELSE job[v]
  BY <1>3 DEF Overtake
<1>6. job'[w] = n
  BY <1>3 DEF Overtake
<1>7. ASSUME NEW v \in Workers
      PROVE  job'[v] \in Job \cup {Idle} /\ (job'[v] # Idle => Covers(job[v])')
  <2>1. CASE v = w
    BY <1>4, <1>6, <2>1 DEF Fetched, Covers
  <2>2. CASE v # w /\ job[v] # Idle /\ job[v].email = e
    <3> DEFINE m == [job[v] EXCEPT !.behind = TRUE]
    <3>1. job[v] \in Job /\ Fetched(job[v])
      BY <2>2 DEF IInv, RowsTyped, Covers
    <3>2. /\ m \in Job /\ m.behind /\ m.pc = job[v].pc /\ m.result = job[v].result
          /\ m.op = job[v].op /\ (m.heavy <=> job[v].heavy)
      BY <3>1, SetBehind
    <3>3. job'[v] = m
      BY <1>5, <2>2
    <3>4. job'[v] \in Job /\ job'[v].behind /\ Fetched(job[v])'
      <4> HIDE DEF m
      <4> QED
        BY <3>1, <3>2, <3>3 DEF Fetched
    <3> QED
      BY <3>4 DEF Covers
  <2>3. CASE v # w /\ job[v] # Idle /\ job[v].email # e
    <3>1. job'[v] = job[v] /\ job[v] \in Job /\ Covers(job[v]) /\ job[v].email \in Accounts
      BY <1>5, <2>3 DEF IInv, RowsTyped, Job
    <3>2. snap'[job[v].email] = snap[job[v].email]
      BY <1>1, <1>3, <2>3, <3>1 DEF IInv, RowsTyped
    <3> QED
      BY <3>1, <3>2 DEF Fetched, Covers, Has
  <2>4. CASE v # w /\ job[v] = Idle
    BY <1>5, <2>4
  <2> QED
    BY <2>1, <2>2, <2>3, <2>4
<1>8. DOMAIN job' = Workers /\ job' = [v \in Workers |-> job'[v]]
  BY <1>3 DEF Overtake
<1>9. RowsTyped'
  BY <1>1, <1>2, <1>3, <1>7, <1>8 DEF RowsTyped, IInv
<1> QED
  BY <1>7, <1>9 DEF IInv

LEMMA FinishKeeps == ASSUME IInv, NEW w \in Workers, Finish(w) \/ SaveFails(w) PROVE IInv'
<1>1. CASE job' = [job EXCEPT ![w] = Idle]
  BY <1>1, OneJob DEF Finish, SaveFails
<1>2. CASE Finish(w) /\ job[w].op = "single" /\ job' = [job EXCEPT ![w] = NewJob(job[w].email, "single")]
  <2>1. job[w].email \in Accounts /\ "single" \in Light \cup Heavy
    BY <1>2, Working DEF Finish, Heavy
  <2> QED
    BY <1>2, <2>1, NewJobTyped, OneJob DEF Finish
<1> QED
  BY <1>1, <1>2 DEF Finish, SaveFails, Done, Step

LEMMA InitInv == Init => IInv
<1> SUFFICES ASSUME Init PROVE IInv
  OBVIOUS
<1>1. [ok |-> TRUE, links |-> TRUE, heavy |-> FALSE] \in Snapshot
  BY DEF Snapshot
<1>2. snap \in [Accounts -> Snapshot \cup {NoSnap}]
  BY <1>1 DEF Init, SyncInit
<1>3. job = [w \in Workers |-> Idle]
  BY DEF Init, SyncInit
<1> QED
  BY <1>2, <1>3 DEF IInv, RowsTyped

LEMMA StepInv == IInv /\ [Next]_vars => IInv'
<1> SUFFICES ASSUME IInv, [Next]_vars PROVE IInv'
  OBVIOUS
<1>1. CASE UNCHANGED <<snap, job>>
  BY <1>1 DEF IInv, RowsTyped, Fetched, Covers, Has
<1>2. ASSUME NEW w \in Workers, Starts(w) \/ Quiet(w) \/ Save(w) \/ Finish(w) PROVE IInv'
  BY <1>2, StartsKeep, FetchKeeps, LinksKeep, MetricsKeep, SaveKeeps, FinishKeeps DEF Quiet
<1>3. \/ UNCHANGED <<snap, job>>
      \/ \E w \in Workers : Starts(w) \/ Quiet(w) \/ Save(w) \/ Finish(w)
  BY DEF Next, vars, Works, Saves, Finishes, Views, Age, syncVars
<1> QED
  BY <1>1, <1>2, <1>3

LEMMA Invariance == Spec => []IInv
<1> QED
  BY InitInv, StepInv, PTL DEF Spec

-----------------------------------------------------------------------------
\* Only a save changes a row, and it writes what its sync holds.
LEMMA OnlySaves ==
  ASSUME IInv, Next, NEW e \in Accounts, snap'[e] # snap[e]
  PROVE  \E w \in Workers : /\ At(w, "save") /\ job[w].email = e /\ Covers(job[w])
                            /\ job[w] \in Job
                            /\ snap'[e].ok = (job[w].result # "error")
                            /\ snap'[e].links = job[w].links
                            /\ snap'[e].heavy = job[w].heavy
<1>1. PICK w \in Workers : Save(w)
  BY DEF Next, Works, Starts, StartLight, StartForced, StartSingle, StartNext, Start, Quiet,
         FetchFails, FetchLimited, FetchOk, CarryLinks, CarryMetrics, SaveFails, Saves, Finishes,
         Finish, Views, Age, syncVars
<1>2. job[w] \in Job /\ Covers(job[w]) /\ job[w].email \in Accounts /\ At(w, "save")
  BY <1>1, Working DEF Save
<1>3. snap' = [snap EXCEPT ![job[w].email] = [ok |-> job[w].result # "error",
                                              links |-> job[w].links, heavy |-> job[w].heavy]]
  BY <1>1 DEF Save
<1>4. job[w].email = e
  BY <1>2, <1>3 DEF IInv, RowsTyped
<1>5. snap'[e] = [ok |-> job[w].result # "error", links |-> job[w].links, heavy |-> job[w].heavy]
  BY <1>3, <1>4 DEF IInv, RowsTyped
<1> QED
  BY <1>2, <1>4, <1>5

\* A stored profile link or heavy metric is lost only by a failed sync or by
\* overlapping ones: what a sync cannot fetch it carries forward.
THEOREM CarriedForward == Spec => LostOnlyByErrorOrOverlap
<1> DEFINE A(e) ==
       /\ Loses(e, "links") => \E w \in Workers : /\ At(w, "save") /\ job[w].email = e
                                                  /\ \/ job[w].behind
                                                     \/ job[w].op \in Heavy /\ job[w].result = "error"
       /\ Loses(e, "heavy") => \E w \in Workers : /\ At(w, "save") /\ job[w].email = e
                                                  /\ \/ job[w].behind
                                                     \/ job[w].result = "error"
                                                     \/ job[w].op \in Heavy /\ job[w].result = "partial"
<1>1. ASSUME IInv, Next, NEW e \in Accounts PROVE A(e)
  <2>1. CASE snap'[e] = snap[e]
    BY <2>1 DEF Loses
  <2>2. CASE snap'[e] # snap[e]
    <3>1. PICK w \in Workers : /\ At(w, "save") /\ job[w].email = e /\ Covers(job[w])
                               /\ job[w] \in Job
                               /\ snap'[e].links = job[w].links
                               /\ snap'[e].heavy = job[w].heavy
      BY <1>1, <2>2, OnlySaves
    <3>2. job[w].pc = "save" /\ job[w].op \in Light \cup Heavy
          /\ job[w].result \in {"none", "full", "partial", "error"}
      BY <3>1 DEF At, Job
    <3>3. /\ job[w].result # "none"
          /\ job[w].result = "full" => job[w].heavy
      BY <3>1, <3>2 DEF Covers, Fetched
    <3>4. Loses(e, "heavy") => \/ job[w].behind
                               \/ job[w].result = "error"
                               \/ job[w].op \in Heavy /\ job[w].result = "partial"
      BY <3>1, <3>2, <3>3 DEF Loses, Covers, Has
    <3>5. Loses(e, "links") => \/ job[w].behind
                               \/ job[w].op \in Heavy /\ job[w].result = "error"
      BY <3>1, <3>2, <3>3 DEF Loses, Covers, Has
    <3> QED
      BY <3>1, <3>4, <3>5
  <2> QED
    BY <2>1, <2>2
<1>2. IInv /\ [Next]_vars => [\A e \in Accounts : A(e)]_vars
  BY <1>1
<1> QED
  BY Invariance, <1>2, PTL DEF Spec, LostOnlyByErrorOrOverlap

\* A login sync or nightly sweep that fails never hides a good row, unless
\* another sync stored that row while it was failing.
THEOREM GoodRowSurvives == Spec => GoodRowKept
<1> DEFINE A(e) == Loses(e, "ok") => \E w \in Workers : /\ At(w, "save") /\ job[w].email = e
                                                        /\ \/ job[w].op # "light"
                                                           \/ job[w].behind
<1>1. ASSUME IInv, Next, NEW e \in Accounts PROVE A(e)
  <2>1. CASE snap'[e] = snap[e]
    BY <2>1 DEF Loses
  <2>2. CASE snap'[e] # snap[e]
    <3>1. PICK w \in Workers : /\ At(w, "save") /\ job[w].email = e /\ Covers(job[w])
                               /\ snap'[e].ok = (job[w].result # "error")
      BY <1>1, <2>2, OnlySaves
    <3> QED
      BY <3>1 DEF Loses, Fetched, Covers, Has, At
  <2> QED
    BY <2>1, <2>2
<1>2. IInv /\ [Next]_vars => [\A e \in Accounts : A(e)]_vars
  BY <1>1
<1> QED
  BY Invariance, <1>2, PTL DEF Spec, GoodRowKept
-----------------------------------------------------------------------------
(* The order of the timestamps.                                              *)

Below(e) == {x \in Stored \ {e} : age[x] <= age[e]}

AgesInv == age \in [Accounts -> Nat] /\ Ranked /\ fresh \subseteq Stored

OrderInv == IInv /\ AgesInv /\ CacheTypeOK

LEMMA BelowFinite ==
  ASSUME AgesInv, NEW e \in Stored
  PROVE  /\ e \in Accounts /\ IsFiniteSet(Stored) /\ IsFiniteSet(Below(e))
         /\ age[e] = Cardinality(Below(e)) /\ age[e] \in Nat
<1>1. e \in Accounts /\ Stored \in SUBSET Accounts
  BY DEF Stored
<1>2. IsFiniteSet(Stored)
  BY <1>1, SyncAssumption, FS_Subset
<1>3. Below(e) \in SUBSET Stored
  BY DEF Below
<1>4. IsFiniteSet(Below(e))
  BY <1>2, <1>3, FS_Subset
<1> QED
  BY <1>1, <1>2, <1>4 DEF AgesInv, Ranked, Below

\* Between the row of x and a row after it there is room for that of e.
LEMMA Room ==
  ASSUME AgesInv, NEW x \in Stored, NEW e \in Stored, NEW z \in Stored, z # e,
         age[x] < age[e], age[e] <= age[z]
  PROVE  age[z] >= age[x] + 2
<1>1. /\ age[x] \in Nat /\ age[e] \in Nat /\ age[z] \in Nat
      /\ IsFiniteSet(Below(x)) /\ IsFiniteSet(Below(z))
      /\ age[x] = Cardinality(Below(x)) /\ age[z] = Cardinality(Below(z))
  BY BelowFinite
<1>2. x \notin Below(x) /\ e \notin Below(x) \cup {x}
  BY <1>1 DEF Below
<1>3. \A y \in Stored : age[y] \in Nat
  BY BelowFinite
<1>4. (Below(x) \cup {x}) \cup {e} \in SUBSET Below(z)
  BY <1>1, <1>3 DEF Below
<1>5. IsFiniteSet(Below(x) \cup {x}) /\ Cardinality(Below(x) \cup {x}) = Cardinality(Below(x)) + 1
  BY <1>1, <1>2, FS_AddElement
<1>6. /\ IsFiniteSet((Below(x) \cup {x}) \cup {e})
      /\ Cardinality((Below(x) \cup {x}) \cup {e}) = Cardinality(Below(x) \cup {x}) + 1
  BY <1>2, <1>5, FS_AddElement
<1>7. Cardinality((Below(x) \cup {x}) \cup {e}) <= Cardinality(Below(z))
  BY <1>1, <1>4, FS_Subset
<1> QED
  BY <1>1, <1>5, <1>6, <1>7

\* A save puts one row first and leaves the others in their order.
LEMMA Reordered ==
  ASSUME AgesInv, NEW e \in Accounts, age' = Newest(e), Stored' = Stored \cup {e}
  PROVE  /\ age' \in [Accounts -> Nat] /\ age'[e] = 0
         /\ \A x \in Accounts \ Stored' : age'[x] = 0
         /\ \A x \in Stored \ {e} :
              /\ age'[x] = IF e \notin Stored \/ age[x] < age[e] THEN age[x] + 1 ELSE age[x]
              /\ age'[x] > 0
              /\ \A z \in Stored \ {e} : age'[z] <= age'[x] <=> age[z] <= age[x]
<1>1. age \in [Accounts -> Nat] /\ Stored \subseteq Accounts
  BY DEF AgesInv, Stored
<1>2. /\ \A x \in Accounts : age'[x] \in Nat
      /\ age' \in [Accounts -> Nat] /\ age'[e] = 0
      /\ \A x \in Accounts \ Stored' : age'[x] = 0
  BY <1>1 DEF Newest
<1>3. \A x \in Stored \ {e} :
        age'[x] = IF e \notin Stored \/ age[x] < age[e] THEN age[x] + 1 ELSE age[x]
  BY <1>1 DEF Newest
<1>4. ASSUME NEW x \in Stored \ {e} PROVE age'[x] > 0
  <2>1. age[x] \in Nat
    BY <1>1
  <2>2. CASE e \notin Stored \/ age[x] < age[e]
    BY <1>3, <2>1, <2>2
  <2>3. CASE ~(e \notin Stored \/ age[x] < age[e])
    <3>1. e \in Stored /\ age[e] \in Nat /\ age[e] <= age[x]
      BY <1>1, <2>1, <2>3
    <3>2. e \in Below(x)
      BY <3>1 DEF Below
    <3>3. IsFiniteSet(Below(x)) /\ age[x] = Cardinality(Below(x))
      BY BelowFinite
    <3>4. Cardinality(Below(x)) # 0
      BY <3>2, <3>3, FS_EmptySet
    <3> QED
      BY <1>3, <2>1, <2>3, <3>3, <3>4
  <2> QED
    BY <2>2, <2>3
<1>5. ASSUME NEW x \in Stored \ {e}, NEW z \in Stored \ {e}
      PROVE  age'[z] <= age'[x] <=> age[z] <= age[x]
  <2>1. age[x] \in Nat /\ age[z] \in Nat
    BY <1>1
  <2>2. CASE e \notin Stored
    BY <1>3, <2>1, <2>2
  <2>3. CASE e \in Stored
    <3>1. age[e] \in Nat
      BY <1>1
    <3>2. age[x] < age[e] /\ age[e] <= age[z] => age[z] >= age[x] + 2
      BY <2>3, Room
    <3>3. /\ age'[x] = IF age[x] < age[e] THEN age[x] + 1 ELSE age[x]
          /\ age'[z] = IF age[z] < age[e] THEN age[z] + 1 ELSE age[z]
      BY <1>3, <2>3
    <3> QED
      BY <2>1, <3>1, <3>2, <3>3
  <2> QED
    BY <2>2, <2>3
<1> QED
  BY <1>2, <1>3, <1>4, <1>5

LEMMA SaveOrders ==
  ASSUME IInv, AgesInv, NEW w \in Workers, Save(w)
  PROVE  AgesInv'
<1>0. job[w] \in Job /\ job[w].email \in Accounts
  BY Working DEF Save
<1>1. PICK e \in Accounts : /\ e = job[w].email
                            /\ age' = Newest(e) /\ fresh' = fresh \cup {e}
  BY <1>0 DEF Save
<1> DEFINE row == [ok |-> job[w].result # "error", links |-> job[w].links, heavy |-> job[w].heavy]
<1>2. PICK n \in Snapshot : snap' = [snap EXCEPT ![e] = n]
  <2>1. snap' = [snap EXCEPT ![e] = row]
    BY <1>1 DEF Save
  <2>2. row \in Snapshot
    BY <1>0 DEF Snapshot, Job
  <2> QED
    BY <2>1, <2>2
<1>4. Stored' = Stored \cup {e}
  BY <1>2, Sentinels DEF Stored, IInv, RowsTyped
<1>5. /\ age' \in [Accounts -> Nat] /\ age'[e] = 0
      /\ \A x \in Accounts \ Stored' : age'[x] = 0
      /\ \A x \in Stored \ {e} :
              /\ age'[x] = IF e \notin Stored \/ age[x] < age[e] THEN age[x] + 1 ELSE age[x]
              /\ age'[x] > 0
              /\ \A z \in Stored \ {e} : age'[z] <= age'[x] <=> age[z] <= age[x]
  BY <1>1, <1>4, Reordered
<1>6. \A x \in Stored : age[x] \in Nat /\ age'[x] \in Nat
  BY <1>5, BelowFinite
<1>7. ASSUME NEW x \in Stored \ {e}
      PROVE  age'[x] = Cardinality({z \in Stored' \ {x} : age'[z] <= age'[x]})
  <2>1. {z \in Stored' \ {x} : age'[z] <= age'[x]} = Below(x) \cup {e}
    BY <1>4, <1>5, <1>6 DEF Below
  <2>2. IsFiniteSet(Below(x)) /\ age[x] = Cardinality(Below(x)) /\ age[x] \in Nat
    BY BelowFinite
  <2>3. Cardinality(Below(x) \cup {e}) = IF e \in Below(x) THEN age[x] ELSE age[x] + 1
    BY <2>2, FS_AddElement
  <2>4. e \in Below(x) <=> ~(e \notin Stored \/ age[x] < age[e])
    BY <1>6 DEF Below
  <2> QED
    BY <1>5, <2>1, <2>3, <2>4
<1>8. age'[e] = Cardinality({z \in Stored' \ {e} : age'[z] <= age'[e]})
  <2>1. {z \in Stored' \ {e} : age'[z] <= age'[e]} = {}
    BY <1>4, <1>5, <1>6
  <2> QED
    BY <1>5, <2>1, FS_EmptySet
<1>9. Ranked'
  BY <1>4, <1>5, <1>7, <1>8 DEF Ranked
<1>10. fresh' \subseteq Stored'
  BY <1>1, <1>4 DEF AgesInv
<1> QED
  BY <1>5, <1>9, <1>10 DEF AgesInv

\* Time that passes moves no row in the order.
LEMMA AgeOrders == ASSUME AgesInv, Age PROVE AgesInv'
<1>1. UNCHANGED <<snap, age>> /\ fresh' \subseteq fresh
  BY DEF Age
<1> QED
  BY <1>1 DEF AgesInv, Ranked, Stored

LEMMA OrderInitially == Init => OrderInv
<1> SUFFICES ASSUME Init PROVE OrderInv
  OBVIOUS
<1>1. age \in [Accounts -> Nat]
  <2>1. Cardinality(Accounts) \in Nat
    BY SyncAssumption, FS_CardinalityType
  <2> QED
    BY <2>1 DEF Init, SyncInit
<1>2. AgesInv
  BY <1>1 DEF Init, SyncInit, AgesInv
<1>3. CacheTypeOK
  BY DEF Init, CacheInit, CacheTypeOK
<1> QED
  BY <1>2, <1>3, InitInv DEF OrderInv

LEMMA OrderStep == OrderInv /\ [Next]_vars => OrderInv'
<1> SUFFICES ASSUME OrderInv, [Next]_vars PROVE OrderInv'
  OBVIOUS
<1>1. IInv /\ AgesInv /\ CacheTypeOK /\ IInv'
  BY StepInv DEF OrderInv
<1>2. UNCHANGED <<snap, age, fresh>> => AgesInv'
  BY <1>1 DEF AgesInv, Ranked, Stored
<1>3. UNCHANGED cacheVars => CacheTypeOK'
  BY <1>1 DEF CacheTypeOK, cacheVars
<1>4. ASSUME NEW w \in Workers, Works(w) PROVE AgesInv' /\ CacheTypeOK'
  <2>1. UNCHANGED cacheVars
    BY <1>4 DEF Works
  <2>2. UNCHANGED <<snap, age, fresh>>
    BY <1>4 DEF Works, Starts, Start, StartLight, StartForced, StartSingle, StartNext,
                Quiet, FetchFails, FetchLimited, FetchOk, CarryLinks, CarryMetrics, SaveFails
  <2> QED
    BY <1>2, <1>3, <2>1, <2>2
<1>5. ASSUME NEW w \in Workers, Saves(w) PROVE AgesInv' /\ CacheTypeOK'
  <2>1. CacheTypeOK'
    BY <1>1, <1>5 DEF Saves, Outdated, CacheTypeOK, Values, NoMemo
  <2> QED
    BY <1>1, <1>5, <2>1, SaveOrders DEF Saves
<1>6. ASSUME NEW w \in Workers, Finishes(w) PROVE AgesInv' /\ CacheTypeOK'
  <2>1. UNCHANGED <<snap, age, fresh>>
    BY <1>6 DEF Finishes, Finish
  <2>2. CacheTypeOK'
    BY <1>1, <1>6 DEF Finishes, Invalidate, CacheTypeOK
  <2> QED
    BY <1>2, <2>1, <2>2
<1>7. ASSUME Age, UNCHANGED cacheVars PROVE AgesInv' /\ CacheTypeOK'
  BY <1>1, <1>3, <1>7, AgeOrders
<1>8. ASSUME NEW i \in Instances, Views(i) PROVE AgesInv' /\ CacheTypeOK'
  <2>1. UNCHANGED <<snap, age, fresh>>
    BY <1>8 DEF Views, syncVars
  <2>2. Build(i) => CacheTypeOK'
    BY <1>1 DEF Build, CacheTypeOK, Values
  <2>3. Store(i) => CacheTypeOK'
    BY <1>1 DEF Store, CacheTypeOK
  <2>4. Expire(i) => CacheTypeOK'
    BY <1>1 DEF Expire, CacheTypeOK
  <2> QED
    BY <1>2, <1>8, <2>1, <2>2, <2>3, <2>4 DEF Views
<1>9. UNCHANGED vars => AgesInv' /\ CacheTypeOK'
  BY <1>2, <1>3 DEF vars, cacheVars
<1>10. AgesInv' /\ CacheTypeOK'
  BY <1>4, <1>5, <1>6, <1>7, <1>8, <1>9 DEF Next
<1> QED
  BY <1>1, <1>10 DEF OrderInv

LEMMA OrderAlways == Spec => []OrderInv
<1> QED
  BY OrderInitially, OrderStep, PTL DEF Spec

\* Rows, threads and memos keep their types, and the timestamps stay one order
\* without gaps, however many accounts are saved by however many threads.
THEOREM TypeCorrect == Spec => []TypeOK
<1>1. OrderInv => TypeOK
  BY DEF OrderInv, IInv, RowsTyped, AgesInv, TypeOK, SyncTypeOK
<1> QED
  BY <1>1, OrderAlways, PTL

=============================================================================
