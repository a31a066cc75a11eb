---------------------------- MODULE SnapshotSync ----------------------------
(* The account-snapshot table and the syncs that rebuild its rows.  A light  *)
(* sync fetches the account and its repositories; what only a heavy sync or   *)
(* the roster knows it copies from the stored row.  A heavy sync fetches      *)
(* everything.  Either saves the whole row, without looking at it again.      *)
(* Times are kept as an order: which row is stalest, and which are younger    *)
(* than the freshness window.                                                 *)
EXTENDS Naturals, FiniteSets

CONSTANTS Accounts,   \* approved accounts with a GitHub handle
          Workers,    \* threads that run syncs
          Ops,        \* the kinds of sync that are started
          ReadsFail,  \* whether a read of the table may fail and find nothing
          NoSnap, Idle

VARIABLES snap,   \* the stored row of each account
          age,    \* how many rows were synced after this one
          fresh,  \* the accounts whose row is younger than SYNC_TTL_SECONDS
          job     \* what each worker is doing

syncVars == <<snap, age, fresh, job>>
-----------------------------------------------------------------------------
\* ok: status; links: the profile links; heavy: commits, PRs and team figures, all
\* of them as they were fetched.
Snapshot == [ok : BOOLEAN, links : BOOLEAN, heavy : BOOLEAN]

Light == {"light", "forced"}
Heavy == {"next", "single"}

\* behind: another save of the account came since this sync looked at the row,
\* or looking failed.
Job == [email : Accounts, op : Light \cup Heavy,
        pc : {"fetch", "links", "metrics", "save", "invalidate"},
        result : {"none", "full", "partial", "error"},
        links : BOOLEAN, heavy : BOOLEAN, behind : BOOLEAN]

NewJob(e, op) == [email |-> e, op |-> op, pc |-> "fetch", result |-> "none",
                  links |-> FALSE, heavy |-> FALSE, behind |-> FALSE]

Has(e, field) == snap[e] # NoSnap /\ snap[e][field]

\* A read finds the row, or fails and is taken for an absent row.
Looks == IF ReadsFail THEN BOOLEAN ELSE {TRUE}

Stored == {e \in Accounts : snap[e] # NoSnap}

\* The rows are in one order, and an account without a row has no age.
Ranked == \A e \in Accounts :
            age[e] = IF e \in Stored THEN Cardinality({x \in Stored \ {e} : age[x] <= age[e]}) ELSE 0

ASSUME SyncAssumption == Ops \subseteq Light \cup Heavy /\ ReadsFail \in BOOLEAN
                           /\ IsFiniteSet(Accounts)

\* What stands for no row is no row, and what stands for no sync is no sync.
ASSUME Sentinels == NoSnap \notin Snapshot /\ Idle \notin Job

\* Every row starts as the roster left it, with profile links, or is missing.
SyncInit ==
  /\ snap \in [Accounts -> {NoSnap, [ok |-> TRUE, links |-> TRUE, heavy |-> FALSE]}]
  /\ age \in [Accounts -> 0..(Cardinality(Accounts) - 1)] /\ Ranked
  /\ fresh = {}
  /\ job = [w \in Workers |-> Idle]
-----------------------------------------------------------------------------
(* Starting a sync.                                                          *)

Start(w, e, op) == /\ job[w] = Idle /\ op \in Ops
                   /\ job' = [job EXCEPT ![w] = NewJob(e, op)]
                   /\ UNCHANGED <<snap, age, fresh>>

\* A login, an approval or the nightly sweep; a row seen to be fresh is skipped.
StartLight(w, e) == \E found \in Looks :
                      ~(found /\ Has(e, "ok") /\ e \in fresh) /\ Start(w, e, "light")

\* /debug/force_sync_all and the forced sweep.
StartForced(w, e) == Start(w, e, "forced")

\* POST /api/sync/single/{email}
StartSingle(w, e) == Start(w, e, "single")

\* The accounts whose row is the oldest.
Oldest(rows) == {e \in rows : \A x \in rows : age[x] <= age[e]}

\* The accounts without a row, or else the one with the oldest.
Stalest == IF Stored # Accounts THEN Accounts \ Stored ELSE Oldest(Stored)

\* POST /api/sync/heavy/next, the scheduled call: without the timestamps every
\* account looks unsynced.
StartNext(w) == \E found \in Looks :
                  \E e \in IF found THEN Stalest ELSE Accounts : Start(w, e, "next")
-----------------------------------------------------------------------------
(* The steps of a sync.                                                      *)

At(w, pc) == job[w] # Idle /\ job[w].pc = pc
Step(w, changes) == job' = [job EXCEPT ![w] = changes]
Done(w) == job' = [job EXCEPT ![w] = Idle]

Fail(w, pc, behind) == Step(w, [job[w] EXCEPT !.pc = pc, !.result = "error", !.behind = behind])

\* Faulty variant: an unforced failure overwrites a good row.
FetchFailsUnguarded(w) ==
  /\ At(w, "fetch")
  /\ Fail(w, IF job[w].op \in Heavy THEN "save" ELSE "links", FALSE)
  /\ UNCHANGED <<snap, age, fresh>>

\* A failed fetch: a heavy sync stores a bare error row; a light one keeps the
\* profile links, and unless forced it leaves a row it sees to be good alone.
FetchFails(w) ==
  /\ At(w, "fetch")
  /\ \/ job[w].op \in Heavy /\ Fail(w, "save", FALSE)
     \/ job[w].op = "forced" /\ Fail(w, "links", FALSE)
     \/ /\ job[w].op = "light"
        /\ \E found \in Looks :
             IF found /\ Has(job[w].email, "ok") THEN Done(w) ELSE Fail(w, "links", ~found)
  /\ UNCHANGED <<snap, age, fresh>>

\* GitHub's rate limit with the last token: a heavy sync stores nothing and ends
\* (with a token left it starts its fetch over, which is no step here); a light
\* one takes it as any other failure.
FetchLimited(w) ==
  /\ At(w, "fetch") /\ job[w].op \in Heavy
  /\ Done(w)
  /\ UNCHANGED <<snap, age, fresh>>

\* The account was fetched; a heavy sync may miss some of its metrics.
FetchOk(w) ==
  /\ At(w, "fetch")
  /\ \E result \in {"full", "partial"} :
       /\ job[w].op \in Light => result = "partial"
       /\ Step(w, [job[w] EXCEPT !.pc = "links", !.result = result,
                                 !.heavy = result = "full"])
  /\ UNCHANGED <<snap, age, fresh>>

\* Faulty variant: only what the fetch itself found is kept.
CarryLinksNothing(w) ==
  /\ At(w, "links")
  /\ Step(w, [job[w] EXCEPT !.pc = IF job[w].result = "error" THEN "save" ELSE "metrics"])
  /\ UNCHANGED <<snap, age, fresh>>

\* _previous_profile_links: what is blank is filled from the stored row.
CarryLinks(w) ==
  /\ At(w, "links")
  /\ \E found \in Looks :
       Step(w, [job[w] EXCEPT !.pc = IF job[w].result = "error" THEN "save" ELSE "metrics",
                              !.links = found /\ Has(job[w].email, "links"),
                              !.behind = (@ /\ job[w].result = "error") \/ ~found])
  /\ UNCHANGED <<snap, age, fresh>>

\* _carry_forward_heavy_metrics, from the row as it is at this later read.  Only a
\* light sync takes its figures: after a heavy one none is None, since what could
\* not be fetched was filled with zeros.
CarryMetrics(w) ==
  /\ At(w, "metrics")
  /\ \E found \in Looks :
       Step(w, [job[w] EXCEPT !.pc = "save",
                              !.heavy = IF job[w].op \in Light THEN found /\ Has(job[w].email, "heavy")
                                        ELSE @,
                              !.behind = @ \/ ~found])
  /\ UNCHANGED <<snap, age, fresh>>

\* The other syncs of e have seen a row that is no more.
Overtake(w, e) == [v \in Workers |-> IF v # w /\ job[v] # Idle /\ job[v].email = e
                                       THEN [job[v] EXCEPT !.behind = TRUE]
                                       ELSE job[v]]

\* The row of e has the latest synced_at.
Newest(e) == [x \in Accounts |->
                IF x = e \/ x \notin Stored THEN 0
                ELSE IF e \notin Stored \/ age[x] < age[e] THEN age[x] + 1 ELSE age[x]]

\* Faulty variant: the row keeps its old place among the timestamps.
SaveUnstamped(w) ==
  /\ At(w, "save")
  /\ LET j == job[w]
         e == j.email
     IN  /\ snap' = [snap EXCEPT ![e] = [ok |-> j.result # "error", links |-> j.links,
                                         heavy |-> j.heavy]]
         /\ age' = IF e \in Stored THEN age ELSE Newest(e)
         /\ fresh' = fresh \cup {e}
         /\ job' = [Overtake(w, e) EXCEPT ![w] = [j EXCEPT !.pc = "invalidate"]]

\* save_snapshot replaces the row and its synced_at.
Save(w) ==
  /\ At(w, "save")
  /\ LET j == job[w]
         e == j.email
     IN  /\ snap' = [snap EXCEPT ![e] = [ok |-> j.result # "error", links |-> j.links,
                                         heavy |-> j.heavy]]
         /\ age' = Newest(e)
         /\ fresh' = fresh \cup {e}
         /\ job' = [Overtake(w, e) EXCEPT ![w] = [j EXCEPT !.pc = "invalidate"]]

\* The write failed: "storage", or the heavy sync's own handler gives up.
SaveFails(w) ==
  /\ At(w, "save")
  /\ Done(w)
  /\ UNCHANGED <<snap, age, fresh>>

\* The row is committed; then the memo goes, and after an error the single
\* sync tries its next token.
Finish(w) ==
  /\ At(w, "invalidate")
  /\ \/ Done(w)
     \/ /\ job[w].op = "single" /\ job[w].result = "error"
        /\ Step(w, NewJob(job[w].email, "single"))
  /\ UNCHANGED <<snap, age, fresh>>

\* Time passes: the oldest fresh row leaves the freshness window.
Age == /\ \E e \in Oldest(fresh) : fresh' = fresh \ {e}
       /\ UNCHANGED <<snap, age, job>>

Quiet(w) == FetchFails(w) \/ FetchLimited(w) \/ FetchOk(w) \/ CarryLinks(w)
              \/ CarryMetrics(w) \/ SaveFails(w)

Starts(w) == \/ \E e \in Accounts : StartLight(w, e) \/ StartForced(w, e) \/ StartSingle(w, e)
             \/ StartNext(w)

SyncTypeOK == /\ snap \in [Accounts -> Snapshot \cup {NoSnap}]
              /\ age \in [Accounts -> Nat] /\ Ranked
              /\ fresh \subseteq Stored
              /\ job \in [Workers -> Job \cup {Idle}]
=============================================================================
