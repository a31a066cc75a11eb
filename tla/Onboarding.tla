----------------------------- MODULE Onboarding -----------------------------
(* The registrar workflow of Student Analytics: the users table, the routes  *)
(* that create, review, re-link and remove a student account, and the        *)
(* snapshot syncs those routes start.                                        *)
(*                                                                           *)
(* Every deployed instance runs its "async def" handlers on one event loop.  *)
(* The database calls inside a handler are synchronous, so two handlers of   *)
(* one instance interleave only where one awaits (the snapshot syncs), while *)
(* handlers of different instances interleave between any two statements.    *)
(* loop[i] is the handler instance i is in the middle of; each action below  *)
(* is one statement of it.  A request that is refused before its first write *)
(* changes nothing and is not an action.                                     *)
EXTENDS Naturals, FiniteSets

CONSTANTS Emails,       \* addresses that may own an account
          Staff,        \* addresses of administrators: a row, no submission
          Prns,         \* student roll numbers
          Handles,      \* GitHub logins
          Instances,    \* server instances, one event loop each
          Postgres,     \* TRUE: the db.py leg, FALSE: the SQLite leg
          ReadsMayFail, \* TRUE: a lookup may fail (and is then swallowed)
          MaxId,        \* bound: rows ever inserted
          MaxJobs,      \* bound: syncs running at once
          NoPrn, NoHandle

ASSUME OnboardingAssumption ==
  /\ Staff \subseteq Emails
  /\ Postgres \in BOOLEAN
  /\ ReadsMayFail \in BOOLEAN
  /\ MaxId \in Nat
  /\ MaxJobs \in Nat \ {0}
  /\ NoPrn \notin Prns
  /\ NoHandle \notin Handles

VARIABLES users,   \* the users table, by address
          snaps,   \* id of the row each stored snapshot was computed for, 0: none
          loop,    \* the handler each instance is in the middle of
          jobs,    \* snapshot syncs running in worker threads
          nextId,  \* the table's id sequence
          behind   \* history: instances whose handler acts on a reading of the
                   \* roll numbers that failed or no longer holds

vars == <<users, snaps, loop, jobs, nextId, behind>>
-----------------------------------------------------------------------------
Decisions == {"pending", "approved", "rejected"}
Statuses  == Decisions \cup {"absent", "none"}

\* The columns of a users row that the workflow reads or writes.
Row == [id : 0..MaxId, status : Statuses, prn : Prns \cup {NoPrn},
        linked : Handles \cup {NoHandle}, github : Handles \cup {NoHandle},
        verified : BOOLEAN]

NoRow    == [id |-> 0, status |-> "absent", prn |-> NoPrn, linked |-> NoHandle,
             github |-> NoHandle, verified |-> FALSE]
BareRow  == [NoRow EXCEPT !.status = "none"]   \* never submitted a record

Exists(e) == users[e].status # "absent"
Active(r) == r.status \in {"pending", "approved"}

\* Where a handler stands: its next statement, and what it holds in locals.
Steps    == {"insert", "promote", "decide", "delete", "clear", "profile", "upsert", "sync"}
Request  == [pc : Steps, email : Emails, row : Row, target : Decisions, blind : BOOLEAN]
Idle     == [pc |-> "idle"]
Raised   == [pc |-> "raised"]
Job      == [email : Emails, id : 0..MaxId]

At(i, step)  == loop[i].pc = step
Free(i)      == loop[i].pc \in {"idle", "raised"}
Hold(pc, e, r, d) == [pc |-> pc, email |-> e, row |-> r, target |-> d, blind |-> FALSE]
Goto(i, step) == loop' = [loop EXCEPT ![i] = [@ EXCEPT !.pc = step]]
Done(i)       == loop' = [loop EXCEPT ![i] = Idle]
Raise(i)      == loop' = [loop EXCEPT ![i] = Raised]

Init == /\ users  = [e \in Emails |-> IF e \in Staff THEN BareRow ELSE NoRow]
        /\ snaps  = [e \in Emails |-> 0]
        /\ loop   = [i \in Instances |-> Idle]
        /\ jobs   = {}
        /\ nextId = 1
        /\ behind = {}
-----------------------------------------------------------------------------
(* The storage functions.                                                    *)

\* Faulty variant: only approved holders count.
PrnTakenApprovedOnly(p, e) ==
  \E o \in Emails \ {e} : users[o].prn = p /\ users[o].status = "approved"

\* Somebody else holds the roll number behind a pending or approved record.
PrnTaken(p, e) == \E o \in Emails \ {e} : users[o].prn = p /\ Active(users[o])

\* What the lookup answers, ok telling whether the database did.  A failed
\* lookup answers "free".  The Postgres leg indexes a dictionary row by
\* position, so finding an owner raises.
Answered == IF ReadsMayFail THEN BOOLEAN ELSE {TRUE}

PrnLookup(p, e, ok) ==
  IF ok /\ PrnTaken(p, e) THEN IF Postgres THEN "raises" ELSE "taken" ELSE "free"

\* INSERT ... ON CONFLICT (email) DO NOTHING of a finished sign-up.
InsertUser(e, r) == /\ ~Exists(e)
                    /\ nextId <= MaxId
                    /\ users'  = [users EXCEPT ![e] = [r EXCEPT !.id = nextId]]
                    /\ nextId' = nextId + 1

\* Faulty variants: an unknown status is stored as it came; a decision against
\* the student keeps the approval stamp; the roll number is not passed through.
WriteForgetsPrn(e, r, d) ==
  users' = [users EXCEPT ![e] = [@ EXCEPT !.prn = NoPrn, !.status = d,
                                          !.verified = (d = "approved")]]
WriteUncheckedStatus(e, r, d) ==
  users' = [users EXCEPT ![e] = [@ EXCEPT !.status = IF d = "rejected" THEN "" ELSE d]]
WriteKeepsStamp(e, r, d) ==
  users' = [users EXCEPT ![e] = [@ EXCEPT !.prn = r.prn, !.status = d,
                                          !.verified = @ \/ d = "approved"]]

\* UPDATE of the onboarding columns: all of them, from the caller's copy.
WriteOnboarding(e, r, d) ==
  users' = [users EXCEPT ![e] = [@ EXCEPT !.prn = r.prn, !.status = d,
                                          !.verified = (d = "approved")]]

WriteGithub(e, h) == users' = [users EXCEPT ![e].github = h]
WriteLinked(e, h) == users' = [users EXCEPT ![e].linked = h]
DeleteUser(e)     == users' = [users EXCEPT ![e] = NoRow]
-----------------------------------------------------------------------------
(* POST /signup/phase/4: check the address and the roll number, then insert. *)

NewRow(p, h) == [id |-> 0, status |-> "pending", prn |-> p, linked |-> h,
                 github |-> h, verified |-> FALSE]

SignupCheck(i, e, p, h, ok) ==
  /\ Free(i)
  /\ ~Exists(e)
  /\ \/ /\ PrnLookup(p, e, ok) = "free"
        /\ loop' = [loop EXCEPT ![i] = [Hold("insert", e, NewRow(p, h), "pending") EXCEPT !.blind = ~ok]]
     \/ /\ PrnLookup(p, e, ok) = "raises"
        /\ Raise(i)
  /\ UNCHANGED <<users, snaps, jobs, nextId>>

SignupInsert(i) ==
  /\ At(i, "insert")
  /\ \/ InsertUser(loop[i].email, loop[i].row)
     \/ UNCHANGED <<users, nextId>>   \* address taken meanwhile, or write failed
  /\ Done(i)
  /\ UNCHANGED <<snaps, jobs>>
-----------------------------------------------------------------------------
(* POST /onboarding/approve, /reject and /disapprove.                        *)

ReviewRead(i, e, d) ==
  /\ Free(i)
  /\ users[e].status \in Decisions
  /\ LET promotes == d = "approved" /\ users[e].linked # NoHandle
     IN  loop' = [loop EXCEPT ![i] =
                    Hold(IF promotes THEN "promote" ELSE "decide", e, users[e], d)]
  /\ UNCHANGED <<users, snaps, jobs, nextId>>

\* Promote the linked handle the review read; a row that is gone is a failure.
ReviewPromote(i) ==
  /\ At(i, "promote")
  /\ \/ /\ Exists(loop[i].email)
        /\ WriteGithub(loop[i].email, loop[i].row.linked)
        /\ Goto(i, "decide")
     \/ /\ UNCHANGED users
        /\ Done(i)
  /\ UNCHANGED <<snaps, jobs, nextId>>

\* Faulty variant: an upsert instead of an update.
ReviewUpserts(i) ==
  /\ At(i, "decide")
  /\ WriteOnboarding(loop[i].email, loop[i].row, loop[i].target)
  /\ Done(i)
  /\ UNCHANGED <<snaps, jobs, nextId>>

\* Write the decision together with every onboarding column read before.
ReviewDecide(i) ==
  /\ At(i, "decide")
  /\ \/ /\ Exists(loop[i].email)
        /\ WriteOnboarding(loop[i].email, loop[i].row, loop[i].target)
        /\ IF loop[i].target = "approved" THEN Goto(i, "sync") ELSE Done(i)
     \/ /\ UNCHANGED users
        /\ Done(i)
  /\ UNCHANGED <<snaps, jobs, nextId>>
-----------------------------------------------------------------------------
(* GET /auth/github/callback in link mode: the verified column is written    *)
(* first, the candidate identity second; neither result is checked.          *)

LinkGithub(i, e, h) ==
  /\ Free(i)
  /\ (Exists(e) /\ WriteGithub(e, h)) \/ UNCHANGED users
  /\ loop' = [loop EXCEPT ![i] =
                Hold("profile", e, [users[e] EXCEPT !.linked = h], "pending")]
  /\ UNCHANGED <<snaps, jobs, nextId>>

LinkProfile(i) ==
  /\ At(i, "profile")
  /\ \/ Exists(loop[i].email) /\ WriteLinked(loop[i].email, loop[i].row.linked)
     \/ UNCHANGED users
  /\ Goto(i, "sync")
  /\ UNCHANGED <<snaps, jobs, nextId>>
-----------------------------------------------------------------------------
(* The snapshot syncs: started by an approval or a link, awaited in a worker *)
(* thread, saved without looking at the users table again.                   *)

StartSync(i) ==
  /\ At(i, "sync")
  /\ Cardinality(jobs) < MaxJobs
  /\ LET e == loop[i].email
     IN  jobs' = IF users[e].github # NoHandle
                   THEN jobs \cup {[email |-> e, id |-> users[e].id]}
                   ELSE jobs
  /\ Done(i)
  /\ UNCHANGED <<users, snaps, nextId>>

\* A password sign-in refreshes the student's own snapshot in the same way.
LoginSync(e) ==
  /\ Cardinality(jobs) < MaxJobs
  /\ e \notin Staff
  /\ users[e].github # NoHandle
  /\ jobs' = jobs \cup {[email |-> e, id |-> users[e].id]}
  /\ UNCHANGED <<users, snaps, loop, nextId>>

FinishSync(j) ==
  /\ j \in jobs
  /\ jobs' = jobs \ {j}
  /\ snaps' = [snaps EXCEPT ![j.email] = j.id] \/ UNCHANGED snaps
  /\ UNCHANGED <<users, loop, nextId>>
-----------------------------------------------------------------------------
(* GET /auth/google/callback of a student: only an existing account signs in, *)
(* but the upsert that follows inserts a bare row when the account has been  *)
(* removed meanwhile.  It leaves every modelled column of a stored row alone. *)

GoogleRead(i, e) ==
  /\ Free(i)
  /\ e \notin Staff
  /\ Exists(e)
  /\ loop' = [loop EXCEPT ![i] = Hold("upsert", e, NoRow, "pending")]
  /\ UNCHANGED <<users, snaps, jobs, nextId>>

\* Afterwards the account is read again for the sync, whatever the upsert did.
GoogleUpsert(i) ==
  /\ At(i, "upsert")
  /\ InsertUser(loop[i].email, BareRow) \/ UNCHANGED <<users, nextId>>
  /\ Goto(i, "sync")
  /\ UNCHANGED <<snaps, jobs>>
-----------------------------------------------------------------------------
(* POST /onboarding/remove: look the row up, delete it, clear the snapshot.  *)

RemoveRead(i, e) ==
  /\ Free(i)
  /\ e \notin Staff
  /\ Exists(e)
  /\ loop' = [loop EXCEPT ![i] = Hold("delete", e, NoRow, "pending")]
  /\ UNCHANGED <<users, snaps, jobs, nextId>>

\* Faulty variant: the row is deleted and the snapshot left to expire.
RemoveForgetsSnapshot(i) ==
  /\ At(i, "delete")
  /\ DeleteUser(loop[i].email)
  /\ Done(i)
  /\ UNCHANGED <<snaps, jobs, nextId>>

RemoveDelete(i) ==
  /\ At(i, "delete")
  /\ \/ /\ Exists(loop[i].email)
        /\ DeleteUser(loop[i].email)
        /\ Goto(i, "clear")
     \/ /\ UNCHANGED users
        /\ Done(i)
  /\ UNCHANGED <<snaps, jobs, nextId>>

RemoveClear(i) ==
  /\ At(i, "clear")
  /\ snaps' = [snaps EXCEPT ![loop[i].email] = 0] \/ UNCHANGED snaps
  /\ Done(i)
  /\ UNCHANGED <<users, jobs, nextId>>
-----------------------------------------------------------------------------
(* POST /onboarding/admin_edit: a valid edit of an existing row passes       *)
(* db_set_onboarding an argument it does not take and raises.                *)

EditRaises(i, e, p, ok) ==
  /\ Free(i)
  /\ \/ PrnLookup(p, e, ok) = "raises"
     \/ PrnLookup(p, e, ok) = "free" /\ Exists(e)
  /\ Raise(i)
  /\ UNCHANGED <<users, snaps, jobs, nextId>>
-----------------------------------------------------------------------------
Step(i) == \/ SignupInsert(i) \/ ReviewPromote(i) \/ ReviewDecide(i) \/ LinkProfile(i)
           \/ GoogleUpsert(i) \/ StartSync(i) \/ RemoveDelete(i) \/ RemoveClear(i)

Arrive(i) == \E e \in Emails :
               \/ \E p \in Prns, h \in Handles, ok \in Answered : SignupCheck(i, e, p, h, ok)
               \/ \E d \in Decisions : ReviewRead(i, e, d)
               \/ \E h \in Handles : LinkGithub(i, e, h)
               \/ GoogleRead(i, e)
               \/ RemoveRead(i, e)
               \/ \E p \in Prns, ok \in Answered : EditRaises(i, e, p, ok)

\* History: a sign-up is behind once its own lookup failed or somebody else has
\* taken its roll number, a review once the roll number of its address changed.
FallsBehind(i) ==
  CASE loop'[i].pc = "insert"               ->
         IF At(i, "insert") THEN PrnTaken(loop[i].row.prn, loop[i].email)'
                                   /\ ~PrnTaken(loop[i].row.prn, loop[i].email)
                            ELSE loop'[i].blind
    [] loop'[i].pc \in {"promote", "decide"} ->
         users'[loop'[i].email].prn # users[loop'[i].email].prn
    [] OTHER                                -> FALSE

Watch == behind' = {i \in Instances : \/ FallsBehind(i)
                                      \/ i \in behind /\ loop'[i].pc \in {"insert", "promote", "decide"}}

Act == \/ \E i \in Instances : Arrive(i) \/ Step(i)
       \/ \E e \in Emails : LoginSync(e)
       \/ \E j \in jobs : FinishSync(j)

Next == Act /\ Watch

Spec == Init /\ [][Next]_vars
-----------------------------------------------------------------------------
TypeOK == /\ users  \in [Emails -> Row]
          /\ snaps  \in [Emails -> 0..MaxId]
          /\ loop   \in [Instances -> Request \cup {Idle, Raised}]
          /\ jobs   \subseteq Job
          /\ nextId \in 1..(MaxId + 1)
          /\ behind \subseteq Instances

\* The approval stamp and the status never disagree, whichever reviewers race:
\* every handler that moves the status rewrites github_verified_at with it.
VerifiedIffApproved == \A e \in Emails : users[e].verified <=> users[e].status = "approved"

\* Two different accounts hold one roll number, both pending or approved.
PrnClash == \E a, b \in Emails : /\ a # b
                                 /\ Active(users[a]) /\ Active(users[b])
                                 /\ users[a].prn = users[b].prn

\* A PRN held by a pending or approved account is held by no other (Features
\* List row 4).
ActivePrnUnique == ~PrnClash

\* A PRN comes into two active hands only by a review that takes a rejected
\* submission back, or by a sign-up or review of a handler that was behind: its
\* PRN lookup failed, or another instance moved the number after it looked.
\* What the check before the insert (prn_taken) is worth, and no more.
PrnClashExplained ==
  [][(~PrnClash /\ PrnClash') =>
        \/ \E e \in Emails : users[e].status = "rejected" /\ Active(users'[e])
        \/ \E i \in behind : loop[i].pc \in {"insert", "decide"} /\ loop'[i] # loop[i]]_vars

\* The roll number of a row changes only by a review that was behind: it read
\* the record before another handler removed and re-created the account.  No
\* other review changes it, although every review rewrites the column.
PrnChangeExplained ==
  [][\A e \in Emails : users'[e].id = users[e].id =>
        \/ users'[e].prn = users[e].prn
        \/ \E i \in behind : At(i, "decide") /\ loop[i].email = e]_vars

\* The address has a snapshot but no account, and no removal is about to clear it.
Orphan(e) == /\ ~Exists(e)
             /\ snaps[e] # 0
             /\ \A i \in Instances : ~(At(i, "clear") /\ loop[i].email = e)

\* A removed account leaves its snapshot behind only when a sync of it was still
\* running, or when the clearing that follows the removal failed.
OrphanOnlyByLateSync ==
  [][\A e \in Emails : (~Orphan(e) /\ Orphan(e)') =>
        \/ \E j \in jobs \ jobs' : j.email = e
        \/ \E i \in Instances : At(i, "clear") /\ loop[i].email = e]_vars

\* The status column alone follows the account life cycle.
Lifecycle == INSTANCE AccountLifecycle WITH status <- [e \in Emails |-> users[e].status]
LifecycleSpec == Lifecycle!Spec
=============================================================================
