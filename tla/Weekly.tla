------------------------------ MODULE Weekly ------------------------------
(* run_weekly: the announcement of a week's top student.  A run counts the   *)
(* accounts that have no row yet, and when every account has one it notifies *)
(* the whole audience and records the week as complete.  A run that gives up *)
(* leaves its rows to a later trigger.  Every row belongs to the key of a     *)
(* week, so one key is followed, until Monday brings the next one.           *)
EXTENDS Naturals

CONSTANTS Students,    \* approved accounts with a GitHub handle, in the order of e-mails
          Audience,    \* every account, of any role
          Requests,    \* concurrent calls of /sync/weekly
          Backend,     \* "sqlite" or "postgres"
          MayCrash,    \* whether a run may be ended half-way
          Idle

ASSUME WeeklyAssumption == /\ Students # {} /\ Students \subseteq Nat
                           /\ Backend \in {"sqlite", "postgres"} /\ MayCrash \in BOOLEAN

VARIABLES over,      \* Monday has come: a run started now works on the next key
          counted,   \* weekly_commits: the accounts with a row
          record,    \* weekly_runs: the status of the week
          told,      \* how often each account was notified of the week, by kind
          run,       \* what each request is doing
          slipped    \* a run lost track of what was sent (see Slip)

vars == <<over, counted, record, told, run, slipped>>
-----------------------------------------------------------------------------
Kinds == {"github", "hackerrank"}
MaxTold == 2    \* bound: "more than once" is enough

\* pending: accounts to count; tried: one was attempted; todo: addresses to
\* notify; notified: the kinds that reached anybody.
Run == [pc : {"check", "resume", "count", "fanout", "record"}, pending : SUBSET Students, tried : BOOLEAN,
        todo : SUBSET Audience, notified : SUBSET Kinds]

\* What stands for no run is no run.
ASSUME Sentinel == Idle \notin Run

\* schema.sql never creates the weekly tables, and its notifications demand a
\* ticket: on Postgres each statement fails, and on SQLite any may.
Succeeds == IF Backend = "postgres" THEN {FALSE} ELSE BOOLEAN

Init == /\ over = FALSE
        /\ counted = {}
        /\ record = "none"
        /\ told = [u \in Audience |-> [k \in Kinds |-> 0]]
        /\ run = [r \in Requests |-> Idle]
        /\ slipped = FALSE
-----------------------------------------------------------------------------
At(r, pc) == run[r] # Idle /\ run[r].pc = pc
Step(r, changes) == run' = [run EXCEPT ![r] = changes]
Done(r) == run' = [run EXCEPT ![r] = Idle]

\* The kinds of the week's announcement that reached somebody through this run.
Notified(r) == run[r] # Idle /\ run[r].notified # {}

\* From now on the week's record does not tell what was sent, or may not.
SlipIf(cond) == slipped' = (slipped \/ cond)

\* A cron's call, the workflow's or an administrator's.
Trigger(r) ==
  /\ run[r] = Idle /\ ~over
  /\ Step(r, [pc |-> "check", pending |-> {}, tried |-> FALSE, todo |-> {}, notified |-> {}])
  /\ SlipIf(\E q \in Requests : run[q] # Idle)
  /\ UNCHANGED <<over, counted, record, told>>

\* Faulty variant: the record of the week is not asked.
CheckSkipped(r) ==
  /\ At(r, "check")
  /\ Step(r, [run[r] EXCEPT !.pc = "resume"])
  /\ UNCHANGED <<over, counted, record, told, slipped>>

\* get_run: a completed week needs nothing; one that cannot be read is new.
Check(r) ==
  /\ At(r, "check")
  /\ \E found \in Succeeds :
       /\ IF found /\ record = "complete"
            THEN Done(r) ELSE Step(r, [run[r] EXCEPT !.pc = "resume"])
       /\ SlipIf(~found)
  /\ UNCHANGED <<over, counted, record, told>>

\* get_commits: the accounts seen to have a row are skipped.
Resume(r, found) ==
  /\ At(r, "resume")
  /\ Step(r, [run[r] EXCEPT !.pc = "count",
                            !.pending = IF found THEN Students \ counted ELSE Students])
  /\ UNCHANGED <<over, counted, record, told, slipped>>

\* Without the list of accounts there is nothing to count or to announce.
Unlisted(r) ==
  /\ At(r, "resume")
  /\ Step(r, [run[r] EXCEPT !.pc = "record"])
  /\ UNCHANGED <<over, counted, record, told, slipped>>

\* The next account is counted and its row stored, or it is left to a later run.
Count(r, s) ==
  /\ At(r, "count")
  /\ s \in run[r].pending /\ \A t \in run[r].pending : s <= t
  /\ Step(r, [run[r] EXCEPT !.pending = @ \ {s}, !.tried = TRUE])
  /\ \E stored \in Succeeds : counted' = IF stored THEN counted \cup {s} ELSE counted
  /\ UNCHANGED <<over, record, told, slipped>>

\* The budget is looked at before each account, and is never spent at the first.
Exhaust(r) ==
  /\ At(r, "count") /\ run[r].tried /\ run[r].pending # {}
  /\ Step(r, [run[r] EXCEPT !.pending = {}])
  /\ UNCHANGED <<over, counted, record, told, slipped>>

\* Faulty variant: whoever was counted is ranked.
RankAny(r) ==
  /\ At(r, "count") /\ run[r].pending = {}
  /\ Step(r, IF counted # {} THEN [run[r] EXCEPT !.pc = "fanout", !.todo = Audience]
                             ELSE [run[r] EXCEPT !.pc = "record"])
  /\ UNCHANGED <<over, counted, record, told, slipped>>

\* The stored rows are read again: the week is announced when they cover every
\* account and the audience is listed too; either read may fail.
Rank(r) ==
  /\ At(r, "count") /\ run[r].pending = {}
  /\ \/ Step(r, [run[r] EXCEPT !.pc = "record"])
     \/ /\ TRUE \in Succeeds /\ Students \subseteq counted
        /\ Step(r, [run[r] EXCEPT !.pc = "fanout", !.todo = Audience])
  /\ UNCHANGED <<over, counted, record, told, slipped>>

\* The two notifications of one address; either may fail.
Deliver(r, u) ==
  /\ At(r, "fanout") /\ u \in run[r].todo
  /\ \E got \in SUBSET Kinds :
       /\ got # {} => TRUE \in Succeeds
       /\ told' = [told EXCEPT ![u] =
                     [k \in Kinds |-> IF k \in got /\ @[k] < MaxTold THEN @[k] + 1 ELSE @[k]]]
       /\ Step(r, [run[r] EXCEPT !.todo = @ \ {u}, !.notified = @ \cup got])
  /\ UNCHANGED <<over, counted, record, slipped>>

\* The run is about to store its status.
Ends(r) == At(r, "record") \/ (At(r, "fanout") /\ run[r].todo = {})

\* Faulty variant: any status is stored.
RecordUnchecked(r) ==
  /\ Ends(r)
  /\ record' = "already_published"
  /\ Done(r)
  /\ UNCHANGED <<over, counted, told, slipped>>

\* save_run: complete when a GitHub announcement reached anybody, else partial.
Record(r) ==
  /\ Ends(r)
  /\ \E stored \in Succeeds :
       LET status == IF "github" \in run[r].notified THEN "complete" ELSE "partial" IN
         /\ record' = IF stored THEN status ELSE record
         /\ SlipIf(Notified(r) /\ ~(stored /\ status = "complete"))
  /\ Done(r)
  /\ UNCHANGED <<over, counted, told>>

\* The platform ends the function, or the process restarts.
Crash(r) ==
  /\ MayCrash /\ run[r] # Idle
  /\ SlipIf(Notified(r))
  /\ Done(r)
  /\ UNCHANGED <<over, counted, record, told>>

\* Monday: week_window gives the next key.
EndWeek == /\ ~over /\ over' = TRUE
           /\ UNCHANGED <<counted, record, told, run, slipped>>

Work(r) == \/ Check(r) \/ Unlisted(r) \/ (\E found \in Succeeds : Resume(r, found))
           \/ Rank(r) \/ Record(r) \/ Exhaust(r)
           \/ \E s \in Students : Count(r, s)
           \/ \E u \in Audience : Deliver(r, u)

Next == EndWeek \/ \E r \in Requests : Trigger(r) \/ Work(r) \/ Crash(r)

Spec == Init /\ [][Next]_vars
-----------------------------------------------------------------------------
\* More fairness than the code has, to show that a week may fail even so.  Triggers
\* keep coming, though both schedules call once, on Sunday; requests keep running; what
\* may fail does not fail for ever, and not every run crashes.
Fairness ==
  /\ \A r \in Requests : WF_vars(Trigger(r)) /\ SF_vars(Work(r))
  /\ SF_vars(\E r \in Requests : Resume(r, TRUE) /\ TRUE \in Succeeds)
  /\ \A s \in Students : SF_vars(\E r \in Requests : Count(r, s) /\ counted' # counted)
  /\ SF_vars(\E r \in Requests : Rank(r) /\ run'[r].pc = "fanout")
  /\ SF_vars(\E r \in Requests, u \in Audience : Deliver(r, u) /\ "github" \in run'[r].notified)
  /\ SF_vars(\E r \in Requests : Record(r) /\ record' # record)

FairSpec == Spec /\ Fairness
-----------------------------------------------------------------------------
TypeOK == /\ over \in BOOLEAN /\ slipped \in BOOLEAN
          /\ counted \subseteq Students
          /\ record \in {"none", "partial", "complete"}
          /\ told \in [Audience -> [Kinds -> 0..MaxTold]]
          /\ run \in [Requests -> Run \cup {Idle}]

\* Nobody is told of a week before every account was counted, in this run or an
\* earlier one.
ToldAfterAllCounted == (\E u \in Audience, k \in Kinds : told[u][k] > 0) => counted = Students

\* "Re-running a published week is a no-op": nobody is told twice, unless two runs
\* overlapped, the record could not be read, or a run that had told somebody ended
\* without recording the week as complete.
ToldTwiceOnlyBySlip == ~slipped => \A u \in Audience, k \in Kinds : told[u][k] <= 1

\* A published week stays published, with the same exceptions.
CompleteStays == [][record = "complete" /\ ~slipped => record' = "complete"]_vars

\* The tables alone follow the announcement's promise.
Promise == INSTANCE Announcement WITH published <- record = "complete", lost <- slipped
AnnouncementSpec == Promise!Spec

\* "A later trigger resumes from stored rows": a week whose key lasts, and is
\* triggered for as long, is published in the end.  On Postgres it never is.
WeekPublished == []~over => <>(record = "complete")
=============================================================================
