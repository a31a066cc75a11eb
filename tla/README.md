# Student Analytics: verification

Student Analytics is a FastAPI server (`src/app`) that registers students, has
their records reviewed, collects their GitHub and HackerRank activity into one
snapshot per account, and shows dashboards and announcements built from those
snapshots.  It runs on serverless instances or on one process, with Postgres
(`db.py`) or SQLite files as storage.  Storage helpers swallow their errors and
answer a default, and there are no locks across requests: what can go wrong is
in the interleaving of handlers, of statements that fail, and of old copies
written back.  That is what the modules here are about.

## 1. Inventory

| Part | State it keeps | Operations | Interacts with | What makes it correct |
|---|---|---|---|---|
| Registrar workflow (`main.py` onboarding routes, `auth.py`, `db.py`) | `users` table: status, PRN, linked and verified handles, approval stamp | final sign-up, sign-in with Google, approve / reject / disapprove, link GitHub, admin edit, remove | starts snapshot syncs; read by every view | the stamp follows the status; one active holder of a PRN; a removed account stays removed |
| Sign-up wizard (`main.py` signup routes, `secure_draft.py`) | a draft sealed in a cookie, an OAuth state cookie; one row at the end | four phases, save, three OAuth round trips, final commit | commits into `users` and `privacy_prefs` | the phase gate holds whatever is replayed; links are not lost; done means stored |
| Snapshot sync (`sync.py`, `accounts.py`) | `account_snapshots` | login, nightly, forced, single and rotating heavy syncs | GitHub client; started by the registrar routes, logins and schedules; invalidates the view memo | what a sync cannot fetch it carries forward; a failure does not hide a good row; the rotation reaches everyone |
| View memo (`view_cache.py`) | one memo per process | get, invalidate | filled by page views, dropped by writers | it comes to show the table |
| Weekly announcement (`weekly.py`) | `weekly_commits`, `weekly_runs`, notifications | one run: check, count, rank, notify, record | two schedules, manual triggers | complete before it is announced, announced once |
| Support tickets (`support.py`, `db.py`, `main.py`) | tickets with one reply slot per side, notifications | raise, update, follow up, reply, resolve | notifications shared with the weekly run and certificates | one reply a round; a question can be answered; a resolved ticket stays resolved and its owner is told |
| Certificates (`certificates.py`, `main.py`) | one row per certificate, its status | queue, approve, reject, delete | notifications | its owner was told what it is |
| Faculty invites and accounts (`auth.py`, `db.py`) | `users`, `faculty`, `faculty_invites` | mint, sign in with an invite, set up, mark used, sign in with Google, register | OAuth | one invite registers one account; an address is in one table; a sign-in keeps the role |
| Maps: blacklist, hidden repositories (`main.py`, `db.py`) | whole maps under one key, a memo per process, a copy in the cache | toggle, read, repair of a lost map | the boards and the repositories page | no toggle is lost |
| HackerRank sync (`main.py`, `.github/scripts/hr_sync.py`) | one snapshot per handle, a memo per process | batch sync, external runner | the boards | every handle that answers is refreshed |
| GitHub metrics (`services.py`, `sync.py`, `views.py`) | the figures in a snapshot row | the fetches of a heavy sync, reconciling, scoring, what a light sync keeps | the GitHub client, the snapshot sync | no figure is more than GitHub has, and none is lowered but by a miss |
| Pages (`views.py`, `ui_helpers.py`, `main.py`) | none | overview, students, export, repositories, boards, own page, for a filter and a teacher | snapshots, maps, privacy | they speak of the same students and repositories |
| Privacy (`main.py`, `auth.py`, `views.py`) | one row of choices per student, memos | choose, show | the blacklist, the pages | hidden is exactly what was asked for |
| Bell (`main.py`, `support.py`, `partials/bell.html`) | notifications with read marks, a memo, a tab's badge, open streams | list, mark read, mark all, poll, stream | filled by tickets, certificates, the weekly run | the count comes to show the table; a slot is given back |
| Roster store, pools, clients, login, AutoCAD, audit log, scripts | see "Not modelled" | | | |

PROJECT.json lists every part with its status, and the hazards with their lines.

Hard behaviours and where they come from: handlers of different instances
interleave between any two statements; a browser sends old cookies again;
a storage helper that fails answers like an empty table; a sync holds a
row's old values across an awaited fetch; two schedules fire at the same minute;
a serverless function is ended half-way; a rotation shares its timestamp with
other writers; answers reach a tab in another order than they were computed in;
pages find a student's repositories by the spelling of a login that may change.

## 2. Modules and how they read

State is named after the tables and cookies of the code; one action is one
statement or one awaited stretch of a handler; what a client or a provider
answers, and whether a statement fails, is a nondeterministic choice.  A request
refused before its first write is no action.  Beside some definitions stands a
*faulty variant*: the mutation with which the properties are tested, never part
of `Next`.

* **AccountLifecycle**: the abstract life of an account (absent, pending,
  approved, rejected, removed, and back as a bare row by a sign-in that was under way).
* **Onboarding**: the `users` table at the granularity of single statements.
  `loop[i]` is the handler an instance is in the middle of (handlers are
  `async def` with synchronous database calls, so one instance runs one at a
  time except across the awaited syncs in `jobs`).  `ReviewRead`,
  `ReviewPromote`, `ReviewDecide` are `_onboarding_review` and
  `set_onboarding_status`; `GoogleRead` and `GoogleUpsert` are the callback of a
  student, whose upsert inserts a row when the account was removed after the read;
  `PrnLookup` has both storage legs, with the `tuple`-index slip of the Postgres
  one.  The history variable `behind` names the handlers whose reading of the table
  failed or was changed by another handler since.  `LifecycleSpec` says it
  implements AccountLifecycle, with the status column as the refinement mapping.
* **Signup**: the wizard.  The draft is not on the server: `jar` is a browser's
  cookies, `net` the requests in flight with the draft each was sent with,
  `flows` the OAuth round trips.  Answers come late, twice, or never.  A link is none,
  linked or blank: a provider in `Anonymous` may send no name, which is stored as it is
  (a GitHub login is never empty, a LinkedIn name may be).
* **SnapshotSync**: the rows as three facts (good, has links, has heavy
  metrics), the order of `synced_at`, the freshness window, and one `job` per
  thread.  A job reads the row twice and saves later (`CarryLinks`,
  `CarryMetrics`, `Save`), as `sync_one` and `sync_heavy_one` do.  The field
  `behind` is a history flag: this sync's look at the row is out of date or
  failed.
* **ViewCache**: the memo; a value is represented by whether it is the table as
  it is now.
* **Fleet**: composes the two: a save outdates every memo, and the instance of
  the thread drops its own afterwards.
* **Weekly**: `run_weekly` for one week's key.  `slipped` is a history flag: two
  runs overlapped, the record could not be read, or a run that had notified
  somebody ended without recording the week as complete.  Until then the record
  tells the truth.
* **Announcement**: what a run promises of one week, without runs: count, tell,
  settle, and lose track.  `AnnouncementSpec` says that Weekly implements it, with
  the record and the history flag as the refinement mapping.
* **Support**: a ticket's row as its status, the student's reply with its photo,
  and the staff answer.  `req[r]` is what a request read and what it still has to
  write; `StaffReads` and `StudentReads` are the checks of the two routes, and
  every helper of `support.py` that writes is a step.  Two history variables name
  the exceptions: `overlapped`, the tickets that a request wrote after another
  request had written them since it read (its `behind` flag says so), and
  `broken`, the tickets of which a statement was lost after the first one.
* **TicketLife**: a ticket whose every change looks at the row as it is.
  `TicketLifeSpec` says that Support implements it, the rows being the same and a
  ticket going astray when a write was behind another.
* **Certificates**: the row of a certificate and the requests of administrators
  that read it, write its status and tell its owner.  `slipped` names those of
  which a write or a notification was lost, or two decisions overtook each other.
* **Access**: the three tables of who may sign in, and the requests that mint,
  set up, sign in and register.  A request is what it looked up and what it will
  write; `misread`, `slipped` and `reissued` name the addresses, invites and
  numbers it wrote after a failed lookup or behind another request.  `AdminEmails` and
  `FacultyEmails` are the lists of the environment, which decide a role before any
  lookup does; `Named` is both.
* **Maps**: one of the administrators' maps as a set of entries, in the table
  (`db`), in the copies (`cache`, one for all or one per process) and in each
  process's memo.  `work` is a toggle or a page in the middle of `_blacklist_state`
  or `_hidden_repos_state`; `told` is what administrators were last told, and
  `astray` the entries whose write was lost, or that were stored by a handler behind
  another or after its own failed read.
* **HrSync**: the queue of handles as an order of ages, a call that serves a batch
  within its budget, the runner that posts one by one, and the memo of each process; a
  failed read is memoised as an empty map, so that everything is due.
* **Figures**: what GitHub has of one account (`github`), what is stored of it (`row`),
  and what the syncs under way are about to store (`held`); heavy and light syncs
  overlap.  `HeavyFetch` has every way in which the fetches may be answered in part
  (`OwnedBy`, `Feeds`, `Reconciled`).  A light sync reads the stored row
  twice, each time perhaps in vain: `LightBegin` for the figures it keeps, `LightCount`
  for the counts of the repositories that it does not ask again (`Carried`).  `Store`
  replaces the row whole.  A push adds a commit (`Push`), and one leaves the window of
  the last month (`Leave`), which no stored row learns of.  `lost` names what a sync
  did not get: fetches, reads, or a look at what another stored meanwhile.
* **Scores**: the score of a repository tier by tier, and the standing of a student,
  as pure operators over what was measured and what was not answered; a behaviour
  assesses one repository or student after another.
* **Pages**: accounts with a login (spelled, renamed) and a class, their snapshots,
  and each page as an operator from the view, a filter and a teaching to the
  students and repositories it shows, joined the way the code joins them.  An
  account is a number, the place of its row; a table lists rows by their rank.
* **Privacy**: the choices of students and the blacklist, the memo each instance
  has of them, a read under way (`reading`) that may be stored over a later save, and
  what a page hides because of them.  Reads of both tables fail; a copy of the
  blacklist in the cache is part of Maps.
* **Bell**: one student's notifications, the memo of one instance, a tab with its
  requests and its poll, and the slots of the event streams.  Other instances and
  writers that go around the wrappers are seen by what they store; `missed` says
  that the memo was not told.

`MC*` modules give the constants their small values; `*Proofs` modules hold the
theorems.

## 3. Runs

| Run | Question | Instance |
|---|---|---|
| `onboarding` | type, stamp, changes and clashes of PRNs, orphans, refinement of AccountLifecycle, on Postgres | 2 instances that interleave statement by statement, failing lookups, 2 students, 1 administrator, 2 PRNs, 2 inserts, 1 sync at once |
| `onboarding_prn` | expected violation: two active holders of a PRN, with nothing failing and nobody racing | 1 instance, 3 inserts, SQLite |
| `signup` | all wizard properties | 1 address, 1 PRN, 1 browser, 2 requests in flight, 1 OAuth state at a time, failing lookups |
| `fleet` | carry-forward, guard and memo | 1 account, 2 threads, 1 memo, failing reads |
| `fleet_rotation` | the rotation reaches everyone once light syncs stop | 2 accounts, 1 thread, every kind of sync |
| `fleet_throttle` | expected violation: a throttled heavy sync stores zeros over good figures | 1 account, 1 thread |
| `records` | the weekly announcement: refinement of Announcement, nobody told twice, on SQLite; the figures of an account; what students hide | 3 accounts, 2 addresses to notify, 2 overlapping runs, crashes; a heavy and a light sync of one account, 2 own repositories or 2 of others, 1 push; 2 students, 2 instances, 2 saves |
| `weekly_postgres` | expected violation: no week is ever announced | 3 accounts, 1 run |
| `support` | tickets: refinement of TicketLife, rounds, resolution, photos; certificates: owners told right | 1 ticket, 2 requests of staff or the student, 2 texts; 1 certificate, 2 administrators; failing statements, crashes |
| `access` | accounts and invites; the administrators' maps | 3 persons, of whom each list names one, 2 invite numbers, 2 keys, 2 requests at once, 3 in all; 2 instances, 2 entries, 2 toggles, 1 page, both kinds of cache |
| `maps_wiped` | expected violation: one toggle takes other entries off the blacklist | 1 instance, 2 entries, 2 toggles, no page |
| `boards` | handles, scores, pages and the bell | see below |

A run of several components (`support`, `access`, `records`, `boards`) chooses at the start
which of them a behaviour is of; the others stay at rest.  They share no state that
either writes, so nothing is lost by it, and a property of a component at rest
holds trivially in the behaviours of the others.

Why the bounds are enough.  Two students and an administrator are all that a
PRN clash, an orphan or a refused decision can involve, and two instances are two
reviewers, two sign-ups, or one of each, that overlap; two inserts are two holders of
a number, or one address that comes back after it was removed.  Two requests in flight
are one stale answer over another; a third adds no new pair.  Two threads on one
account give every overlap of two syncs; the order of timestamps needs two accounts
and is checked with one thread, which may be any kind of sync one after another.
Three accounts make a first, a middle and a last one for the weekly budget; two
addresses are a fan-out that is ended half-way, and the theorem covers any audience.  A
heavy sync over a light one, or the other way round, is every overlap of two whose
fetches differ; one push falls before a listing, between a listing and a fetch, or
after both.  That run takes the account's own repositories and those of others in
different behaviours, since no sync adds the one to the other.  Tickets
and certificates share nothing, so one is enough; two requests give every pair of
overlapping updates, replies and decisions, and two texts tell one reply from
another.  A person in each list and one in none, and two invite numbers, make every
pair of requests that meet on an address, an invite or a number; three requests in all
are two that overlap after one that is done.  Two instances and two entries are a map
that one process changed behind the other, with an entry that must survive it.

The instance of `boards`: three handles with a batch of two of which a call gets to
both, so that the failing ones may or may not fill it; a repository with each field at
the edges of its tiers, with every subset of calls not answered, and every linked
student with every subset of fetches missing; three accounts of two GitHub users (so
that two share one), in three classes, under four filters and four teachings, with
pages of two rows; two notifications of which a list holds one, two requests in flight,
and three streams for two slots, with the three ticks of the code.

MaxId, MaxJobs, MaxInFlight, MaxTold (counting to "more than once"), MaxBegun,
MaxKeys, MaxNumber, MaxToggles, MaxPages, MaxPushes, MaxSaves and MaxNotes are the
only cut-offs.  Onboarding runs are reduced by symmetry of the students (`onboarding`
by that of instances and PRNs too), `support` by that of requests and texts, `access`
by that of requests, instances and entries, `records` by that of requests, addresses,
repositories, students and instances, and no liveness run is.

Deadlock is checked in the onboarding, signup and fleet runs.  In the others a
behaviour really may stop: after Monday with no run left, at a resolved ticket or a
deleted certificate with no request, when the bounded number of requests, toggles,
pushes or saves is used up, and after the one assessment of a score.

Abstractions worth knowing.  Field validation is reduced to which kinds of value
get through.  Rows of metrics are reduced to whether they are there.
`synced_at` is an order of rows, taken at the save, while the code takes it
just after the fetch; with one thread the two agree, and the runs with two
threads have one account.  In the rotation runs reads do not fail.  A single
sync that retries with the next token is one job that starts over.  Who wins a
week is not computed.  Figures counts commits of the last month for both windows of
the code, the 30 and the 90 days.  It assumes that a commit, once made, stays: nobody
deletes a repository or rewrites its history.  `NeverMore` and `LoweredOnlyByMiss`
compare all-time counts; a stored count of the month is as of its fetch, may be more
than GitHub has now, and is only claimed to be no more than the count of all time
beside it.  Team counts may go down, with what the feed of events still shows.  Pages
leaves out text search and order, and names, which no join uses.  Bell has one page
load at a time in its instance and one poll at a time in its tab.

## 4. Fairness

Onboarding, Signup, Weekly, Support, Certificates, Access, Maps, Figures, Scores, Pages
and Privacy claim safety only.  `CacheFairness`: a page view that has
built a value stores it, and time passes, so an entry expires.  `SyncFairness`:
the scheduled workflow calls the rotation again and again, a thread keeps
running, and GitHub and the database do not refuse for ever what is tried for
ever (strong fairness, because failures come between).  Under it `RotatesAlone`
needs one more premise, that light syncs stop; without it an account that is synced
often enough is never the stalest.  `Weekly!Fairness` is used for the expected violation on Postgres alone, and gives more
than the code has: triggers keep coming, a run keeps running, and each kind of statement
succeeds at some time if it can.  Both schedules call once, on Sunday, and the key is
gone on Monday, so nothing promises that a week is announced in the end, and no run
claims it; the violation says that on Postgres it is not, even if triggers never end.

`HrFairness`: somebody calls `/sync/hackerrank` again and again (the page does, and
the schedule), a call that began goes on, and what is tried for ever is answered
once; of a call it assumes only the handles that its budget allows.  `Refreshed`
then holds of the calls alone if fewer handles fail for ever than a call gets to,
and with the runner, whatever fails, unless the table cannot be read again and again.  `BellFairness`: the timer of a visible tab
fires, the table can be read again and again, and the event loop runs every stream
on.  No answer to a click has to arrive, and no write has to succeed.

## 5. What is proved

TLAPS checks the proofs for every value of the constants.

* **OnboardingProofs**: `TypeCorrect`; `StampAgrees`, where the stamp invariant
  is inductive together with what a handler may hold when it writes (`ReviewInv`);
  `ImplementsLifecycle`, every statement of a handler maps to a life-cycle step or a
  stutter, the upsert of a Google callback to `Reappear` when the row is gone.
  `PrnChanges` and `ClashExplained` hold for any number of instances, whichever lookups
  fail: a handler that is not behind still has in its locals what the table says of the
  number it is about to write (`ReadingHolds`), and a step that changes that puts it
  behind.  `OrphansAreLate`: besides the last statement of a removal, which
  may fail, only the end of a sync that was running leaves a snapshot without its
  account; that an insert stores a submitted record comes from the stamp invariant.
* **SignupProofs**: `PhaseGateHolds` is not inductive on the cookies alone; the
  invariant says that every draft anywhere (cookie, request, answer) is sound and
  that every link in flight was sent with a draft of phase 3 or more.
  `PrefsOnlyOfAccounts` and `DoneIsStored` follow from it and the insert-only
  statement.  `LinksKept` looks at each answer that seals a
  draft: it is the request's own with something added, and the request's is the
  browser's where nothing overlapped; a blank link is the work of the round trip that
  ended in that step.
* **FleetProofs**: the invariant says of each running sync that, unless it is
  behind, what it holds covers the row as it is (links from the first read on,
  metrics from the second).  Every save marks the other syncs of the account
  behind, so the invariant survives it.  `CarriedForward` and `GoodRowSurvives`
  are action properties that follow at the save.  A second invariant is about the
  order of timestamps (`AgesInv`): the age of a row is the number of other rows no
  older than it (`Ranked`).  A save moves one row to the front (`Reordered`); that the ranks are
  right afterwards needs `Room`: by counting the rows below, an older row is at least
  two ranks behind a younger one when the moved row was between them.  `TypeCorrect` follows: the order never has a gap, so the
  rotation always finds a stalest row.
* **WeeklyProofs**: a run that notifies has all counts (`FanoutKnows`), and as
  long as no run slipped there is one run, a complete record means it is only
  checking, an incomplete one means nobody was told outside the fan-out, and
  nobody still to be notified was told before (`Tracked`).  `AllCountedFirst`,
  `ToldOnce`, `PublishedStays` follow.  `ImplementsAnnouncement` adds that what a run
  believes to have notified somebody was told (`NotifiedTold`), which the record
  needs: a delivery maps to `Tell`, a count to `Gather`, the record to `Publish`,
  `Retract` or `Lose`, and every other step to a stutter or `Lose`.
* **SupportProofs**: a request that is not behind knows the row it is about to
  write (`Knows`), somebody is at work on every round that is half-way
  (`RoundsClose`) and on every resolution that was not told (`OwnersHear`).  A
  write puts the other requests behind, which is why it cannot falsify what they
  know; `WriteKeeps` says so once for all writers.  The three action properties come
  from `StepOrderly`.  `ImplementsTicketLife` is proved writer by writer: what a
  request that is not behind knows is the guard of TicketLife's action, and a write
  that is behind is `Stray` (`WritePromise`).  For Certificates the
  invariant `CertInv` adds that nobody decides a certificate before it is queued,
  and that whoever wrote last still has the status right (`LastWriter`): it is what
  a telling needs.
* **AccessProofs**: a request that was not overtaken knows what is stored where it
  will write (`AllKnow`), which is false the moment another request writes there,
  and that step marks it overtaken; every setup that has stored its account still
  has its mark to make (`InvitesClose`), and every key shown is stored
  ((`KeysShown`).  A sign-in of an address that the environment names looks at nothing,
  so what is claimed of tables and roles excepts those (`Named`).  The four properties
  are conjuncts of the invariant or follow at
  the writing step.  Its second part is about Maps: a job, a memo and a copy hold the
  map that administrators were told of, unless they are set aside as behind a
  write or after a failed read (`JobsFresh`, `MemoFresh`, `CopyFresh`); a map is stored only from one of the
  three, so `Kept` survives.
  The type comes first, as a theorem of its own.
* **FigureProofs**: sums first.  `Sum` and `Total` are recursive functions on the
  subsets of a finite set, so that facts about them are proved by `SubsetInduction`,
  an induction on a set of subsets which the module proves from the
  well-foundedness of proper subsets: a sum over a part is at most the whole, a sum
  of smaller terms is smaller.  The invariant is the type, `NeverMore`, and what a
  sync under way holds (`HeldTrue`): it is covered by what GitHub has, and no lower than
  the stored row but for what the sync lost.  A push keeps it because counts of all time
  only grow, and a store marks the other syncs overtaken.  `FiguresTrue` and
  `OnlyMissesLower` then follow at the store.  `ScoresHold` and `StandingsHold` go tier by tier:
  a tier never gives more points for less, so nothing that was not answered raises a
  score, for every repository and student; `NothingRaises` says it of the behaviours.
* **PageProofs**: `PrivacyInv` is the type and `MemosTrue`: each memo is what is
  stored, or the pair of instance and memo is in `behind`.  `BellInv` is the type,
  `ListTrue` (memo and read list are the table's, or `missed`) and `SlotsTrue`, which
  needs the cardinality of the set of open streams to change by one with each.
  `PagesInv` is the type, that users keep their own spelling, and `SnapTrue`: what a
  snapshot holds, and under which spelling, after each kind of sync and renaming.
  `PagesAgree` then follows page by page: for an account that is certain and shares its
  login with no other, every join finds the same repositories (the join lemmas); a row
  has one rank and a rank one row, so that the batches of a table put together are the
  table.

The proofs assume what the modules state of their constants: bounds that are
numbers, switches that are Booleans, values standing for "nothing" (no draft, no
row, no sync, no run, no request, no memo) that are not something, a page of at
least one row, and finite sets where something is counted or added up: accounts,
repositories, streams.

Some theorems are about properties that no run checks.  `RepliesStay`,
`ResolvedStays` and `StaffAnswersStay` are facts that TicketLife has by its shape,
`AllCountedFirst` and `PublishedStays` facts that Announcement has: the run checks
the refinement instead.  `TypeCorrect` of FleetProofs, the types of Figures, Privacy,
Pages and Maps, and `ScoresHold` and `StandingsHold`, are the facts that the others rest
on.

Model-checked only: the four liveness properties (`RotatesAlone`, `SelfHeals`,
`HandlesRefreshed`, `BellSettles`), since fairness and ENABLED are
beyond the prover.  Every safety invariant, action property and refinement that a
passing run checks is a theorem.  HrSync has no theorem: its only property is one of
liveness, and its queue is built by operators on sequences (`SelectSeq`, `SetToSeq`)
of which the provers know nothing.

## 6. What the checks found

Expected violations:

1. A rejected record whose PRN was reclaimed is reopened by a review: two active
   holders of one PRN (`onboarding_prn`).
2. A heavy sync that is throttled in the middle stores zeros over the figures an
   earlier one had fetched, although the docstring says that it keeps them
   (`fleet_throttle`).
3. On Postgres the weekly announcement is never published (`weekly_postgres`).
4. A toggle whose read of the stored blacklist failed, once the copy in the cache has
   expired, stores a map of one entry over all the others, and answers that it worked,
   while `src/app/main.py:273` says that a database out of reach must never wipe it
   (`maps_wiped`).

What holds only with an exception names the exception in the property: a lookup that
failed or another handler's change since (`PrnClashExplained`, `PrnChangeExplained`), a
late sync or a failed clearing (`OrphanOnlyByLateSync`), an overlapping answer or a
second round trip to LinkedIn that got no name (`LinksKeptWithoutOverlap`), overlap
of syncs and failed reads (`LostOnlyByErrorOrOverlap`), an overlap or a lost record
(`ToldTwiceOnlyBySlip`), a write behind another or a lost statement (the support
properties and `ToldAsDecided`), an address that the environment names, a failed lookup
or an overtaken request (the access properties), a lost write, a handler behind another
or its own failed read (`Kept`), a missed fetch, a failed read, an overtaken sync or a
renaming (`LoweredOnlyByMiss`), a memo left behind (`OffExactly`, `BellTrue`), a table that
cannot be read again and again (`HandlesRefreshed`), a slot whose client left early
(`BellTrue`, `BellSettles`), a renamed account or one that shares its login
(`PagesAgree`).

Seen while modelling, with no run spent on it:

*Accounts and sign-up.*  Every valid administrator's edit of an existing record
raises, since the storage helper is called with an argument it does not take
(`EditRaises`).  A save from an old tab puts an unvalidated handle into a draft that
is past its validation.  "Please try again" is answered when the account already
exists, because phase 4 stores the account and then the privacy choices.  A second round trip to LinkedIn stores whatever
name it sends, the empty one too (`src/app/main.py:2144`), so a draft past its third
phase may have no LinkedIn name.  Two sign-ups with one PRN on two instances both pass
`prn_taken`, and no index forbids the second.  The upsert of a Google callback brings a
removed account back as a bare row, and one of an address in `ADMIN_EMAILS` or
`FACULTY_EMAILS` stores a row without looking at the other table.

*Syncs and figures.*  An account that is synced lightly often enough is never
picked by the heavy rotation.  A renamed account keeps its totals and loses its
repositories with a heavy sync (`src/app/sync.py:723`).  A listing of repositories
that failed leaves the commit status at Loaded with 0, and so does a light sync whose
read of the stored row failed (`src/app/sync.py:280`).  Reconciling drops the
30- and 90-day event counts of repositories whose commits could not be fetched.  An
empty repository (409) counts as a failed call.  Missing values count as "not a
fork", while the docstring of `add_repository_quality_metrics` says that an unknown
fork status is never assumed original.  In `classify_consistency` the two last
conditions never decide anything.  `sync_hackerrank` counts failed handles as done,
and handles that always fail stay first in its queue.

*Pages.*  Some joins are by the letters of a login and some whatever its case; a
login in another case loses repositories on some pages ("always identical",
`src/app/views.py:3083`).  Two accounts with one login have its repositories twice.
Where a teacher's classes leave no student, the repositories page lists the whole
college.  The overview leaves repositories unfiltered when the chosen students have
no login, and counts the account status of the whole college beside a filtered
total.  Team commits of the last months come from the students' aggregates, while
the comment says never.  The weekly trend by semester looks up triples in a map
keyed by pairs.

*Maps and privacy.*  A map that was emptied comes back from
another process's copy.  A failed store of a map is answered as done.  A failed read
of the choices is memoised as if nobody hid anything; a save whose picture switch
fails answers an error and leaves the memo.

*Bell, tickets, certificates.*  A ticket whose reply is stored while its photo is
not stays at Follow up and takes no other reply, although the comment says that it
is handed back (`FollowUpAnswerable` excepts it by name, `broken`).  The slot of a
stream is counted before the generator that gives it back has begun.  "Mark all"
answers zero even if nothing was written.  A poll counts the newest fifty and an answer
to a click counts all.  Notifications of certificates and of the week go around the
wrapper that drops the memo.  A decision on a certificate is told although its
update failed; on Postgres it is never told, since the notification leaves `ticket_id`
empty, which `src/app/schema.sql:397` forbids (`ToldAsDecided` counts it as lost).  Queued certificates carry no PRN, since nothing assigns
`request.state.user_row`.  The calendar of the weekly key and of `synced_at` (local
time written as UTC, `src/app/sync.py:609`; Sunday's key is not Monday's,
`src/app/weekly.py:47`) is outside the models, which keep order and freshness only.

## 7. Plan, and what is not modelled

Done: 1. Onboarding with AccountLifecycle. 2. Signup. 3. SnapshotSync, ViewCache,
Fleet. 4. Weekly with Announcement, Support with TicketLife. 5. Access. 6. Maps,
HrSync. 7. Figures, Scores, Pages, Privacy. 8. Bell, Certificates.

Worth adding next, in this order: the staff bell, which shares Support's tickets with
the student's; the fallback of the HackerRank map on a server without a database;
HrSync's queue as an order instead of a sequence, with its types as a theorem; the
safety halves of the liveness properties (what one sync, one call, one poll brings
nearer).

Not modelled, and why:

* **Roster store, batch analysis**: reachable from no route of this commit.  Its
  copies of the administrators' maps are part of Maps.
* **Connection pools**: a statement may fail in every module; the pools would only
  say which failures come together.
* **GitHub client and HackerRank client**: cache, retries and backoff.  What they can
  answer is a nondeterministic choice where they are called.
* **Login, sessions, roles**: a signed cookie is a function of its content; what it
  is made from is in Signup, Onboarding and Access.
* **AutoCAD submissions, audit log**: rows that are inserted and never decide
  anything.
* **Schema, seeding, reset, performance scripts, Streamlit-era copies**: run by hand
  outside the server, or superseded.  What `schema.sql` lacks is part of Weekly.
* Of the parts that are modelled: which file types are accepted, text search, sorting,
  wording, charts, templates, and what an event stream sends.
