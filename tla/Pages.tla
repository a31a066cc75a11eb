------------------------------- MODULE Pages -------------------------------
(* What the pages make of the accounts and their snapshots: the view of the   *)
(* whole college, the part of it that is taught, and, for a filter, the       *)
(* overview, the repositories page, the students page and the boards.  They   *)
(* find the repositories of a student by spelling: some by the very letters   *)
(* of the login, some whatever their case, some never.                        *)
EXTENDS Naturals, Sequences, FiniteSets, FiniteSetsExt, Functions

CONSTANTS Accounts,             \* approved accounts, numbered by address
          Users,                \* who is behind them on GitHub
          Owned, Others,         \* repositories of each of these, and (others) that they push to
          Classes,              \* records of a division, a batch and a semester
          Filters, Teachings,   \* what a page is asked for, and by whom
          PageSize,             \* rows painted at once
          NoSnap

\* _filter_context: each selection, nothing where everything is meant.
Filter == [pairs   : SUBSET {<<c.div, c.batch>> : c \in Classes}, divs : SUBSET {c.div : c \in Classes},
           batches : SUBSET {c.batch : c \in Classes}, sems : SUBSET {c.sem : c \in Classes}]

VARIABLES login,    \* how GitHub spells the login of each user
          handle,   \* the login submitted for each account
          class,
          snap      \* the snapshot of each account whose status is ok

pageVars == <<login, handle, class, snap>>
-----------------------------------------------------------------------------
\* A login: whose, whether it is the one before or after a renaming, and its case.
Login == [of : Users, renamed : BOOLEAN, caps : BOOLEAN]
Snapshot == [login : Login, heavy : BOOLEAN, owned : Nat, teams : Nat,
             repos : SUBSET [from : Accounts, repo : Owned \cup Others, user : Login]]

\* A repository is of the account's own or of others; the snapshots tell which.
ASSUME PagesAssumption ==
  /\ Accounts \subseteq Nat /\ IsFiniteSet(Accounts)
  /\ IsFiniteSet(Owned) /\ IsFiniteSet(Others) /\ Owned \cap Others = {}
  /\ PageSize \in Nat /\ NoSnap \notin Snapshot

Fold(l) == <<l.of, l.renamed>>

PagesInit ==
  /\ login = [u \in Users |-> [of |-> u, renamed |-> FALSE, caps |-> TRUE]]
  /\ handle \in [Accounts -> {l \in Login : ~l.renamed}]
  /\ class \in [Accounts -> Classes]
  /\ snap = [a \in Accounts |-> NoSnap]

Rename(u) == /\ login' = [login EXCEPT ![u].renamed = TRUE]
             /\ UNCHANGED <<handle, class, snap>>

ReposFrame(a, repos, as) == {[from |-> a, repo |-> r, user |-> as] : r \in repos}
Canonical(a) == login[handle[a].of]

\* sync_one.  The row has GitHub's spelling, the repositories the submitted one;
\* what other repositories were pushed to is kept.
LightSnap(a) ==
  LET kept == IF snap[a] = NoSnap THEN {} ELSE {r \in snap[a].repos : r.repo \in Others}
      more == IF snap[a] = NoSnap THEN 0 ELSE snap[a].teams
  IN  /\ snap' = [snap EXCEPT ![a] = [login |-> Canonical(a), heavy |-> FALSE,
                                      owned |-> Cardinality(Owned), teams |-> more,
                                      repos |-> ReposFrame(a, Owned, handle[a]) \cup kept]]
      /\ UNCHANGED <<login, handle, class>>

\* sync_heavy_one.  Repositories under another login than the submitted are dropped.
HeavySnap(a) ==
  LET all == ReposFrame(a, Owned \cup Others, Canonical(a))
  IN  /\ snap' = [snap EXCEPT ![a] = [login |-> Canonical(a), heavy |-> TRUE,
                                      owned |-> Cardinality(Owned), teams |-> Cardinality(Others),
                                      repos |-> {r \in all : Fold(r.user) = Fold(handle[a])}]]
      /\ UNCHANGED <<login, handle, class>>

\* A sync that ends in an error hides the snapshot.
SyncFails(a) == snap' = [snap EXCEPT ![a] = NoSnap] /\ UNCHANGED <<login, handle, class>>

PagesNext == \/ \E u \in Users : ~login[u].renamed /\ Rename(u)
             \/ \E a \in Accounts : LightSnap(a) \/ HeavySnap(a) \/ SyncFails(a)

PagesSpec == PagesInit /\ [][PagesNext]_pageVars
-----------------------------------------------------------------------------
(* The view of the college: rows of students, rows of repositories.          *)

\* Without a snapshot, a row of zeros under the submitted login.
RowOf(a) ==
  IF snap[a] = NoSnap THEN [id |-> a, login |-> handle[a], class |-> class[a], owned |-> 0, teams |-> 0]
  ELSE [id |-> a, login |-> snap[a].login, class |-> class[a],
        owned |-> snap[a].owned, teams |-> snap[a].teams]

SnapRepos(a) == IF snap[a] = NoSnap THEN {} ELSE snap[a].repos

\* The first account with a login stands for it; every snapshot's repositories count.
First(a) == \A b \in Accounts : b < a => Fold(RowOf(b).login) # Fold(RowOf(a).login)
FleetView == [students |-> {RowOf(a) : a \in {x \in Accounts : First(x)}},
              repos    |-> UNION {SnapRepos(a) : a \in Accounts}]

AccountView(a) == [students |-> {RowOf(a)}, repos |-> SnapRepos(a)]

\* filter_view_by_teaching: a set of taught classes, each with its semesters or
\* with none recorded.  Nothing taught shows everything; repositories are not filtered.
Taught(view, teaching) ==
  IF teaching = {} THEN view
  ELSE [view EXCEPT !.students =
          {s \in @ : \E t \in teaching : /\ t.div = s.class.div /\ t.batch = s.class.batch
                                         /\ t.sems = {} \/ s.class.sem \in t.sems}]

\* _apply_cohort_filters: pairs take the place of divisions and batches.
InClass(c, f) ==
  /\ IF f.pairs # {} THEN <<c.div, c.batch>> \in f.pairs
     ELSE /\ f.divs = {} \/ c.div \in f.divs
          /\ f.batches = {} \/ c.batch \in f.batches
  /\ f.sems = {} \/ c.sem \in f.sems

Chosen(view, f) == {s \in view.students : InClass(s.class, f)}
Logins(students) == {s.login : s \in students}

\* The rows of the overview, and those it scores: by the letters of the login.
Counted(view, f) ==
  LET cohort == Logins(Chosen(view, f))
  IN  IF cohort # {} THEN {r \in view.repos : r.user \in cohort} ELSE {}

\* Faulty variant: repositories without an owner in the view are kept.
OwnerlessKept(view, r) ==
  {s \in view.students : Fold(s.login) = Fold(r.user)}
    \cup {[id |-> 0, class |-> CHOOSE c \in Classes : TRUE] :
            x \in {y \in {r} : \A s \in view.students : Fold(s.login) # Fold(r.user)}}

\* _merge_student_fields: the owner, whatever the case of the login.
OwnersOf(view, r) == {s \in view.students : Fold(s.login) = Fold(r.user)}

\* repositories_payload.  Without any student in scope no owner is known, so that
\* neither the ownerless are dropped nor the filters applied.
Cards(view, f) ==
  IF view.students = {} THEN view.repos
  ELSE {r \in view.repos : \E s \in OwnersOf(view, r) : InClass(s.class, f)}

\* students_payload: the rows in the order of the view, and the sum above them.
Table(view, f) ==
  LET chosen == Chosen(view, f)
      before(s) == {z \in chosen : z.id < s.id}
  IN  [n \in 1..Cardinality(chosen) |-> CHOOSE s \in chosen : Cardinality(before(s)) = n - 1]
RepositoriesOf(students) == MapThenSumSet(LAMBDA s : s.owned + s.teams, students)

\* How many repositories the overview says it found.
Found(view, f) == Cardinality(Counted(view, f))

\* The flow of repositories into each class, from the rows of its students.
Flow(view, f) ==
  LET chosen == Chosen(view, f)
  IN  [p \in {<<s.class.div, s.class.batch>> : s \in chosen} |->
         RepositoriesOf({s \in chosen : <<s.class.div, s.class.batch>> = p})]

\* Whose quality goes into a student's standing: the repositories of the login.
Rated(view, f) == [s \in Chosen(view, f) |-> {r \in Counted(view, f) : r.user = s.login /\ r.repo \in Owned}]

\* The series of a class in the radar: its own rows, from the unfiltered view.
Series(view, pair) ==
  LET slice == {s \in view.students : <<s.class.div, s.class.batch>> = pair}
  IN  [students |-> slice, repos |-> {r \in view.repos : r.user \in Logins(slice)}]

\* _weekly_activity_trend: repositories by the class of their user, else nobody's.
Trend(view, f) ==
  LET chosen == Chosen(view, f)
  IN  [p \in {<<s.class.div, s.class.batch>> : s \in chosen} |->
         {r \in Counted(view, f) : \E s \in chosen : s.login = r.user
                                                     /\ <<s.class.div, s.class.batch>> = p}]

\* leaderboards_payload: what a student is credited with, but for the hidden ones.
Dropped(s, r, hidden) == <<s.id, r.repo>> \in hidden
Credit(view, f, hidden) ==
  [s \in Chosen(view, f) |-> {r \in view.repos : r.user = s.login /\ ~Dropped(s, r, hidden)}]

\* students_payload_profile: the repositories of a profile.
Profile(view, s) == {r \in view.repos : r.user = s.login}

\* own_profile_payload: the row of the address, if the view has one.
OwnRows(view, a) == {s \in view.students : s.id = a}
-----------------------------------------------------------------------------
(* The pages, for a filter and a teaching; a teacher may also ask for all,    *)
(* which is to teach nothing.                                                *)

Overview(f, teaching) ==
  LET view == Taught(FleetView, teaching)
  IN  [repos |-> Counted(view, f), found |-> Found(view, f), flow |-> Flow(view, f),
       trend |-> Trend(view, f), rated |-> Rated(view, f)]

StudentsPage(f, teaching) ==
  LET view == Taught(FleetView, teaching)
  IN  [painted |-> SubSeq(Table(view, f), 1, Min({PageSize, Cardinality(Chosen(view, f))})),
       total |-> Cardinality(Chosen(view, f)), repos |-> RepositoriesOf(Chosen(view, f))]

\* One more batch, as the reader scrolls.
StudentRows(f, teaching, offset) ==
  LET table == Table(Taught(FleetView, teaching), f)
      start == Min({offset, Len(table)})
  IN  SubSeq(table, start + 1, Min({start + PageSize, Len(table)}))

StudentsExport(f, teaching) == Table(Taught(FleetView, teaching), f)

RepositoriesPage(f, teaching) == Cards(Taught(FleetView, teaching), f)

BoardsPage(f, teaching, hidden) == Credit(Taught(FleetView, teaching), f, hidden)

\* my_profile_page: an account that shares its login with an earlier one has no
\* row in the view of the college; it sees the view of its own snapshot.
OwnPage(a) ==
  LET view == IF OwnRows(FleetView, a) # {} THEN FleetView ELSE AccountView(a)
  IN  UNION {Profile(view, s) : s \in OwnRows(view, a)}
-----------------------------------------------------------------------------
\* GitHub knows the account by the login that was submitted, or by that login in
\* another case and the last sync was a heavy one.
Settled(a) == snap[a] # NoSnap =>
                \/ snap[a].login = handle[a]
                \/ snap[a].heavy /\ Fold(snap[a].login) = Fold(handle[a])

Alone(a) == \A b \in Accounts : Fold(RowOf(b).login) = Fold(RowOf(a).login)
                                  \/ Fold(handle[b]) = Fold(handle[a]) => b = a

Unmistaken == {a \in Accounts : Settled(a) /\ Alone(a)}
Rows(repos) == {r \in repos : r.from \in Unmistaken}

\* Each of these repositories hidden of every student.
HidingAll(view, of) == {<<s.id, r.repo>> : s \in view.students, r \in of}

\* Whatever is asked for, all pages speak of the same repositories: those in the
\* snapshots of the students they show, once each.  That holds of every account
\* known by its submitted login and sharing it with no other, whatever becomes of
\* the others.  A page that shows no student at all is excepted.
PagesAgree ==
  /\ \A f \in Filters, t \in Teachings :
       LET view == Taught(FleetView, t)
           shown == {s \in Chosen(view, f) : s.id \in Unmistaken}
           of == UNION {SnapRepos(s.id) : s \in shown}
           overview == Overview(f, t)
           page == StudentsPage(f, t)
       IN  view.students # {} =>
             /\ Rows(overview.repos) = of
             /\ Rows(RepositoriesPage(f, t)) = of
             /\ RepositoriesOf(shown) = Cardinality(of)
             /\ Rows(UNION Range(overview.trend)) = of
             /\ \A s \in shown : overview.rated[s] = {r \in SnapRepos(s.id) : r.repo \in Owned}
             /\ Chosen(view, f) = shown =>
                  /\ overview.found = page.repos
                  /\ \A p \in DOMAIN overview.flow : overview.flow[p] = Cardinality(overview.trend[p])
             /\ \A hidden \in {{}, HidingAll(view, of)} :
                  Rows(UNION Range(BoardsPage(f, t, hidden)))
                    = {r \in of : <<r.from, r.repo>> \notin hidden}
             /\ Range(StudentsExport(f, t)) = Chosen(view, f)
             /\ page.painted \o StudentRows(f, t, PageSize) \o StudentRows(f, t, 2 * PageSize)
                  = SubSeq(StudentsExport(f, t), 1, Min({3 * PageSize, page.total}))
  /\ \A a \in Unmistaken : OwnPage(a) = SnapRepos(a)
  /\ \A c \in Classes :
       LET pair == <<c.div, c.batch>>
           only == [pairs |-> {pair}, divs |-> {}, batches |-> {}, sems |-> {}]
       IN  /\ Series(FleetView, pair).students = Chosen(FleetView, only)
           /\ Series(FleetView, pair).repos = Counted(FleetView, only)
=============================================================================
