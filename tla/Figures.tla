------------------------------ MODULE Figures ------------------------------
(* The figures of one account: what the fetches of a sync make of GitHub's    *)
(* answers, and what a light sync keeps of the stored ones, while others sync *)
(* the same account.  Commits of the last month stand for both windows, the   *)
(* 30 and the 90 days; commits leave them, but nobody rewrites or deletes any.*)
EXTENDS Naturals, FiniteSets, FiniteSetsExt

CONSTANTS Own, Teams,   \* the account's repositories, and those of others it pushes to
          Heavies, Lights,  \* heavy and light syncs of the account, which may overlap
          MaxPushes,    \* pushes (bound)
          NoRow, NoSync, None

VARIABLES github,   \* the commits in each repository, and the pull requests
          renamed,  \* the account has another login than the one submitted
          pushed,   \* repositories updated since the stored row was synced
          row,      \* the figures stored for the account
          held,     \* what a sync that has not stored yet is about to store
          pushes

Syncs == Heavies \cup Lights

figureVars == <<github, renamed, pushed, row, held, pushes>>
-----------------------------------------------------------------------------
Counts == [all : Nat, recent : Nat]

\* The figures of a stored row; a count is unknown until a sync has asked for it.
Row == [repos : UNION {[s -> Counts \cup {None}] : s \in SUBSET Own},
        owned : Counts \cup {None}, prs : Nat, team : Counts]

\* What a sync did not get: the listing, commits, contributions; the stored figures
\* or counts it reads back; or another sync stored since.
Losses == {"repos", "owned", "contrib", "figures", "counts", "overtaken"}

\* A sync under way: what it is to store, the repositories its listing shows to be
\* updated, those pushed to since, and what it did not get.
Held == [stage : {"begun", "ready"}, row : Row \cup {NoRow}, seen : SUBSET Own,
         since : SUBSET Own, lost : SUBSET Losses]

ASSUME FiguresAssumption ==
  /\ IsFiniteSet(Own) /\ IsFiniteSet(Teams) /\ Own \cap Teams = {}
  /\ None \notin Counts /\ NoRow \notin Row /\ NoSync \notin Held

Zero == [all |-> 0, recent |-> 0]

Total(counts, repos) == [all    |-> MapThenSumSet(LAMBDA r : counts[r].all, repos),
                         recent |-> MapThenSumSet(LAMBDA r : counts[r].recent, repos)]

\* A fetch over repositories: those that were answered, and whether GitHub's
\* limit cut it off.  A listing of several pages is answered whole or not at all.
Fetch(repos) == [got : SUBSET repos, cut : BOOLEAN]

FiguresInit ==
  /\ github \in [own : [Own -> {[all |-> 1, recent |-> 0]}],
                 team : [Teams -> {[all |-> 1, recent |-> 1]}], prs : {1}]
  /\ renamed \in BOOLEAN
  /\ pushed = {} /\ row = NoRow /\ held = [s \in Syncs |-> NoSync] /\ pushes = 0

\* GitHub counts in one repository otherwise.
CommitsOf(r) == IF r \in Own THEN github.own[r] ELSE github.team[r]
Recount(r, c) ==
  github' = IF r \in Own THEN [github EXCEPT !.own[r] = c] ELSE [github EXCEPT !.team[r] = c]

\* A push, dated now; a push to another's repository is seen in the events.
Push(r) ==
  /\ pushes < MaxPushes
  /\ Recount(r, [all |-> CommitsOf(r).all + 1, recent |-> CommitsOf(r).recent + 1])
  /\ pushed' = pushed \cup ({r} \cap Own)
  /\ held' = [s \in Syncs |-> IF held[s] = NoSync THEN NoSync
                              ELSE [held[s] EXCEPT !.since = @ \cup ({r} \cap Own)]]
  /\ pushes' = pushes + 1
  /\ UNCHANGED <<renamed, row>>

\* A commit leaves the window, which no stored row learns of.
Leave(r) ==
  /\ CommitsOf(r).recent > 0
  /\ Recount(r, [CommitsOf(r) EXCEPT !.recent = @ - 1])
  /\ UNCHANGED <<renamed, pushed, row, held, pushes>>
-----------------------------------------------------------------------------
(* The fetches of a heavy sync.                                              *)

\* fetch_repository_data: all repositories of the current login, or none.
Listed(ok) == IF ok THEN Own ELSE {}

\* fetch_owned_commit_data.  A repository that was not answered counts nothing
\* and marks its owner; after a limit the owner has no total at all, while the
\* repositories that were answered keep their counts.
OwnedBy(listed, fetch) ==
  [repos |-> [r \in listed |-> IF r \in fetch.got THEN github.own[r] ELSE Zero],
   total |-> IF fetch.cut THEN Zero ELSE Total(github.own, listed \cap fetch.got),
   short |-> listed # {} /\ (fetch.cut \/ ~(listed \subseteq fetch.got))]

OwnedFrom(listed) == {OwnedBy(listed, fetch) : fetch \in Fetch(Own)}

\* fetch_contribution_data: both searches, or nothing.
Contributions(ok) == IF ok THEN github.prs ELSE 0

\* summarize_team_events: the repositories of others with a push in the feed, and
\* the commits the events tell, of which many tell none.
Feeds == {[t \in s |-> IF t \in telling THEN github.team[t] ELSE Zero] :
            s \in SUBSET Teams, telling \in SUBSET Teams}

\* Faulty variant: the commits of the events are counted on top of the listed ones.
ReconciledTwice(feed, got) ==
  LET by == DOMAIN feed \cap got
  IN  IF by = {} THEN Total(feed, DOMAIN feed)
      ELSE [all    |-> Total(github.team, by).all + Total(feed, DOMAIN feed).all,
            recent |-> Total(github.team, by).recent]

\* _reconcile_team_commits: a repository whose commits were listed counts those, any
\* other its events, and these only for the total of all time.
Reconciled(feed, got) ==
  LET by == DOMAIN feed \cap got
  IN  IF by = {} THEN Total(feed, DOMAIN feed)
      ELSE [all    |-> Total(github.team, by).all + Total(feed, DOMAIN feed \ by).all,
            recent |-> Total(github.team, by).recent]

\* fetch_team_activity: without the events, or after a limit, nothing.
Team(ok) == IF ok THEN {Reconciled(feed, got) : feed \in Feeds, got \in SUBSET Teams} ELSE {Zero}
-----------------------------------------------------------------------------
(* The syncs.  One that has read or fetched holds what it will store, and     *)
(* others of the account may store in between.                               *)

Hold(s, stage, to, seen, lost) ==
  held' = [held EXCEPT ![s] = [stage |-> stage, row |-> to, seen |-> seen, since |-> {}, lost |-> lost]]

\* build_dashboard_df and sync_heavy_one.  What was not fetched is zero; only
\* repositories under the submitted login are stored.
HeavyFetch(s, listOk, contribOk, teamOk) ==
  /\ held[s] = NoSync
  /\ \E owned \in OwnedFrom(Listed(listOk)), team \in Team(teamOk) :
        Hold(s, "ready",
             [repos |-> IF renamed THEN <<>> ELSE owned.repos,
              owned |-> owned.total,
              prs   |-> Contributions(contribOk),
              team  |-> team],
             {}, {k \in Losses : \/ k = "repos" /\ ~listOk
                                 \/ k = "owned" /\ owned.short
                                 \/ k = "contrib" /\ ~contribOk})
  /\ UNCHANGED <<github, renamed, pushed, row, pushes>>

\* The account itself is not answered: a bare error row, with no figures, of a heavy
\* sync, or of a light one that is forced or finds no good row.
Fails(s) ==
  /\ held[s] = NoSync
  /\ Hold(s, "ready", NoRow, {}, Losses)
  /\ UNCHANGED <<github, renamed, pushed, row, pushes>>

\* The stored row as a sync reads it: a failed read is like no row.
Read(ok) == IF ok THEN row ELSE NoRow

\* sync_one lists the repositories, notes the time, and
\* _carry_forward_heavy_metrics reads the stored figures, which it keeps.
LightBegin(s, ok) ==
  /\ held[s] = NoSync
  /\ Hold(s, "begun",
          [repos |-> <<>>,
           owned |-> IF Read(ok) = NoRow THEN None ELSE row.owned,
           prs   |-> IF Read(ok) = NoRow THEN 0 ELSE row.prs,
           team  |-> IF Read(ok) = NoRow THEN Zero ELSE row.team],
          pushed, IF ok THEN {} ELSE {"figures"})
  /\ UNCHANGED <<github, renamed, pushed, row, pushes>>

Known(of, r) == of # NoRow /\ r \in DOMAIN of.repos /\ of.repos[r] # None

\* Faulty variant: every listed repository starts over.
CarriedAfresh(of, r, got, seen) == IF r \in got THEN github.own[r] ELSE None

\* A repository is asked again only if it is unknown or was updated since.
Carried(of, r, got, seen) ==
  IF r \in got /\ (~Known(of, r) \/ r \in seen) THEN github.own[r]
  ELSE IF Known(of, r) THEN of.repos[r] ELSE None

\* _carry_forward_repo_commits reads the row once more, for its counts.
LightCount(s, ok, got) ==
  /\ held[s] # NoSync /\ held[s].stage = "begun"
  /\ LET repos == [r \in Own |-> Carried(Read(ok), r, got, held[s].seen \cap pushed)]
     IN  held' = [held EXCEPT ![s] =
           [stage |-> "ready",
            row   |-> [held[s].row EXCEPT !.repos = repos],
            seen  |-> {},
            since |-> held[s].since,
            lost  |-> IF ok THEN held[s].lost ELSE held[s].lost \cup {"counts"}]]
  /\ UNCHANGED <<github, renamed, pushed, row, pushes>>

\* save_snapshot: the row is replaced whole, under the time the sync noted.
Store(s) ==
  /\ held[s] # NoSync /\ held[s].stage = "ready"
  /\ row' = held[s].row
  /\ pushed' = held[s].since
  /\ held' = [t \in Syncs |->
                IF t = s \/ held[t] = NoSync THEN NoSync
                ELSE [held[t] EXCEPT !.lost = @ \cup {"overtaken"}]]
  /\ UNCHANGED <<github, renamed, pushes>>

\* A limit, a good row that is kept, or a write that fails.
GiveUp(s) ==
  /\ held[s] # NoSync
  /\ held' = [held EXCEPT ![s] = NoSync]
  /\ UNCHANGED <<github, renamed, pushed, row, pushes>>

Heavy(s) ==
  \/ \E listOk, contribOk, teamOk \in BOOLEAN : HeavyFetch(s, listOk, contribOk, teamOk)
  \/ Fails(s)

Light(s) ==
  \/ \E ok \in BOOLEAN : LightBegin(s, ok)
  \/ \E ok \in BOOLEAN, got \in SUBSET Own : LightCount(s, ok, got)
  \/ Fails(s)

FiguresNext ==
  \/ \E r \in Own \cup Teams : Push(r) \/ Leave(r)
  \/ \E s \in Heavies : Heavy(s)
  \/ \E s \in Lights : Light(s)
  \/ \E s \in Syncs : Store(s) \/ GiveUp(s)

FiguresSpec == FiguresInit /\ [][FiguresNext]_figureVars
-----------------------------------------------------------------------------
\* The figures of a row are no more than what GitHub has of all time, and the months
\* no more than that.  A month count is of the moment it was fetched.
Covered(of, has) ==
  of # NoRow =>
    /\ \A r \in Own : Known(of, r) => /\ of.repos[r].all <= has.own[r].all
                                      /\ of.repos[r].recent <= of.repos[r].all
    /\ of.owned # None => /\ of.owned.all <= Total(has.own, Own).all
                         /\ of.owned.recent <= of.owned.all
    /\ of.team.all <= Total(has.team, Teams).all /\ of.team.recent <= of.team.all
    /\ of.prs <= has.prs

\* No figure that is stored is more than what GitHub has of all time, whichever
\* fetches and reads failed, whatever was kept and whoever stored in between
\* (build_dashboard_df, _carry_forward_heavy_metrics, _carry_forward_repo_commits).
NeverMore == Covered(row, github)

\* Of all-time figures, one row is no lower than another but where the sync that made
\* it missed them; the repositories of an account that was renamed go.
NoLower(old, new, lost) ==
  old # NoRow =>
    /\ lost \cap {"repos", "owned", "counts", "overtaken"} = {} /\ ~renamed =>
         \A r \in Own : Known(old, r) => Known(new, r) /\ old.repos[r].all <= new.repos[r].all
    /\ lost \cap {"repos", "owned", "figures", "overtaken"} = {} /\ old.owned # None =>
         new.owned # None /\ old.owned.all <= new.owned.all
    /\ lost \cap {"contrib", "figures", "overtaken"} = {} => old.prs <= new.prs

\* A stored all-time count of own commits or pull requests goes down only when a sync
\* stores that could not fetch it, could not read the stored one back, or was
\* overtaken by another (sync_heavy_one, sync_one, _carry_forward_repo_commits).
LoweredOnlyByMiss ==
  [][row' # row => \E s \in Syncs : /\ held[s] # NoSync /\ held'[s] = NoSync
                                    /\ NoLower(row, row', held[s].lost)]_figureVars
=============================================================================
