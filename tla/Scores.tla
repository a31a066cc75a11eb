------------------------------- MODULE Scores -------------------------------
(* The score of a repository, out of 100, and the standing of a student; and  *)
(* what is left of either when some of the calls behind it are not answered.  *)
EXTENDS Naturals, FiniteSetsExt

CONSTANT Unscored

VARIABLES repo,     \* the repository that was scored last
          student   \* the student whose standing was taken last

scoreVars == <<repo, student>>
-----------------------------------------------------------------------------
\* What GitHub says of a repository, each number up to the best tier that it counts for.
Repository == [fork : BOOLEAN, described : BOOLEAN, stars : 0..10, forks : 0..1, idle : 0..31,
               pulls : 0..10, issues : 0..10, humans : 0..5, readme : BOOLEAN, topics : 0..1,
               commits : 0..100, days : 0..10, postFork : 0..20, source : 0..5, files : 0..5]

Calls == {"pulls", "issues", "contributors", "readme", "topics", "commits", "tree"}

\* fetch_repository_quality_data: a call that fails leaves zeros; the listing of
\* the repositories is what the other fields come from.
Measured(r, answered) ==
  LET of(call, n) == IF call \in answered THEN n ELSE 0
  IN  [r EXCEPT !.pulls = of("pulls", @), !.issues = of("issues", @),
                !.humans = of("contributors", @), !.topics = of("topics", @),
                !.readme = @ /\ "readme" \in answered,
                !.commits = of("commits", @), !.days = of("commits", @),
                !.postFork = of("commits", @),
                !.source = of("tree", @), !.files = of("tree", @)]

\* The points of the highest tier that n reaches.
Tier(n, tiers) == Max({0} \cup {tier[2] : tier \in {t \in tiers : n >= t[1]}})

Volume(r) == Tier(r.commits, {<<1, 2>>, <<5, 5>>, <<20, 8>>, <<50, 12>>, <<100, 15>>})
Spread(r) == Tier(r.days, {<<2, 2>>, <<3, 5>>, <<5, 7>>, <<10, 10>>})
Collaboration(r) == Tier(r.humans, {<<2, 4>>, <<3, 8>>, <<5, 12>>})
Activity(r) == Tier(r.pulls + r.issues, {<<1, 2>>, <<5, 5>>, <<10, 8>>})
\* Faulty variant: a fork without commits of its own counts as an original.
OriginalityUncounted(r) == IF r.fork /\ r.postFork > 0 THEN Tier(r.postFork, {<<1, 2>>, <<20, 6>>}) ELSE 10
Originality(r) == IF r.fork THEN Tier(r.postFork, {<<1, 2>>, <<20, 6>>}) ELSE 10
Density(r) ==
  IF r.files = 0 \/ r.source = 0 THEN 0
  ELSE Tier((10 * r.source) \div r.files, {<<0, 2>>, <<2, 5>>, <<4, 10>>, <<6, 15>>})
Hygiene(r) == IF r.readme THEN IF r.topics > 0 /\ r.described THEN 10 ELSE 6
              ELSE IF r.topics > 0 \/ r.described THEN 3 ELSE 0
Community(r) == Tier(r.stars, {<<1, 2>>, <<5, 5>>, <<10, 7>>}) + IF r.forks > 0 THEN 3 ELSE 0
Maintenance(r) == IF r.idle <= 14 THEN 10 ELSE IF r.idle <= 30 THEN 5 ELSE 0

\* add_repository_quality_metrics
Score(r) == Volume(r) + Spread(r) + Collaboration(r) + Activity(r) + Originality(r)
              + Density(r) + Hygiene(r) + Community(r) + Maintenance(r)

\* _carry_forward_repo_quality: what a listing tells is fresh, the rest is stored.
Rescored(listed, stored) ==
  [stored EXCEPT !.described = listed.described, !.stars = listed.stars, !.forks = listed.forks,
                 !.idle = listed.idle, !.fork = listed.fork]
-----------------------------------------------------------------------------
\* The figures that a standing depends on.  Of commits only whether there are any
\* matters, of the last 30 days and of the 60 days before them.
Student == [repos : 0..1, contributed : 0..1, owned30 : 0..1, ownedBefore : 0..1,
            team30 : 0..1, teamBefore : 0..1, prs : 0..1, external : 0..1, issues : 0..1,
            active : 0..1, teamActive : 0..1, linked : BOOLEAN, profile : BOOLEAN, quality : {"unknown", "low", "fair"}]

Fetches == {"repos", "owned", "contrib", "team"}

\* build_dashboard_df: what was not fetched counts as none.
Without(s, missing) ==
  LET own == missing \cap {"repos", "owned"} # {}
  IN  [s EXCEPT !.repos = IF "repos" \in missing THEN 0 ELSE @,
                !.active = IF "repos" \in missing THEN 0 ELSE @,
                !.quality = IF "repos" \in missing THEN "unknown" ELSE @,
                !.owned30 = IF own THEN 0 ELSE @, !.ownedBefore = IF own THEN 0 ELSE @,
                !.prs = IF "contrib" \in missing THEN 0 ELSE @,
                !.external = IF "contrib" \in missing THEN 0 ELSE @,
                !.issues = IF "contrib" \in missing THEN 0 ELSE @,
                !.contributed = IF "team" \in missing THEN 0 ELSE @,
                !.team30 = IF "team" \in missing THEN 0 ELSE @,
                !.teamActive = IF "team" \in missing THEN 0 ELSE @,
                !.teamBefore = IF "team" \in missing THEN 0 ELSE @]

\* classify_consistency: weighted criteria met, less those missed, unless one vetoes.
Recent(s) == s.owned30 + s.team30
Before(s) == s.ownedBefore + s.teamBefore
Sustained(s) == Recent(s) > 0 /\ Before(s) > 0
Collaborates(s) == s.contributed > 0 \/ s.external > 0

Weight(met, weight) == IF met THEN weight ELSE 0
Points(s) ==
  Weight(s.repos + s.contributed > 0, 3) + Weight(Recent(s) > 0, 3)
    + Weight(Recent(s) + Before(s) > 0, 2) + Weight(Sustained(s), 3) + Weight(Collaborates(s), 2)
    + Weight(s.prs > 0 \/ s.issues > 0, 1) + Weight(s.quality = "fair", 2)
    + Weight(s.active + s.teamActive > 0, 2) + Weight(s.linked /\ s.profile, 1)
Misses(s) == Weight(Recent(s) = 0, 2) + Weight(s.quality = "low", 1)
               + Weight(~Collaborates(s) /\ s.prs = 0, 1)
Vetoed(s) == ~s.linked \/ s.repos + s.contributed = 0 \/ Recent(s) + Before(s) = 0

\* 0 is "Need Attention", 1 "Doing Good", 2 "Consistent".
Standing(s) ==
  IF Vetoed(s) \/ Points(s) < Misses(s) THEN 0
  ELSE IF Sustained(s) /\ Points(s) >= Misses(s) + 10 THEN 2 ELSE 1
-----------------------------------------------------------------------------
\* Repositories are scored, and students given a standing, in any order.
ScoresInit == repo = Unscored /\ student = Unscored
Assess(repos, students) == \/ repo' \in repos /\ UNCHANGED student
                           \/ student' \in students /\ UNCHANGED repo
ScoresSpec == ScoresInit /\ [][Assess(Repository, Student)]_scoreVars

\* A repository of the middle tiers, then each field at the edges of its tiers.
Middle == [fork |-> FALSE, described |-> TRUE, stars |-> 5, forks |-> 1, idle |-> 14, pulls |-> 1,
           issues |-> 1, humans |-> 3, readme |-> TRUE, topics |-> 1, commits |-> 20, days |-> 3,
           postFork |-> 1, source |-> 2, files |-> 5]
Samples ==
  LET of(r) == {[r EXCEPT !.stars = n] : n \in {0, 1, 4, 5, 9, 10}}
                 \cup {[r EXCEPT !.humans = n] : n \in {0, 1, 2, 3, 4, 5}}
                 \cup {[r EXCEPT !.commits = n] : n \in {0, 1, 4, 5, 19, 20, 49, 50, 99, 100}}
                 \cup {[r EXCEPT !.days = n] : n \in {0, 1, 2, 3, 4, 5, 9, 10}}
                 \cup {[r EXCEPT !.pulls = n] : n \in {0, 3, 4, 8, 9, 10}}
                 \cup {[r EXCEPT !.source = n] : n \in 0..5}
                 \cup {[r EXCEPT !.idle = n] : n \in {0, 14, 15, 30, 31}}
                 \cup {[r EXCEPT !.fork = TRUE, !.postFork = n] : n \in {0, 1, 19, 20}}
                 \cup {[r EXCEPT !.described = b, !.readme = c] : b, c \in BOOLEAN}
  IN  of(Middle) \cup of([Middle EXCEPT !.fork = TRUE]) \cup of([Middle EXCEPT !.topics = 0])

\* The score is out of 100; calls that are not answered never raise it, and a light
\* sync gives a repository that did not change the score it had.
ScoreHolds(r) ==
  /\ Score(r) \in 0..100
  /\ \A answered \in SUBSET Calls :
       LET stored == Measured(r, answered)
       IN  /\ Score(stored) <= Score(r)
           /\ Score(Rescored(Measured(r, {}), stored)) = Score(stored)

\* A fetch that fails never raises the standing of a student.
StandingHolds(s) ==
  \A missing \in SUBSET Fetches : Standing(Without(s, missing)) <= Standing(s)

\* See ScoreHolds and StandingHolds: whatever is scored, what is missed never helps.
NeverRaised == /\ repo # Unscored => ScoreHolds(repo)
               /\ student # Unscored => StandingHolds(student)
=============================================================================
