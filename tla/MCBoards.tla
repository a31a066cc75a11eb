------------------------------ MODULE MCBoards ------------------------------
(* Small instances of what is behind the boards and the other pages: the      *)
(* queue of HackerRank handles, the scores, the pages, and the bell.  A        *)
(* behaviour is of one of them, the others stay at rest.                      *)
EXTENDS HrSync, Scores, Pages, Bell

VARIABLE part

allVars == <<part, hrVars, scoreVars, pageVars, bellVars>>

\* Any repository, or any student whose account and profile are linked.
Linked == {s \in Student : s.linked /\ s.profile}

\* Filters with pairs or without, and teachings of nobody, of a class with or
\* without its semester, of an empty one.
Class(div, sem) == [div |-> div, batch |-> 1, sem |-> sem]
SomeClasses == {Class(1, 1), Class(1, 2), Class(2, 1)}
SomeFilters ==
  {[pairs |-> {}, divs |-> {}, batches |-> {}, sems |-> {}],
   [pairs |-> {<<1, 1>>}, divs |-> {2}, batches |-> {}, sems |-> {}],
   [pairs |-> {<<2, 1>>}, divs |-> {}, batches |-> {}, sems |-> {1}],
   [pairs |-> {}, divs |-> {1}, batches |-> {1}, sems |-> {2}]}
Taught1 == [div |-> 1, batch |-> 1, sems |-> {}]
SomeTeachings == {{}, {Taught1}, {[Taught1 EXCEPT !.sems = {2}]}, {[Taught1 EXCEPT !.batch = 2]}}

\* The users are alike, so the first account may be anybody's.
Certain == handle[1] = [of |-> CHOOSE u \in Users : TRUE, renamed |-> FALSE, caps |-> TRUE]

AllInit ==
  /\ part \in {"handles", "scores", "pages", "list", "badge", "slots"}
  /\ HrInit /\ ScoresInit /\ PagesInit /\ BellInit
  /\ part # "handles" => bad = {}
  /\ Certain /\ class[1] = Class(1, 1) /\ class[2] = Class(1, 2) /\ class[3] # Class(1, 2)
  /\ part # "pages" => \A a \in Accounts : handle[a] = handle[1] /\ class[3] = Class(1, 1)

\* The bell, as one page and one request, one page and two requests, or streams see it.
Arrives == \E kind \in {"ticket", "other"}, here \in BOOLEAN : Arrive(kind, here)
Ring == \/ part \in {"list", "badge"} /\ Arrives
        \/ part = "list" /\ (Rendering \/ \E c \in Clicks : (\A d \in Clicks \ {c} : calls[d] = Idle) /\ Requests(c))
        \/ part = "badge" /\ \E c \in Clicks : Requests(c)
        \/ part \in {"badge", "slots"} /\ Polling
        \/ part = "slots" /\ \E s \in Streams : Streaming(s)

AllNext ==
  \/ part = "handles" /\ HrNext
       /\ UNCHANGED <<part, scoreVars, pageVars, bellVars>>
  \/ part = "scores" /\ ScoresInit /\ Assess(Samples, Linked)
       /\ UNCHANGED <<part, hrVars, pageVars, bellVars>>
  \/ part = "pages" /\ PagesNext
       /\ UNCHANGED <<part, hrVars, scoreVars, bellVars>>
  \/ Ring /\ UNCHANGED <<part, hrVars, scoreVars, pageVars>>

\* Parts without a liveness property need no fairness of their own.
Fair == \/ part = "handles" /\ HrFairness
        \/ part # "handles" /\ BellFairness

AllSpec == AllInit /\ [][AllNext]_allVars /\ Fair

\* See Refreshed of HrSync.
HandlesRefreshed == part = "handles" => Refreshed

\* See BadgeRight and SlotFree of Bell.
BellSettles == []<>(/\ part = "badge" => BadgeRight
                    /\ part = "slots" => SlotFree)
=============================================================================
