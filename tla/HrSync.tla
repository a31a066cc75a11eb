------------------------------- MODULE HrSync -------------------------------
(* The queue of HackerRank handles, stalest first.  A call of                 *)
(* /sync/hackerrank serves a batch of it within a budget; a runner outside    *)
(* fetches the whole queue and posts the snapshots one by one.  Either stops  *)
(* when HackerRank throttles it.  Ages are kept as an order.                  *)
EXTENDS Naturals, Sequences, SequencesExt, FiniteSets, Functions

CONSTANTS Handles, Servers,  \* linked handles; server processes, one memo each
          Batch,             \* handles in the batch of a call
          Reach,             \* handles that a call gets to within its budget
          NoMap, NoCall

ASSUME HrAssumption == Reach \in 1..Batch /\ Batch \in Nat

VARIABLES bad,      \* handles that upstream never answers for
          order,    \* the handles, the one whose snapshot is oldest first
          due,      \* those whose snapshot is a day old or missing
          seen,     \* per instance, the memoised snapshots
          call,     \* the call being served (one caller: it repeats its call)
          runner    \* the handles the runner has left

hrVars == <<bad, order, due, seen, call, runner>>
-----------------------------------------------------------------------------
Map == [order : {s \in [1..Cardinality(Handles) -> Handles] : IsInjective(s)}, due : SUBSET Handles]
Queues == UNION {[1..n -> Handles] : n \in 0..Cardinality(Handles)}
Call == [by : Servers, queue : Queues, done : 0..Batch]

HrInit == /\ bad \in SUBSET Handles
          /\ order = SetToSeq(Handles)      \* none synced: as in the roster
          /\ due = Handles
          /\ seen = [i \in Servers |-> NoMap]
          /\ call = NoCall
          /\ runner = <<>>

\* _hr_snapshots_state: the memo, or the table; a read that fails finds no snapshot
\* of anybody, and is memoised too.
State(i, reads) == IF seen[i] # NoMap THEN seen[i]
                   ELSE IF reads THEN [order |-> order, due |-> due]
                   ELSE [order |-> SetToSeq(Handles), due |-> Handles]

\* Faulty variant: the queue keeps the order of the roster.
RosterQueue(map, force) ==
  SelectSeq(SetToSeq(Handles), LAMBDA h : force \/ h \in map.due)

\* _hr_stale_queue: with force, every handle.
StaleQueue(map, force) == SelectSeq(map.order, LAMBDA h : force \/ h \in map.due)

Memoise(i, reads) == seen' = [seen EXCEPT ![i] = State(i, reads)]

\* _save_hr_snapshot in instance i: a failed write is logged; the memo is dropped.
Save(i, h, ok) ==
  /\ IF ok THEN /\ order' = Append(SelectSeq(order, LAMBDA g : g # h), h)
                /\ due' = due \ {h}
           ELSE UNCHANGED <<order, due>>
  /\ seen' = [seen EXCEPT ![i] = NoMap]
-----------------------------------------------------------------------------
(* /sync/hackerrank.                                                         *)

BeginCall(i, force, reads) ==
  /\ call = NoCall
  /\ LET queue == StaleQueue(State(i, reads), force)
         batch == SubSeq(queue, 1, IF Len(queue) < Batch THEN Len(queue) ELSE Batch)
     IN call' = [by |-> i, queue |-> batch, done |-> 0]
  /\ Memoise(i, reads)
  /\ UNCHANGED <<bad, order, due, runner>>

Serving == call # NoCall /\ call.queue # <<>>
Turn == Head(call.queue)
Rest == [call EXCEPT !.queue = Tail(@), !.done = @ + 1]

\* A snapshot, or a tombstone for a profile that is gone, is saved.
Served(ok) == /\ Serving /\ Turn \notin bad
              /\ Save(call.by, Turn, ok)
              /\ call' = Rest
              /\ UNCHANGED <<bad, runner>>

\* Another error of upstream: the handle keeps its old snapshot.
Skipped == /\ Serving
           /\ call' = Rest
           /\ UNCHANGED <<bad, order, due, seen, runner>>

\* Throttled, out of budget, or crashed.
CutOff == /\ Serving
          /\ call' = NoCall
          /\ UNCHANGED <<bad, order, due, seen, runner>>

Replies == /\ call # NoCall /\ ~Serving
           /\ call' = NoCall
           /\ UNCHANGED <<bad, order, due, seen, runner>>
-----------------------------------------------------------------------------
(* The runner: hr_sync.py, with /api/hackerrank/handles and /snapshot.       *)

RunnerBegins(i, reads) == /\ runner = <<>>
                          /\ runner' = StaleQueue(State(i, reads), FALSE)
                          /\ Memoise(i, reads)
                          /\ UNCHANGED <<bad, order, due, call>>

RunnerPosts(i, ok) == /\ runner # <<>> /\ Head(runner) \notin bad
                      /\ Save(i, Head(runner), ok)
                      /\ runner' = Tail(runner)
                      /\ UNCHANGED <<bad, call>>

RunnerSkips == /\ runner # <<>>
               /\ runner' = Tail(runner)
               /\ UNCHANGED <<bad, order, due, seen, call>>

\* Throttled again after a minute.
RunnerStops == /\ runner # <<>>
               /\ runner' = <<>>
               /\ UNCHANGED <<bad, order, due, seen, call>>
-----------------------------------------------------------------------------
\* A snapshot is a day old; those older than it were before.
Age(h) == /\ h \notin due
          /\ \A n \in DOMAIN order : order[n] = h => \A m \in 1..(n - 1) : order[m] \in due
          /\ due' = due \cup {h}
          /\ seen' = [i \in Servers |-> IF seen[i] = NoMap THEN NoMap
                                        ELSE [seen[i] EXCEPT !.due = @ \cup {h}]]
          /\ UNCHANGED <<bad, order, call, runner>>

Forget(i) == /\ seen[i] # NoMap
             /\ seen' = [seen EXCEPT ![i] = NoMap]
             /\ UNCHANGED <<bad, order, due, call, runner>>

HrNext ==
  \/ \E i \in Servers :
       \/ \E force, reads \in BOOLEAN : BeginCall(i, force, reads)
       \/ \E reads \in BOOLEAN : RunnerBegins(i, reads)
       \/ \E ok \in BOOLEAN : RunnerPosts(i, ok)
       \/ Forget(i)
  \/ \E ok \in BOOLEAN : Served(ok)
  \/ Skipped \/ CutOff \/ Replies \/ RunnerSkips \/ RunnerStops
  \/ \E h \in Handles : Age(h)

\* Fairness.  Somebody calls again and again; time passes; HackerRank's limit
\* resets and the table comes back, so what is tried for ever succeeds in the
\* end.  Nothing is assumed of a call beyond the handles its budget allows.
InBudget(h) == Serving /\ call.done < Reach /\ Turn = h
HrFairness ==
  /\ WF_hrVars(\E i \in Servers, reads \in BOOLEAN : BeginCall(i, FALSE, reads))
  /\ WF_hrVars(Served(TRUE) \/ Skipped \/ CutOff \/ Replies)
  /\ \A h \in Handles :
       /\ SF_hrVars(InBudget(h) /\ IF h \in bad THEN Skipped ELSE Served(TRUE))
       /\ SF_hrVars(/\ runner # <<>> /\ Head(runner) = h
                    /\ IF h \in bad THEN RunnerSkips ELSE \E i \in Servers : RunnerPosts(i, TRUE))
  /\ WF_hrVars(RunnerSkips \/ RunnerStops \/ \E i \in Servers : RunnerPosts(i, TRUE))

HrSpec == HrInit /\ [][HrNext]_hrVars /\ HrFairness
-----------------------------------------------------------------------------
HrTypeOK == /\ bad \subseteq Handles /\ due \subseteq Handles
            /\ [order |-> order, due |-> due] \in Map
            /\ seen \in [Servers -> Map \cup {NoMap}]
            /\ call \in Call \cup {NoCall}
            /\ runner \in Queues

\* A failed read of the table, which was memoised.
Misread == \E i \in Servers : /\ seen[i] = NoMap
                              /\ seen'[i] \notin {NoMap, [order |-> order, due |-> due]}

\* Every handle that HackerRank answers for is refreshed again and again, unless the
\* table cannot be read again and again: by the runner, whatever fails, and by the
\* calls alone if fewer handles fail for ever than a call gets to, since those stay
\* first in the queue.
Refreshed == \/ []<><<Misread>>_hrVars
             \/ ([]<>(runner # <<>>) \/ Cardinality(bad) < Reach)
                  => \A h \in Handles : h \notin bad => []<>(h \notin due)
=============================================================================
