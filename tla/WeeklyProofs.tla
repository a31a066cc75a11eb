---------------------------- MODULE WeeklyProofs ----------------------------
(* What a weekly run may do, for any number of accounts and requests.        *)
EXTENDS Weekly, TLAPS

Untold == \A u \in Audience, k \in Kinds : told[u][k] = 0

\* Only a run that is notifying has notified anybody, and it has all counts.
FanoutKnows == \A r \in Requests : run[r] # Idle =>
                 IF run[r].pc = "fanout" THEN counted = Students ELSE run[r].notified = {}

\* As long as no run lost track: one run at a time, the record tells whether the
\* week was announced, and nobody in a run's todo was told before.
OneRun == \A q, r \in Requests : run[q] # Idle /\ run[r] # Idle => q = r
CompleteEnds == record = "complete" => \A r \in Requests : run[r] # Idle => run[r].pc = "check"
PartialUntold == record # "complete" /\ (\A r \in Requests : ~At(r, "fanout")) => Untold
FanoutFresh == \A r \in Requests : At(r, "fanout") =>
                 /\ run[r].notified = {} => Untold
                 /\ \A u \in run[r].todo, k \in Kinds : told[u][k] = 0
Tracked == OneRun /\ CompleteEnds /\ PartialUntold /\ FanoutFresh /\ ToldTwiceOnlyBySlip

IInv == TypeOK /\ ToldAfterAllCounted /\ FanoutKnows /\ (~slipped => Tracked)
-----------------------------------------------------------------------------
LEMMA StepOf ==
  ASSUME TypeOK, NEW r \in Requests, NEW j, Step(r, j)
  PROVE  run'[r] = j /\ \A q \in Requests \ {r} : run'[q] = run[q]
BY DEF TypeOK, Step

LEMMA DoneOf ==
  ASSUME TypeOK, NEW r \in Requests, Done(r)
  PROVE  run'[r] = Idle /\ \A q \in Requests \ {r} : run'[q] = run[q]
BY DEF TypeOK, Done

LEMMA TypeStep == TypeOK /\ [Next]_vars => TypeOK'
<1> SUFFICES ASSUME TypeOK, [Next]_vars PROVE TypeOK'
  OBVIOUS
<1> USE DEF TypeOK
<1>1. CASE UNCHANGED vars
  BY <1>1 DEF vars
<1>2. CASE EndWeek
  BY <1>2 DEF EndWeek
<1>3. ASSUME NEW r \in Requests, Trigger(r) PROVE TypeOK'
  BY <1>3 DEF Trigger, Step, SlipIf, Run
<1>4. ASSUME NEW r \in Requests, Crash(r) PROVE TypeOK'
  BY <1>4 DEF Crash, Done, SlipIf
<1>5. ASSUME NEW r \in Requests, Check(r) PROVE TypeOK'
  BY <1>5 DEF Check, At, Step, Done, SlipIf, Run
<1>6. ASSUME NEW r \in Requests, NEW found \in Succeeds, Resume(r, found) PROVE TypeOK'
  BY <1>6 DEF Resume, At, Step, Run
<1>7. ASSUME NEW r \in Requests, Unlisted(r) PROVE TypeOK'
  BY <1>7 DEF Unlisted, At, Step, Run
<1>8. ASSUME NEW r \in Requests, NEW s \in Students, Count(r, s) PROVE TypeOK'
  BY <1>8 DEF Count, At, Step, Run
<1>9. ASSUME NEW r \in Requests, Exhaust(r) PROVE TypeOK'
  BY <1>9 DEF Exhaust, At, Step, Run
<1>10. ASSUME NEW r \in Requests, Rank(r) PROVE TypeOK'
  BY <1>10 DEF Rank, At, Step, Run
<1>11. ASSUME NEW r \in Requests, NEW u \in Audience, Deliver(r, u) PROVE TypeOK'
  <2>1. PICK got \in SUBSET Kinds :
          /\ told' = [told EXCEPT ![u] =
                        [k \in Kinds |-> IF k \in got /\ @[k] < MaxTold THEN @[k] + 1 ELSE @[k]]]
          /\ Step(r, [run[r] EXCEPT !.todo = @ \ {u}, !.notified = @ \cup got])
    BY <1>11 DEF Deliver
  <2>2. told' \in [Audience -> [Kinds -> 0..MaxTold]]
    BY <2>1 DEF MaxTold
  <2>3. run' \in [Requests -> Run \cup {Idle}]
    <3>1. run[r] \in Run
      BY <1>11 DEF Deliver, At
    <3>2. run[r].todo \ {u} \in SUBSET Audience /\ run[r].notified \cup got \in SUBSET Kinds
      BY <3>1 DEF Run
    <3>3. [run[r] EXCEPT !.todo = @ \ {u}, !.notified = @ \cup got] \in Run
      BY <3>1, <3>2 DEF Run
    <3> QED
      BY <2>1, <3>3 DEF Step
  <2> QED
    BY <1>11, <2>2, <2>3 DEF Deliver
<1>12. ASSUME NEW r \in Requests, Record(r) PROVE TypeOK'
  BY <1>12 DEF Record, Done, SlipIf
<1> QED
  BY <1>1, <1>2, <1>3, <1>4, <1>5, <1>6, <1>7, <1>8, <1>9, <1>10, <1>11, <1>12 DEF Next, Work
-----------------------------------------------------------------------------
\* A run that is not notifying moves on or ends, and nothing else is written but
\* rows.
LEMMA Moves ==
  ASSUME IInv, TypeOK', NEW r \in Requests, run[r] # Idle, run[r].pc # "fanout",
         \A q \in Requests \ {r} : run'[q] = run[q],
         run'[r] # Idle => /\ run'[r].notified = run[r].notified /\ run'[r].pc # "fanout"
                           /\ run'[r].pc = "check" \/ slipped' \/ record # "complete",
         counted \subseteq counted', UNCHANGED <<record, told>>, slipped => slipped'
  PROVE  IInv'
<1>1. counted = Students => counted' = Students
  BY DEF TypeOK
<1>a. ToldAfterAllCounted'
  BY <1>1 DEF IInv, ToldAfterAllCounted
<1>b. FanoutKnows'
  BY <1>1 DEF IInv, FanoutKnows
<1>2. ASSUME ~slipped' PROVE Tracked'
  <2>1. Tracked
    BY <1>2 DEF IInv
  <2>2. OneRun' /\ CompleteEnds'
    BY <1>2, <2>1 DEF Tracked, OneRun, CompleteEnds
  <2>3. PartialUntold' /\ FanoutFresh' /\ ToldTwiceOnlyBySlip'
    BY <1>2, <2>1 DEF Tracked, PartialUntold, FanoutFresh, ToldTwiceOnlyBySlip, At, Untold
  <2> QED
    BY <2>2, <2>3 DEF Tracked
<1> QED
  BY <1>a, <1>b, <1>2 DEF IInv

LEMMA TriggerKeeps == ASSUME IInv, TypeOK', NEW r \in Requests, Trigger(r) PROVE IInv'
<1>1. /\ run'[r].pc = "check" /\ run'[r].notified = {}
      /\ \A q \in Requests \ {r} : run'[q] = run[q]
  BY StepOf DEF Trigger, IInv
<1>2. ToldAfterAllCounted' /\ FanoutKnows'
  BY <1>1 DEF IInv, ToldAfterAllCounted, FanoutKnows, Trigger
<1>3. ASSUME ~slipped' PROVE Tracked'
  <2>1. Tracked /\ \A q \in Requests : run[q] = Idle
    BY <1>3 DEF IInv, Trigger, SlipIf
  <2>2. OneRun' /\ CompleteEnds'
    BY <1>1, <2>1 DEF Tracked, OneRun, CompleteEnds, Trigger
  <2>3. told' = told /\ record' = record /\ ~slipped
    BY <1>3 DEF Trigger, SlipIf
  <2>4. \A q \in Requests : ~At(q, "fanout") /\ ~At(q, "fanout")'
    BY <1>1, <2>1 DEF At
  <2>5. PartialUntold' /\ FanoutFresh' /\ ToldTwiceOnlyBySlip'
    BY <2>1, <2>3, <2>4 DEF Tracked, PartialUntold, FanoutFresh, ToldTwiceOnlyBySlip, Untold
  <2> QED
    BY <2>2, <2>5 DEF Tracked
<1> QED
  BY <1>2, <1>3 DEF IInv

LEMMA CheckKeeps == ASSUME IInv, TypeOK', NEW r \in Requests, Check(r) PROVE IInv'
<1>1. PICK found \in Succeeds :
        /\ IF found /\ record = "complete"
             THEN Done(r) ELSE Step(r, [run[r] EXCEPT !.pc = "resume"])
        /\ SlipIf(~found)
  BY DEF Check
<1>2. At(r, "check") /\ run[r] \in Run
  BY DEF Check, At, IInv, TypeOK
<1>3. CASE found /\ record = "complete"
  BY <1>1, <1>2, <1>3, DoneOf, Moves DEF Check, At, IInv, SlipIf
<1>4. CASE ~(found /\ record = "complete")
  <2>1. /\ run'[r].notified = run[r].notified /\ run'[r].pc = "resume"
        /\ \A q \in Requests \ {r} : run'[q] = run[q]
    BY <1>1, <1>2, <1>4, StepOf DEF IInv, Run
  <2>2. slipped' \/ record # "complete"
    BY <1>1, <1>4 DEF SlipIf
  <2> QED
    BY <1>1, <1>2, <2>1, <2>2, Moves DEF Check, At, SlipIf
<1> QED
  BY <1>3, <1>4

\* A run past the check works on a week that is not recorded as complete.
LEMMA PastCheck ==
  ASSUME IInv, NEW r \in Requests, run[r] # Idle, run[r].pc # "check"
  PROVE  slipped \/ record # "complete"
BY DEF IInv, Tracked, CompleteEnds

LEMMA CountingKeeps ==
  ASSUME IInv, TypeOK', NEW r \in Requests, run[r] # Idle, run[r].pc \in {"resume", "count"},
         NEW j \in Run, Step(r, j), j.notified = run[r].notified, j.pc \in {"count", "record"},
         counted \subseteq counted', UNCHANGED <<record, told, slipped>>
  PROVE  IInv'
<1>1. run'[r] = j /\ \A q \in Requests \ {r} : run'[q] = run[q]
  BY StepOf DEF IInv
<1> QED
  BY <1>1, PastCheck, Moves

LEMMA CountStepKeeps ==
  ASSUME IInv, TypeOK', NEW r \in Requests,
         \/ \E found \in Succeeds : Resume(r, found)
         \/ Unlisted(r) \/ Exhaust(r)
         \/ \E s \in Students : Count(r, s)
  PROVE  IInv'
<1>1. run[r] # Idle /\ run[r] \in Run /\ run[r].pc \in {"resume", "count"}
  BY DEF Resume, Unlisted, Exhaust, Count, At, IInv, TypeOK
<1>2. ASSUME NEW found \in Succeeds, Resume(r, found) PROVE IInv'
  <2> DEFINE j == [run[r] EXCEPT !.pc = "count",
                                 !.pending = IF found THEN Students \ counted ELSE Students]
  <2>1. j \in Run /\ j.notified = run[r].notified /\ j.pc = "count"
    BY <1>1 DEF Run
  <2>2. Step(r, j)
    BY <1>2 DEF Resume
  <2> HIDE DEF j
  <2> QED
    BY <1>1, <1>2, <2>1, <2>2, CountingKeeps DEF Resume
<1>3. CASE Unlisted(r)
  <2> DEFINE j == [run[r] EXCEPT !.pc = "record"]
  <2>1. j \in Run /\ j.notified = run[r].notified /\ j.pc = "record"
    BY <1>1 DEF Run
  <2>2. Step(r, j)
    BY <1>3 DEF Unlisted
  <2> HIDE DEF j
  <2> QED
    BY <1>1, <1>3, <2>1, <2>2, CountingKeeps DEF Unlisted
<1>4. CASE Exhaust(r)
  <2> DEFINE j == [run[r] EXCEPT !.pending = {}]
  <2>1. j \in Run /\ j.notified = run[r].notified /\ j.pc = "count"
    BY <1>1, <1>4 DEF Run, Exhaust, At
  <2>2. Step(r, j)
    BY <1>4 DEF Exhaust
  <2> HIDE DEF j
  <2> QED
    BY <1>1, <1>4, <2>1, <2>2, CountingKeeps DEF Exhaust
<1>5. ASSUME NEW s \in Students, Count(r, s) PROVE IInv'
  <2> DEFINE j == [run[r] EXCEPT !.pending = @ \ {s}, !.tried = TRUE]
  <2>1. j \in Run /\ j.notified = run[r].notified /\ j.pc = "count"
    BY <1>1, <1>5 DEF Run, Count, At
  <2>2. Step(r, j) /\ counted \subseteq counted'
    BY <1>5 DEF Count
  <2> HIDE DEF j
  <2> QED
    BY <1>1, <1>5, <2>1, <2>2, CountingKeeps DEF Count
<1> QED
  BY <1>2, <1>3, <1>4, <1>5

LEMMA RankKeeps == ASSUME IInv, TypeOK', NEW r \in Requests, Rank(r) PROVE IInv'
<1>1. run[r] # Idle /\ run[r] \in Run /\ run[r].pc = "count" /\ UNCHANGED <<counted, record, told, slipped>>
  BY DEF Rank, At, IInv, TypeOK
<1> DEFINE i == [run[r] EXCEPT !.pc = "record"]
           j == [run[r] EXCEPT !.pc = "fanout", !.todo = Audience]
<1>2. CASE Step(r, i)
  <2>1. i \in Run /\ i.notified = run[r].notified /\ i.pc = "record"
    BY <1>1 DEF Run
  <2> HIDE DEF i
  <2> QED
    BY <1>1, <1>2, <2>1, CountingKeeps
<1>3. CASE Students \subseteq counted /\ Step(r, j)
  <2>1. j \in Run /\ j.notified = {} /\ j.pc = "fanout"
    BY <1>1 DEF Run, IInv, FanoutKnows
  <2> HIDE DEF j
  <2>2. run'[r] = j /\ \A q \in Requests \ {r} : run'[q] = run[q]
    BY <1>3, StepOf DEF IInv
  <2>3. counted' = Students
    BY <1>1, <1>3 DEF IInv, TypeOK
  <2>4. ToldAfterAllCounted' /\ FanoutKnows'
    BY <1>1, <2>1, <2>2, <2>3 DEF IInv, ToldAfterAllCounted, FanoutKnows
  <2>5. ASSUME ~slipped' PROVE Tracked'
    <3>1. Tracked /\ record # "complete"
      BY <1>1, <2>5, PastCheck DEF IInv
    <3>2. \A q \in Requests : ~At(q, "fanout")
      BY <1>1, <3>1 DEF Tracked, OneRun, At
    <3>3. Untold
      BY <3>1, <3>2 DEF Tracked, PartialUntold
    <3>4. Untold' /\ record' # "complete" /\ ~slipped
      BY <1>1, <2>5, <3>1, <3>3 DEF Untold
    <3>5. OneRun'
      BY <1>1, <2>2, <3>1 DEF Tracked, OneRun
    <3>6. CompleteEnds' /\ PartialUntold'
      BY <3>4 DEF CompleteEnds, PartialUntold
    <3>7. ToldTwiceOnlyBySlip'
      BY <3>4 DEF Untold, ToldTwiceOnlyBySlip
    <3>8. \A q \in Requests : run'[q] # Idle => run'[q].todo \subseteq Audience
      BY DEF TypeOK, Run
    <3>9. FanoutFresh'
      BY <3>4, <3>8 DEF FanoutFresh, Untold, At
    <3> QED
      BY <3>5, <3>6, <3>7, <3>9 DEF Tracked
  <2> QED
    BY <2>4, <2>5 DEF IInv
<1> QED
  BY <1>2, <1>3 DEF Rank

LEMMA DeliverKeeps == ASSUME IInv, TypeOK', NEW r \in Requests, NEW u \in Audience, Deliver(r, u)
                      PROVE  IInv'
<1>1. PICK got \in SUBSET Kinds :
        /\ told' = [told EXCEPT ![u] =
                      [k \in Kinds |-> IF k \in got /\ @[k] < MaxTold THEN @[k] + 1 ELSE @[k]]]
        /\ Step(r, [run[r] EXCEPT !.todo = @ \ {u}, !.notified = @ \cup got])
  BY DEF Deliver
<1>2. run[r] # Idle /\ run[r] \in Run /\ run[r].pc = "fanout" /\ u \in run[r].todo
      /\ UNCHANGED <<counted, record, slipped>>
  BY DEF Deliver, At, IInv, TypeOK
<1>3. /\ run'[r] # Idle /\ run'[r].pc = "fanout" /\ run'[r].todo = run[r].todo \ {u}
      /\ run'[r].notified = run[r].notified \cup got
      /\ \A q \in Requests \ {r} : run'[q] = run[q]
  <2> DEFINE j == [run[r] EXCEPT !.todo = @ \ {u}, !.notified = @ \cup got]
  <2>1. j.pc = "fanout" /\ j.todo = run[r].todo \ {u} /\ j.notified = run[r].notified \cup got
    BY <1>2 DEF Run
  <2>2. j \in Run
    <3>1. run[r].todo \ {u} \in SUBSET Audience /\ run[r].notified \cup got \in SUBSET Kinds
      BY <1>2 DEF Run
    <3> QED
      BY <1>2, <3>1 DEF Run
  <2>3. Step(r, j)
    BY <1>1
  <2> HIDE DEF j
  <2>4. run'[r] = j /\ \A q \in Requests \ {r} : run'[q] = run[q]
    BY <2>3, StepOf DEF IInv
  <2> QED
    BY <2>1, <2>2, <2>4, Sentinel
<1>4. /\ \A v \in Audience \ {u} : told'[v] = told[v]
      /\ \A k \in Kinds : told'[u][k] = IF k \in got /\ told[u][k] < MaxTold THEN told[u][k] + 1
                                                                       ELSE told[u][k]
  BY <1>1 DEF IInv, TypeOK
<1>5. counted = Students
  BY <1>2 DEF IInv, FanoutKnows
<1>6. ToldAfterAllCounted' /\ FanoutKnows'
  BY <1>2, <1>3, <1>5 DEF IInv, ToldAfterAllCounted, FanoutKnows
<1>7. ASSUME ~slipped' PROVE Tracked'
  <2>1. Tracked /\ At(r, "fanout") /\ \A q \in Requests \ {r} : run[q] = Idle
    BY <1>2, <1>7 DEF IInv, Tracked, OneRun, At
  <2>2. OneRun' /\ CompleteEnds'
    BY <1>2, <1>3, <2>1 DEF Tracked, OneRun, CompleteEnds
  <2>3. PartialUntold'
    BY <1>3 DEF PartialUntold, At
  <2>4. \A k \in Kinds : told[u][k] = 0
    BY <1>2, <2>1 DEF Tracked, FanoutFresh
  <2>5. ToldTwiceOnlyBySlip'
    BY <1>2, <1>4, <1>7, <2>1, <2>4 DEF Tracked, ToldTwiceOnlyBySlip
  <2>6. run'[r].notified = {} => Untold'
    BY <1>2, <1>3, <1>4, <2>1 DEF Tracked, FanoutFresh, Untold
  <2>7. \A v \in run'[r].todo, k \in Kinds : told'[v][k] = 0
    BY <1>2, <1>3, <1>4, <2>1 DEF Tracked, FanoutFresh, Run
  <2>8. FanoutFresh'
    BY <1>3, <2>1, <2>6, <2>7 DEF FanoutFresh, At
  <2> QED
    BY <2>2, <2>3, <2>5, <2>8 DEF Tracked
<1> QED
  BY <1>6, <1>7 DEF IInv

\* A run that ends without having notified anybody leaves nothing to remember.
LEMMA RecordKeeps == ASSUME IInv, TypeOK', NEW r \in Requests, Record(r) PROVE IInv'
<1>1. PICK stored \in Succeeds :
        LET status == IF "github" \in run[r].notified THEN "complete" ELSE "partial" IN
          /\ record' = IF stored THEN status ELSE record
          /\ SlipIf(Notified(r) /\ ~(stored /\ status = "complete"))
  BY DEF Record
<1>2. /\ run[r] # Idle /\ run[r] \in Run /\ run[r].pc \in {"record", "fanout"}
      /\ UNCHANGED <<counted, told>>
  BY DEF Record, Ends, At, IInv, TypeOK
<1>3. run'[r] = Idle /\ \A q \in Requests \ {r} : run'[q] = run[q]
  BY DoneOf DEF Record, IInv
<1>4. ToldAfterAllCounted' /\ FanoutKnows'
  BY <1>2, <1>3 DEF IInv, ToldAfterAllCounted, FanoutKnows
<1>5. ASSUME ~slipped' PROVE Tracked'
  <2>1. Tracked /\ record # "complete" /\ ~slipped
    BY <1>1, <1>2, <1>5, PastCheck DEF IInv, SlipIf
  <2>2. \A q \in Requests : run'[q] = Idle
    BY <1>2, <1>3, <2>1 DEF Tracked, OneRun
  <2>3. record' # "complete" => run[r].notified = {}
    BY <1>1, <1>2, <1>5 DEF SlipIf, Notified
  <2>4. run[r].notified = {} => Untold
    <3>1. CASE run[r].pc = "fanout"
      BY <1>2, <2>1, <3>1 DEF Tracked, FanoutFresh, At
    <3>2. CASE run[r].pc = "record"
      BY <1>2, <2>1, <3>2 DEF Tracked, OneRun, PartialUntold, At
    <3> QED
      BY <1>2, <3>1, <3>2
  <2>5. OneRun' /\ CompleteEnds' /\ FanoutFresh'
    BY <2>2 DEF OneRun, CompleteEnds, FanoutFresh, At
  <2>6. PartialUntold' /\ ToldTwiceOnlyBySlip'
    BY <1>2, <2>1, <2>3, <2>4 DEF Tracked, PartialUntold, ToldTwiceOnlyBySlip, Untold
  <2> QED
    BY <2>5, <2>6 DEF Tracked
<1> QED
  BY <1>4, <1>5 DEF IInv

LEMMA CrashKeeps == ASSUME IInv, TypeOK', NEW r \in Requests, Crash(r) PROVE IInv'
<1>1. run[r] # Idle /\ SlipIf(Notified(r)) /\ UNCHANGED <<counted, record, told>>
  BY DEF Crash
<1>2. run'[r] = Idle /\ \A q \in Requests \ {r} : run'[q] = run[q]
  BY DoneOf DEF Crash, IInv
<1>3. ToldAfterAllCounted' /\ FanoutKnows'
  BY <1>1, <1>2 DEF IInv, ToldAfterAllCounted, FanoutKnows
<1>4. ASSUME ~slipped' PROVE Tracked'
  <2>1. Tracked /\ ~slipped /\ run[r].notified = {}
    BY <1>1, <1>4 DEF IInv, SlipIf, Notified
  <2>2. \A q \in Requests : run'[q] = Idle
    BY <1>1, <1>2, <2>1 DEF Tracked, OneRun
  <2>3. record # "complete" => Untold
    <3>1. CASE run[r].pc = "fanout"
      BY <1>1, <2>1, <3>1 DEF Tracked, FanoutFresh, At
    <3>2. CASE run[r].pc # "fanout"
      BY <1>1, <2>1, <3>2 DEF Tracked, OneRun, PartialUntold, At
    <3> QED
      BY <3>1, <3>2
  <2>4. OneRun' /\ CompleteEnds' /\ FanoutFresh'
    BY <2>2 DEF OneRun, CompleteEnds, FanoutFresh, At
  <2>5. PartialUntold' /\ ToldTwiceOnlyBySlip'
    BY <1>1, <2>1, <2>3 DEF Tracked, PartialUntold, ToldTwiceOnlyBySlip, Untold
  <2> QED
    BY <2>4, <2>5 DEF Tracked
<1> QED
  BY <1>3, <1>4 DEF IInv
-----------------------------------------------------------------------------
LEMMA InitInv == Init => IInv
<1> SUFFICES ASSUME Init PROVE IInv
  OBVIOUS
<1>1. TypeOK /\ Untold
  <2>1. told \in [Audience -> [Kinds -> 0..MaxTold]] /\ Untold
    <3>1. 0 \in 0..MaxTold
      BY DEF MaxTold
    <3>2. told = [u \in Audience |-> [k \in Kinds |-> 0]]
      BY DEF Init
    <3>3. \A u \in Audience : told[u] = [k \in Kinds |-> 0]
      BY <3>2
    <3>4. told \in [Audience -> [Kinds -> 0..MaxTold]]
      BY <3>1, <3>2
    <3>5. Untold
      BY <3>3 DEF Untold
    <3> QED
      BY <3>4, <3>5
  <2>2. run \in [Requests -> Run \cup {Idle}]
    BY DEF Init
  <2> QED
    BY <2>1, <2>2 DEF Init, TypeOK
<1>2. \A r \in Requests : run[r] = Idle
  BY DEF Init
<1>3. ToldAfterAllCounted /\ FanoutKnows
  BY <1>1, <1>2 DEF ToldAfterAllCounted, FanoutKnows, Untold
<1>4. Tracked
  BY <1>1, <1>2 DEF Tracked, OneRun, CompleteEnds, PartialUntold, FanoutFresh, ToldTwiceOnlyBySlip,
                    Untold, At
<1> QED
  BY <1>1, <1>3, <1>4 DEF IInv

LEMMA StepInv == IInv /\ [Next]_vars => IInv'
<1> SUFFICES ASSUME IInv, [Next]_vars PROVE IInv'
  OBVIOUS
<1>1. TypeOK'
  BY TypeStep DEF IInv
<1>2. CASE UNCHANGED vars \/ EndWeek
  <2>1. UNCHANGED <<counted, record, told, run, slipped>>
    BY <1>2 DEF vars, EndWeek
  <2> QED
    BY <1>1, <2>1 DEF IInv, ToldAfterAllCounted, FanoutKnows, Tracked, OneRun, CompleteEnds,
                      PartialUntold, FanoutFresh, ToldTwiceOnlyBySlip, Untold, At
<1>3. ASSUME NEW r \in Requests, Trigger(r) \/ Work(r) \/ Crash(r) PROVE IInv'
  BY <1>1, <1>3, TriggerKeeps, CheckKeeps, CountStepKeeps, RankKeeps, DeliverKeeps, RecordKeeps,
     CrashKeeps DEF Work
<1> QED
  BY <1>2, <1>3 DEF Next

THEOREM Invariance == Spec => []IInv
BY InitInv, StepInv, PTL DEF Spec

\* The tables and the runs keep their types.
THEOREM TypeCorrect == Spec => []TypeOK
BY Invariance, PTL DEF IInv

\* For any fleet, audience and number of overlapping runs, nobody is told of a
\* week before every account was counted.
THEOREM AllCountedFirst == Spec => []ToldAfterAllCounted
BY Invariance, PTL DEF IInv

\* As long as no run lost track of what it sent, nobody is told twice.
THEOREM ToldOnce == Spec => []ToldTwiceOnlyBySlip
<1>1. IInv => ToldTwiceOnlyBySlip
  BY DEF IInv, Tracked, ToldTwiceOnlyBySlip
<1> QED
  BY <1>1, Invariance, PTL

\* As long as no run lost track, a published week is never set back to partial.
THEOREM PublishedStays == Spec => CompleteStays
<1>1. ASSUME IInv, [Next]_vars, record = "complete", ~slipped PROVE record' = "complete"
  <2>1. CASE \E r \in Requests : Record(r)
    BY <1>1, <2>1, PastCheck DEF Record, Ends, At
  <2>2. CASE ~\E r \in Requests : Record(r)
    BY <1>1, <2>2 DEF Next, Work, vars, EndWeek, Trigger, Check, Resume, Unlisted, Count, Exhaust,
                      Rank, Deliver, Crash
  <2> QED
    BY <2>1, <2>2
<1>2. IInv /\ [Next]_vars => [record = "complete" /\ ~slipped => record' = "complete"]_vars
  BY <1>1
<1> QED
  BY Invariance, <1>2, PTL DEF Spec, CompleteStays
-----------------------------------------------------------------------------
(* The refinement of Announcement.                                           *)

\* What a run notified somebody of, somebody was told of.
NotifiedTold == \A r \in Requests : run[r] # Idle =>
                  \A k \in run[r].notified : \E u \in Audience : told[u][k] > 0

\* What a telling does to the counts: each kind that got through once more.
LEMMA TellingOf ==
  ASSUME TypeOK, NEW r \in Requests, NEW u \in Audience, Deliver(r, u)
  PROVE  \E got \in SUBSET Kinds :
           /\ told' = [told EXCEPT ![u] = told'[u]]
           /\ told'[u] \in [Kinds -> 0..2]
           /\ \A k \in Kinds : /\ told[u][k] <= told'[u][k]
                               /\ told[u][k] = 0 => told'[u][k] <= 1
                               /\ k \in got => told'[u][k] > 0
           /\ run'[r] # Idle /\ run'[r].notified = run[r].notified \cup got
           /\ \A q \in Requests \ {r} : run'[q] = run[q]
<1>1. PICK got \in SUBSET Kinds :
        /\ told' = [told EXCEPT ![u] =
                      [k \in Kinds |-> IF k \in got /\ @[k] < MaxTold THEN @[k] + 1 ELSE @[k]]]
        /\ Step(r, [run[r] EXCEPT !.todo = @ \ {u}, !.notified = @ \cup got])
  BY DEF Deliver
<1>2. run[r] \in Run
  BY DEF Deliver, At, TypeOK
<1>3. /\ run'[r] = [run[r] EXCEPT !.todo = @ \ {u}, !.notified = @ \cup got]
      /\ \A q \in Requests \ {r} : run'[q] = run[q]
  BY <1>1, StepOf
<1>4. [run[r] EXCEPT !.todo = @ \ {u}, !.notified = @ \cup got] \in Run
  <2>1. run[r].todo \ {u} \in SUBSET Audience /\ run[r].notified \cup got \in SUBSET Kinds
    BY <1>2 DEF Run
  <2> QED
    BY <1>2, <2>1 DEF Run
<1>5. run'[r] # Idle /\ run'[r].notified = run[r].notified \cup got
  BY <1>2, <1>3, <1>4, Sentinel DEF Run
<1>6. /\ told \in [Audience -> [Kinds -> 0..2]]
      /\ told'[u] = [k \in Kinds |-> IF k \in got /\ told[u][k] < 2 THEN told[u][k] + 1 ELSE told[u][k]]
  BY <1>1 DEF TypeOK, MaxTold
<1>7. \A k \in Kinds : /\ told'[u][k] \in 0..2 /\ told[u][k] <= told'[u][k]
                       /\ told[u][k] = 0 => told'[u][k] <= 1
                       /\ k \in got => told'[u][k] > 0
  BY <1>6
<1>8. told'[u] \in [Kinds -> 0..2]
  BY <1>6, <1>7
<1>9. told' = [told EXCEPT ![u] = told'[u]]
  BY <1>1, <1>6
<1>10. \A k \in Kinds : /\ told[u][k] <= told'[u][k]
                        /\ told[u][k] = 0 => told'[u][k] <= 1
                        /\ k \in got => told'[u][k] > 0
  BY <1>7
<1> WITNESS got \in SUBSET Kinds
<1> QED
  BY <1>3, <1>5, <1>8, <1>9, <1>10

\* A step that tells nobody leaves the runs with what they notified, or nothing.
LEMMA QuietNotified ==
  ASSUME NotifiedTold, UNCHANGED told,
         \A q \in Requests : run'[q] # Idle =>
            run'[q].notified = {} \/ (run[q] # Idle /\ run'[q].notified = run[q].notified)
  PROVE  NotifiedTold'
BY DEF NotifiedTold

LEMMA NotifiedStep == IInv /\ NotifiedTold /\ [Next]_vars => NotifiedTold'
<1> SUFFICES ASSUME IInv, NotifiedTold, [Next]_vars PROVE NotifiedTold'
  OBVIOUS
<1>t. TypeOK
  BY DEF IInv
<1>1. CASE UNCHANGED vars \/ EndWeek
  BY <1>1, QuietNotified DEF vars, EndWeek
<1>2. ASSUME NEW r \in Requests, Trigger(r) PROVE NotifiedTold'
  <2>1. run'[r].notified = {} /\ \A q \in Requests \ {r} : run'[q] = run[q]
    BY <1>t, <1>2, StepOf DEF Trigger
  <2> QED
    BY <1>2, <2>1, QuietNotified DEF Trigger
<1>3. ASSUME NEW r \in Requests, NEW j, Step(r, j), run[r] # Idle, UNCHANGED told,
             j.notified = run[r].notified
      PROVE  NotifiedTold'
  BY <1>t, <1>3, StepOf, QuietNotified
<1>4. ASSUME NEW r \in Requests, Done(r), UNCHANGED told PROVE NotifiedTold'
  BY <1>t, <1>4, DoneOf, QuietNotified
<1>5. ASSUME NEW r \in Requests, run[r] # Idle PROVE run[r] \in Run
  BY <1>t, <1>5 DEF TypeOK
<1>6. ASSUME NEW r \in Requests, Check(r) PROVE NotifiedTold'
  <2>1. [run[r] EXCEPT !.pc = "resume"].notified = run[r].notified /\ run[r] # Idle
    BY <1>5, <1>6 DEF Check, At, Run
  <2> QED
    BY <1>3, <1>4, <1>6, <2>1 DEF Check
<1>7. ASSUME NEW r \in Requests, NEW found \in Succeeds, Resume(r, found) PROVE NotifiedTold'
  <2> DEFINE j == [run[r] EXCEPT !.pc = "count",
                                 !.pending = IF found THEN Students \ counted ELSE Students]
  <2>1. j.notified = run[r].notified /\ run[r] # Idle /\ Step(r, j)
    BY <1>5, <1>7 DEF Resume, At, Run
  <2> HIDE DEF j
  <2> QED
    BY <1>3, <1>7, <2>1 DEF Resume
<1>8. ASSUME NEW r \in Requests, Unlisted(r) PROVE NotifiedTold'
  <2>1. [run[r] EXCEPT !.pc = "record"].notified = run[r].notified /\ run[r] # Idle
    BY <1>5, <1>8 DEF Unlisted, At, Run
  <2> QED
    BY <1>3, <1>8, <2>1 DEF Unlisted
<1>9. ASSUME NEW r \in Requests, Exhaust(r) PROVE NotifiedTold'
  <2>1. [run[r] EXCEPT !.pending = {}].notified = run[r].notified /\ run[r] # Idle
    BY <1>5, <1>9 DEF Exhaust, At, Run
  <2> QED
    BY <1>3, <1>9, <2>1 DEF Exhaust
<1>10. ASSUME NEW r \in Requests, NEW s \in Students, Count(r, s) PROVE NotifiedTold'
  <2> DEFINE j == [run[r] EXCEPT !.pending = @ \ {s}, !.tried = TRUE]
  <2>1. j.notified = run[r].notified /\ run[r] # Idle /\ Step(r, j)
    BY <1>5, <1>10 DEF Count, At, Run
  <2> HIDE DEF j
  <2> QED
    BY <1>3, <1>10, <2>1 DEF Count
<1>11. ASSUME NEW r \in Requests, Rank(r) PROVE NotifiedTold'
  <2> DEFINE i == [run[r] EXCEPT !.pc = "record"]
             j == [run[r] EXCEPT !.pc = "fanout", !.todo = Audience]
  <2>1. /\ i.notified = run[r].notified /\ j.notified = run[r].notified /\ run[r] # Idle
        /\ Step(r, i) \/ Step(r, j)
    BY <1>5, <1>11 DEF Rank, At, Run
  <2> HIDE DEF i, j
  <2> QED
    BY <1>3, <1>11, <2>1 DEF Rank
<1>12. ASSUME NEW r \in Requests, NEW u \in Audience, Deliver(r, u) PROVE NotifiedTold'
  <2>1. PICK got \in SUBSET Kinds :
           /\ told' = [told EXCEPT ![u] = told'[u]]
           /\ told'[u] \in [Kinds -> 0..2]
           /\ \A k \in Kinds : /\ told[u][k] <= told'[u][k]
                               /\ told[u][k] = 0 => told'[u][k] <= 1
                               /\ k \in got => told'[u][k] > 0
           /\ run'[r] # Idle /\ run'[r].notified = run[r].notified \cup got
           /\ \A q \in Requests \ {r} : run'[q] = run[q]
    BY <1>t, <1>12, TellingOf
  <2>2. run[r] # Idle
    BY <1>12 DEF Deliver, At
  <2>3. ASSUME NEW k \in Kinds, NEW v \in Audience, told[v][k] > 0 PROVE told'[v][k] > 0
    <3>1. told[v][k] \in 0..2 /\ (v # u => told'[v] = told[v])
      BY <1>t, <2>1 DEF TypeOK, MaxTold
    <3>2. CASE v = u
      <4>1. told'[u][k] \in 0..2 /\ told[u][k] <= told'[u][k]
        BY <2>1
      <4> QED
        BY <2>3, <3>1, <3>2, <4>1
    <3> QED
      BY <2>3, <3>1, <3>2
  <2>4. ASSUME NEW q \in Requests, run'[q] # Idle, NEW k \in run'[q].notified
        PROVE  \E v \in Audience : told'[v][k] > 0
    <3>1. k \in Kinds
      BY <2>1, <2>4, <1>5, <2>2 DEF Run
    <3>2. CASE q = r /\ k \in got
      BY <2>1, <3>1, <3>2
    <3>3. CASE ~(q = r /\ k \in got)
      <4>1. run[q] # Idle /\ k \in run[q].notified
        BY <2>1, <2>2, <2>4, <3>3
      <4> QED
        BY <2>3, <3>1, <4>1 DEF NotifiedTold
    <3> QED
      BY <3>2, <3>3
  <2> QED
    BY <2>4 DEF NotifiedTold
<1>13. ASSUME NEW r \in Requests, Record(r) \/ Crash(r) PROVE NotifiedTold'
  BY <1>4, <1>13 DEF Record, Crash
<1> QED
  BY <1>1, <1>2, <1>6, <1>7, <1>8, <1>9, <1>10, <1>11, <1>12, <1>13 DEF Next, Work
-----------------------------------------------------------------------------
Shown == <<counted, told, record = "complete", slipped>>

\* A step that writes neither rows nor notifications nor the record can only lose
\* track.
LEMMA QuietPromise ==
  ASSUME TypeOK, TypeOK', UNCHANGED <<counted, told, record>>, slipped => slipped'
  PROVE  Promise!Next \/ UNCHANGED Shown
<1>1. slipped' = slipped \/ slipped' = TRUE
  BY DEF TypeOK
<1>2. CASE slipped' = slipped
  BY <1>2 DEF Shown
<1>3. CASE slipped' = TRUE
  BY <1>3 DEF Promise!Next, Promise!Lose
<1> QED
  BY <1>1, <1>2, <1>3

LEMMA PromiseStep ==
  IInv /\ NotifiedTold /\ [Next]_vars => [Promise!Next]_Shown
<1> SUFFICES ASSUME IInv, NotifiedTold, [Next]_vars PROVE Promise!Next \/ UNCHANGED Shown
  OBVIOUS
<1>t. TypeOK /\ TypeOK'
  BY TypeStep DEF IInv
<1>1. CASE UNCHANGED vars \/ EndWeek
  BY <1>1 DEF vars, EndWeek, Shown
<1>2. ASSUME NEW r \in Requests, Trigger(r) \/ Check(r) \/ Crash(r)
      PROVE  Promise!Next \/ UNCHANGED Shown
  BY <1>t, <1>2, QuietPromise DEF Trigger, Check, Crash, SlipIf
<1>3. ASSUME NEW r \in Requests,
             \/ \E found \in Succeeds : Resume(r, found)
             \/ Unlisted(r) \/ Exhaust(r) \/ Rank(r)
      PROVE  Promise!Next \/ UNCHANGED Shown
  BY <1>3 DEF Resume, Unlisted, Exhaust, Rank, Shown
<1>4. ASSUME NEW r \in Requests, NEW s \in Students, Count(r, s)
      PROVE  Promise!Next \/ UNCHANGED Shown
  <2>1. (counted' = counted \cup {s} \/ counted' = counted) /\ UNCHANGED <<record, told, slipped>>
    BY <1>4 DEF Count
  <2> QED
    BY <2>1 DEF Promise!Next, Promise!Gather, Shown
<1>5. ASSUME NEW r \in Requests, NEW u \in Audience, Deliver(r, u)
      PROVE  Promise!Next \/ UNCHANGED Shown
  <2>1. /\ told' = [told EXCEPT ![u] = told'[u]]
        /\ told'[u] \in [Kinds -> 0..2]
        /\ \A k \in Kinds : /\ told[u][k] <= told'[u][k]
                            /\ told[u][k] = 0 => told'[u][k] <= 1
    BY <1>t, <1>5, TellingOf
  <2>2. /\ run[r] # Idle /\ run[r].pc = "fanout" /\ u \in run[r].todo
        /\ UNCHANGED <<counted, record, slipped>>
    BY <1>5 DEF Deliver, At
  <2>3. counted = Students
    BY <2>2 DEF IInv, FanoutKnows
  <2>4. slipped \/ (record # "complete" /\ \A k \in Kinds : told[u][k] = 0)
    BY <2>2, PastCheck DEF IInv, Tracked, FanoutFresh, At
  <2>5. told[u] = [k \in Kinds |-> told[u][k]]
    BY <1>t DEF TypeOK
  <2>6. slipped \/ (record # "complete" /\ told[u] = Promise!Never /\ \A k \in Kinds : told'[u][k] <= 1)
    BY <2>1, <2>4, <2>5 DEF Promise!Never, Promise!Kinds, Kinds
  <2>7. Promise!Tell(u, told'[u])
    BY <2>1, <2>2, <2>3, <2>6 DEF Promise!Tell, Promise!Kinds, Kinds
  <2> QED
    BY <2>1, <2>7 DEF Promise!Next, Promise!Kinds, Kinds
<1>6. ASSUME NEW r \in Requests, Record(r) PROVE Promise!Next \/ UNCHANGED Shown
  <2>1. PICK stored \in Succeeds :
          LET status == IF "github" \in run[r].notified THEN "complete" ELSE "partial" IN
            /\ record' = IF stored THEN status ELSE record
            /\ SlipIf(Notified(r) /\ ~(stored /\ status = "complete"))
    BY <1>6 DEF Record
  <2>2. run[r] # Idle /\ run[r].pc # "check" /\ UNCHANGED <<counted, told>>
    BY <1>6 DEF Record, Ends, At
  <2>3. CASE ~stored
    BY <1>t, <2>1, <2>2, <2>3, QuietPromise DEF SlipIf
  <2>4. CASE stored /\ "github" \in run[r].notified
    <3>1. record' = "complete" /\ slipped' = slipped
      BY <1>t, <2>1, <2>4 DEF SlipIf, TypeOK
    <3>2. \E u \in Audience : told[u]["github"] > 0
      BY <2>2, <2>4 DEF NotifiedTold
    <3> QED
      BY <2>2, <3>1, <3>2 DEF Promise!Next, Promise!Publish
  <2>5. CASE stored /\ "github" \notin run[r].notified
    <3>1. record' = "partial" /\ (slipped => slipped')
      BY <2>1, <2>5 DEF SlipIf
    <3>2. CASE record = "complete"
      <4>1. slipped /\ slipped' = slipped
        BY <1>t, <2>2, <3>1, <3>2, PastCheck DEF TypeOK
      <4> QED
        BY <2>2, <3>1, <4>1 DEF Promise!Next, Promise!Retract
    <3>3. CASE record # "complete"
      <4>1. slipped' = slipped \/ slipped' = TRUE
        BY <1>t, <3>1 DEF TypeOK
      <4> QED
        BY <2>2, <3>1, <3>3, <4>1 DEF Promise!Next, Promise!Lose, Shown
    <3> QED
      BY <3>2, <3>3
  <2> QED
    BY <2>3, <2>4, <2>5
<1> QED
  BY <1>1, <1>2, <1>3, <1>4, <1>5, <1>6 DEF Next, Work

\* The tables of a weekly run, with any number of runs that overlap, fail and are
\* ended, follow the announcement's promise: counted before told, told once,
\* published after somebody was told, until a run lost track.
THEOREM ImplementsAnnouncement == Spec => AnnouncementSpec
<1>1. Init => Promise!Init /\ NotifiedTold
  BY DEF Init, Promise!Init, Promise!Never, Promise!Kinds, Kinds, NotifiedTold
<1>2. IInv /\ NotifiedTold /\ [Next]_vars => [Promise!Next]_<<counted, told, record = "complete", slipped>>
  BY PromiseStep DEF Shown
<1> QED
  BY <1>1, <1>2, InitInv, StepInv, NotifiedStep, PTL
     DEF Spec, AnnouncementSpec, Promise!Spec, Promise!promise
=============================================================================
