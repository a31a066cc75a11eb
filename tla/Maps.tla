-------------------------------- MODULE Maps --------------------------------
(* The administrators' blacklist and hidden repositories: one map per kind,   *)
(* changed an entry at a time and stored as a whole.  Every instance memoises *)
(* it, a copy is kept in the cache, and a page that finds the stored map      *)
(* empty or cannot read it stores the copy again.                             *)
EXTENDS Naturals, FiniteSets

CONSTANTS Instances, Entries,  \* processes; what can be listed, a board or a repository of a student
          MaxToggles, MaxPages,  \* toggles and pages begun (bounds)
          NoMemo, AtRest, Upstash

ASSUME MapsAssumption == MaxToggles \in Nat /\ MaxPages \in Nat /\ Upstash \notin Instances

VARIABLES oneCache, \* whether the cache is Upstash, or one in every process
          db,       \* the stored map
          cache,    \* the copies: nothing once expired
          memo,     \* what each instance memoised
          work,     \* what each handler is doing
          told,     \* the map the administrators were told of
          astray,   \* entries that may differ from it, by a cause below
          aside,    \* per copy, the handlers that may have put it and not stored it: none, one or any
          toggles, pages  \* how many were begun

mapsVars == <<oneCache, db, cache, memo, work, told, astray, aside, toggles, pages>>
-----------------------------------------------------------------------------
\* A toggle runs on the event loop, one at a time in a process; a page in a thread.
Toggle == "toggle"
Page == "page"
Workers == Instances \X {Toggle, Page}
Inst(w) == w[1]

\* The copy that instance i uses.
Places == Instances \cup {Upstash}
Place(i) == IF oneCache THEN Upstash ELSE i

\* behind: another handler wrote the map since it was read, or the read failed and
\* what the handler goes on with is the copy, or nothing.
Job == [at : {"load", "lookup", "repair", "memo", "cache", "db", "drop"},
        map : SUBSET Entries, on : SUBSET Entries, list : BOOLEAN, behind : BOOLEAN]
Memo == [map : SUBSET Entries, behind : BOOLEAN]

ASSUME MapsSentinels == NoMemo \notin Memo /\ AtRest \notin Job

MapsInit == /\ oneCache \in BOOLEAN
            /\ db = {} /\ told = {} /\ astray = {}
            /\ cache = [p \in Places |-> {}] /\ aside = [p \in Places |-> {}]
            /\ memo = [i \in Instances |-> NoMemo]
            /\ work = [w \in Workers |-> AtRest]
            /\ toggles = 0 /\ pages = 0

Resting(w) == work[w] = AtRest
Doing(w, pc) == ~Resting(w) /\ work[w].at = pc
Move(w, job) == work' = [work EXCEPT ![w] = job]
-----------------------------------------------------------------------------
(* Reading the map.                                                          *)

NewJob == [at |-> "load", map |-> {}, on |-> {}, list |-> FALSE, behind |-> FALSE]

BeginPage(w) == /\ w[2] = Page /\ Resting(w) /\ pages < MaxPages
                /\ Move(w, NewJob)
                /\ pages' = pages + 1
                /\ UNCHANGED <<oneCache, db, cache, memo, told, astray, aside, toggles>>

BeginToggle(w, e, list) ==
  /\ w[2] = Toggle /\ Resting(w) /\ toggles < MaxToggles
  /\ Move(w, [NewJob EXCEPT !.on = {e}, !.list = list])
  /\ toggles' = toggles + 1
  /\ UNCHANGED <<oneCache, db, cache, memo, told, astray, aside, pages>>

\* The map a toggle will store: what it read, with its own entry changed.
Changed(job) == IF job.list THEN job.map \cup job.on ELSE job.map \ job.on

\* With the map in hand a page is done and a toggle changes its entry.
HaveMap(w, job) ==
  Move(w, IF w[2] = Page THEN AtRest ELSE [job EXCEPT !.at = "cache", !.map = Changed(job)])

Hit(w) ==
  /\ Doing(w, "load") /\ memo[Inst(w)] # NoMemo
  /\ HaveMap(w, [work[w] EXCEPT !.map = memo[Inst(w)].map, !.behind = memo[Inst(w)].behind])
  /\ UNCHANGED <<oneCache, db, cache, memo, told, astray, aside, toggles, pages>>

\* The stored map, unless it is empty or the database fails, which look alike.
ReadStored(w, ok) ==
  /\ Doing(w, "load") /\ memo[Inst(w)] = NoMemo
  /\ LET found == IF ok THEN db ELSE {} IN
       Move(w, IF found # {} THEN [work[w] EXCEPT !.at = "memo", !.map = found]
                             ELSE [work[w] EXCEPT !.at = "lookup", !.behind = ~ok])
  /\ UNCHANGED <<oneCache, db, cache, memo, told, astray, aside, toggles, pages>>

\* Otherwise the copy, which is then stored; without one the map is taken as empty.
LookUp(w) ==
  /\ Doing(w, "lookup")
  /\ LET p == Place(Inst(w)) IN
       Move(w, IF cache[p] = {} THEN [work[w] EXCEPT !.at = "memo"]
               ELSE [work[w] EXCEPT !.at = "repair", !.map = cache[p], !.behind = aside[p] # {}])
  /\ UNCHANGED <<oneCache, db, cache, memo, told, astray, aside, toggles, pages>>

\* What a handler of instance i stored makes what the others read out of date.
Overtaken(w) ==
  /\ memo' = [j \in Instances |->
                IF memo[j] # NoMemo /\ j # Inst(w) THEN [memo[j] EXCEPT !.behind = TRUE] ELSE memo[j]]
  /\ work' = [v \in Workers |->
                IF v = w THEN [work[w] EXCEPT !.at = IF @ = "repair" THEN "memo" ELSE "drop"]
                ELSE IF Resting(v) THEN work[v] ELSE [work[v] EXCEPT !.behind = @ \/ work[v].at # "load"]]

\* Once w stored its map, only its own copy can be the stored one.
AsideAfter(w, same) == [p \in Places |-> IF p = Place(Inst(w)) /\ same THEN {} ELSE Workers]

Repair(w, ok) ==
  /\ Doing(w, "repair")
  /\ IF ok THEN /\ db' = work[w].map
                /\ Overtaken(w)
                /\ aside' = AsideAfter(w, ~work[w].behind /\ aside[Place(Inst(w))] = {})
                /\ astray' = IF work[w].behind THEN Entries ELSE astray
           ELSE /\ Move(w, [work[w] EXCEPT !.at = "memo"])
                /\ UNCHANGED <<db, memo, aside, astray>>
  /\ UNCHANGED <<oneCache, cache, told, toggles, pages>>

Memoise(w) ==
  /\ Doing(w, "memo")
  /\ memo' = [memo EXCEPT ![Inst(w)] = [map |-> work[w].map, behind |-> work[w].behind]]
  /\ HaveMap(w, work[w])
  /\ UNCHANGED <<oneCache, db, cache, told, astray, aside, toggles, pages>>
-----------------------------------------------------------------------------
(* Storing the map.                                                          *)

PutCopy(w) ==
  /\ Doing(w, "cache")
  /\ cache' = [cache EXCEPT ![Place(Inst(w))] = work[w].map]
  /\ aside' = [aside EXCEPT ![Place(Inst(w))] = {w}]
  /\ Move(w, [work[w] EXCEPT !.at = "db"])
  /\ UNCHANGED <<oneCache, db, memo, told, astray, toggles, pages>>

\* put_blacklist: a failure is logged, and the answer is "ok" all the same.
PutStored(w, ok) ==
  /\ Doing(w, "db")
  /\ told' = IF work[w].list THEN told \cup work[w].on ELSE told \ work[w].on
  /\ IF ok THEN /\ db' = work[w].map
                /\ Overtaken(w)
                /\ aside' = AsideAfter(w, aside[Place(Inst(w))] = {w})
                /\ astray' = (IF work[w].behind THEN Entries ELSE astray) \ work[w].on
           ELSE /\ Move(w, [work[w] EXCEPT !.at = "drop"])
                /\ astray' = astray \cup work[w].on
                /\ aside' = [aside EXCEPT ![Place(Inst(w))] = Workers]
                /\ UNCHANGED <<db, memo>>
  /\ UNCHANGED <<oneCache, cache, toggles, pages>>

\* Faulty variant: the memo is kept until it expires.
KeepMemo(w) == /\ Doing(w, "drop")
               /\ Move(w, AtRest)
               /\ UNCHANGED <<oneCache, db, cache, memo, told, astray, aside, toggles, pages>>

\* The whole memo of the instance is dropped.
Drop(w) == /\ Doing(w, "drop")
           /\ memo' = [memo EXCEPT ![Inst(w)] = NoMemo]
           /\ Move(w, AtRest)
           /\ UNCHANGED <<oneCache, db, cache, told, astray, aside, toggles, pages>>
-----------------------------------------------------------------------------
(* Time and crashes.                                                         *)

ExpireMemo(i) == /\ memo[i] # NoMemo
                 /\ memo' = [memo EXCEPT ![i] = NoMemo]
                 /\ UNCHANGED <<oneCache, db, cache, work, told, astray, aside, toggles, pages>>

ExpireCopy(p) == /\ cache[p] # {}
                 /\ cache' = [cache EXCEPT ![p] = {}]
                 /\ UNCHANGED <<oneCache, db, memo, work, told, astray, aside, toggles, pages>>

\* An instance ends, with what it kept in memory.
Crash(i) ==
  /\ memo' = [memo EXCEPT ![i] = NoMemo]
  /\ work' = [w \in Workers |-> IF Inst(w) = i THEN AtRest ELSE work[w]]
  /\ cache' = [cache EXCEPT ![i] = {}]
  /\ aside' = [p \in Places |-> IF \E w \in aside[p] : Inst(w) = i THEN Workers ELSE aside[p]]
  /\ UNCHANGED <<oneCache, db, told, astray, toggles, pages>>

MapsNext ==
  \/ \E w \in Workers :
       \/ BeginPage(w) \/ Hit(w) \/ LookUp(w) \/ Memoise(w) \/ PutCopy(w) \/ Drop(w)
       \/ \E e \in Entries, list \in BOOLEAN : BeginToggle(w, e, list)
       \/ \E ok \in BOOLEAN : ReadStored(w, ok) \/ Repair(w, ok) \/ PutStored(w, ok)
  \/ \E i \in Instances : ExpireMemo(i) \/ Crash(i)
  \/ \E p \in Places : ExpireCopy(p)

MapsSpec == MapsInit /\ [][MapsNext]_mapsVars
-----------------------------------------------------------------------------
MapsTypeOK ==
  /\ oneCache \in BOOLEAN
  /\ db \subseteq Entries /\ told \subseteq Entries /\ astray \subseteq Entries
  /\ cache \in [Places -> SUBSET Entries] /\ aside \in [Places -> SUBSET Workers]
  /\ memo \in [Instances -> Memo \cup {NoMemo}]
  /\ work \in [Workers -> Job \cup {AtRest}]
  /\ toggles \in 0..MaxToggles /\ pages \in 0..MaxPages

\* The stored map says of an entry what administrators were last told, unless
\* the write that said so was lost, or the map was stored by a handler behind it:
\* one that another instance or a page overtook, or one whose own read failed (the
\* next property is about that one).
Kept == \A e \in Entries \ astray : e \in db <=> e \in told

\* "A cold/unreachable DB must never silently wipe an admin's blacklist": an entry is
\* taken off the stored map by the toggle of that entry only.
NeverWiped ==
  [][\A e \in db \ db' : \E w \in Workers : Doing(w, "db") /\ e \in work[w].on]_mapsVars
=============================================================================
