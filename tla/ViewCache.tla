----------------------------- MODULE ViewCache -----------------------------
(* view_cache: every server instance memoises the views it builds.  A miss   *)
(* runs the builder outside the lock and stores its value afterwards; writers *)
(* drop the memo of their own instance.  A value is represented by whether    *)
(* it is the table as it is now.                                              *)
EXTENDS FiniteSets

CONSTANT Instances     \* server processes, one memo each

VARIABLES memo,        \* per instance: what the memo holds
          fills        \* per instance: values built and not yet stored

cacheVars == <<memo, fills>>
-----------------------------------------------------------------------------
Values == {"current", "stale"}
NoMemo == "none"

CacheInit == /\ memo = [i \in Instances |-> NoMemo]
             /\ fills = [i \in Instances |-> {}]

\* get: on a miss the builder reads the table, without the lock.
Build(i) ==
  /\ memo[i] = NoMemo
  /\ fills' = [fills EXCEPT ![i] = @ \cup {"current"}]
  /\ UNCHANGED memo

\* get: the value is stored under the lock, whatever happened meanwhile.
Store(i) ==
  \E v \in fills[i] : /\ memo' = [memo EXCEPT ![i] = v]
                         /\ fills' = [fills EXCEPT ![i] = @ \ {v}]

\* Faulty variant: every hit renews the entry.
ExpireRenewed(i) == memo[i] # NoMemo /\ UNCHANGED cacheVars

\* An entry older than TTL is a miss.
Expire(i) ==
  /\ memo[i] # NoMemo
  /\ memo' = [memo EXCEPT ![i] = NoMemo]
  /\ UNCHANGED fills

\* The writer's instance drops its memo.
Invalidate(i) == /\ memo' = [memo EXCEPT ![i] = NoMemo]
                 /\ UNCHANGED fills

\* A write to the table: what was read before it is now out of date.
Outdated ==
  /\ memo' = [i \in Instances |-> IF memo[i] = "current" THEN "stale" ELSE memo[i]]
  /\ fills' = [i \in Instances |-> IF fills[i] = {} THEN {} ELSE {"stale"}]

CacheTypeOK == /\ memo \in [Instances -> Values \cup {NoMemo}]
               /\ fills \in [Instances -> SUBSET Values]
=============================================================================
