------------------------------ MODULE Privacy ------------------------------
(* What a student hides, and where it shows.  Each instance memoises the      *)
(* choices of all students and the administrators' blacklist, and a page      *)
(* folds both together.  How the blacklist is stored is in Maps.              *)
EXTENDS Naturals

CONSTANTS Pupils, Instances,
          Staff,            \* a viewer who is no student
          MaxSaves,         \* choices and toggles (bound)
          NoMemo

VARIABLES choices,  \* what each student hides, as stored
          banned,   \* the boards administrators took each student off, as stored
          kept,     \* per instance, the memoised choices
          keptBans, \* per instance, the memoised blacklist
          reading,  \* per instance, what another thread has read for one of them
          behind,   \* memos and reads that choices or bans were stored after
          saves

privacyVars == <<choices, banned, kept, keptBans, reading, behind, saves>>
-----------------------------------------------------------------------------
\* One board of the four that show GitHub, one of the two that show HackerRank.
Boards == {"github", "hackerrank"}
Choice == SUBSET {"github", "hackerrank"}
Nothing == [s \in Pupils |-> {}]

PrivacyInit == /\ choices = Nothing /\ banned = Nothing
               /\ kept = [i \in Instances |-> NoMemo]
               /\ keptBans = [i \in Instances |-> NoMemo]
               /\ reading = [i \in Instances |-> NoMemo]
               /\ behind = {} /\ saves = 0

Readers(kind) == {i \in Instances : reading[i] # NoMemo /\ reading[i].of = kind}

\* my_privacy_save.  The choice is stored first; if the picture that came with it
\* cannot be switched the answer is an error and this memo is not dropped.
Choose(i, s, c, switched) ==
  /\ saves < MaxSaves /\ saves' = saves + 1
  /\ choices' = [choices EXCEPT ![s] = c]
  /\ kept' = IF switched THEN [kept EXCEPT ![i] = NoMemo] ELSE kept
  /\ behind' = {m \in behind : m[2] # "choices"}
                 \cup {<<j, "choices">> : j \in {x \in Instances : kept'[x] # NoMemo}}
                 \cup {<<j, "read">> : j \in Readers("choices")}
  /\ UNCHANGED <<banned, reading, keptBans>>

\* leaderboards_blacklist_save: this instance drops whatever it has memoised.
Toggle(i, s, b) ==
  /\ saves < MaxSaves /\ saves' = saves + 1
  /\ banned' = [banned EXCEPT ![s] = IF b \in @ THEN @ \ {b} ELSE @ \cup {b}]
  /\ kept' = [kept EXCEPT ![i] = NoMemo]
  /\ keptBans' = [keptBans EXCEPT ![i] = NoMemo]
  /\ behind' = {m \in behind : m[2] # "bans" /\ m # <<i, "choices">>}
                 \cup {<<j, "bans">> : j \in {x \in Instances : keptBans'[x] # NoMemo}}
                 \cup {<<j, "read">> : j \in Readers("bans")}
  /\ UNCHANGED <<choices, reading>>

Expire(i) ==
  /\ \/ kept[i] # NoMemo /\ kept' = [kept EXCEPT ![i] = NoMemo]
          /\ behind' = behind \ {<<i, "choices">>} /\ UNCHANGED keptBans
     \/ keptBans[i] # NoMemo /\ keptBans' = [keptBans EXCEPT ![i] = NoMemo]
          /\ behind' = behind \ {<<i, "bans">>} /\ UNCHANGED kept
  /\ UNCHANGED <<choices, banned, reading, saves>>

\* A memo is filled outside its lock: what was read may be stored after a save
\* that dropped it.
BeginRead(i) ==
  /\ reading[i] = NoMemo
  /\ \/ kept[i] = NoMemo /\ reading' = [reading EXCEPT ![i] = [of |-> "choices", is |-> choices]]
     \/ keptBans[i] = NoMemo /\ reading' = [reading EXCEPT ![i] = [of |-> "bans", is |-> banned]]
  /\ UNCHANGED <<choices, banned, kept, keptBans, behind, saves>>

StoreRead(i) ==
  /\ reading[i] # NoMemo
  /\ LET memo == <<i, reading[i].of>>
     IN behind' = (behind \ {memo, <<i, "read">>}) \cup {m \in {memo} : <<i, "read">> \in behind}
  /\ IF reading[i].of = "choices"
     THEN kept' = [kept EXCEPT ![i] = reading[i].is] /\ UNCHANGED keptBans
     ELSE keptBans' = [keptBans EXCEPT ![i] = reading[i].is] /\ UNCHANGED kept
  /\ reading' = [reading EXCEPT ![i] = NoMemo]
  /\ UNCHANGED <<choices, banned, saves>>
-----------------------------------------------------------------------------
\* _privacy_state, _blacklist_state: the memo, or what is stored.
Prefs(i) == IF kept[i] # NoMemo THEN kept[i] ELSE choices
Bans(i) == IF keptBans[i] # NoMemo THEN keptBans[i] ELSE banned

\* A memo once it was asked for: a read that fails is memoised as an empty table
\* (of the blacklist, if this process has no copy either).
Memoised(memo, reads, stored) ==
  IF memo # NoMemo THEN memo ELSE IF reads THEN stored ELSE Nothing
Misread(i, kind, memo, reads) == {m \in {<<i, kind>>} : memo = NoMemo /\ ~reads}

\* _privacy_blacklist_merge: the opt-outs are added for every viewer.
Merge(bans, prefs) == [s \in Pupils |-> bans[s] \cup prefs[s]]

\* Faulty variant: the memoised blacklist is the one that is added to.
BansMerged(bans, prefs) == Merge(bans, prefs)

\* What is left in the memo of the blacklist: the merge is a copy.
BansKept(bans, prefs) == bans

\* leaderboards_page, with what it shows once it has memoised.
ShowBoards(i, reads, bansRead) ==
  /\ kept' = [kept EXCEPT ![i] = Memoised(@, reads, choices)]
  /\ keptBans' = [keptBans EXCEPT ![i] = BansKept(Memoised(@, bansRead, banned), kept'[i])]
  /\ behind' = behind \cup Misread(i, "choices", kept[i], reads)
                      \cup Misread(i, "bans", keptBans[i], bansRead)
  /\ UNCHANGED <<choices, banned, reading, saves>>
OffBoards(i) == Merge(Bans(i), Prefs(i))

\* A page that prints handles: only for a student are the choices read at all.
ShowHandles(i, reads) ==
  /\ kept' = [kept EXCEPT ![i] = Memoised(@, reads, choices)]
  /\ behind' = behind \cup Misread(i, "choices", kept[i], reads)
  /\ UNCHANGED <<choices, banned, reading, keptBans, saves>>

\* mask_repo_rows, mask_export_df, apply_profile_privacy: never the viewer's own.
Masked(i, viewer) ==
  IF viewer = Staff THEN {} ELSE {s \in Pupils : "github" \in Prefs(i)[s] /\ s # viewer}

\* The lists of the overview mask the viewer's own handle too.
ListMasked(i, viewer) ==
  IF viewer = Staff THEN {} ELSE {s \in Pupils : "github" \in Prefs(i)[s]}

PrivacyNext ==
  \E i \in Instances :
    \/ \E s \in Pupils, c \in Choice, switched \in BOOLEAN : Choose(i, s, c, switched)
    \/ \E s \in Pupils, b \in Boards : Toggle(i, s, b)
    \/ Expire(i) \/ BeginRead(i) \/ StoreRead(i)
    \/ \E reads, bansRead \in BOOLEAN : ShowBoards(i, reads, bansRead)
    \/ \E reads \in BOOLEAN : ShowHandles(i, reads)

PrivacySpec == PrivacyInit /\ [][PrivacyNext]_privacyVars
-----------------------------------------------------------------------------
\* A page takes a student off a board exactly if an administrator or the student
\* asked for it, and hides a handle from another student exactly if its owner
\* asked for it; only a memo that another instance, an unfinished save, a failed
\* read or a read overtaken by a save left behind shows it differently.
OffExactly ==
  \A i \in Instances : <<i, "choices">> \notin behind =>
    /\ <<i, "bans">> \notin behind =>
         \A s \in Pupils : OffBoards(i)[s] = banned[s] \cup choices[s]
    /\ \A s \in Pupils, viewer \in Pupils \cup {Staff} :
         /\ s \in Masked(i, viewer) <=> "github" \in choices[s] /\ viewer \notin {s, Staff}
         /\ s \in ListMasked(i, viewer) <=> "github" \in choices[s] /\ viewer # Staff
=============================================================================
