----------------------------- MODULE PageProofs -----------------------------
(* What the pages hide, for any number of students, instances and saves; what *)
(* the bell shows, for any number of notifications, requests and streams; and *)
(* what the pages show, for any accounts, filters and renamings.  The sums    *)
(* over rows of students are those of FigureProofs.                           *)
EXTENDS Pages, Privacy, Bell, FigureProofs, SequenceTheorems, FiniteSetTheorems, TLAPS

Hidden == [Pupils -> Choice]

Reading == {[of |-> kind, is |-> map] : kind \in {"choices", "bans"}, map \in Hidden}

PrivacyTypeOK ==
  /\ choices \in Hidden /\ banned \in Hidden
  /\ kept \in [Instances -> Hidden \cup {NoMemo}]
  /\ keptBans \in [Instances -> Hidden \cup {NoMemo}]
  /\ reading \in [Instances -> Reading \cup {NoMemo}]
  /\ behind \subseteq Instances \X {"choices", "bans", "read"}

\* What is memoised or read, and not overtaken, is what is stored.
MemosTrue ==
  \A i \in Instances :
    /\ kept[i] # NoMemo /\ <<i, "choices">> \notin behind => kept[i] = choices
    /\ reading[i] # NoMemo /\ <<i, "read">> \notin behind =>
         reading[i].is = IF reading[i].of = "choices" THEN choices ELSE banned
    /\ keptBans[i] # NoMemo /\ <<i, "bans">> \notin behind => keptBans[i] = banned

PrivacyInv == PrivacyTypeOK /\ MemosTrue
-----------------------------------------------------------------------------
\* A memo of what is stored, rightly or marked as behind, once it was asked for.
LEMMA MemoisedLemma ==
  ASSUME NEW i \in Instances, NEW kind \in {"choices", "bans"}, NEW reads \in BOOLEAN,
         NEW stored \in Hidden, NEW memos \in [Instances -> Hidden \cup {NoMemo}],
         memos[i] # NoMemo /\ <<i, kind>> \notin behind => memos[i] = stored
  PROVE  /\ Memoised(memos[i], reads, stored) \in Hidden
         /\ [memos EXCEPT ![i] = Memoised(@, reads, stored)] \in [Instances -> Hidden \cup {NoMemo}]
         /\ Misread(i, kind, memos[i], reads) \subseteq {<<i, kind>>}
         /\ <<i, kind>> \notin behind \cup Misread(i, kind, memos[i], reads)
              => Memoised(memos[i], reads, stored) = stored
<1>1. Nothing \in Hidden
  BY DEF Nothing, Hidden, Choice
<1>2. Memoised(memos[i], reads, stored) \in Hidden
  BY <1>1 DEF Memoised
<1>3. QED
  BY <1>2 DEF Memoised, Misread

LEMMA InitInv == PrivacyInit => PrivacyInv
  BY DEF PrivacyInit, PrivacyInv, PrivacyTypeOK, MemosTrue, Nothing, Hidden, Choice

\* No step leaves a memo wrong without marking it.
LEMMA StepInv == PrivacyInv /\ [PrivacyNext]_privacyVars => PrivacyInv'
<1> SUFFICES ASSUME PrivacyInv, [PrivacyNext]_privacyVars PROVE PrivacyInv'
  OBVIOUS
<1>1. ASSUME NEW i \in Instances, NEW s \in Pupils, NEW c \in Choice, NEW switched \in BOOLEAN,
             Choose(i, s, c, switched)
      PROVE  PrivacyInv'
  <2>1. choices' \in Hidden /\ kept' \in [Instances -> Hidden \cup {NoMemo}]
    BY <1>1 DEF Choose, PrivacyInv, PrivacyTypeOK, Hidden
  <2>2. behind' \subseteq Instances \X {"choices", "bans", "read"}
    BY <1>1 DEF Choose, PrivacyInv, PrivacyTypeOK, Readers
  <2>3. \A j \in Instances : <<j, "bans">> \in behind' <=> <<j, "bans">> \in behind
    BY <1>1 DEF Choose
  <2>4. \A j \in Instances : /\ kept'[j] # NoMemo => <<j, "choices">> \in behind'
                             /\ j \in Readers("choices") => <<j, "read">> \in behind'
    BY <1>1 DEF Choose, Readers
  <2>5. \A j \in Instances : /\ <<j, "read">> \in behind => <<j, "read">> \in behind'
                             /\ reading[j] # NoMemo /\ reading[j].of = "choices" => <<j, "read">> \in behind'
    BY <1>1, <2>4 DEF Choose, Readers
  <2>6. QED
    BY <1>1, <2>1, <2>2, <2>3, <2>4, <2>5 DEF Choose, PrivacyInv, PrivacyTypeOK, MemosTrue
<1>2. ASSUME NEW i \in Instances, NEW s \in Pupils, NEW b \in Boards, Toggle(i, s, b)
      PROVE  PrivacyInv'
  <2>1. banned' \in Hidden
    BY <1>2 DEF Toggle, PrivacyInv, PrivacyTypeOK, Hidden, Choice, Boards
  <2>2. /\ kept' \in [Instances -> Hidden \cup {NoMemo}]
        /\ keptBans' \in [Instances -> Hidden \cup {NoMemo}]
    BY <1>2 DEF Toggle, PrivacyInv, PrivacyTypeOK
  <2>3. behind' \subseteq Instances \X {"choices", "bans", "read"}
    BY <1>2 DEF Toggle, PrivacyInv, PrivacyTypeOK, Readers
  <2>4. \A j \in Instances :
          /\ <<j, "read">> \in behind => <<j, "read">> \in behind'
          /\ j # i => (<<j, "choices">> \in behind' <=> <<j, "choices">> \in behind)
          /\ keptBans'[j] # NoMemo => <<j, "bans">> \in behind'
          /\ reading[j] # NoMemo /\ reading[j].of # "choices" => <<j, "read">> \in behind'
    BY <1>2 DEF Toggle, Readers, PrivacyInv, PrivacyTypeOK, Reading
  <2>5. kept'[i] = NoMemo /\ \A j \in Instances : j # i => kept'[j] = kept[j]
    BY <1>2 DEF Toggle, PrivacyInv, PrivacyTypeOK
  <2>6. QED
    BY <1>2, <2>1, <2>2, <2>3, <2>4, <2>5 DEF Toggle, PrivacyInv, PrivacyTypeOK, MemosTrue
<1>3. ASSUME NEW i \in Instances, Expire(i) PROVE PrivacyInv'
  BY <1>3 DEF Expire, PrivacyInv, PrivacyTypeOK, MemosTrue
<1>4. ASSUME NEW i \in Instances, BeginRead(i) PROVE PrivacyInv'
  <2>1. PICK r \in Reading : /\ reading' = [reading EXCEPT ![i] = r]
                             /\ r.is = IF r.of = "choices" THEN choices ELSE banned
    BY <1>4 DEF BeginRead, Reading, PrivacyInv, PrivacyTypeOK
  <2>2. QED
    BY <1>4, <2>1 DEF BeginRead, PrivacyInv, PrivacyTypeOK, MemosTrue
<1>5. ASSUME NEW i \in Instances, StoreRead(i) PROVE PrivacyInv'
  <2>1. PICK kind \in {"choices", "bans"}, map \in Hidden : reading[i].of = kind /\ reading[i].is = map
    BY <1>5 DEF StoreRead, Reading, PrivacyInv, PrivacyTypeOK
  <2>2. /\ kept' = IF kind = "choices" THEN [kept EXCEPT ![i] = map] ELSE kept
        /\ keptBans' = IF kind = "bans" THEN [keptBans EXCEPT ![i] = map] ELSE keptBans
        /\ reading' = [reading EXCEPT ![i] = NoMemo]
        /\ UNCHANGED <<choices, banned>>
    BY <1>5, <2>1 DEF StoreRead
  <2>3. /\ kept' \in [Instances -> Hidden \cup {NoMemo}]
        /\ keptBans' \in [Instances -> Hidden \cup {NoMemo}]
        /\ reading' \in [Instances -> Reading \cup {NoMemo}]
    BY <2>2 DEF PrivacyInv, PrivacyTypeOK
  <2>4. behind' = (behind \ {<<i, kind>>, <<i, "read">>})
                    \cup {m \in {<<i, kind>>} : <<i, "read">> \in behind}
    BY <1>5, <2>1 DEF StoreRead
  <2>5. behind' \subseteq Instances \X {"choices", "bans", "read"}
    BY <2>4 DEF PrivacyInv, PrivacyTypeOK
  <2>6. /\ <<i, kind>> \in behind' <=> <<i, "read">> \in behind
        /\ \A j \in Instances, what \in {"choices", "bans", "read"} :
             j # i \/ (what # kind /\ what # "read") =>
               (<<j, what>> \in behind' <=> <<j, what>> \in behind)
    BY <2>4
  <2>7. <<i, "read">> \notin behind => map = IF kind = "choices" THEN choices ELSE banned
    BY <1>5, <2>1 DEF StoreRead, PrivacyInv, MemosTrue
  <2>8. CASE kind = "choices"
    BY <2>2, <2>3, <2>5, <2>6, <2>7, <2>8 DEF PrivacyInv, PrivacyTypeOK, MemosTrue
  <2>9. CASE kind = "bans"
    BY <2>2, <2>3, <2>5, <2>6, <2>7, <2>9 DEF PrivacyInv, PrivacyTypeOK, MemosTrue
  <2>10. QED
    BY <2>8, <2>9
<1>6. ASSUME NEW i \in Instances, NEW reads \in BOOLEAN, NEW bansRead \in BOOLEAN,
             ShowBoards(i, reads, bansRead)
      PROVE  PrivacyInv'
  <2>1. /\ kept' = [kept EXCEPT ![i] = Memoised(@, reads, choices)]
        /\ keptBans' = [keptBans EXCEPT ![i] = Memoised(@, bansRead, banned)]
        /\ behind' = behind \cup Misread(i, "choices", kept[i], reads)
                             \cup Misread(i, "bans", keptBans[i], bansRead)
        /\ UNCHANGED <<choices, banned, reading>>
    BY <1>6 DEF ShowBoards, BansKept
  <2>2. /\ kept' \in [Instances -> Hidden \cup {NoMemo}]
        /\ Misread(i, "choices", kept[i], reads) \subseteq {<<i, "choices">>}
        /\ <<i, "choices">> \notin behind \cup Misread(i, "choices", kept[i], reads)
             => Memoised(kept[i], reads, choices) = choices
    BY <2>1, MemoisedLemma DEF PrivacyInv, PrivacyTypeOK, MemosTrue
  <2>3. /\ keptBans' \in [Instances -> Hidden \cup {NoMemo}]
        /\ Misread(i, "bans", keptBans[i], bansRead) \subseteq {<<i, "bans">>}
        /\ <<i, "bans">> \notin behind \cup Misread(i, "bans", keptBans[i], bansRead)
             => Memoised(keptBans[i], bansRead, banned) = banned
    BY <2>1, MemoisedLemma DEF PrivacyInv, PrivacyTypeOK, MemosTrue
  <2>4. /\ behind' \subseteq Instances \X {"choices", "bans", "read"}
        /\ \A m \in behind : m \in behind'
        /\ <<i, "choices">> \notin behind' => kept'[i] = choices
        /\ <<i, "bans">> \notin behind' => keptBans'[i] = banned
    BY <2>1, <2>2, <2>3 DEF PrivacyInv, PrivacyTypeOK
  <2>5. \A j \in Instances : j # i => kept'[j] = kept[j] /\ keptBans'[j] = keptBans[j]
    BY <2>1 DEF PrivacyInv, PrivacyTypeOK
  <2>6. QED
    BY <2>1, <2>2, <2>3, <2>4, <2>5 DEF PrivacyInv, PrivacyTypeOK, MemosTrue
<1>7. ASSUME NEW i \in Instances, NEW reads \in BOOLEAN, ShowHandles(i, reads) PROVE PrivacyInv'
  <2>1. /\ kept' = [kept EXCEPT ![i] = Memoised(@, reads, choices)]
        /\ behind' = behind \cup Misread(i, "choices", kept[i], reads)
        /\ UNCHANGED <<choices, banned, reading, keptBans>>
    BY <1>7 DEF ShowHandles
  <2>2. /\ kept' \in [Instances -> Hidden \cup {NoMemo}]
        /\ Misread(i, "choices", kept[i], reads) \subseteq {<<i, "choices">>}
        /\ <<i, "choices">> \notin behind \cup Misread(i, "choices", kept[i], reads)
             => Memoised(kept[i], reads, choices) = choices
    BY <2>1, MemoisedLemma DEF PrivacyInv, PrivacyTypeOK, MemosTrue
  <2>3. \A j \in Instances : j # i => kept'[j] = kept[j]
    BY <2>1 DEF PrivacyInv, PrivacyTypeOK
  <2>4. QED
    BY <2>1, <2>2, <2>3 DEF PrivacyInv, PrivacyTypeOK, MemosTrue
<1>8. CASE UNCHANGED privacyVars
  BY <1>8 DEF privacyVars, PrivacyInv, PrivacyTypeOK, MemosTrue
<1>9. QED
  BY <1>1, <1>2, <1>3, <1>4, <1>5, <1>6, <1>7, <1>8 DEF PrivacyNext

\* Memos that are not marked are right, so that pages show what is stored.
LEMMA InvShows == PrivacyInv => OffExactly
<1> SUFFICES ASSUME PrivacyInv, NEW i \in Instances, <<i, "choices">> \notin behind
             PROVE  /\ <<i, "bans">> \notin behind =>
                         \A s \in Pupils : OffBoards(i)[s] = banned[s] \cup choices[s]
                    /\ \A s \in Pupils, viewer \in Pupils \cup {Staff} :
                         /\ s \in Masked(i, viewer) <=> "github" \in choices[s] /\ viewer \notin {s, Staff}
                         /\ s \in ListMasked(i, viewer) <=> "github" \in choices[s] /\ viewer # Staff
  BY DEF OffExactly
<1>1. Prefs(i) = choices
  BY DEF Prefs, PrivacyInv, MemosTrue
<1>2. <<i, "bans">> \notin behind => Bans(i) = banned
  BY DEF Bans, PrivacyInv, MemosTrue
<1>3. QED
  BY <1>1, <1>2 DEF OffBoards, Merge, Masked, ListMasked

\* _privacy_state and its readers: the types of the maps and memos.
THEOREM PrivacyTypes == PrivacySpec => []PrivacyTypeOK
  BY InitInv, StepInv, PTL DEF PrivacySpec, PrivacyInv

\* _privacy_blacklist_merge and the masks: what is hidden on a page is what was
\* asked for, whatever the instances, saves and failed reads.
THEOREM HiddenExactly == PrivacySpec => []OffExactly
<1>1. PrivacyInit => PrivacyInv
  BY InitInv
<1>2. PrivacyInv /\ [PrivacyNext]_privacyVars => PrivacyInv'
  BY StepInv
<1>3. PrivacyInv => OffExactly
  BY InvShows
<1>4. QED
  BY <1>1, <1>2, <1>3, PTL DEF PrivacySpec
-----------------------------------------------------------------------------
\* A stream that is not closed has a slot.
Holding == {s \in Streams : stream[s] # Closed}

BellTypeOK == /\ stream \in [Streams -> Stream]
              /\ taken \in Nat /\ gone \in Nat

\* The memo and a read for it exclude each other, and each is the table's list
\* unless a change passed it by.
ListTrue == /\ memo = NoList \/ listed = NoList
            /\ memo # NoList /\ ~missed => memo = Newest(notes)
            /\ listed # NoList /\ ~missed => listed = Newest(notes)

SlotsTrue == taken = gone + Cardinality(Holding)

BellInv == BellTypeOK /\ ListTrue /\ SlotsTrue
-----------------------------------------------------------------------------
LEMMA HeldFinite == ASSUME BellTypeOK PROVE IsFiniteSet(Holding) /\ Cardinality(Holding) \in Nat
<1>1. Holding \subseteq Streams
  BY DEF Holding
<1>2. QED
  BY <1>1, BellAssumption, FS_Subset, FS_CardinalityType

\* Opening a stream holds one slot more, closing it one less.
LEMMA HeldMore ==
  ASSUME BellTypeOK, NEW s \in Streams, NEW to \in Stream, Moves(s, to), stream[s] = Closed, to # Closed
  PROVE  stream' \in [Streams -> Stream] /\ Cardinality(Holding') = Cardinality(Holding) + 1
<1>1. Holding' = Holding \cup {s} /\ s \notin Holding
  BY DEF Holding, Moves, BellTypeOK
<1>2. QED
  BY <1>1, HeldFinite, FS_AddElement DEF Moves, BellTypeOK

LEMMA HeldLess ==
  ASSUME BellTypeOK, NEW s \in Streams, Moves(s, Closed), stream[s] # Closed
  PROVE  stream' \in [Streams -> Stream] /\ Cardinality(Holding') = Cardinality(Holding) - 1
<1>1. Holding' = Holding \ {s} /\ s \in Holding
  BY DEF Holding, Moves, BellTypeOK
<1>2. Closed \in Stream
  BY BellAssumption DEF Closed, Stream
<1>3. QED
  BY <1>1, <1>2, HeldFinite, FS_RemoveElement DEF Moves, BellTypeOK

LEMMA HeldSame ==
  ASSUME BellTypeOK, NEW s \in Streams, NEW to \in Stream, Moves(s, to), stream[s] # Closed, to # Closed
  PROVE  stream' \in [Streams -> Stream] /\ Holding' = Holding
  BY DEF Holding, Moves, BellTypeOK

\* Whatever becomes of the table, the memo is dropped or marked.
LEMMA ChangeLemma ==
  ASSUME ListTrue, NEW list, NEW drops \in BOOLEAN, Change(list, drops)
  PROVE  ListTrue'
  BY DEF Change, ListTrue

\* Steps that leave the streams alone leave the slots alone.
LEMMA StreamsAlone ==
  ASSUME BellInv, UNCHANGED streamVars PROVE BellTypeOK' /\ SlotsTrue'
  BY DEF BellInv, BellTypeOK, SlotsTrue, Holding, streamVars

LEMMA ListAlone == ASSUME BellInv, UNCHANGED <<notes, listVars>> PROVE ListTrue'
  BY DEF BellInv, ListTrue, listVars

LEMMA BellInitInv == BellInit => BellInv
<1> SUFFICES ASSUME BellInit PROVE BellInv
  OBVIOUS
<1>1. Holding = {} /\ BellTypeOK
  BY BellAssumption DEF BellInit, Holding, BellTypeOK, Stream, Closed
<1>2. QED
  BY <1>1, FS_EmptySet DEF BellInit, BellInv, ListTrue, SlotsTrue

LEMMA BellStepInv == BellInv /\ [BellNext]_bellVars => BellInv'
<1> SUFFICES ASSUME BellInv, [BellNext]_bellVars PROVE BellInv'
  OBVIOUS
<1>1. ASSUME NEW kind \in {"ticket", "other"}, NEW here \in BOOLEAN, Arrive(kind, here) PROVE BellInv'
  <2>1. Change(Append(notes, "unread"), kind = "ticket" /\ here) /\ UNCHANGED streamVars
    BY <1>1 DEF Arrive
  <2>2. QED
    BY <2>1, ChangeLemma, StreamsAlone DEF BellInv
<1>2. CASE Rendering
  <2>1. UNCHANGED streamVars
    BY <1>2 DEF Rendering, Lapse, ShowMemo, StoreList, ReadList
  <2>2. ListTrue'
    BY <1>2 DEF Rendering, Lapse, ShowMemo, StoreList, ReadList, listVars, BellInv, ListTrue
  <2>3. QED
    BY <2>1, <2>2, StreamsAlone DEF BellInv
<1>3. CASE Polling
  <2>1. UNCHANGED <<notes, listVars>> /\ UNCHANGED streamVars
    BY <1>3 DEF Polling, Poll, PollShown, PollFails, Polled
  <2>2. QED
    BY <2>1, ListAlone, StreamsAlone DEF BellInv
<1>4. ASSUME NEW c \in Clicks, Requests(c) PROVE BellInv'
  <2>1. CASE Click(c) \/ ClickAll(c) \/ Answer(c) \/ \E ok \in BOOLEAN : Count(c, ok)
    <3>1. UNCHANGED <<notes, listVars>> /\ UNCHANGED streamVars
      BY <2>1 DEF Click, ClickAll, Sends, Answer, Count
    <3>2. QED
      BY <3>1, ListAlone, StreamsAlone DEF BellInv
  <2>2. ASSUME NEW ok \in BOOLEAN, NEW here \in BOOLEAN, Mark(c, here, ok) \/ MarkAll(c, here, ok)
        PROVE  BellInv'
    <3>1. UNCHANGED streamVars
      BY <2>2 DEF Mark, MarkAll
    <3>2. \E list : Change(list, here)
      BY <2>2 DEF Mark, MarkAll
    <3>3. QED
      BY <3>1, <3>2, ChangeLemma, StreamsAlone DEF BellInv
  <2>3. QED
    BY <1>4, <2>1, <2>2 DEF Requests
<1>5. ASSUME NEW s \in Streams, Streaming(s) PROVE BellInv'
  <2>1. ListTrue'
    BY <1>5, ListAlone DEF Streaming, Open, Begin, LeaveEarly, Tick, End, Moves
  <2>2. CASE Open(s)
    <3>1. [Closed EXCEPT !.at = "held"] \in Stream /\ [Closed EXCEPT !.at = "held"] # Closed
      BY BellAssumption DEF Closed, Stream
    <3>2. QED
      BY <2>1, <2>2, <3>1, HeldMore, HeldFinite DEF Open, BellInv, BellTypeOK, SlotsTrue
  <2>3. CASE Begin(s)
    <3>1. /\ [stream[s] EXCEPT !.at = "on"] \in Stream /\ [stream[s] EXCEPT !.at = "on"] # Closed
          /\ stream[s] # Closed
      BY <2>3 DEF Begin, Closed, Stream, BellInv, BellTypeOK
    <3>2. QED
      BY <2>1, <2>3, <3>1, HeldSame DEF Begin, BellInv, BellTypeOK, SlotsTrue
  <2>4. CASE Tick(s)
    <3>1. /\ [stream[s] EXCEPT !.ticks = @ + 1] \in Stream /\ [stream[s] EXCEPT !.ticks = @ + 1] # Closed
          /\ stream[s] # Closed
      BY <2>4, BellAssumption DEF Tick, Closed, Stream, BellInv, BellTypeOK
    <3>2. QED
      BY <2>1, <2>4, <3>1, HeldSame DEF Tick, BellInv, BellTypeOK, SlotsTrue
  <2>5. CASE LeaveEarly(s)
    <3>1. stream[s] # Closed
      BY <2>5 DEF LeaveEarly, Closed
    <3>2. QED
      BY <2>1, <2>5, <3>1, HeldLess, HeldFinite DEF LeaveEarly, BellInv, BellTypeOK, SlotsTrue
  <2>6. CASE End(s)
    <3>1. stream[s] # Closed
      BY <2>6 DEF End, Closed
    <3>2. Cardinality(Holding) >= 1
      BY <3>1, HeldFinite, HeldLess, <2>6, FS_EmptySet DEF Holding, BellInv
    <3>3. QED
      BY <2>1, <2>6, <3>1, <3>2, HeldLess, HeldFinite DEF End, BellInv, BellTypeOK, SlotsTrue
  <2>7. QED
    BY <1>5, <2>2, <2>3, <2>4, <2>5, <2>6 DEF Streaming
<1>6. CASE UNCHANGED bellVars
  BY <1>6, ListAlone, StreamsAlone DEF bellVars, listVars, tabVars, streamVars, BellInv
<1>7. QED
  BY <1>1, <1>2, <1>3, <1>4, <1>5, <1>6 DEF BellNext

\* A page is rendered from what the table holds unless a change passed the memo by,
\* and every slot counted is that of an open stream or of one left before it began.
THEOREM BellShows == BellSpec => []BellTrue
<1>1. BellInv => BellTrue
  BY DEF BellInv, ListTrue, SlotsTrue, Holding, BellTrue
<1>2. QED
  BY <1>1, BellInitInv, BellStepInv, PTL DEF BellSpec
-----------------------------------------------------------------------------
(* What the pages show: the snapshots behind them.                           *)

PagesTypeOK ==
  /\ login \in [Users -> Login]
  /\ handle \in [Accounts -> Login]
  /\ class \in [Accounts -> Classes]
  /\ snap \in [Accounts -> Snapshot \cup {NoSnap}]

\* GitHub spells every login its own way, and nobody submits a renamed one.
LoginsTrue ==
  /\ \A u \in Users : login[u].of = u /\ login[u].caps
  /\ \A a \in Accounts : ~handle[a].renamed

\* A snapshot is of its account; if that was not renamed when it was taken, it has
\* all its own repositories, and those of others since the first heavy sync.
SnapTrue(a) ==
  snap[a] # NoSnap =>
    LET s == snap[a]
    IN  /\ s.login.of = handle[a].of /\ s.login.caps
        /\ \A r \in s.repos : r.from = a /\ Fold(r.user) = Fold(handle[a])
        /\ s.login.renamed => login[handle[a].of].renamed
        /\ ~s.login.renamed =>
             \E more \in {{}, Others} :
               /\ s.repos = ReposFrame(a, Owned, IF s.heavy THEN s.login ELSE handle[a])
                              \cup ReposFrame(a, more, s.login)
               /\ s.owned = Cardinality(Owned) /\ s.teams = Cardinality(more)

PagesInv == PagesTypeOK /\ LoginsTrue /\ \A a \in Accounts : SnapTrue(a)

LEMMA PagesInitially == PagesInit => PagesInv
<1> SUFFICES ASSUME PagesInit PROVE PagesInv
  OBVIOUS
<1>1. login \in [Users -> Login] /\ \A u \in Users : login[u].of = u /\ login[u].caps
  BY DEF PagesInit, Login
<1>2. handle \in [Accounts -> Login] /\ \A a \in Accounts : ~handle[a].renamed
  BY DEF PagesInit
<1> QED
  BY <1>1, <1>2 DEF PagesInit, PagesInv, PagesTypeOK, LoginsTrue, SnapTrue

LEMMA RenameKeeps ==
  ASSUME PagesInv, NEW u \in Users, Rename(u)
  PROVE  PagesInv'
<1>1. /\ login' = [login EXCEPT ![u] = [login[u] EXCEPT !.renamed = TRUE]]
      /\ UNCHANGED <<handle, class, snap>>
  BY DEF Rename, PagesInv, PagesTypeOK
<1>2. LET l == [login[u] EXCEPT !.renamed = TRUE]
      IN  l \in Login /\ l.of = u /\ l.caps /\ l.renamed
  <2>1. login[u] \in Login /\ login[u].of = u /\ login[u].caps
    BY DEF PagesInv, PagesTypeOK, LoginsTrue
  <2> QED
    BY <2>1 DEF Login
<1>3. login' \in [Users -> Login]
  BY <1>1, <1>2 DEF PagesInv, PagesTypeOK, Login
<1>4. \A v \in Users : /\ login'[v].of = v /\ login'[v].caps
                       /\ login[v].renamed => login'[v].renamed
  BY <1>1, <1>2 DEF PagesInv, PagesTypeOK, LoginsTrue
<1>5. PagesTypeOK' /\ LoginsTrue'
  BY <1>1, <1>3, <1>4 DEF PagesInv, PagesTypeOK, LoginsTrue
<1>6. ASSUME NEW a \in Accounts PROVE SnapTrue(a)'
  <2>1. handle[a].of \in Users
    BY DEF PagesInv, PagesTypeOK, Login
  <2>2. SnapTrue(a)
    BY DEF PagesInv
  <2> QED
    BY <1>1, <1>4, <2>1, <2>2 DEF SnapTrue
<1> QED
  BY <1>5, <1>6 DEF PagesInv

\* The spelling of an account's login that GitHub has now.
LEMMA CanonicalLogin ==
  ASSUME PagesInv, NEW a \in Accounts
  PROVE  /\ Canonical(a) \in Login /\ handle[a] \in Login /\ ~handle[a].renamed
         /\ Canonical(a).of = handle[a].of /\ Canonical(a).caps
         /\ Canonical(a).renamed = login[handle[a].of].renamed
         /\ ~Canonical(a).renamed <=> Fold(Canonical(a)) = Fold(handle[a])
<1>1. handle[a] \in Login /\ handle[a].of \in Users /\ ~handle[a].renamed
  BY DEF PagesInv, PagesTypeOK, LoginsTrue, Login
<1>2. Canonical(a) \in Login /\ Canonical(a).of = handle[a].of /\ Canonical(a).caps
  BY <1>1 DEF Canonical, PagesInv, PagesTypeOK, LoginsTrue
<1>3. Canonical(a).renamed \in BOOLEAN /\ handle[a].renamed = FALSE
  BY <1>1, <1>2 DEF Login
<1>4. ~Canonical(a).renamed <=> Fold(Canonical(a)) = Fold(handle[a])
  BY <1>2, <1>3 DEF Fold
<1> QED
  BY <1>1, <1>2, <1>4 DEF Canonical

\* Two spellings of one login by GitHub, neither renamed, are the same.
LEMMA SameSpelling ==
  ASSUME NEW l \in Login, NEW k \in Login, l.of = k.of, l.caps, k.caps, ~l.renamed, ~k.renamed
  PROVE  l = k
BY DEF Login

\* A step that takes a snapshot of one account leaves the others true.
LEMMA SnapsAlone ==
  ASSUME PagesInv, NEW a \in Accounts, NEW s, snap' = [snap EXCEPT ![a] = s],
         UNCHANGED <<login, handle, class>>, s \in Snapshot \cup {NoSnap}, SnapTrue(a)'
  PROVE  PagesInv'
<1>1. PagesTypeOK' /\ LoginsTrue'
  BY DEF PagesInv, PagesTypeOK, LoginsTrue
<1>2. ASSUME NEW b \in Accounts, b # a PROVE SnapTrue(b)'
  <2>1. snap'[b] = snap[b]
    BY <1>2 DEF PagesInv, PagesTypeOK
  <2> QED
    BY <2>1 DEF PagesInv, SnapTrue
<1> QED
  BY <1>1, <1>2 DEF PagesInv

LEMMA FrameFacts ==
  ASSUME NEW a, NEW repos, NEW as
  PROVE  /\ \A r \in ReposFrame(a, repos, as) : r.from = a /\ r.repo \in repos /\ r.user = as
         /\ a \in Accounts /\ repos \subseteq Owned \cup Others /\ as \in Login
              => ReposFrame(a, repos, as) \subseteq
                   [from : Accounts, repo : Owned \cup Others, user : Login]
<1>1. ASSUME NEW r \in ReposFrame(a, repos, as)
      PROVE  /\ r.from = a /\ r.repo \in repos /\ r.user = as
             /\ a \in Accounts /\ repos \subseteq Owned \cup Others /\ as \in Login
                  => r \in [from : Accounts, repo : Owned \cup Others, user : Login]
  <2>1. PICK x \in repos : r = [from |-> a, repo |-> x, user |-> as]
    BY DEF ReposFrame
  <2>2. r.from = a /\ r.repo \in repos /\ r.user = as
    BY <2>1
  <2>3. a \in Accounts /\ repos \subseteq Owned \cup Others /\ as \in Login
          => r \in [from : Accounts, repo : Owned \cup Others, user : Login]
    BY <2>1
  <2> QED
    BY <2>2, <2>3
<1> QED
  BY <1>1

\* A heavy sync lists everything, under a login that is not renamed.
LEMMA HeavyTrue ==
  ASSUME PagesInv, NEW a \in Accounts, HeavySnap(a)
  PROVE  PagesInv'
<1> DEFINE all == ReposFrame(a, Owned \cup Others, Canonical(a))
           ofLogin == {r \in all : Fold(r.user) = Fold(handle[a])}
           s == [login |-> Canonical(a), heavy |-> TRUE, owned |-> Cardinality(Owned),
                 teams |-> Cardinality(Others), repos |-> ofLogin]
<1>1. snap' = [snap EXCEPT ![a] = s] /\ UNCHANGED <<login, handle, class>>
  BY DEF HeavySnap
<1>2. snap'[a] = s
  BY <1>1 DEF PagesInv, PagesTypeOK
<1>3. all \subseteq [from : Accounts, repo : Owned \cup Others, user : Login]
  BY CanonicalLogin, FrameFacts
<1>4. \A r \in ofLogin : r.from = a /\ r.user = Canonical(a) /\ Fold(r.user) = Fold(handle[a])
  BY FrameFacts
<1>5. Cardinality(Owned) \in Nat /\ Cardinality(Others) \in Nat
  BY PagesAssumption, FS_CardinalityType
<1>6. s \in Snapshot
  BY <1>3, <1>5, CanonicalLogin DEF Snapshot
<1>7. ASSUME ~Canonical(a).renamed
      PROVE  ofLogin = ReposFrame(a, Owned, Canonical(a)) \cup ReposFrame(a, Others, Canonical(a))
  <2>1. \A r \in all : Fold(r.user) = Fold(handle[a])
    BY <1>7, CanonicalLogin, FrameFacts
  <2> QED
    BY <2>1 DEF ReposFrame
<1>8. SnapTrue(a)'
  <2> HIDE DEF ofLogin
  <2>1. /\ s.login = Canonical(a) /\ s.heavy /\ s.repos = ofLogin
        /\ s.owned = Cardinality(Owned) /\ s.teams = Cardinality(Others)
    OBVIOUS
  <2> HIDE DEF s
  <2>2. ~s.login.renamed =>
             \E more \in {{}, Others} :
               /\ s.repos = ReposFrame(a, Owned, IF s.heavy THEN s.login ELSE handle[a])
                              \cup ReposFrame(a, more, s.login)
               /\ s.owned = Cardinality(Owned) /\ s.teams = Cardinality(more)
    BY <1>7, <2>1
  <2> QED
    BY <1>1, <1>2, <1>4, <2>1, <2>2, CanonicalLogin DEF SnapTrue, ReposFrame
<1> QED
  BY <1>1, <1>6, <1>8, SnapsAlone

\* A light sync lists the own repositories under the submitted login, and keeps
\* those of others.
LEMMA LightTrue ==
  ASSUME PagesInv, NEW a \in Accounts, LightSnap(a)
  PROVE  PagesInv'
<1> DEFINE ofLogin == IF snap[a] = NoSnap THEN {} ELSE {r \in snap[a].repos : r.repo \in Others}
           more == IF snap[a] = NoSnap THEN 0 ELSE snap[a].teams
           own == ReposFrame(a, Owned, handle[a])
           s == [login |-> Canonical(a), heavy |-> FALSE, owned |-> Cardinality(Owned),
                 teams |-> more, repos |-> own \cup ofLogin]
<1>1. snap' = [snap EXCEPT ![a] = s] /\ UNCHANGED <<login, handle, class>>
  BY DEF LightSnap
<1>2. snap'[a] = s
  BY <1>1 DEF PagesInv, PagesTypeOK
<1>3. snap[a] # NoSnap => snap[a] \in Snapshot
  BY DEF PagesInv, PagesTypeOK
<1>4. own \subseteq [from : Accounts, repo : Owned \cup Others, user : Login]
  BY CanonicalLogin, FrameFacts
<1>5. ofLogin \subseteq [from : Accounts, repo : Owned \cup Others, user : Login] /\ more \in Nat
  BY <1>3 DEF Snapshot
<1>6. Cardinality(Owned) \in Nat
  BY PagesAssumption, FS_CardinalityType
<1>7. s \in Snapshot
  <2> HIDE DEF own, ofLogin, more
  <2> QED
    BY <1>4, <1>5, <1>6, CanonicalLogin DEF Snapshot
<1>8. \A r \in own \cup ofLogin : r.from = a /\ Fold(r.user) = Fold(handle[a])
  <2>1. \A r \in own : r.from = a /\ Fold(r.user) = Fold(handle[a])
    BY FrameFacts
  <2>2. \A r \in ofLogin : r.from = a /\ Fold(r.user) = Fold(handle[a])
    BY DEF PagesInv, SnapTrue
  <2> QED
    BY <2>1, <2>2
<1>9. ASSUME ~Canonical(a).renamed
      PROVE  \E others \in {{}, Others} : /\ ofLogin = ReposFrame(a, others, Canonical(a))
                                          /\ more = Cardinality(others)
  <2>1. CASE snap[a] = NoSnap
    <3>1. ofLogin = ReposFrame(a, {}, Canonical(a)) /\ more = Cardinality({})
      BY <2>1, FS_EmptySet DEF ReposFrame
    <3> QED
      BY <3>1
  <2>2. CASE snap[a] # NoSnap
    <3>1. /\ snap[a].login \in Login /\ snap[a].login.of = handle[a].of /\ snap[a].login.caps
          /\ ~snap[a].login.renamed
      BY <1>3, <1>9, <2>2, CanonicalLogin DEF PagesInv, SnapTrue, Snapshot
    <3>2. snap[a].login = Canonical(a)
      BY <1>9, <3>1, CanonicalLogin, SameSpelling
    <3>3. PICK others \in {{}, Others} :
             /\ snap[a].repos = ReposFrame(a, Owned, IF snap[a].heavy THEN snap[a].login ELSE handle[a])
                                  \cup ReposFrame(a, others, snap[a].login)
             /\ snap[a].teams = Cardinality(others)
      BY <2>2, <3>1 DEF PagesInv, SnapTrue
    <3>4. ofLogin = ReposFrame(a, others, Canonical(a))
      BY <2>2, <3>2, <3>3, PagesAssumption DEF ReposFrame
    <3> QED
      BY <2>2, <3>3, <3>4
  <2> QED
    BY <2>1, <2>2
<1>10. SnapTrue(a)'
  <2> HIDE DEF own, ofLogin, more
  <2>1. /\ s.login = Canonical(a) /\ ~s.heavy /\ s.repos = own \cup ofLogin
        /\ s.owned = Cardinality(Owned) /\ s.teams = more
    OBVIOUS
  <2> HIDE DEF s
  <2>2. ~s.login.renamed =>
             \E others \in {{}, Others} :
               /\ s.repos = ReposFrame(a, Owned, IF s.heavy THEN s.login ELSE handle[a])
                              \cup ReposFrame(a, others, s.login)
               /\ s.owned = Cardinality(Owned) /\ s.teams = Cardinality(others)
    BY <1>9, <2>1 DEF own
  <2> QED
    BY <1>1, <1>2, <1>8, <2>1, <2>2, CanonicalLogin DEF SnapTrue, ReposFrame
<1> QED
  BY <1>1, <1>7, <1>10, SnapsAlone

LEMMA PagesStep == PagesInv /\ [PagesNext]_pageVars => PagesInv'
<1> SUFFICES ASSUME PagesInv, [PagesNext]_pageVars PROVE PagesInv'
  OBVIOUS
<1>1. CASE \E u \in Users : ~login[u].renamed /\ Rename(u)
  BY <1>1, RenameKeeps
<1>2. ASSUME NEW a \in Accounts, SyncFails(a) PROVE PagesInv'
  <2>1. snap' = [snap EXCEPT ![a] = NoSnap] /\ UNCHANGED <<login, handle, class>>
    BY <1>2 DEF SyncFails
  <2>2. snap'[a] = NoSnap
    BY <2>1 DEF PagesInv, PagesTypeOK
  <2>3. SnapTrue(a)'
    BY <2>2 DEF SnapTrue
  <2> QED
    BY <2>1, <2>3, SnapsAlone
<1>3. CASE \E a \in Accounts : LightSnap(a) \/ HeavySnap(a) \/ SyncFails(a)
  BY <1>2, <1>3, LightTrue, HeavyTrue
<1>4. CASE UNCHANGED pageVars
  BY <1>4 DEF pageVars, PagesInv, PagesTypeOK, LoginsTrue, SnapTrue
<1> QED
  BY <1>1, <1>3, <1>4 DEF PagesNext
-----------------------------------------------------------------------------
(* What the pages make of them.                                              *)

LEMMA FrameSize ==
  ASSUME NEW a, NEW repos, IsFiniteSet(repos), NEW as
  PROVE  /\ IsFiniteSet(ReposFrame(a, repos, as))
         /\ Cardinality(ReposFrame(a, repos, as)) = Cardinality(repos)
<1> DEFINE f == [r \in repos |-> [from |-> a, repo |-> r, user |-> as]]
           frame == ReposFrame(a, repos, as)
<1>1. \A r \in repos : f[r] = [from |-> a, repo |-> r, user |-> as] /\ f[r].repo = r
  OBVIOUS
<1>2. f \in [repos -> frame] /\ \A t \in frame : \E r \in repos : f[r] = t
  BY DEF ReposFrame
<1>3. \A r, q \in repos : f[r] = f[q] => r = q
  BY <1>1
<1> HIDE DEF f, frame
<1>4. f \in Bijection(repos, frame)
  BY <1>2, <1>3 DEF Bijection, Injection, Surjection, IsInjective
<1>5. IsFiniteSet(frame) /\ Cardinality(frame) = Cardinality(repos)
  BY <1>4, FS_Bijection DEF ExistsBijection
<1> QED
  BY <1>5 DEF frame

\* Every repository is in the snapshot of its account, under a spelling of it.
LEMMA SnapRows ==
  ASSUME PagesInv, NEW a \in Accounts
  PROVE  /\ RowOf(a).id = a /\ RowOf(a).class = class[a]
         /\ \A r \in SnapRepos(a) : /\ r.from = a /\ r.repo \in Owned \cup Others
                                    /\ Fold(r.user) = Fold(handle[a])
<1>1. CASE snap[a] = NoSnap
  BY <1>1 DEF RowOf, SnapRepos
<1>2. CASE snap[a] # NoSnap
  <2>1. snap[a] \in Snapshot /\ SnapTrue(a)
    BY <1>2 DEF PagesInv, PagesTypeOK
  <2>2. \A r \in snap[a].repos : r.repo \in Owned \cup Others
    BY <2>1 DEF Snapshot
  <2> QED
    BY <1>2, <2>1, <2>2 DEF RowOf, SnapRepos, SnapTrue
<1> QED
  BY <1>1, <1>2

\* An account known by its submitted login has all its repositories under the
\* login of its row, as many as the row counts.
LEMMA UnmistakenRow ==
  ASSUME PagesInv, NEW a \in Unmistaken
  PROVE  /\ a \in Accounts
         /\ Fold(RowOf(a).login) = Fold(handle[a])
         /\ \A r \in SnapRepos(a) : r.user = RowOf(a).login
         /\ IsFiniteSet(SnapRepos(a))
         /\ Cardinality(SnapRepos(a)) = RowOf(a).owned + RowOf(a).teams
<1>0. a \in Accounts /\ Settled(a)
  BY DEF Unmistaken
<1>1. CASE snap[a] = NoSnap
  BY <1>0, <1>1, FS_EmptySet DEF RowOf, SnapRepos
<1>2. CASE snap[a] # NoSnap
  <2> DEFINE s == snap[a]
  <2>1. s \in Snapshot /\ SnapTrue(a)
    BY <1>0, <1>2 DEF PagesInv, PagesTypeOK
  <2>2. s.login \in Login /\ s.login.of = handle[a].of /\ s.login.caps
    BY <1>2, <2>1 DEF SnapTrue, Snapshot
  <2>3. handle[a] \in Login /\ ~handle[a].renamed
    BY <1>0, CanonicalLogin
  <2>4. \/ s.login = handle[a]
        \/ s.heavy /\ Fold(s.login) = Fold(handle[a])
    BY <1>0, <1>2 DEF Settled
  <2>5. Fold(s.login) = Fold(handle[a]) /\ ~s.login.renamed
    <3>1. Fold(s.login) = Fold(handle[a])
      BY <2>4
    <3>2. s.login.renamed = handle[a].renamed
      BY <3>1 DEF Fold
    <3> QED
      BY <2>3, <3>1, <3>2
  <2>6. PICK more \in {{}, Others} :
           /\ s.repos = ReposFrame(a, Owned, IF s.heavy THEN s.login ELSE handle[a])
                          \cup ReposFrame(a, more, s.login)
           /\ s.owned = Cardinality(Owned) /\ s.teams = Cardinality(more)
    BY <1>2, <2>1, <2>5 DEF SnapTrue
  <2> DEFINE own == ReposFrame(a, Owned, s.login)
             others == ReposFrame(a, more, s.login)
  <2>7. s.repos = own \cup others
    BY <2>4, <2>6
  <2>8. /\ \A r \in own : r.user = s.login /\ r.repo \in Owned
        /\ \A r \in others : r.user = s.login /\ r.repo \in Others
    BY <2>6, FrameFacts
  <2>9. IsFiniteSet(Owned) /\ IsFiniteSet(more)
    BY <2>6, PagesAssumption, FS_EmptySet
  <2>10. /\ IsFiniteSet(own) /\ Cardinality(own) = Cardinality(Owned)
         /\ IsFiniteSet(others) /\ Cardinality(others) = Cardinality(more)
    BY <2>9, FrameSize
  <2>11. own \cap others = {}
    BY <2>8, PagesAssumption
  <2> HIDE DEF own, others
  <2>12. /\ IsFiniteSet(own \cup others)
         /\ Cardinality(own \cup others) = Cardinality(own) + Cardinality(others)
    <3>1. /\ IsFiniteSet(own \cup others)
          /\ Cardinality(own \cup others)
               = Cardinality(own) + Cardinality(others) - Cardinality(own \cap others)
      BY <2>10, FS_Union
    <3>2. Cardinality(own \cap others) = 0
      BY <2>11, FS_EmptySet
    <3>3. Cardinality(own) \in Nat /\ Cardinality(others) \in Nat
      BY <2>10, FS_CardinalityType
    <3> QED
      BY <3>1, <3>2, <3>3
  <2>13. /\ RowOf(a).login = s.login /\ RowOf(a).owned = s.owned /\ RowOf(a).teams = s.teams
         /\ SnapRepos(a) = s.repos
    BY <1>2 DEF RowOf, SnapRepos
  <2> HIDE DEF s
  <2> QED
    BY <1>0, <2>5, <2>6, <2>7, <2>8, <2>10, <2>12, <2>13
<1> QED
  BY <1>1, <1>2

\* Its login is no other account's, as submitted or as GitHub spells it.
LEMMA UnmistakenAlone ==
  ASSUME PagesInv, NEW a \in Unmistaken, NEW b \in Accounts
  PROVE  /\ Fold(RowOf(b).login) = Fold(RowOf(a).login) => b = a
         /\ Fold(handle[b]) = Fold(RowOf(a).login) => b = a
         /\ First(a)
<1>1. \A c \in Accounts : /\ Fold(RowOf(c).login) = Fold(RowOf(a).login) => c = a
                          /\ Fold(handle[c]) = Fold(handle[a]) => c = a
  BY DEF Unmistaken, Alone
<1>2. First(a)
  <2>1. a \in Accounts /\ \A c \in Accounts : c < a => c # a
    BY PagesAssumption DEF Unmistaken
  <2> QED
    BY <1>1, <2>1 DEF First
<1> QED
  BY <1>1, <1>2, UnmistakenRow

AllRows == {RowOf(a) : a \in Accounts}
AllRepos == UNION {SnapRepos(a) : a \in Accounts}
TheirRepos(students) == UNION {SnapRepos(s.id) : s \in students}
Certain(students) == {s \in students : s.id \in Unmistaken}

\* Joining by login, by its letters or whatever its case, joins a repository with
\* the row of its account if either is unmistaken.
LEMMA JoinByLogin ==
  ASSUME PagesInv, NEW s \in AllRows, NEW r \in AllRepos,
         s.id \in Unmistaken \/ r.from \in Unmistaken
  PROVE  /\ Fold(s.login) = Fold(r.user) <=> s.id = r.from
         /\ s.login = r.user <=> s.id = r.from
<1>1. PICK a \in Accounts : s = RowOf(a)
  BY DEF AllRows
<1>2. PICK b \in Accounts : r \in SnapRepos(b)
  BY DEF AllRepos
<1>3. s.id = a /\ r.from = b /\ Fold(r.user) = Fold(handle[b])
  BY <1>1, <1>2, SnapRows
<1>4. ASSUME b \in Unmistaken
      PROVE  r.user = RowOf(b).login /\ (Fold(s.login) = Fold(r.user) => a = b)
  BY <1>1, <1>2, <1>4, UnmistakenRow, UnmistakenAlone
<1>5. ASSUME a \in Unmistaken, Fold(s.login) = Fold(r.user) PROVE a = b
  BY <1>1, <1>3, <1>5, UnmistakenAlone
<1>6. Fold(s.login) = Fold(r.user) => a = b
  BY <1>3, <1>4, <1>5
<1>7. a = b => s.login = r.user
  BY <1>1, <1>3, <1>4
<1>8. s.login = r.user => Fold(s.login) = Fold(r.user)
  OBVIOUS
<1> QED
  BY <1>3, <1>6, <1>7, <1>8

LEMMA ReposOf ==
  ASSUME PagesInv, NEW r \in AllRepos
  PROVE  r.from \in Accounts /\ r \in SnapRepos(r.from)
BY SnapRows DEF AllRepos

\* The repositories of some students, joined by login, are those of their
\* snapshots as far as either is unmistaken.
LEMMA ReposByLogin ==
  ASSUME PagesInv, NEW students \in SUBSET AllRows
  PROVE  /\ Rows({r \in AllRepos : r.user \in Logins(students)}) = TheirRepos(Certain(students))
         /\ Certain(students) = students
              => {r \in AllRepos : r.user \in Logins(students)} = TheirRepos(students)
<1> DEFINE joined == {r \in AllRepos : r.user \in Logins(students)}
<1>1. ASSUME NEW r \in joined, r.from \in Unmistaken \/ Certain(students) = students
      PROVE  r \in TheirRepos(Certain(students))
  <2>1. PICK s \in students : s.login = r.user
    BY DEF Logins
  <2>2. s.id \in Unmistaken \/ r.from \in Unmistaken
    BY <1>1 DEF Certain
  <2>3. s.id = r.from
    BY <2>1, <2>2, JoinByLogin
  <2>4. s \in Certain(students)
    BY <2>2, <2>3 DEF Certain
  <2>5. r \in SnapRepos(s.id)
    BY <2>3, ReposOf
  <2> QED
    BY <2>4, <2>5 DEF TheirRepos
<1>2. ASSUME NEW r \in TheirRepos(Certain(students))
      PROVE  r \in joined /\ r.from \in Unmistaken
  <2>1. PICK s \in Certain(students) : r \in SnapRepos(s.id)
    BY DEF TheirRepos
  <2>2. s \in students /\ s.id \in Unmistaken /\ s.id \in Accounts
    BY <2>1 DEF Certain, Unmistaken
  <2>3. r \in AllRepos /\ r.from = s.id
    BY <2>1, <2>2, SnapRows DEF AllRepos
  <2>4. s.login = r.user
    BY <2>2, <2>3, JoinByLogin
  <2> QED
    BY <2>2, <2>3, <2>4 DEF Logins
<1>3. Rows(joined) = TheirRepos(Certain(students))
  <2> HIDE DEF joined
  <2> QED
    BY <1>1, <1>2 DEF Rows
<1>4. Certain(students) = students => joined = TheirRepos(students)
  <2> HIDE DEF joined
  <2> QED
    BY <1>1, <1>2
<1> QED
  BY <1>3, <1>4

\* Parts that share nothing are together as large as the sum of their sizes.
LEMMA SumSizes ==
  ASSUME NEW S, IsFiniteSet(S), NEW w, NEW part,
         \A x \in S : IsFiniteSet(part[x]) /\ w[x] = Cardinality(part[x]),
         \A x, y \in S : x # y => part[x] \cap part[y] = {}
  PROVE  /\ IsFiniteSet(UNION {part[x] : x \in S})
         /\ Sum(w, S) = Cardinality(UNION {part[x] : x \in S})
<1> DEFINE U(T) == UNION {part[x] : x \in T}
           G == {T \in SUBSET S : IsFiniteSet(U(T)) /\ Sum(w, T) = Cardinality(U(T))}
<1>0. \A x \in S : w[x] \in Nat
  BY FS_CardinalityType
<1>1. ASSUME NEW T \in SUBSET S, \A x \in T : T \ {x} \in G PROVE T \in G
  <2>1. CASE T = {}
    <3>1. U(T) = {}
      BY <2>1
    <3> HIDE DEF U
    <3>2. IsFiniteSet(U(T)) /\ Sum(w, T) = Cardinality(U(T))
      BY <2>1, <3>1, SumNone, FS_EmptySet
    <3> QED
      BY <3>2
  <2>2. CASE T # {}
    <3>1. PICK x \in T : TRUE
      BY <2>2
    <3> DEFINE R == T \ {x}
    <3>2. IsFiniteSet(U(R)) /\ Sum(w, R) = Cardinality(U(R))
      BY <1>1
    <3>3. U(T) = U(R) \cup part[x] /\ U(R) \cap part[x] = {}
      OBVIOUS
    <3>4. IsFiniteSet(T) /\ \A y \in T : w[y] \in Nat
      BY <1>0, FS_Subset
    <3>5. Sum(w, T) = w[x] + Sum(w, R)
      BY <3>4, SumOne
    <3> HIDE DEF U, R
    <3>6. /\ IsFiniteSet(U(T))
          /\ Cardinality(U(T)) = Cardinality(U(R)) + Cardinality(part[x])
      <4>1. /\ IsFiniteSet(U(R) \cup part[x])
            /\ Cardinality(U(R) \cup part[x])
                 = Cardinality(U(R)) + Cardinality(part[x]) - Cardinality(U(R) \cap part[x])
        BY <3>2, FS_Union
      <4>2. Cardinality(U(R) \cap part[x]) = 0
        BY <3>3, FS_EmptySet
      <4>3. Cardinality(U(R)) \in Nat /\ Cardinality(part[x]) \in Nat
        BY <3>2, FS_CardinalityType
      <4> QED
        BY <3>3, <4>1, <4>2, <4>3
    <3>7. w[x] = Cardinality(part[x]) /\ w[x] \in Nat /\ Cardinality(U(R)) \in Nat
      BY <1>0, <3>2, FS_CardinalityType
    <3>8. Sum(w, T) = Cardinality(U(T))
      BY <3>2, <3>5, <3>6, <3>7
    <3> QED
      BY <3>6, <3>8
  <2> QED
    BY <2>1, <2>2
<1>2. S \in G
  <2> HIDE DEF G
  <2> QED
    BY <1>1, SubsetInduction
<1> QED
  BY <1>2

LEMMA RepositoriesSum ==
  ASSUME NEW students, IsFiniteSet(students)
  PROVE  RepositoriesOf(students) = Sum([s \in students |-> s.owned + s.teams], students)
<1> DEFINE w == [s \in students |-> s.owned + s.teams]
           F(k) == [t \in SUBSET students |-> IF t = {} THEN 0
                       ELSE ((CHOOSE x \in t : TRUE).owned + (CHOOSE x \in t : TRUE).teams)
                              + k[t \ {CHOOSE x \in t : TRUE}]]
           it == CHOOSE k : k = F(k)
<1>1. ASSUME NEW k PROVE k = F(k) <=> Adds(w, students, k)
  BY DEF Adds
<1>2. \E k : k = F(k)
  <2> HIDE DEF F, w
  <2> QED
    BY <1>1, AddsExist
<1>3. Adds(w, students, it)
  <2> HIDE DEF F, w
  <2> QED
    BY <1>1, <1>2
<1>4. RepositoriesOf(students) = it[students]
  BY DEF RepositoriesOf, MapThenSumSet, MapThenFoldSet
<1>5. PICK k : Adds(w, students, k) /\ Sum(w, students) = k[students]
  BY SumAdds
<1>6. it[students] = k[students]
  <2> HIDE DEF it, w
  <2> QED
    BY <1>3, <1>5, AddsAgree DEF w
<1> QED
  BY <1>4, <1>5, <1>6

\* The sum above a table of unmistaken students is the number of their repositories.
LEMMA ReposCounted ==
  ASSUME PagesInv, NEW students \in SUBSET AllRows, Certain(students) = students
  PROVE  /\ IsFiniteSet(TheirRepos(students))
         /\ RepositoriesOf(students) = Cardinality(TheirRepos(students))
<1> DEFINE w == [s \in students |-> s.owned + s.teams]
           part == [s \in students |-> SnapRepos(s.id)]
<1>1. \A s \in students : s.id \in Unmistaken /\ s.id \in Accounts /\ s = RowOf(s.id)
  BY SnapRows DEF AllRows, Certain
<1>2. IsFiniteSet(students)
  <2> DEFINE f == [s \in students |-> s.id]
  <2>1. f \in Injection(students, Accounts)
    BY <1>1 DEF Injection, IsInjective
  <2> QED
    BY <2>1, PagesAssumption, FS_Injection
<1>3. \A s \in students : IsFiniteSet(part[s]) /\ w[s] = Cardinality(part[s])
  BY <1>1, UnmistakenRow
<1>4. \A s, q \in students : s # q => part[s] \cap part[q] = {}
  BY <1>1, SnapRows
<1>5. UNION {part[s] : s \in students} = TheirRepos(students)
  BY DEF TheirRepos
<1> HIDE DEF w, part
<1>6. /\ IsFiniteSet(UNION {part[s] : s \in students})
      /\ Sum(w, students) = Cardinality(UNION {part[s] : s \in students})
  BY <1>2, <1>3, <1>4, SumSizes
<1>7. RepositoriesOf(students) = Sum(w, students)
  BY <1>2, RepositoriesSum DEF w
<1> QED
  BY <1>5, <1>6, <1>7
-----------------------------------------------------------------------------
(* What each page shows of them.                                             *)

\* A view of the college, or of what is taught in it.
Sees(view) == view.students \subseteq AllRows /\ view.repos = AllRepos

LEMMA ViewSees == ASSUME NEW t PROVE Sees(Taught(FleetView, t)) /\ Sees(FleetView)
<1>1. Sees(FleetView)
  BY DEF FleetView, Sees, AllRows, AllRepos
<1>2. CASE t = {}
  BY <1>1, <1>2 DEF Taught
<1>3. CASE t # {}
  <2>1. /\ Taught(FleetView, t).students \subseteq FleetView.students
        /\ Taught(FleetView, t).repos = FleetView.repos
    BY <1>3 DEF Taught, FleetView
  <2> QED
    BY <1>1, <2>1 DEF Sees
<1> QED
  BY <1>1, <1>2, <1>3

LEMMA ChosenRows ==
  ASSUME NEW view, Sees(view), NEW f
  PROVE  /\ Chosen(view, f) \in SUBSET AllRows
         /\ Certain(Chosen(view, f)) \in SUBSET AllRows
         /\ Certain(Certain(Chosen(view, f))) = Certain(Chosen(view, f))
BY DEF Chosen, Certain, Sees

\* What the overview counts is joined by login, and is what its trend shows.
LEMMA CountedRepos ==
  ASSUME NEW view, Sees(view), NEW f
  PROVE  /\ Counted(view, f) = {r \in AllRepos : r.user \in Logins(Chosen(view, f))}
         /\ UNION Range(Trend(view, f)) = Counted(view, f)
<1> DEFINE chosen == Chosen(view, f)
           pairs == {<<s.class.div, s.class.batch>> : s \in chosen}
<1>1. Counted(view, f) = {r \in AllRepos : r.user \in Logins(chosen)}
  BY DEF Counted, Sees
<1>2. /\ DOMAIN Trend(view, f) = pairs
      /\ \A p \in pairs : Trend(view, f)[p] =
           {r \in Counted(view, f) : \E s \in chosen : s.login = r.user
                                       /\ <<s.class.div, s.class.batch>> = p}
  BY DEF Trend
<1>3. Range(Trend(view, f)) = {Trend(view, f)[p] : p \in pairs}
  BY <1>2 DEF Range
<1>4. ASSUME NEW r \in Counted(view, f) PROVE r \in UNION Range(Trend(view, f))
  <2>1. PICK s \in chosen : s.login = r.user
    BY <1>1 DEF Logins
  <2>2. <<s.class.div, s.class.batch>> \in pairs
    OBVIOUS
  <2>3. r \in Trend(view, f)[<<s.class.div, s.class.batch>>]
    BY <1>2, <2>1, <2>2
  <2> QED
    BY <1>3, <2>2, <2>3
<1>5. UNION Range(Trend(view, f)) \subseteq Counted(view, f)
  BY <1>2, <1>3
<1> QED
  BY <1>1, <1>4, <1>5

LEMMA CountedTrue ==
  ASSUME PagesInv, NEW view, Sees(view), NEW f
  PROVE  /\ Rows(Counted(view, f)) = TheirRepos(Certain(Chosen(view, f)))
         /\ Certain(Chosen(view, f)) = Chosen(view, f)
              => Found(view, f) = RepositoriesOf(Chosen(view, f))
<1>1. Rows(Counted(view, f)) = TheirRepos(Certain(Chosen(view, f)))
  BY ChosenRows, CountedRepos, ReposByLogin
<1>2. ASSUME Certain(Chosen(view, f)) = Chosen(view, f)
      PROVE  Found(view, f) = RepositoriesOf(Chosen(view, f))
  <2>1. Counted(view, f) = TheirRepos(Chosen(view, f))
    BY <1>2, ChosenRows, CountedRepos, ReposByLogin
  <2> QED
    BY <1>2, <2>1, ChosenRows, ReposCounted DEF Found
<1> QED
  BY <1>1, <1>2

\* The flow into a class is as large as what the trend shows of it.
LEMMA FlowTrue ==
  ASSUME PagesInv, NEW view, Sees(view), NEW f, Certain(Chosen(view, f)) = Chosen(view, f),
         NEW p \in DOMAIN Flow(view, f)
  PROVE  Flow(view, f)[p] = Cardinality(Trend(view, f)[p])
<1> DEFINE chosen == Chosen(view, f)
           slice == {s \in chosen : <<s.class.div, s.class.batch>> = p}
<1>1. p \in {<<s.class.div, s.class.batch>> : s \in chosen}
  BY DEF Flow
<1>2. Flow(view, f)[p] = RepositoriesOf(slice)
  BY <1>1 DEF Flow
<1>3. Trend(view, f)[p] = {r \in Counted(view, f) : \E s \in chosen : s.login = r.user
                                       /\ <<s.class.div, s.class.batch>> = p}
  BY <1>1 DEF Trend
<1>4. Trend(view, f)[p] = {r \in AllRepos : r.user \in Logins(slice)}
  BY <1>3, CountedRepos DEF Logins
<1>5. slice \in SUBSET AllRows /\ Certain(slice) = slice
  BY ChosenRows DEF Certain
<1> HIDE DEF slice
<1> QED
  BY <1>2, <1>4, <1>5, ReposByLogin, ReposCounted

\* The repositories page joins whatever the case of the login.
LEMMA CardsTrue ==
  ASSUME PagesInv, NEW view, Sees(view), NEW f, view.students # {}
  PROVE  Rows(Cards(view, f)) = TheirRepos(Certain(Chosen(view, f)))
<1>1. Cards(view, f) = {r \in AllRepos : \E s \in view.students :
                          Fold(s.login) = Fold(r.user) /\ InClass(s.class, f)}
  BY DEF Cards, OwnersOf, Sees
<1>2. ASSUME NEW r \in AllRepos, r.from \in Unmistaken, NEW s \in view.students,
             Fold(s.login) = Fold(r.user), InClass(s.class, f)
      PROVE  r \in TheirRepos(Certain(Chosen(view, f)))
  <2>1. s.id = r.from
    BY <1>2, JoinByLogin DEF Sees
  <2>2. s \in Certain(Chosen(view, f)) /\ r \in SnapRepos(s.id)
    BY <1>2, <2>1, ReposOf DEF Certain, Chosen
  <2> QED
    BY <2>2 DEF TheirRepos
<1>3. ASSUME NEW s \in Certain(Chosen(view, f)), NEW r \in SnapRepos(s.id)
      PROVE  r \in Rows(Cards(view, f))
  <2>1. s \in view.students /\ s.id \in Unmistaken /\ InClass(s.class, f) /\ s.id \in Accounts
    BY DEF Certain, Chosen, Unmistaken
  <2>2. r \in AllRepos /\ r.from = s.id
    BY <2>1, SnapRows DEF AllRepos
  <2>3. Fold(s.login) = Fold(r.user)
    BY <2>1, <2>2, JoinByLogin DEF Sees
  <2> QED
    BY <1>1, <2>1, <2>2, <2>3 DEF Rows
<1> QED
  BY <1>1, <1>2, <1>3 DEF Rows, TheirRepos

\* Joining with one student, of whom nobody is mistaken.
LEMMA ReposOfOne ==
  ASSUME PagesInv, NEW s \in AllRows, s.id \in Unmistaken
  PROVE  {r \in AllRepos : r.user = s.login} = SnapRepos(s.id)
<1>1. s.id \in Accounts
  BY DEF Unmistaken
<1>2. SnapRepos(s.id) \subseteq AllRepos
  BY <1>1 DEF AllRepos
<1>3. \A r \in SnapRepos(s.id) : r.from = s.id
  BY <1>1, SnapRows
<1> QED
  BY <1>2, <1>3, JoinByLogin, ReposOf

LEMMA RatedTrue ==
  ASSUME PagesInv, NEW view, Sees(view), NEW f, NEW s \in Certain(Chosen(view, f))
  PROVE  Rated(view, f)[s] = {r \in SnapRepos(s.id) : r.repo \in Owned}
<1>1. s \in Chosen(view, f) /\ s \in AllRows /\ s.id \in Unmistaken
  BY ChosenRows DEF Certain
<1>2. Rated(view, f)[s] = {r \in Counted(view, f) : r.user = s.login /\ r.repo \in Owned}
  BY <1>1 DEF Rated
<1>3. \A r \in AllRepos : r.user = s.login => r \in Counted(view, f)
  BY <1>1, CountedRepos DEF Logins
<1>4. Rated(view, f)[s] = {r \in {q \in AllRepos : q.user = s.login} : r.repo \in Owned}
  BY <1>2, <1>3, CountedRepos
<1> QED
  BY <1>1, <1>4, ReposOfOne

\* The boards credit a student with all but what is hidden.
LEMMA CreditTrue ==
  ASSUME PagesInv, NEW view, Sees(view), NEW f, NEW hidden
  PROVE  Rows(UNION Range(Credit(view, f, hidden)))
           = {r \in TheirRepos(Certain(Chosen(view, f))) : <<r.from, r.repo>> \notin hidden}
<1> DEFINE chosen == Chosen(view, f)
           all == UNION Range(Credit(view, f, hidden))
<1>1. \A r : r \in all <=> \E s \in chosen : /\ r \in AllRepos /\ r.user = s.login
                                             /\ <<s.id, r.repo>> \notin hidden
  BY DEF Credit, Range, Dropped, Sees
<1> HIDE DEF all
<1>2. ASSUME NEW r \in all, r.from \in Unmistaken
      PROVE  r \in TheirRepos(Certain(chosen)) /\ <<r.from, r.repo>> \notin hidden
  <2>1. PICK s \in chosen : r \in AllRepos /\ r.user = s.login /\ <<s.id, r.repo>> \notin hidden
    BY <1>1
  <2>2. s \in AllRows
    BY ChosenRows
  <2>3. s.id = r.from
    BY <1>2, <2>1, <2>2, JoinByLogin
  <2>4. s \in Certain(chosen) /\ r \in SnapRepos(s.id)
    BY <1>2, <2>1, <2>3, ReposOf DEF Certain
  <2> QED
    BY <2>1, <2>3, <2>4 DEF TheirRepos
<1>3. ASSUME NEW r \in TheirRepos(Certain(chosen)), <<r.from, r.repo>> \notin hidden
      PROVE  r \in all /\ r.from \in Unmistaken
  <2>1. PICK s \in Certain(chosen) : r \in SnapRepos(s.id)
    BY DEF TheirRepos
  <2>2. s \in chosen /\ s \in AllRows /\ s.id \in Unmistaken /\ s.id \in Accounts
    BY <2>1, ChosenRows DEF Certain, Unmistaken
  <2>3. r \in AllRepos /\ r.user = s.login /\ r.from = s.id
    BY <2>1, <2>2, ReposOfOne, SnapRows
  <2> QED
    BY <1>1, <1>3, <2>2, <2>3
<1>4. Rows(all) = {r \in TheirRepos(Certain(chosen)) : <<r.from, r.repo>> \notin hidden}
  BY <1>2, <1>3 DEF Rows
<1> QED
  BY <1>4 DEF all
-----------------------------------------------------------------------------
(* The table of students, and the batches it is painted in.                  *)

\* Rows of distinct numbers are ranked, without gaps, by how many come before.
LEMMA Ranks ==
  ASSUME NEW S, IsFiniteSet(S), \A s \in S : s.id \in Nat,
         \A s, z \in S : s.id = z.id => s = z
  PROVE  [s \in S |-> Cardinality({z \in S : z.id < s.id})] \in Bijection(S, 0..(Cardinality(S) - 1))
<1> DEFINE before(s) == {z \in S : z.id < s.id}
           rank == [s \in S |-> Cardinality(before(s))]
           n == Cardinality(S)
<1>1. ASSUME NEW s \in S PROVE IsFiniteSet(before(s)) /\ rank[s] \in Nat
  <2>1. before(s) \in SUBSET S
    OBVIOUS
  <2> HIDE DEF before
  <2> QED
    BY <2>1, FS_Subset, FS_CardinalityType
<1>2. n \in Nat
  BY FS_CardinalityType
<1>3. ASSUME NEW s \in S PROVE rank[s] \in 0..(n - 1)
  <2>1. before(s) \in SUBSET (S \ {s})
    BY <1>1
  <2> HIDE DEF before
  <2>2. IsFiniteSet(S \ {s}) /\ Cardinality(S \ {s}) = n - 1
    BY FS_RemoveElement
  <2>3. Cardinality(before(s)) <= n - 1
    BY <2>1, <2>2, FS_Subset
  <2> QED
    BY <1>1, <1>2, <2>3
<1>4. ASSUME NEW s \in S, NEW z \in S, s.id < z.id PROVE rank[s] # rank[z]
  <2>1. before(s) \cup {s} \in SUBSET before(z)
    BY <1>4
  <2>2. s \notin before(s)
    OBVIOUS
  <2>3. IsFiniteSet(before(s)) /\ IsFiniteSet(before(z)) /\ rank[s] \in Nat /\ rank[z] \in Nat
    BY <1>1
  <2>4. rank[s] = Cardinality(before(s)) /\ rank[z] = Cardinality(before(z))
    OBVIOUS
  <2> HIDE DEF before, rank
  <2>5. /\ IsFiniteSet(before(s) \cup {s})
        /\ Cardinality(before(s) \cup {s}) = Cardinality(before(s)) + 1
    BY <2>2, <2>3, FS_AddElement
  <2>6. Cardinality(before(s) \cup {s}) <= Cardinality(before(z))
    BY <2>1, <2>3, FS_Subset
  <2> QED
    BY <2>3, <2>4, <2>5, <2>6
<1>5. \A s, z \in S : rank[s] = rank[z] => s = z
  <2> SUFFICES ASSUME NEW s \in S, NEW z \in S, rank[s] = rank[z] PROVE s = z
    OBVIOUS
  <2>1. ~(s.id < z.id) /\ ~(z.id < s.id)
    BY <1>4
  <2>2. s.id = z.id
    BY <2>1
  <2> QED
    BY <2>2
<1>6. rank \in [S -> 0..(n - 1)]
  BY <1>3
<1> HIDE DEF rank
<1>7. rank \in Injection(S, 0..(n - 1))
  BY <1>5, <1>6 DEF Injection, IsInjective
<1>8. IsFiniteSet(0..(n - 1)) /\ Cardinality(0..(n - 1)) = n
  <2>1. /\ IsFiniteSet(0..(n - 1))
        /\ Cardinality(0..(n - 1)) = IF 0 > n - 1 THEN 0 ELSE (n - 1) - 0 + 1
    BY <1>2, FS_Interval
  <2> HIDE DEF n
  <2> QED
    BY <1>2, <2>1
<1>9. rank \in Surjection(S, 0..(n - 1))
  BY <1>7, <1>8, FS_Injection
<1> QED
  BY <1>7, <1>9 DEF Bijection, rank

\* The rows of a view are of different accounts, finitely many.
LEMMA RowsOfAccounts ==
  ASSUME PagesInv, NEW students \in SUBSET AllRows
  PROVE  /\ IsFiniteSet(students) /\ \A s \in students : s.id \in Nat
         /\ \A s, z \in students : s.id = z.id => s = z
<1>1. \A s \in students : s.id \in Accounts /\ s = RowOf(s.id)
  BY SnapRows DEF AllRows
<1> DEFINE f == [s \in students |-> s.id]
<1>2. f \in Injection(students, Accounts)
  BY <1>1 DEF Injection, IsInjective
<1>3. IsFiniteSet(students)
  BY <1>2, PagesAssumption, FS_Injection
<1> QED
  BY <1>1, <1>3, PagesAssumption

\* The table has every chosen student once.
LEMMA TableTrue ==
  ASSUME PagesInv, NEW view, Sees(view), NEW f
  PROVE  /\ Table(view, f) \in Seq(Chosen(view, f))
         /\ Len(Table(view, f)) = Cardinality(Chosen(view, f))
         /\ Range(Table(view, f)) = Chosen(view, f)
<1> DEFINE chosen == Chosen(view, f)
           n == Cardinality(chosen)
           rank == [s \in chosen |-> Cardinality({z \in chosen : z.id < s.id})]
           table == [k \in 1..n |-> CHOOSE s \in chosen : rank[s] = k - 1]
<1>1. chosen \in SUBSET AllRows
  BY ChosenRows
<1> HIDE DEF chosen
<1>2. /\ IsFiniteSet(chosen) /\ \A s \in chosen : s.id \in Nat
      /\ \A s, z \in chosen : s.id = z.id => s = z
  BY <1>1, RowsOfAccounts
<1>3. n \in Nat
  BY <1>2, FS_CardinalityType
<1>4. rank \in Bijection(chosen, 0..(n - 1))
  BY <1>2, Ranks
<1>5. Table(view, f) = table
  <2>1. ASSUME NEW k \in 1..n
        PROVE  (CHOOSE s \in chosen : rank[s] = k - 1)
                 = (CHOOSE s \in chosen : Cardinality({z \in chosen : z.id < s.id}) = k - 1)
    OBVIOUS
  <2> QED
    BY <2>1 DEF Table, chosen
<1> HIDE DEF rank, n
<1>6. ASSUME NEW k \in 1..n PROVE table[k] \in chosen /\ rank[table[k]] = k - 1
  <2>1. k - 1 \in 0..(n - 1)
    BY <1>3
  <2>2. \E s \in chosen : rank[s] = k - 1
    BY <1>4, <2>1 DEF Bijection, Surjection
  <2> QED
    BY <2>2
<1>7. ASSUME NEW s \in chosen PROVE \E k \in 1..n : table[k] = s
  <2>1. rank[s] \in 0..(n - 1)
    BY <1>4 DEF Bijection, Injection
  <2>2. rank[s] + 1 \in 1..n /\ (rank[s] + 1) - 1 = rank[s]
    BY <1>3, <2>1
  <2>3. table[rank[s] + 1] \in chosen /\ rank[table[rank[s] + 1]] = rank[s]
    BY <1>6, <2>2
  <2>4. table[rank[s] + 1] = s
    BY <1>4, <2>3 DEF Bijection, Injection, IsInjective
  <2> QED
    BY <2>2, <2>4
<1>8. table \in [1..n -> chosen] /\ DOMAIN table = 1..n
  BY <1>6
<1> HIDE DEF table
<1>9. table \in Seq(chosen) /\ Len(table) = n
  BY <1>3, <1>8, SeqDef
<1>10. Range(table) = chosen
  BY <1>6, <1>7, <1>8 DEF Range
<1> QED
  BY <1>5, <1>9, <1>10 DEF chosen, n

LEMMA SmallerOf == ASSUME NEW a \in Nat, NEW b \in Nat
                   PROVE  Min({a, b}) = IF a <= b THEN a ELSE b
BY DEF Min

\* Three batches are the first rows of the table, each once.
LEMMA Batches ==
  ASSUME NEW S, NEW table \in Seq(S)
  PROVE  LET n == Len(table)
             batch(offset) == LET start == Min({offset, n})
                              IN  SubSeq(table, start + 1, Min({start + PageSize, n}))
         IN  SubSeq(table, 1, Min({PageSize, n})) \o batch(PageSize) \o batch(2 * PageSize)
               = SubSeq(table, 1, Min({3 * PageSize, n}))
<1> DEFINE n == Len(table)
           p == PageSize
           a == IF p <= n THEN p ELSE n
           b == IF 2 * p <= n THEN 2 * p ELSE n
           c == IF 3 * p <= n THEN 3 * p ELSE n
<1>1. n \in Nat /\ p \in Nat /\ 2 * p \in Nat /\ 3 * p \in Nat /\ a \in Nat /\ b \in Nat
  BY PagesAssumption, LenProperties
<1> HIDE DEF n, p
<1>2. Min({p, n}) = a /\ Min({2 * p, n}) = b /\ Min({3 * p, n}) = c
  BY <1>1, SmallerOf
<1>3. Min({a + p, n}) = b /\ Min({b + p, n}) = c
  <2>1. a + p \in Nat /\ b + p \in Nat
    BY <1>1
  <2>2. /\ Min({a + p, n}) = IF a + p <= n THEN a + p ELSE n
        /\ Min({b + p, n}) = IF b + p <= n THEN b + p ELSE n
    BY <1>1, <2>1, SmallerOf
  <2> QED
    BY <1>1, <2>2
<1>4. /\ 1 \in 1..(n + 1) /\ a \in 0..n /\ b \in a..n /\ a \in (1 - 1)..n
      /\ b \in (1 - 1)..n /\ c \in b..n
  BY <1>1
<1> HIDE DEF a, b, c
<1>5. SubSeq(table, 1, a) \o SubSeq(table, a + 1, b) = SubSeq(table, 1, b)
  BY <1>4, ConcatAdjacentSubSeq DEF n
<1>6. SubSeq(table, 1, b) \o SubSeq(table, b + 1, c) = SubSeq(table, 1, c)
  BY <1>4, ConcatAdjacentSubSeq DEF n
<1> QED
  BY <1>2, <1>3, <1>5, <1>6 DEF n, p
-----------------------------------------------------------------------------
\* A profile is of one's own row: nobody before has that login.
LEMMA OwnTrue ==
  ASSUME PagesInv, NEW a \in Unmistaken
  PROVE  OwnPage(a) = SnapRepos(a)
<1>1. a \in Accounts /\ First(a) /\ RowOf(a).id = a
  BY UnmistakenAlone, SnapRows DEF Unmistaken
<1>2. \A s \in FleetView.students : s.id = a <=> s = RowOf(a)
  BY <1>1, SnapRows DEF FleetView
<1>3. RowOf(a) \in FleetView.students
  BY <1>1 DEF FleetView
<1>4. OwnRows(FleetView, a) = {RowOf(a)}
  BY <1>2, <1>3 DEF OwnRows
<1>5. Profile(FleetView, RowOf(a)) = SnapRepos(a)
  <2>1. RowOf(a) \in AllRows /\ RowOf(a).id \in Unmistaken
    BY <1>1 DEF AllRows
  <2> QED
    BY <1>1, <2>1, ReposOfOne DEF Profile, FleetView, AllRepos
<1>6. OwnPage(a) = UNION {Profile(FleetView, s) : s \in {RowOf(a)}}
  BY <1>4 DEF OwnPage
<1> QED
  BY <1>5, <1>6

\* A class of the radar is what the pages choose when asked for that class alone.
LEMMA SeriesTrue ==
  ASSUME NEW c \in Classes
  PROVE  LET pair == <<c.div, c.batch>>
             only == [pairs |-> {pair}, divs |-> {}, batches |-> {}, sems |-> {}]
         IN  /\ Series(FleetView, pair).students = Chosen(FleetView, only)
             /\ Series(FleetView, pair).repos = Counted(FleetView, only)
<1> DEFINE pair == <<c.div, c.batch>>
           only == [pairs |-> {pair}, divs |-> {}, batches |-> {}, sems |-> {}]
           slice == {s \in FleetView.students : <<s.class.div, s.class.batch>> = pair}
<1>1. \A d : InClass(d, only) <=> <<d.div, d.batch>> = pair
  BY DEF InClass
<1>2. Chosen(FleetView, only) = slice
  BY <1>1 DEF Chosen
<1>3. FleetView.repos = AllRepos /\ Sees(FleetView)
  BY ViewSees DEF Sees
<1> HIDE DEF slice, only
<1>4. Counted(FleetView, only) = {r \in FleetView.repos : r.user \in Logins(slice)}
  BY <1>2, <1>3, CountedRepos
<1>5. /\ Series(FleetView, pair).students = slice
      /\ Series(FleetView, pair).repos = {r \in FleetView.repos : r.user \in Logins(slice)}
  BY DEF Series, slice
<1> QED
  BY <1>2, <1>4, <1>5 DEF only

\* The pages of one filter and teaching, one conjunct after the other.
LEMMA PagesOfOne ==
  ASSUME PagesInv, NEW f, NEW t, Taught(FleetView, t).students # {}
  PROVE  LET view == Taught(FleetView, t)
             shown == {s \in Chosen(view, f) : s.id \in Unmistaken}
             of == UNION {SnapRepos(s.id) : s \in shown}
             overview == Overview(f, t)
             page == StudentsPage(f, t)
         IN  /\ Rows(overview.repos) = of
             /\ Rows(RepositoriesPage(f, t)) = of
             /\ RepositoriesOf(shown) = Cardinality(of)
             /\ Rows(UNION Range(overview.trend)) = of
             /\ \A s \in shown : overview.rated[s] = {r \in SnapRepos(s.id) : r.repo \in Owned}
             /\ Chosen(view, f) = shown =>
                  /\ overview.found = page.repos
                  /\ \A p \in DOMAIN overview.flow : overview.flow[p] = Cardinality(overview.trend[p])
             /\ \A hidden \in {{}, HidingAll(view, of)} :
                  Rows(UNION Range(BoardsPage(f, t, hidden)))
                    = {r \in of : <<r.from, r.repo>> \notin hidden}
             /\ Range(StudentsExport(f, t)) = Chosen(view, f)
             /\ page.painted \o StudentRows(f, t, PageSize) \o StudentRows(f, t, 2 * PageSize)
                  = SubSeq(StudentsExport(f, t), 1, Min({3 * PageSize, page.total}))
<1> DEFINE view == Taught(FleetView, t)
           chosen == Chosen(view, f)
           shown == {s \in chosen : s.id \in Unmistaken}
           of == UNION {SnapRepos(s.id) : s \in shown}
           overview == Overview(f, t)
           page == StudentsPage(f, t)
           table == Table(view, f)
<1>1. Sees(view)
  BY ViewSees
<1>2. shown = Certain(chosen) /\ of = TheirRepos(Certain(chosen))
  BY DEF Certain, TheirRepos
<1>3. /\ overview.repos = Counted(view, f) /\ overview.found = Found(view, f)
      /\ overview.flow = Flow(view, f) /\ overview.trend = Trend(view, f)
      /\ overview.rated = Rated(view, f)
  BY DEF Overview
<1>4. /\ page.repos = RepositoriesOf(chosen) /\ page.total = Cardinality(chosen)
      /\ page.painted = SubSeq(table, 1, Min({PageSize, Cardinality(chosen)}))
  BY DEF StudentsPage
<1>5. StudentsExport(f, t) = table
  BY DEF StudentsExport
<1>6. \A offset : StudentRows(f, t, offset)
        = SubSeq(table, Min({offset, Len(table)}) + 1,
                 Min({Min({offset, Len(table)}) + PageSize, Len(table)}))
  BY DEF StudentRows
<1>7. RepositoriesPage(f, t) = Cards(view, f)
      /\ \A hidden : BoardsPage(f, t, hidden) = Credit(view, f, hidden)
  BY DEF RepositoriesPage, BoardsPage
<1>8. view.students # {}
  OBVIOUS
<1> HIDE DEF view, shown, of, overview, page, table
<1>9. Rows(overview.repos) = of
  BY <1>1, <1>2, <1>3, CountedTrue
<1>10. Rows(RepositoriesPage(f, t)) = of
  BY <1>1, <1>2, <1>7, <1>8, CardsTrue
<1>11. RepositoriesOf(shown) = Cardinality(of)
  BY <1>1, <1>2, ChosenRows, ReposCounted
<1>12. Rows(UNION Range(overview.trend)) = of
  BY <1>1, <1>3, <1>9, CountedRepos
<1>13. \A s \in shown : overview.rated[s] = {r \in SnapRepos(s.id) : r.repo \in Owned}
  BY <1>1, <1>2, <1>3, RatedTrue
<1>14. ASSUME chosen = shown
       PROVE  /\ overview.found = page.repos
              /\ \A p \in DOMAIN overview.flow : overview.flow[p] = Cardinality(overview.trend[p])
  <2>1. Certain(Chosen(view, f)) = Chosen(view, f)
    BY <1>2, <1>14
  <2>2. Found(view, f) = RepositoriesOf(Chosen(view, f))
    BY <1>1, <2>1, CountedTrue
  <2>3. \A p \in DOMAIN Flow(view, f) : Flow(view, f)[p] = Cardinality(Trend(view, f)[p])
    BY <1>1, <2>1, FlowTrue
  <2> QED
    BY <1>3, <1>4, <2>2, <2>3
<1>15. \A hidden : Rows(UNION Range(BoardsPage(f, t, hidden)))
                     = {r \in of : <<r.from, r.repo>> \notin hidden}
  BY <1>1, <1>2, <1>7, CreditTrue
<1>16. /\ table \in Seq(chosen) /\ Len(table) = Cardinality(chosen) /\ Range(table) = chosen
  BY <1>1, TableTrue DEF table
<1>17. page.painted \o StudentRows(f, t, PageSize) \o StudentRows(f, t, 2 * PageSize)
         = SubSeq(StudentsExport(f, t), 1, Min({3 * PageSize, page.total}))
  <2> DEFINE batch(offset) == SubSeq(table, Min({offset, Len(table)}) + 1,
                                     Min({Min({offset, Len(table)}) + PageSize, Len(table)}))
  <2>1. SubSeq(table, 1, Min({PageSize, Len(table)})) \o batch(PageSize) \o batch(2 * PageSize)
          = SubSeq(table, 1, Min({3 * PageSize, Len(table)}))
    BY <1>16, Batches
  <2>2. /\ StudentRows(f, t, PageSize) = batch(PageSize)
        /\ StudentRows(f, t, 2 * PageSize) = batch(2 * PageSize)
    BY <1>6
  <2> HIDE DEF batch
  <2> QED
    BY <1>4, <1>5, <1>16, <2>1, <2>2
<1>18. Range(StudentsExport(f, t)) = chosen
  BY <1>5, <1>16
<1> QED
  BY <1>9, <1>10, <1>11, <1>12, <1>13, <1>14, <1>15, <1>17, <1>18
     DEF view, shown, of, overview, page

LEMMA PagesShow == PagesInv => PagesAgree
<1> SUFFICES ASSUME PagesInv PROVE PagesAgree
  OBVIOUS
<1> QED
  BY PagesOfOne, OwnTrue, SeriesTrue DEF PagesAgree

LEMMA PagesAlways == PagesSpec => []PagesInv
<1> QED
  BY PagesInitially, PagesStep, PTL DEF PagesSpec

\* Logins, handles, classes and snapshots keep their form through every renaming
\* and every sync that succeeds or fails.
THEOREM PagesTypes == PagesSpec => []PagesTypeOK
<1>1. PagesInv => PagesTypeOK
  BY DEF PagesInv
<1> QED
  BY <1>1, PagesAlways, PTL

\* However many accounts, filters, teachings and renamings: the overview, the
\* repositories page, the students page in its batches, the boards and the own
\* page speak of the same repositories of every account that is not mistaken.
THEOREM PagesTogether == PagesSpec => []PagesAgree
BY PagesShow, PagesAlways, PTL
=============================================================================
