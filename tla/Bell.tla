-------------------------------- MODULE Bell --------------------------------
(* The bell of one student: the notifications, the memo a page is rendered    *)
(* from, the badge of an open tab that marks them read and polls, and the     *)
(* slots of the event streams.  The memo is that of one instance; the others  *)
(* are seen by what they store.                                               *)
EXTENDS Naturals, Sequences, FiniteSets

CONSTANTS MaxNotes,        \* notifications (bound)
          Limit,           \* newest ones that a list holds
          Clicks,          \* requests of the tab that may be in flight
          Streams, Slots,  \* streams a client opens, and how many it may hold
          Ticks,           \* what a stream counts before it ends
          NoList, Idle

ASSUME BellAssumption ==
  Limit \in Nat \ {0} /\ Slots \in Nat \ {0} /\ Ticks \in Nat /\ IsFiniteSet(Streams)

VARIABLES notes,   \* the notifications, oldest first
          memo,    \* the memoised list
          listed,  \* the list a page has read for the memo
          missed,  \* the memo, or what was read for it, was not told of a change
          badge,   \* the number the tab shows
          calls, poll,
          stream, taken,  \* streams, and the slots counted as taken
          gone     \* slots whose client left before its stream began

bellVars == <<notes, memo, listed, missed, badge, calls, poll, stream, taken, gone>>
listVars == <<memo, listed, missed>>
tabVars == <<badge, calls, poll>>
streamVars == <<stream, taken, gone>>
-----------------------------------------------------------------------------
Unread(list) == Cardinality({n \in DOMAIN list : list[n] = "unread"})

\* list_notifications
Newest(list) == [n \in {m \in DOMAIN list : m + Limit > Len(list)} |-> list[n]]
Empty == Newest(<<>>)

\* A stream that is not open, one that has a slot and waits to begin, one that has
\* counted so many times.
Stream == [at : {"closed", "held", "on"}, ticks : 0..Ticks]
Closed == [at |-> "closed", ticks |-> 0]

\* A request marks one notification, or all, counts, and answers; heard: the page
\* that sent it is still open; shown: so is the count, always to the banner and to
\* a click in the list if the write succeeded.
TabCall == [pc : {"mark", "all", "count", "answer"}, note : 0..MaxNotes, shown : BOOLEAN,
         heard : BOOLEAN, count : 0..MaxNotes]

BellInit == /\ notes = <<>>
            /\ memo = NoList /\ listed = NoList /\ missed = FALSE
            /\ badge = 0 /\ poll = Idle
            /\ calls = [c \in Clicks |-> Idle]
            /\ stream = [s \in Streams |-> Closed] /\ taken = 0 /\ gone = 0
-----------------------------------------------------------------------------
(* The table and the memo.                                                   *)

\* Faulty variant: the memo is left as it is.
ChangeUntold(list, drops) ==
  /\ notes' = list
  /\ missed' = /\ listed # NoList \/ (memo # NoList /\ ~drops)
               /\ missed \/ list # notes
  /\ UNCHANGED <<memo, listed>>

\* The table becomes list; drops: it was written by a wrapper of this instance,
\* which drops the memo whether or not the write succeeded.
Change(list, drops) ==
  /\ notes' = list
  /\ memo' = IF drops THEN NoList ELSE memo
  /\ missed' = /\ listed # NoList \/ memo' # NoList
               /\ missed \/ list # notes
  /\ UNCHANGED listed

\* create_notification: a ticket's goes through the wrapper, a certificate's and
\* the weekly announcement do not.
Arrive(kind, here) ==
  /\ Len(notes) < MaxNotes
  /\ Change(Append(notes, "unread"), kind = "ticket" /\ here)
  /\ UNCHANGED <<tabVars, streamVars>>

Lapse == /\ memo # NoList
          /\ memo' = NoList /\ missed' = FALSE
          /\ UNCHANGED <<notes, listed, tabVars, streamVars>>

\* A page is loaded: what the old one was waiting for is not heard.
Loaded(list) ==
  /\ badge' = Unread(list)
  /\ calls' = [c \in Clicks |-> IF calls[c] = Idle \/ calls[c].pc = "answer" THEN Idle
                               ELSE [calls[c] EXCEPT !.heard = FALSE]]
  /\ poll' = Idle

\* _bell_context, from the memo.
ShowMemo == /\ memo # NoList
            /\ Loaded(memo)
            /\ UNCHANGED <<notes, listVars, streamVars>>

\* _bell_context on a miss: the list is read, empty if that fails, ...
ReadList(ok) == /\ memo = NoList /\ listed = NoList
                /\ listed' = IF ok THEN Newest(notes) ELSE Empty
                /\ missed' = ~ok
                /\ UNCHANGED <<notes, memo, tabVars, streamVars>>

\* ... and stored outside the lock it was missed under.
StoreList == /\ listed # NoList
             /\ memo' = listed /\ listed' = NoList
             /\ Loaded(listed)
             /\ UNCHANGED <<notes, missed, streamVars>>

Rendering == Lapse \/ ShowMemo \/ StoreList \/ \E ok \in BOOLEAN : ReadList(ok)
-----------------------------------------------------------------------------
(* The tab.                                                                  *)

Sends(c, pc, n, shown) ==
  /\ calls[c] = Idle
  /\ calls' = [calls EXCEPT ![c] = [pc |-> pc, note |-> n, shown |-> shown, heard |-> TRUE,
                                    count |-> 0]]
  /\ UNCHANGED <<notes, listVars, badge, poll, streamVars>>

Click(c) == \E n \in DOMAIN notes, banner \in BOOLEAN : Sends(c, "mark", n, banner)
ClickAll(c) == Sends(c, "all", 0, TRUE)

At(c, pc) == calls[c] # Idle /\ calls[c].pc = pc

\* api_mark_notification_read, the first of its two statements.
Mark(c, here, ok) ==
  /\ At(c, "mark")
  /\ Change(IF ok THEN [notes EXCEPT ![calls[c].note] = "read"] ELSE notes, here)
  /\ calls' = [calls EXCEPT ![c].pc = "count", ![c].note = 0, ![c].shown = @ \/ ok]
  /\ UNCHANGED <<badge, poll, streamVars>>

\* The second one; a count that fails is zero.
Count(c, ok) ==
  /\ At(c, "count")
  /\ calls' = [calls EXCEPT ![c].pc = "answer", ![c].count = IF ok THEN Unread(notes) ELSE 0]
  /\ UNCHANGED <<notes, listVars, badge, poll, streamVars>>

\* api_mark_all_notifications_read: the answer is the same when the write fails.
MarkAll(c, here, ok) ==
  /\ At(c, "all")
  /\ Change(IF ok THEN [n \in DOMAIN notes |-> "read"] ELSE notes, here)
  /\ calls' = [calls EXCEPT ![c].pc = "answer"]
  /\ UNCHANGED <<badge, poll, streamVars>>

\* The answer reaches its page, or is lost.
Answer(c) ==
  /\ At(c, "answer")
  /\ \/ /\ calls[c].heard /\ calls[c].shown
        /\ badge' = calls[c].count
     \/ UNCHANGED badge
  /\ calls' = [calls EXCEPT ![c] = Idle]
  /\ UNCHANGED <<notes, listVars, poll, streamVars>>

Requests(c) == \/ Click(c) \/ ClickAll(c) \/ Answer(c)
               \/ \E ok \in BOOLEAN : \/ Count(c, ok)
                                      \/ \E here \in BOOLEAN : Mark(c, here, ok) \/ MarkAll(c, here, ok)

PollAt(pc) == poll # Idle /\ poll.pc = pc

\* The tab polls while it is visible, once at a time; an error is tried again.
Poll == /\ poll = Idle /\ poll' = [pc |-> "asked", count |-> 0]
        /\ UNCHANGED <<notes, listVars, badge, calls, streamVars>>

\* Faulty variant: every notification counts.
PolledAll(ok) == /\ PollAt("asked")
                 /\ poll' = [pc |-> "answer", count |-> IF ok THEN Cardinality(DOMAIN Newest(notes)) ELSE 0]
                 /\ UNCHANGED <<notes, listVars, badge, calls, streamVars>>

\* api_list_notifications
Polled(ok) == /\ PollAt("asked")
              /\ poll' = [pc |-> "answer", count |-> IF ok THEN Unread(Newest(notes)) ELSE 0]
              /\ UNCHANGED <<notes, listVars, badge, calls, streamVars>>
PollShown == /\ PollAt("answer")
             /\ badge' = poll.count /\ poll' = Idle
             /\ UNCHANGED <<notes, listVars, calls, streamVars>>
PollFails == /\ PollAt("asked") /\ poll' = Idle
             /\ UNCHANGED <<notes, listVars, badge, calls, streamVars>>

Polling == Poll \/ PollShown \/ PollFails \/ \E ok \in BOOLEAN : Polled(ok)
-----------------------------------------------------------------------------
(* The event streams: api_notifications_stream.                              *)

Moves(s, to) == /\ stream' = [stream EXCEPT ![s] = to]
                /\ UNCHANGED <<notes, listVars, tabVars>>

\* A slot is counted in the handler; without one the answer is 429.
Open(s) == /\ stream[s] = Closed /\ taken < Slots
           /\ taken' = taken + 1 /\ Moves(s, [Closed EXCEPT !.at = "held"]) /\ UNCHANGED gone

\* The response begins to run the generator, ...
Begin(s) == /\ stream[s].at = "held" /\ Moves(s, [stream[s] EXCEPT !.at = "on"])
            /\ UNCHANGED <<taken, gone>>

\* ... or its client is gone before that: the generator, and its finally, never run.
LeaveEarly(s) == /\ stream[s].at = "held" /\ Moves(s, Closed)
                 /\ gone' = gone + 1 /\ UNCHANGED taken

Tick(s) == /\ stream[s].at = "on" /\ stream[s].ticks < Ticks
           /\ Moves(s, [stream[s] EXCEPT !.ticks = @ + 1])
           /\ UNCHANGED <<taken, gone>>

\* Faulty variant: only a stream that ran to its end gives its slot back.
EndKeepsSlot(s) == /\ stream[s].at = "on" /\ Moves(s, Closed)
                   /\ taken' = IF stream[s].ticks = Ticks THEN taken - 1 ELSE taken
                   /\ UNCHANGED gone

\* Its ticks are over, or the client left: the slot is given back.
End(s) == /\ stream[s].at = "on" /\ Moves(s, Closed)
          /\ taken' = taken - 1 /\ UNCHANGED gone

Streaming(s) == Open(s) \/ Begin(s) \/ LeaveEarly(s) \/ Tick(s) \/ End(s)
-----------------------------------------------------------------------------
BellNext == \/ \E kind \in {"ticket", "other"}, here \in BOOLEAN : Arrive(kind, here)
            \/ Rendering \/ Polling
            \/ \E c \in Clicks : Requests(c)
            \/ \E s \in Streams : Streaming(s)

\* The timer of a visible tab fires, the table can be read again and again, and
\* the event loop runs every stream on.
BellFairness == /\ WF_bellVars(Poll) /\ SF_bellVars(Polled(TRUE)) /\ WF_bellVars(PollShown)
                /\ \A s \in Streams : WF_bellVars(Begin(s) \/ Tick(s) \/ End(s))

BellSpec == BellInit /\ [][BellNext]_bellVars /\ BellFairness
-----------------------------------------------------------------------------
\* A page is rendered from what the table holds, unless the change was made by
\* another instance, by a writer that goes around the wrappers, or between the read
\* for the memo and its storing; and every slot counted as taken is that of an open
\* stream, unless its client left before the stream began.
BellTrue == /\ memo # NoList /\ ~missed => memo = Newest(notes)
            /\ taken = gone + Cardinality({s \in Streams : stream[s] # Closed})

\* Whatever answers overtook each other or failed, the badge of a tab comes to show
\* how many of the newest notifications are unread.
BadgeRight == badge = Unread(Newest(notes))

\* A user who holds all slots gets one back, unless all were left early.
SlotFree == taken < Slots \/ gone = Slots
=============================================================================
