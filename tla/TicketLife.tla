----------------------------- MODULE TicketLife -----------------------------
(* What a support ticket promises: every change looks at the row as it is.    *)
(* Staff answer or ask until the ticket is resolved, a question opens a round  *)
(* with an empty reply, and a student replies once, when asked.  Support.tla,   *)
(* where a request changes a row it read before, is shown to implement this,    *)
(* but for the tickets that a request wrote behind another.                     *)
CONSTANTS Tickets, Texts, Blank, NoTicket

VARIABLES life,    \* each ticket's row
          astray   \* the tickets of which nothing is promised any more

promise == <<life, astray>>
-----------------------------------------------------------------------------
Written == Texts \cup {Blank}
Row == [status : {"Open", "In Progress", "Follow up", "Resolved"},
        reply : Written, photo : BOOLEAN, answer : Written]

Init == life = [t \in Tickets |-> NoTicket] /\ astray = {}

Becomes(t, row) == life' = [life EXCEPT ![t] = row] /\ UNCHANGED astray
Is(t, statuses) == life[t] # NoTicket /\ life[t].status \in statuses
Unresolved == {"Open", "In Progress", "Follow up"}

Raise(t) == /\ life[t] = NoTicket
            /\ Becomes(t, [status |-> "Open", reply |-> Blank, photo |-> FALSE, answer |-> Blank])

\* Staff answer, and may resolve.
Decide(t, status, text) ==
  /\ Is(t, Unresolved)
  /\ Becomes(t, [life[t] EXCEPT !.status = status, !.answer = text])

\* Staff ask, and the reply to the last question goes, with its photo.
Ask(t) == /\ Is(t, Unresolved)
          /\ Becomes(t, [life[t] EXCEPT !.status = "Follow up", !.answer = Blank])
OpenRound(t) == /\ Is(t, {"Follow up"})
                /\ Becomes(t, [life[t] EXCEPT !.reply = Blank, !.photo = FALSE])

\* The student replies, once a round and perhaps with a photo, and a question is
\* handed back answered.
Reply(t, text) == /\ Is(t, {"In Progress", "Follow up"}) /\ life[t].reply = Blank
                  /\ Becomes(t, [life[t] EXCEPT !.reply = text])
Attach(t) == /\ Is(t, {"In Progress", "Follow up"}) /\ life[t].reply # Blank
             /\ Becomes(t, [life[t] EXCEPT !.photo = TRUE])
HandBack(t) == /\ Is(t, {"Follow up"}) /\ life[t].reply # Blank
               /\ Becomes(t, [life[t] EXCEPT !.status = "In Progress"])

\* A ticket goes astray, and becomes anything.
Stray(t, row) == /\ life[t] # NoTicket
                 /\ life' = [life EXCEPT ![t] = row]
                 /\ astray' = astray \cup {t}

Next == \E t \in Tickets :
          \/ Raise(t) \/ Ask(t) \/ OpenRound(t) \/ Attach(t) \/ HandBack(t)
          \/ \E status \in {"Open", "In Progress", "Resolved"}, text \in Written : Decide(t, status, text)
          \/ \E text \in Texts : Reply(t, text)
          \/ \E row \in Row : Stray(t, row)

Spec == Init /\ [][Next]_promise
=============================================================================
