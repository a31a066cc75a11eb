------------------------------ MODULE Support ------------------------------
(* Support tickets.  A ticket is answered in rounds: staff ask a follow-up,   *)
(* the student replies once, and the ticket goes back to staff, until it is   *)
(* resolved.  A request reads the ticket, may wait for an upload, and then    *)
(* changes the row statement by statement without reading it again.           *)
CONSTANTS Tickets, Requests,
          Texts,      \* what a student or a staff member may write
          Blank,      \* an empty text
          MayCrash,   \* whether a request may be ended half-way
          NoTicket, Idle

ASSUME SupportAssumption == Blank \notin Texts /\ MayCrash \in BOOLEAN

VARIABLES ticket,      \* support_tickets
          told,        \* notifications: the kinds its owner was sent of each ticket
          req,         \* what each request is doing
          overlapped,  \* tickets written by a request behind another one's write
          broken       \* tickets of which a later statement of a request was lost

vars == <<ticket, told, req, overlapped, broken>>
-----------------------------------------------------------------------------
Statuses == {"Open", "In Progress", "Follow up", "Resolved"}
Written == Texts \cup {Blank}

\* reply: student_reply; photo: its attachment; answer: admin_reply.
Ticket == [status : Statuses, reply : Written, photo : BOOLEAN, answer : Written]

\* status: the one staff chose, or the one the student's request read, as is
\* answer.  behind: another request wrote the row after this one read it.
Request == [who : {"staff", "student"}, on : Tickets, status : Statuses, text : Written,
            answer : Written, photo : BOOLEAN, behind : BOOLEAN,
            pc : {"write", "clear", "notify", "photo", "handback"}]

\* What stands for no ticket is no ticket, and for no request no request.
ASSUME Sentinels == NoTicket \notin Ticket /\ Idle \notin Request

NewTicket == [status |-> "Open", reply |-> Blank, photo |-> FALSE, answer |-> Blank]

Init == /\ ticket = [t \in Tickets |-> NoTicket]
        /\ told = [t \in Tickets |-> {}]
        /\ req = [r \in Requests |-> Idle]
        /\ overlapped = {} /\ broken = {}
-----------------------------------------------------------------------------
(* Reading the ticket.                                                       *)

\* The student raises a ticket.
Raise(t) == /\ ticket[t] = NoTicket
            /\ ticket' = [ticket EXCEPT ![t] = NewTicket]
            /\ UNCHANGED <<told, req, overlapped, broken>>

Reads(r, request) == /\ req[r] = Idle /\ req' = [req EXCEPT ![r] = request]
                     /\ UNCHANGED <<ticket, told, overlapped, broken>>

\* Faulty variant: the status of the form is not checked.
StaffReadsUnchecked(r, t, status, text) ==
  /\ ticket[t] # NoTicket /\ ticket[t].status # "Resolved"
  /\ Reads(r, [who |-> "staff", on |-> t, status |-> "Closed", text |-> text,
               answer |-> Blank, photo |-> FALSE, behind |-> FALSE, pc |-> "write"])

\* POST /support/update: any status may be chosen for a ticket that is not resolved.
StaffReads(r, t, status, text) ==
  /\ ticket[t] # NoTicket /\ ticket[t].status # "Resolved"
  /\ Reads(r, [who |-> "staff", on |-> t, status |-> status, text |-> text,
               answer |-> Blank, photo |-> FALSE, behind |-> FALSE, pc |-> "write"])

StudentRequest(t, text, photo) ==
  [who |-> "student", on |-> t, status |-> ticket[t].status, text |-> text,
   answer |-> ticket[t].answer, photo |-> photo, behind |-> FALSE, pc |-> "write"]

\* Faulty variant: a reply to any ticket.
StudentReadsAnyStatus(r, t, text, photo) ==
  /\ ticket[t] # NoTicket /\ ticket[t].reply = Blank
  /\ Reads(r, StudentRequest(t, text, photo))

\* POST /support/reply: one reply a round, of some text and perhaps a photo.
StudentReads(r, t, text, photo) ==
  /\ ticket[t] # NoTicket /\ ticket[t].status \in {"In Progress", "Follow up"}
  /\ ticket[t].reply = Blank
  /\ Reads(r, StudentRequest(t, text, photo))
-----------------------------------------------------------------------------
(* Changing it.  Every statement may fail.                                   *)

At(r, who, pc) == req[r] # Idle /\ req[r].who = who /\ req[r].pc = pc

\* Every other request that has read the row is behind from now on.
After(r, rest) ==
  [q \in Requests |-> IF q = r THEN rest
                      ELSE IF req[q] # Idle /\ req[q].on = req[r].on
                             THEN [req[q] EXCEPT !.behind = TRUE] ELSE req[q]]

\* The row of r's ticket becomes row, and r goes on with rest.
Writes(r, row, rest) ==
  /\ ticket' = [ticket EXCEPT ![req[r].on] = row]
  /\ req' = After(r, rest)
  /\ overlapped' = IF req[r].behind THEN overlapped \cup {req[r].on} ELSE overlapped
  /\ UNCHANGED <<told, broken>>

GoTo(r, pc) == [req[r] EXCEPT !.pc = pc]
Row(r) == ticket[req[r].on]

\* The first statement fails: the answer says so and nothing was changed.
Refused(r) == /\ req[r] # Idle /\ req[r].pc = "write"
              /\ req' = [req EXCEPT ![r] = Idle]
              /\ UNCHANGED <<ticket, told, overlapped, broken>>

\* A later statement fails, which nobody looks at; r goes on with rest.
Loses(r, rest) == /\ req' = [req EXCEPT ![r] = rest]
                  /\ broken' = broken \cup {req[r].on}
                  /\ UNCHANGED <<ticket, told, overlapped>>

\* Faulty variant: the old reply is left in the new round.
AskKeepsReply(r) ==
  /\ At(r, "staff", "write") /\ req[r].status = "Follow up"
  /\ Writes(r, [Row(r) EXCEPT !.status = "Follow up", !.answer = Blank], GoTo(r, "notify"))

\* submit_followup_question, which opens a round.
Ask(r) ==
  /\ At(r, "staff", "write") /\ req[r].status = "Follow up"
  /\ Writes(r, [Row(r) EXCEPT !.status = "Follow up", !.answer = Blank], GoTo(r, "clear"))

\* Faulty variant: the photo of the last round is left.
ClearLeavesPhoto(r) ==
  /\ At(r, "staff", "clear")
  /\ Writes(r, [Row(r) EXCEPT !.reply = Blank], GoTo(r, "notify"))

\* clear_student_reply, with its photo.
Clear(r) ==
  /\ At(r, "staff", "clear")
  /\ \/ Writes(r, [Row(r) EXCEPT !.reply = Blank, !.photo = FALSE], GoTo(r, "notify"))
     \/ Loses(r, GoTo(r, "notify"))

\* Faulty variant: only what was written is worth a notification.
UpdateTellsTexts(r) ==
  /\ At(r, "staff", "write") /\ req[r].status # "Follow up"
  /\ Writes(r, [Row(r) EXCEPT !.status = req[r].status, !.answer = req[r].text],
            IF req[r].text # Blank THEN GoTo(r, "notify") ELSE Idle)

\* update_ticket: the chosen status and the text of the form.
Update(r) ==
  /\ At(r, "staff", "write") /\ req[r].status # "Follow up"
  /\ Writes(r, [Row(r) EXCEPT !.status = req[r].status, !.answer = req[r].text],
            IF req[r].status = "Resolved" \/ req[r].text # Blank THEN GoTo(r, "notify") ELSE Idle)

\* create_notification
Notify(r) ==
  /\ At(r, "staff", "notify")
  /\ \/ /\ told' = [told EXCEPT ![req[r].on] = @ \cup {req[r].status}]
        /\ req' = [req EXCEPT ![r] = Idle]
        /\ UNCHANGED <<ticket, overlapped, broken>>
     \/ Loses(r, Idle)

\* What is left to do once the reply, and its photo, are stored.
HandsBack(r) == IF req[r].status = "Follow up" THEN GoTo(r, "handback") ELSE Idle

\* reply_ticket
Reply(r) ==
  /\ At(r, "student", "write")
  /\ Writes(r, [Row(r) EXCEPT !.reply = req[r].text],
            IF req[r].photo THEN GoTo(r, "photo") ELSE HandsBack(r))

\* set_attachment of the reply's photo; without it the request ends in an error.
Photo(r) ==
  /\ At(r, "student", "photo")
  /\ \/ Writes(r, [Row(r) EXCEPT !.photo = TRUE], HandsBack(r))
     \/ Loses(r, Idle)

\* update_ticket again: back to staff, with the answer the request had read.
HandBack(r) ==
  /\ At(r, "student", "handback")
  /\ \/ Writes(r, [Row(r) EXCEPT !.status = "In Progress", !.answer = req[r].answer], Idle)
     \/ Loses(r, Idle)

\* The platform ends the function, or the process restarts.
Crash(r) ==
  /\ MayCrash /\ req[r] # Idle
  /\ IF req[r].pc = "write" THEN Refused(r) ELSE Loses(r, Idle)

Next ==
  \/ \E t \in Tickets : Raise(t)
  \/ \E r \in Requests :
       \/ \E t \in Tickets, status \in Statuses, text \in Written : StaffReads(r, t, status, text)
       \/ \E t \in Tickets, text \in Texts, photo \in BOOLEAN : StudentReads(r, t, text, photo)
       \/ Refused(r) \/ Ask(r) \/ Clear(r) \/ Update(r) \/ Notify(r)
       \/ Reply(r) \/ Photo(r) \/ HandBack(r) \/ Crash(r)

Spec == Init /\ [][Next]_vars
-----------------------------------------------------------------------------
TypeOK == /\ ticket \in [Tickets -> Ticket \cup {NoTicket}]
          /\ told \in [Tickets -> SUBSET Statuses]
          /\ req \in [Requests -> Request \cup {Idle}]
          /\ overlapped \subseteq Tickets /\ broken \subseteq Tickets

Exists(t) == ticket[t] # NoTicket
InFlight(t) == \E r \in Requests : req[r] # Idle /\ req[r].on = t

\* "Allowed while In Progress, and required while Follow up": a ticket that asks
\* for a reply can take one, unless a write was behind another or was lost.
FollowUpAnswerable ==
  \A t \in Tickets \ (overlapped \cup broken) :
    Exists(t) /\ ticket[t].status = "Follow up" /\ ticket[t].reply # Blank => InFlight(t)

\* A resolved ticket's owner is told, unless a statement was lost.
ResolutionTold ==
  \A t \in Tickets \ broken :
    Exists(t) /\ ticket[t].status = "Resolved" /\ ~InFlight(t) => "Resolved" \in told[t]

\* The photo of a reply goes with the reply, also when the reply is cleared for the
\* next round, unless a write was behind another.
PhotoOfReply ==
  \A t \in Tickets \ overlapped : Exists(t) /\ ticket[t].photo => ticket[t].reply # Blank

\* "After submitting, the reply becomes read-only": it only goes when a follow-up
\* opens the next round, unless a write was behind another.
OneReplyARound ==
  [][\A t \in Tickets : Exists(t) /\ ticket[t].reply # Blank
       => ticket'[t].reply \in {ticket[t].reply, Blank} \/ t \in overlapped']_vars

\* "Resolved tickets are read-only", with the same exception.
ResolvedReadOnly ==
  [][\A t \in Tickets : Exists(t) /\ ticket[t].status = "Resolved"
       => ticket'[t] = ticket[t] \/ t \in overlapped']_vars

\* The step is one of r's.
Moves(r) == req[r] # Idle /\ (req'[r] = Idle \/ req'[r].pc # req[r].pc)

\* No step of a student's request changes what staff answered, with the same
\* exception.
AnswerFromStaff ==
  [][\A r \in Requests : Moves(r) /\ req[r].who = "student"
       => ticket'[req[r].on].answer = ticket[req[r].on].answer \/ req[r].on \in overlapped']_vars

\* Written by requests that read it before, a ticket changes as if each statement
\* looked at the row as it is, unless a write was behind another: the rounds of
\* question and reply, and the end of them, as TicketLife has them.
Promise == INSTANCE TicketLife WITH life <- ticket, astray <- overlapped
TicketLifeSpec == Promise!Spec
=============================================================================
