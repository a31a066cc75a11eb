--------------------------- MODULE SupportProofs ---------------------------
(* What requests may do to a ticket, for any number of tickets and requests,  *)
(* and decisions to a certificate.                                            *)
EXTENDS Support, Certificates, TLAPS

\* What a request that is not behind knows of its ticket.
StudentKnows(r) ==
  /\ req[r].text # Blank
  /\ req[r].status \in {"In Progress", "Follow up"}
  /\ req[r].pc \in {"write", "photo", "handback"}
  /\ req[r].pc = "handback" => req[r].status = "Follow up"
  /\ ~req[r].behind => /\ Row(r).status = req[r].status /\ Row(r).answer = req[r].answer
                       /\ Row(r).reply = IF req[r].pc = "write" THEN Blank ELSE req[r].text
StaffKnows(r) ==
  /\ req[r].pc \in {"write", "clear", "notify"}
  /\ req[r].pc = "clear" => req[r].status = "Follow up"
  /\ ~req[r].behind => /\ req[r].pc = "write" => Row(r).status # "Resolved"
                       /\ req[r].pc = "clear" => Row(r).status = "Follow up"
Knows(r) == req[r] # Idle => /\ Exists(req[r].on)
                             /\ req[r].who = "student" => StudentKnows(r)
                             /\ req[r].who = "staff" => StaffKnows(r)
AllKnow == \A r \in Requests : Knows(r)

\* The request that will end the round's overlap of question and reply.
Pending(r, t) == /\ req[r] # Idle /\ req[r].on = t
                 /\ req[r].who = "staff" => req[r].pc = "clear"
                 /\ req[r].who = "student" => req[r].pc # "write" /\ req[r].status = "Follow up"
RoundsClose == \A t \in Tickets \ (overlapped \cup broken) :
                 Exists(t) /\ ticket[t].status = "Follow up" /\ ticket[t].reply # Blank
                   => \E r \in Requests : Pending(r, t)

\* The request that will tell the owner.
Tells(r, t) == /\ req[r] # Idle /\ req[r].on = t /\ req[r].who = "staff"
               /\ req[r].pc = "notify" /\ req[r].status = "Resolved"
OwnersHear == \A t \in Tickets \ broken :
                Exists(t) /\ ticket[t].status = "Resolved"
                  => "Resolved" \in told[t] \/ \E r \in Requests : Tells(r, t)

IInv == TypeOK /\ AllKnow /\ RoundsClose /\ OwnersHear /\ PhotoOfReply
-----------------------------------------------------------------------------
\* A write changes one row, and r goes on.
LEMMA WriteOf ==
  ASSUME TypeOK, NEW r \in Requests, req[r] # Idle, NEW row, NEW rest, Writes(r, row, rest)
  PROVE  /\ ticket'[req[r].on] = row /\ req'[r] = rest
         /\ req[r].behind => req[r].on \in overlapped'
<1>1. req[r].on \in Tickets
  BY DEF TypeOK, Request
<1> QED
  BY <1>1 DEF Writes, After, TypeOK

\* It leaves the other rows alone, and puts the other requests on its row behind.
LEMMA WriteOthers ==
  ASSUME TypeOK, NEW r \in Requests, req[r] # Idle, NEW row, NEW rest, Writes(r, row, rest)
  PROVE  /\ \A t \in Tickets \ {req[r].on} : ticket'[t] = ticket[t]
         /\ \A q \in Requests \ {r} :
              req'[q] = IF req[q] # Idle /\ req[q].on = req[r].on
                          THEN [req[q] EXCEPT !.behind = TRUE] ELSE req[q]
         /\ overlapped \subseteq overlapped' /\ told' = told /\ broken' = broken
<1>1. req[r].on \in Tickets
  BY DEF TypeOK, Request
<1> QED
  BY <1>1 DEF Writes, After, TypeOK

LEMMA WriteType ==
  ASSUME TypeOK, NEW r \in Requests, req[r] # Idle, NEW row \in Ticket,
         NEW rest \in Request \cup {Idle}, Writes(r, row, rest)
  PROVE  TypeOK'
<1>1. req[r] \in Request /\ req[r].on \in Tickets
  BY DEF TypeOK, Request
<1>2. \A q \in Requests : req[q] # Idle => [req[q] EXCEPT !.behind = TRUE] \in Request
  BY DEF TypeOK, Request
<1> QED
  BY <1>1, <1>2 DEF Writes, After, TypeOK

LEMMA RowType == ASSUME IInv, NEW r \in Requests, req[r] # Idle
                 PROVE  req[r] \in Request /\ Row(r) \in Ticket /\ Row(r) # NoTicket
BY DEF IInv, AllKnow, Knows, Exists, Row, TypeOK, Request

LEMMA LoseOf ==
  ASSUME TypeOK, NEW r \in Requests, req[r] # Idle, NEW rest \in Request \cup {Idle}, Loses(r, rest)
  PROVE  /\ TypeOK'
         /\ req'[r] = rest /\ \A q \in Requests \ {r} : req'[q] = req[q]
         /\ UNCHANGED <<ticket, told, overlapped>>
         /\ broken' = broken \cup {req[r].on}
BY DEF Loses, TypeOK, Request

LEMMA ReadOf ==
  ASSUME TypeOK, NEW r \in Requests, NEW q \in Request, Reads(r, q)
  PROVE  /\ TypeOK' /\ req[r] = Idle
         /\ req'[r] = q /\ \A p \in Requests \ {r} : req'[p] = req[p]
         /\ UNCHANGED <<ticket, told, overlapped, broken>>
BY DEF Reads, TypeOK
-----------------------------------------------------------------------------
\* What is to be shown of a write for the invariant to survive it.
LEMMA WriteKeeps ==
  ASSUME IInv, NEW r \in Requests, req[r] # Idle, NEW on \in Tickets, on = req[r].on,
         NEW row \in Ticket, NEW rest \in Request \cup {Idle}, Writes(r, row, rest),
         Knows(r)',
         row.status = "Follow up" /\ row.reply # Blank /\ on \notin overlapped' \cup broken
           => Pending(r, on)',
         row.status = "Resolved"
           => Tells(r, on)' \/ (Row(r).status = "Resolved" /\ ~Tells(r, on)),
         row.photo /\ on \notin overlapped' => row.reply # Blank
  PROVE  IInv'
<1>1. TypeOK /\ TypeOK' /\ req[r] \in Request /\ Row(r) # NoTicket
  BY WriteType, RowType DEF IInv, Request
<1>2. /\ ticket'[on] = row /\ row # NoTicket /\ \A t \in Tickets \ {on} : ticket'[t] = ticket[t]
      /\ \A q \in Requests \ {r} :
           req'[q] = IF req[q] # Idle /\ req[q].on = on
                       THEN [req[q] EXCEPT !.behind = TRUE] ELSE req[q]
      /\ overlapped \subseteq overlapped' /\ told' = told /\ broken' = broken
  BY <1>1, WriteOf, WriteOthers, Sentinels
<1>3. \A q \in Requests \ {r} :
        /\ req'[q] # Idle <=> req[q] # Idle
        /\ req[q] # Idle =>
             /\ req'[q].on = req[q].on /\ req'[q].pc = req[q].pc /\ req'[q].who = req[q].who
             /\ req'[q].status = req[q].status /\ req'[q].text = req[q].text
             /\ req'[q].answer = req[q].answer /\ req[q].on \in Tickets
             /\ IF req[q].on = on THEN req'[q].behind ELSE req'[q] = req[q]
  <2> SUFFICES ASSUME NEW q \in Requests \ {r}
               PROVE  /\ req'[q] # Idle <=> req[q] # Idle
                      /\ req[q] # Idle =>
                           /\ req'[q].on = req[q].on /\ req'[q].pc = req[q].pc /\ req'[q].who = req[q].who
                           /\ req'[q].status = req[q].status /\ req'[q].text = req[q].text
                           /\ req'[q].answer = req[q].answer /\ req[q].on \in Tickets
                           /\ IF req[q].on = on THEN req'[q].behind ELSE req'[q] = req[q]
    OBVIOUS
  <2>1. req[q] # Idle => req[q] \in Request /\ [req[q] EXCEPT !.behind = TRUE] \in Request
    BY <1>1 DEF TypeOK, Request
  <2> QED
    BY <1>2, <2>1, Sentinels DEF Request
<1>4. AllKnow'
  <2> SUFFICES ASSUME NEW q \in Requests \ {r} PROVE Knows(q)'
    BY DEF AllKnow
  <2>1. Knows(q)
    BY DEF IInv, AllKnow
  <2>2. CASE req[q] # Idle /\ req[q].on = on
    BY <1>1, <1>2, <1>3, <2>1, <2>2 DEF Knows, StudentKnows, StaffKnows, Exists
  <2>3. CASE req[q] # Idle /\ req[q].on # on
    <3>1. req'[q] = req[q] /\ ticket'[req[q].on] = ticket[req[q].on]
      BY <1>2, <1>3, <2>3
    <3> QED
      BY <2>1, <2>3, <3>1 DEF Knows, StudentKnows, StaffKnows, Exists, Row
  <2>4. CASE req[q] = Idle
    BY <1>3, <2>4 DEF Knows
  <2> QED
    BY <2>2, <2>3, <2>4
<1>5. RoundsClose'
  <2> SUFFICES ASSUME NEW t \in Tickets, t \notin (overlapped \cup broken)', Exists(t)',
                      ticket'[t].status = "Follow up", ticket'[t].reply # Blank
               PROVE  \E q \in Requests : Pending(q, t)'
    BY DEF RoundsClose
  <2>1. CASE t = on
    BY <1>2, <2>1
  <2>2. CASE t # on
    <3>1. PICK q \in Requests : Pending(q, t)
      BY <1>2, <2>2 DEF IInv, RoundsClose, Exists
    <3>2. Pending(q, t)'
      BY <1>3, <2>2, <3>1 DEF Pending
    <3> QED
      BY <3>2
  <2> QED
    BY <2>1, <2>2
<1>6. OwnersHear'
  <2> SUFFICES ASSUME NEW t \in Tickets, t \notin broken', Exists(t)', ticket'[t].status = "Resolved",
                      "Resolved" \notin told'[t]
               PROVE  \E q \in Requests : Tells(q, t)'
    BY DEF OwnersHear
  <2>1. CASE t = on /\ Tells(r, on)'
    BY <2>1
  <2>2. CASE ~(t = on /\ Tells(r, on)')
    <3>1. ticket[t] # NoTicket /\ ticket[t].status = "Resolved" /\ (t = on => ~Tells(r, on))
      BY <1>1, <1>2, <2>2 DEF Exists, Row
    <3>2. PICK q \in Requests : Tells(q, t)
      BY <1>2, <3>1 DEF IInv, OwnersHear, Exists
    <3>3. q # r
      BY <3>1, <3>2 DEF Tells
    <3>4. Tells(q, t)'
      BY <1>3, <3>2, <3>3 DEF Tells
    <3> QED
      BY <3>4
  <2> QED
    BY <2>1, <2>2
<1>7. PhotoOfReply'
  BY <1>1, <1>2 DEF IInv, PhotoOfReply, Exists
<1> QED
  BY <1>1, <1>4, <1>5, <1>6, <1>7 DEF IInv
-----------------------------------------------------------------------------
\* What a lost statement leaves is still known, and its ticket is excused.
LEMMA LoseKeeps ==
  ASSUME IInv, NEW r \in Requests, req[r] # Idle, NEW rest \in Request \cup {Idle}, Loses(r, rest),
         rest # Idle => rest.on = req[r].on /\ rest.who = "staff" /\ rest.pc = "notify"
  PROVE  IInv'
<1>1. /\ TypeOK' /\ req[r] \in Request /\ req[r].on \in Tickets
      /\ req'[r] = rest /\ \A q \in Requests \ {r} : req'[q] = req[q]
      /\ UNCHANGED <<ticket, told, overlapped>> /\ broken' = broken \cup {req[r].on}
  BY LoseOf DEF IInv, TypeOK, Request
<1>2. AllKnow'
  <2> SUFFICES ASSUME NEW q \in Requests PROVE Knows(q)'
    BY DEF AllKnow
  <2>1. CASE q = r
    <3>1. Exists(req[r].on)
      BY DEF IInv, AllKnow, Knows
    <3> QED
      BY <1>1, <2>1, <3>1 DEF Knows, StaffKnows, Exists
  <2>2. CASE q # r
    <3>1. Knows(q) /\ req'[q] = req[q] /\ ticket' = ticket
      BY <1>1, <2>2 DEF IInv, AllKnow
    <3> QED
      BY <3>1 DEF Knows, StudentKnows, StaffKnows, Exists, Row
  <2> QED
    BY <2>1, <2>2
<1>3. RoundsClose'
  <2> SUFFICES ASSUME NEW t \in Tickets, t \notin (overlapped \cup broken)', Exists(t)',
                      ticket'[t].status = "Follow up", ticket'[t].reply # Blank
               PROVE  \E q \in Requests : Pending(q, t)'
    BY DEF RoundsClose
  <2>1. PICK q \in Requests : Pending(q, t)
    BY <1>1 DEF IInv, RoundsClose, Exists
  <2>2. Pending(q, t)'
    BY <1>1, <2>1 DEF Pending
  <2> QED
    BY <2>2
<1>4. OwnersHear'
  <2> SUFFICES ASSUME NEW t \in Tickets, t \notin broken', Exists(t)', ticket'[t].status = "Resolved",
                      "Resolved" \notin told'[t]
               PROVE  \E q \in Requests : Tells(q, t)'
    BY DEF OwnersHear
  <2>1. PICK q \in Requests : Tells(q, t)
    BY <1>1 DEF IInv, OwnersHear, Exists
  <2>2. Tells(q, t)'
    BY <1>1, <2>1 DEF Tells
  <2> QED
    BY <2>2
<1>5. PhotoOfReply'
  BY <1>1 DEF IInv, PhotoOfReply, Exists
<1> QED
  BY <1>1, <1>2, <1>3, <1>4, <1>5 DEF IInv
-----------------------------------------------------------------------------
LEMMA AskKeeps == ASSUME IInv, NEW r \in Requests, Ask(r) PROVE IInv'
<1> PICK on \in Tickets : on = req[r].on
  BY DEF At, IInv, TypeOK, Request, Ask
<1> DEFINE row == [Row(r) EXCEPT !.status = "Follow up", !.answer = Blank]
           rest == GoTo(r, "clear")
<1>1. /\ req[r] \in Request /\ on = req[r].on /\ req[r] # Idle /\ Row(r) \in Ticket /\ TypeOK
      /\ req[r].who = "staff" /\ req[r].status = "Follow up"
  BY RowType DEF Ask, At, IInv, Request
<1>2. /\ row \in Ticket /\ rest \in Request /\ rest.on = on /\ rest.who = "staff"
      /\ rest.pc = "clear" /\ rest.status = "Follow up" /\ row.status = "Follow up"
      /\ row.photo = Row(r).photo /\ row.reply = Row(r).reply
  BY <1>1 DEF Ticket, Statuses, Written, Request, GoTo
<1>3. Writes(r, row, rest)
  BY DEF Ask
<1> HIDE DEF row, rest
<1>4. req'[r] = rest /\ ticket'[on] = row /\ (req[r].behind => on \in overlapped')
  BY <1>1, <1>3, WriteOf
<1>5. Knows(r)' /\ Pending(r, on)'
  BY <1>2, <1>4, Sentinels DEF Knows, StaffKnows, Exists, Row, Pending
<1>6. row.photo /\ on \notin overlapped' => row.reply # Blank
  BY <1>1, <1>2, <1>3, RowType DEF IInv, PhotoOfReply, Exists, Row, Writes
<1> QED
  BY <1>1, <1>2, <1>3, <1>5, <1>6, WriteKeeps

LEMMA UpdateKeeps == ASSUME IInv, NEW r \in Requests, Update(r) PROVE IInv'
<1> PICK on \in Tickets : on = req[r].on
  BY DEF At, IInv, TypeOK, Request, Update
<1> DEFINE row == [Row(r) EXCEPT !.status = req[r].status, !.answer = req[r].text]
           rest == IF req[r].status = "Resolved" \/ req[r].text # Blank THEN GoTo(r, "notify") ELSE Idle
<1>1. /\ req[r] \in Request /\ on = req[r].on /\ req[r] # Idle /\ Row(r) \in Ticket /\ TypeOK
      /\ req[r].who = "staff" /\ req[r].status # "Follow up"
  BY RowType DEF Update, At, IInv, Request
<1>2. /\ row \in Ticket /\ row.status = req[r].status
      /\ row.photo = Row(r).photo /\ row.reply = Row(r).reply
  BY <1>1 DEF Ticket, Request
<1>3. /\ rest \in Request \cup {Idle}
      /\ rest # Idle => rest.on = on /\ rest.who = "staff" /\ rest.pc = "notify" /\ rest.status = req[r].status
      /\ req[r].status = "Resolved" => rest # Idle
  <2>1. GoTo(r, "notify") \in Request /\ GoTo(r, "notify") # Idle
    BY <1>1, Sentinels DEF GoTo, Request
  <2>2. /\ GoTo(r, "notify").on = on /\ GoTo(r, "notify").who = "staff"
        /\ GoTo(r, "notify").pc = "notify" /\ GoTo(r, "notify").status = req[r].status
    BY <1>1 DEF GoTo, Request
  <2> QED
    BY <2>1, <2>2
<1>4. Writes(r, row, rest)
  BY DEF Update
<1> HIDE DEF row, rest
<1>5. req'[r] = rest /\ ticket'[on] = row /\ (req[r].behind => on \in overlapped')
  BY <1>1, <1>4, WriteOf
<1>6. Knows(r)' /\ (row.status = "Resolved" => Tells(r, on)')
  BY <1>2, <1>3, <1>5, Sentinels DEF Knows, StaffKnows, Exists, Row, Tells
<1>7. row.photo /\ on \notin overlapped' => row.reply # Blank
  BY <1>1, <1>2, <1>4, RowType DEF IInv, PhotoOfReply, Exists, Row, Writes
<1> QED
  BY <1>1, <1>2, <1>3, <1>4, <1>6, <1>7, WriteKeeps

LEMMA ReplyKeeps == ASSUME IInv, NEW r \in Requests, Reply(r) PROVE IInv'
<1> PICK on \in Tickets : on = req[r].on
  BY DEF At, IInv, TypeOK, Request, Reply
<1> DEFINE row == [Row(r) EXCEPT !.reply = req[r].text]
           rest == IF req[r].photo THEN GoTo(r, "photo") ELSE HandsBack(r)
<1>1. /\ req[r] \in Request /\ on = req[r].on /\ req[r] # Idle /\ Row(r) \in Ticket /\ TypeOK
      /\ req[r].who = "student" /\ req[r].pc = "write" /\ StudentKnows(r)
  BY RowType DEF Reply, At, IInv, Request, AllKnow, Knows
<1>2. /\ row \in Ticket /\ row.status = Row(r).status /\ row.answer = Row(r).answer
      /\ row.photo = Row(r).photo /\ row.reply = req[r].text /\ row.reply # Blank
  BY <1>1 DEF Ticket, Request, StudentKnows
<1>3. /\ rest \in Request \cup {Idle}
      /\ req[r].status = "Follow up" => rest # Idle
      /\ rest # Idle => /\ rest.on = on /\ rest.who = "student" /\ rest.pc \in {"photo", "handback"}
                        /\ rest.pc = "handback" => req[r].status = "Follow up"
                        /\ rest.status = req[r].status /\ rest.text = req[r].text
                        /\ rest.answer = req[r].answer /\ rest.behind = req[r].behind
  <2>1. ASSUME NEW pc \in {"photo", "handback"}
        PROVE  /\ GoTo(r, pc) \in Request /\ GoTo(r, pc) # Idle
               /\ GoTo(r, pc).on = on /\ GoTo(r, pc).who = "student" /\ GoTo(r, pc).pc = pc
               /\ GoTo(r, pc).status = req[r].status /\ GoTo(r, pc).text = req[r].text
               /\ GoTo(r, pc).answer = req[r].answer /\ GoTo(r, pc).behind = req[r].behind
    BY <1>1, Sentinels DEF GoTo, Request
  <2> QED
    BY <2>1 DEF HandsBack
<1>4. Writes(r, row, rest)
  BY DEF Reply
<1> HIDE DEF row, rest
<1>5. req'[r] = rest /\ ticket'[on] = row /\ (req[r].behind => on \in overlapped')
  BY <1>1, <1>4, WriteOf
<1>6. Knows(r)'
  BY <1>1, <1>2, <1>3, <1>5, Sentinels DEF Knows, StudentKnows, Exists, Row
<1>7. row.status = "Follow up" /\ on \notin overlapped' => Pending(r, on)'
  BY <1>1, <1>2, <1>3, <1>5 DEF Pending, StudentKnows
<1>8. row.status = "Resolved" => Row(r).status = "Resolved" /\ ~Tells(r, on)
  BY <1>1, <1>2 DEF Tells
<1> QED
  BY <1>1, <1>2, <1>3, <1>4, <1>6, <1>7, <1>8, WriteKeeps

LEMMA ClearKeeps == ASSUME IInv, NEW r \in Requests, Clear(r) PROVE IInv'
<1> PICK on \in Tickets : on = req[r].on
  BY DEF At, IInv, TypeOK, Request, Clear
<1> DEFINE row == [Row(r) EXCEPT !.reply = Blank, !.photo = FALSE]
           rest == GoTo(r, "notify")
<1>1. /\ req[r] \in Request /\ req[r] # Idle /\ Row(r) \in Ticket /\ TypeOK
      /\ req[r].who = "staff" /\ req[r].pc = "clear" /\ req[r].status = "Follow up"
  BY RowType DEF Clear, At, IInv, Request, AllKnow, Knows, StaffKnows
<1>2. /\ row \in Ticket /\ rest \in Request /\ rest.on = on /\ rest.who = "staff" /\ rest.pc = "notify"
      /\ rest.status = "Follow up" /\ row.status = Row(r).status /\ row.reply = Blank /\ ~row.photo
  BY <1>1 DEF Ticket, Written, Request, GoTo
<1> HIDE DEF row, rest
<1>3. CASE Writes(r, row, rest)
  <2>1. req'[r] = rest /\ ticket'[on] = row
    BY <1>1, <1>3, WriteOf
  <2>2. Knows(r)'
    BY <1>2, <2>1, Sentinels DEF Knows, StaffKnows, Exists, Row
  <2>3. ~Tells(r, on)
    BY <1>1 DEF Tells
  <2> QED
    BY <1>1, <1>2, <1>3, <2>2, <2>3, WriteKeeps
<1>4. CASE Loses(r, rest)
  BY <1>1, <1>2, <1>4, LoseKeeps DEF Tells, StaffKnows
<1> QED
  BY <1>3, <1>4 DEF Clear, row, rest

LEMMA PhotoKeeps == ASSUME IInv, NEW r \in Requests, Photo(r) PROVE IInv'
<1> PICK on \in Tickets : on = req[r].on
  BY DEF At, IInv, TypeOK, Request, Photo
<1> DEFINE row == [Row(r) EXCEPT !.photo = TRUE]
           rest == HandsBack(r)
<1>1. /\ req[r] \in Request /\ req[r] # Idle /\ Row(r) \in Ticket /\ TypeOK
      /\ req[r].who = "student" /\ req[r].pc = "photo" /\ StudentKnows(r)
  BY RowType DEF Photo, At, IInv, Request, AllKnow, Knows
<1>2. /\ row \in Ticket /\ row.status = Row(r).status /\ row.reply = Row(r).reply
      /\ row.answer = Row(r).answer
  BY <1>1 DEF Ticket
<1>3. /\ rest \in Request \cup {Idle}
      /\ req[r].status = "Follow up" => rest # Idle
      /\ rest # Idle => /\ rest.on = on /\ rest.who = "student" /\ rest.pc = "handback"
                        /\ req[r].status = "Follow up"
                        /\ rest.status = req[r].status /\ rest.text = req[r].text
                        /\ rest.answer = req[r].answer /\ rest.behind = req[r].behind
  BY <1>1, Sentinels DEF HandsBack, GoTo, Request
<1> HIDE DEF row, rest
<1>4. CASE Writes(r, row, rest)
  <2>1. req'[r] = rest /\ ticket'[on] = row /\ (req[r].behind => on \in overlapped')
    BY <1>1, <1>4, WriteOf
  <2>2. Knows(r)'
    BY <1>1, <1>2, <1>3, <2>1, Sentinels DEF Knows, StudentKnows, Exists, Row
  <2>3. on \notin overlapped' =>
          row.reply # Blank /\ (row.status = "Follow up" => Pending(r, on)')
    BY <1>1, <1>2, <1>3, <2>1 DEF Pending, StudentKnows
  <2>4. ~Tells(r, on)
    BY <1>1 DEF Tells
  <2> QED
    BY <1>1, <1>2, <1>3, <1>4, <2>2, <2>3, <2>4, WriteKeeps
<1>5. CASE Loses(r, Idle)
  BY <1>1, <1>5, LoseKeeps
<1> QED
  BY <1>4, <1>5 DEF Photo, row, rest

LEMMA HandBackKeeps == ASSUME IInv, NEW r \in Requests, HandBack(r) PROVE IInv'
<1> PICK on \in Tickets : on = req[r].on
  BY DEF At, IInv, TypeOK, Request, HandBack
<1> DEFINE row == [Row(r) EXCEPT !.status = "In Progress", !.answer = req[r].answer]
<1>1. /\ req[r] \in Request /\ req[r] # Idle /\ Row(r) \in Ticket /\ TypeOK
      /\ req[r].who = "student" /\ req[r].pc = "handback" /\ StudentKnows(r)
  BY RowType DEF HandBack, At, IInv, Request, AllKnow, Knows
<1>2. /\ row \in Ticket /\ row.status = "In Progress" /\ row.reply = Row(r).reply
  BY <1>1 DEF Ticket, Request, Statuses
<1> HIDE DEF row
<1>3. CASE Writes(r, row, Idle)
  <2>1. req'[r] = Idle /\ ticket'[on] = row /\ (req[r].behind => on \in overlapped')
    BY <1>1, <1>3, WriteOf
  <2>2. Knows(r)'
    BY <2>1 DEF Knows
  <2>3. on \notin overlapped' => row.reply # Blank
    BY <1>1, <1>2, <2>1 DEF StudentKnows
  <2> QED
    BY <1>1, <1>2, <1>3, <2>2, <2>3, WriteKeeps
<1>4. CASE Loses(r, Idle)
  BY <1>1, <1>4, LoseKeeps
<1> QED
  BY <1>3, <1>4 DEF HandBack, row
-----------------------------------------------------------------------------
\* A request that starts knows what it read.
LEMMA ReadKeeps ==
  ASSUME IInv, NEW r \in Requests, NEW q \in Request, Reads(r, q), Knows(r)'
  PROVE  IInv'
<1>1. /\ TypeOK' /\ req[r] = Idle /\ \A p \in Requests \ {r} : req'[p] = req[p]
      /\ UNCHANGED <<ticket, told, overlapped, broken>>
  BY ReadOf DEF IInv
<1>2. AllKnow'
  <2> SUFFICES ASSUME NEW p \in Requests \ {r} PROVE Knows(p)'
    BY DEF AllKnow
  <2>1. Knows(p) /\ req'[p] = req[p] /\ ticket' = ticket
    BY <1>1 DEF IInv, AllKnow
  <2> QED
    BY <2>1 DEF Knows, StudentKnows, StaffKnows, Exists, Row
<1>3. \A t \in Tickets : \A p \in Requests :
        (Pending(p, t) => Pending(p, t)') /\ (Tells(p, t) => Tells(p, t)')
  BY <1>1 DEF Pending, Tells
<1>4. RoundsClose' /\ OwnersHear' /\ PhotoOfReply'
  BY <1>1, <1>3 DEF IInv, RoundsClose, OwnersHear, PhotoOfReply, Exists
<1> QED
  BY <1>1, <1>2, <1>4 DEF IInv

\* A request that ends at a step nobody waits for leaves nothing behind.
LEMMA EndKeeps ==
  ASSUME IInv, NEW r \in Requests, req[r] # Idle, req' = [req EXCEPT ![r] = Idle],
         UNCHANGED <<ticket, overlapped, broken>>, told' \in [Tickets -> SUBSET Statuses],
         \A t \in Tickets : /\ told[t] \subseteq told'[t] /\ ~Pending(r, t)
                            /\ Tells(r, t) => "Resolved" \in told'[t]
  PROVE  IInv'
<1>1. TypeOK' /\ req'[r] = Idle /\ \A p \in Requests \ {r} : req'[p] = req[p]
  BY DEF IInv, TypeOK
<1>2. AllKnow'
  <2> SUFFICES ASSUME NEW p \in Requests PROVE Knows(p)'
    BY DEF AllKnow
  <2>1. CASE p = r
    BY <1>1, <2>1 DEF Knows
  <2>2. CASE p # r
    <3>1. Knows(p) /\ req'[p] = req[p] /\ ticket' = ticket
      BY <1>1, <2>2 DEF IInv, AllKnow
    <3> QED
      BY <3>1 DEF Knows, StudentKnows, StaffKnows, Exists, Row
  <2> QED
    BY <2>1, <2>2
<1>3. \A t \in Tickets : \A p \in Requests \ {r} :
        (Pending(p, t) => Pending(p, t)') /\ (Tells(p, t) => Tells(p, t)')
  BY <1>1 DEF Pending, Tells
<1>4. RoundsClose'
  BY <1>3 DEF IInv, RoundsClose, Exists
<1>5. OwnersHear'
  <2> SUFFICES ASSUME NEW t \in Tickets, t \notin broken', Exists(t)', ticket'[t].status = "Resolved",
                      "Resolved" \notin told'[t]
               PROVE  \E q \in Requests : Tells(q, t)'
    BY DEF OwnersHear
  <2>1. PICK q \in Requests : Tells(q, t)
    BY DEF IInv, OwnersHear, Exists
  <2> QED
    BY <1>3, <2>1
<1>6. PhotoOfReply'
  BY DEF IInv, PhotoOfReply, Exists
<1> QED
  BY <1>1, <1>2, <1>4, <1>5, <1>6 DEF IInv

LEMMA NotifyKeeps == ASSUME IInv, NEW r \in Requests, Notify(r) PROVE IInv'
<1>1. /\ req[r] \in Request /\ req[r] # Idle /\ req[r].on \in Tickets /\ TypeOK
      /\ req[r].who = "staff" /\ req[r].pc = "notify"
  BY RowType DEF Notify, At, IInv, Request
<1>2. CASE told' = [told EXCEPT ![req[r].on] = @ \cup {req[r].status}]
           /\ req' = [req EXCEPT ![r] = Idle] /\ UNCHANGED <<ticket, overlapped, broken>>
  <2>1. told' \in [Tickets -> SUBSET Statuses]
    BY <1>1, <1>2 DEF TypeOK, Request
  <2>2. \A t \in Tickets : /\ told[t] \subseteq told'[t] /\ ~Pending(r, t)
                           /\ Tells(r, t) => "Resolved" \in told'[t]
    BY <1>1, <1>2 DEF TypeOK, Pending, Tells
  <2> QED
    BY <1>1, <1>2, <2>1, <2>2, EndKeeps
<1>3. CASE Loses(r, Idle)
  BY <1>1, <1>3, LoseKeeps
<1> QED
  BY <1>2, <1>3 DEF Notify

LEMMA RefusedKeeps == ASSUME IInv, NEW r \in Requests, Refused(r) PROVE IInv'
<1>1. req[r] \in Request /\ req[r] # Idle /\ req[r].pc = "write" /\ TypeOK
  BY RowType DEF Refused, IInv
<1>2. req[r].who \in {"staff", "student"}
  BY <1>1 DEF Request
<1>3. \A t \in Tickets : ~Pending(r, t) /\ ~Tells(r, t)
  BY <1>1, <1>2 DEF Pending, Tells
<1> QED
  BY <1>1, <1>3, EndKeeps DEF Refused, TypeOK

LEMMA StartKeeps ==
  ASSUME IInv, NEW r \in Requests, NEW t \in Tickets, NEW status \in Statuses, NEW text \in Written,
         NEW photo \in BOOLEAN,
         StaffReads(r, t, status, text) \/ (text \in Texts /\ StudentReads(r, t, text, photo))
  PROVE  IInv'
<1>1. TypeOK /\ (ticket[t] # NoTicket => ticket[t] \in Ticket)
  BY DEF IInv, TypeOK
<1>2. CASE StaffReads(r, t, status, text)
  <2> DEFINE q == [who |-> "staff", on |-> t, status |-> status, text |-> text,
                   answer |-> Blank, photo |-> FALSE, behind |-> FALSE, pc |-> "write"]
  <2>1. q \in Request
    BY DEF Request, Written
  <2>2. Reads(r, q) /\ ticket[t] # NoTicket /\ ticket[t].status # "Resolved"
    BY <1>2 DEF StaffReads
  <2>3. req'[r] = q /\ ticket' = ticket
    BY <1>1, <2>1, <2>2, ReadOf
  <2>4. Knows(r)'
    BY <2>2, <2>3 DEF Knows, StaffKnows, Exists, Row
  <2> QED
    BY <2>1, <2>2, <2>4, ReadKeeps
<1>3. CASE text \in Texts /\ StudentReads(r, t, text, photo)
  <2> DEFINE q == StudentRequest(t, text, photo)
  <2>1. /\ Reads(r, q) /\ ticket[t] # NoTicket /\ ticket[t].status \in {"In Progress", "Follow up"}
        /\ ticket[t].reply = Blank
    BY <1>3 DEF StudentReads
  <2>2. q \in Request
    BY <1>1, <2>1 DEF StudentRequest, Request, Ticket, Written
  <2>3. req'[r] = q /\ ticket' = ticket
    BY <1>1, <2>1, <2>2, ReadOf
  <2>4. /\ q.who = "student" /\ q.pc = "write" /\ q.on = t /\ q.text = text /\ text # Blank
        /\ q.status = ticket[t].status /\ q.answer = ticket[t].answer
    BY <1>3, SupportAssumption DEF StudentRequest
  <2> HIDE DEF q
  <2>5. Knows(r)'
    BY <2>1, <2>3, <2>4 DEF Knows, StudentKnows, Exists, Row
  <2> QED
    BY <2>1, <2>2, <2>5, ReadKeeps
<1> QED
  BY <1>2, <1>3

LEMMA RaiseKeeps == ASSUME IInv, NEW t \in Tickets, Raise(t) PROVE IInv'
<1>a. NewTicket \in Ticket
  BY DEF NewTicket, Ticket, Statuses, Written
<1>1. /\ ticket[t] = NoTicket /\ NewTicket \in Ticket /\ NewTicket # NoTicket
      /\ ticket'[t] = NewTicket /\ \A u \in Tickets \ {t} : ticket'[u] = ticket[u]
      /\ UNCHANGED <<told, req, overlapped, broken>>
  BY <1>a, Sentinels DEF Raise, IInv, TypeOK
<1>2. TypeOK'
  BY <1>1 DEF Raise, IInv, TypeOK
<1>3. AllKnow'
  <2> SUFFICES ASSUME NEW p \in Requests, req[p] # Idle PROVE Knows(p)'
    BY <1>1 DEF AllKnow, Knows
  <2>1. Knows(p) /\ req[p].on \in Tickets /\ req'[p] = req[p]
    BY <1>1 DEF IInv, AllKnow, TypeOK, Request
  <2>2. ticket'[req[p].on] = ticket[req[p].on]
    BY <1>1, <2>1 DEF Knows, Exists
  <2> QED
    BY <2>1, <2>2 DEF Knows, StudentKnows, StaffKnows, Exists, Row
<1>4. \A u \in Tickets : \A p \in Requests :
        (Pending(p, u) => Pending(p, u)') /\ (Tells(p, u) => Tells(p, u)')
  BY <1>1 DEF Pending, Tells
<1>5. /\ ticket'[t].status = "Open" /\ ~ticket'[t].photo
      /\ \A u \in Tickets : Exists(u)' => u = t \/ (Exists(u) /\ ticket'[u] = ticket[u])
  BY <1>1 DEF Exists, NewTicket
<1>6. RoundsClose' /\ PhotoOfReply'
  BY <1>1, <1>4, <1>5 DEF IInv, RoundsClose, PhotoOfReply
<1>7. OwnersHear'
  BY <1>1, <1>4, <1>5 DEF IInv, OwnersHear
<1> QED
  BY <1>2, <1>3, <1>6, <1>7 DEF IInv

LEMMA InvInit == Init => IInv
<1> SUFFICES ASSUME Init PROVE IInv
  OBVIOUS
<1>1. TypeOK
  BY DEF Init, TypeOK
<1>2. AllKnow /\ RoundsClose /\ OwnersHear /\ PhotoOfReply
  BY DEF Init, AllKnow, Knows, RoundsClose, OwnersHear, PhotoOfReply, Exists
<1> QED
  BY <1>1, <1>2 DEF IInv

LEMMA InvStep == IInv /\ [Next]_vars => IInv'
<1> SUFFICES ASSUME IInv, [Next]_vars PROVE IInv'
  OBVIOUS
<1>1. CASE UNCHANGED vars
  <2> USE <1>1 DEF vars
  <2>1. TypeOK' /\ PhotoOfReply'
    BY DEF IInv, TypeOK, PhotoOfReply, Exists
  <2>2. AllKnow'
    BY DEF IInv, AllKnow, Knows, StudentKnows, StaffKnows, Exists, Row
  <2>3. RoundsClose' /\ OwnersHear'
    <3>1. \A t \in Tickets : \A p \in Requests :
            (Pending(p, t) => Pending(p, t)') /\ (Tells(p, t) => Tells(p, t)')
      BY DEF Pending, Tells
    <3> QED
      BY <3>1 DEF IInv, RoundsClose, OwnersHear, Exists
  <2> QED
    BY <2>1, <2>2, <2>3 DEF IInv
<1>2. ASSUME NEW t \in Tickets, Raise(t) PROVE IInv'
  BY <1>2, RaiseKeeps
<1>3. ASSUME NEW r \in Requests, NEW t \in Tickets, NEW status \in Statuses, NEW text \in Written,
             StaffReads(r, t, status, text)
      PROVE  IInv'
  BY <1>3, StartKeeps
<1>4. ASSUME NEW r \in Requests, NEW t \in Tickets, NEW text \in Texts, NEW photo \in BOOLEAN,
             StudentReads(r, t, text, photo)
      PROVE  IInv'
  <2>1. text \in Written /\ "Open" \in Statuses
    BY DEF Written, Statuses
  <2> QED
    BY <1>4, <2>1, StartKeeps
<1>5. ASSUME NEW r \in Requests,
             Refused(r) \/ Ask(r) \/ Clear(r) \/ Update(r) \/ Notify(r) \/ Reply(r) \/ Photo(r) \/ HandBack(r)
      PROVE  IInv'
  BY <1>5, RefusedKeeps, AskKeeps, ClearKeeps, UpdateKeeps, NotifyKeeps, ReplyKeeps, PhotoKeeps, HandBackKeeps
<1>6. ASSUME NEW r \in Requests, Crash(r) PROVE IInv'
  BY <1>6, RefusedKeeps, LoseKeeps DEF Crash
<1> QED
  BY <1>1, <1>2, <1>3, <1>4, <1>5, <1>6 DEF Next

LEMMA Inductive == Spec => []IInv
BY InvInit, InvStep, PTL DEF Spec
-----------------------------------------------------------------------------
\* Tickets, requests and notifications keep their types: no status but the four of
\* support.py is ever stored.
THEOREM TypeCorrect == Spec => []TypeOK
<1>1. IInv => TypeOK
  BY DEF IInv
<1> QED
  BY <1>1, Inductive, PTL

\* A ticket that asks for a reply can take one, or somebody is at it, or a write was
\* behind another or lost.
THEOREM RoundsCanBeAnswered == Spec => []FollowUpAnswerable
<1>1. IInv => FollowUpAnswerable
  BY DEF IInv, RoundsClose, Pending, FollowUpAnswerable, InFlight
<1> QED
  BY <1>1, Inductive, PTL

\* Unless a statement was lost, the owner of a resolved ticket was told.
THEOREM OwnerTold == Spec => []ResolutionTold
<1>1. IInv => ResolutionTold
  BY DEF IInv, OwnersHear, Tells, ResolutionTold, InFlight
<1> QED
  BY <1>1, Inductive, PTL

\* A photo never outlives its reply, unless a write was behind another.
THEOREM PhotoGoesWithReply == Spec => []PhotoOfReply
<1>1. IInv => PhotoOfReply
  BY DEF IInv
<1> QED
  BY <1>1, Inductive, PTL
-----------------------------------------------------------------------------
\* What one step may do to a ticket that no write was behind on.
Orderly == \A t \in Tickets : Exists(t) =>
             \/ ticket'[t] = ticket[t]
             \/ t \in overlapped'
             \/ /\ ticket[t].status # "Resolved"
                /\ ticket[t].reply = Blank \/ ticket'[t].reply \in {ticket[t].reply, Blank}

\* And to the answer of staff, when the step is a student's.
AnswersKept == \A r \in Requests : Moves(r) /\ req[r].who = "student"
                 => ticket'[req[r].on].answer = ticket[req[r].on].answer \/ req[r].on \in overlapped'

\* A step that writes a row of its request is orderly when its change is.
LEMMA WriteOrderly ==
  ASSUME IInv, NEW r \in Requests, req[r] # Idle, NEW row, NEW rest, Writes(r, row, rest),
         ~req[r].behind => /\ Row(r).status # "Resolved"
                           /\ Row(r).reply = Blank \/ row.reply \in {Row(r).reply, Blank}
                           /\ req[r].who = "student" => row.answer = Row(r).answer
  PROVE  Orderly /\ AnswersKept
<1>1. /\ ticket'[req[r].on] = row /\ (req[r].behind => req[r].on \in overlapped')
      /\ \A t \in Tickets \ {req[r].on} : ticket'[t] = ticket[t]
  BY WriteOf, WriteOthers DEF IInv
<1>2. Orderly
  BY <1>1 DEF Orderly, Row
<1>3. ASSUME NEW q \in Requests, q # r, req[q] # Idle PROVE ~Moves(q)
  <2>1. /\ req[q] \in Request /\ [req[q] EXCEPT !.behind = TRUE] \in Request
        /\ [req[q] EXCEPT !.behind = TRUE].pc = req[q].pc
    BY <1>3 DEF IInv, TypeOK, Request
  <2>2. req'[q] = req[q] \/ req'[q] = [req[q] EXCEPT !.behind = TRUE]
    BY <1>3, WriteOthers DEF IInv
  <2> QED
    BY <1>3, <2>1, <2>2, Sentinels DEF Moves
<1>4. AnswersKept
  BY <1>1, <1>3 DEF AnswersKept, Moves, Row
<1> QED
  BY <1>2, <1>4

LEMMA StepOrderly == IInv /\ [Next]_vars => Orderly /\ AnswersKept
<1> SUFFICES ASSUME IInv, [Next]_vars PROVE Orderly /\ AnswersKept
  OBVIOUS
<1>1. ASSUME UNCHANGED ticket PROVE Orderly /\ AnswersKept
  BY <1>1 DEF Orderly, AnswersKept
<1>2. ASSUME NEW t \in Tickets, Raise(t) PROVE Orderly /\ AnswersKept
  BY <1>2 DEF Raise, Orderly, AnswersKept, Moves, Exists, IInv, TypeOK
<1>3. ASSUME NEW r \in Requests, req[r] # Idle
      PROVE  /\ req[r] \in Request /\ Row(r) \in Ticket
             /\ req[r].who = "student" => StudentKnows(r)
             /\ req[r].who = "staff" => StaffKnows(r)
  BY <1>3, RowType DEF IInv, AllKnow, Knows
<1>4. ASSUME NEW r \in Requests, Ask(r) PROVE Orderly /\ AnswersKept
  <2>1. /\ At(r, "staff", "write")
        /\ Writes(r, [Row(r) EXCEPT !.status = "Follow up", !.answer = Blank], GoTo(r, "clear"))
    BY <1>4 DEF Ask
  <2>2. [Row(r) EXCEPT !.status = "Follow up", !.answer = Blank].reply = Row(r).reply
    BY <1>3, <2>1 DEF At, Ticket
  <2> QED
    BY <1>3, <2>1, <2>2, WriteOrderly DEF At, StaffKnows
<1>5. ASSUME NEW r \in Requests, Clear(r), ticket' # ticket PROVE Orderly /\ AnswersKept
  <2>1. /\ At(r, "staff", "clear")
        /\ Writes(r, [Row(r) EXCEPT !.reply = Blank, !.photo = FALSE], GoTo(r, "notify"))
    BY <1>5 DEF Clear, Loses
  <2>2. [Row(r) EXCEPT !.reply = Blank, !.photo = FALSE].reply = Blank
    BY <1>3, <2>1 DEF At, Ticket
  <2> QED
    BY <1>3, <2>1, <2>2, WriteOrderly DEF At, StaffKnows
<1>6. ASSUME NEW r \in Requests, Update(r) PROVE Orderly /\ AnswersKept
  <2> DEFINE rest == IF req[r].status = "Resolved" \/ req[r].text # Blank THEN GoTo(r, "notify") ELSE Idle
             row == [Row(r) EXCEPT !.status = req[r].status, !.answer = req[r].text]
  <2>1. At(r, "staff", "write") /\ Writes(r, row, rest)
    BY <1>6 DEF Update
  <2>2. row.reply = Row(r).reply
    BY <1>3, <2>1 DEF At, Ticket
  <2> HIDE DEF row, rest
  <2> QED
    BY <1>3, <2>1, <2>2, WriteOrderly DEF At, StaffKnows
<1>7. ASSUME NEW r \in Requests, Reply(r) PROVE Orderly /\ AnswersKept
  <2> DEFINE rest == IF req[r].photo THEN GoTo(r, "photo") ELSE HandsBack(r)
             row == [Row(r) EXCEPT !.reply = req[r].text]
  <2>1. At(r, "student", "write") /\ Writes(r, row, rest)
    BY <1>7 DEF Reply
  <2> HIDE DEF row, rest
  <2>2. ~req[r].behind => Row(r).status # "Resolved" /\ Row(r).reply = Blank
    BY <1>3, <2>1 DEF At, StudentKnows
  <2>3. row.answer = Row(r).answer
    BY <1>3, <2>1 DEF At, Ticket, row
  <2> QED
    BY <2>1, <2>2, <2>3, WriteOrderly DEF At
<1>8. ASSUME NEW r \in Requests, Photo(r), ticket' # ticket PROVE Orderly /\ AnswersKept
  <2> DEFINE row == [Row(r) EXCEPT !.photo = TRUE]
  <2>1. At(r, "student", "photo") /\ Writes(r, row, HandsBack(r))
    BY <1>8 DEF Photo, Loses
  <2>2. row.reply = Row(r).reply /\ row.answer = Row(r).answer
    BY <1>3, <2>1 DEF At, Ticket
  <2> HIDE DEF row
  <2>3. ~req[r].behind => Row(r).status # "Resolved"
    BY <1>3, <2>1 DEF At, StudentKnows
  <2> QED
    BY <2>1, <2>2, <2>3, WriteOrderly DEF At
<1>9. ASSUME NEW r \in Requests, HandBack(r), ticket' # ticket PROVE Orderly /\ AnswersKept
  <2> DEFINE row == [Row(r) EXCEPT !.status = "In Progress", !.answer = req[r].answer]
  <2>1. At(r, "student", "handback") /\ Writes(r, row, Idle)
    BY <1>9 DEF HandBack, Loses
  <2>2. row.reply = Row(r).reply /\ row.answer = req[r].answer
    BY <1>3, <2>1 DEF At, Ticket
  <2> HIDE DEF row
  <2>3. ~req[r].behind => Row(r).status # "Resolved" /\ Row(r).answer = req[r].answer
    BY <1>3, <2>1 DEF At, StudentKnows
  <2> QED
    BY <2>1, <2>2, <2>3, WriteOrderly DEF At
<1>10. ASSUME NEW r \in Requests,
              Crash(r) \/ Refused(r) \/ Notify(r) \/ Clear(r) \/ Photo(r) \/ HandBack(r)
       PROVE  Orderly /\ AnswersKept
  <2>1. CASE Crash(r) \/ Refused(r) \/ Notify(r)
    BY <1>1, <2>1 DEF Crash, Refused, Notify, Loses
  <2>2. CASE Clear(r) \/ Photo(r) \/ HandBack(r)
    BY <1>1, <1>5, <1>8, <1>9, <2>2
  <2> QED
    BY <1>10, <2>1, <2>2
<1>11. ASSUME NEW r \in Requests, NEW t \in Tickets, NEW status, NEW text, NEW photo,
              StaffReads(r, t, status, text) \/ StudentReads(r, t, text, photo)
       PROVE  Orderly /\ AnswersKept
  BY <1>1, <1>11 DEF StaffReads, StudentReads, Reads
<1>12. CASE UNCHANGED vars
  BY <1>1, <1>12 DEF vars
<1> QED
  BY <1>2, <1>4, <1>6, <1>7, <1>10, <1>11, <1>12 DEF Next

\* A reply is changed only by the next round, unless a write was behind another.
THEOREM RepliesStay == Spec => OneReplyARound
<1>1. IInv /\ [Next]_vars =>
        [\A t \in Tickets : Exists(t) /\ ticket[t].reply # Blank
           => ticket'[t].reply \in {ticket[t].reply, Blank} \/ t \in overlapped']_vars
  BY StepOrderly DEF Orderly
<1> QED
  BY <1>1, Inductive, PTL DEF Spec, OneReplyARound

\* A resolved ticket stays as it is, with the same exception.
THEOREM ResolvedStays == Spec => ResolvedReadOnly
<1>1. IInv /\ [Next]_vars =>
        [\A t \in Tickets : Exists(t) /\ ticket[t].status = "Resolved"
           => ticket'[t] = ticket[t] \/ t \in overlapped']_vars
  BY StepOrderly DEF Orderly
<1> QED
  BY <1>1, Inductive, PTL DEF Spec, ResolvedReadOnly

\* No request of a student changes what staff answered, with the same exception.
THEOREM StaffAnswersStay == Spec => AnswerFromStaff
<1>1. IInv /\ [Next]_vars =>
        [\A r \in Requests : Moves(r) /\ req[r].who = "student"
           => ticket'[req[r].on].answer = ticket[req[r].on].answer \/ req[r].on \in overlapped']_vars
  BY StepOrderly DEF AnswersKept
<1> QED
  BY <1>1, Inductive, PTL DEF Spec, AnswerFromStaff
-----------------------------------------------------------------------------
(* The refinement of TicketLife.                                             *)

\* A write behind another is an astray one; any other is to be one of the promise.
LEMMA WritePromise ==
  ASSUME IInv, NEW r \in Requests, req[r] # Idle, NEW on \in Tickets, on = req[r].on,
         NEW row \in Ticket, NEW rest, Writes(r, row, rest),
         ~req[r].behind /\ Promise!Becomes(on, row) => Promise!Next
  PROVE  Promise!Next
<1>1. Row(r) # NoTicket /\ ticket' = [ticket EXCEPT ![on] = row]
  BY RowType DEF Writes
<1>2. CASE req[r].behind
  <2>1. overlapped' = overlapped \cup {on} /\ row \in Promise!Row
    BY <1>2 DEF Writes, Ticket, Statuses, Written, Promise!Row, Promise!Written
  <2>2. Promise!Stray(on, row)
    BY <1>1, <2>1 DEF Row, Promise!Stray
  <2> QED
    BY <2>1, <2>2 DEF Promise!Next
<1>3. CASE ~req[r].behind
  BY <1>1, <1>3 DEF Writes, Promise!Becomes
<1> QED
  BY <1>2, <1>3

LEMMA PromiseStep == IInv /\ [Next]_vars => [Promise!Next]_<<ticket, overlapped>>
<1> SUFFICES ASSUME IInv, [Next]_vars
             PROVE  Promise!Next \/ UNCHANGED <<ticket, overlapped>>
  OBVIOUS
<1>1. CASE UNCHANGED <<ticket, overlapped>>
  BY <1>1
<1>2. ASSUME NEW t \in Tickets, Raise(t) PROVE Promise!Next
  BY <1>2 DEF Raise, NewTicket, Promise!Next, Promise!Raise, Promise!Becomes
<1>3. ASSUME NEW r \in Requests, req[r] # Idle
      PROVE  /\ req[r] \in Request /\ req[r].on \in Tickets /\ Row(r) \in Ticket /\ Row(r) # NoTicket
             /\ req[r].who = "student" => StudentKnows(r)
             /\ req[r].who = "staff" => StaffKnows(r)
  BY <1>3, RowType DEF IInv, AllKnow, Knows, Request
<1>4. ASSUME NEW r \in Requests, Ask(r) PROVE Promise!Next
  <2> DEFINE row == [Row(r) EXCEPT !.status = "Follow up", !.answer = Blank]
  <2>1. /\ req[r] # Idle /\ req[r].who = "staff" /\ req[r].pc = "write"
        /\ Writes(r, row, GoTo(r, "clear"))
    BY <1>4 DEF Ask, At
  <2>2. row \in Ticket
    BY <1>3, <2>1 DEF Ticket, Statuses, Written
  <2>3. ~req[r].behind => Promise!Is(req[r].on, Promise!Unresolved)
    BY <1>3, <2>1 DEF StaffKnows, Row, Ticket, Statuses, Promise!Is, Promise!Unresolved
  <2>4. ~req[r].behind /\ Promise!Becomes(req[r].on, row) => Promise!Ask(req[r].on)
    BY <2>3 DEF Row, Promise!Ask
  <2> HIDE DEF row
  <2>5. ~req[r].behind /\ Promise!Becomes(req[r].on, row) => Promise!Next
    BY <1>3, <2>1, <2>4 DEF Promise!Next
  <2> QED
    BY <1>3, <2>1, <2>2, <2>5, WritePromise
<1>5. ASSUME NEW r \in Requests, Clear(r) PROVE Promise!Next \/ UNCHANGED <<ticket, overlapped>>
  <2> DEFINE row == [Row(r) EXCEPT !.reply = Blank, !.photo = FALSE]
  <2>1. /\ req[r] # Idle /\ req[r].who = "staff" /\ req[r].pc = "clear"
        /\ Writes(r, row, GoTo(r, "notify")) \/ UNCHANGED <<ticket, overlapped>>
    BY <1>5 DEF Clear, At, Loses
  <2>2. row \in Ticket
    BY <1>3, <2>1 DEF Ticket, Statuses, Written
  <2>3. ~req[r].behind => Promise!Is(req[r].on, {"Follow up"})
    BY <1>3, <2>1 DEF StaffKnows, Row, Promise!Is
  <2>4. ~req[r].behind /\ Promise!Becomes(req[r].on, row) => Promise!OpenRound(req[r].on)
    BY <2>3 DEF Row, Promise!OpenRound
  <2> HIDE DEF row
  <2>5. ~req[r].behind /\ Promise!Becomes(req[r].on, row) => Promise!Next
    BY <1>3, <2>1, <2>4 DEF Promise!Next
  <2> QED
    BY <1>3, <2>1, <2>2, <2>5, WritePromise
<1>6. ASSUME NEW r \in Requests, Update(r) PROVE Promise!Next
  <2> DEFINE row == [Row(r) EXCEPT !.status = req[r].status, !.answer = req[r].text]
             rest == IF req[r].status = "Resolved" \/ req[r].text # Blank THEN GoTo(r, "notify") ELSE Idle
  <2>1. /\ req[r] # Idle /\ req[r].who = "staff" /\ req[r].pc = "write"
        /\ req[r].status # "Follow up" /\ Writes(r, row, rest)
    BY <1>6 DEF Update, At
  <2>2. /\ row \in Ticket /\ req[r].status \in {"Open", "In Progress", "Resolved"}
        /\ req[r].text \in Promise!Written
    BY <1>3, <2>1 DEF Ticket, Statuses, Written, Request, Promise!Written
  <2>3. ~req[r].behind => Promise!Is(req[r].on, Promise!Unresolved)
    BY <1>3, <2>1 DEF StaffKnows, Row, Ticket, Statuses, Promise!Is, Promise!Unresolved
  <2>4. ~req[r].behind /\ Promise!Becomes(req[r].on, row)
          => Promise!Decide(req[r].on, req[r].status, req[r].text)
    BY <2>3 DEF Row, Promise!Decide
  <2> HIDE DEF row, rest
  <2>5. ~req[r].behind /\ Promise!Becomes(req[r].on, row) => Promise!Next
    BY <1>3, <2>1, <2>2, <2>4 DEF Promise!Next
  <2> QED
    BY <1>3, <2>1, <2>2, <2>5, WritePromise
<1>7. ASSUME NEW r \in Requests, Reply(r) PROVE Promise!Next
  <2> DEFINE row == [Row(r) EXCEPT !.reply = req[r].text]
             rest == IF req[r].photo THEN GoTo(r, "photo") ELSE HandsBack(r)
  <2>1. /\ req[r] # Idle /\ req[r].who = "student" /\ req[r].pc = "write" /\ Writes(r, row, rest)
    BY <1>7 DEF Reply, At
  <2>2. row \in Ticket /\ req[r].text \in Texts
    BY <1>3, <2>1 DEF Ticket, Written, Request, StudentKnows
  <2>3. ~req[r].behind => /\ Promise!Is(req[r].on, {"In Progress", "Follow up"})
                          /\ ticket[req[r].on].reply = Blank
    BY <1>3, <2>1 DEF StudentKnows, Row, Promise!Is
  <2>4. ~req[r].behind /\ Promise!Becomes(req[r].on, row) => Promise!Reply(req[r].on, req[r].text)
    BY <2>3 DEF Row, Promise!Reply
  <2> HIDE DEF row, rest
  <2>5. ~req[r].behind /\ Promise!Becomes(req[r].on, row) => Promise!Next
    BY <1>3, <2>1, <2>2, <2>4 DEF Promise!Next
  <2> QED
    BY <1>3, <2>1, <2>2, <2>5, WritePromise
<1>8. ASSUME NEW r \in Requests, Photo(r) PROVE Promise!Next \/ UNCHANGED <<ticket, overlapped>>
  <2> DEFINE row == [Row(r) EXCEPT !.photo = TRUE]
  <2>1. /\ req[r] # Idle /\ req[r].who = "student" /\ req[r].pc = "photo"
        /\ Writes(r, row, HandsBack(r)) \/ UNCHANGED <<ticket, overlapped>>
    BY <1>8 DEF Photo, At, Loses
  <2>2. row \in Ticket
    BY <1>3, <2>1 DEF Ticket
  <2>3. ~req[r].behind => /\ Promise!Is(req[r].on, {"In Progress", "Follow up"})
                          /\ ticket[req[r].on].reply # Blank
    BY <1>3, <2>1 DEF StudentKnows, Row, Promise!Is
  <2>4. ~req[r].behind /\ Promise!Becomes(req[r].on, row) => Promise!Attach(req[r].on)
    BY <2>3 DEF Row, Promise!Attach
  <2> HIDE DEF row
  <2>5. ~req[r].behind /\ Promise!Becomes(req[r].on, row) => Promise!Next
    BY <1>3, <2>1, <2>4 DEF Promise!Next
  <2> QED
    BY <1>3, <2>1, <2>2, <2>5, WritePromise
<1>9. ASSUME NEW r \in Requests, HandBack(r) PROVE Promise!Next \/ UNCHANGED <<ticket, overlapped>>
  <2> DEFINE row == [Row(r) EXCEPT !.status = "In Progress", !.answer = req[r].answer]
  <2>1. /\ req[r] # Idle /\ req[r].who = "student" /\ req[r].pc = "handback"
        /\ Writes(r, row, Idle) \/ UNCHANGED <<ticket, overlapped>>
    BY <1>9 DEF HandBack, At, Loses
  <2>2. row \in Ticket
    BY <1>3, <2>1 DEF Ticket, Statuses, Request
  <2>3. ~req[r].behind => /\ Promise!Is(req[r].on, {"Follow up"})
                          /\ ticket[req[r].on].reply # Blank
                          /\ row = [Row(r) EXCEPT !.status = "In Progress"]
    BY <1>3, <2>1 DEF StudentKnows, Row, Promise!Is, Ticket
  <2> HIDE DEF row
  <2>4. ~req[r].behind /\ Promise!Becomes(req[r].on, row) => Promise!HandBack(req[r].on)
    BY <2>3 DEF Row, Promise!HandBack
  <2>5. ~req[r].behind /\ Promise!Becomes(req[r].on, row) => Promise!Next
    BY <1>3, <2>1, <2>4 DEF Promise!Next
  <2> QED
    BY <1>3, <2>1, <2>2, <2>5, WritePromise
<1>10. ASSUME NEW r \in Requests, Crash(r) \/ Refused(r) \/ Notify(r)
       PROVE  UNCHANGED <<ticket, overlapped>>
  BY <1>10 DEF Crash, Refused, Notify, Loses
<1>11. ASSUME NEW r \in Requests, NEW t \in Tickets, NEW status, NEW text, NEW photo,
              StaffReads(r, t, status, text) \/ StudentReads(r, t, text, photo)
       PROVE  UNCHANGED <<ticket, overlapped>>
  BY <1>11 DEF StaffReads, StudentReads, Reads
<1>12. CASE UNCHANGED vars
  BY <1>12 DEF vars
<1> QED
  BY <1>1, <1>2, <1>4, <1>5, <1>6, <1>7, <1>8, <1>9, <1>10, <1>11, <1>12 DEF Next

\* For any number of tickets and requests, whatever fails or is ended half-way, a
\* ticket lives as TicketLife promises until a write is behind another.
THEOREM ImplementsTicketLife == Spec => TicketLifeSpec
<1>1. Init => Promise!Init
  BY DEF Init, Promise!Init
<1> QED
  BY <1>1, PromiseStep, Inductive, PTL DEF Spec, TicketLifeSpec, Promise!Spec, Promise!promise
-----------------------------------------------------------------------------
CertTypeOK == /\ cert \in [Certs -> Status]
              /\ notified \in [Certs -> Verdicts \cup {"nothing"}]
              /\ decides \in [Deciders -> Decision \cup {NoRequest}]
              /\ slipped \subseteq Certs

On(d, c) == decides[d] # NoRequest /\ decides[d].on = c

\* Nobody decides a certificate before it is queued, ...
Untouched == \A c \in Certs : cert[c] = "none" => /\ notified[c] = "nothing"
                                                 /\ \A d \in Deciders : ~On(d, c)

\* ... whoever wrote last still has the status right, ...
LastWriter ==
  \A c \in Certs, d \in Deciders :
    Stored(c) /\ c \notin slipped /\ On(d, c) /\ Deciding(d, "tell") /\ ~decides[d].after
      => cert[c] = decides[d].to

CertInv == CertTypeOK /\ Untouched /\ LastWriter /\ ToldAsDecided
-----------------------------------------------------------------------------
LEMMA CertInitInv == CertInit => CertInv
  BY DEF CertInit, CertInv, CertTypeOK, Untouched, LastWriter, ToldAsDecided, Status, Verdicts,
         On, Deciding, Stored

LEMMA CertStepInv == CertInv /\ [CertNext]_certVars => CertInv'
<1> SUFFICES ASSUME CertInv, [CertNext]_certVars PROVE CertInv'
  OBVIOUS
<1> USE DEF CertInv, CertTypeOK
<1>1. ASSUME NEW c \in Certs, Queue(c) PROVE CertInv'
  <2>1. CertTypeOK'
    BY <1>1 DEF Queue, Status
  <2>2. Untouched' /\ LastWriter' /\ ToldAsDecided'
    BY <1>1 DEF Queue, Untouched, LastWriter, ToldAsDecided, On, Deciding, Stored
  <2>3. QED
    BY <2>1, <2>2
<1>2. ASSUME NEW c \in Certs, Delete(c) PROVE CertInv'
  <2>1. CertTypeOK'
    BY <1>2 DEF Delete, Status
  <2>2. Untouched' /\ LastWriter' /\ ToldAsDecided'
    BY <1>2 DEF Delete, Untouched, LastWriter, ToldAsDecided, On, Deciding, Stored
  <2>3. QED
    BY <2>1, <2>2
<1>3. ASSUME NEW d \in Deciders, NEW c \in Certs, NEW to \in Verdicts, Read(d, c, to) PROVE CertInv'
  <2>1. /\ CertTypeOK' /\ decides'[d] \in Decision
        /\ decides'[d].pc = "write" /\ decides'[d].on = c
        /\ \A e \in Deciders : e # d => decides'[e] = decides[e]
    BY <1>3 DEF Read, Decision
  <2>2. decides'[d] # NoRequest /\ cert[c] # "none"
    BY <1>3, <2>1, NoDecision DEF Read, Stored
  <2>3. Untouched' /\ LastWriter' /\ ToldAsDecided'
    BY <1>3, <2>1, <2>2 DEF Read, Untouched, LastWriter, ToldAsDecided, On, Deciding, Stored
  <2>4. QED
    BY <2>1, <2>3
<1>4. ASSUME NEW d \in Deciders, Write(d) PROVE CertInv'
  <2> DEFINE c == decides[d].on
  <2>1. /\ c \in Certs /\ decides[d] \in Decision /\ decides[d].to \in Verdicts
        /\ Stored(c) /\ cert' = [cert EXCEPT ![c] = decides[d].to]
        /\ UNCHANGED <<notified, slipped>>
    BY <1>4 DEF Write, Deciding, Decision
  <2>2. /\ decides'[d] = [decides[d] EXCEPT !.pc = "tell"]
        /\ \A e \in Deciders \ {d} :
             decides'[e] = IF Deciding(e, "tell") /\ decides[e].on = c
                             THEN [decides[e] EXCEPT !.after = TRUE] ELSE decides[e]
    BY <1>4 DEF Write, Overtaken
  <2>3. CertTypeOK'
    <3>1. decides'[d] \in Decision
      BY <2>1, <2>2 DEF Decision
    <3>2. \A e \in Deciders \ {d} : decides'[e] \in Decision \cup {NoRequest}
      <4> SUFFICES ASSUME NEW e \in Deciders \ {d} PROVE decides'[e] \in Decision \cup {NoRequest}
        OBVIOUS
      <4>1. CASE Deciding(e, "tell") /\ decides[e].on = c
        <5>1. decides[e] \in Decision
          BY <4>1 DEF Deciding
        <5>2. decides'[e] = [decides[e] EXCEPT !.after = TRUE]
          BY <2>2, <4>1
        <5>3. QED
          BY <5>1, <5>2 DEF Decision
      <4>2. CASE ~(Deciding(e, "tell") /\ decides[e].on = c)
        BY <2>2, <4>2
      <4>3. QED
        BY <4>1, <4>2
    <3>3. decides' \in [Deciders -> Decision \cup {NoRequest}]
      <4>1. decides' = [e \in Deciders |-> decides'[e]]
        BY <1>4 DEF Write, Overtaken
      <4>2. QED
        BY <3>1, <3>2, <4>1
    <3>4. QED
      BY <2>1, <3>3 DEF Status
  <2>4. \A e \in Deciders \ {d} :
          /\ (decides[e] = NoRequest) = (decides'[e] = NoRequest)
          /\ decides'[e].on = decides[e].on
          /\ decides'[e].to = decides[e].to
          /\ decides'[e].pc = decides[e].pc
          /\ decides[e] # NoRequest /\ decides[e].after => decides'[e].after
          /\ Deciding(e, "tell") /\ decides[e].on = c => decides'[e].after
    <3> SUFFICES ASSUME NEW e \in Deciders \ {d}
                 PROVE  /\ (decides[e] = NoRequest) = (decides'[e] = NoRequest)
                        /\ decides'[e].on = decides[e].on
                        /\ decides'[e].to = decides[e].to
                        /\ decides'[e].pc = decides[e].pc
                        /\ decides[e] # NoRequest /\ decides[e].after => decides'[e].after
                        /\ Deciding(e, "tell") /\ decides[e].on = c => decides'[e].after
      OBVIOUS
    <3>1. CASE Deciding(e, "tell") /\ decides[e].on = c
      <4>1. decides[e] \in Decision /\ decides[e] # NoRequest
        BY <3>1 DEF Deciding
      <4>2. decides'[e] = [decides[e] EXCEPT !.after = TRUE]
        BY <2>2, <3>1
      <4>3. decides'[e] \in Decision /\ decides'[e].after
        BY <4>1, <4>2 DEF Decision
      <4>4. QED
        BY <4>1, <4>2, <4>3, NoDecision DEF Decision
    <3>2. CASE ~(Deciding(e, "tell") /\ decides[e].on = c)
      BY <2>2, <3>2
    <3>3. QED
      BY <3>1, <3>2
  <2>5. /\ decides[d] # NoRequest /\ decides'[d] # NoRequest
        /\ decides'[d].pc = "tell" /\ decides'[d].on = c /\ decides'[d].to = decides[d].to
    BY <2>1, <2>2, NoDecision DEF Decision
  <2>6. Untouched'
    <3>1. \A b \in Certs : cert'[b] = "none" => cert[b] = "none" /\ b # c
      BY <2>1 DEF Verdicts
    <3>2. \A b \in Certs, e \in Deciders : On(e, b)' => On(e, b)
      BY <2>4, <2>5 DEF On
    <3>3. QED
      BY <2>1, <3>1, <3>2 DEF Untouched
  <2>7. LastWriter'
    <3> SUFFICES ASSUME NEW b \in Certs, NEW e \in Deciders, Stored(b)', b \notin slipped,
                        decides'[e] # NoRequest, decides'[e].on = b, decides'[e].pc = "tell",
                        ~decides'[e].after
                 PROVE  cert'[b] = decides'[e].to
      BY <2>1 DEF LastWriter, On, Deciding
    <3>1. CASE e = d
      BY <2>1, <2>5, <3>1
    <3>2. CASE e # d
      <4>1. b # c /\ Deciding(e, "tell") /\ On(e, b) /\ ~decides[e].after
        BY <2>4, <3>2 DEF On, Deciding
      <4>2. Stored(b) /\ cert'[b] = cert[b]
        BY <2>1, <4>1 DEF Stored
      <4>3. QED
        BY <2>4, <3>2, <4>1, <4>2 DEF LastWriter
    <3>3. QED
      BY <3>1, <3>2
  <2>8. ToldAsDecided'
    <3> SUFFICES ASSUME NEW b \in Certs, Stored(b)', notified[b] # "nothing", b \notin slipped,
                        \A e \in Deciders : Deciding(e, "tell")' => decides'[e].on # b
                 PROVE  cert'[b] = notified[b]
      BY <2>1 DEF ToldAsDecided
    <3>1. b # c
      BY <2>2, <2>5, NoDecision DEF Deciding
    <3>2. \A e \in Deciders : Deciding(e, "tell") => decides[e].on # b
      BY <2>4, <3>1 DEF Deciding
    <3>3. QED
      BY <2>1, <3>1, <3>2 DEF ToldAsDecided, Stored
  <2>9. QED
    BY <2>3, <2>6, <2>7, <2>8
<1>5. ASSUME NEW d \in Deciders, WriteLost(d) PROVE CertInv'
  <2>1. /\ decides[d] \in Decision /\ decides'[d] \in Decision /\ decides'[d].on = decides[d].on
        /\ decides[d].on \in slipped' /\ decides[d].on \in Certs
        /\ \A e \in Deciders : e # d => decides'[e] = decides[e]
    BY <1>5 DEF WriteLost, Deciding, Decision
  <2>2. CertTypeOK' /\ slipped \subseteq slipped' /\ UNCHANGED <<cert, notified>>
    BY <1>5, <2>1 DEF WriteLost
  <2>3. Untouched'
    BY <2>1, <2>2, NoDecision DEF Untouched, On
  <2>4. LastWriter' /\ ToldAsDecided'
    BY <2>1, <2>2 DEF LastWriter, ToldAsDecided, On, Deciding, Stored
  <2>5. QED
    BY <2>2, <2>3, <2>4
<1>6. ASSUME NEW d \in Deciders, Tell(d) PROVE CertInv'
  <2>1. /\ decides[d] \in Decision /\ decides[d].on \in Certs /\ decides[d].to \in Verdicts
        /\ decides'[d] = NoRequest /\ UNCHANGED cert
        /\ \A e \in Deciders : e # d => decides'[e] = decides[e]
    BY <1>6 DEF Tell, Done, Deciding, Decision
  <2>2. CertTypeOK' /\ slipped \subseteq slipped'
    BY <1>6, <2>1 DEF Tell, Done
  <2>3. Untouched'
    BY <1>6, <2>1 DEF Untouched, On, Tell, Deciding
  <2>4. LastWriter'
    BY <2>1, <2>2 DEF LastWriter, On, Deciding, Stored
  <2>5. ToldAsDecided'
    BY <1>6, <2>1, <2>2 DEF ToldAsDecided, LastWriter, On, Tell, Deciding, Stored
  <2>6. QED
    BY <2>2, <2>3, <2>4, <2>5
<1>7. ASSUME NEW d \in Deciders, TellLost(d) \/ Dropped(d) PROVE CertInv'
  <2>1. /\ decides[d] \in Decision /\ decides[d].on \in Certs
        /\ decides'[d] = NoRequest /\ UNCHANGED <<cert, notified>>
        /\ \A e \in Deciders : e # d => decides'[e] = decides[e]
        /\ decides[d].pc = "tell" => decides[d].on \in slipped'
    BY <1>7 DEF TellLost, Dropped, Done, Deciding, Decision
  <2>2. CertTypeOK' /\ slipped \subseteq slipped'
    BY <1>7, <2>1 DEF TellLost, Dropped, Done
  <2>3. Untouched' /\ LastWriter'
    BY <2>1, <2>2 DEF Untouched, LastWriter, On, Deciding, Stored
  <2>4. ToldAsDecided'
    BY <2>1, <2>2 DEF ToldAsDecided, Deciding, Stored
  <2>5. QED
    BY <2>2, <2>3, <2>4
<1>8. CASE UNCHANGED certVars
  BY <1>8 DEF certVars, Untouched, LastWriter, ToldAsDecided, On, Deciding, Stored
<1>9. QED
  BY <1>1, <1>2, <1>3, <1>4, <1>5, <1>6, <1>7, <1>8 DEF CertNext

\* verification_approve, verification_reject: what a student was told last is the
\* certificate's status, but for lost writes, lost notifications and overtaking.
THEOREM StudentsToldRight == CertSpec => []ToldAsDecided
<1>1. CertInv => ToldAsDecided
  BY DEF CertInv
<1>2. QED
  BY <1>1, CertInitInv, CertStepInv, PTL DEF CertSpec
=============================================================================
