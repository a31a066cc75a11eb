---------------------------- MODULE Certificates ----------------------------
(* Certificates that students queue and administrators decide.  A decision    *)
(* reads the row, writes its status without looking at it again, ignores      *)
(* whether that worked, and tells the student.                                *)
CONSTANTS Certs, Deciders, NoRequest

VARIABLES cert,     \* certificates: its status, whether there is a row at all
          notified, \* what its owner was last told of it
          decides,  \* what each administrator's request is doing
          slipped   \* certificates a decision of which was lost or overtaken

certVars == <<cert, notified, decides, slipped>>
-----------------------------------------------------------------------------
Verdicts == {"approved", "rejected"}
Status == {"none", "pending", "deleted"} \cup Verdicts

\* after: another request decided the certificate since this one wrote its status.
Decision == [on : Certs, to : Verdicts, pc : {"write", "tell"}, after : BOOLEAN]

ASSUME NoDecision == NoRequest \notin Decision

CertInit == /\ cert = [c \in Certs |-> "none"]
            /\ notified = [c \in Certs |-> "nothing"]
            /\ decides = [d \in Deciders |-> NoRequest]
            /\ slipped = {}

Stored(c) == cert[c] \notin {"none", "deleted"}
Deciding(d, pc) == decides[d] # NoRequest /\ decides[d].pc = pc

\* certificates_queue.  A row that cannot be read back is there all the same: the
\* student, told that it was not saved, may queue another one.
Queue(c) == /\ cert[c] = "none" /\ cert' = [cert EXCEPT ![c] = "pending"]
            /\ UNCHANGED <<notified, decides, slipped>>

\* verification_approve, verification_reject: of any row, decided before or not.
Read(d, c, to) ==
  /\ decides[d] = NoRequest /\ Stored(c)
  /\ decides' = [decides EXCEPT ![d] = [on |-> c, to |-> to, pc |-> "write", after |-> FALSE]]
  /\ UNCHANGED <<cert, notified, slipped>>

\* Requests that wrote before d and have not told the owner yet.
Overtaken(d) ==
  [e \in Deciders |-> IF e = d THEN [decides[d] EXCEPT !.pc = "tell"]
                      ELSE IF Deciding(e, "tell") /\ decides[e].on = decides[d].on
                             THEN [decides[e] EXCEPT !.after = TRUE] ELSE decides[e]]

\* Faulty variant: the approval has the statement of the rejection.
WriteRejects(d) ==
  /\ Deciding(d, "write") /\ Stored(decides[d].on)
  /\ cert' = [cert EXCEPT ![decides[d].on] = "rejected"]
  /\ decides' = Overtaken(d) /\ UNCHANGED <<notified, slipped>>

\* update_certificate_status
Write(d) ==
  /\ Deciding(d, "write") /\ Stored(decides[d].on)
  /\ cert' = [cert EXCEPT ![decides[d].on] = decides[d].to]
  /\ decides' = Overtaken(d) /\ UNCHANGED <<notified, slipped>>

\* It failed or found no row: the request goes on as if it had worked.
WriteLost(d) ==
  /\ Deciding(d, "write")
  /\ decides' = [decides EXCEPT ![d].pc = "tell"]
  /\ slipped' = slipped \cup {decides[d].on} /\ UNCHANGED <<cert, notified>>

Done(d) == decides' = [decides EXCEPT ![d] = NoRequest]

\* create_notification, with the row read at the beginning.
Tell(d) ==
  /\ Deciding(d, "tell")
  /\ notified' = [notified EXCEPT ![decides[d].on] = decides[d].to]
  /\ slipped' = IF decides[d].after THEN slipped \cup {decides[d].on} ELSE slipped
  /\ Done(d) /\ UNCHANGED cert

\* The notification fails, which is logged, or the request is ended before it.  On
\* Postgres it always fails: the column ticket_id, which it leaves empty, is NOT NULL.
TellLost(d) == /\ Deciding(d, "tell")
               /\ slipped' = slipped \cup {decides[d].on}
               /\ Done(d) /\ UNCHANGED <<cert, notified>>

\* Ended before the write.
Dropped(d) == Deciding(d, "write") /\ Done(d) /\ UNCHANGED <<cert, notified, slipped>>

\* certificates_delete, verification_delete: numbers are not used again.
Delete(c) == /\ Stored(c) /\ cert' = [cert EXCEPT ![c] = "deleted"]
             /\ UNCHANGED <<notified, decides, slipped>>

CertNext == \/ \E c \in Certs : Queue(c) \/ Delete(c)
            \/ \E d \in Deciders :
                 \/ \E c \in Certs, to \in Verdicts : Read(d, c, to)
                 \/ Write(d) \/ WriteLost(d) \/ Tell(d) \/ TellLost(d) \/ Dropped(d)

CertSpec == CertInit /\ [][CertNext]_certVars
-----------------------------------------------------------------------------
\* What the owner of a certificate was told last is its status, once no decision on
\* it is on its way: only a lost write or notification, or two decisions that
\* overtook each other, leave a student with the wrong one.
ToldAsDecided ==
  \A c \in Certs : /\ Stored(c) /\ notified[c] # "nothing" /\ c \notin slipped
                   /\ \A d \in Deciders : Deciding(d, "tell") => decides[d].on # c
    => cert[c] = notified[c]
=============================================================================
