-------------------------- MODULE OnboardingProofs --------------------------
(* Theorems about Onboarding for every set of addresses, roll numbers and    *)
(* instances, on both storage legs.                                          *)
EXTENDS Onboarding, TLAPS

USE DEF Steps, Decisions, Statuses

LEMMA AnsweredBoolean == Answered \subseteq BOOLEAN
  BY DEF Answered

\* An inserted row is a row and takes the next id.
LEMMA InsertTyped ==
  ASSUME TypeOK, NEW e \in Emails, NEW r \in Row, InsertUser(e, r)
  PROVE  users' \in [Emails -> Row] /\ nextId' \in 1..(MaxId + 1)
<1> DEFINE new == [r EXCEPT !.id = nextId]
<1>1. new \in Row
  BY OnboardingAssumption DEF InsertUser, TypeOK, Row
<1>2. users' = [users EXCEPT ![e] = new]
  BY DEF InsertUser
<1> HIDE DEF new
<1> QED
  BY <1>1, <1>2, OnboardingAssumption DEF InsertUser, TypeOK

\* Every variable keeps its type: no handler stores a status, a row or a job
\* outside the values the columns can hold.
THEOREM TypeCorrect == Spec => []TypeOK
<1>1. Init => TypeOK
  <2> SUFFICES ASSUME Init PROVE TypeOK
    OBVIOUS
  <2>1. NoRow \in Row
    BY OnboardingAssumption DEF NoRow, Row
  <2>2. BareRow \in Row
    BY <2>1 DEF BareRow, Row
  <2>3. users \in [Emails -> Row]
    BY <2>1, <2>2 DEF Init
  <2> QED
    BY <2>3, OnboardingAssumption DEF Init, TypeOK
<1>2. TypeOK /\ [Next]_vars => TypeOK'
  <2> SUFFICES ASSUME TypeOK, [Next]_vars PROVE TypeOK'
    OBVIOUS
  <2>0. behind' \subseteq Instances
    BY DEF Next, Watch, vars, TypeOK
  <2> USE <2>0, OnboardingAssumption DEF TypeOK
  <2>1. ASSUME NEW i \in Instances, NEW e \in Emails, NEW p \in Prns, NEW h \in Handles,
               NEW ok \in BOOLEAN, SignupCheck(i, e, p, h, ok)
        PROVE  TypeOK'
    <3>1. NewRow(p, h) \in Row
      BY DEF NewRow, Row
    <3>2. [Hold("insert", e, NewRow(p, h), "pending") EXCEPT !.blind = ~ok] \in Request
      BY <3>1 DEF Hold, Request
    <3> QED
      BY <2>1, <3>2 DEF SignupCheck, Raise
  <2>2. ASSUME NEW i \in Instances, SignupInsert(i) PROVE TypeOK'
    <3>1. loop[i] \in Request
      BY <2>2 DEF SignupInsert, At, Request, Idle, Raised
    <3>2. loop' \in [Instances -> Request \cup {Idle, Raised}]
      BY <2>2 DEF SignupInsert, Done
    <3>3. users' \in [Emails -> Row] /\ nextId' \in 1..(MaxId + 1)
      <4>1. loop[i].row \in Row /\ loop[i].email \in Emails
        BY <3>1 DEF Request
      <4> QED
        BY <2>2, <4>1, InsertTyped DEF SignupInsert
    <3> QED
      BY <2>2, <3>2, <3>3 DEF SignupInsert
  <2>3. ASSUME NEW i \in Instances, NEW e \in Emails, NEW d \in Decisions, ReviewRead(i, e, d)
        PROVE  TypeOK'
    BY <2>3 DEF ReviewRead, Hold, Request
  <2>4. ASSUME NEW i \in Instances, ReviewPromote(i) PROVE TypeOK'
    <3>1. loop[i] \in Request
      BY <2>4 DEF ReviewPromote, At, Request, Idle, Raised
    <3>2. loop' \in [Instances -> Request \cup {Idle, Raised}]
      BY <2>4, <3>1 DEF ReviewPromote, Done, Goto, Request
    <3>3. users' \in [Emails -> Row]
      <4> DEFINE e == loop[i].email
                 r == [users[e] EXCEPT !.github = loop[i].row.linked]
      <4>1. e \in Emails /\ r \in Row
        BY <3>1 DEF Request, Row
      <4>2. users' = users \/ users' = [users EXCEPT ![e] = r]
        BY <2>4 DEF ReviewPromote, WriteGithub
      <4> HIDE DEF r
      <4> QED
        BY <4>1, <4>2
    <3> QED
      BY <2>4, <3>2, <3>3 DEF ReviewPromote
  <2>5. ASSUME NEW i \in Instances, ReviewDecide(i) PROVE TypeOK'
    <3>1. loop[i] \in Request
      BY <2>5 DEF ReviewDecide, At, Request, Idle, Raised
    <3>2. loop' \in [Instances -> Request \cup {Idle, Raised}]
      BY <2>5, <3>1 DEF ReviewDecide, Done, Goto, Request
    <3>3. users' \in [Emails -> Row]
      <4> DEFINE e == loop[i].email
                 r == [users[e] EXCEPT !.prn = loop[i].row.prn, !.status = loop[i].target,
                                       !.verified = (loop[i].target = "approved")]
      <4>1. e \in Emails /\ users[e] \in Row /\ loop[i].row \in Row
        BY <3>1 DEF Request
      <4>2. r \in Row
        <5>1. CASE loop[i].target = "approved"
          BY <5>1, <4>1, <3>1 DEF Request, Row
        <5>2. CASE loop[i].target # "approved"
          BY <5>2, <4>1, <3>1 DEF Request, Row
        <5> QED
          BY <5>1, <5>2
      <4>3. users' = users \/ users' = [users EXCEPT ![e] = r]
        BY <2>5 DEF ReviewDecide, WriteOnboarding
      <4> HIDE DEF r
      <4> QED
        BY <4>1, <4>2, <4>3
    <3> QED
      BY <2>5, <3>2, <3>3 DEF ReviewDecide
  <2>6. ASSUME NEW i \in Instances, NEW e \in Emails, NEW h \in Handles, LinkGithub(i, e, h)
        PROVE  TypeOK'
    <3>1. users' \in [Emails -> Row]
      BY <2>6 DEF LinkGithub, WriteGithub, Row
    <3>2. [users[e] EXCEPT !.linked = h] \in Row
      BY DEF Row
    <3> QED
      BY <2>6, <3>1, <3>2 DEF LinkGithub, Hold, Request
  <2>7. ASSUME NEW i \in Instances, LinkProfile(i) PROVE TypeOK'
    <3>1. loop[i] \in Request
      BY <2>7 DEF LinkProfile, At, Request, Idle, Raised
    <3>2. loop' \in [Instances -> Request \cup {Idle, Raised}]
      BY <2>7, <3>1 DEF LinkProfile, Goto, Request
    <3>3. users' \in [Emails -> Row]
      BY <2>7, <3>1 DEF LinkProfile, WriteLinked, Request, Row
    <3> QED
      BY <2>7, <3>2, <3>3 DEF LinkProfile
  <2>8. ASSUME NEW i \in Instances, StartSync(i) PROVE TypeOK'
    <3>1. loop[i] \in Request
      BY <2>8 DEF StartSync, At, Request, Idle, Raised
    <3> QED
      BY <2>8, <3>1 DEF StartSync, Done, Request, Row, Job
  <2>9. ASSUME NEW i \in Instances, NEW e \in Emails, RemoveRead(i, e) PROVE TypeOK'
    <3>1. Hold("delete", e, NoRow, "pending") \in Request
      BY DEF Hold, Request, NoRow, Row
    <3> QED
      BY <2>9, <3>1 DEF RemoveRead
  <2>10. ASSUME NEW i \in Instances, RemoveDelete(i) PROVE TypeOK'
    <3>1. loop[i] \in Request
      BY <2>10 DEF RemoveDelete, At, Request, Idle, Raised
    <3>2. loop' \in [Instances -> Request \cup {Idle, Raised}]
      BY <2>10, <3>1 DEF RemoveDelete, Done, Goto, Request
    <3>3. NoRow \in Row
      BY DEF NoRow, Row
    <3> QED
      BY <2>10, <3>1, <3>2, <3>3 DEF RemoveDelete, DeleteUser
  <2>11. ASSUME NEW i \in Instances, RemoveClear(i) PROVE TypeOK'
    <3>1. loop[i] \in Request
      BY <2>11 DEF RemoveClear, At, Request, Idle, Raised
    <3> QED
      BY <2>11, <3>1 DEF RemoveClear, Done, Request
  <2>12. ASSUME NEW i \in Instances, NEW e \in Emails, NEW p \in Prns, NEW ok \in BOOLEAN,
                EditRaises(i, e, p, ok)
         PROVE  TypeOK'
    BY <2>12 DEF EditRaises, Raise
  <2>13. ASSUME NEW e \in Emails, LoginSync(e) PROVE TypeOK'
    BY <2>13 DEF LoginSync, Job, Row
  <2>14. ASSUME NEW j \in jobs, FinishSync(j) PROVE TypeOK'
    BY <2>14 DEF FinishSync, Job
  <2>15. ASSUME NEW i \in Instances, NEW e \in Emails, GoogleRead(i, e) PROVE TypeOK'
    <3>1. Hold("upsert", e, NoRow, "pending") \in Request
      BY DEF Hold, Request, NoRow, Row
    <3> QED
      BY <2>15, <3>1 DEF GoogleRead
  <2>16. ASSUME NEW i \in Instances, GoogleUpsert(i) PROVE TypeOK'
    <3>1. loop[i] \in Request
      BY <2>16 DEF GoogleUpsert, At, Request, Idle, Raised
    <3>2. loop' \in [Instances -> Request \cup {Idle, Raised}]
      BY <2>16, <3>1 DEF GoogleUpsert, Goto, Request
    <3>3. users' \in [Emails -> Row] /\ nextId' \in 1..(MaxId + 1)
      <4>1. NoRow \in Row
        BY DEF NoRow, Row
      <4>2. BareRow \in Row /\ loop[i].email \in Emails
        BY <3>1, <4>1 DEF Request, BareRow, Row
      <4> QED
        BY <2>16, <4>2, InsertTyped DEF GoogleUpsert
    <3> QED
      BY <2>16, <3>2, <3>3 DEF GoogleUpsert
  <2>17. CASE UNCHANGED vars
    BY <2>17 DEF vars
  <2>18. CASE Act
    BY <2>1, <2>2, <2>3, <2>4, <2>5, <2>6, <2>7, <2>8, <2>9, <2>10, <2>11, <2>12,
       <2>13, <2>14, <2>15, <2>16, <2>18, AnsweredBoolean DEF Act, Arrive, Step
  <2> QED
    BY <2>17, <2>18 DEF Next
<1> QED
  BY <1>1, <1>2, PTL DEF Spec
-----------------------------------------------------------------------------
(* Decisions made from a copy of the row that may be stale.  What the copy    *)
(* still guarantees when it is written back is enough for the status column.  *)

\* An administrator's row stays without a submission, no handler in progress
\* moves the status of one, and a sign-up inserts an unverified pending row.
ReviewInv ==
  /\ \A e \in Staff : users[e].status = "none"
  /\ \A i \in Instances : loop[i].pc \in {"insert", "promote", "decide", "delete", "upsert"}
                            => loop[i].email \notin Staff
  /\ \A i \in Instances : At(i, "insert")
                            => loop[i].row.status = "pending" /\ ~loop[i].row.verified
  /\ VerifiedIffApproved

LEMMA ReviewInvInit == Init => ReviewInv
  BY OnboardingAssumption DEF Init, ReviewInv, VerifiedIffApproved, BareRow, NoRow, At, Idle

LEMMA ReviewInvStep == TypeOK /\ ReviewInv /\ [Next]_vars => ReviewInv'
<1> SUFFICES ASSUME TypeOK, ReviewInv, [Next]_vars PROVE ReviewInv'
  OBVIOUS
<1> USE OnboardingAssumption DEF TypeOK, ReviewInv, VerifiedIffApproved, At
<1>1. ASSUME NEW i \in Instances, NEW e \in Emails, NEW p \in Prns, NEW h \in Handles,
             NEW ok \in BOOLEAN, SignupCheck(i, e, p, h, ok)
      PROVE  ReviewInv'
  <2>1. e \notin Staff
    BY <1>1 DEF SignupCheck, Exists
  <2> QED
    BY <1>1, <2>1 DEF SignupCheck, Hold, Raise, NewRow, Raised
<1>2. ASSUME NEW i \in Instances, SignupInsert(i) PROVE ReviewInv'
  <2>1. loop[i] \in Request
    BY <1>2 DEF SignupInsert, Request, Idle, Raised
  <2>2. CASE UNCHANGED users
    BY <1>2, <2>2 DEF SignupInsert, Done, Idle
  <2>3. CASE InsertUser(loop[i].email, loop[i].row)
    <3>1. users' = [users EXCEPT ![loop[i].email] = [loop[i].row EXCEPT !.id = nextId]]
      BY <2>3 DEF InsertUser
    <3>2. users'[loop[i].email].status = "pending" /\ ~users'[loop[i].email].verified
      BY <3>1, <2>1, <1>2 DEF SignupInsert, Request, Row
    <3>3. loop[i].email \notin Staff
      BY <1>2 DEF SignupInsert
    <3> QED
      BY <1>2, <2>1, <3>1, <3>2, <3>3 DEF SignupInsert, Done, Idle, Request
  <2> QED
    BY <1>2, <2>2, <2>3 DEF SignupInsert
<1>3. ASSUME NEW i \in Instances, NEW e \in Emails, NEW d \in Decisions, ReviewRead(i, e, d)
      PROVE  ReviewInv'
  BY <1>3 DEF ReviewRead, Hold
<1>4. ASSUME NEW i \in Instances, ReviewPromote(i) PROVE ReviewInv'
  <2>1. loop[i] \in Request
    BY <1>4 DEF ReviewPromote, Request, Idle, Raised
  <2>2. \A e \in Emails : users'[e].status = users[e].status
                          /\ users'[e].verified = users[e].verified
    BY <1>4, <2>1 DEF ReviewPromote, WriteGithub, Request, Row
  <2>3. loop' = [loop EXCEPT ![i] = [@ EXCEPT !.pc = "decide"]] \/ loop' = [loop EXCEPT ![i] = Idle]
    BY <1>4 DEF ReviewPromote, Goto, Done
  <2> QED
    BY <1>4, <2>1, <2>2, <2>3 DEF ReviewPromote, Idle, Request
<1>5. ASSUME NEW i \in Instances, ReviewDecide(i) PROVE ReviewInv'
  <2>1. loop[i] \in Request
    BY <1>5 DEF ReviewDecide, Request, Idle, Raised
  <2>2. loop' = [loop EXCEPT ![i] = [@ EXCEPT !.pc = "sync"]] \/ loop' = [loop EXCEPT ![i] = Idle]
    BY <1>5 DEF ReviewDecide, Goto, Done
  <2>3. \A j \in Instances : loop'[j] = loop[j] \/ loop'[j].pc \in {"sync", "idle"}
    BY <2>1, <2>2 DEF Idle, Request
  <2>4. loop[i].email \in Emails \ Staff /\ loop[i].target \in Decisions
    BY <1>5, <2>1 DEF ReviewDecide, Request
  <2>5. CASE UNCHANGED users
    BY <2>3, <2>5
  <2>6. CASE WriteOnboarding(loop[i].email, loop[i].row, loop[i].target)
    <3>1. users'[loop[i].email].status = loop[i].target
          /\ (users'[loop[i].email].verified <=> loop[i].target = "approved")
      BY <2>4, <2>6 DEF WriteOnboarding, Row
    <3>2. \A e \in Emails \ {loop[i].email} : users'[e] = users[e]
      BY <2>4, <2>6 DEF WriteOnboarding
    <3> QED
      BY <2>3, <2>4, <3>1, <3>2
  <2> QED
    BY <1>5, <2>5, <2>6 DEF ReviewDecide
<1>6. ASSUME NEW i \in Instances, NEW e \in Emails, NEW h \in Handles, LinkGithub(i, e, h)
      PROVE  ReviewInv'
  <2>1. \A o \in Emails : users'[o].status = users[o].status
                          /\ users'[o].verified = users[o].verified
    BY <1>6 DEF LinkGithub, WriteGithub, Row
  <2> QED
    BY <1>6, <2>1 DEF LinkGithub, Hold
<1>7. ASSUME NEW i \in Instances, LinkProfile(i) PROVE ReviewInv'
  <2>1. loop[i] \in Request
    BY <1>7 DEF LinkProfile, Request, Idle, Raised
  <2>2. \A e \in Emails : users'[e].status = users[e].status
                          /\ users'[e].verified = users[e].verified
    BY <1>7, <2>1 DEF LinkProfile, WriteLinked, Request, Row
  <2>3. \A j \in Instances : loop'[j] = loop[j] \/ loop'[j].pc = "sync"
    BY <1>7, <2>1 DEF LinkProfile, Goto, Request
  <2> QED
    BY <2>2, <2>3
<1>8. ASSUME NEW i \in Instances, StartSync(i) PROVE ReviewInv'
  BY <1>8 DEF StartSync, Done, Idle
<1>9. ASSUME NEW i \in Instances, NEW e \in Emails, RemoveRead(i, e) PROVE ReviewInv'
  BY <1>9 DEF RemoveRead, Hold
<1>10. ASSUME NEW i \in Instances, RemoveDelete(i) PROVE ReviewInv'
  <2>1. loop[i] \in Request /\ loop[i].email \in Emails \ Staff
    BY <1>10 DEF RemoveDelete, Request, Idle, Raised
  <2>2. \A j \in Instances : loop'[j] = loop[j] \/ loop'[j].pc \in {"clear", "idle"}
    BY <1>10, <2>1 DEF RemoveDelete, Goto, Done, Request, Idle
  <2>3. \A e \in Emails : users'[e] = users[e] \/ (e = loop[i].email /\ users'[e] = NoRow)
    BY <1>10, <2>1 DEF RemoveDelete, DeleteUser
  <2> QED
    BY <2>1, <2>2, <2>3 DEF NoRow
<1>11. ASSUME NEW i \in Instances, RemoveClear(i) PROVE ReviewInv'
  BY <1>11 DEF RemoveClear, Done, Idle
<1>12. ASSUME NEW i \in Instances, NEW e \in Emails, NEW p \in Prns, NEW ok \in BOOLEAN,
              EditRaises(i, e, p, ok)
       PROVE  ReviewInv'
  BY <1>12 DEF EditRaises, Raise, Raised
<1>13. ASSUME NEW e \in Emails, LoginSync(e) PROVE ReviewInv'
  BY <1>13 DEF LoginSync
<1>14. ASSUME NEW j \in jobs, FinishSync(j) PROVE ReviewInv'
  BY <1>14 DEF FinishSync
<1>15. ASSUME NEW i \in Instances, NEW e \in Emails, GoogleRead(i, e) PROVE ReviewInv'
  BY <1>15 DEF GoogleRead, Hold
<1>16. ASSUME NEW i \in Instances, GoogleUpsert(i) PROVE ReviewInv'
  <2>1. loop[i] \in Request /\ loop[i].email \in Emails \ Staff
    BY <1>16 DEF GoogleUpsert, Request, Idle, Raised
  <2>2. \A j \in Instances : loop'[j] = loop[j] \/ loop'[j].pc = "sync"
    BY <1>16, <2>1 DEF GoogleUpsert, Goto, Request
  <2>3. \A e \in Emails : \/ users'[e] = users[e]
                          \/ /\ e = loop[i].email
                             /\ users'[e].status = "none" /\ ~users'[e].verified
    BY <1>16, <2>1 DEF GoogleUpsert, InsertUser, BareRow, NoRow
  <2> QED
    BY <2>1, <2>2, <2>3
<1>17. CASE UNCHANGED vars
  BY <1>17 DEF vars
<1>18. CASE Act
  BY <1>1, <1>2, <1>3, <1>4, <1>5, <1>6, <1>7, <1>8, <1>9, <1>10, <1>11, <1>12,
     <1>13, <1>14, <1>15, <1>16, <1>18, AnsweredBoolean DEF Act, Arrive, Step
<1> QED
  BY <1>17, <1>18 DEF Next

\* However many reviewers, removals and sign-ups race, with lookups and writes
\* that may fail, the approval stamp is present exactly on approved rows.
THEOREM StampAgrees == Spec => []VerifiedIffApproved
<1>1. Spec => [](TypeOK /\ ReviewInv)
  BY ReviewInvInit, ReviewInvStep, TypeCorrect, PTL DEF Spec
<1>2. ReviewInv => VerifiedIffApproved
  BY DEF ReviewInv
<1> QED
  BY <1>1, <1>2, PTL
-----------------------------------------------------------------------------
(* The refinement of AccountLifecycle.                                       *)

\* The status column of the whole table, the abstract variable.
StatusColumn == [e \in Emails |-> users[e].status]

LEMMA LifecycleInit == Init => Lifecycle!Init
  BY DEF Init, Lifecycle!Init, NoRow, BareRow

LEMMA SameStatus ==
  ASSUME \A e \in Emails : users'[e].status = users[e].status
  PROVE  UNCHANGED StatusColumn
  BY DEF StatusColumn

LEMMA LifecycleStep ==
  TypeOK /\ ReviewInv /\ [Next]_vars => [Lifecycle!Next]_StatusColumn
<1> SUFFICES ASSUME TypeOK, ReviewInv, [Next]_vars
             PROVE  Lifecycle!Next \/ UNCHANGED StatusColumn
  OBVIOUS
<1> USE DEF TypeOK
<1>1. CASE UNCHANGED users
  BY <1>1, SameStatus
<1>2. ASSUME NEW i \in Instances, SignupInsert(i), ~UNCHANGED users
      PROVE  Lifecycle!Next
  <2>0. PICK e \in Emails : e = loop[i].email
    BY <1>2 DEF SignupInsert, Request, Idle, Raised, At
  <2>1. loop[i] \in Request /\ InsertUser(e, loop[i].row) /\ loop[i].row.status = "pending"
    BY <1>2, <2>0 DEF SignupInsert, Request, Idle, Raised, ReviewInv, At
  <2>2. users[e].status = "absent" /\ users' = [users EXCEPT ![e] = [loop[i].row EXCEPT !.id = nextId]]
    BY <2>1 DEF InsertUser, Exists
  <2>3. e \in Emails /\ loop[i].row \in Row
    BY <2>1 DEF Request
  <2>4. StatusColumn' = [StatusColumn EXCEPT ![e] = "pending"]
    BY <2>1, <2>2, <2>3 DEF StatusColumn, Row
  <2>5. Lifecycle!SignUp(e)
    BY <2>2, <2>3, <2>4 DEF Lifecycle!SignUp, StatusColumn
  <2> QED
    BY <2>3, <2>5 DEF Lifecycle!Next
<1>3. ASSUME NEW i \in Instances, ReviewPromote(i)
      PROVE  UNCHANGED StatusColumn
  <2>1. \A e \in Emails : users'[e].status = users[e].status
    BY <1>3 DEF ReviewPromote, WriteGithub, Row
  <2> QED
    BY <2>1, SameStatus
<1>4. ASSUME NEW i \in Instances, ReviewDecide(i), ~UNCHANGED users
      PROVE  Lifecycle!Next
  <2>1. PICK e \in Emails \ Staff, d \in Decisions : e = loop[i].email /\ d = loop[i].target
    BY <1>4 DEF ReviewDecide, Request, Idle, Raised, ReviewInv, At
  <2>2. users[e].status # "absent"
    BY <1>4, <2>1 DEF ReviewDecide, Exists
  <2>3. WriteOnboarding(e, loop[i].row, d)
    BY <1>4, <2>1 DEF WriteOnboarding, ReviewDecide
  <2>4. StatusColumn' = [StatusColumn EXCEPT ![e] = d]
    BY <2>1, <2>3 DEF WriteOnboarding, StatusColumn, Row
  <2>5. Lifecycle!Decide(e, d)
    BY <2>1, <2>2, <2>4 DEF Lifecycle!Decide, StatusColumn
  <2> QED
    BY <2>1, <2>5 DEF Lifecycle!Next, Lifecycle!Decisions
<1>5. ASSUME NEW i \in Instances, NEW e \in Emails, NEW h \in Handles, LinkGithub(i, e, h)
      PROVE  UNCHANGED StatusColumn
  <2>1. \A o \in Emails : users'[o].status = users[o].status
    BY <1>5 DEF LinkGithub, WriteGithub, Row
  <2> QED
    BY <2>1, SameStatus
<1>6. ASSUME NEW i \in Instances, LinkProfile(i)
      PROVE  UNCHANGED StatusColumn
  <2>1. \A o \in Emails : users'[o].status = users[o].status
    BY <1>6 DEF LinkProfile, WriteLinked, Row
  <2> QED
    BY <2>1, SameStatus
<1>7. ASSUME NEW i \in Instances, RemoveDelete(i), ~UNCHANGED users
      PROVE  Lifecycle!Next
  <2>1. PICK e \in Emails \ Staff : e = loop[i].email
    BY <1>7 DEF RemoveDelete, Request, Idle, Raised, ReviewInv, At
  <2>2. users[e].status # "absent"
    BY <1>7, <2>1 DEF RemoveDelete, Exists
  <2>3. users' = [users EXCEPT ![e] = NoRow]
    BY <1>7, <2>1 DEF RemoveDelete, DeleteUser
  <2>4. StatusColumn' = [StatusColumn EXCEPT ![e] = "absent"]
    BY <2>1, <2>3 DEF StatusColumn, NoRow
  <2>5. Lifecycle!Remove(e)
    BY <2>2, <2>1, <2>4 DEF Lifecycle!Remove, StatusColumn
  <2> QED
    BY <2>1, <2>5 DEF Lifecycle!Next
<1>8. ASSUME NEW i \in Instances, GoogleUpsert(i), ~UNCHANGED users
      PROVE  Lifecycle!Next
  <2>1. PICK e \in Emails : e = loop[i].email
    BY <1>8 DEF GoogleUpsert, Request, Idle, Raised, At
  <2>2. users[e].status = "absent" /\ users' = [users EXCEPT ![e] = [BareRow EXCEPT !.id = nextId]]
    BY <1>8, <2>1 DEF GoogleUpsert, InsertUser, Exists
  <2>3. StatusColumn' = [StatusColumn EXCEPT ![e] = "none"]
    BY <2>2 DEF StatusColumn, BareRow, NoRow
  <2>4. Lifecycle!Reappear(e)
    BY <2>2, <2>3 DEF Lifecycle!Reappear, StatusColumn
  <2> QED
    BY <2>4 DEF Lifecycle!Next
<1> QED
  BY <1>1, <1>2, <1>3, <1>4, <1>5, <1>6, <1>7, <1>8
     DEF Next, Act, Arrive, Step, vars, SignupCheck, ReviewRead, StartSync, LoginSync,
         FinishSync, RemoveRead, RemoveClear, EditRaises, GoogleRead

\* Whatever interleaves, the status of an account only ever follows the life
\* cycle: created pending by a sign-up, decided only while a row exists, removed,
\* and back without a sign-up only as a bare row of a late sign-in; a review that
\* loses the race with a removal does not bring the row back.
THEOREM ImplementsLifecycle == Spec => LifecycleSpec
<1>1. Spec => [](TypeOK /\ ReviewInv)
  BY ReviewInvInit, ReviewInvStep, TypeCorrect, PTL DEF Spec
<1>2. TypeOK /\ ReviewInv /\ [Next]_vars => [Lifecycle!Next]_[e \in Emails |-> users[e].status]
  BY LifecycleStep DEF StatusColumn
<1> QED
  BY <1>1, <1>2, LifecycleInit, PTL DEF Spec, LifecycleSpec, Lifecycle!Spec
-----------------------------------------------------------------------------
(* The roll numbers, for any number of instances: a handler that is not behind *)
(* still acts on what the table holds.                                       *)

\* What handler i read of the roll numbers is still so.
ReadingHolds(i) ==
  i \notin behind =>
    /\ At(i, "insert") => ~PrnTaken(loop[i].row.prn, loop[i].email)
    /\ loop[i].pc \in {"promote", "decide"} => loop[i].row.prn = users[loop[i].email].prn

\* Exactly the rows that carry a record have a roll number, a row of a student
\* has an id, and a record about to be written has a roll number.
RecordsNumbered ==
  /\ \A e \in Emails : users[e].prn \in Prns <=> users[e].status \in Decisions
  /\ \A e \in Emails : users[e].status = "absent" => users[e].id = 0
  /\ \A e \in Emails \ Staff : users[e].status # "absent" => users[e].id > 0
  /\ \A i \in Instances : loop[i].pc \in {"insert", "promote", "decide"}
                            => loop[i].row.prn \in Prns

PrnInv == RecordsNumbered /\ \A i \in Instances : ReadingHolds(i)

LEMMA PrnInvInit == Init => PrnInv
  BY OnboardingAssumption
     DEF Init, PrnInv, RecordsNumbered, ReadingHolds, BareRow, NoRow, At, Idle

\* What a step does to the rows, given the invariants.
RowStep ==
  /\ \A e \in Emails : users'[e].id = users[e].id =>
        \/ users'[e].prn = users[e].prn
        \/ \E i \in behind : At(i, "decide") /\ loop[i].email = e
  /\ ~PrnClash /\ PrnClash' =>
        \/ \E e \in Emails : users[e].status = "rejected" /\ Active(users'[e])
        \/ \E i \in behind : loop[i].pc \in {"insert", "decide"} /\ loop'[i] # loop[i]

\* A step that leaves status, id and roll number of every row alone.
SameRows == \A e \in Emails : /\ users'[e].status = users[e].status
                              /\ users'[e].id = users[e].id
                              /\ users'[e].prn = users[e].prn

LEMMA SameRowsStep == SameRows => RowStep
  BY DEF SameRows, RowStep, PrnClash, Active

\* A handler that stands still either falls behind or reads what it read.
LEMMA StandsStill ==
  ASSUME NEW i \in Instances, ReadingHolds(i), Watch, loop'[i] = loop[i]
  PROVE  ReadingHolds(i)'
<1> SUFFICES ASSUME i \notin behind' PROVE ReadingHolds(i)'
  BY DEF ReadingHolds
<1>1. ~FallsBehind(i) /\ (loop[i].pc \in {"insert", "promote", "decide"} => i \notin behind)
  BY DEF Watch
<1>2. CASE loop[i].pc = "insert"
  <2>1. ~(PrnTaken(loop[i].row.prn, loop[i].email)')
    BY <1>1, <1>2 DEF FallsBehind, ReadingHolds, At
  <2>2. ~(PrnTaken(loop[i].row.prn, loop[i].email))'
    BY <2>1
  <2> QED
    BY <1>2, <2>2 DEF ReadingHolds, At
<1>3. CASE loop[i].pc \in {"promote", "decide"}
  <2>1. users'[loop[i].email].prn = users[loop[i].email].prn
    BY <1>1, <1>3 DEF FallsBehind
  <2> QED
    BY <1>1, <1>3, <2>1 DEF ReadingHolds, At
<1> QED
  BY <1>2, <1>3 DEF ReadingHolds, At

\* A step in which only handler i moves, to a statement that reads no roll number.
LEMMA OthersStand ==
  ASSUME PrnInv, Watch, NEW i \in Instances,
         \A j \in Instances \ {i} : loop'[j] = loop[j],
         ReadingHolds(i)'
  PROVE  \A j \in Instances : ReadingHolds(j)'
BY StandsStill DEF PrnInv

LEMMA NothingRead ==
  ASSUME NEW i \in Instances, loop'[i].pc \notin {"insert", "promote", "decide"}
  PROVE  ReadingHolds(i)'
BY DEF ReadingHolds, At

\* Rows and copies keep their numbers when neither is written.
LEMMA SameNumbers ==
  ASSUME PrnInv, SameRows,
         \A j \in Instances : \/ loop'[j].pc \notin {"insert", "promote", "decide"}
                              \/ loop'[j].row.prn \in Prns
  PROVE  RecordsNumbered'
BY DEF PrnInv, RecordsNumbered, SameRows

LEMMA PrnInvStep == TypeOK /\ ReviewInv /\ PrnInv /\ Next => PrnInv' /\ RowStep
<1> SUFFICES ASSUME TypeOK, ReviewInv, PrnInv, Act, Watch PROVE PrnInv' /\ RowStep
  BY DEF Next
<1>1. ASSUME NEW i \in Instances, NEW e \in Emails, NEW p \in Prns, NEW h \in Handles,
             NEW ok \in BOOLEAN, SignupCheck(i, e, p, h, ok)
      PROVE  PrnInv' /\ RowStep
  <2>1. UNCHANGED users /\ SameRows
    BY <1>1 DEF SignupCheck, SameRows
  <2>2. \A j \in Instances \ {i} : loop'[j] = loop[j]
    BY <1>1 DEF SignupCheck, Raise, TypeOK
  <2>3. CASE loop' = [loop EXCEPT ![i] = Raised]
    <3>1. loop'[i].pc = "raised"
      BY <2>3 DEF Raised, TypeOK
    <3>2. ReadingHolds(i)'
      BY <3>1, NothingRead
    <3>3. RecordsNumbered'
      BY <2>1, <2>2, <3>1, SameNumbers DEF PrnInv, RecordsNumbered
    <3> QED
      BY <2>1, <2>2, <3>2, <3>3, OthersStand, SameRowsStep DEF PrnInv
  <2>4. CASE /\ PrnLookup(p, e, ok) = "free"
             /\ loop' = [loop EXCEPT ![i] = [Hold("insert", e, NewRow(p, h), "pending") EXCEPT !.blind = ~ok]]
    <3>1. /\ loop'[i].pc = "insert" /\ loop'[i].row.prn = p /\ loop'[i].email = e
          /\ loop'[i].blind = ~ok
      BY <2>4 DEF Hold, NewRow, TypeOK
    <3>2. loop[i].pc # "insert"
      BY <1>1 DEF SignupCheck, Free
    <3>3. i \notin behind' => ok
      BY <3>1, <3>2 DEF Watch, FallsBehind, At
    <3>4. i \notin behind' => ~PrnTaken(p, e)
      BY <2>4, <3>3 DEF PrnLookup
    <3>5. i \notin behind' => ~PrnTaken(p, e)'
      BY <3>4, <2>1 DEF PrnTaken, Active
    <3>6. ReadingHolds(i)'
      BY <3>1, <3>5 DEF ReadingHolds, At, PrnTaken
    <3>7. RecordsNumbered'
      BY <2>1, <2>2, <3>1, SameNumbers DEF PrnInv, RecordsNumbered
    <3> QED
      BY <2>1, <2>2, <3>6, <3>7, OthersStand, SameRowsStep DEF PrnInv
  <2> QED
    BY <1>1, <2>3, <2>4 DEF SignupCheck, Raise
<1>2. ASSUME NEW i \in Instances, SignupInsert(i) PROVE PrnInv' /\ RowStep
  <2>1. loop[i] \in Request /\ loop[i].pc = "insert"
    BY <1>2 DEF SignupInsert, Request, Idle, Raised, TypeOK, At
  <2>2. loop'[i].pc = "idle" /\ \A j \in Instances \ {i} : loop'[j] = loop[j]
    BY <1>2 DEF SignupInsert, Done, Idle, TypeOK
  <2>3. \A j \in Instances : ReadingHolds(j)'
    BY <2>2, NothingRead, OthersStand
  <2>4. CASE UNCHANGED users
    <3>1. SameRows
      BY <2>4 DEF SameRows
    <3> QED
      BY <2>2, <2>3, <3>1, SameNumbers, SameRowsStep DEF PrnInv, RecordsNumbered
  <2>5. CASE InsertUser(loop[i].email, loop[i].row)
    <3>1. PICK e \in Emails, r \in Row : e = loop[i].email /\ r = loop[i].row
      BY <2>1 DEF Request
    <3>2. /\ users[e].status = "absent" /\ users[e].id = 0
          /\ users' = [users EXCEPT ![e] = [r EXCEPT !.id = nextId]]
          /\ r.status = "pending" /\ r.prn \in Prns
          /\ i \notin behind => ~PrnTaken(r.prn, e)
      BY <1>2, <2>5, <3>1 DEF InsertUser, Exists, SignupInsert, ReviewInv, PrnInv,
                              RecordsNumbered, ReadingHolds, At
    <3>3. /\ users'[e].id = nextId /\ users'[e].prn = r.prn /\ users'[e].status = "pending"
          /\ \A o \in Emails \ {e} : users'[o] = users[o]
      BY <3>1, <3>2 DEF TypeOK, Row
    <3>4. nextId > 0
      BY DEF TypeOK
    <3>5. RecordsNumbered'
      BY <2>2, <3>2, <3>3, <3>4 DEF PrnInv, RecordsNumbered
    <3>6. PrnClash' /\ i \notin behind => PrnClash
      BY <3>2, <3>3 DEF PrnClash, PrnTaken, Active
    <3>7. RowStep
      BY <2>1, <2>2, <3>2, <3>3, <3>4, <3>6 DEF RowStep
    <3> QED
      BY <2>3, <3>5, <3>7 DEF PrnInv
  <2> QED
    BY <1>2, <2>4, <2>5 DEF SignupInsert
<1>3. ASSUME NEW i \in Instances, NEW e \in Emails, NEW d \in Decisions, ReviewRead(i, e, d)
      PROVE  PrnInv' /\ RowStep
  <2>1. UNCHANGED users /\ SameRows
    BY <1>3 DEF ReviewRead, SameRows
  <2>2. /\ loop'[i].pc \in {"promote", "decide"} /\ loop'[i].email = e /\ loop'[i].row = users[e]
        /\ \A j \in Instances \ {i} : loop'[j] = loop[j]
    BY <1>3 DEF ReviewRead, Hold, TypeOK
  <2>3. ReadingHolds(i)'
    BY <2>1, <2>2 DEF ReadingHolds, At
  <2>4. users[e].prn \in Prns
    BY <1>3 DEF ReviewRead, PrnInv, RecordsNumbered
  <2>5. RecordsNumbered'
    BY <2>1, <2>2, <2>4, SameNumbers DEF PrnInv, RecordsNumbered
  <2> QED
    BY <2>1, <2>2, <2>3, <2>5, OthersStand, SameRowsStep DEF PrnInv
<1>4. ASSUME NEW i \in Instances, ReviewPromote(i) PROVE PrnInv' /\ RowStep
  <2>1. loop[i] \in Request /\ loop[i].pc = "promote"
    BY <1>4 DEF ReviewPromote, Request, Idle, Raised, TypeOK, At
  <2>2. SameRows
    BY <1>4, <2>1 DEF ReviewPromote, WriteGithub, TypeOK, Row, SameRows
  <2>3. \A j \in Instances \ {i} : loop'[j] = loop[j]
    BY <1>4 DEF ReviewPromote, Goto, Done, TypeOK
  <2>4. \/ loop'[i].pc = "idle"
        \/ loop'[i].pc = "decide" /\ loop'[i].email = loop[i].email /\ loop'[i].row = loop[i].row
    BY <1>4, <2>1 DEF ReviewPromote, Goto, Done, Idle, TypeOK, Request
  <2>5. ReadingHolds(i)'
    <3>1. CASE loop'[i].pc = "idle"
      BY <3>1, NothingRead
    <3>2. CASE loop'[i].pc = "decide" /\ loop'[i].email = loop[i].email /\ loop'[i].row = loop[i].row
      <4>1. i \notin behind' => i \notin behind
        BY <3>2 DEF Watch
      <4>2. i \notin behind => loop[i].row.prn = users[loop[i].email].prn
        BY <2>1 DEF PrnInv, ReadingHolds
      <4>3. users'[loop[i].email].prn = users[loop[i].email].prn
        BY <2>1, <2>2 DEF SameRows, Request
      <4> QED
        BY <3>2, <4>1, <4>2, <4>3 DEF ReadingHolds, At
    <3> QED
      BY <2>4, <3>1, <3>2
  <2>6. RecordsNumbered'
    BY <2>1, <2>2, <2>3, <2>4, SameNumbers DEF PrnInv, RecordsNumbered
  <2> QED
    BY <2>2, <2>3, <2>5, <2>6, OthersStand, SameRowsStep DEF PrnInv
<1>5. ASSUME NEW i \in Instances, ReviewDecide(i) PROVE PrnInv' /\ RowStep
  <2>1. loop[i] \in Request /\ loop[i].pc = "decide" /\ loop[i].row.prn \in Prns
    BY <1>5 DEF ReviewDecide, Request, Idle, Raised, TypeOK, At, PrnInv, RecordsNumbered
  <2>2. loop'[i].pc \in {"sync", "idle"} /\ \A j \in Instances \ {i} : loop'[j] = loop[j]
    BY <1>5, <2>1 DEF ReviewDecide, Goto, Done, Idle, TypeOK, Request
  <2>3. \A j \in Instances : ReadingHolds(j)'
    BY <2>2, NothingRead, OthersStand
  <2>4. CASE UNCHANGED users
    <3>1. SameRows
      BY <2>4 DEF SameRows
    <3> QED
      BY <2>2, <2>3, <3>1, SameNumbers, SameRowsStep DEF PrnInv, RecordsNumbered
  <2>5. CASE Exists(loop[i].email) /\ WriteOnboarding(loop[i].email, loop[i].row, loop[i].target)
    <3>1. PICK e \in Emails, d \in Decisions : e = loop[i].email /\ d = loop[i].target
      BY <2>1 DEF Request
    <3>2. /\ users'[e].id = users[e].id /\ users'[e].status = d
          /\ users'[e].prn = loop[i].row.prn
          /\ \A o \in Emails \ {e} : users'[o] = users[o]
      BY <2>5, <3>1 DEF WriteOnboarding, TypeOK, Row
    <3>3. users[e].status # "absent"
      BY <2>5, <3>1 DEF Exists
    <3>4. RecordsNumbered'
      BY <2>1, <2>2, <3>2, <3>3 DEF PrnInv, RecordsNumbered
    <3>5. i \notin behind => loop[i].row.prn = users[e].prn
      BY <2>1, <3>1 DEF PrnInv, ReadingHolds
    <3>6. i \notin behind => users[e].status \in Decisions
      BY <2>1, <3>5 DEF PrnInv, RecordsNumbered
    <3>7. i \notin behind /\ ~PrnClash /\ PrnClash' => users[e].status = "rejected" /\ Active(users'[e])
      BY <3>2, <3>5, <3>6 DEF PrnClash, Active
    <3>8. RowStep
      BY <2>1, <2>2, <3>1, <3>2, <3>5, <3>7 DEF RowStep, At
    <3> QED
      BY <2>3, <3>4, <3>8 DEF PrnInv
  <2> QED
    BY <1>5, <2>4, <2>5 DEF ReviewDecide
<1>6. ASSUME NEW i \in Instances,
             \/ LinkProfile(i) \/ StartSync(i) \/ RemoveClear(i)
             \/ \E e \in Emails : \/ RemoveRead(i, e) \/ GoogleRead(i, e)
                                  \/ \E h \in Handles : LinkGithub(i, e, h)
                                  \/ \E p \in Prns, ok \in BOOLEAN : EditRaises(i, e, p, ok)
      PROVE  PrnInv' /\ RowStep
  <2>1. SameRows
    <3>1. CASE LinkProfile(i)
      <4>1. loop[i] \in Request
        BY <3>1 DEF LinkProfile, Request, Idle, Raised, TypeOK, At
      <4> QED
        BY <3>1, <4>1 DEF LinkProfile, WriteLinked, TypeOK, Row, SameRows
    <3>2. ASSUME NEW e \in Emails, NEW h \in Handles, LinkGithub(i, e, h) PROVE SameRows
      BY <3>2 DEF LinkGithub, WriteGithub, TypeOK, Row, SameRows
    <3> QED
      BY <1>6, <3>1, <3>2 DEF StartSync, RemoveClear, RemoveRead, GoogleRead, EditRaises, SameRows
  <2>2. \A j \in Instances \ {i} : loop'[j] = loop[j]
    BY <1>6 DEF LinkProfile, StartSync, RemoveClear, RemoveRead, GoogleRead, LinkGithub,
                EditRaises, Goto, Done, Raise, TypeOK
  <2>3. loop'[i].pc \notin {"insert", "promote", "decide"}
    <3>1. CASE LinkProfile(i)
      <4>1. loop[i] \in Request
        BY <3>1 DEF LinkProfile, Request, Idle, Raised, TypeOK, At
      <4> QED
        BY <3>1, <4>1 DEF LinkProfile, Goto, TypeOK, Request
    <3> QED
      BY <1>6, <3>1 DEF StartSync, RemoveClear, RemoveRead, GoogleRead, LinkGithub, EditRaises,
                        Hold, Done, Raise, Idle, Raised, TypeOK
  <2>4. ReadingHolds(i)'
    BY <2>3, NothingRead
  <2>5. RecordsNumbered'
    BY <2>1, <2>2, <2>3, SameNumbers DEF PrnInv, RecordsNumbered
  <2> QED
    BY <2>1, <2>2, <2>4, <2>5, OthersStand, SameRowsStep DEF PrnInv
<1>7. ASSUME NEW i \in Instances, GoogleUpsert(i) PROVE PrnInv' /\ RowStep
  <2>1. loop[i] \in Request /\ loop[i].pc = "upsert"
    BY <1>7 DEF GoogleUpsert, Request, Idle, Raised, TypeOK, At
  <2>2. loop'[i].pc = "sync" /\ \A j \in Instances \ {i} : loop'[j] = loop[j]
    BY <1>7, <2>1 DEF GoogleUpsert, Goto, TypeOK, Request
  <2>3. \A j \in Instances : ReadingHolds(j)'
    BY <2>2, NothingRead, OthersStand
  <2>4. CASE UNCHANGED users
    <3>1. SameRows
      BY <2>4 DEF SameRows
    <3> QED
      BY <2>2, <2>3, <3>1, SameNumbers, SameRowsStep DEF PrnInv, RecordsNumbered
  <2>5. CASE InsertUser(loop[i].email, BareRow)
    <3>1. PICK e \in Emails : e = loop[i].email
      BY <2>1 DEF Request
    <3>2. /\ users[e].status = "absent" /\ users[e].id = 0
          /\ users' = [users EXCEPT ![e] = [BareRow EXCEPT !.id = nextId]]
      BY <2>5, <3>1 DEF InsertUser, Exists, PrnInv, RecordsNumbered
    <3>3. /\ users'[e].id = nextId /\ users'[e].prn = NoPrn /\ users'[e].status = "none"
          /\ \A o \in Emails \ {e} : users'[o] = users[o]
      BY <3>2 DEF TypeOK, BareRow, NoRow
    <3>4. nextId > 0
      BY DEF TypeOK
    <3>5. RecordsNumbered'
      BY <2>2, <3>2, <3>3, <3>4, OnboardingAssumption DEF PrnInv, RecordsNumbered
    <3>6. PrnClash' => PrnClash
      BY <3>3 DEF PrnClash, Active
    <3>7. RowStep
      BY <3>2, <3>3, <3>4, <3>6 DEF RowStep
    <3> QED
      BY <2>3, <3>5, <3>7 DEF PrnInv
  <2> QED
    BY <1>7, <2>4, <2>5 DEF GoogleUpsert
<1>8. ASSUME NEW i \in Instances, RemoveDelete(i) PROVE PrnInv' /\ RowStep
  <2>1. loop[i] \in Request /\ loop[i].email \notin Staff
    BY <1>8 DEF RemoveDelete, Request, Idle, Raised, TypeOK, At, ReviewInv
  <2>2. loop'[i].pc \in {"clear", "idle"} /\ \A j \in Instances \ {i} : loop'[j] = loop[j]
    BY <1>8, <2>1 DEF RemoveDelete, Goto, Done, Idle, TypeOK, Request
  <2>3. \A j \in Instances : ReadingHolds(j)'
    BY <2>2, NothingRead, OthersStand
  <2>4. CASE UNCHANGED users
    <3>1. SameRows
      BY <2>4 DEF SameRows
    <3> QED
      BY <2>2, <2>3, <3>1, SameNumbers, SameRowsStep DEF PrnInv, RecordsNumbered
  <2>5. CASE Exists(loop[i].email) /\ DeleteUser(loop[i].email)
    <3>1. PICK e \in Emails \ Staff : e = loop[i].email
      BY <2>1 DEF Request
    <3>2. users[e].id > 0
      BY <2>5, <3>1 DEF Exists, PrnInv, RecordsNumbered
    <3>3. users'[e] = NoRow /\ \A o \in Emails \ {e} : users'[o] = users[o]
      BY <2>5, <3>1 DEF DeleteUser, TypeOK
    <3>4. RecordsNumbered'
      BY <2>2, <3>3, OnboardingAssumption DEF PrnInv, RecordsNumbered, NoRow
    <3>5. PrnClash' => PrnClash
      BY <3>3 DEF PrnClash, Active, NoRow
    <3>6. RowStep
      BY <3>2, <3>3, <3>5 DEF RowStep, NoRow
    <3> QED
      BY <2>3, <3>4, <3>6 DEF PrnInv
  <2> QED
    BY <1>8, <2>4, <2>5 DEF RemoveDelete
<1>9. CASE UNCHANGED <<users, loop>>
  <2>1. SameRows
    BY <1>9 DEF SameRows
  <2>2. \A j \in Instances : ReadingHolds(j)'
    BY <1>9, StandsStill DEF PrnInv
  <2>3. RecordsNumbered'
    BY <1>9 DEF PrnInv, RecordsNumbered
  <2> QED
    BY <2>1, <2>2, <2>3, SameRowsStep DEF PrnInv
<1> QED
  BY <1>1, <1>2, <1>3, <1>4, <1>5, <1>6, <1>7, <1>8, <1>9
     DEF Act, Arrive, Step, LoginSync, FinishSync, Answered

LEMMA PrnHolds == Spec => [](TypeOK /\ ReviewInv /\ PrnInv)
<1>1. PrnInv /\ UNCHANGED vars => PrnInv'
  BY DEF PrnInv, RecordsNumbered, ReadingHolds, At, PrnTaken, Active, vars
<1>2. TypeOK /\ ReviewInv /\ PrnInv /\ [Next]_vars => PrnInv'
  BY <1>1, PrnInvStep
<1>3. Spec => [](TypeOK /\ ReviewInv)
  BY ReviewInvInit, ReviewInvStep, TypeCorrect, PTL DEF Spec
<1> QED
  BY <1>2, <1>3, PrnInvInit, PTL DEF Spec

\* However many instances there are and whichever lookups fail, the roll number
\* of a stored row changes only by a review that another handler overtook.
THEOREM PrnChanges == Spec => PrnChangeExplained
<1>1. TypeOK /\ ReviewInv /\ PrnInv /\ [Next]_vars
        => [\A e \in Emails : users'[e].id = users[e].id =>
              \/ users'[e].prn = users[e].prn
              \/ \E i \in behind : At(i, "decide") /\ loop[i].email = e]_vars
  BY PrnInvStep DEF RowStep
<1> QED
  BY <1>1, PrnHolds, PTL DEF Spec, PrnChangeExplained

\* However many instances there are, two active records come to share a roll
\* number only when a rejected record is taken back, or by a sign-up or review
\* whose lookup failed or which another handler overtook.
THEOREM ClashExplained == Spec => PrnClashExplained
<1>1. TypeOK /\ ReviewInv /\ PrnInv /\ [Next]_vars
        => [(~PrnClash /\ PrnClash') =>
              \/ \E e \in Emails : users[e].status = "rejected" /\ Active(users'[e])
              \/ \E i \in behind : loop[i].pc \in {"insert", "decide"} /\ loop'[i] # loop[i]]_vars
  BY PrnInvStep DEF RowStep
<1> QED
  BY <1>1, PrnHolds, PTL DEF Spec, PrnClashExplained
-----------------------------------------------------------------------------
(* A snapshot without an account: who can leave one behind.                  *)

\* What the property lets leave the snapshot of e behind.
Excused(e) == \/ \E j \in jobs \ jobs' : j.email = e
              \/ \E i \in Instances : At(i, "clear") /\ loop[i].email = e

\* A step that keeps the account, the snapshot and whoever is about to clear it
\* makes no orphan.
LEMMA NoNewOrphan ==
  ASSUME NEW e \in Emails, Exists(e) => Exists(e)', snaps'[e] = snaps[e],
         \A i \in Instances : loop[i].pc = "clear" => loop'[i] = loop[i]
  PROVE  Orphan(e)' => Orphan(e)
BY DEF Orphan, At

\* Only a removal takes a row away, and only a finished sync or a clearing
\* touches the snapshots; nobody takes over an instance that is about to clear.
LEMMA OrphanStep ==
  ASSUME TypeOK, ReviewInv, [Next]_vars, NEW e \in Emails, ~Orphan(e), Orphan(e)'
  PROVE  Excused(e)
<1> SUFFICES ASSUME ~Excused(e) PROVE FALSE
  OBVIOUS
<1>1. ASSUME NEW i \in Instances, NEW o \in Emails,
             \/ \E p \in Prns, h \in Handles, ok \in BOOLEAN : SignupCheck(i, o, p, h, ok)
             \/ \E d \in Decisions : ReviewRead(i, o, d)
             \/ GoogleRead(i, o) \/ RemoveRead(i, o)
             \/ \E p \in Prns, ok \in BOOLEAN : EditRaises(i, o, p, ok)
      PROVE  FALSE
  <2>1. UNCHANGED <<users, snaps>>
    BY <1>1 DEF SignupCheck, ReviewRead, GoogleRead, RemoveRead, EditRaises
  <2>2. \A j \in Instances : loop[j].pc = "clear" => loop'[j] = loop[j]
    BY <1>1 DEF SignupCheck, ReviewRead, GoogleRead, RemoveRead, EditRaises, Free, Raise, TypeOK
  <2> QED
    BY <2>1, <2>2, NoNewOrphan DEF Exists
<1>2. ASSUME NEW i \in Instances, SignupInsert(i) PROVE FALSE
  <2>1. loop[i] \in Request /\ loop[i].row.status = "pending"
    BY <1>2 DEF SignupInsert, Request, Idle, Raised, TypeOK, At, ReviewInv
  <2>2. Exists(e) => Exists(e)'
    BY <1>2, <2>1 DEF SignupInsert, InsertUser, Exists, TypeOK, Request, Row
  <2>3. \A j \in Instances : loop[j].pc = "clear" => loop'[j] = loop[j]
    BY <1>2 DEF SignupInsert, Done, At, TypeOK
  <2> QED
    BY <1>2, <2>2, <2>3, NoNewOrphan DEF SignupInsert
<1>3. ASSUME NEW i \in Instances, ReviewPromote(i) \/ LinkProfile(i) PROVE FALSE
  <2>1. users'[e].status = users[e].status
    BY <1>3 DEF ReviewPromote, LinkProfile, WriteGithub, WriteLinked, TypeOK, Row
  <2>2. \A j \in Instances : loop[j].pc = "clear" => loop'[j] = loop[j]
    BY <1>3 DEF ReviewPromote, LinkProfile, Goto, Done, At, TypeOK
  <2> QED
    BY <1>3, <2>1, <2>2, NoNewOrphan DEF ReviewPromote, LinkProfile, Exists
<1>4. ASSUME NEW i \in Instances, ReviewDecide(i) PROVE FALSE
  <2>1. loop[i] \in Request
    BY <1>4 DEF ReviewDecide, Request, Idle, Raised, TypeOK, At
  <2>2. Exists(e) => Exists(e)'
    <3>1. ASSUME WriteOnboarding(loop[i].email, loop[i].row, loop[i].target)
          PROVE  users'[e].status \in {users[e].status, loop[i].target}
      BY <2>1, <3>1 DEF WriteOnboarding, TypeOK, Row
    <3> QED
      BY <1>4, <2>1, <3>1 DEF ReviewDecide, Exists, Request
  <2>3. \A j \in Instances : loop[j].pc = "clear" => loop'[j] = loop[j]
    BY <1>4 DEF ReviewDecide, Goto, Done, At, TypeOK
  <2> QED
    BY <1>4, <2>2, <2>3, NoNewOrphan DEF ReviewDecide
<1>5. ASSUME NEW i \in Instances, NEW o \in Emails, NEW h \in Handles, LinkGithub(i, o, h) PROVE FALSE
  <2>1. users'[e].status = users[e].status
    BY <1>5 DEF LinkGithub, WriteGithub, TypeOK, Row
  <2>2. \A j \in Instances : loop[j].pc = "clear" => loop'[j] = loop[j]
    BY <1>5 DEF LinkGithub, Free, TypeOK
  <2> QED
    BY <1>5, <2>1, <2>2, NoNewOrphan DEF LinkGithub, Exists
<1>6. ASSUME NEW i \in Instances, StartSync(i) PROVE FALSE
  <2>1. \A j \in Instances : loop[j].pc = "clear" => loop'[j] = loop[j]
    BY <1>6 DEF StartSync, Done, At, TypeOK
  <2> QED
    BY <1>6, <2>1, NoNewOrphan DEF StartSync, Exists
<1>7. ASSUME NEW i \in Instances, RemoveDelete(i) PROVE FALSE
  <2>1. loop[i] \in Request /\ loop[i].pc = "delete"
    BY <1>7 DEF RemoveDelete, Request, Idle, Raised, TypeOK, At
  <2>2. \A j \in Instances : loop[j].pc = "clear" => loop'[j] = loop[j]
    BY <1>7 DEF RemoveDelete, Goto, Done, At, TypeOK
  <2>3. CASE UNCHANGED users
    BY <1>7, <2>2, <2>3, NoNewOrphan DEF RemoveDelete, Exists
  <2>4. CASE DeleteUser(loop[i].email) /\ Goto(i, "clear")
    <3>1. loop'[i].pc = "clear" /\ loop'[i].email = loop[i].email
      BY <2>1, <2>4 DEF Goto, TypeOK, Request
    <3>2. loop[i].email # e
      BY <3>1 DEF Orphan, At
    <3>3. users'[e] = users[e]
      BY <2>4, <3>2 DEF DeleteUser, TypeOK
    <3> QED
      BY <1>7, <2>2, <3>3, NoNewOrphan DEF RemoveDelete, Exists
  <2> QED
    BY <1>7, <2>3, <2>4 DEF RemoveDelete
<1>8. ASSUME NEW i \in Instances, RemoveClear(i) PROVE FALSE
  <2>1. loop[i].email # e
    BY <1>8 DEF RemoveClear, Excused
  <2>2. snaps'[e] = snaps[e]
    BY <1>8, <2>1 DEF RemoveClear, TypeOK
  <2>3. \A j \in Instances : j # i => loop'[j] = loop[j]
    BY <1>8 DEF RemoveClear, Done, TypeOK
  <2> QED
    BY <1>8, <2>1, <2>2, <2>3 DEF RemoveClear, Orphan, Exists, At
<1>9. ASSUME NEW j \in jobs, FinishSync(j) PROVE FALSE
  <2>1. j.email # e
    BY <1>9 DEF FinishSync, Excused
  <2>2. snaps'[e] = snaps[e]
    BY <1>9, <2>1 DEF FinishSync, TypeOK
  <2> QED
    BY <1>9, <2>2, NoNewOrphan DEF FinishSync, Exists
<1>10. ASSUME NEW i \in Instances, GoogleUpsert(i) PROVE FALSE
  <2>1. loop[i] \in Request
    BY <1>10 DEF GoogleUpsert, Request, Idle, Raised, TypeOK, At
  <2>2. Exists(e) => Exists(e)'
    BY <1>10, <2>1 DEF GoogleUpsert, InsertUser, Exists, TypeOK, Request, BareRow, NoRow
  <2>3. \A j \in Instances : loop[j].pc = "clear" => loop'[j] = loop[j]
    BY <1>10 DEF GoogleUpsert, Goto, At, TypeOK
  <2> QED
    BY <1>10, <2>2, <2>3, NoNewOrphan DEF GoogleUpsert
<1>11. CASE UNCHANGED <<users, snaps, loop>>
  BY <1>11, NoNewOrphan DEF Exists
<1> QED
  BY <1>1, <1>2, <1>3, <1>4, <1>5, <1>6, <1>7, <1>8, <1>9, <1>10, <1>11
     DEF Next, Act, Arrive, Step, vars, LoginSync, Answered

\* A removed account's snapshot outlives it only by a sync that was still running
\* or by a clearing that failed, for any number of instances.
THEOREM OrphansAreLate == Spec => OrphanOnlyByLateSync
<1>1. Spec => [](TypeOK /\ ReviewInv)
  BY ReviewInvInit, ReviewInvStep, TypeCorrect, PTL DEF Spec
<1>2. TypeOK /\ ReviewInv /\ [Next]_vars
        => [\A e \in Emails : (~Orphan(e) /\ Orphan(e)') =>
              \/ \E j \in jobs \ jobs' : j.email = e
              \/ \E i \in Instances : At(i, "clear") /\ loop[i].email = e]_vars
  BY OrphanStep DEF Excused
<1> QED
  BY <1>1, <1>2, PTL DEF Spec, OrphanOnlyByLateSync
=============================================================================
