---------------------------- MODULE AccessProofs ----------------------------
(* Who has an account, for any addresses, invites, keys and requests; and what *)
(* the maps of hidden students and repositories say, for any number of         *)
(* instances and entries.                                                      *)
EXTENDS Access, Maps, TLAPS

\* Where a request can be, by its kind.
InPlace(r) ==
  /\ req[r].kind = "mint" <=> req[r].pc \in {"try", "store"}
  /\ req[r].pc = "store" => req[r].on \in Numbers
  /\ req[r].kind = "setup" <=> req[r].pc \in {"create", "insert", "mark"}
  /\ req[r].kind \in {"google", "register"} <=> req[r].pc = "write"
  /\ req[r].kind # "mint" => req[r].on \in Addresses
  /\ req[r].kind = "register" => req[r].role \in Roles
  /\ req[r].kind = "google" => /\ req[r].on \in AdminEmails => req[r].role = "admin"
                               /\ req[r].on \in FacultyEmails \ AdminEmails => req[r].role = "faculty"
  /\ req[r].kind = "setup" <=> req[r].inv # NoRow
  /\ req[r].kind = "setup" => req[r].inv = EnvInvite \/ invite[req[r].inv] # NoRow

\* What a request that is not blind knows of the rows it is about to write.
FacultyKnown(r) == IF req[r].role = "faculty" THEN faculty[req[r].on] # NoRow
                   ELSE faculty[req[r].on] = NoRow /\ users[req[r].on] = req[r].role
RegisterKnown(r) == faculty[req[r].on] = NoRow \/ (req[r].role = "admin" /\ users[req[r].on] # NoRow)
RowsKnown(r) ==
  /\ req[r].kind = "setup" /\ req[r].pc = "insert" => users[req[r].on] = NoRow
  /\ req[r].kind = "google" => FacultyKnown(r)
  /\ req[r].kind = "register" => RegisterKnown(r)
NumbersKnown(r) == req[r].on \in Nat /\ \A n \in Numbers : n >= req[r].on => invite[n] = NoRow
Via(n) == {e \in Addresses : faculty[e] # NoRow /\ faculty[e].via = n}
Apart == misread \cup Named
Knows(r) == req[r] # Idle =>
  /\ InPlace(r)
  /\ ~req[r].blind => IF req[r].kind = "mint" THEN NumbersKnown(r) ELSE req[r].on \in Apart \/ RowsKnown(r)
  /\ req[r].pc \in {"create", "insert"} /\ ~req[r].blindInvite => req[r].inv \in slipped \/ Via(req[r].inv) = {}
AllKnow == \A r \in Requests : Knows(r)

\* An invite with an account is used, or somebody is about to mark it.
Consumed(n) == (invite[n] # NoRow /\ invite[n].used) \/ HalfWay(n)
InvitesClose == \A n \in Invites \ slipped : Via(n) # {} => Consumed(n)
KeysShown == \A s \in shown : invite[s[1]] # NoRow

IInv == /\ TypeOK /\ AllKnow /\ InvitesClose /\ KeysShown
        /\ OneTablePerAddress /\ OneAccountPerInvite /\ KeyStaysValid
-----------------------------------------------------------------------------
LEMMA Sorts ==
  /\ Numbers \subseteq Nat /\ EnvInvite \notin Numbers /\ Numbers \subseteq Addresses /\ Numbers \subseteq Invites
  /\ EnvInvite \in Invites /\ NoRow \notin Invites /\ NoRow \notin Addresses /\ NoRow \notin Invite
  /\ NoRow \notin FacultyRow /\ NoRow \notin Roles /\ NoRow # "faculty" => NoRow \notin Roles \cup {"faculty"}
  /\ Idle \notin Request
BY AccessAssumption, AccessSentinels DEF Numbers, EnvInvite, Addresses, Invites

\* A lookup finds the row or nothing, and the row if it answers.
LEMMA Lookups ==
  ASSUME NEW ok \in Answers
  PROVE  /\ ok \in BOOLEAN
         /\ \A e : UserRow(e, ok) \in {users[e], NoRow} /\ (ok => UserRow(e, ok) = users[e])
         /\ \A e : FacultyOf(e, ok) \in {faculty[e], NoRow} /\ (ok => FacultyOf(e, ok) = faculty[e])
         /\ \A n : InviteRow(n, ok) \in {invite[n], NoRow} /\ (ok => InviteRow(n, ok) = invite[n])
BY AccessAssumption DEF Answers, UserRow, FacultyOf, InviteRow

\* What a request keeps while another one steps.
Carried(q) ==
  /\ req'[q] = Idle <=> req[q] = Idle
  /\ req[q] # Idle =>
       /\ req'[q] \in Request
       /\ req'[q].kind = req[q].kind /\ req'[q].on = req[q].on /\ req'[q].inv = req[q].inv
       /\ req'[q].role = req[q].role /\ req'[q].pc = req[q].pc
       /\ req[q].blind => req'[q].blind
       /\ req[q].blindInvite => req'[q].blindInvite

LEMMA OvertakenBy ==
  ASSUME TypeOK, NEW r \in Requests, req[r] # Idle, NEW rest \in Request \cup {Idle},
         req' = Overtakes(r, rest)
  PROVE  /\ req' \in [Requests -> Request \cup {Idle}] /\ req'[r] = rest
         /\ \A q \in Requests \ {r} :
              /\ Carried(q)
              /\ req[q] # Idle /\ SameAddress(q, r) => req'[q].blind
              /\ req[q] # Idle /\ SameInvite(q, r) => req'[q].blindInvite
<1>1. req'[r] = rest /\ DOMAIN req' = Requests
  BY DEF Overtakes
<1>2. ASSUME NEW q \in Requests \ {r}, req[q] = Idle
      PROVE  req'[q] = Idle
  BY <1>2 DEF Overtakes
<1>3. ASSUME NEW q \in Requests \ {r}, req[q] # Idle
      PROVE  /\ Carried(q)
             /\ SameAddress(q, r) => req'[q].blind
             /\ SameInvite(q, r) => req'[q].blindInvite
  <2>1. req'[q] = [req[q] EXCEPT !.blind = @ \/ SameAddress(q, r), !.blindInvite = @ \/ SameInvite(q, r)]
    BY <1>3 DEF Overtakes
  <2>2. req[q] \in Request
    BY <1>3 DEF TypeOK
  <2>3. SameAddress(q, r) \in BOOLEAN /\ SameInvite(q, r) \in BOOLEAN
    BY DEF SameAddress, SameInvite
  <2>4. /\ req[q].blind \in BOOLEAN /\ req[q].blindInvite \in BOOLEAN
    BY <2>2 DEF Request
  <2>5. (req[q].blind \/ SameAddress(q, r)) \in BOOLEAN /\ (req[q].blindInvite \/ SameInvite(q, r)) \in BOOLEAN
    BY <2>3, <2>4
  <2>6. req'[q] \in Request
    <3> HIDE DEF SameAddress, SameInvite
    <3> QED BY <2>1, <2>2, <2>5 DEF Request
  <2>7. /\ req'[q].blind = (req[q].blind \/ SameAddress(q, r))
        /\ req'[q].blindInvite = (req[q].blindInvite \/ SameInvite(q, r))
        /\ req'[q].kind = req[q].kind /\ req'[q].on = req[q].on /\ req'[q].inv = req[q].inv
        /\ req'[q].role = req[q].role /\ req'[q].pc = req[q].pc
    BY <2>1, <2>2 DEF Request
  <2> QED
    BY <1>3, <2>6, <2>7, Sorts DEF Carried
<1>4. req' \in [Requests -> Request \cup {Idle}]
  <2>1. \A q \in Requests : req'[q] \in Request \cup {Idle}
    BY <1>1, <1>2, <1>3 DEF Carried
  <2> QED
    BY <1>1, <2>1 DEF Overtakes
<1> QED
  BY <1>1, <1>2, <1>3, <1>4 DEF Carried

LEMMA StepsAlone ==
  ASSUME TypeOK, NEW r \in Requests, NEW rest \in Request \cup {Idle}, req' = [req EXCEPT ![r] = rest]
  PROVE  /\ req' \in [Requests -> Request \cup {Idle}] /\ req'[r] = rest
         /\ \A q \in Requests \ {r} : Carried(q) /\ req'[q] = req[q]
BY DEF TypeOK, Carried

\* What another request writes does not spoil what q knows.
LEMMA CarriedKnows ==
  ASSUME NEW q \in Requests, Knows(q), Carried(q), TypeOK, TypeOK',
         misread \subseteq misread', slipped \subseteq slipped',
         \A n \in Invites : invite[n] # NoRow => invite'[n] # NoRow,
         req[q] # Idle /\ req[q].kind = "mint" =>
           req'[q].blind \/ \A n \in Numbers : invite[n] = NoRow => invite'[n] = NoRow,
         req[q] # Idle /\ req[q].kind # "mint" =>
           req'[q].blind \/ (users'[req[q].on] = users[req[q].on] /\ faculty'[req[q].on] = faculty[req[q].on]),
         req[q] # Idle /\ req[q].inv # NoRow =>
           \/ req'[q].blindInvite
           \/ \A e \in Addresses : faculty'[e] # NoRow /\ faculty'[e].via = req[q].inv
                                  => faculty[e] # NoRow /\ faculty[e].via = req[q].inv
  PROVE  Knows(q)'
<1> SUFFICES ASSUME req'[q] # Idle PROVE Knows(q)'
  BY DEF Knows
<1>1. /\ req[q] # Idle /\ req[q] \in Request /\ req'[q] \in Request
      /\ req'[q].kind = req[q].kind /\ req'[q].on = req[q].on /\ req'[q].inv = req[q].inv
      /\ req'[q].role = req[q].role /\ req'[q].pc = req[q].pc
      /\ ~req'[q].blind => ~req[q].blind
      /\ ~req'[q].blindInvite => ~req[q].blindInvite
  BY DEF Carried, TypeOK
<1>2. InPlace(q)'
  <2>1. InPlace(q) /\ req[q].inv \in Invites \cup {NoRow}
    BY <1>1 DEF Knows, Request
  <2> QED
    BY <1>1, <2>1 DEF InPlace
<1>3. ~req'[q].blind => IF req'[q].kind = "mint" THEN NumbersKnown(q)' ELSE req'[q].on \in Apart' \/ RowsKnown(q)'
  <2> SUFFICES ASSUME ~req'[q].blind
               PROVE  IF req[q].kind = "mint" THEN NumbersKnown(q)' ELSE req[q].on \in Apart' \/ RowsKnown(q)'
    BY <1>1
  <2>1. IF req[q].kind = "mint" THEN NumbersKnown(q) ELSE req[q].on \in Apart \/ RowsKnown(q)
    BY <1>1 DEF Knows
  <2>2. CASE req[q].kind = "mint"
    BY <1>1, <2>1, <2>2 DEF NumbersKnown
  <2>3. CASE req[q].kind # "mint"
    BY <1>1, <2>1, <2>3 DEF RowsKnown, FacultyKnown, RegisterKnown, Apart
  <2> QED
    BY <2>2, <2>3
<1>4. req'[q].pc \in {"create", "insert"} /\ ~req'[q].blindInvite
        => req'[q].inv \in slipped' \/ Via(req[q].inv)' = {}
  <2> SUFFICES ASSUME req[q].pc \in {"create", "insert"}, ~req'[q].blindInvite, req[q].inv \notin slipped
               PROVE  Via(req[q].inv)' = {}
    BY <1>1
  <2>1. req[q].inv # NoRow
    BY <1>1 DEF Knows, InPlace
  <2>2. Via(req[q].inv) = {}
    BY <1>1 DEF Knows
  <2> QED
    BY <1>1, <2>1, <2>2 DEF Via
<1> QED
  BY <1>2, <1>3, <1>4 DEF Knows
-----------------------------------------------------------------------------
Tables == <<users, faculty, invite, shown, misread, slipped, reissued>>

\* A request that looks, goes on or gives up changes no row.
LEMMA LookKeeps ==
  ASSUME IInv, NEW r \in Requests, NEW rest \in Request \cup {Idle}, req' = [req EXCEPT ![r] = rest],
         UNCHANGED <<users, faculty, invite, shown, slipped, reissued>>, misread \subseteq misread',
         TypeOK', Knows(r)', req[r] # Idle => req[r].pc # "mark"
  PROVE  IInv'
<1>1. /\ \A q \in Requests \ {r} : Carried(q) /\ req'[q] = req[q]
      /\ TypeOK /\ AllKnow /\ InvitesClose
  BY StepsAlone DEF IInv
<1>2. AllKnow'
  <2> SUFFICES ASSUME NEW q \in Requests \ {r} PROVE Knows(q)'
    BY DEF AllKnow
  <2>1. Knows(q) /\ Carried(q) /\ (req[q] # Idle /\ req[q].kind # "mint" => TRUE)
    BY <1>1 DEF AllKnow
  <2> QED
    BY <1>1, <2>1, CarriedKnows
<1>3. InvitesClose'
  <2> SUFFICES ASSUME NEW n \in Invites \ slipped, Via(n) # {} PROVE Consumed(n)'
    BY DEF InvitesClose, Via
  <2>1. Consumed(n)
    BY <1>1 DEF InvitesClose
  <2>2. HalfWay(n) => HalfWay(n)'
    BY <1>1 DEF HalfWay, Carried
  <2> QED
    BY <2>1, <2>2 DEF Consumed
<1> QED
  BY <1>2, <1>3 DEF IInv, KeysShown, OneTablePerAddress, OneAccountPerInvite, KeyStaysValid

LEMMA EndKeeps ==
  ASSUME IInv, NEW r \in Requests, Ends(r), UNCHANGED <<Tables, token, begun>>, keys' = keys,
         req[r] # Idle, req[r].pc # "mark"
  PROVE  IInv'
<1>1. req' = [req EXCEPT ![r] = Idle] /\ req'[r] = Idle
  BY DEF Ends, IInv, TypeOK
<1>2. TypeOK'
  BY <1>1 DEF IInv, TypeOK, Tables
<1> QED
  BY <1>1, <1>2, LookKeeps DEF Knows, Tables

\* A request begins.
LEMMA BeginKeeps ==
  ASSUME IInv, NEW r \in Requests, NEW request \in Request, Begins(r, request), keys' = keys,
         UNCHANGED <<Tables, token>>, Knows(r)'
  PROVE  IInv'
<1>1. TypeOK' /\ req[r] = Idle /\ req' = [req EXCEPT ![r] = request]
  BY AccessAssumption DEF IInv, TypeOK, Tables, Begins
<1> QED
  BY <1>1, LookKeeps DEF Tables

\* What a request is at the beginning.
LEMMA NewIs ==
  ASSUME NEW kind \in {"mint", "setup", "google", "register"}, NEW e \in Addresses \cup {0, MaxNumber + 1}
  PROVE  /\ NewRequest(kind, e) \in Request
         /\ NewRequest(kind, e).kind = kind /\ NewRequest(kind, e).on = e /\ NewRequest(kind, e).inv = NoRow
BY DEF NewRequest, Request, Roles

LEMMA ListKeeps == ASSUME IInv, NEW r \in Requests, NEW n \in 1..(MaxNumber + 1), NEW ok \in Answers, MintList(r, n, ok)
                   PROVE  IInv'
<1> DEFINE q == [NewRequest("mint", n) EXCEPT !.blind = ~ok]
<1>1. n \in Addresses \cup {0, MaxNumber + 1} /\ ok \in BOOLEAN
  BY AccessAssumption, Lookups DEF Addresses, Numbers
<1>2. /\ q \in Request /\ q.kind = "mint" /\ q.on = n /\ q.inv = NoRow /\ q.blind = ~ok /\ q.pc = "try"
  BY <1>1, NewIs DEF Request, NewRequest
<1>3. Begins(r, q) /\ req'[r] = q /\ UNCHANGED <<Tables, token>> /\ keys' = keys
  BY DEF MintList, Begins, Tables, IInv, TypeOK
<1>4. ok => \A m \in Numbers : m >= n => invite[m] = NoRow
  <2> SUFFICES ASSUME ok, NEW m \in Numbers, m >= n PROVE invite[m] = NoRow
    OBVIOUS
  <2>1. InviteRow(m, ok) = invite[m]
    BY DEF InviteRow
  <2>2. m \in Listed(ok) => m < n
    BY DEF MintList, OneAbove
  <2>3. m \notin Listed(ok)
    <3>1. m \in Nat /\ n \in Nat
      BY AccessAssumption DEF Numbers
    <3>2. ~(m < n)
      BY <3>1
    <3> QED BY <2>2, <3>2
  <2> QED
    BY <2>1, <2>3 DEF Listed
<1>5. Knows(r)'
  <2>1. InPlace(r)'
    BY <1>2, <1>3 DEF InPlace
  <2>2. ok => NumbersKnown(r)'
    BY <1>2, <1>3, <1>4, AccessAssumption DEF NumbersKnown, MintList
  <2> QED
    BY <1>2, <1>3, <2>1, <2>2 DEF Knows
<1> HIDE DEF q
<1> QED
  BY <1>2, <1>3, <1>5, BeginKeeps

LEMMA SetupCheckKeeps ==
  ASSUME IInv, NEW r \in Requests, NEW n \in Invites, NEW e \in Addresses, NEW p \in Passwords,
         NEW i \in Answers, NEW u \in Answers, NEW f \in Answers, SetupCheck(r, n, e, p, i, u, f)
  PROVE  IInv'
<1> DEFINE q == [NewRequest("setup", e) EXCEPT
                   !.inv = n, !.password = p, !.blindInvite = ~i \/ HalfWay(n), !.blind = ~(u /\ f),
                   !.pc = IF FacultyOf(e, f) # NoRow THEN "mark" ELSE "create"]
<1>1. i \in BOOLEAN /\ u \in BOOLEAN /\ f \in BOOLEAN /\ HalfWay(n) \in BOOLEAN
      /\ InviteRow(n, i) \in {invite[n], NoRow} /\ (i => InviteRow(n, i) = invite[n])
  BY Lookups DEF HalfWay
<1>2. /\ q \in Request /\ q.kind = "setup" /\ q.on = e /\ q.inv = n /\ q.pc \in {"mark", "create"}
      /\ ~q.blindInvite => i /\ ~HalfWay(n)
  <2>1. NewRequest("setup", e) \in Request /\ NewRequest("setup", e).kind = "setup" /\ NewRequest("setup", e).on = e
    BY NewIs
  <2> QED
    BY <1>1, <2>1 DEF Request
<1>3. Begins(r, q) /\ req'[r] = q /\ UNCHANGED <<Tables, token>> /\ keys' = keys
  BY DEF SetupCheck, Begins, Tables, IInv, TypeOK
<1>4. SeesUnused(n, i)
  BY DEF SetupCheck
<1>5. InPlace(r)'
  <2>1. n = EnvInvite \/ invite[n] # NoRow
    BY <1>1, <1>4 DEF SeesUnused
  <2> QED
    BY <1>2, <1>3, <2>1, Sorts DEF InPlace, Tables
<1>6. ~q.blindInvite => n \in slipped \/ Via(n) = {}
  <2> SUFFICES ASSUME ~q.blindInvite, n \notin slipped PROVE Via(n) = {}
    OBVIOUS
  <2>1. ~Consumed(n)
    BY <1>1, <1>2, <1>4 DEF Consumed, SeesUnused
  <2> QED
    BY <2>1 DEF IInv, InvitesClose
<1> HIDE DEF q
<1>7. Knows(r)'
  <2>1. RowsKnown(r)'
    BY <1>2, <1>3 DEF RowsKnown
  <2>2. req'[r].inv \in Invites /\ Via(req[r].inv)' = Via(n)
    BY <1>2, <1>3 DEF Via, Tables
  <2> QED
    BY <1>2, <1>3, <1>5, <1>6, <2>1, <2>2 DEF Knows, Tables
<1> QED
  BY <1>2, <1>3, <1>7, BeginKeeps

LEMMA GoogleCheckKeeps ==
  ASSUME IInv, NEW r \in Requests, NEW e \in People, NEW u1 \in Answers, NEW f1 \in Answers,
         NEW u2 \in Answers, NEW f2 \in Answers, GoogleCheck(r, e, u1, f1, u2, f2)
  PROVE  IInv'
<1> DEFINE role == ResolveRole(e, u1, f1)
<1> DEFINE q == [NewRequest("google", e) EXCEPT
                   !.role = role, !.blind = ~(u1 /\ f1 /\ u2 /\ f2), !.pc = "write"]
<1>1. /\ u1 \in BOOLEAN /\ f1 \in BOOLEAN /\ u2 \in BOOLEAN /\ f2 \in BOOLEAN /\ e \in Addresses
      /\ UserRow(e, u1) \in {users[e], NoRow} /\ users[e] \in Roles \cup {NoRow}
  BY Lookups DEF Addresses, IInv, TypeOK
<1>2. role \in Roles \cup {"faculty"}
  BY <1>1 DEF ResolveRole, Roles
<1>3. q \in Request /\ q.kind = "google" /\ q.on = e /\ q.inv = NoRow /\ q.pc = "write" /\ q.role = role
      /\ q.blind = ~(u1 /\ f1 /\ u2 /\ f2)
  <2>1. NewRequest("google", e) \in Request /\ NewRequest("google", e).kind = "google"
        /\ NewRequest("google", e).on = e /\ NewRequest("google", e).inv = NoRow
    BY <1>1, NewIs
  <2> QED
    BY <1>1, <1>2, <2>1 DEF Request
<1>4. Begins(r, q) /\ req'[r] = q /\ UNCHANGED <<Tables, token>> /\ keys' = keys
  BY DEF GoogleCheck, Begins, Tables, IInv, TypeOK
<1>5. u1 /\ f1 /\ u2 /\ f2 => e \in Apart \/ IF role = "faculty" THEN faculty[e] # NoRow
                                            ELSE faculty[e] = NoRow /\ users[e] = role
  <2> SUFFICES ASSUME u1, f1, u2, f2, e \notin Named
               PROVE  IF role = "faculty" THEN faculty[e] # NoRow
                      ELSE faculty[e] = NoRow /\ users[e] = role
    BY DEF Apart
  <2>1. FacultyOf(e, f1) = faculty[e] /\ UserRow(e, u1) = users[e]
        /\ FacultyOf(e, f2) = faculty[e] /\ UserRow(e, u2) = users[e]
    BY DEF FacultyOf, UserRow
  <2>2. role = IF faculty[e] # NoRow THEN "faculty" ELSE IF users[e] # NoRow THEN users[e] ELSE "student"
    BY <2>1 DEF ResolveRole, Named
  <2>3. role = "student" => users[e] # NoRow \/ faculty[e] # NoRow
    BY <2>1 DEF GoogleCheck, HasAccount
  <2>4. CASE faculty[e] # NoRow
    BY <2>2, <2>4
  <2>5. CASE faculty[e] = NoRow
    BY <1>1, <2>2, <2>3, <2>5 DEF Roles
  <2> QED
    BY <2>4, <2>5
<1>n. /\ e \in AdminEmails => role = "admin"
      /\ e \in FacultyEmails \ AdminEmails => role = "faculty"
  BY DEF ResolveRole
<1> HIDE DEF q, role
<1>6. Knows(r)'
  <2>1. InPlace(r)'
    BY <1>1, <1>3, <1>4, <1>n DEF InPlace
  <2>2. ~q.blind => e \in Apart' \/ RowsKnown(r)'
    BY <1>3, <1>4, <1>5 DEF RowsKnown, FacultyKnown, Tables, Apart
  <2> QED
    BY <1>3, <1>4, <2>1, <2>2 DEF Knows
<1> QED
  BY <1>3, <1>4, <1>6, BeginKeeps

LEMMA RegisterCheckKeeps ==
  ASSUME IInv, NEW r \in Requests, NEW e \in People, NEW role \in Roles, NEW u \in Answers, NEW f \in Answers,
         RegisterCheck(r, e, role, u, f)
  PROVE  IInv'
<1> DEFINE q == [NewRequest("register", e) EXCEPT !.role = role, !.blind = ~(u /\ f), !.pc = "write"]
<1>1. u \in BOOLEAN /\ f \in BOOLEAN /\ e \in Addresses
  BY Lookups DEF Addresses
<1>2. q \in Request /\ q.kind = "register" /\ q.on = e /\ q.inv = NoRow /\ q.pc = "write" /\ q.role = role
      /\ q.blind = ~(u /\ f)
  <2>1. NewRequest("register", e) \in Request /\ NewRequest("register", e).kind = "register"
        /\ NewRequest("register", e).on = e /\ NewRequest("register", e).inv = NoRow
    BY <1>1, NewIs
  <2> QED
    BY <1>1, <2>1 DEF Request
<1>3. Begins(r, q) /\ req'[r] = q /\ UNCHANGED <<Tables, token>> /\ keys' = keys
  BY DEF RegisterCheck, Begins, Tables, IInv, TypeOK
<1>4. u /\ f => faculty[e] = NoRow \/ (role = "admin" /\ users[e] # NoRow)
  BY Lookups DEF RegisterCheck, HasAccount
<1> HIDE DEF q
<1>5. Knows(r)'
  <2>1. InPlace(r)'
    BY <1>1, <1>2, <1>3 DEF InPlace
  <2>2. ~q.blind => RowsKnown(r)'
    BY <1>2, <1>3, <1>4 DEF RowsKnown, RegisterKnown, Tables
  <2> QED
    BY <1>2, <1>3, <2>1, <2>2 DEF Knows
<1> QED
  BY <1>2, <1>3, <1>5, BeginKeeps

\* Steps of a request that look again.
LEMMA TryKeeps == ASSUME IInv, NEW r \in Requests, NEW ok \in Answers, MintTry(r, ok)
                  PROVE  IInv'
<1>1. /\ req[r] \in Request /\ req[r] # Idle /\ req[r].kind = "mint" /\ req[r].pc = "try" /\ req[r].on \in Numbers
      /\ Knows(r) /\ ok \in BOOLEAN /\ TypeOK
  BY Lookups DEF MintTry, At, IInv, TypeOK, AllKnow
<1> DEFINE skips == HasAccount(req[r].on, ok, ok) \/ (InviteRow(req[r].on, ok) # NoRow /\ invite[req[r].on].used)
           rest == IF skips THEN [req[r] EXCEPT !.on = req[r].on + 1]
                   ELSE [req[r] EXCEPT !.pc = "store", !.blind = req[r].blind \/ ~ok]
<1>2. req' = [req EXCEPT ![r] = rest]
  <2>1. CASE skips
    BY <1>1, <2>1 DEF MintTry, TypeOK
  <2>2. CASE ~skips
    BY <1>1, <2>2 DEF MintTry, TypeOK
  <2> QED
    BY <2>1, <2>2
<1>3. req[r].on + 1 \in Addresses \cup {0, MaxNumber + 1}
  BY <1>1, AccessAssumption DEF Numbers, Addresses
<1>4. /\ rest \in Request /\ rest.kind = "mint" /\ rest.pc \in {"try", "store"} /\ rest.inv = req[r].inv
      /\ rest.on \in {req[r].on, req[r].on + 1} /\ (req[r].blind => rest.blind)
      /\ rest.pc = "store" => rest.on = req[r].on
  BY <1>1, <1>3 DEF Request
<1> HIDE DEF skips, rest
<1>5. req'[r] = rest /\ TypeOK' /\ UNCHANGED Tables
  BY <1>1, <1>2, <1>4 DEF MintTry, TypeOK, Tables
<1>6. Knows(r)'
  <2>1. InPlace(r)'
    BY <1>1, <1>4, <1>5 DEF InPlace, Knows
  <2>2. ~rest.blind => NumbersKnown(r)'
    <3> SUFFICES ASSUME ~rest.blind
                 PROVE  rest.on \in Nat /\ \A n \in Numbers : n >= rest.on => invite[n] = NoRow
      BY <1>5 DEF NumbersKnown, Tables
    <3>1. req[r].on \in Nat /\ \A n \in Numbers : n >= req[r].on => invite[n] = NoRow
      BY <1>1, <1>4 DEF Knows, NumbersKnown
    <3>2. rest.on \in Nat /\ rest.on >= req[r].on
      BY <1>4, <3>1
    <3>3. ASSUME NEW n \in Numbers, n >= rest.on PROVE n >= req[r].on
      BY <3>1, <3>2, <3>3, Sorts
    <3> QED
      BY <3>1, <3>2, <3>3
  <2> QED
    BY <1>4, <1>5, <2>1, <2>2 DEF Knows
<1> QED
  BY <1>1, <1>2, <1>4, <1>5, <1>6, LookKeeps DEF Tables

LEMMA CreateKeeps == ASSUME IInv, NEW r \in Requests, NEW u \in Answers, NEW f \in Answers, SetupCreate(r, u, f)
                     PROVE  IInv'
<1>1. /\ req[r] \in Request /\ req[r] # Idle /\ req[r].kind = "setup" /\ req[r].pc = "create"
      /\ Knows(r) /\ u \in BOOLEAN /\ f \in BOOLEAN /\ TypeOK
  BY Lookups DEF SetupCreate, At, IInv, TypeOK, AllKnow
<1>2. CASE HasAccount(req[r].on, u, f)
  BY <1>1, <1>2, EndKeeps DEF SetupCreate, Tables
<1>3. CASE ~HasAccount(req[r].on, u, f)
  <2> DEFINE rest == [req[r] EXCEPT !.pc = "insert", !.blind = ~(u /\ f)]
  <2>1. /\ rest \in Request /\ rest.kind = "setup" /\ rest.pc = "insert" /\ rest.inv = req[r].inv
        /\ rest.on = req[r].on /\ rest.blind = ~(u /\ f) /\ rest.blindInvite = req[r].blindInvite
    BY <1>1 DEF Request
  <2>2. req' = [req EXCEPT ![r] = rest]
    BY <1>1, <1>3 DEF SetupCreate, TypeOK
  <2>3. req'[r] = rest /\ TypeOK' /\ UNCHANGED Tables
    BY <1>1, <2>1, <2>2 DEF SetupCreate, TypeOK, Tables
  <2>4. u /\ f => users[req[r].on] = NoRow
    BY <1>3, Lookups DEF HasAccount
  <2> HIDE DEF rest
  <2>5. Knows(r)'
    <3>1. InPlace(r)'
      BY <1>1, <2>1, <2>3 DEF InPlace, Knows, Tables
    <3>2. ~rest.blind => RowsKnown(r)'
      BY <2>1, <2>3, <2>4 DEF RowsKnown, Tables
    <3>3. ~rest.blindInvite => rest.inv \in slipped' \/ Via(req[r].inv)' = {}
      BY <1>1, <2>1, <2>3 DEF Knows, Via, Tables
    <3> QED
      BY <2>1, <2>3, <3>1, <3>2, <3>3 DEF Knows
  <2> QED
    BY <1>1, <2>1, <2>2, <2>3, <2>5, LookKeeps DEF Tables
<1> QED
  BY <1>2, <1>3
-----------------------------------------------------------------------------
\* A request that overtakes others may write the rows of its address; invites stay.
LEMMA RowWriteKeeps ==
  ASSUME IInv, NEW r \in Requests, req[r] # Idle, req[r].kind # "mint", req[r].pc # "mark",
         NEW rest \in Request \cup {Idle}, req' = Overtakes(r, rest), TypeOK', Knows(r)',
         UNCHANGED <<invite, shown, reissued>>, misread \subseteq misread', slipped \subseteq slipped',
         \A e \in Addresses \ {req[r].on} : users'[e] = users[e] /\ faculty'[e] = faculty[e],
         \A e \in Addresses, n \in Invites : faculty'[e] # NoRow /\ faculty'[e].via = n
           => (faculty[e] # NoRow /\ faculty[e].via = n) \/ (e = req[r].on /\ n = req[r].inv),
         req[r].on \in Apart' \/ users'[req[r].on] = NoRow \/ faculty'[req[r].on] = NoRow,
         \A n \in Invites \ slipped' : Via(n)' # {} /\ n = req[r].inv => rest # Idle /\ rest.pc = "mark" /\ rest.inv = n,
         OneAccountPerInvite'
  PROVE  IInv'
<1>1. /\ TypeOK /\ req'[r] = rest /\ Knows(r)
      /\ \A q \in Requests \ {r} :
           /\ Carried(q)
           /\ req[q] # Idle /\ SameAddress(q, r) => req'[q].blind
           /\ req[q] # Idle /\ SameInvite(q, r) => req'[q].blindInvite
  BY OvertakenBy DEF IInv, AllKnow
<1>2. AllKnow'
  <2> SUFFICES ASSUME NEW q \in Requests \ {r} PROVE Knows(q)'
    BY DEF AllKnow
  <2>1. Knows(q) /\ Carried(q)
    BY <1>1 DEF IInv, AllKnow
  <2>2. ASSUME req[q] # Idle, req[q].kind # "mint"
        PROVE  req'[q].blind \/ (users'[req[q].on] = users[req[q].on] /\ faculty'[req[q].on] = faculty[req[q].on])
    <3>1. req[q].on \in Addresses
      BY <2>1, <2>2 DEF Knows, InPlace
    <3> QED
      BY <1>1, <2>2, <3>1 DEF SameAddress
  <2>3. ASSUME req[q] # Idle, req[q].inv # NoRow
        PROVE  \/ req'[q].blindInvite
               \/ \A e \in Addresses : faculty'[e] # NoRow /\ faculty'[e].via = req[q].inv
                                    => faculty[e] # NoRow /\ faculty[e].via = req[q].inv
    <3>1. req[q].inv \in Invites
      BY <1>1, <2>3 DEF TypeOK, Request
    <3> QED
      BY <1>1, <2>3, <3>1 DEF SameInvite
  <2> QED
    BY <1>1, <2>1, <2>2, <2>3, CarriedKnows
<1>3. InvitesClose'
  <2> SUFFICES ASSUME NEW n \in Invites \ slipped', Via(n)' # {} PROVE Consumed(n)'
    BY DEF InvitesClose
  <2>1. CASE n = req[r].inv
    BY <1>1, <2>1 DEF Consumed, HalfWay
  <2>2. CASE n # req[r].inv
    <3>1. Via(n) # {}
      BY <2>2 DEF Via
    <3>2. Consumed(n)
      BY <3>1 DEF IInv, InvitesClose
    <3>3. ASSUME NEW q \in Requests, req[q] # Idle, req[q].inv = n, req[q].pc = "mark" PROVE HalfWay(n)'
      BY <1>1, <3>3 DEF HalfWay, Carried
    <3> QED
      BY <3>2, <3>3 DEF Consumed, HalfWay
  <2> QED
    BY <2>1, <2>2
<1>4. OneTablePerAddress'
  BY DEF IInv, OneTablePerAddress, Apart
<1> QED
  BY <1>2, <1>3, <1>4 DEF IInv, KeysShown, KeyStaysValid

LEMMA GoogleUserKeeps == ASSUME IInv, NEW r \in Requests, GoogleUser(r)
                         PROVE  IInv'
<1>1. /\ req[r] \in Request /\ req[r] # Idle /\ req[r].kind = "google" /\ req[r].pc = "write"
      /\ req[r].role # "faculty" /\ req[r].role \in Roles /\ Knows(r) /\ TypeOK
      /\ req[r].on \in Addresses /\ req[r].inv = NoRow
  <2>1. req[r] \in Request /\ req[r] # Idle /\ req[r].kind = "google" /\ req[r].pc = "write" /\ Knows(r) /\ TypeOK
        /\ req[r].role # "faculty"
    BY DEF GoogleUser, At, IInv, TypeOK, AllKnow
  <2> QED
    BY <2>1 DEF Knows, InPlace, Request
<1>2. /\ users' = [users EXCEPT ![req[r].on] = req[r].role]
      /\ misread' = IF req[r].blind THEN misread \cup {req[r].on} ELSE misread
      /\ UNCHANGED <<faculty, invite, shown, keys, token, slipped, reissued, begun>>
  BY DEF GoogleUser, Misreads
<1>3. req[r].on \in Apart' \/ (faculty[req[r].on] = NoRow /\ users[req[r].on] = req[r].role)
  BY <1>1, <1>2 DEF Knows, RowsKnown, FacultyKnown, Apart
<1>4. CASE users' # users
  <2>1. req' = Overtakes(r, Idle)
    BY <1>4 DEF GoogleUser
  <2>2. TypeOK'
    BY <1>1, <1>2, <2>1, OvertakenBy DEF TypeOK
  <2>3. req'[r] = Idle
    BY <1>1, <2>1, OvertakenBy
  <2>4. OneAccountPerInvite' /\ Knows(r)'
    BY <1>2, <2>3 DEF IInv, OneAccountPerInvite, Knows
  <2> QED
    BY <1>1, <1>2, <1>3, <2>1, <2>2, <2>4, Sorts, RowWriteKeeps DEF TypeOK
<1>5. CASE users' = users
  <2>1. req' = [req EXCEPT ![r] = Idle] /\ req'[r] = Idle
    BY <1>1, <1>5 DEF GoogleUser, Ends, TypeOK
  <2>2. TypeOK'
    BY <1>1, <1>2, <1>5, <2>1 DEF TypeOK
  <2> QED
    BY <1>1, <1>2, <1>5, <2>1, <2>2, LookKeeps DEF Knows
<1> QED
  BY <1>4, <1>5

LEMMA GoogleFacultyKeeps == ASSUME IInv, NEW r \in Requests, GoogleFaculty(r)
                            PROVE  IInv'
<1>1. /\ req[r] \in Request /\ req[r] # Idle /\ req[r].kind = "google" /\ req[r].pc = "write"
      /\ req[r].role = "faculty" /\ Knows(r) /\ TypeOK
      /\ req[r].on \in Addresses /\ req[r].inv = NoRow
  <2>1. req[r] \in Request /\ req[r] # Idle /\ req[r].kind = "google" /\ req[r].pc = "write" /\ Knows(r) /\ TypeOK
        /\ req[r].role = "faculty"
    BY DEF GoogleFaculty, At, IInv, TypeOK, AllKnow
  <2> QED
    BY <2>1 DEF Knows, InPlace, Request
<1>2. /\ misread' = IF req[r].blind THEN misread \cup {req[r].on} ELSE misread
      /\ UNCHANGED <<users, invite, shown, keys, token, slipped, reissued, begun>>
  BY DEF GoogleFaculty, Misreads
<1>3. CASE faculty[req[r].on] = NoRow
  <2> DEFINE row == [password |-> NoPassword, via |-> NoRow]
  <2>1. faculty' = [faculty EXCEPT ![req[r].on] = row] /\ req' = Overtakes(r, Idle)
    BY <1>3 DEF GoogleFaculty
  <2>2. row \in FacultyRow /\ row.via = NoRow
    BY DEF FacultyRow
  <2>3. TypeOK' /\ req'[r] = Idle
    BY <1>1, <1>2, <2>1, <2>2, OvertakenBy DEF TypeOK
  <2>4. req[r].on \in Apart'
    BY <1>1, <1>2, <1>3 DEF Knows, RowsKnown, FacultyKnown, Apart
  <2>5. \A e \in Addresses, n \in Invites : faculty'[e] # NoRow /\ faculty'[e].via = n
          => faculty[e] # NoRow /\ faculty[e].via = n
    BY <1>1, <2>1, <2>2, Sorts DEF TypeOK
  <2>6. OneAccountPerInvite' /\ Knows(r)'
    BY <1>2, <2>3, <2>5 DEF IInv, OneAccountPerInvite, Knows
  <2>7. \A e \in Addresses \ {req[r].on} : users'[e] = users[e] /\ faculty'[e] = faculty[e]
    BY <1>1, <1>2, <2>1 DEF TypeOK
  <2> HIDE DEF row
  <2> QED
    BY <1>1, <1>2, <2>1, <2>3, <2>4, <2>5, <2>6, <2>7, Sorts, RowWriteKeeps
<1>4. CASE faculty[req[r].on] # NoRow
  <2>1. req' = [req EXCEPT ![r] = Idle] /\ req'[r] = Idle /\ faculty' = faculty
    BY <1>1, <1>4 DEF GoogleFaculty, Ends, TypeOK
  <2>2. TypeOK'
    BY <1>1, <1>2, <2>1 DEF TypeOK
  <2> QED
    BY <1>1, <1>2, <2>1, <2>2, LookKeeps DEF Knows
<1> QED
  BY <1>3, <1>4

LEMMA RegisterInsertKeeps == ASSUME IInv, NEW r \in Requests, RegisterInsert(r)
                             PROVE  IInv'
<1>1. /\ req[r] \in Request /\ req[r] # Idle /\ req[r].kind = "register" /\ req[r].pc = "write"
      /\ Knows(r) /\ TypeOK /\ req[r].on \in Addresses /\ req[r].inv = NoRow
  <2>1. req[r] \in Request /\ req[r] # Idle /\ req[r].kind = "register" /\ req[r].pc = "write" /\ Knows(r) /\ TypeOK
    BY DEF RegisterInsert, At, IInv, TypeOK, AllKnow
  <2> QED
    BY <2>1 DEF Knows, InPlace, Request
<1>2. UNCHANGED <<faculty, invite, shown, keys, token, slipped, reissued, begun>>
  BY DEF RegisterInsert
<1>3. CASE Ends(r) /\ UNCHANGED <<users, misread>>
  BY <1>1, <1>2, <1>3, EndKeeps DEF Tables
<1>4. CASE /\ users[req[r].on] = NoRow \/ req[r].role = "admin"
           /\ users' = [users EXCEPT ![req[r].on] = req[r].role]
           /\ req' = Overtakes(r, Idle)
           /\ Misreads(r)
  <2>1. req[r].role \in Roles
    BY <1>1 DEF Knows, InPlace
  <2>2. TypeOK' /\ req'[r] = Idle
    BY <1>1, <1>2, <1>4, <2>1, OvertakenBy DEF TypeOK, Misreads
  <2>3. req[r].on \in Apart' \/ faculty[req[r].on] = NoRow
    BY <1>1, <1>4 DEF Knows, RowsKnown, RegisterKnown, Misreads, IInv, OneTablePerAddress, Apart
  <2>4. misread \subseteq misread' /\ OneAccountPerInvite' /\ Knows(r)'
    BY <1>2, <1>4, <2>2 DEF IInv, OneAccountPerInvite, Knows, Misreads
  <2>5. \A e \in Addresses \ {req[r].on} : users'[e] = users[e] /\ faculty'[e] = faculty[e]
    BY <1>1, <1>2, <1>4 DEF TypeOK
  <2> QED
    BY <1>1, <1>2, <1>4, <2>2, <2>3, <2>4, <2>5, Sorts, RowWriteKeeps
<1> QED
  BY <1>3, <1>4 DEF RegisterInsert

LEMMA SetupInsertKeeps == ASSUME IInv, NEW r \in Requests, SetupInsert(r)
                          PROVE  IInv'
<1>1. /\ req[r] \in Request /\ req[r] # Idle /\ req[r].kind = "setup" /\ req[r].pc = "insert"
      /\ Knows(r) /\ TypeOK /\ req[r].on \in Addresses /\ req[r].inv \in Invites
  <2>1. req[r] \in Request /\ req[r] # Idle /\ req[r].kind = "setup" /\ req[r].pc = "insert" /\ Knows(r) /\ TypeOK
    BY DEF SetupInsert, At, IInv, TypeOK, AllKnow
  <2> QED
    BY <2>1 DEF Knows, InPlace, Request
<1>2. UNCHANGED <<users, invite, shown, keys, token, reissued, begun>>
  BY DEF SetupInsert
<1>3. CASE Ends(r) /\ UNCHANGED <<faculty, misread, slipped>>
  BY <1>1, <1>2, <1>3, EndKeeps DEF Tables
<1> DEFINE row == [password |-> req[r].password, via |-> req[r].inv]
           rest == [req[r] EXCEPT !.pc = "mark"]
<1>4. CASE /\ faculty[req[r].on] = NoRow
           /\ faculty' = [faculty EXCEPT ![req[r].on] = row]
           /\ req' = Overtakes(r, rest)
           /\ Misreads(r) /\ Slips(r)
  <2>1. row \in FacultyRow /\ row.via = req[r].inv
    <3>1. req[r].password \in Passwords \cup {NoPassword}
      BY <1>1 DEF Request
    <3> QED
      BY <1>1, <3>1 DEF FacultyRow
  <2>2. rest \in Request /\ rest.kind = "setup" /\ rest.pc = "mark" /\ rest.inv = req[r].inv
        /\ rest.on = req[r].on /\ rest.blind = req[r].blind
    BY <1>1 DEF Request
  <2> HIDE DEF row, rest
  <2>3. TypeOK' /\ req'[r] = rest
    BY <1>1, <1>2, <1>4, <2>1, <2>2, OvertakenBy DEF TypeOK, Misreads, Slips
  <2>4. misread \subseteq misread' /\ slipped \subseteq slipped'
    BY <1>4 DEF Misreads, Slips
  <2>5. req[r].on \in Apart' \/ users[req[r].on] = NoRow
    BY <1>1, <1>4 DEF Knows, RowsKnown, Misreads, Apart
  <2>6. req[r].inv \in slipped' \/ Via(req[r].inv) = {}
    BY <1>1, <1>4 DEF Knows, Slips
  <2>7. \A e \in Addresses : faculty'[e] = IF e = req[r].on THEN row ELSE faculty[e]
    BY <1>1, <1>4 DEF TypeOK
  <2>8. OneAccountPerInvite'
    <3> SUFFICES ASSUME NEW n \in Invites, n \notin slipped', NEW d \in Addresses, NEW e \in Addresses,
                        faculty'[d] # NoRow, faculty'[e] # NoRow, faculty'[d].via = n, faculty'[e].via = n
                 PROVE  d = e
      BY DEF OneAccountPerInvite
    <3>1. CASE n = req[r].inv
      BY <2>1, <2>6, <2>7, <3>1 DEF Via
    <3>2. CASE n # req[r].inv
      BY <2>1, <2>4, <2>7, <3>2 DEF IInv, OneAccountPerInvite
    <3> QED
      BY <3>1, <3>2
  <2>9. Knows(r)'
    <3>1. InPlace(r)'
      BY <1>1, <1>2, <2>2, <2>3 DEF Knows, InPlace
    <3> QED
      BY <2>2, <2>3, <3>1 DEF Knows, RowsKnown
  <2>10. \A e \in Addresses, n \in Invites : faculty'[e] # NoRow /\ faculty'[e].via = n
           => (faculty[e] # NoRow /\ faculty[e].via = n) \/ (e = req[r].on /\ n = req[r].inv)
    BY <2>1, <2>7
  <2>11. rest # Idle
    BY <2>2, Sorts
  <2> QED
    BY <1>1, <1>2, <1>4, <2>2, <2>3, <2>4, <2>5, <2>7, <2>8, <2>9, <2>10, <2>11, RowWriteKeeps
<1> QED
  BY <1>3, <1>4 DEF SetupInsert

LEMMA SetupMarkKeeps == ASSUME IInv, NEW r \in Requests, SetupMark(r)
                        PROVE  IInv'
<1>1. /\ req[r] \in Request /\ req[r] # Idle /\ req[r].kind = "setup" /\ req[r].pc = "mark"
      /\ Knows(r) /\ TypeOK /\ req[r].on \in Addresses /\ req[r].inv \in Invites
      /\ req[r].inv = EnvInvite \/ invite[req[r].inv] # NoRow
  <2>1. req[r] \in Request /\ req[r] # Idle /\ req[r].kind = "setup" /\ req[r].pc = "mark" /\ Knows(r) /\ TypeOK
    BY DEF SetupMark, At, IInv, TypeOK, AllKnow
  <2> QED
    BY <2>1 DEF Knows, InPlace, Request
<1>2. UNCHANGED <<users, faculty, shown, keys, token, misread, reissued, begun>>
  BY DEF SetupMark
<1>3. CASE slipped' = slipped \cup {req[r].inv} /\ Ends(r) /\ UNCHANGED invite
  <2>1. req' = [req EXCEPT ![r] = Idle] /\ req'[r] = Idle
    BY <1>1, <1>3 DEF Ends, TypeOK
  <2>2. TypeOK' /\ \A q \in Requests \ {r} : Carried(q) /\ req'[q] = req[q]
    BY <1>1, <1>2, <1>3, <2>1, StepsAlone DEF TypeOK
  <2>3. AllKnow'
    <3> SUFFICES ASSUME NEW q \in Requests \ {r} PROVE Knows(q)'
      BY <2>1 DEF AllKnow, Knows
    <3>1. Knows(q) /\ Carried(q)
      BY <2>2 DEF IInv, AllKnow
    <3> QED
      BY <1>1, <1>2, <1>3, <2>2, <3>1, CarriedKnows
  <2>4. InvitesClose'
    <3> SUFFICES ASSUME NEW n \in Invites \ slipped', Via(n) # {} PROVE Consumed(n)'
      BY <1>2 DEF InvitesClose, Via
    <3>1. Consumed(n) /\ n # req[r].inv
      BY <1>3 DEF IInv, InvitesClose
    <3>2. ASSUME NEW q \in Requests, req[q] # Idle, req[q].inv = n, req[q].pc = "mark" PROVE HalfWay(n)'
      BY <2>2, <3>1, <3>2 DEF HalfWay, Carried
    <3> QED
      BY <1>3, <3>1, <3>2 DEF Consumed, HalfWay
  <2> QED
    BY <1>2, <1>3, <2>2, <2>3, <2>4
       DEF IInv, KeysShown, OneTablePerAddress, OneAccountPerInvite, KeyStaysValid
<1>4. CASE /\ invite' = [invite EXCEPT ![req[r].inv] = Used(@, req[r].on)]
           /\ req' = Overtakes(r, Idle)
           /\ UNCHANGED slipped
  <2> DEFINE row == Used(invite[req[r].inv], req[r].on)
  <2>1. row \in Invite /\ row.used /\ (invite[req[r].inv] # NoRow => row.key = invite[req[r].inv].key)
    <3>1. invite[req[r].inv] \in Invite \cup {NoRow} /\ 0 \in 0..MaxKeys
      BY <1>1, AccessAssumption DEF TypeOK
    <3>2. CASE invite[req[r].inv] = NoRow
      BY <1>1, <3>1, <3>2 DEF Used, Invite
    <3>3. CASE invite[req[r].inv] # NoRow
      BY <1>1, <3>1, <3>3 DEF Used, Invite
    <3> QED
      BY <3>2, <3>3
  <2> HIDE DEF row
  <2>2. \A n \in Invites : invite'[n] = IF n = req[r].inv THEN row ELSE invite[n]
    BY <1>1, <1>4 DEF TypeOK, row
  <2>3. TypeOK' /\ req'[r] = Idle /\ row # NoRow
    <3>1. invite' \in [Invites -> Invite \cup {NoRow}]
      BY <1>1, <1>4, <2>1 DEF TypeOK, row
    <3> QED
      BY <1>1, <1>2, <1>4, <2>1, <3>1, OvertakenBy, Sorts DEF TypeOK
  <2>4. \A q \in Requests \ {r} : Carried(q)
    BY <1>1, <1>4, OvertakenBy
  <2>5. AllKnow'
    <3> SUFFICES ASSUME NEW q \in Requests \ {r} PROVE Knows(q)'
      BY <2>3 DEF AllKnow, Knows
    <3>1. Knows(q) /\ Carried(q)
      BY <2>4 DEF IInv, AllKnow
    <3>2. \A n \in Numbers : invite[n] = NoRow => invite'[n] = NoRow
      BY <1>1, <2>2, Sorts
    <3>3. \A n \in Invites : invite[n] # NoRow => invite'[n] # NoRow
      BY <2>2, <2>3
    <3> QED
      BY <1>1, <1>2, <1>4, <2>3, <3>1, <3>2, <3>3, CarriedKnows
  <2>6. InvitesClose'
    <3> SUFFICES ASSUME NEW n \in Invites \ slipped, Via(n) # {} PROVE Consumed(n)'
      BY <1>2, <1>4 DEF InvitesClose, Via
    <3>1. Consumed(n)
      BY DEF IInv, InvitesClose
    <3>2. CASE n = req[r].inv
      BY <2>1, <2>2, <2>3, <3>2 DEF Consumed
    <3>3. CASE n # req[r].inv
      <4>1. invite'[n] = invite[n]
        BY <2>2, <3>3
      <4>2. ASSUME NEW q \in Requests, req[q] # Idle, req[q].inv = n, req[q].pc = "mark" PROVE HalfWay(n)'
        BY <2>4, <3>3, <4>2 DEF HalfWay, Carried
      <4> QED
        BY <3>1, <4>1, <4>2 DEF Consumed, HalfWay
    <3> QED
      BY <3>2, <3>3
  <2>7. \A n \in Numbers : invite[n] # NoRow => invite'[n] # NoRow /\ invite'[n].key = invite[n].key
    BY <2>1, <2>2, <2>3, Sorts
  <2>8. KeysShown' /\ KeyStaysValid'
    <3>1. \A s \in shown : s[1] \in Numbers
      BY <1>1 DEF TypeOK
    <3> QED
      BY <1>2, <2>7, <3>1 DEF IInv, KeysShown, KeyStaysValid
  <2> QED
    BY <1>2, <1>4, <2>3, <2>5, <2>6, <2>8 DEF IInv, OneTablePerAddress, OneAccountPerInvite
<1> QED
  BY <1>3, <1>4 DEF SetupMark

LEMMA MintStoreKeeps == ASSUME IInv, NEW r \in Requests, MintStore(r)
                        PROVE  IInv'
<1> DEFINE n == req[r].on
<1>1. /\ req[r] \in Request /\ req[r] # Idle /\ req[r].kind = "mint" /\ req[r].pc = "store" /\ req[r].inv = NoRow
      /\ Knows(r) /\ TypeOK
  <2>1. req[r] \in Request /\ req[r] # Idle /\ req[r].kind = "mint" /\ req[r].pc = "store" /\ Knows(r) /\ TypeOK
    BY DEF MintStore, At, IInv, TypeOK, AllKnow
  <2> QED
    BY <2>1 DEF Knows, InPlace
<1>2. /\ UNCHANGED <<users, faculty, token, misread, slipped, begun>>
      /\ keys' = keys + 1 /\ keys' \in 1..MaxKeys
  <2>1. UNCHANGED <<users, faculty, token, misread, slipped, begun>> /\ keys' = keys + 1 /\ keys < MaxKeys
    BY DEF MintStore
  <2> QED
    BY <1>1, <2>1, AccessAssumption DEF TypeOK
<1>3. n \in Numbers
  BY <1>1 DEF Knows, InPlace
<1>4. CASE req' = [req EXCEPT ![r] = [@ EXCEPT !.on = n + 1, !.pc = "try"]] /\ UNCHANGED <<invite, shown, reissued>>
  <2> DEFINE rest == [req[r] EXCEPT !.on = n + 1, !.pc = "try"]
  <2>1. n + 1 \in Addresses \cup {0, MaxNumber + 1}
    BY <1>3, AccessAssumption DEF Numbers, Addresses
  <2>2. rest \in Request /\ rest.kind = "mint" /\ rest.pc = "try" /\ rest.inv = NoRow /\ rest.on = n + 1
        /\ rest.blind = req[r].blind
    BY <1>1, <2>1 DEF Request
  <2>3. req' = [req EXCEPT ![r] = rest]
    BY <1>1, <1>4 DEF TypeOK
  <2> HIDE DEF rest
  <2>4. req'[r] = rest /\ TypeOK'
    BY <1>1, <1>2, <1>4, <2>2, <2>3, AccessAssumption DEF TypeOK
  <2>5. Knows(r)'
    <3>1. InPlace(r)'
      BY <2>2, <2>4 DEF InPlace
    <3>2. ~rest.blind => NumbersKnown(r)'
      <4> SUFFICES ASSUME ~rest.blind
                   PROVE  n + 1 \in Nat /\ \A m \in Numbers : m >= n + 1 => invite[m] = NoRow
        BY <1>4, <2>2, <2>4 DEF NumbersKnown
      <4>1. n \in Nat /\ \A m \in Numbers : m >= n => invite[m] = NoRow
        BY <1>1, <2>2 DEF Knows, NumbersKnown
      <4>2. ASSUME NEW m \in Numbers, m >= n + 1 PROVE m >= n
        BY <4>1, <4>2, Sorts
      <4> QED
        BY <4>1, <4>2
    <3> QED
      BY <2>2, <2>4, <3>1, <3>2 DEF Knows
  <2> QED
    BY <1>1, <1>2, <1>4, <2>2, <2>3, <2>4, <2>5, LookKeeps
<1>5. CASE /\ invite' = [invite EXCEPT ![n] = Keyed(@, keys')]
           /\ shown' = shown \cup {<<n, keys'>>}
           /\ req' = [q \in Requests |->
                        IF q = r \/ req[q] = Idle THEN Idle
                        ELSE [req[q] EXCEPT !.blind = @ \/ req[q].kind = "mint"]]
           /\ reissued' = IF req[r].blind THEN reissued \cup {n} ELSE reissued
  <2> DEFINE row == Keyed(invite[n], keys')
  <2>1. row \in Invite /\ row.key = keys' /\ row.used = (invite[n] # NoRow /\ invite[n].used)
    <3>1. invite[n] \in Invite \cup {NoRow}
      BY <1>1, <1>3, Sorts DEF TypeOK
    <3>4. keys' \in 0..MaxKeys
      BY <1>2, AccessAssumption
    <3>2. CASE invite[n] = NoRow
      BY <3>1, <3>2, <3>4 DEF Keyed, Invite
    <3>3. CASE invite[n] # NoRow
      BY <3>1, <3>3, <3>4 DEF Keyed, Invite
    <3> QED
      BY <3>2, <3>3
  <2> HIDE DEF row
  <2>2. \A m \in Invites : invite'[m] = IF m = n THEN row ELSE invite[m]
    BY <1>1, <1>3, <1>5 DEF TypeOK, row
  <2>3. req'[r] = Idle /\ \A q \in Requests \ {r} :
          Carried(q) /\ (req[q] # Idle /\ req[q].kind = "mint" => req'[q].blind)
    <3>1. ASSUME NEW q \in Requests \ {r}, req[q] = Idle PROVE req'[q] = Idle
      BY <1>5, <3>1
    <3>2. ASSUME NEW q \in Requests \ {r}, req[q] # Idle
          PROVE  Carried(q) /\ (req[q].kind = "mint" => req'[q].blind)
      <4>1. req'[q] = [req[q] EXCEPT !.blind = @ \/ req[q].kind = "mint"] /\ req[q] \in Request
        BY <1>1, <1>5, <3>2 DEF TypeOK
      <4> QED
        BY <3>2, <4>1, Sorts DEF Request, Carried
    <3> QED
      BY <1>5, <3>1, <3>2 DEF Carried
  <2>4. TypeOK'
    <3>1. invite' \in [Invites -> Invite \cup {NoRow}]
      BY <1>1, <1>3, <1>5, <2>1 DEF TypeOK, row
    <3>2. \A q \in Requests : req'[q] \in Request \cup {Idle}
      BY <2>3 DEF Carried
    <3>3. req' \in [Requests -> Request \cup {Idle}]
      BY <1>5, <3>2
    <3>4. shown' \subseteq Numbers \X (1..MaxKeys) /\ keys' \in 0..MaxKeys /\ reissued' \subseteq Numbers
      BY <1>1, <1>2, <1>3, <1>5, AccessAssumption DEF TypeOK
    <3> QED
      BY <1>1, <1>2, <3>1, <3>3, <3>4 DEF TypeOK
  <2>5. row # NoRow /\ n \in Invites
    BY <1>3, <2>1, Sorts
  <2>6. AllKnow'
    <3> SUFFICES ASSUME NEW q \in Requests \ {r} PROVE Knows(q)'
      BY <2>3 DEF AllKnow, Knows
    <3>1. Knows(q) /\ Carried(q)
      BY <2>3 DEF IInv, AllKnow
    <3>2. \A m \in Invites : invite[m] # NoRow => invite'[m] # NoRow
      BY <2>2, <2>5
    <3> QED
      BY <1>1, <1>2, <2>3, <2>4, <3>1, <3>2, CarriedKnows
  <2>7. InvitesClose'
    <3> SUFFICES ASSUME NEW m \in Invites \ slipped, Via(m) # {} PROVE Consumed(m)'
      BY <1>2 DEF InvitesClose, Via
    <3>1. Consumed(m)
      BY DEF IInv, InvitesClose
    <3>2. ASSUME NEW q \in Requests, req[q] # Idle, req[q].inv = m, req[q].pc = "mark" PROVE HalfWay(m)'
      BY <1>1, <2>3, <3>2 DEF HalfWay, Carried
    <3>3. invite[m] # NoRow /\ invite[m].used => invite'[m] # NoRow /\ invite'[m].used
      BY <2>1, <2>2, <2>5
    <3> QED
      BY <3>1, <3>2, <3>3 DEF Consumed, HalfWay
  <2>8. req[r].blind \/ invite[n] = NoRow
    BY <1>1, <1>3, Sorts DEF Knows, NumbersKnown
  <2>9. KeysShown' /\ KeyStaysValid'
    <3> SUFFICES ASSUME NEW s \in shown'
                 PROVE  invite'[s[1]] # NoRow /\ (s[1] \notin reissued' => invite'[s[1]].key = s[2])
      BY DEF KeysShown, KeyStaysValid
    <3>1. CASE s = <<n, keys'>>
      BY <2>1, <2>2, <2>5, <3>1
    <3>2. CASE s \in shown /\ s[1] # n
      <4>1. s[1] \in Invites
        BY <1>1, <3>2, Sorts DEF TypeOK
      <4> QED
        BY <1>5, <2>2, <3>2, <4>1 DEF IInv, KeysShown, KeyStaysValid
    <3>3. CASE s \in shown /\ s[1] = n
      BY <1>5, <2>2, <2>5, <2>8, <3>3 DEF IInv, KeysShown
    <3> QED
      BY <1>5, <3>1, <3>2, <3>3
  <2> QED
    BY <1>2, <2>4, <2>6, <2>7, <2>9 DEF IInv, OneTablePerAddress, OneAccountPerInvite
<1> QED
  BY <1>4, <1>5 DEF MintStore
-----------------------------------------------------------------------------
LEMMA InitHolds == Init => IInv
<1> SUFFICES ASSUME Init PROVE IInv
  OBVIOUS
<1>1. TypeOK
  BY AccessAssumption DEF Init, TypeOK
<1> QED
  BY <1>1 DEF Init, IInv, AllKnow, Knows, InvitesClose, Via, KeysShown, OneTablePerAddress, OneAccountPerInvite,
              KeyStaysValid

LEMMA StepKeeps == IInv /\ [Next]_vars => IInv'
<1> SUFFICES ASSUME IInv, [Next]_vars PROVE IInv'
  OBVIOUS
<1>1. CASE UNCHANGED vars
  BY <1>1 DEF vars, IInv, TypeOK, AllKnow, Knows, InPlace, NumbersKnown, RowsKnown, FacultyKnown, RegisterKnown,
              Apart, InvitesClose, Consumed, HalfWay, Via, KeysShown, OneTablePerAddress, OneAccountPerInvite, KeyStaysValid
<1>2. ASSUME NEW r \in Requests, MintFails(r) PROVE IInv'
  <2>1. Knows(r) /\ req[r] # Idle /\ req[r].kind = "mint"
    BY <1>2 DEF MintFails, IInv, AllKnow
  <2> QED
    BY <1>2, <2>1, EndKeeps DEF MintFails, Tables, Knows, InPlace
<1>3. ASSUME NEW r \in Requests, GoogleFails(r) PROVE IInv'
  BY <1>3, EndKeeps DEF GoogleFails, At, Tables
<1>4. ASSUME NEW n \in Invites, NEW k \in 0..MaxKeys, NEW ok \in Answers, InviteLogin(n, k, ok) PROVE IInv'
  <2>1. TypeOK'
    BY <1>4 DEF InviteLogin, IInv, TypeOK
  <2> QED
    BY <1>4, <2>1 DEF InviteLogin, IInv, AllKnow, Knows, InPlace, NumbersKnown, RowsKnown, FacultyKnown,
              RegisterKnown, Apart, InvitesClose, Consumed, HalfWay, Via, KeysShown, OneTablePerAddress,
              OneAccountPerInvite, KeyStaysValid
<1>5. CASE Next
  BY <1>2, <1>3, <1>4, <1>5, ListKeeps, TryKeeps, MintStoreKeeps, SetupCheckKeeps, CreateKeeps, SetupInsertKeeps,
     SetupMarkKeeps, GoogleCheckKeeps, GoogleFacultyKeeps, GoogleUserKeeps, RegisterCheckKeeps, RegisterInsertKeeps
     DEF Next
<1> QED
  BY <1>1, <1>5

LEMMA Inductive == Spec => []IInv
BY InitHolds, StepKeeps, PTL DEF Spec

\* Every reachable state is well formed.
THEOREM TypeCorrect == Spec => []TypeOK
BY Inductive, PTL DEF IInv

\* The tables of create_faculty, create_user and the sign-in with Google stay disjoint,
\* on the addresses the environment does not name, whoever does not misread and is not
\* overtaken.
THEOREM TablesDisjoint == Spec => []OneTablePerAddress
BY Inductive, PTL DEF IInv

\* complete_faculty_setup registers one account for an invite whose mark is not lost.
THEOREM InviteIsOneTime == Spec => []OneAccountPerInvite
BY Inductive, PTL DEF IInv

\* mint_next_faculty_invite does not change a key it has shown.
THEOREM ShownKeyWorks == Spec => []KeyStaysValid
BY Inductive, PTL DEF IInv

\* What a request does at its last step keeps the role of the address.
LEMMA StepKeepsRole ==
  ASSUME IInv, [Next]_vars, NEW r \in Requests, req[r] # Idle, req[r].kind = "google", req'[r] = Idle
  PROVE  \/ users[req[r].on] \in {NoRow, users'[req[r].on]}
         \/ req[r].on \in AdminEmails /\ users'[req[r].on] = "admin"
         \/ req[r].on \in misread'
<1>1. Knows(r) /\ TypeOK
  BY DEF IInv, AllKnow
<1>2. CASE GoogleUser(r)
  <2>1. /\ req[r].on \in Addresses /\ req[r].role # "faculty"
        /\ users' = [users EXCEPT ![req[r].on] = req[r].role] /\ Misreads(r)
    BY <1>1, <1>2 DEF GoogleUser, Knows, InPlace
  <2>2. CASE req[r].on \in Named
    <3>1. req[r].on \in AdminEmails /\ req[r].role = "admin"
      BY <1>1, <2>1, <2>2 DEF Knows, InPlace, Named
    <3> QED
      BY <1>1, <2>1, <3>1 DEF TypeOK
  <2>3. CASE req[r].on \notin Named
    BY <1>1, <2>1, <2>3 DEF Misreads, Knows, RowsKnown, FacultyKnown, TypeOK, Apart
  <2> QED
    BY <2>2, <2>3
<1>3. CASE GoogleFaculty(r) \/ GoogleFails(r)
  BY <1>3 DEF GoogleFaculty, GoogleFails
<1>4. ASSUME users' # users PROVE \E q \in Requests : GoogleUser(q) \/ RegisterInsert(q)
  <2>1. Next
    BY <1>4 DEF vars
  <2>2. ASSUME NEW q \in Requests, NEW n, NEW ok, MintList(q, n, ok) \/ MintTry(q, ok) \/ MintStore(q) \/ MintFails(q)
        PROVE  FALSE
    BY <1>4, <2>2 DEF MintList, MintTry, MintStore, MintFails
  <2>3. ASSUME NEW q \in Requests, NEW n, NEW k, NEW e, NEW p, NEW i, NEW u, NEW f,
               InviteLogin(n, k, i) \/ SetupCheck(q, n, e, p, i, u, f)
        PROVE  FALSE
    BY <1>4, <2>3 DEF InviteLogin, SetupCheck
  <2>4. ASSUME NEW q \in Requests, NEW u, NEW f, SetupCreate(q, u, f) \/ SetupInsert(q) \/ SetupMark(q)
        PROVE  FALSE
    BY <1>4, <2>4 DEF SetupCreate, SetupInsert, SetupMark
  <2>5. ASSUME NEW q \in Requests, NEW e, NEW role, NEW u1, NEW f1, NEW u2, NEW f2,
               GoogleCheck(q, e, u1, f1, u2, f2) \/ RegisterCheck(q, e, role, u1, f1)
                 \/ GoogleFaculty(q) \/ GoogleFails(q)
        PROVE  FALSE
    BY <1>4, <2>5 DEF GoogleCheck, RegisterCheck, GoogleFaculty, GoogleFails
  <2> QED
    BY <2>1, <2>2, <2>3, <2>4, <2>5 DEF Next
<1>5. ASSUME NEW q \in Requests \ {r}, GoogleUser(q) \/ RegisterInsert(q) PROVE FALSE
  <2>1. req[q] # Idle /\ (req' = Overtakes(q, Idle) \/ req' = [req EXCEPT ![q] = Idle])
    BY <1>5 DEF GoogleUser, RegisterInsert, Ends, At
  <2>2. Carried(r)
    BY <1>1, <2>1, OvertakenBy, StepsAlone
  <2> QED
    BY <2>2 DEF Carried
<1>6. ~RegisterInsert(r)
  BY DEF RegisterInsert, At
<1> QED
  BY <1>2, <1>3, <1>4, <1>5, <1>6

\* resolve_google_role and upsert_google_user leave a stored role as it is, of an address
\* that is not misread, or make it the administrator the environment says it is.
THEOREM GoogleKeepsRole == Spec => SignInKeepsRole
<1>1. IInv /\ [Next]_vars =>
        [\A r \in Requests : req[r] # Idle /\ req[r].kind = "google" /\ req'[r] = Idle
           => \/ users[req[r].on] \in {NoRow, users'[req[r].on]}
              \/ req[r].on \in AdminEmails /\ users'[req[r].on] = "admin"
              \/ req[r].on \in misread']_vars
  BY StepKeepsRole
<1> QED
  BY <1>1, Inductive, PTL DEF Spec, SignInKeepsRole
-----------------------------------------------------------------------------
(* The administrators' maps, for any number of instances and entries.         *)

\* A map says of an entry that is not astray what the stored one says.
Agrees(m) == \A e \in Entries \ astray : e \in m <=> e \in db

\* What a handler that is not behind knows of the stored map.
JobOn(job, stored, lost) ==
  /\ job.at \in {"memo", "repair"} /\ ~job.behind =>
       \A e \in Entries \ lost : e \in job.map <=> e \in stored
  /\ job.at \in {"load", "lookup"} => job.map = {}
  /\ job.at = "lookup" /\ ~job.behind => \A e \in Entries \ lost : e \notin stored
  /\ job.at \in {"cache", "db"} =>
       /\ \A e \in job.on : e \in job.map <=> job.list
       /\ ~job.behind => \A e \in Entries \ (lost \cup job.on) : e \in job.map <=> e \in stored
JobOK(job) == JobOn(job, db, astray)
Writing == {"cache", "db", "drop"}
JobsFresh == \A w \in Workers : work[w] # AtRest => /\ JobOK(work[w])
                                                    /\ w[2] = Page => work[w].at \notin Writing

\* A memo is fresh, unless its instance is about to drop it.
Dropping(i) == \E w \in Workers : Inst(w) = i /\ Doing(w, "drop")
MemoFresh == \A i \in Instances :
               memo[i] # NoMemo /\ ~memo[i].behind /\ ~Dropping(i) => Agrees(memo[i].map)

\* A copy is the stored map, or the one its handler is about to store.
CopyFresh == \A p \in Places :
  /\ aside[p] = {} /\ cache[p] # {} => Agrees(cache[p])
  /\ \A w \in Workers : aside[p] = {w} => /\ Doing(w, "db") /\ p = Place(Inst(w))
                                          /\ cache[p] \in {{}, work[w].map}

MapsInv == MapsTypeOK /\ JobsFresh /\ MemoFresh /\ CopyFresh /\ Kept
-----------------------------------------------------------------------------
LEMMA WorkersType == \A w \in Workers : Inst(w) \in Instances /\ Place(Inst(w)) \in Places
                                        /\ w[2] \in {Toggle, Page}
BY DEF Workers, Inst, Place, Places

\* There are two handlers, so "any" is not one of them.
LEMMA ManyWorkers == \A w \in Workers : Workers # {w} /\ Workers # {}
<1> SUFFICES ASSUME NEW w \in Workers PROVE Workers # {w} /\ Workers # {}
  OBVIOUS
<1>1. <<w[1], Toggle>> \in Workers /\ <<w[1], Page>> \in Workers
  BY DEF Workers
<1>2. <<w[1], Toggle>> # <<w[1], Page>>
  BY DEF Toggle, Page
<1> QED
  BY <1>1, <1>2

LEMMA JobType == ASSUME MapsTypeOK, NEW w \in Workers, work[w] # AtRest PROVE work[w] \in Job
BY DEF MapsTypeOK

\* A step of one handler that stores nothing.
LEMMA MoveType ==
  ASSUME MapsTypeOK, NEW w \in Workers, NEW job \in Job \cup {AtRest}, Move(w, job)
  PROVE  work' \in [Workers -> Job \cup {AtRest}]
BY DEF MapsTypeOK, Move

LEMMA HaveMapType ==
  ASSUME MapsTypeOK, NEW w \in Workers, NEW job \in Job, HaveMap(w, job)
  PROVE  work' \in [Workers -> Job \cup {AtRest}]
<1>1. Changed(job) \in SUBSET Entries
  BY DEF Changed, Job
<1>2. [job EXCEPT !.at = "cache", !.map = Changed(job)] \in Job
  BY <1>1 DEF Job
<1> QED
  BY <1>2, MoveType DEF HaveMap

\* A step that stores the map.
LEMMA OvertakenType ==
  ASSUME MapsTypeOK, NEW w \in Workers, ~Resting(w), Overtaken(w)
  PROVE  /\ memo' \in [Instances -> Memo \cup {NoMemo}]
         /\ work' \in [Workers -> Job \cup {AtRest}]
<1>1. \A j \in Instances : memo[j] # NoMemo => [memo[j] EXCEPT !.behind = TRUE] \in Memo
  BY DEF MapsTypeOK, Memo
<1>2. \A v \in Workers : ~Resting(v) => [work[v] EXCEPT !.behind = @ \/ work[v].at # "load"] \in Job
  BY DEF MapsTypeOK, Job, Resting
<1>3. [work[w] EXCEPT !.at = IF @ = "repair" THEN "memo" ELSE "drop"] \in Job
  BY DEF MapsTypeOK, Job, Resting
<1> QED
  BY <1>1, <1>2, <1>3 DEF Overtaken, MapsTypeOK, Resting

LEMMA AsideType == \A w, same : AsideAfter(w, same) \in [Places -> SUBSET Workers]
BY DEF AsideAfter
-----------------------------------------------------------------------------
\* The maps, the memos, the copies and the handlers stay what they are.
THEOREM MapsTypeCorrect == MapsSpec => []MapsTypeOK
<1>1. MapsInit => MapsTypeOK
  BY MapsAssumption DEF MapsInit, MapsTypeOK
<1>2. MapsTypeOK /\ [MapsNext]_mapsVars => MapsTypeOK'
  <2> SUFFICES ASSUME MapsTypeOK, [MapsNext]_mapsVars PROVE MapsTypeOK'
    OBVIOUS
  <2> USE MapsAssumption
  <2>1. ASSUME NEW w \in Workers, BeginPage(w) PROVE MapsTypeOK'
    <3>1. NewJob \in Job
      BY DEF NewJob, Job
    <3> QED
      BY <2>1, <3>1, MoveType DEF BeginPage, MapsTypeOK
  <2>2. ASSUME NEW w \in Workers, NEW e \in Entries, NEW list \in BOOLEAN, BeginToggle(w, e, list)
        PROVE  MapsTypeOK'
    <3>1. [NewJob EXCEPT !.on = {e}, !.list = list] \in Job
      BY DEF NewJob, Job
    <3> QED
      BY <2>2, <3>1, MoveType DEF BeginToggle, MapsTypeOK
  <2>3. ASSUME NEW w \in Workers, Hit(w) PROVE MapsTypeOK'
    <3>1. work[w] \in Job /\ memo[Inst(w)] \in Memo
      BY <2>3, WorkersType, JobType DEF Hit, Doing, Resting, MapsTypeOK
    <3>2. [work[w] EXCEPT !.map = memo[Inst(w)].map, !.behind = memo[Inst(w)].behind] \in Job
      BY <3>1 DEF Job, Memo
    <3> QED
      BY <2>3, <3>2, HaveMapType DEF Hit, MapsTypeOK
  <2>4. ASSUME NEW w \in Workers, NEW ok \in BOOLEAN, ReadStored(w, ok) PROVE MapsTypeOK'
    <3>1. work[w] \in Job
      BY <2>4, JobType DEF ReadStored, Doing, Resting
    <3>2. /\ [work[w] EXCEPT !.at = "memo", !.map = IF ok THEN db ELSE {}] \in Job
          /\ [work[w] EXCEPT !.at = "lookup", !.behind = ~ok] \in Job
      BY <3>1 DEF Job, MapsTypeOK
    <3> QED
      BY <2>4, <3>2, MoveType DEF ReadStored, MapsTypeOK
  <2>5. ASSUME NEW w \in Workers, LookUp(w) PROVE MapsTypeOK'
    <3>1. work[w] \in Job /\ cache[Place(Inst(w))] \in SUBSET Entries
      BY <2>5, JobType, WorkersType DEF LookUp, Doing, Resting, MapsTypeOK
    <3>2. /\ [work[w] EXCEPT !.at = "memo"] \in Job
          /\ [work[w] EXCEPT !.at = "repair", !.map = cache[Place(Inst(w))],
                             !.behind = aside[Place(Inst(w))] # {}] \in Job
      BY <3>1 DEF Job
    <3> QED
      BY <2>5, <3>2, MoveType DEF LookUp, MapsTypeOK
  <2>6. ASSUME NEW w \in Workers, NEW ok \in BOOLEAN, Repair(w, ok) PROVE MapsTypeOK'
    <3>1. work[w] \in Job /\ ~Resting(w)
      BY <2>6, JobType DEF Repair, Doing, Resting
    <3>2. [work[w] EXCEPT !.at = "memo"] \in Job /\ work[w].map \in SUBSET Entries
      BY <3>1 DEF Job
    <3>3. CASE ok
      BY <2>6, <3>1, <3>2, <3>3, OvertakenType, AsideType DEF Repair, MapsTypeOK
    <3>4. CASE ~ok
      BY <2>6, <3>2, <3>4, MoveType DEF Repair, MapsTypeOK
    <3> QED
      BY <3>3, <3>4
  <2>7. ASSUME NEW w \in Workers, Memoise(w) PROVE MapsTypeOK'
    <3>1. work[w] \in Job
      BY <2>7, JobType DEF Memoise, Doing, Resting
    <3>2. [map |-> work[w].map, behind |-> work[w].behind] \in Memo
      BY <3>1 DEF Job, Memo
    <3> QED
      BY <2>7, <3>1, <3>2, HaveMapType DEF Memoise, MapsTypeOK
  <2>8. ASSUME NEW w \in Workers, PutCopy(w) PROVE MapsTypeOK'
    <3>1. work[w] \in Job
      BY <2>8, JobType DEF PutCopy, Doing, Resting
    <3>2. [work[w] EXCEPT !.at = "db"] \in Job /\ work[w].map \in SUBSET Entries
      BY <3>1 DEF Job
    <3> QED
      BY <2>8, <3>2, MoveType DEF PutCopy, MapsTypeOK
  <2>9. ASSUME NEW w \in Workers, NEW ok \in BOOLEAN, PutStored(w, ok) PROVE MapsTypeOK'
    <3>1. work[w] \in Job /\ ~Resting(w)
      BY <2>9, JobType DEF PutStored, Doing, Resting
    <3>2. [work[w] EXCEPT !.at = "drop"] \in Job /\ work[w].map \in SUBSET Entries /\ work[w].on \in SUBSET Entries
      BY <3>1 DEF Job
    <3>3. CASE ok
      BY <2>9, <3>1, <3>2, <3>3, OvertakenType, AsideType DEF PutStored, MapsTypeOK
    <3>4. CASE ~ok
      BY <2>9, <3>2, <3>4, MoveType DEF PutStored, MapsTypeOK
    <3> QED
      BY <3>3, <3>4
  <2>10. ASSUME NEW w \in Workers, Drop(w) PROVE MapsTypeOK'
    BY <2>10, MoveType DEF Drop, MapsTypeOK
  <2>11. ASSUME NEW i \in Instances, ExpireMemo(i) PROVE MapsTypeOK'
    BY <2>11 DEF ExpireMemo, MapsTypeOK
  <2>12. ASSUME NEW i \in Instances, Crash(i) PROVE MapsTypeOK'
    BY <2>12 DEF Crash, MapsTypeOK, Places
  <2>13. ASSUME NEW p \in Places, ExpireCopy(p) PROVE MapsTypeOK'
    BY <2>13 DEF ExpireCopy, MapsTypeOK
  <2>14. CASE UNCHANGED mapsVars
    BY <2>14 DEF mapsVars, MapsTypeOK
  <2> QED
    BY <2>1, <2>2, <2>3, <2>4, <2>5, <2>6, <2>7, <2>8, <2>9, <2>10, <2>11, <2>12, <2>13, <2>14 DEF MapsNext
<1> QED
  BY <1>1, <1>2, PTL DEF MapsSpec
-----------------------------------------------------------------------------
(* Steps that leave the stored map alone.                                    *)

\* A handler goes on with a job that knows what it should.
LEMMA MoveFresh ==
  ASSUME MapsTypeOK, JobsFresh, NEW w \in Workers, NEW job, Move(w, job),
         db' = db, astray' = astray,
         job # AtRest => JobOK(job) /\ (w[2] = Page => job.at \notin Writing)
  PROVE  JobsFresh'
<1>1. \A v \in Workers : work'[v] = IF v = w THEN job ELSE work[v]
  BY DEF Move, MapsTypeOK
<1> QED
  BY <1>1 DEF JobsFresh, JobOK

\* A toggle changes its entry in the map it read, a page is done.
LEMMA HaveFresh ==
  ASSUME MapsTypeOK, JobsFresh, NEW w \in Workers, NEW job \in Job, HaveMap(w, job),
         db' = db, astray' = astray, ~job.behind => Agrees(job.map)
  PROVE  JobsFresh'
<1> DEFINE next == [job EXCEPT !.at = "cache", !.map = Changed(job)]
<1>1. /\ next.at = "cache" /\ next.on = job.on /\ next.list = job.list
      /\ next.map = Changed(job) /\ next.behind = job.behind
  BY DEF Job
<1>2. job.list \in BOOLEAN
  BY DEF Job
<1>3. JobOK(next)
  BY <1>1, <1>2 DEF JobOK, JobOn, Changed, Agrees
<1>4. next # AtRest
  BY MapsSentinels, <1>1, HaveMapType, MapsTypeOK DEF Job, Changed
<1> QED
  BY <1>3, WorkersType, MoveFresh DEF HaveMap, Toggle, Page

\* A handler that does not leave "drop" leaves the memos as good as they were.
LEMMA MemoKept ==
  ASSUME MapsTypeOK, MemoFresh, NEW w \in Workers, NEW job, Move(w, job), ~Doing(w, "drop"),
         memo' = memo, db' = db, astray' = astray
  PROVE  MemoFresh'
<1>1. \A v \in Workers \ {w} : work'[v] = work[v]
  BY DEF Move, MapsTypeOK
<1>2. \A i \in Instances : Dropping(i) => Dropping(i)'
  BY <1>1 DEF Dropping, Doing, Resting
<1> QED
  BY <1>2 DEF MemoFresh, Agrees

\* One that is not at "db" leaves the copies as good as they were.
LEMMA CopyKept ==
  ASSUME MapsTypeOK, CopyFresh, NEW w \in Workers, NEW job, Move(w, job), ~Doing(w, "db"),
         cache' = cache, aside' = aside, db' = db, astray' = astray, oneCache' = oneCache
  PROVE  CopyFresh'
<1>1. \A v \in Workers \ {w} : work'[v] = work[v]
  BY DEF Move, MapsTypeOK
<1> QED
  BY <1>1 DEF CopyFresh, Agrees, Doing, Resting, Place, Places

LEMMA HaveIsMove ==
  ASSUME NEW w, NEW job, HaveMap(w, job)
  PROVE  \E next : Move(w, next)
BY DEF HaveMap

LEMMA KeptKept == ASSUME Kept, db' = db, told' = told, astray' = astray PROVE Kept'
BY DEF Kept
-----------------------------------------------------------------------------
(* Steps that store the map.                                                 *)

\* The other handlers are put behind, and so are the other memos.
LEMMA OvertakenJobs ==
  ASSUME MapsTypeOK, JobsFresh, NEW w \in Workers, ~Resting(w), Overtaken(w),
         JobOn([work[w] EXCEPT !.at = "memo"], db', astray'),
         work[w].at \in {"repair", "db"}
  PROVE  JobsFresh'
<1>1. \A v \in Workers \ {w} : work'[v] = IF Resting(v) THEN AtRest ELSE [work[v] EXCEPT !.behind = @ \/ work[v].at # "load"]
  BY DEF Overtaken, Resting
<1>2. work'[w] = [work[w] EXCEPT !.at = IF @ = "repair" THEN "memo" ELSE "drop"]
  BY DEF Overtaken
<1>3. \A v \in Workers \ {w} : ~Resting(v) => /\ JobOn(work'[v], db', astray')
                                              /\ v[2] = Page => work'[v].at \notin Writing
  <2> SUFFICES ASSUME NEW v \in Workers \ {w}, ~Resting(v)
               PROVE  JobOn(work'[v], db', astray') /\ (v[2] = Page => work'[v].at \notin Writing)
    OBVIOUS
  <2>1. work[v] \in Job /\ JobOK(work[v]) /\ (v[2] = Page => work[v].at \notin Writing)
    BY JobType DEF Resting, JobsFresh
  <2>2. /\ work'[v].at = work[v].at /\ work'[v].map = work[v].map /\ work'[v].on = work[v].on
        /\ work'[v].list = work[v].list /\ work'[v].behind = (work[v].behind \/ work[v].at # "load")
    BY <1>1, <2>1 DEF Job
  <2> QED
    BY <2>1, <2>2 DEF JobOK, JobOn
<1>4. JobOn(work'[w], db', astray') /\ (w[2] = Page => work'[w].at \notin Writing)
  <2>1. work[w] \in Job /\ (w[2] = Page => work[w].at \notin Writing)
    BY JobType DEF Resting, JobsFresh
  <2>2. CASE work[w].at = "repair"
    BY <1>2, <2>1, <2>2 DEF Job, Writing
  <2>3. CASE work[w].at = "db"
    <3>1. work'[w].at = "drop"
      BY <1>2, <2>1, <2>3 DEF Job
    <3> QED
      BY <2>1, <2>3, <3>1 DEF JobOn, Writing
  <2> QED
    BY <2>2, <2>3
<1>5. \A v \in Workers : work'[v] # AtRest => /\ JobOn(work'[v], db', astray')
                                              /\ v[2] = Page => work'[v].at \notin Writing
  <2> SUFFICES ASSUME NEW v \in Workers, work'[v] # AtRest
               PROVE  JobOn(work'[v], db', astray') /\ (v[2] = Page => work'[v].at \notin Writing)
    OBVIOUS
  <2>1. CASE v = w
    BY <1>4, <2>1
  <2>2. CASE v # w
    <3>1. ~Resting(v)
      BY <1>1, <2>2
    <3>2. v \in Workers \ {w}
      BY <2>2
    <3> QED
      BY <1>3, <3>1, <3>2, Zenon
  <2> QED
    BY <2>1, <2>2
<1> QED
  BY <1>5 DEF JobsFresh, JobOK

LEMMA OvertakenMemo ==
  ASSUME MapsTypeOK, NEW w \in Workers, Overtaken(w)
  PROVE  \A i \in Instances : /\ i # Inst(w) /\ memo'[i] # NoMemo => memo'[i].behind
                              /\ i = Inst(w) => memo'[i] = memo[i]
<1>1. \A i \in Instances : memo[i] # NoMemo => memo[i] \in Memo
  BY DEF MapsTypeOK
<1> QED
  BY <1>1 DEF Overtaken, Memo
-----------------------------------------------------------------------------
\* Every step keeps the handlers, the memos and the copies true to the stored map.
LEMMA MapsStepKeeps == MapsInv /\ MapsTypeOK' /\ [MapsNext]_mapsVars => MapsInv'
<1> SUFFICES ASSUME MapsInv, MapsTypeOK', [MapsNext]_mapsVars PROVE MapsInv'
  OBVIOUS
<1> USE DEF MapsInv
<1>1. ASSUME NEW w \in Workers, BeginPage(w) PROVE MapsInv'
  <2>1. Move(w, NewJob) /\ ~Doing(w, "drop") /\ ~Doing(w, "db")
    BY <1>1 DEF BeginPage, Doing
  <2>2. JobOK(NewJob) /\ NewJob.at \notin Writing
    BY DEF NewJob, JobOK, JobOn, Writing
  <2> QED
    BY <1>1, <2>1, <2>2, MoveFresh, MemoKept, CopyKept, KeptKept DEF BeginPage
<1>2. ASSUME NEW w \in Workers, NEW e \in Entries, NEW list \in BOOLEAN, BeginToggle(w, e, list)
      PROVE  MapsInv'
  <2> DEFINE job == [NewJob EXCEPT !.on = {e}, !.list = list]
  <2>1. Move(w, job) /\ ~Doing(w, "drop") /\ ~Doing(w, "db")
    BY <1>2 DEF BeginToggle, Doing
  <2>2. JobOK(job) /\ job.at \notin Writing
    BY DEF NewJob, JobOK, JobOn, Writing
  <2> HIDE DEF job
  <2> QED
    BY <1>2, <2>1, <2>2, MoveFresh, MemoKept, CopyKept, KeptKept DEF BeginToggle
<1>3. ASSUME NEW w \in Workers, Hit(w) PROVE MapsInv'
  <2> DEFINE job == [work[w] EXCEPT !.map = memo[Inst(w)].map, !.behind = memo[Inst(w)].behind]
  <2>1. HaveMap(w, job) /\ Doing(w, "load") /\ memo[Inst(w)] # NoMemo
    BY <1>3 DEF Hit
  <2>2. work[w] \in Job /\ memo[Inst(w)] \in Memo
    BY <2>1, WorkersType, JobType DEF Doing, Resting, MapsTypeOK
  <2>3. job \in Job /\ job.map = memo[Inst(w)].map /\ job.behind = memo[Inst(w)].behind
    BY <2>2 DEF Job, Memo
  <2>4. ~Doing(w, "drop") /\ ~Doing(w, "db")
    BY <2>1 DEF Doing
  <2>5. PICK next : Move(w, next)
    BY <2>1, HaveIsMove
  <2>6. MemoFresh' /\ CopyFresh' /\ Kept'
    BY <1>3, <2>4, <2>5, MemoKept, CopyKept, KeptKept DEF Hit
  <2>7. CASE w[2] = Page
    <3>1. Move(w, AtRest)
      BY <2>1, <2>7 DEF HaveMap
    <3> QED
      BY <1>3, <2>6, <3>1, MoveFresh DEF Hit
  <2>8. CASE w[2] = Toggle
    <3>1. \A v \in Workers : Inst(v) = Inst(w) /\ v # w => v[2] = Page
      BY <2>8 DEF Workers, Inst
    <3>2. ~Dropping(Inst(w))
      BY <2>4, <3>1 DEF Dropping, Doing, Resting, JobsFresh, Writing
    <3>3. ~job.behind => Agrees(job.map)
      BY <2>1, <2>3, <3>2, WorkersType DEF MemoFresh
    <3> HIDE DEF job
    <3> QED
      BY <1>3, <2>1, <2>3, <2>6, <3>3, HaveFresh DEF Hit
  <2> QED
    BY <2>7, <2>8, WorkersType
<1>4. ASSUME NEW w \in Workers, NEW ok \in BOOLEAN, ReadStored(w, ok) PROVE MapsInv'
  <2> DEFINE found == [work[w] EXCEPT !.at = "memo", !.map = IF ok THEN db ELSE {}]
             lost == [work[w] EXCEPT !.at = "lookup", !.behind = ~ok]
  <2>1. work[w] \in Job /\ Doing(w, "load") /\ ~Doing(w, "drop") /\ ~Doing(w, "db")
    BY <1>4, JobType DEF ReadStored, Doing, Resting
  <2>2. PICK job : /\ Move(w, job)
                   /\ \/ job = found /\ ok
                      \/ job = lost /\ (ok => db = {})
    BY <1>4 DEF ReadStored
  <2>3. work[w].map = {}
    BY <2>1 DEF JobsFresh, JobOK, JobOn, Doing, Resting
  <2>4. JobOK(job) /\ job.at \notin Writing
    BY <2>1, <2>2, <2>3 DEF JobOK, JobOn, Job, Writing
  <2> QED
    BY <1>4, <2>1, <2>2, <2>4, MoveFresh, MemoKept, CopyKept, KeptKept DEF ReadStored
<1>5. ASSUME NEW w \in Workers, LookUp(w) PROVE MapsInv'
  <2> DEFINE p == Place(Inst(w))
             none == [work[w] EXCEPT !.at = "memo"]
             copy == [work[w] EXCEPT !.at = "repair", !.map = cache[p], !.behind = aside[p] # {}]
  <2>1. work[w] \in Job /\ Doing(w, "lookup") /\ ~Doing(w, "drop") /\ ~Doing(w, "db") /\ p \in Places
    BY <1>5, JobType, WorkersType DEF LookUp, Doing, Resting
  <2>2. PICK job : /\ Move(w, job)
                   /\ \/ job = none
                      \/ job = copy /\ cache[p] # {}
    BY <1>5 DEF LookUp
  <2>3. JobOK(work[w])
    BY <2>1 DEF JobsFresh, Doing, Resting
  <2>6. JobOK(job) /\ job.at \notin Writing
    <3>1. CASE job = none
      BY <2>1, <2>3, <3>1 DEF JobOK, JobOn, Job, Writing, Doing
    <3>2. CASE job = copy /\ cache[p] # {}
      <4>1. aside[p] = {} => Agrees(cache[p])
        BY <2>1, <3>2 DEF CopyFresh
      <4> QED
        BY <2>1, <3>2, <4>1 DEF JobOK, JobOn, Job, Writing, Agrees
    <3> QED
      BY <2>2, <3>1, <3>2
  <2> QED
    BY <1>5, <2>1, <2>2, <2>6, MoveFresh, MemoKept, CopyKept, KeptKept DEF LookUp
<1>6. ASSUME NEW w \in Workers, NEW ok \in BOOLEAN, Repair(w, ok) PROVE MapsInv'
  <2>1. work[w] \in Job /\ ~Resting(w) /\ work[w].at = "repair" /\ JobOK(work[w])
    BY <1>6, JobType DEF Repair, Doing, Resting, JobsFresh
  <2> DEFINE next == [work[w] EXCEPT !.at = "memo"]
  <2>2. /\ next.at = "memo" /\ next.map = work[w].map /\ next.behind = work[w].behind
        /\ next.on = work[w].on /\ next.list = work[w].list
    BY <2>1 DEF Job
  <2>3. CASE ~ok
    <3>1. Move(w, next) /\ ~Doing(w, "drop") /\ ~Doing(w, "db")
      BY <1>6, <2>1, <2>3 DEF Repair, Doing
    <3>2. JobOK(next) /\ next.at \notin Writing
      BY <2>1, <2>2 DEF JobOK, JobOn, Writing
    <3> HIDE DEF next
    <3> QED
      BY <1>6, <2>3, <3>1, <3>2, MoveFresh, MemoKept, CopyKept, KeptKept DEF Repair
  <2>4. CASE ok
    <3>1. /\ db' = work[w].map /\ Overtaken(w) /\ cache' = cache /\ told' = told /\ oneCache' = oneCache
          /\ aside' = AsideAfter(w, ~work[w].behind /\ aside[Place(Inst(w))] = {})
          /\ astray' = IF work[w].behind THEN Entries ELSE astray
      BY <1>6, <2>4 DEF Repair
    <3>2. \A e \in Entries \ astray' : e \notin astray /\ (e \in db' <=> e \in db)
      BY <2>1, <3>1 DEF JobOK, JobOn, Agrees
    <3>3. JobOn(next, db', astray')
      BY <2>2, <3>1 DEF JobOn
    <3>4. JobsFresh'
      BY <2>1, <3>1, <3>3, OvertakenJobs
    <3>5. \A m : Agrees(m) => \A e \in Entries \ astray' : e \in m <=> e \in db'
      BY <3>2 DEF Agrees
    <3>6. MemoFresh'
      <4> SUFFICES ASSUME NEW i \in Instances, memo'[i] # NoMemo, ~memo'[i].behind, ~Dropping(i)'
                   PROVE  \A e \in Entries \ astray' : e \in memo'[i].map <=> e \in db'
        BY DEF MemoFresh, Agrees
      <4>1. i = Inst(w) /\ memo'[i] = memo[i]
        BY <3>1, OvertakenMemo
      <4>2. \A v \in Workers : Doing(v, "drop") => Doing(v, "drop")'
        <5> SUFFICES ASSUME NEW v \in Workers, Doing(v, "drop") PROVE Doing(v, "drop")'
          OBVIOUS
        <5>1. v # w /\ ~Resting(v) /\ work[v] \in Job
          BY <2>1, JobType DEF Doing, Resting
        <5>2. work'[v].at = "drop" /\ work'[v] \in Job
          BY <3>1, <5>1 DEF Overtaken, Doing, Job
        <5> QED
          BY <5>2, MapsSentinels DEF Doing, Resting
      <4>3. ~Dropping(i)
        BY <4>2 DEF Dropping
      <4> QED
        BY <3>5, <4>1, <4>3 DEF MemoFresh
    <3>7. CopyFresh'
      <4>1. \A q \in Places : aside'[q] \in {{}, Workers} /\ (aside'[q] = {} => q = Place(Inst(w)) /\ aside[q] = {})
        BY <3>1, ManyWorkers DEF AsideAfter
      <4> QED
        BY <3>1, <3>5, <4>1, ManyWorkers DEF CopyFresh, Agrees, Places
    <3>8. Kept'
      BY <3>1, <3>2 DEF Kept
    <3> QED
      BY <3>4, <3>6, <3>7, <3>8
  <2> QED
    BY <2>3, <2>4
<1>7. ASSUME NEW w \in Workers, Memoise(w) PROVE MapsInv'
  <2>1. work[w] \in Job /\ Doing(w, "memo") /\ ~Doing(w, "drop") /\ ~Doing(w, "db") /\ JobOK(work[w])
    BY <1>7, JobType DEF Memoise, Doing, Resting, JobsFresh
  <2>2. HaveMap(w, work[w]) /\ (~work[w].behind => Agrees(work[w].map))
    BY <1>7, <2>1 DEF Memoise, JobOK, JobOn, Agrees, Doing
  <2>3. JobsFresh'
    BY <1>7, <2>1, <2>2, HaveFresh DEF Memoise
  <2>4. PICK next : Move(w, next)
    BY <2>2, HaveIsMove
  <2>5. CopyFresh' /\ Kept'
    BY <1>7, <2>1, <2>4, CopyKept, KeptKept DEF Memoise
  <2>6. \A v \in Workers \ {w} : work'[v] = work[v]
    BY <2>4 DEF Move, MapsTypeOK
  <2>7. \A i \in Instances : Dropping(i) => Dropping(i)'
    BY <2>1, <2>6 DEF Dropping, Doing, Resting
  <2>8. memo' = [memo EXCEPT ![Inst(w)] = [map |-> work[w].map, behind |-> work[w].behind]]
    BY <1>7 DEF Memoise
  <2>9. MemoFresh'
    BY <1>7, <2>2, <2>7, <2>8 DEF MemoFresh, Agrees, Memoise, MapsTypeOK
  <2> QED
    BY <2>3, <2>5, <2>9
<1>8. ASSUME NEW w \in Workers, PutCopy(w) PROVE MapsInv'
  <2>1. work[w] \in Job /\ Doing(w, "cache") /\ ~Doing(w, "drop") /\ JobOK(work[w]) /\ Place(Inst(w)) \in Places
    BY <1>8, JobType, WorkersType DEF PutCopy, Doing, Resting, JobsFresh
  <2> DEFINE next == [work[w] EXCEPT !.at = "db"]
  <2>2. /\ next \in Job /\ next.at = "db" /\ next.map = work[w].map /\ next.behind = work[w].behind
        /\ next.on = work[w].on /\ next.list = work[w].list
    BY <2>1 DEF Job
  <2>3. JobOK(next) /\ (w[2] = Page => next.at \notin Writing)
    BY <2>1, <2>2 DEF JobOK, JobOn, JobsFresh, Writing, Doing, Resting
  <2>4. Move(w, next)
    BY <1>8 DEF PutCopy
  <2>5. work' = [work EXCEPT ![w] = next] /\ next # AtRest
    BY <2>2, <2>4, MapsSentinels DEF Move
  <2> HIDE DEF next
  <2>6. JobsFresh' /\ MemoFresh' /\ Kept'
    BY <1>8, <2>1, <2>3, <2>4, MoveFresh, MemoKept, KeptKept DEF PutCopy
  <2>7. CopyFresh'
    <3>1. /\ cache' = [cache EXCEPT ![Place(Inst(w))] = work[w].map]
          /\ aside' = [aside EXCEPT ![Place(Inst(w))] = {w}]
          /\ db' = db /\ astray' = astray /\ oneCache' = oneCache
      BY <1>8 DEF PutCopy
    <3>2. Doing(w, "db")' /\ work'[w].map = work[w].map
      BY <2>2, <2>5 DEF Doing, Resting, MapsTypeOK
    <3>3. \A v \in Workers : Doing(v, "db") => v # w /\ work'[v] = work[v]
      BY <2>1, <2>5 DEF Doing, MapsTypeOK
    <3> SUFFICES ASSUME NEW p \in Places
                 PROVE  /\ aside'[p] = {} /\ cache'[p] # {} => Agrees(cache'[p])
                        /\ \A v \in Workers : aside'[p] = {v} => /\ Doing(v, "db")' /\ p = Place(Inst(v))
                                                                 /\ cache'[p] \in {{}, work'[v].map}
      BY <3>1 DEF CopyFresh, Agrees, Places, Place
    <3>4. CASE p = Place(Inst(w))
      BY <3>1, <3>2, <3>4 DEF MapsTypeOK
    <3>5. CASE p # Place(Inst(w))
      <4>1. aside'[p] = aside[p] /\ cache'[p] = cache[p]
        BY <3>1, <3>5 DEF MapsTypeOK
      <4> QED
        BY <3>3, <4>1 DEF CopyFresh, Doing, Resting
    <3> QED
      BY <3>4, <3>5
  <2> QED
    BY <2>6, <2>7
<1>9. ASSUME NEW w \in Workers, NEW ok \in BOOLEAN, PutStored(w, ok) PROVE MapsInv'
  <2>1. work[w] \in Job /\ ~Resting(w) /\ work[w].at = "db" /\ JobOK(work[w])
    BY <1>9, JobType DEF PutStored, Doing, Resting, JobsFresh
  <2>2. told' = IF work[w].list THEN told \cup work[w].on ELSE told \ work[w].on
    BY <1>9 DEF PutStored
  <2> DEFINE next == [work[w] EXCEPT !.at = "drop"]
  <2>3. CASE ~ok
    <3>1. /\ Move(w, next) /\ astray' = astray \cup work[w].on /\ db' = db /\ memo' = memo
          /\ aside' = [aside EXCEPT ![Place(Inst(w))] = Workers] /\ cache' = cache /\ oneCache' = oneCache
      BY <1>9, <2>3 DEF PutStored
    <3>2. next.at = "drop" /\ next # AtRest
      BY <2>1, MapsSentinels DEF Job
    <3> HIDE DEF next
    <3>3. work' = [work EXCEPT ![w] = next] /\ \A v \in Workers : work'[v] = IF v = w THEN next ELSE work[v]
      BY <3>1 DEF Move, MapsTypeOK
    <3>4. JobsFresh'
      <4>1. \A v \in Workers : JobOn(work[v], db, astray) => JobOn(work[v], db', astray')
        BY <3>1 DEF JobOn
      <4>2. JobOn(next, db', astray') /\ (w[2] = Page => next.at \notin Writing)
        BY <2>1, <3>2 DEF JobOn, JobsFresh, Writing, Resting
      <4> QED
        BY <3>3, <4>1, <4>2 DEF JobsFresh, JobOK
    <3>5. \A m : Agrees(m) => Agrees(m)'
      BY <3>1 DEF Agrees
    <3>6. MemoFresh'
      <4>1. \A i \in Instances : Dropping(i) => Dropping(i)'
        BY <2>1, <3>3 DEF Dropping, Doing, Resting
      <4> QED
        BY <3>1, <4>1 DEF MemoFresh, Agrees
    <3>7. CopyFresh'
      <4>1. \A p \in Places : IF p = Place(Inst(w)) THEN aside'[p] = Workers ELSE aside'[p] = aside[p]
        BY <3>1 DEF MapsTypeOK
      <4>2. \A p \in Places : aside[p] = {w} => p = Place(Inst(w))
        BY DEF CopyFresh
      <4> QED
        BY <3>1, <3>3, <4>1, <4>2, ManyWorkers DEF CopyFresh, Agrees, Doing, Resting, Places, Place
    <3>8. Kept'
      BY <2>2, <3>1 DEF Kept
    <3> QED
      BY <3>4, <3>6, <3>7, <3>8
  <2>4. CASE ok
    <3>1. /\ db' = work[w].map /\ Overtaken(w) /\ cache' = cache /\ oneCache' = oneCache
          /\ aside' = AsideAfter(w, aside[Place(Inst(w))] = {w})
          /\ astray' = (IF work[w].behind THEN Entries ELSE astray) \ work[w].on
      BY <1>9, <2>4 DEF PutStored
    <3>2. JobOn([work[w] EXCEPT !.at = "memo"], db', astray')
      BY <2>1, <3>1 DEF JobOn, Job
    <3>3. JobsFresh'
      BY <2>1, <3>1, <3>2, OvertakenJobs
    <3>4. Doing(w, "drop")'
      <4>1. work'[w] = [work[w] EXCEPT !.at = "drop"]
        BY <2>1, <3>1 DEF Overtaken
      <4> QED
        BY <2>1, <4>1, MapsSentinels DEF Doing, Resting, Job
    <3>5. MemoFresh'
      BY <3>1, <3>4, OvertakenMemo DEF MemoFresh, Dropping
    <3>6. CopyFresh'
      <4>1. \A p \in Places : /\ aside'[p] \in {{}, Workers}
                              /\ aside'[p] = {} => p = Place(Inst(w)) /\ aside[p] = {w}
        BY <3>1, ManyWorkers DEF AsideAfter
      <4>2. \A p \in Places : aside'[p] = {} => cache[p] \in {{}, work[w].map}
        BY <4>1 DEF CopyFresh
      <4>3. \A p \in Places : aside'[p] = {} /\ cache'[p] # {} => cache'[p] = db'
        BY <3>1, <4>2
      <4>4. \A p \in Places, v \in Workers : aside'[p] # {v}
        BY <4>1, ManyWorkers
      <4> QED
        BY <3>1, <4>3, <4>4 DEF CopyFresh, Agrees, Places
    <3>7. Kept'
      BY <2>1, <2>2, <3>1 DEF JobOK, JobOn, Kept
    <3> QED
      BY <3>3, <3>5, <3>6, <3>7
  <2> QED
    BY <2>3, <2>4
<1>10. ASSUME NEW w \in Workers, Drop(w) PROVE MapsInv'
  <2>1. Move(w, AtRest) /\ Doing(w, "drop") /\ ~Doing(w, "db")
    BY <1>10 DEF Drop, Doing
  <2>2. JobsFresh' /\ CopyFresh' /\ Kept'
    BY <1>10, <2>1, MoveFresh, CopyKept, KeptKept DEF Drop
  <2>3. memo' = [memo EXCEPT ![Inst(w)] = NoMemo] /\ db' = db /\ astray' = astray
    BY <1>10 DEF Drop
  <2>4. \A v \in Workers : Inst(v) # Inst(w) => work'[v] = work[v]
    BY <2>1 DEF Move, MapsTypeOK
  <2>5. \A i \in Instances : i # Inst(w) /\ Dropping(i) => Dropping(i)'
    BY <2>4 DEF Dropping, Doing, Resting
  <2>6. MemoFresh'
    BY <2>3, <2>5 DEF MemoFresh, Agrees, MapsTypeOK
  <2> QED
    BY <2>2, <2>6
<1>11. ASSUME NEW i \in Instances, ExpireMemo(i) PROVE MapsInv'
  BY <1>11 DEF ExpireMemo, MapsTypeOK, JobsFresh, JobOK, MemoFresh, CopyFresh, Kept, Agrees, Dropping, Doing, Resting,
              Place, Places
<1>12. ASSUME NEW i \in Instances, Crash(i) PROVE MapsInv'
  <2>1. /\ memo' = [memo EXCEPT ![i] = NoMemo] /\ db' = db /\ astray' = astray /\ told' = told
        /\ cache' = [cache EXCEPT ![i] = {}] /\ oneCache' = oneCache
        /\ work' = [w \in Workers |-> IF Inst(w) = i THEN AtRest ELSE work[w]]
        /\ aside' = [p \in Places |-> IF \E w \in aside[p] : Inst(w) = i THEN Workers ELSE aside[p]]
    BY <1>12 DEF Crash
  <2>2. JobsFresh'
    BY <2>1 DEF JobsFresh, JobOK
  <2>3. \A j \in Instances : j # i /\ Dropping(j) => Dropping(j)'
    BY <2>1 DEF Dropping, Doing, Resting
  <2>4. MemoFresh'
    BY <2>1, <2>3 DEF MemoFresh, Agrees, MapsTypeOK
  <2>5. \A p \in Places : /\ aside'[p] = {} => aside[p] = {}
                          /\ \A v \in Workers : aside'[p] = {v} => aside[p] = {v} /\ work'[v] = work[v]
                          /\ cache'[p] \in {{}, cache[p]}
    BY <2>1, ManyWorkers DEF MapsTypeOK
  <2>6. CopyFresh'
    <3> SUFFICES ASSUME NEW p \in Places
                 PROVE  /\ aside'[p] = {} /\ cache'[p] # {} => Agrees(cache'[p])
                        /\ \A v \in Workers : aside'[p] = {v} => /\ Doing(v, "db")' /\ p = Place(Inst(v))
                                                                 /\ cache'[p] \in {{}, work'[v].map}
      BY <2>1 DEF CopyFresh, Agrees, Places, Place
    <3>1. aside'[p] = {} /\ cache'[p] # {} => Agrees(cache'[p])
      <4> SUFFICES ASSUME aside'[p] = {}, cache'[p] # {} PROVE Agrees(cache'[p])
        OBVIOUS
      <4>1. aside[p] = {} /\ cache'[p] = cache[p]
        BY <2>5
      <4>2. Agrees(cache[p])
        BY <4>1 DEF CopyFresh
      <4> QED
        BY <4>1, <4>2 DEF Agrees
    <3>2. \A v \in Workers : aside'[p] = {v} => /\ Doing(v, "db")' /\ p = Place(Inst(v))
                                                /\ cache'[p] \in {{}, work'[v].map}
      BY <2>5 DEF CopyFresh, Doing, Resting
    <3> QED
      BY <3>1, <3>2
  <2>7. Kept'
    BY <2>1, KeptKept
  <2> QED
    BY <2>2, <2>4, <2>6, <2>7
<1>13. ASSUME NEW p \in Places, ExpireCopy(p) PROVE MapsInv'
  BY <1>13 DEF ExpireCopy, MapsTypeOK, JobsFresh, JobOK, MemoFresh, CopyFresh, Kept, Agrees, Dropping, Doing, Resting,
              Place, Places
<1>14. CASE UNCHANGED mapsVars
  BY <1>14 DEF mapsVars, JobsFresh, JobOK, MemoFresh, CopyFresh, Kept, Agrees, Dropping, Doing, Resting, Place, Places
<1> QED
  BY <1>1, <1>2, <1>3, <1>4, <1>5, <1>6, <1>7, <1>8, <1>9, <1>10, <1>11, <1>12, <1>13, <1>14 DEF MapsNext
-----------------------------------------------------------------------------
\* An entry is as the administrators were last told, unless its write was lost or
\* the map was stored by a handler that had not read the last one.
THEOREM EntriesKept == MapsSpec => []Kept
<1>1. MapsInit => MapsInv
  <2> SUFFICES ASSUME MapsInit PROVE MapsInv
    OBVIOUS
  <2>1. MapsTypeOK
    BY MapsAssumption DEF MapsInit, MapsTypeOK
  <2> QED
    BY <2>1 DEF MapsInit, MapsInv, JobsFresh, MemoFresh, CopyFresh, Kept
<1>2. MapsInv /\ MapsTypeOK' /\ [MapsNext]_mapsVars => MapsInv'
  BY MapsStepKeeps
<1>3. MapsInv => Kept
  BY DEF MapsInv
<1> QED
  BY <1>1, <1>2, <1>3, MapsTypeCorrect, PTL DEF MapsSpec
=============================================================================
