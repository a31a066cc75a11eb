------------------------------- MODULE Access -------------------------------
(* Who has an account.  Students and administrators live in users, faculty in *)
(* a table of their own, and an address is meant to be in one of them.        *)
(* Faculty register through one-time invites.  A lookup that fails answers    *)
(* "no such row", and a request acts later on what it looked up.              *)
EXTENDS Naturals, FiniteSets

CONSTANTS People,     \* addresses of persons
          AdminEmails, FacultyEmails,  \* those the environment names
          MaxNumber,  \* the highest numbered invite (bound)
          MaxKeys,    \* passwords generated for invites (bound)
          Passwords,  \* what faculty choose
          Requests, MaxBegun,  \* handlers at work, and how many are begun (bound)
          ReadsFail,  \* whether a lookup may fail
          NoRow, Idle

ASSUME AccessAssumption == /\ AdminEmails \subseteq People /\ FacultyEmails \subseteq People
                           /\ MaxNumber \in Nat /\ MaxKeys \in Nat /\ MaxBegun \in Nat /\ ReadsFail \in BOOLEAN
                           /\ People \cap Nat = {}

VARIABLES users,     \* users: the role of each address
          faculty,   \* faculty
          invite,    \* faculty_invites
          shown,     \* the keys an administrator was shown, with their numbers
          keys,      \* how many were generated
          token,     \* the invites for which a browser holds the setup cookie
          req,       \* what each request is doing
          begun,     \* how many requests have begun
          misread,   \* addresses written by a request that misread them or was overtaken
          slipped,   \* invites whose mark was lost, or that were acted on half-way or likewise
          reissued   \* numbers stored again by a mint that misread them or was overtaken

vars == <<users, faculty, invite, shown, keys, token, req, begun, misread, slipped, reissued>>
-----------------------------------------------------------------------------
Numbers == 1..MaxNumber
EnvInvite == 0                      \* the invite of the environment has no row until used
Invites == Numbers \cup {EnvInvite}

\* The number n stands for the address facultyn@dashboard.local as well.
Addresses == People \cup Numbers
Roles == {"student", "admin"}       \* of the rows of users
NoPassword == "google"              \* a row that Google created
FacultyRow == [password : Passwords \cup {NoPassword}, via : Invites \cup {NoRow}]
Invite == [key : 0..MaxKeys, used : BOOLEAN, by : Addresses \cup {NoRow}]

\* on: the address or, of a mint, the number it is at.  blind: a lookup failed, or
\* the rows it looked up were written since; blindInvite is that of the invite.
Request ==
  [kind : {"mint", "setup", "google", "register"}, on : Addresses \cup {0, MaxNumber + 1},
   inv : Invites \cup {NoRow}, password : Passwords \cup {NoPassword},
   role : Roles \cup {"faculty"}, blind : BOOLEAN, blindInvite : BOOLEAN,
   pc : {"try", "store", "show", "create", "insert", "mark", "write"}]

ASSUME AccessSentinels == NoRow \notin FacultyRow \cup Invite \cup Roles \cup Addresses \cup Invites
                    /\ Idle \notin Request

Init == /\ users = [e \in Addresses |-> NoRow]
        /\ faculty = [e \in Addresses |-> NoRow]
        /\ invite = [n \in Invites |-> NoRow]
        /\ shown = {} /\ keys = 0 /\ token = {}
        /\ req = [r \in Requests |-> Idle] /\ begun = 0
        /\ misread = {} /\ slipped = {} /\ reissued = {}
-----------------------------------------------------------------------------
(* Lookups and requests.                                                     *)

\* Whether a lookup answers.
Answers == IF ReadsFail THEN BOOLEAN ELSE {TRUE}

\* What a lookup finds: nothing, if it fails.
UserRow(e, ok) == IF ok THEN users[e] ELSE NoRow
FacultyOf(e, ok) == IF ok THEN faculty[e] ELSE NoRow
InviteRow(n, ok) == IF ok THEN invite[n] ELSE NoRow
Listed(ok) == {n \in Numbers : InviteRow(n, ok) # NoRow}

\* get_account: the users table first, then faculty; u and f: which lookups answer.
HasAccount(e, u, f) == UserRow(e, u) # NoRow \/ FacultyOf(e, f) # NoRow

\* get_faculty_invite: without a row, the invite of the environment is unused.
SeesUnused(n, ok) == IF InviteRow(n, ok) # NoRow THEN ~invite[n].used ELSE n = EnvInvite

NewRequest(kind, e) ==
  [kind |-> kind, on |-> e, inv |-> NoRow, password |-> NoPassword, role |-> "student",
   blind |-> FALSE, blindInvite |-> FALSE, pc |-> "try"]

Begins(r, request) == /\ req[r] = Idle /\ begun < MaxBegun /\ begun' = begun + 1
                      /\ req' = [req EXCEPT ![r] = request]
At(r, kind, pc) == req[r] # Idle /\ req[r].kind = kind /\ req[r].pc = pc
GoesTo(r, pc) == req' = [req EXCEPT ![r].pc = pc]
Ends(r) == req' = [req EXCEPT ![r] = Idle]

\* r goes on with rest; requests on the same address or invite are overtaken.
SameAddress(q, r) == req[q].kind # "mint" /\ req[q].on = req[r].on
SameInvite(q, r) == req[r].inv # NoRow /\ req[q].inv = req[r].inv
Overtakes(r, rest) ==
  [q \in Requests |->
     IF q = r THEN rest
     ELSE IF req[q] = Idle THEN Idle
     ELSE [req[q] EXCEPT !.blind = @ \/ SameAddress(q, r), !.blindInvite = @ \/ SameInvite(q, r)]]

\* r writes the rows of its address.
Misreads(r) == misread' = IF req[r].blind THEN misread \cup {req[r].on} ELSE misread
Slips(r) == slipped' = IF req[r].blindInvite THEN slipped \cup {req[r].inv} ELSE slipped
-----------------------------------------------------------------------------
(* Minting: the next number, with a key that is shown once.                  *)

\* Faulty variant: it starts with the last number.
LastOf(n, set) == IF set = {} THEN n = 1 ELSE n \in set /\ \A m \in set : m <= n

\* n is one above the highest of set.
OneAbove(n, set) == (n = 1 \/ n - 1 \in set) /\ \A m \in set : m < n

\* mint_next_faculty_invite lists the invites; a failed list is an empty one.
MintList(r, n, ok) ==
  /\ keys < MaxKeys /\ OneAbove(n, Listed(ok))
  /\ Begins(r, [NewRequest("mint", n) EXCEPT !.blind = ~ok])
  /\ UNCHANGED <<users, faculty, invite, shown, keys, token, misread, slipped, reissued>>

\* It tries the numbers in turn: one that is somebody's address, or was used, is
\* passed over.
MintTry(r, ok) ==
  /\ At(r, "mint", "try") /\ req[r].on \in Numbers
  /\ LET n == req[r].on
         skips == HasAccount(n, ok, ok) \/ (InviteRow(n, ok) # NoRow /\ invite[n].used)
     IN req' = [req EXCEPT ![r] = IF skips THEN [@ EXCEPT !.on = n + 1]
                                  ELSE [@ EXCEPT !.pc = "store", !.blind = req[r].blind \/ ~ok]]
  /\ UNCHANGED <<users, faculty, invite, shown, keys, token, misread, slipped, reissued, begun>>

\* upsert_faculty_invite: a new row, or a new key for the old one.
Keyed(row, k) == IF row = NoRow THEN [key |-> k, used |-> FALSE, by |-> NoRow]
                 ELSE [row EXCEPT !.key = k]

\* create_faculty_invite; a number that cannot be stored is passed over too.
MintStore(r) ==
  /\ At(r, "mint", "store") /\ keys < MaxKeys
  /\ LET n == req[r].on IN
     /\ keys' = keys + 1
     /\ \/ /\ invite' = [invite EXCEPT ![n] = Keyed(@, keys')]
           /\ shown' = shown \cup {<<n, keys'>>}
           /\ req' = [q \in Requests |->
                        IF q = r \/ req[q] = Idle THEN Idle
                        ELSE [req[q] EXCEPT !.blind = @ \/ req[q].kind = "mint"]]
           /\ reissued' = IF req[r].blind THEN reissued \cup {n} ELSE reissued
        \/ /\ req' = [req EXCEPT ![r] = [@ EXCEPT !.on = n + 1, !.pc = "try"]]
           /\ UNCHANGED <<invite, shown, reissued>>
  /\ UNCHANGED <<users, faculty, token, misread, slipped, begun>>

\* No number is left, or the process ends.
MintFails(r) ==
  /\ req[r] # Idle /\ req[r].kind = "mint"
  /\ Ends(r)
  /\ UNCHANGED <<users, faculty, invite, shown, keys, token, misread, slipped, reissued, begun>>
-----------------------------------------------------------------------------
(* Using an invite.                                                          *)

\* Another setup has registered an account and has not marked the invite yet.
HalfWay(n) == \E q \in Requests : req[q] # Idle /\ req[q].inv = n /\ req[q].pc = "mark"

\* A browser that signs in with the key is given the setup cookie.  A cookie that has
\* expired is one that is not used again.
InviteLogin(n, k, ok) ==
  /\ SeesUnused(n, ok)
  /\ IF InviteRow(n, ok) # NoRow THEN invite[n].key = k /\ <<n, k>> \in shown ELSE k = 0
  /\ token' = token \cup {n}
  /\ UNCHANGED <<users, faculty, invite, shown, keys, req, misread, slipped, reissued, begun>>

\* Faulty variant: the cookie alone is enough.
SetupCheckTokenOnly(r, n, e, p, i, u, f) ==
  /\ n \in token /\ UserRow(e, u) = NoRow
  /\ FacultyOf(e, f) # NoRow => faculty[e].password = p
  /\ Begins(r, [NewRequest("setup", e) EXCEPT
       !.inv = n, !.password = p, !.blindInvite = ~i \/ HalfWay(n), !.blind = ~(u /\ f),
       !.pc = IF FacultyOf(e, f) # NoRow THEN "mark" ELSE "create"])
  /\ UNCHANGED <<users, faculty, invite, shown, keys, token, misread, slipped, reissued>>

\* complete_faculty_setup.  An address that has a faculty row is taken, unless the
\* password is the row's: then it is adopted, and only the invite is left to mark.
SetupCheck(r, n, e, p, i, u, f) ==
  /\ n \in token /\ SeesUnused(n, i)
  /\ UserRow(e, u) = NoRow
  /\ FacultyOf(e, f) # NoRow => faculty[e].password = p
  /\ Begins(r, [NewRequest("setup", e) EXCEPT
       !.inv = n, !.password = p, !.blindInvite = ~i \/ HalfWay(n), !.blind = ~(u /\ f),
       !.pc = IF FacultyOf(e, f) # NoRow THEN "mark" ELSE "create"])
  /\ UNCHANGED <<users, faculty, invite, shown, keys, token, misread, slipped, reissued>>

\* Faulty variant: only the faculty table is looked at.
SetupCreateFacultyOnly(r, u, f) ==
  /\ At(r, "setup", "create")
  /\ IF FacultyOf(req[r].on, f) # NoRow THEN Ends(r)
     ELSE req' = [req EXCEPT ![r].pc = "insert", ![r].blind = ~f]
  /\ UNCHANGED <<users, faculty, invite, shown, keys, token, misread, slipped, reissued, begun>>

\* create_faculty looks in both tables again ...
SetupCreate(r, u, f) ==
  /\ At(r, "setup", "create")
  /\ IF HasAccount(req[r].on, u, f) THEN Ends(r)
     ELSE req' = [req EXCEPT ![r].pc = "insert", ![r].blind = ~(u /\ f)]
  /\ UNCHANGED <<users, faculty, invite, shown, keys, token, misread, slipped, reissued, begun>>

\* ... and inserts, which the other table does not hinder.
SetupInsert(r) ==
  /\ At(r, "setup", "insert")
  /\ \/ /\ faculty[req[r].on] = NoRow
        /\ faculty' = [faculty EXCEPT ![req[r].on] = [password |-> req[r].password, via |-> req[r].inv]]
        /\ req' = Overtakes(r, [req[r] EXCEPT !.pc = "mark"])
        /\ Misreads(r) /\ Slips(r)
     \/ Ends(r) /\ UNCHANGED <<faculty, misread, slipped>>
  /\ UNCHANGED <<users, invite, shown, keys, token, reissued, begun>>

\* set_faculty_invite_used: a row that says so is made for the invite of the environment.
Used(row, e) == IF row = NoRow THEN [key |-> 0, used |-> TRUE, by |-> e]
                ELSE [row EXCEPT !.used = TRUE, !.by = e]

\* _mark_faculty_invite_used, whose failure nobody looks at, like the end of the process.
SetupMark(r) ==
  /\ At(r, "setup", "mark")
  /\ \/ /\ invite' = [invite EXCEPT ![req[r].inv] = Used(@, req[r].on)]
        /\ req' = Overtakes(r, Idle)
        /\ UNCHANGED slipped
     \/ /\ slipped' = slipped \cup {req[r].inv}
        /\ Ends(r) /\ UNCHANGED invite
  /\ UNCHANGED <<users, faculty, shown, keys, token, misread, reissued, begun>>
-----------------------------------------------------------------------------
(* The other ways to a row.                                                  *)

\* Faulty variant: who is not faculty is a student.
ResolveRoleTwoWay(e, u, f) ==
  IF e \in AdminEmails THEN "admin"
  ELSE IF e \in FacultyEmails \/ FacultyOf(e, f) # NoRow THEN "faculty" ELSE "student"

\* resolve_google_role: the lists of the environment go before both tables.
ResolveRole(e, u, f) ==
  IF e \in AdminEmails THEN "admin"
  ELSE IF e \in FacultyEmails \/ FacultyOf(e, f) # NoRow THEN "faculty"
  ELSE IF UserRow(e, u) # NoRow THEN users[e] ELSE "student"

\* The callback of a sign-in: the role, and of a student whether there is an account
\* at all; each looks the tables up on its own (u1, f1, then u2, f2).
GoogleCheck(r, e, u1, f1, u2, f2) ==
  LET role == ResolveRole(e, u1, f1) IN
  /\ role = "student" => HasAccount(e, u2, f2)
  /\ Begins(r, [NewRequest("google", e) EXCEPT
                  !.role = role, !.blind = ~(u1 /\ f1 /\ u2 /\ f2), !.pc = "write"])
  /\ UNCHANGED <<users, faculty, invite, shown, keys, token, misread, slipped, reissued>>

\* upsert_google_user: the table and the role follow from what was looked up.  The
\* password of a faculty row stays.
GoogleFaculty(r) ==
  /\ At(r, "google", "write") /\ req[r].role = "faculty"
  /\ LET e == req[r].on IN
     IF faculty[e] = NoRow
       THEN /\ faculty' = [faculty EXCEPT ![e] = [password |-> NoPassword, via |-> NoRow]]
            /\ req' = Overtakes(r, Idle)
       ELSE Ends(r) /\ UNCHANGED faculty
  /\ Misreads(r)
  /\ UNCHANGED <<users, invite, shown, keys, token, slipped, reissued, begun>>

\* Faulty variant: a faculty sign-in is stored in users too.
GoogleUserAnyRole(r) ==
  /\ At(r, "google", "write")
  /\ users' = [users EXCEPT ![req[r].on] = req[r].role]
  /\ IF users' = users THEN Ends(r) ELSE req' = Overtakes(r, Idle)
  /\ Misreads(r)
  /\ UNCHANGED <<faculty, invite, shown, keys, token, slipped, reissued, begun>>

GoogleUser(r) ==
  /\ At(r, "google", "write") /\ req[r].role # "faculty"
  /\ users' = [users EXCEPT ![req[r].on] = req[r].role]
  /\ IF users' = users THEN Ends(r) ELSE req' = Overtakes(r, Idle)
  /\ Misreads(r)
  /\ UNCHANGED <<faculty, invite, shown, keys, token, slipped, reissued, begun>>

\* The row cannot be written: the session is made all the same.
GoogleFails(r) ==
  /\ At(r, "google", "write") /\ Ends(r)
  /\ UNCHANGED <<users, faculty, invite, shown, keys, token, misread, slipped, reissued, begun>>

\* A sign-up commits a student; the seeding script makes an administrator, also of
\* an address that has a row in users already.
RegisterCheck(r, e, role, u, f) ==
  /\ IF role = "admin" THEN UserRow(e, u) # NoRow \/ FacultyOf(e, f) = NoRow ELSE ~HasAccount(e, u, f)
  /\ Begins(r, [NewRequest("register", e) EXCEPT !.role = role, !.blind = ~(u /\ f), !.pc = "write"])
  /\ UNCHANGED <<users, faculty, invite, shown, keys, token, misread, slipped, reissued>>

\* A sign-up inserts, the script inserts or updates.
RegisterInsert(r) ==
  /\ At(r, "register", "write")
  /\ \/ /\ users[req[r].on] = NoRow \/ req[r].role = "admin"
        /\ users' = [users EXCEPT ![req[r].on] = req[r].role]
        /\ req' = Overtakes(r, Idle)
        /\ Misreads(r)
     \/ Ends(r) /\ UNCHANGED <<users, misread>>
  /\ UNCHANGED <<faculty, invite, shown, keys, token, slipped, reissued, begun>>

Next ==
  \E r \in Requests :
    \/ \E ok \in Answers : MintTry(r, ok) \/ \E n \in 1..(MaxNumber + 1) : MintList(r, n, ok)
    \/ MintStore(r) \/ MintFails(r)
    \/ \E n \in Invites :
         \/ \E k \in 0..MaxKeys, ok \in Answers : InviteLogin(n, k, ok)
         \/ \E e \in Addresses, p \in Passwords, i, u, f \in Answers : SetupCheck(r, n, e, p, i, u, f)
    \/ \E u, f \in Answers : SetupCreate(r, u, f)
    \/ SetupInsert(r) \/ SetupMark(r)
    \/ \E e \in People, u1, f1, u2, f2 \in Answers : GoogleCheck(r, e, u1, f1, u2, f2)
    \/ GoogleFaculty(r) \/ GoogleUser(r) \/ GoogleFails(r)
    \/ \E e \in People, role \in Roles, u, f \in Answers : RegisterCheck(r, e, role, u, f)
    \/ RegisterInsert(r)

Spec == Init /\ [][Next]_vars
-----------------------------------------------------------------------------
TypeOK == /\ users \in [Addresses -> Roles \cup {NoRow}]
          /\ faculty \in [Addresses -> FacultyRow \cup {NoRow}]
          /\ invite \in [Invites -> Invite \cup {NoRow}]
          /\ shown \subseteq Numbers \X (1..MaxKeys) /\ keys \in 0..MaxKeys
          /\ token \subseteq Invites
          /\ req \in [Requests -> Request \cup {Idle}] /\ begun \in 0..MaxBegun
          /\ misread \subseteq Addresses /\ slipped \subseteq Invites /\ reissued \subseteq Numbers

\* The addresses whose role the environment gives.
Named == AdminEmails \cup FacultyEmails

\* "Addresses are unique across both" tables, unless the environment names the address,
\* whose sign-in with Google looks at neither, or a request wrote after a failed lookup
\* or after another request had written the address.
OneTablePerAddress ==
  \A e \in Addresses \ (misread \cup Named) :
    users[e] = NoRow \/ faculty[e] = NoRow

\* A one-time invite registers one account, unless its mark was lost, its row could not
\* be read or two setups overlapped.
OneAccountPerInvite ==
  \A n \in Invites \ slipped : \A d, e \in Addresses :
    faculty[d] # NoRow /\ faculty[e] # NoRow /\ faculty[d].via = n /\ faculty[e].via = n => d = e

\* A key that was shown stays the key of its invite, unless another mint overlapped or
\* the list could not be read.
KeyStaysValid == \A s \in shown : s[1] \notin reissued => invite[s[1]] # NoRow /\ invite[s[1]].key = s[2]

\* A sign-in with Google keeps the role an address is stored with, or makes it the
\* administrator the environment says it is, unless it misread the row or was overtaken.
SignInKeepsRole ==
  [][\A r \in Requests : req[r] # Idle /\ req[r].kind = "google" /\ req'[r] = Idle
       => LET e == req[r].on IN
          \/ users[e] \in {NoRow, users'[e]}
          \/ e \in AdminEmails /\ users'[e] = "admin"
          \/ e \in misread']_vars
=============================================================================
