------------------------------- MODULE Signup -------------------------------
(* The sign-up wizard.  No account exists while it runs: the draft travels   *)
(* in a sealed cookie, each phase answers with a new cookie, and the last    *)
(* phase inserts the account.  A request carries the cookie the browser held *)
(* when it was sent; answers arrive in any order, twice (a double click) or  *)
(* not at all.  The OAuth callbacks await the provider between reading the   *)
(* draft and answering.                                                      *)
EXTENDS Naturals, FiniteSets

CONSTANTS Emails,        \* college addresses
          Prns,          \* roll numbers
          Browsers,      \* cookie jars
          MaxInFlight,   \* bound: requests being served at once
          Nonces,        \* OAuth states that can be live at once
          ReadsMayFail,  \* TRUE: an account lookup may fail, and answer "unknown"
          Anonymous,     \* providers that may answer without a login or a name
          NoDraft, NoPrn, NoAccount, NoFlow

ASSUME SignupAssumption ==
  /\ MaxInFlight \in Nat \ {0}
  /\ ReadsMayFail \in BOOLEAN
  /\ Anonymous \subseteq {"github", "linkedin"}
  /\ NoPrn \notin Prns
  /\ NoFlow \notin Nonces

VARIABLES accounts,  \* the student rows committed by the wizard
          prefs,     \* roll numbers whose privacy choices are stored
          jar,       \* per browser: the draft cookie and the OAuth state cookie
          flows,     \* OAuth round trips whose user is at the provider
          net,       \* requests sent and not yet answered
          told       \* per browser: the last answer to a final submission

vars == <<accounts, prefs, jar, flows, net, told>>
-----------------------------------------------------------------------------
\* A typed HackerRank handle: missing, not a handle, or one that parses.
Handles == {"none", "raw", "handle"}

\* The accounts linked over OAuth: never, answered without a login or a display
\* name, or with one.
Links    == {"github", "linkedin"}
LinkedAs == {"none", "blank", "linked"}

Draft == [email : Emails, phase : 2..4, prn : Prns \cup {NoPrn}, hr : Handles,
          link : [Links -> LinkedAs]]

Fresh(e) == [email |-> e, phase |-> 2, prn |-> NoPrn, hr |-> "none",
             link |-> [l \in Links |-> "none"]]

Linked(d) == \A l \in Links : d.link[l] = "linked"

Account == [prn : Prns, hr : Handles, link : [Links -> LinkedAs]]
\* What stands for no draft is no draft, and what stands for no account no account.
ASSUME Sentinels == NoDraft \notin Draft /\ NoAccount \notin Account

AccountOf(d) == [prn |-> d.prn, hr |-> d.hr, link |-> d.link]

Forms == {"phase1", "phase2", "save", "continue", "finish"}
\* What the fields of a valid form hold.
Arguments(op) == CASE op = "phase1" -> Emails
                   [] op = "phase2" -> Prns
                   [] op = "save" -> Handles
                   [] op = "continue" -> {"handle"}
                   [] OTHER -> {"none"}

Request == {r \in [browser : Browsers, op : Forms \cup Links \cup {"google"},
                   arg : Emails \cup Prns \cup Handles, draft : Draft \cup {NoDraft}] :
              r.arg \in Arguments(r.op)}
Flow    == [browser : Browsers, id : Nonces, op : Links \cup {"google"}]
Answers == {"nothing", "refused", "done"}

Known(e) == accounts[e] # NoAccount

\* What a lookup of an address may answer.
Lookup(e) == {Known(e)} \cup (IF ReadsMayFail THEN {FALSE} ELSE {})

\* The phase gate of every handler.
AtPhase(d, n) == d # NoDraft /\ d.phase >= n

\* load_signup_progress: a draft is dead once its address has an account, and a
\* copy the browser no longer holds may have expired.
Loads(r) ==
  IF r.draft = NoDraft THEN {NoDraft}
  ELSE {IF known THEN NoDraft ELSE r.draft : known \in Lookup(r.draft.email)}
         \cup (IF r.draft # jar[r.browser].draft THEN {NoDraft} ELSE {})

Init == /\ accounts = [e \in Emails |-> NoAccount]
        /\ prefs = {}
        /\ jar   = [b \in Browsers |-> [draft |-> NoDraft, flow |-> NoFlow]]
        /\ flows = {}
        /\ net   = {}
        /\ told  = [b \in Browsers |-> "nothing"]
-----------------------------------------------------------------------------
(* The browser.                                                              *)

\* Post one of the wizard's forms with the cookie the browser holds; a form
\* whose fields fail validation changes nothing and is not sent.
Send(b, op, arg) ==
  /\ Cardinality(net) < MaxInFlight
  /\ net' = net \cup {[browser |-> b, op |-> op, arg |-> arg, draft |-> jar[b].draft]}
  /\ told' = IF op = "finish" THEN [told EXCEPT ![b] = "nothing"] ELSE told
  /\ UNCHANGED <<accounts, prefs, jar, flows>>

\* The cookie and the sealed draft live for an hour, the state cookie shorter.
Expire(b) ==
  /\ \/ jar[b].draft # NoDraft /\ jar' = [jar EXCEPT ![b].draft = NoDraft]
     \/ jar[b].flow # NoFlow /\ jar' = [jar EXCEPT ![b].flow = NoFlow]
  /\ UNCHANGED <<accounts, prefs, flows, net, told>>

\* The request is over; a double click left a second submission in flight.
Answered(r) == net' = net \ {r} \/ (r.op = "finish" /\ UNCHANGED net)

\* The answer sets the draft cookie, or never reaches the browser.
SetDraft(b, d) == jar' = [jar EXCEPT ![b].draft = d] \/ UNCHANGED jar

\* A nonce that is in no cookie and at no provider.
Unused(n) == /\ \A b \in Browsers : jar[b].flow # n
             /\ \A f \in flows : f.id # n

\* GET /auth/...: the state nonce goes into a cookie, replacing an earlier one.
StartFlow(b, op, n) ==
  /\ Unused(n)
  /\ op \in Links => /\ AtPhase(jar[b].draft, 3)
                     /\ FALSE \in Lookup(jar[b].draft.email)
  /\ flows' = flows \cup {[browser |-> b, id |-> n, op |-> op]}
  /\ jar'   = [jar EXCEPT ![b].flow = n]
  /\ UNCHANGED <<accounts, prefs, net, told>>
-----------------------------------------------------------------------------
(* The wizard's forms.                                                       *)

Phase1(r) ==
  /\ r.op = "phase1"
  /\ \/ FALSE \in Lookup(r.arg) /\ SetDraft(r.browser, Fresh(r.arg))
     \/ TRUE \in Lookup(r.arg) /\ UNCHANGED jar
  /\ Answered(r)
  /\ UNCHANGED <<accounts, prefs, flows, told>>

\* Any later phase may post the academic form again, and is back at phase 3.
Phase2(r) ==
  /\ r.op = "phase2"
  /\ \E d \in Loads(r) :
       IF AtPhase(d, 2)
         THEN SetDraft(r.browser, [d EXCEPT !.phase = 3, !.prn = r.arg])
         ELSE UNCHANGED jar
  /\ Answered(r)
  /\ UNCHANGED <<accounts, prefs, flows, told>>

\* Keep what was typed while the page is left for a provider: no validation,
\* and the phase stays where it is.
Save(r) ==
  /\ r.op = "save"
  /\ \E d \in Loads(r) :
       IF AtPhase(d, 3)
         THEN SetDraft(r.browser, [d EXCEPT !.hr = r.arg])
         ELSE UNCHANGED jar
  /\ Answered(r)
  /\ UNCHANGED <<accounts, prefs, flows, told>>

\* Faulty variant: the linked accounts are not looked for.
ContinueUnlinked(r) ==
  /\ r.op = "continue"
  /\ \E d \in Loads(r) :
       IF AtPhase(d, 3)
         THEN SetDraft(r.browser, [d EXCEPT !.phase = 4, !.hr = r.arg])
         ELSE UNCHANGED jar
  /\ Answered(r)
  /\ UNCHANGED <<accounts, prefs, flows, told>>

\* Faulty variant: a form posted again moves one phase further.
ContinueAdvances(r) ==
  /\ r.op = "continue"
  /\ \E d \in Loads(r) :
       IF AtPhase(d, 3) /\ Linked(d)
         THEN SetDraft(r.browser, [d EXCEPT !.phase = d.phase + 1, !.hr = r.arg])
         ELSE UNCHANGED jar
  /\ Answered(r)
  /\ UNCHANGED <<accounts, prefs, flows, told>>

Continue(r) ==
  /\ r.op = "continue"
  /\ \E d \in Loads(r) :
       IF AtPhase(d, 3) /\ Linked(d)
         THEN SetDraft(r.browser, [d EXCEPT !.phase = 4, !.hr = r.arg])
         ELSE UNCHANGED jar
  /\ Answered(r)
  /\ UNCHANGED <<accounts, prefs, flows, told>>
-----------------------------------------------------------------------------
(* POST /signup/phase/4.                                                     *)

PrnFree(d) == ReadsMayFail \/ \A e \in Emails \ {d.email} :
                                 Known(e) => accounts[e].prn # d.prn

\* What finalize_student_signup checks again before the insert.
Complete(d) == d.prn # NoPrn /\ d.hr # "none" /\ Linked(d)

\* INSERT ... ON CONFLICT DO NOTHING.
Insert(d) == /\ ~Known(d.email)
             /\ accounts' = [accounts EXCEPT ![d.email] = AccountOf(d)]

Tell(r, answer) == told' = [told EXCEPT ![r.browser] = answer]

\* The draft was refused: wrong phase, roll number taken, address registered,
\* a field missing, or the insert failed.
FinishRefused(r) ==
  /\ r.op = "finish"
  /\ \E d \in Loads(r) :
       \/ /\ ~AtPhase(d, 4)
          /\ Tell(r, "refused")
       \/ /\ AtPhase(d, 4)
          /\ \/ \E e \in Emails \ {d.email} : Known(e) /\ accounts[e].prn = d.prn
             \/ Known(d.email)
          /\ Tell(r, "refused")
       \/ /\ AtPhase(d, 4)
          /\ PrnFree(d)
          /\ FALSE \in Lookup(d.email)
          /\ Tell(r, "refused")
  /\ Answered(r)
  /\ UNCHANGED <<accounts, prefs, jar, flows>>

\* Faulty variant: the privacy choices are stored before the insert.
FinishPrefsFirst(r) ==
  /\ r.op = "finish"
  /\ \E d \in Loads(r) :
       /\ AtPhase(d, 4)
       /\ PrnFree(d)
       /\ prefs' = prefs \cup {d.prn}
       /\ \/ Insert(d) /\ Tell(r, "done")
          \/ UNCHANGED accounts /\ Tell(r, "refused")
  /\ Answered(r)
  /\ UNCHANGED <<jar, flows>>

\* Faulty variant: whether the privacy choices were stored is not looked at.
FinishIgnoresPrefs(r) ==
  /\ r.op = "finish"
  /\ \E d \in Loads(r) :
       /\ AtPhase(d, 4)
       /\ PrnFree(d) /\ Complete(d)
       /\ Insert(d)
       /\ prefs' \in {prefs, prefs \cup {d.prn}}
       /\ jar' = [jar EXCEPT ![r.browser].draft = NoDraft] \/ UNCHANGED jar
       /\ Tell(r, "done")
  /\ Answered(r)
  /\ UNCHANGED <<flows>>

\* The account is inserted, then the privacy choices are stored.  The row may
\* be there and still count as a failure: it could not be read back, or the
\* choices could not be stored.
Finish(r) ==
  /\ r.op = "finish"
  /\ \E d \in Loads(r) :
       /\ AtPhase(d, 4)
       /\ PrnFree(d) /\ Complete(d)
       /\ Insert(d)
       /\ \/ /\ prefs' = prefs \cup {d.prn}
             /\ jar' = [jar EXCEPT ![r.browser].draft = NoDraft] \/ UNCHANGED jar
             /\ Tell(r, "done")
          \/ /\ UNCHANGED <<prefs, jar>>
             /\ Tell(r, "refused")
  /\ Answered(r)
  /\ UNCHANGED <<flows>>
-----------------------------------------------------------------------------
(* The OAuth callbacks.                                                      *)

\* The state cookie must be the one this round trip set.  A link reads its
\* draft now, a Google sign-up only when the exchange is over.
Callback(f) ==
  /\ f \in flows
  /\ flows' = flows \ {f}
  /\ LET b == f.browser
         r == [browser |-> b, op |-> f.op, arg |-> "none", draft |-> jar[b].draft]
     IN  \/ /\ jar[b].flow = f.id
            /\ Cardinality(net) < MaxInFlight
            /\ f.op \in Links => \E d \in Loads(r) : AtPhase(d, 3)
            /\ net' = net \cup {r}
            /\ UNCHANGED jar
         \/ /\ jar' = [jar EXCEPT ![b].flow = NoFlow]
            /\ UNCHANGED net
  /\ UNCHANGED <<accounts, prefs, told>>

\* The answer of a callback clears the state cookie and may set a new draft.
SetDraftAndFlow(b, d) == jar' = [jar EXCEPT ![b] = [draft |-> d, flow |-> NoFlow]]

\* Faulty variant: only what the round trip itself found goes into the draft.
LinkDoneRestarts(r) ==
  /\ r.op \in Links
  /\ SetDraftAndFlow(r.browser, [r.draft EXCEPT
                        !.link = [l \in Links |-> IF l = r.op THEN "linked" ELSE "none"]])
  /\ net' = net \ {r}
  /\ UNCHANGED <<accounts, prefs, flows, told>>

\* The login or the name replaces what an earlier round trip stored, also when
\* the provider's answer holds none.
LinkDone(r) ==
  /\ r.op \in Links
  /\ \/ \E as \in {"linked"} \cup (IF r.op \in Anonymous THEN {"blank"} ELSE {}) :
          SetDraftAndFlow(r.browser, [r.draft EXCEPT !.link[r.op] = as])
     \/ jar' = [jar EXCEPT ![r.browser].flow = NoFlow]
     \/ UNCHANGED jar
  /\ net' = net \ {r}
  /\ UNCHANGED <<accounts, prefs, flows, told>>

\* Google verified an address: resume its draft past phase 2, or start one.
GoogleDone(r) ==
  /\ r.op = "google"
  /\ \/ \E e \in Emails, d \in Loads(r) :
          /\ FALSE \in Lookup(e)
          /\ SetDraftAndFlow(r.browser,
                             IF AtPhase(d, 3) /\ d.email = e THEN d ELSE Fresh(e))
     \/ jar' = [jar EXCEPT ![r.browser].flow = NoFlow]
     \/ UNCHANGED jar
  /\ net' = net \ {r}
  /\ UNCHANGED <<accounts, prefs, flows, told>>
-----------------------------------------------------------------------------
Next == \/ \E b \in Browsers :
             \/ \E op \in Forms : \E arg \in Arguments(op) : Send(b, op, arg)
             \/ \E op \in Links \cup {"google"}, n \in Nonces : StartFlow(b, op, n)
             \/ Expire(b)
        \/ \E r \in net : \/ Phase1(r) \/ Phase2(r) \/ Save(r) \/ Continue(r)
                          \/ FinishRefused(r) \/ Finish(r)
                          \/ LinkDone(r) \/ GoogleDone(r)
        \/ \E f \in flows : Callback(f)

Spec == Init /\ [][Next]_vars
-----------------------------------------------------------------------------
TypeOK == /\ accounts \in [Emails -> Account \cup {NoAccount}]
          /\ prefs \subseteq Prns
          /\ jar \in [Browsers -> [draft : Draft \cup {NoDraft}, flow : Nonces \cup {NoFlow}]]
          /\ flows \subseteq Flow
          /\ net \subseteq Request
          /\ told \in [Browsers -> Answers]

Drafts == ({jar[b].draft : b \in Browsers} \cup {r.draft : r \in net}) \ {NoDraft}

\* The phase number is the wizard's only gate: whatever tabs, answers and OAuth
\* round trips interleave, a draft at phase 4 has its roll number and has been
\* through both link round trips, one at phase 3 has its roll number, one at
\* phase 2 has begun no link.  (Not that both links still have a name: a later
\* round trip answered without one blanks it, and the commit looks again.)
PhaseGate == \A d \in Drafts : /\ d.phase >= 3 => d.prn # NoPrn
                               /\ \A l \in Links : /\ d.phase = 4 => d.link[l] # "none"
                                                   /\ d.phase = 2 => d.link[l] = "none"

\* "A failed write must not leave prefs behind for an account that was never
\* created": stored privacy choices belong to a committed account.
PrefsFollowAccount == \A p \in prefs : \E e \in Emails : Known(e) /\ accounts[e].prn = p

\* A final submission of browser b, answered in this step.
Told(b, answer) == told[b] # answer /\ told'[b] = answer
Submitted(b) == {r.draft : r \in {q \in net : q.browser = b /\ q.op = "finish"}} \ {NoDraft}

\* A browser that is told its sign-up is done now has the account it asked for,
\* complete, and its privacy choices stored.
DoneMeansStored ==
  [][\A b \in Browsers : Told(b, "done") =>
        \E d \in Submitted(b) : /\ accounts'[d.email] = AccountOf(d)
                                /\ Complete(d)
                                /\ d.prn \in prefs']_vars

\* A round trip of browser b to l that ended in this step without a name.
Blanked(b, l) == \E r \in net \ net' : r.browser = b /\ r.op = l

Keeps(b, d, n) == (d # NoDraft /\ n # NoDraft /\ n.email = d.email /\ ~Known(d.email)) =>
  /\ d.prn # NoPrn => n.prn # NoPrn
  /\ \A l \in Links : d.link[l] = "linked" =>
        n.link[l] = "linked" \/ (n.link[l] = "blank" /\ Blanked(b, l))

\* Until the account exists, what a student already linked is lost only by
\* starting over, by answers to overlapping requests, which carry an older copy
\* of the draft, or by linking the same provider again and getting no name.
LinksKeptWithoutOverlap ==
  [][\A b \in Browsers :
        (\A r \in net : r.browser = b => r.op # "phase1" /\ r.draft = jar[b].draft)
          => Keeps(b, jar[b].draft, jar'[b].draft)]_vars
=============================================================================
