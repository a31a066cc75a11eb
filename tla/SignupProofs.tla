---------------------------- MODULE SignupProofs ----------------------------
(* What the wizard promises whatever its requests, answers and OAuth round   *)
(* trips interleave, for every number of browsers, addresses and requests.   *)
EXTENDS Signup, TLAPS

\* A draft the gate lets pass.
GoodDraft(d) == /\ d.phase >= 3 => d.prn # NoPrn
                /\ d.phase = 2 => d.prn = NoPrn
                /\ \A l \in Links : /\ d.phase = 4 => d.link[l] # "none"
                                    /\ d.phase = 2 => d.link[l] = "none"
Sound == {d \in Draft : GoodDraft(d)} \cup {NoDraft}

NetSound == /\ net \subseteq Request
            /\ \A r \in net : r.draft \in Sound /\ (r.op \in Links => AtPhase(r.draft, 3))

\* Every copy of a draft, in a cookie or in a request, is sound, and the draft a
\* link callback carries has passed the gate.
IInv == /\ TypeOK
        /\ \A b \in Browsers : jar[b].draft \in Sound
        /\ NetSound

\* The forms answer with a sound draft.
LEMMA FreshSound == ASSUME NEW e \in Emails PROVE Fresh(e) \in Sound
BY SignupAssumption DEF Fresh, Sound, Draft, GoodDraft, Handles, LinkedAs

LEMMA LoadsSound ==
  ASSUME NEW r, r.draft \in Sound, NEW d \in Loads(r)
  PROVE  d \in Sound
BY DEF Loads, Sound

\* What each form and each link writes into a draft that passed its gate.
LEMMA HandleSound ==
  ASSUME NEW d \in Draft, GoodDraft(d), NEW h \in Handles
  PROVE  [d EXCEPT !.hr = h] \in Draft /\ GoodDraft([d EXCEPT !.hr = h])
BY DEF Draft, GoodDraft

LEMMA PrnSound ==
  ASSUME NEW d \in Draft, GoodDraft(d), NEW p \in Prns
  PROVE  [d EXCEPT !.phase = 3, !.prn = p] \in Sound
<1> DEFINE m == [d EXCEPT !.phase = 3]
           n == [m EXCEPT !.prn = p]
<1>1. m \in Draft /\ m.phase = 3
  BY DEF Draft
<1>2. n \in Draft /\ n.phase = 3 /\ n.prn = p
  <2> HIDE DEF m
  <2> QED
    BY <1>1 DEF Draft
<1>3. n \in Sound
  <2> HIDE DEF n
  <2> QED
    BY <1>2, SignupAssumption DEF Sound, GoodDraft
<1> QED
  BY <1>3

LEMMA ContinueSound ==
  ASSUME NEW d \in Draft, GoodDraft(d), NEW h \in Handles, d.phase >= 3, Linked(d)
  PROVE  [d EXCEPT !.phase = 4, !.hr = h] \in Sound
<1> DEFINE m == [d EXCEPT !.phase = 4]
           n == [m EXCEPT !.hr = h]
<1>1. m \in Draft
  BY DEF Draft
<1>2. m.phase = 4 /\ m.prn = d.prn /\ \A l \in Links : m.link[l] = "linked"
  BY DEF Draft, Linked
<1>3. GoodDraft(m)
  <2> HIDE DEF m
  <2> QED
    BY <1>2 DEF GoodDraft
<1>4. n \in Sound
  <2> HIDE DEF m
  <2> QED
    BY <1>1, <1>3, HandleSound DEF Sound
<1> QED
  BY <1>4

LEMMA LinkSound ==
  ASSUME NEW d \in Draft, GoodDraft(d), d.phase >= 3,
         NEW l \in Links, NEW as \in {"linked", "blank"}
  PROVE  [d EXCEPT !.link[l] = as] \in Sound
<1> DEFINE n == [d EXCEPT !.link[l] = as]
<1>1. n \in Draft
  BY DEF Draft, LinkedAs
<1>2. /\ n.phase = d.phase /\ n.prn = d.prn
      /\ \A k \in Links : n.link[k] = IF k = l THEN as ELSE d.link[k]
  BY DEF Draft
<1>3. GoodDraft(n)
  <2> HIDE DEF n
  <2> QED
    BY <1>2 DEF GoodDraft, Draft
<1> QED
  BY <1>1, <1>3 DEF Sound

LEMMA PassedGate ==
  ASSUME NEW d \in Sound, NEW n \in 2..4, AtPhase(d, n)
  PROVE  d \in Draft /\ GoodDraft(d) /\ d.phase >= n /\ d # NoDraft
BY DEF Sound, AtPhase

\* Setting the draft cookie of one browser to a sound draft.
LEMMA CookieSound ==
  ASSUME IInv, NEW b \in Browsers, NEW d \in Sound, SetDraft(b, d)
  PROVE  /\ jar' \in [Browsers -> [draft : Draft \cup {NoDraft}, flow : Nonces \cup {NoFlow}]]
         /\ \A x \in Browsers : jar'[x].draft \in Sound
BY DEF IInv, TypeOK, SetDraft, Sound

LEMMA CookiesSound ==
  ASSUME IInv, NEW b \in Browsers, NEW d \in Sound, SetDraftAndFlow(b, d)
  PROVE  /\ jar' \in [Browsers -> [draft : Draft \cup {NoDraft}, flow : Nonces \cup {NoFlow}]]
         /\ \A x \in Browsers : jar'[x].draft \in Sound
BY DEF IInv, TypeOK, SetDraftAndFlow, Sound

LEMMA FlowCleared ==
  ASSUME IInv, NEW b \in Browsers, jar' = [jar EXCEPT ![b].flow = NoFlow]
  PROVE  /\ jar' \in [Browsers -> [draft : Draft \cup {NoDraft}, flow : Nonces \cup {NoFlow}]]
         /\ \A x \in Browsers : jar'[x].draft \in Sound
BY DEF IInv, TypeOK, Sound

\* Leaving the draft cookies alone.
LEMMA DraftCleared ==
  ASSUME IInv, NEW b \in Browsers, jar' = [jar EXCEPT ![b].draft = NoDraft]
  PROVE  /\ jar' \in [Browsers -> [draft : Draft \cup {NoDraft}, flow : Nonces \cup {NoFlow}]]
         /\ \A x \in Browsers : jar'[x].draft \in Sound
BY DEF IInv, TypeOK, Sound

LEMMA RequestDone ==
  ASSUME IInv, NEW r \in net, Answered(r) \/ net' = net \ {r}
  PROVE  NetSound'
BY DEF IInv, NetSound, Answered, AtPhase

LEMMA InitInv == Init => IInv
BY SignupAssumption DEF Init, IInv, TypeOK, Sound, NetSound, Answers

-----------------------------------------------------------------------------
\* One step of the wizard keeps every copy of a draft sound.
LEMMA StepInv == IInv /\ [Next]_vars => IInv'
<1> SUFFICES ASSUME IInv, [Next]_vars PROVE IInv'
  OBVIOUS
<1> DEFINE JarOK == /\ jar' \in [Browsers -> [draft : Draft \cup {NoDraft}, flow : Nonces \cup {NoFlow}]]
                    /\ \A x \in Browsers : jar'[x].draft \in Sound
<1>0. UNCHANGED jar => JarOK
  BY DEF IInv, TypeOK
<1>1. UNCHANGED net => NetSound'
  BY DEF IInv, NetSound, AtPhase
<1>n. \A r \in net : /\ r \in Request /\ r.browser \in Browsers /\ r.draft \in Sound
                     /\ r.arg \in Arguments(r.op)
                     /\ \A d \in Loads(r) : d \in Sound
  BY LoadsSound DEF IInv, NetSound, Request
<1>2. ASSUME NEW b \in Browsers, NEW op \in Forms, NEW arg \in Arguments(op), Send(b, op, arg)
      PROVE IInv'
  <2> DEFINE r == [browser |-> b, op |-> op, arg |-> arg, draft |-> jar[b].draft]
  <2>1. arg \in Emails \cup Prns \cup Handles
    BY <1>2 DEF Arguments, Forms, Handles
  <2>2. r \in Request /\ r.draft \in Sound /\ r.op = op /\ op \notin Links
    BY <2>1 DEF IInv, TypeOK, Request, Forms, Links
  <2>3. NetSound'
    BY <1>2, <2>2 DEF Send, IInv, NetSound, AtPhase, Forms, Links
  <2>4. told' \in [Browsers -> Answers]
    BY <1>2 DEF Send, IInv, TypeOK, Answers
  <2> HIDE DEF r
  <2> QED
    BY <1>0, <1>2, <2>3, <2>4 DEF NetSound, Send, IInv, TypeOK
<1>3. ASSUME NEW b \in Browsers, NEW op \in Links \cup {"google"}, NEW n \in Nonces, StartFlow(b, op, n)
      PROVE IInv'
  <2>1. JarOK
    BY <1>3 DEF StartFlow, IInv, TypeOK
  <2>2. flows' \subseteq Flow
    BY <1>3 DEF StartFlow, IInv, TypeOK, Flow
  <2> QED
    BY <1>1, <1>3, <2>1, <2>2 DEF StartFlow, IInv, TypeOK
<1>4. ASSUME NEW b \in Browsers, Expire(b) PROVE IInv'
  <2>1. JarOK
    BY <1>4, FlowCleared, DraftCleared DEF Expire
  <2> QED
    BY <1>1, <1>4, <2>1 DEF Expire, IInv, TypeOK
<1>5. ASSUME NEW r \in net, Phase1(r) PROVE IInv'
  <2>1. r.arg \in Emails
    BY <1>5, <1>n DEF Phase1, Arguments
  <2>2. JarOK
    BY <1>0, <1>5, <1>n, <2>1, FreshSound, CookieSound DEF Phase1
  <2> QED
    BY <1>5, <2>2, RequestDone DEF NetSound, Phase1, IInv, TypeOK
<1>6. ASSUME NEW r \in net, Phase2(r) PROVE IInv'
  <2>1. r.arg \in Prns
    BY <1>6, <1>n DEF Phase2, Arguments
  <2>2. \A d \in Loads(r) : AtPhase(d, 2) => [d EXCEPT !.phase = 3, !.prn = r.arg] \in Sound
    <3> TAKE d \in Loads(r)
    <3> HAVE AtPhase(d, 2)
    <3>1. d \in Draft /\ GoodDraft(d)
      BY <1>n, PassedGate
    <3> QED
      BY <2>1, <3>1, PrnSound
  <2>3. JarOK
    BY <1>0, <1>6, <1>n, <2>2, CookieSound DEF Phase2
  <2> QED
    BY <1>6, <2>3, RequestDone DEF NetSound, Phase2, IInv, TypeOK
<1>7. ASSUME NEW r \in net, Save(r) PROVE IInv'
  <2>1. r.arg \in Handles
    BY <1>7, <1>n DEF Save, Arguments
  <2>2. \A d \in Loads(r) : AtPhase(d, 3) => [d EXCEPT !.hr = r.arg] \in Sound
    <3> TAKE d \in Loads(r)
    <3> HAVE AtPhase(d, 3)
    <3>1. d \in Draft /\ GoodDraft(d)
      BY <1>n, PassedGate
    <3> QED
      BY <2>1, <3>1, HandleSound DEF Sound
  <2>3. JarOK
    BY <1>0, <1>7, <1>n, <2>2, CookieSound DEF Save
  <2> QED
    BY <1>7, <2>3, RequestDone DEF NetSound, Save, IInv, TypeOK
<1>8. ASSUME NEW r \in net, Continue(r) PROVE IInv'
  <2>1. r.arg \in Handles
    BY <1>8, <1>n DEF Continue, Arguments, Handles
  <2>2. \A d \in Loads(r) : AtPhase(d, 3) /\ Linked(d)
                              => [d EXCEPT !.phase = 4, !.hr = r.arg] \in Sound
    <3> TAKE d \in Loads(r)
    <3> HAVE AtPhase(d, 3) /\ Linked(d)
    <3>1. d \in Draft /\ GoodDraft(d) /\ d.phase >= 3
      BY <1>n, PassedGate
    <3> QED
      BY <2>1, <3>1, ContinueSound
  <2>3. JarOK
    BY <1>0, <1>8, <1>n, <2>2, CookieSound DEF Continue
  <2> QED
    BY <1>8, <2>3, RequestDone DEF NetSound, Continue, IInv, TypeOK
<1>9. ASSUME NEW r \in net, FinishRefused(r) PROVE IInv'
  <2>1. told' \in [Browsers -> Answers]
    BY <1>9, <1>n DEF FinishRefused, Tell, IInv, TypeOK, Answers
  <2> QED
    BY <1>0, <1>9, <2>1, RequestDone DEF NetSound, FinishRefused, IInv, TypeOK
<1>10. ASSUME NEW r \in net, Finish(r) PROVE IInv'
  <2>1. PICK d \in Loads(r) :
          /\ AtPhase(d, 4) /\ Complete(d) /\ Insert(d)
          /\ prefs' = prefs \cup {d.prn} \/ UNCHANGED prefs
          /\ jar' = [jar EXCEPT ![r.browser].draft = NoDraft] \/ UNCHANGED jar
          /\ Tell(r, "done") \/ Tell(r, "refused")
    BY <1>10 DEF Finish
  <2>2. d \in Draft /\ d.prn \in Prns
    BY <1>n, <2>1, PassedGate DEF Complete, Draft
  <2>3. accounts' \in [Emails -> Account \cup {NoAccount}]
    BY <2>1, <2>2 DEF Insert, AccountOf, Account, Draft, IInv, TypeOK
  <2>4. prefs' \subseteq Prns
    BY <2>1, <2>2 DEF IInv, TypeOK
  <2>5. told' \in [Browsers -> Answers]
    BY <1>n, <2>1 DEF Tell, Answers, IInv, TypeOK
  <2>6. JarOK
    BY <1>0, <1>n, <2>1, DraftCleared
  <2> QED
    BY <1>10, <2>3, <2>4, <2>5, <2>6, RequestDone DEF NetSound, Finish, IInv, TypeOK
<1>11. ASSUME NEW r \in net, LinkDone(r) PROVE IInv'
  <2>1. ASSUME NEW as \in {"linked", "blank"} PROVE [r.draft EXCEPT !.link[r.op] = as] \in Sound
    <3>1. r.op \in Links /\ AtPhase(r.draft, 3)
      BY <1>11 DEF LinkDone, IInv, NetSound
    <3>2. r.draft \in Draft /\ GoodDraft(r.draft) /\ r.draft.phase >= 3
      BY <1>n, <3>1, PassedGate
    <3> QED
      BY <3>1, <3>2, LinkSound
  <2>2. JarOK
    <3>1. ASSUME NEW as \in {"linked", "blank"},
                 SetDraftAndFlow(r.browser, [r.draft EXCEPT !.link[r.op] = as])
          PROVE  JarOK
      <4> DEFINE n == [r.draft EXCEPT !.link[r.op] = as]
      <4>1. n \in Sound
        BY <2>1
      <4>2. SetDraftAndFlow(r.browser, n)
        BY <3>1
      <4> HIDE DEF n
      <4> QED
        BY <4>1, <4>2, <1>n, CookiesSound
    <3>2. CASE jar' = [jar EXCEPT ![r.browser].flow = NoFlow]
      BY <3>2, <1>n, FlowCleared
    <3> QED
      BY <1>0, <1>11, <3>1, <3>2 DEF LinkDone
  <2> QED
    BY <1>11, <2>2, RequestDone DEF NetSound, LinkDone, IInv, TypeOK
<1>12. ASSUME NEW r \in net, GoogleDone(r) PROVE IInv'
  <2>1. JarOK
    <3>1. ASSUME NEW e \in Emails, NEW d \in Loads(r),
                 SetDraftAndFlow(r.browser, IF AtPhase(d, 3) /\ d.email = e THEN d ELSE Fresh(e))
          PROVE  JarOK
      BY <3>1, <1>n, FreshSound, CookiesSound
    <3>2. CASE jar' = [jar EXCEPT ![r.browser].flow = NoFlow]
      BY <3>2, <1>n, FlowCleared
    <3> QED
      BY <1>0, <1>12, <3>1, <3>2 DEF GoogleDone
  <2> QED
    BY <1>12, <2>1, RequestDone DEF NetSound, GoogleDone, IInv, TypeOK
<1>13. ASSUME NEW f \in flows, Callback(f) PROVE IInv'
  <2> DEFINE b == f.browser
             r == [browser |-> b, op |-> f.op, arg |-> "none", draft |-> jar[b].draft]
  <2>1. b \in Browsers /\ f.op \in Links \cup {"google"} /\ jar[b].draft \in Sound
    BY DEF IInv, TypeOK, Flow
  <2>2. r \in Request
    BY <2>1 DEF Request, Arguments, Handles, Links, Sound
  <2>3. r.op = f.op /\ r.draft = jar[b].draft
    OBVIOUS
  <2>4. ASSUME f.op \in Links => \E d \in Loads(r) : AtPhase(d, 3), net' = net \cup {r}
        PROVE  NetSound'
    <3>1. r.op \in Links => AtPhase(r.draft, 3)
      BY <2>4 DEF Loads, AtPhase
    <3> QED
      BY <2>1, <2>2, <2>3, <2>4, <3>1 DEF IInv, NetSound, AtPhase
  <2>5. NetSound'
    BY <1>1, <1>13, <2>4 DEF Callback
  <2>6. JarOK
    BY <1>0, <1>13, <2>1, FlowCleared DEF Callback
  <2>7. flows' \subseteq Flow
    BY <1>13 DEF Callback, IInv, TypeOK
  <2> QED
    BY <1>13, <2>5, <2>6, <2>7 DEF NetSound, Callback, IInv, TypeOK
<1>14. CASE UNCHANGED vars
  BY <1>0, <1>1, <1>14 DEF vars, IInv, TypeOK
<1> QED
  BY <1>2, <1>3, <1>4, <1>5, <1>6, <1>7, <1>8, <1>9, <1>10, <1>11, <1>12, <1>13, <1>14 DEF Next

LEMMA Invariance == Spec => []IInv
<1> QED
  BY InitInv, StepInv, PTL DEF Spec

-----------------------------------------------------------------------------
\* The tables, cookies and requests keep their types: no form, replayed or
\* late, stores an account without a roll number.
THEOREM TypeCorrect == Spec => []TypeOK
<1>1. IInv => TypeOK
  BY DEF IInv
<1> QED
  BY Invariance, <1>1, PTL

\* The phase number is a sufficient gate: no interleaving of forms, answers
\* and OAuth round trips yields a draft that is past what it has been through.
THEOREM PhaseGateHolds == Spec => []PhaseGate
<1>1. IInv => PhaseGate
  BY DEF IInv, NetSound, PhaseGate, Drafts, Sound, GoodDraft
<1> QED
  BY Invariance, <1>1, PTL

\* Stored privacy choices always belong to a committed account.
THEOREM PrefsOnlyOfAccounts == Spec => []PrefsFollowAccount
<1>1. Init => PrefsFollowAccount
  BY DEF Init, PrefsFollowAccount
<1>2. IInv /\ PrefsFollowAccount /\ [Next]_vars => PrefsFollowAccount'
  <2> SUFFICES ASSUME IInv, PrefsFollowAccount, [Next]_vars PROVE PrefsFollowAccount'
    OBVIOUS
  <2>1. CASE UNCHANGED <<accounts, prefs>>
    BY <2>1 DEF PrefsFollowAccount, Known
  <2>2. ASSUME NEW r \in net, Finish(r) PROVE PrefsFollowAccount'
    <3>1. PICK d \in Loads(r) : /\ AtPhase(d, 4) /\ Complete(d) /\ Insert(d)
                                /\ prefs' = prefs \cup {d.prn} \/ UNCHANGED prefs
      BY <2>2 DEF Finish
    <3>2. d \in Draft /\ d.email \in Emails
      BY <3>1, LoadsSound, PassedGate DEF IInv, NetSound, Draft
    <3>3. accounts'[d.email] = AccountOf(d) /\ AccountOf(d) \in Account
      BY <3>1, <3>2 DEF Insert, Complete, AccountOf, Account, Draft, IInv, TypeOK
    <3>4. Known(d.email)' /\ accounts'[d.email].prn = d.prn
      BY <3>3, Sentinels DEF Known, AccountOf
    <3>5. \A e \in Emails : Known(e) => Known(e)' /\ accounts'[e].prn = accounts[e].prn
      BY <3>1, <3>2 DEF Insert, Known, IInv, TypeOK
    <3> QED
      BY <3>1, <3>2, <3>4, <3>5 DEF PrefsFollowAccount
  <2>3. UNCHANGED <<accounts, prefs>> \/ \E r \in net : Finish(r)
    BY DEF Next, Send, StartFlow, Expire, Phase1, Phase2, Save, Continue, FinishRefused,
           LinkDone, GoogleDone, Callback, vars
  <2> QED
    BY <2>1, <2>2, <2>3
<1> QED
  BY Invariance, <1>1, <1>2, PTL DEF Spec

\* "Done" is answered only when the account that was asked for is stored,
\* complete, together with its privacy choices.
THEOREM DoneIsStored == Spec => DoneMeansStored
<1> DEFINE Stored(b) == \E d \in Submitted(b) : /\ accounts'[d.email] = AccountOf(d)
                                                /\ Complete(d)
                                                /\ d.prn \in prefs'
<1>1. IInv /\ [Next]_vars => [\A b \in Browsers : Told(b, "done") => Stored(b)]_vars
  <2> SUFFICES ASSUME IInv, Next, NEW b \in Browsers, Told(b, "done")
               PROVE  Stored(b)
    OBVIOUS
  <2>1. PICK r \in net : Finish(r)
    <3>1. ASSUME NEW r \in net, FinishRefused(r) PROVE FALSE
      <4>1. Tell(r, "refused")
        BY <3>1 DEF FinishRefused
      <4> QED
        BY <4>1 DEF Tell, Told, IInv, TypeOK
    <3>2. ASSUME NEW x \in Browsers, NEW op \in Forms, NEW arg \in Arguments(op), Send(x, op, arg)
          PROVE  FALSE
      BY <3>2 DEF Send, Told, IInv, TypeOK
    <3>3. \/ UNCHANGED told
          \/ \E x \in Browsers, op \in Forms : \E arg \in Arguments(op) : Send(x, op, arg)
          \/ \E r \in net : FinishRefused(r) \/ Finish(r)
      BY DEF Next, StartFlow, Expire, Phase1, Phase2, Save, Continue, LinkDone, GoogleDone, Callback
    <3> QED
      BY <3>1, <3>2, <3>3 DEF Told
  <2>2. PICK d \in Loads(r) :
          /\ r.op = "finish" /\ AtPhase(d, 4) /\ Complete(d) /\ Insert(d)
          /\ (prefs' = prefs \cup {d.prn} /\ Tell(r, "done")) \/ Tell(r, "refused")
    BY <2>1 DEF Finish
  <2>3. r.browser = b /\ d.prn \in prefs'
    BY <2>2 DEF Tell, Told, IInv, TypeOK
  <2>4. d = r.draft /\ d \in Submitted(b)
    BY <2>2, <2>3 DEF Loads, AtPhase, Submitted
  <2>5. d.email \in Emails
    BY <2>2, LoadsSound, PassedGate DEF IInv, NetSound, Draft
  <2>6. accounts'[d.email] = AccountOf(d)
    BY <2>2, <2>5 DEF Insert, IInv, TypeOK
  <2> QED
    BY <2>2, <2>3, <2>4, <2>6
<1> QED
  BY Invariance, <1>1, PTL DEF Spec, DoneMeansStored

-----------------------------------------------------------------------------
(* What a student linked is kept by every answer that was asked with the      *)
(* draft the browser still holds.                                             *)

Current(b) == \A r \in net : r.browser = b => r.op # "phase1" /\ r.draft = jar[b].draft

\* A current draft is lost only when its address has an account.
LEMMA LoadsCurrent ==
  ASSUME NEW r, r.draft = jar[r.browser].draft, NEW d \in Loads(r)
  PROVE  d = r.draft \/ (d = NoDraft /\ r.draft # NoDraft /\ Known(r.draft.email))
BY DEF Loads, Lookup

LEMMA KeepsItself == ASSUME NEW b, NEW d PROVE Keeps(b, d, d) /\ Keeps(b, d, NoDraft)
BY DEF Keeps

\* What the forms and the links write keeps what the draft had.
LEMMA KeepsWithPrn ==
  ASSUME NEW b, NEW d \in Draft, NEW p \in Prns
  PROVE  Keeps(b, d, [d EXCEPT !.phase = 3, !.prn = p])
<1> DEFINE m == [d EXCEPT !.phase = 3]
           n == [m EXCEPT !.prn = p]
<1>1. m \in Draft /\ m.link = d.link
  BY DEF Draft
<1>2. n.link = d.link /\ n.prn = p
  <2> HIDE DEF m
  <2> QED
    BY <1>1 DEF Draft
<1>3. Keeps(b, d, n)
  <2> HIDE DEF n
  <2> QED
    BY <1>2, SignupAssumption DEF Keeps
<1> QED
  BY <1>3

LEMMA KeepsWithHandle ==
  ASSUME NEW b, NEW d \in Draft, NEW h \in Handles
  PROVE  Keeps(b, d, [d EXCEPT !.hr = h]) /\ Keeps(b, d, [d EXCEPT !.phase = 4, !.hr = h])
<1> DEFINE m == [d EXCEPT !.phase = 4]
           n == [m EXCEPT !.hr = h]
<1>1. m \in Draft /\ m.link = d.link /\ m.prn = d.prn
  BY DEF Draft
<1>2. n.link = d.link /\ n.prn = d.prn
  <2> HIDE DEF m
  <2> QED
    BY <1>1 DEF Draft
<1>3. Keeps(b, d, n)
  <2> HIDE DEF n
  <2> QED
    BY <1>2 DEF Keeps
<1>4. Keeps(b, d, [d EXCEPT !.hr = h])
  BY DEF Keeps, Draft
<1> QED
  BY <1>3, <1>4

\* A link round trip that ended loses at most the name of its own provider.
LEMMA KeepsWithLink ==
  ASSUME NEW b, NEW d \in Draft, NEW l \in Links, NEW as \in {"linked", "blank"},
         Blanked(b, l)
  PROVE  Keeps(b, d, [d EXCEPT !.link[l] = as])
<1> DEFINE n == [d EXCEPT !.link[l] = as]
<1>1. n.prn = d.prn /\ \A k \in Links : n.link[k] = IF k = l THEN as ELSE d.link[k]
  BY DEF Draft
<1>2. Keeps(b, d, n)
  <2> HIDE DEF n
  <2> QED
    BY <1>1 DEF Keeps
<1> QED
  BY <1>2

\* An answer to a Google round trip resumes the draft of the address, unless that
\* had nothing to lose.
LEMMA KeepsFresh ==
  ASSUME NEW r, r.draft \in Sound, r.draft = jar[r.browser].draft, NEW e \in Emails,
         NEW d \in Loads(r)
  PROVE  Keeps(r.browser, r.draft, IF AtPhase(d, 3) /\ d.email = e THEN d ELSE Fresh(e))
<1>1. CASE AtPhase(d, 3) /\ d.email = e
  BY <1>1, LoadsCurrent, KeepsItself DEF AtPhase
<1>2. CASE ~(AtPhase(d, 3) /\ d.email = e)
  <2> SUFFICES ASSUME r.draft # NoDraft, r.draft.email = e, ~Known(e)
               PROVE  r.draft.prn = NoPrn /\ \A l \in Links : r.draft.link[l] = "none"
    BY <1>2 DEF Keeps, Fresh
  <2>1. d = r.draft /\ r.draft \in Draft /\ GoodDraft(r.draft)
    BY LoadsCurrent DEF Sound
  <2>2. r.draft.phase = 2
    BY <1>2, <2>1 DEF AtPhase, Draft
  <2> QED
    BY <2>1, <2>2 DEF GoodDraft
<1> QED
  BY <1>1, <1>2

LEMMA KeptStep ==
  ASSUME IInv, [Next]_vars, NEW b \in Browsers, Current(b)
  PROVE  Keeps(b, jar[b].draft, jar'[b].draft)
<1>0. jar'[b].draft \in {jar[b].draft, NoDraft} => Keeps(b, jar[b].draft, jar'[b].draft)
  BY KeepsItself
<1>n. \A r \in net : /\ r \in Request /\ r.browser \in Browsers /\ r.draft \in Sound
                     /\ r.arg \in Arguments(r.op)
  BY DEF IInv, NetSound, Request
<1>c. \A r \in net : r.browser = b => r.op # "phase1" /\ r.draft = jar[r.browser].draft
  BY DEF Current
<1>1. ASSUME NEW x \in Browsers, NEW op \in Links \cup {"google"}, NEW n \in Nonces, StartFlow(x, op, n)
      PROVE  Keeps(b, jar[b].draft, jar'[b].draft)
  BY <1>0, <1>1 DEF StartFlow, IInv, TypeOK
<1>2. ASSUME NEW x \in Browsers, Expire(x) PROVE Keeps(b, jar[b].draft, jar'[b].draft)
  BY <1>0, <1>2 DEF Expire, IInv, TypeOK
<1>3. ASSUME NEW f \in flows, Callback(f) PROVE Keeps(b, jar[b].draft, jar'[b].draft)
  <2>1. f.browser \in Browsers
    BY DEF IInv, TypeOK, Flow
  <2> QED
    BY <1>0, <1>3, <2>1 DEF Callback, IInv, TypeOK
<1>4. ASSUME NEW r \in net, Phase1(r) PROVE Keeps(b, jar[b].draft, jar'[b].draft)
  BY <1>0, <1>n, <1>c, <1>4 DEF Phase1, SetDraft, IInv, TypeOK
<1>5. ASSUME NEW r \in net, Phase2(r) PROVE Keeps(b, jar[b].draft, jar'[b].draft)
  <2>1. PICK d \in Loads(r) : \/ /\ AtPhase(d, 2)
                                 /\ SetDraft(r.browser, [d EXCEPT !.phase = 3, !.prn = r.arg])
                              \/ UNCHANGED jar
    BY <1>5 DEF Phase2
  <2>2. CASE r.browser = b /\ AtPhase(d, 2) /\ jar' = [jar EXCEPT ![b].draft = [d EXCEPT !.phase = 3, !.prn = r.arg]]
    <3>1. d \in Draft /\ d = jar[b].draft /\ r.arg \in Prns
      BY <1>n, <1>c, <1>5, <2>2, LoadsCurrent, LoadsSound, PassedGate DEF AtPhase, Phase2, Arguments
    <3>2. jar'[b].draft = [d EXCEPT !.phase = 3, !.prn = r.arg]
      BY <2>2 DEF IInv, TypeOK
    <3>3. Keeps(b, d, [d EXCEPT !.phase = 3, !.prn = r.arg])
      BY <3>1, KeepsWithPrn
    <3> QED
      BY <3>1, <3>2, <3>3
  <2>3. jar'[b].draft = jar[b].draft \/ (r.browser = b /\ AtPhase(d, 2) /\ jar' = [jar EXCEPT ![b].draft = [d EXCEPT !.phase = 3, !.prn = r.arg]])
    BY <1>n, <2>1 DEF SetDraft, IInv, TypeOK
  <2> QED
    BY <1>0, <2>2, <2>3
<1>6. ASSUME NEW r \in net, Save(r) PROVE Keeps(b, jar[b].draft, jar'[b].draft)
  <2>1. PICK d \in Loads(r) : \/ AtPhase(d, 3) /\ SetDraft(r.browser, [d EXCEPT !.hr = r.arg])
                              \/ UNCHANGED jar
    BY <1>6 DEF Save
  <2>2. CASE r.browser = b /\ AtPhase(d, 3) /\ jar' = [jar EXCEPT ![b].draft = [d EXCEPT !.hr = r.arg]]
    <3>1. d \in Draft /\ d = jar[b].draft /\ r.arg \in Handles
      BY <1>n, <1>c, <1>6, <2>2, LoadsCurrent, LoadsSound, PassedGate DEF AtPhase, Save, Arguments
    <3>2. jar'[b].draft = [d EXCEPT !.hr = r.arg]
      BY <2>2 DEF IInv, TypeOK
    <3>3. Keeps(b, d, [d EXCEPT !.hr = r.arg])
      BY <3>1, KeepsWithHandle
    <3> QED
      BY <3>1, <3>2, <3>3
  <2>3. jar'[b].draft = jar[b].draft \/ (r.browser = b /\ AtPhase(d, 3) /\ jar' = [jar EXCEPT ![b].draft = [d EXCEPT !.hr = r.arg]])
    BY <1>n, <2>1 DEF SetDraft, IInv, TypeOK
  <2> QED
    BY <1>0, <2>2, <2>3
<1>7. ASSUME NEW r \in net, Continue(r) PROVE Keeps(b, jar[b].draft, jar'[b].draft)
  <2>1. PICK d \in Loads(r) : \/ /\ AtPhase(d, 3)
                                 /\ SetDraft(r.browser, [d EXCEPT !.phase = 4, !.hr = r.arg])
                              \/ UNCHANGED jar
    BY <1>7 DEF Continue
  <2>2. CASE r.browser = b /\ AtPhase(d, 3) /\ jar' = [jar EXCEPT ![b].draft = [d EXCEPT !.phase = 4, !.hr = r.arg]]
    <3>1. d \in Draft /\ d = jar[b].draft /\ r.arg \in Handles
      BY <1>n, <1>c, <1>7, <2>2, LoadsCurrent, LoadsSound, PassedGate DEF AtPhase, Continue, Arguments, Handles
    <3>2. jar'[b].draft = [d EXCEPT !.phase = 4, !.hr = r.arg]
      BY <2>2 DEF IInv, TypeOK
    <3>3. Keeps(b, d, [d EXCEPT !.phase = 4, !.hr = r.arg])
      BY <3>1, KeepsWithHandle
    <3> QED
      BY <3>1, <3>2, <3>3
  <2>3. jar'[b].draft = jar[b].draft \/ (r.browser = b /\ AtPhase(d, 3) /\ jar' = [jar EXCEPT ![b].draft = [d EXCEPT !.phase = 4, !.hr = r.arg]])
    BY <1>n, <2>1 DEF SetDraft, IInv, TypeOK
  <2> QED
    BY <1>0, <2>2, <2>3
<1>8. ASSUME NEW r \in net, Finish(r) PROVE Keeps(b, jar[b].draft, jar'[b].draft)
  BY <1>0, <1>n, <1>8 DEF Finish, IInv, TypeOK
<1>9. ASSUME NEW r \in net, LinkDone(r) PROVE Keeps(b, jar[b].draft, jar'[b].draft)
  <2>1. r.draft \in Draft
    BY <1>9, <1>n, PassedGate DEF LinkDone, IInv, NetSound
  <2>2. ASSUME NEW as \in {"linked", "blank"}, r.browser = b,
               SetDraftAndFlow(b, [r.draft EXCEPT !.link[r.op] = as])
        PROVE  Keeps(b, jar[b].draft, jar'[b].draft)
    <3> DEFINE n == [r.draft EXCEPT !.link[r.op] = as]
    <3>1. Blanked(b, r.op) /\ r.op \in Links
      BY <1>9, <2>2 DEF LinkDone, Blanked
    <3>2. Keeps(b, r.draft, n)
      BY <2>1, <3>1, KeepsWithLink
    <3>3. SetDraftAndFlow(b, n)
      BY <2>2
    <3> HIDE DEF n
    <3>4. jar'[b].draft = n
      BY <3>3 DEF SetDraftAndFlow, IInv, TypeOK
    <3> QED
      BY <1>c, <2>2, <3>2, <3>4
  <2>3. \/ jar'[b].draft = jar[b].draft
        \/ /\ r.browser = b
           /\ \E as \in {"linked", "blank"} :
                 SetDraftAndFlow(b, [r.draft EXCEPT !.link[r.op] = as])
    <3>1. PICK as \in {"linked", "blank"} :
            \/ SetDraftAndFlow(r.browser, [r.draft EXCEPT !.link[r.op] = as])
            \/ jar' = [jar EXCEPT ![r.browser].flow = NoFlow]
            \/ UNCHANGED jar
      BY <1>9 DEF LinkDone
    <3> DEFINE n == [r.draft EXCEPT !.link[r.op] = as]
    <3>2. CASE SetDraftAndFlow(r.browser, n)
      <4>1. r.browser # b => jar'[b].draft = jar[b].draft
        <5> HIDE DEF n
        <5> QED
          BY <1>n, <3>2 DEF SetDraftAndFlow, IInv, TypeOK
      <4> QED
        BY <3>2, <4>1
    <3>3. CASE jar' = [jar EXCEPT ![r.browser].flow = NoFlow] \/ UNCHANGED jar
      BY <1>n, <3>3 DEF IInv, TypeOK
    <3> QED
      BY <3>1, <3>2, <3>3
  <2> QED
    BY <1>0, <2>2, <2>3
<1>10. ASSUME NEW r \in net, GoogleDone(r) PROVE Keeps(b, jar[b].draft, jar'[b].draft)
  <2>1. ASSUME NEW e \in Emails, NEW d \in Loads(r),
               SetDraftAndFlow(r.browser, IF AtPhase(d, 3) /\ d.email = e THEN d ELSE Fresh(e))
        PROVE  Keeps(b, jar[b].draft, jar'[b].draft)
    <3> DEFINE n == IF AtPhase(d, 3) /\ d.email = e THEN d ELSE Fresh(e)
    <3>1. r.browser = b => Keeps(b, jar[b].draft, n)
      BY <1>c, <1>n, KeepsFresh
    <3>2. jar'[b].draft = IF r.browser = b THEN n ELSE jar[b].draft
      <4> HIDE DEF n
      <4> QED
        BY <1>n, <2>1 DEF SetDraftAndFlow, IInv, TypeOK, n
    <3> QED
      BY <1>0, <3>1, <3>2
  <2>2. CASE jar' = [jar EXCEPT ![r.browser].flow = NoFlow] \/ UNCHANGED jar
    BY <1>0, <1>n, <2>2 DEF IInv, TypeOK
  <2> QED
    BY <1>10, <2>1, <2>2 DEF GoogleDone
<1>11. CASE UNCHANGED jar
  BY <1>0, <1>11
<1> QED
  BY <1>1, <1>2, <1>3, <1>4, <1>5, <1>6, <1>7, <1>8, <1>9, <1>10, <1>11
     DEF Next, Send, FinishRefused, vars

\* Until the account exists, no answer takes back the roll number or a link of a
\* student whose requests all carry the draft that the browser holds, but for a
\* second round trip to the same provider that got no name.
THEOREM LinksKept == Spec => LinksKeptWithoutOverlap
<1>1. IInv /\ [Next]_vars
        => [\A b \in Browsers :
              (\A r \in net : r.browser = b => r.op # "phase1" /\ r.draft = jar[b].draft)
                => Keeps(b, jar[b].draft, jar'[b].draft)]_vars
  BY KeptStep DEF Current
<1> QED
  BY Invariance, <1>1, PTL DEF Spec, LinksKeptWithoutOverlap
=============================================================================
