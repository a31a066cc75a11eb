---------------------------- MODULE Announcement ----------------------------
(* What the weekly run promises of one week: when every account was counted,  *)
(* each address is told, of each kind once, and the week is published after    *)
(* somebody was told of it.  Once it is lost what was sent, addresses may be   *)
(* told again and the week may be taken back.  Weekly.tla, where runs overlap, *)
(* fail and are ended statement by statement, is shown to implement this.      *)
EXTENDS Naturals

CONSTANTS Students,  \* the accounts to count
          Audience   \* the addresses to tell

VARIABLES counted,    \* the accounts counted so far
          told,       \* how often each address was told, by kind: never, once, more
          published,  \* the week is settled
          lost        \* nobody knows any more what was sent

promise == <<counted, told, published, lost>>
-----------------------------------------------------------------------------
Kinds == {"github", "hackerrank"}
Never == [k \in Kinds |-> 0]

Init == /\ counted = {} /\ told = [u \in Audience |-> Never]
        /\ published = FALSE /\ lost = FALSE

\* An account is counted, at any time.
Gather(s) == /\ counted' = counted \cup {s}
             /\ UNCHANGED <<told, published, lost>>

\* An address is told, of one kind or both.
Tell(u, news) ==
  /\ counted = Students
  /\ lost \/ (~published /\ told[u] = Never /\ \A k \in Kinds : news[k] <= 1)
  /\ \A k \in Kinds : told[u][k] <= news[k]
  /\ told' = [told EXCEPT ![u] = news]
  /\ UNCHANGED <<counted, published, lost>>

\* The week is settled, by the GitHub announcement.
Publish == /\ \E u \in Audience : told[u]["github"] > 0
           /\ published' = TRUE
           /\ UNCHANGED <<counted, told, lost>>

Retract == /\ lost /\ published' = FALSE
           /\ UNCHANGED <<counted, told, lost>>

Lose == lost' = TRUE /\ UNCHANGED <<counted, told, published>>

Next == \/ \E s \in Students : Gather(s)
        \/ \E u \in Audience, news \in [Kinds -> 0..2] : Tell(u, news)
        \/ Publish \/ Retract \/ Lose

Spec == Init /\ [][Next]_promise
=============================================================================
