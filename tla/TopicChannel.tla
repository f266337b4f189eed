---------------------------- MODULE TopicChannel ----------------------------
(***************************************************************************)
(* What the two message buses promise alike: the messages of a topic are   *)
(* numbered as they are published and come in over lines, one or several;  *)
(* over one line each is received once at most, and later ones after       *)
(* earlier ones.  Any of them may be lost.                                 *)
(***************************************************************************)
EXTENDS Naturals, Sequences

CONSTANTS Topics, Lines

VARIABLES
    sent,      \* sent[t]: how many messages were published
    got        \* got[t]: those that were received, each with its line, in this order

Init == sent = [t \in Topics |-> 0] /\ got = [t \in Topics |-> <<>>]

Publish(t) ==
    /\ sent' = [sent EXCEPT ![t] = @ + 1]
    /\ UNCHANGED got

Receive(t) ==
    /\ \E x \in Lines, n \in 1..sent[t] :
        /\ \A i \in DOMAIN got[t] : got[t][i][1] = x => got[t][i][2] < n
        /\ got' = [got EXCEPT ![t] = Append(@, <<x, n>>)]
    /\ UNCHANGED sent

Next == \E t \in Topics : Publish(t) \/ Receive(t)

Spec == Init /\ [][Next]_<<sent, got>>
=============================================================================
