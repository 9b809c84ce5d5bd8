------------------------------ MODULE Handover ------------------------------
\* What every hop of the message relay promises about an item it has written
\* down: the item is not called done before it was handed over, and what is done
\* stays done. An item may be handed over again, before or after: the hops are
\* at-least-once. A hop may drop an item it owes, and owe it again.
CONSTANT Items

VARIABLES state,   \* "none", "owed", "done" or "dropped"
          given    \* items handed over at least once

handover == <<state, given>>

TypeOK == /\ state \in [Items -> {"none", "owed", "done", "dropped"}]
          /\ given \subseteq Items

Init == /\ state = [i \in Items |-> "none"]
        /\ given = {}

\* The items of S, all in one of the states From, go to state to.
Move(S, From, to) ==
    /\ \A i \in S : state[i] \in From
    /\ state' = [i \in Items |-> IF i \in S THEN to ELSE state[i]]

Owe(S)  == Move(S, {"none", "dropped"}, "owed") /\ UNCHANGED given
Drop(S) == Move(S, {"owed"}, "dropped") /\ UNCHANGED given

Give(S) == given' = given \cup S /\ UNCHANGED state

\* S is what was handed over by now; an item already done may be in it.
Finish(S) == /\ S \subseteq given
             /\ Move(S, {"owed", "done"}, "done")
             /\ UNCHANGED given

\* A note handed over in the same transaction that writes it down.
Post(i) == /\ Move({i}, {"none"}, "done")
           /\ given' = given \cup {i}

Next == \/ \E S \in SUBSET Items : Owe(S) \/ Drop(S) \/ Give(S) \/ Finish(S)
        \/ \E i \in Items : Post(i)

Spec == Init /\ [][Next]_handover
=============================================================================
