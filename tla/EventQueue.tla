----------------------------- MODULE EventQueue -----------------------------
(***************************************************************************)
(* What the gateway promises its clients: an event that was submitted is   *)
(* run at least once before it is settled, it is never dropped while it    *)
(* waits or runs, and once it is settled it never runs again.  A run may   *)
(* be taken back and repeated, which is why delivery is at least once.     *)
(***************************************************************************)
EXTENDS Naturals

CONSTANT Events     \* the identities events may take

VARIABLE state      \* state[e] is where event e stands

States == {"absent", "waiting", "running", "settled", "forgotten"}

TypeOK == state \in [Events -> States]

Init == state = [e \in Events |-> "absent"]

Move(e, from, to) ==
    /\ state[e] = from
    /\ state' = [state EXCEPT ![e] = to]

Enqueue(e) == Move(e, "absent", "waiting")

\* An event that is handled inline is only written down.
Note(e) == Move(e, "absent", "settled")

Run(e) == Move(e, "waiting", "running")

\* Every run that is judged abandoned goes back in one step.
TakeBack(S) ==
    /\ \A e \in S : state[e] = "running"
    /\ state' = [e \in Events |-> IF e \in S THEN "waiting" ELSE state[e]]

Settle(e) == Move(e, "running", "settled")

Forget(e) == Move(e, "settled", "forgotten")

Next ==
    \/ \E e \in Events :
          Enqueue(e) \/ Note(e) \/ Run(e) \/ Settle(e) \/ Forget(e)
    \/ \E S \in SUBSET Events : TakeBack(S)

Spec == Init /\ [][Next]_state
=============================================================================
