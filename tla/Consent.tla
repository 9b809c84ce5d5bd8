------------------------------- MODULE Consent -------------------------------
\* What operator approval promises: a protected call asks one person once, the
\* answer is given once and never revised, and the call runs at most once and
\* only after a yes.
CONSTANTS Calls
VARIABLES consent,  \* the answer on record for each call
          outcome   \* what became of each call

Answers == {"none", "open", "granted", "denied", "lapsed"}
Outcomes == {"pending", "ran", "refused", "gone"}

Init == /\ consent = [c \in Calls |-> "none"]
        /\ outcome = [c \in Calls |-> "pending"]

Ask(c) == /\ consent[c] = "none"
          /\ outcome[c] = "pending"
          /\ consent' = [consent EXCEPT ![c] = "open"]
          /\ UNCHANGED outcome

\* Somebody answers, or nobody does in time; no answer replaces another.
Answer(c) == /\ consent[c] = "open"
             /\ \E a \in {"granted", "denied", "lapsed"} : consent' = [consent EXCEPT ![c] = a]
             /\ UNCHANGED outcome

\* Several requests may lapse together: one statement expires all that are late.
Lapse == /\ \E D \in SUBSET {c \in Calls : consent[c] = "open"} :
               consent' = [c \in Calls |-> IF c \in D THEN "lapsed" ELSE consent[c]]
         /\ UNCHANGED outcome

Run(c) == /\ outcome[c] = "pending"
          /\ consent[c] = "granted"
          /\ outcome' = [outcome EXCEPT ![c] = "ran"]
          /\ UNCHANGED consent

\* A call may be refused at any time, and its process may die; neither takes
\* the answer back, except that a refusal may close what is still open.
Drop(c) == /\ outcome[c] = "pending"
           /\ \E o \in {"refused", "gone"} : outcome' = [outcome EXCEPT ![c] = o]
           /\ \/ UNCHANGED consent
              \/ consent[c] = "open" /\ consent' = [consent EXCEPT ![c] = "lapsed"]
              \/ consent[c] = "none" /\ consent' = [consent EXCEPT ![c] = "open"]

Next == Lapse \/ \E c \in Calls : Ask(c) \/ Answer(c) \/ Run(c) \/ Drop(c)
Spec == Init /\ [][Next]_<<consent, outcome>>
=============================================================================
