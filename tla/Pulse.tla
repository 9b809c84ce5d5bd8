------------------------------- MODULE Pulse --------------------------------
(***************************************************************************)
(* What the heartbeat promises: one beat at a time.  A beat begins only    *)
(* when none is claimed, its outcome is written while it holds the claim,  *)
(* and the claim is given up for that beat and by nobody else.             *)
(***************************************************************************)
EXTENDS Naturals

CONSTANTS Beats, NoBeat

VARIABLES claim,    \* the beat that is under way, or NoBeat
          result    \* result[b]: the row of beat b in the ledger of outcomes

Results == {"none", "running", "final"}

TypeOK == claim \in Beats \cup {NoBeat} /\ result \in [Beats -> Results]

Init == claim = NoBeat /\ result = [b \in Beats |-> "none"]

Begin(b) ==
    /\ claim = NoBeat
    /\ result[b] = "none"
    /\ claim' = b
    /\ result' = [result EXCEPT ![b] = "running"]

Record(b) ==
    /\ claim = b
    /\ result[b] = "running"
    /\ result' = [result EXCEPT ![b] = "final"]
    /\ UNCHANGED claim

\* Giving up the claim writes the outcome if that is still to be done.
Release(b) ==
    /\ claim = b
    /\ claim' = NoBeat
    /\ result' = [result EXCEPT ![b] = "final"]

Next == \E b \in Beats : Begin(b) \/ Record(b) \/ Release(b)

Spec == Init /\ [][Next]_<<claim, result>>
=============================================================================
