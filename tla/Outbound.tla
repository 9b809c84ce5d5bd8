------------------------------ MODULE Outbound ------------------------------
(***************************************************************************)
(* Outbound safety for one person who is not the user: STOP and the other  *)
(* controls, the contact budget, the reservation of each send in the       *)
(* ledger outbound_events, and what becomes of it.  Senders are the tool   *)
(* executions and the channel consumers; a key is the request key of one   *)
(* message to one address.                                                 *)
(*                                                                         *)
(* Controls hang on an entity: the person's contacts row once there is     *)
(* one, the bare address before.  authorize_outbound and the handler of    *)
(* inbound controls upsert the row of the address first and so exclude     *)
(* each other on one address, but not on two.  Denied rows of the ledger   *)
(* have no further effect and are left out, as are disclosure texts and    *)
(* the cadence that sets regen_per_day.                                    *)
(***************************************************************************)
EXTENDS Integers, FiniteSetsExt

CONSTANTS
    Senders, Addresses,
    Mails, Keys,        \* messages; a key is a message and its address
    Tools,              \* those a tool sends: tried once
    Urgent,             \* those with a backed urgent purpose
    Replies,            \* those that answer an inbound message: free
    Costs,              \* charges, as quiet hours and discounts make them
    Gains,              \* what time or an inbound message gives back
    MaxPoints, MaxSilent,
    MaxEvents,          \* bound: reservations in the ledger
    MaxOutboundFaults,  \* bound: failing sends and statements, crashes
    MaxControls,        \* bound: STOP, START, suspensions, inbound messages
    MaxLinks            \* bound: contacts rows written while the system runs

ASSUME OutboundAssumption ==
    /\ {MaxPoints, MaxSilent, MaxEvents, MaxOutboundFaults, MaxControls, MaxLinks} \subseteq Nat
    /\ Costs \subseteq Nat \ {0} /\ Gains \subseteq Nat
    /\ Keys \subseteq Mails \X Addresses /\ Keys # {}
    /\ Tools \cup Urgent \cup Replies \subseteq Mails
    /\ {"contact", "all"} \cap Addresses = {}

Entities == Addresses \cup {"contact"}
Events == 1..MaxEvents
Status == {"none", "authorized", "delivered", "failed"}

VARIABLES
    linked,     \* a contacts row lists the person's addresses
    stopped,    \* entities with outbound_contact_controls.blocked
    suspended,  \* suspended entities, and "all" for outbound.suspended
    optedOut,   \* the person's last word was STOP
    points, strain, silent,  \* contact_budgets, by entity and address
    ledger,     \* outbound_events
    stage,      \* where a sender stands
    task,       \* the key it sends and the entity it was resolved to
    ticket,     \* its reservation
    settled,    \* keys nobody will try again
    underway,   \* history: the senders past the controls when an entity was barred
    optUnderway,\* history: the senders past the controls when the person opted out
    gained,     \* history: what was ever given back to a budget
    outboundFaults, controlsUsed, links

budgetVars == <<points, strain, silent, gained>>
controlVars == <<stopped, suspended, optedOut, underway, optUnderway>>
senderVars == <<stage, task, ticket>>
outboundBounds == <<outboundFaults, controlsUsed, links>>
outboundVars == <<linked, stopped, suspended, optedOut, points, strain, silent,
                  ledger, stage, task, ticket, settled, underway, optUnderway,
                  gained, outboundFaults, controlsUsed, links>>

Budgets == Entities \X Addresses
NoEvent == 0
Reservation == [key : Keys, entity : Entities, status : Status, cost : Nat, debt : Nat]

OutboundTypeOK ==
    /\ linked \in BOOLEAN /\ optedOut \in BOOLEAN
    /\ stopped \subseteq Entities
    /\ suspended \subseteq Entities \cup {"all"}
    /\ points \in [Budgets -> Int] /\ strain \in [Budgets -> Nat]
    /\ silent \in [Budgets -> Nat] /\ gained \in [Budgets -> Nat]
    /\ ledger \in [Events -> Reservation]
    /\ stage \in [Senders -> {"idle", "cleared", "sending", "sent", "failed"}]
    /\ task \in [Senders -> Keys \X Entities]
    /\ ticket \in [Senders -> Events \cup {NoEvent}]
    /\ settled \subseteq Keys
    /\ underway \in [Entities -> SUBSET Senders]
    /\ optUnderway \subseteq Senders
    /\ outboundFaults \in 0..MaxOutboundFaults
    /\ controlsUsed \in 0..MaxControls
    /\ links \in 0..MaxLinks

SomeKey == CHOOSE k \in Keys : TRUE

OutboundInit ==
    /\ linked \in BOOLEAN /\ optedOut = FALSE
    /\ stopped = {} /\ suspended = {}
    /\ points = [b \in Budgets |-> MaxPoints]
    /\ strain = [b \in Budgets |-> 0]
    /\ silent = [b \in Budgets |-> 0]
    /\ gained = [b \in Budgets |-> 0]
    /\ ledger = [i \in Events |-> [key |-> SomeKey, entity |-> "contact",
                                   status |-> "none", cost |-> 0, debt |-> 0]]
    /\ stage = [w \in Senders |-> "idle"]
    /\ task = [w \in Senders |-> <<SomeKey, "contact">>]
    /\ ticket = [w \in Senders |-> NoEvent]
    /\ settled = {}
    /\ underway = [e \in Entities |-> {}]
    /\ optUnderway = {}
    /\ outboundFaults = 0 /\ controlsUsed = 0 /\ links = 0

OutboundFault == /\ outboundFaults < MaxOutboundFaults
                 /\ outboundFaults' = outboundFaults + 1

KeyOf(w) == task[w][1]
EntityAt(w) == task[w][2]
AddressAt(w) == KeyOf(w)[2]
BudgetAt(w) == <<EntityAt(w), AddressAt(w)>>

\* resolve_outbound_entity.
EntityOf(a) == IF linked THEN "contact" ELSE a
Barred(e) == e \in stopped \/ {e, "all"} \cap suspended # {}

\* The upsert of the address's row is held until the transaction ends.
AddressFree(a) == \A w \in Senders : stage[w] = "cleared" => AddressAt(w) # a

Least(i, j) == IF i < j THEN i ELSE j
AtLeastZero(i) == IF i < 0 THEN 0 ELSE i

\* The sender is done with its task.
GoIdle(w) == /\ stage' = [stage EXCEPT ![w] = "idle"]
             /\ ticket' = [ticket EXCEPT ![w] = NoEvent]
             /\ underway' = [e \in Entities |-> underway[e] \ {w}]
             /\ optUnderway' = optUnderway \ {w}
             /\ UNCHANGED <<task, stopped, suspended, optedOut>>
-----------------------------------------------------------------------------
\* Mutant: only the reservation this sender made counts.
Held_Own(w) == {i \in Events : ledger[i].status = "authorized" /\ i = ticket[w]}

\* Who tries again after a crash or a failed finalization goes on with the
\* reservation that is still authorized.
Held(w) == {i \in Events : ledger[i].status = "authorized" /\ ledger[i].key = KeyOf(w)}

\* Mutant: an old reservation is found before the controls are read.
Clear_ReuseFirst(w, k) ==
    /\ stage[w] = "idle"
    /\ k \notin settled
    /\ AddressFree(k[2])
    /\ \/ ~Barred(EntityOf(k[2]))
       \/ \E i \in Events : ledger[i].status = "authorized" /\ ledger[i].key = k
    /\ stage' = [stage EXCEPT ![w] = "cleared"]
    /\ task' = [task EXCEPT ![w] = <<k, EntityOf(k[2])>>]
    /\ settled' = IF k[1] \in Tools THEN settled \cup {k} ELSE settled
    /\ UNCHANGED <<linked, controlVars, budgetVars, ledger, ticket, outboundBounds>>

\* authorize_outbound, up to the controls and the purpose: nothing is sent to
\* whom STOP, a suspension or a missing purpose protects, not even on a
\* reservation made before.
Clear(w, k) ==
    /\ stage[w] = "idle"
    /\ k \notin settled
    /\ AddressFree(k[2])
    /\ ~Barred(EntityOf(k[2]))
    /\ stage' = [stage EXCEPT ![w] = "cleared"]
    /\ task' = [task EXCEPT ![w] = <<k, EntityOf(k[2])>>]
    /\ settled' = IF k[1] \in Tools THEN settled \cup {k} ELSE settled
    /\ UNCHANGED <<linked, controlVars, budgetVars, ledger, ticket, outboundBounds>>

\* A tool that is refused does not try again.
Refuse(w, k) ==
    /\ stage[w] = "idle"
    /\ k[1] \in Tools
    /\ k \notin settled
    /\ AddressFree(k[2])
    /\ settled' = settled \cup {k}
    /\ UNCHANGED <<linked, controlVars, budgetVars, ledger, senderVars, outboundBounds>>

Reuse(w) ==
    /\ stage[w] = "cleared"
    /\ \E i \in Held(w) : ticket' = [ticket EXCEPT ![w] = i]
    /\ stage' = [stage EXCEPT ![w] = "sending"]
    /\ UNCHANGED <<linked, controlVars, budgetVars, ledger, task, settled, outboundBounds>>

Reserve(w, c, d) ==
    \E i \in Events :
        /\ ledger[i].status = "none"
        /\ \A j \in Events : ledger[j].status = "none" => i <= j
        /\ ledger' = [ledger EXCEPT ![i] = [key |-> KeyOf(w), entity |-> EntityAt(w),
                                            status |-> "authorized", cost |-> c, debt |-> d]]
        /\ ticket' = [ticket EXCEPT ![w] = i]
        /\ stage' = [stage EXCEPT ![w] = "sending"]

ReserveReply(w) ==
    /\ stage[w] = "cleared"
    /\ Held(w) = {}
    /\ KeyOf(w)[1] \in Replies
    /\ Reserve(w, 0, 0)
    /\ UNCHANGED <<linked, controlVars, budgetVars, task, settled, outboundBounds>>

\* Mutant: a debt is no strain.
Debt_Forgotten(p) == 0

Debt(p) == AtLeastZero(-p)

\* The budget after g points of regeneration, and the charge c.  Only a backed
\* urgent purpose may go into debt, and its debt is strain.
Charge(w) ==
    /\ stage[w] = "cleared"
    /\ Held(w) = {}
    /\ KeyOf(w)[1] \notin Replies
    /\ \E g \in Gains, c \in Costs :
        LET b == BudgetAt(w)
            p == Least(MaxPoints, points[b] + g)
            s == AtLeastZero(strain[b] - g)
            d == Least(c, Debt(p - c))
        IN /\ \/ KeyOf(w)[1] \in Urgent
              \/ s = 0 /\ silent[b] < MaxSilent /\ p >= c
           /\ points' = [points EXCEPT ![b] = p - c]
           /\ strain' = [strain EXCEPT ![b] = s + d]
           /\ gained' = [gained EXCEPT ![b] = @ + g]
           /\ Reserve(w, c, d)
    /\ UNCHANGED <<linked, controlVars, silent, task, settled, outboundBounds>>

\* The budget says no; what it has regenerated stays.
Deny(w) ==
    /\ stage[w] = "cleared"
    /\ Held(w) = {}
    /\ KeyOf(w)[1] \notin Replies \cup Urgent
    /\ \E g \in Gains, c \in Costs :
        LET b == BudgetAt(w)
            p == Least(MaxPoints, points[b] + g)
            s == AtLeastZero(strain[b] - g)
        IN /\ s > 0 \/ silent[b] >= MaxSilent \/ p < c
           /\ points' = [points EXCEPT ![b] = p]
           /\ strain' = [strain EXCEPT ![b] = s]
           /\ gained' = [gained EXCEPT ![b] = @ + g]
    /\ GoIdle(w)
    /\ UNCHANGED <<linked, silent, ledger, settled, outboundBounds>>

Send(w) ==
    /\ stage[w] = "sending"
    /\ stage' = [stage EXCEPT ![w] = "sent"]
    /\ UNCHANGED <<linked, controlVars, budgetVars, ledger, task, ticket, settled, outboundBounds>>

\* The provider refuses, the call times out with the message sent or not, or a
\* co-recipient was denied and nothing is sent.
SendFails(w) ==
    /\ stage[w] = "sending"
    /\ OutboundFault
    /\ stage' = [stage EXCEPT ![w] = "failed"]
    /\ UNCHANGED <<linked, controlVars, budgetVars, ledger, task, ticket, settled,
                   controlsUsed, links>>

\* Mutant: a settled reservation is settled again.
Conclude_Again(i, status) ==
    LET r == ledger[i]
        b == <<r.entity, r.key[2]>>
    IN /\ ledger' = [ledger EXCEPT ![i].status = status]
       /\ IF status = "delivered"
          THEN /\ silent' = [silent EXCEPT ![b] = @ + 1]
               /\ UNCHANGED <<points, strain>>
          ELSE /\ points' = [points EXCEPT ![b] = Least(MaxPoints, @ + r.cost)]
               /\ strain' = [strain EXCEPT ![b] = AtLeastZero(@ - r.debt)]
               /\ UNCHANGED silent

\* finalize_outbound settles a reservation once: what was delivered counts as
\* unanswered, what failed is refunded.
Conclude(i, status) ==
    LET r == ledger[i]
        b == <<r.entity, r.key[2]>>
    IN IF r.status = "authorized"
       THEN /\ ledger' = [ledger EXCEPT ![i].status = status]
            /\ IF status = "delivered"
               THEN /\ silent' = IF r.key[1] \in Replies THEN silent
                                 ELSE [silent EXCEPT ![b] = @ + 1]
                    /\ UNCHANGED <<points, strain>>
               ELSE /\ points' = [points EXCEPT ![b] = Least(MaxPoints, @ + r.cost)]
                    /\ strain' = [strain EXCEPT ![b] = AtLeastZero(@ - r.debt)]
                    /\ UNCHANGED silent
       ELSE UNCHANGED <<ledger, points, strain, silent>>

\* A message that went out is not tried again; one that failed may be, unless
\* it is a tool's.
Finalize(w) ==
    /\ \/ /\ stage[w] = "sent"
          /\ Conclude(ticket[w], "delivered")
          /\ settled' = settled \cup {KeyOf(w)}
       \/ /\ stage[w] = "failed"
          /\ Conclude(ticket[w], "failed")
          /\ UNCHANGED settled
    /\ GoIdle(w)
    /\ UNCHANGED <<linked, gained, outboundBounds>>

\* The failure to write the outcome down is logged and swallowed.
FinalizeFails(w) ==
    /\ stage[w] \in {"sent", "failed"}
    /\ OutboundFault
    /\ settled' = IF stage[w] = "sent" THEN settled \cup {KeyOf(w)} ELSE settled
    /\ GoIdle(w)
    /\ UNCHANGED <<linked, budgetVars, ledger, controlsUsed, links>>

SenderDies(w) ==
    /\ stage[w] # "idle"
    /\ OutboundFault
    /\ GoIdle(w)
    /\ UNCHANGED <<linked, budgetVars, ledger, settled, controlsUsed, links>>
-----------------------------------------------------------------------------
\* Controls.

Control == /\ controlsUsed < MaxControls
           /\ controlsUsed' = controlsUsed + 1
           /\ UNCHANGED <<linked, ledger, senderVars, settled, outboundFaults, links>>

\* The senders that are past the controls.
Past(e) == {w \in Senders : stage[w] \in {"cleared", "sending"} /\ EntityAt(w) = e}
AllPast == {w \in Senders : stage[w] \in {"cleared", "sending"}}

\* record_outbound_contact_inbound: any inbound message gives points back.
Credit(a) ==
    \E g \in Gains :
        LET b == <<EntityOf(a), a>>
        IN /\ points' = [points EXCEPT ![b] = Least(MaxPoints, @ + g)]
           /\ strain' = [strain EXCEPT ![b] = AtLeastZero(@ - g)]
           /\ silent' = [silent EXCEPT ![b] = 0]
           /\ gained' = [gained EXCEPT ![b] = @ + g]

Hear(a) ==
    /\ Control
    /\ AddressFree(a)
    /\ Credit(a)
    /\ UNCHANGED controlVars

\* handle_inbound_contact_control.
Stop(a) ==
    /\ Control
    /\ AddressFree(a)
    /\ Credit(a)
    /\ LET e == EntityOf(a) IN
         /\ stopped' = stopped \cup {e}
         /\ underway' = IF Barred(e) THEN underway ELSE [underway EXCEPT ![e] = Past(e)]
    /\ optUnderway' = IF optedOut THEN optUnderway ELSE AllPast
    /\ optedOut' = TRUE
    /\ UNCHANGED suspended

Restart(a) ==
    /\ Control
    /\ AddressFree(a)
    /\ Credit(a)
    /\ stopped' = stopped \ {EntityOf(a)}
    /\ optedOut' = FALSE
    /\ UNCHANGED <<suspended, underway, optUnderway>>

\* set_outbound_global_suspension, set_outbound_entity_suspension: an operator
\* pauses sends and resumes them, and a STOP stays.
Suspend(x) ==
    /\ Control
    /\ suspended' = suspended \cup {x}
    /\ underway' = [e \in Entities |-> IF Barred(e) \/ x \notin {e, "all"}
                                       THEN underway[e] ELSE Past(e)]
    /\ UNCHANGED <<stopped, optedOut, optUnderway, budgetVars>>

Resume(x) ==
    /\ Control
    /\ x \in suspended
    /\ suspended' = suspended \ {x}
    /\ UNCHANGED <<stopped, optedOut, underway, optUnderway, budgetVars>>

\* A contacts row is written that lists the addresses.
Link ==
    /\ links < MaxLinks
    /\ links' = links + 1
    /\ ~linked
    /\ linked' = TRUE
    /\ UNCHANGED <<controlVars, budgetVars, ledger, senderVars, settled,
                   outboundFaults, controlsUsed>>
-----------------------------------------------------------------------------
Sending(w) == \/ \E k \in Keys : Clear(w, k) \/ Refuse(w, k)
              \/ Reuse(w) \/ ReserveReply(w) \/ Charge(w) \/ Deny(w)
              \/ Send(w) \/ SendFails(w) \/ Finalize(w) \/ FinalizeFails(w)
              \/ SenderDies(w)
OutboundNext == \/ \E w \in Senders : Sending(w)
                \/ \E a \in Addresses : Hear(a) \/ Stop(a) \/ Restart(a)
                \/ \E x \in Entities \cup {"all"} : Suspend(x) \/ Resume(x)
                \/ Link

OutboundSpec == OutboundInit /\ [][OutboundNext]_outboundVars
-----------------------------------------------------------------------------
\* A STOP or a suspension binds everybody who was not past the controls when
\* it came: whoever sends to a barred entity was under way by then. Recovery
\* of an old reservation is no way around it.
BarsBind ==
    \A w \in Senders : stage[w] \in {"cleared", "sending"} /\ Barred(EntityAt(w)) =>
        w \in underway[EntityAt(w)]

\* However often a message is tried, at most one of its reservations is open:
\* nobody is charged twice for one message on its way.
OneReservation ==
    \A i, j \in Events :
        /\ ledger[i].status = "authorized" /\ ledger[j].status = "authorized"
        /\ ledger[i].key = ledger[j].key
        => i = j

\* Debt is never forgotten: out-of-order refunds, regeneration and credits may
\* end strain late, but not while points are below zero.
StrainCoversDebt == \A b \in Budgets : points[b] <= MaxPoints /\ strain[b] >= -points[b]

\* Nothing is paid back twice: what is left and what was charged for messages
\* under way or delivered never exceed what there was and what came in.
NothingFree ==
    \A b \in Budgets :
        points[b] + MapThenSumSet(LAMBDA i : ledger[i].cost,
                        {i \in Events : /\ ledger[i].status \in {"authorized", "delivered"}
                                        /\ <<ledger[i].entity, ledger[i].key[2]>> = b})
          <= MaxPoints + gained[b]

\* What the person's word means to the person: after STOP, nobody who was not
\* under way sends, on any address.
StopHolds == optedOut => AllPast \subseteq optUnderway
=============================================================================
