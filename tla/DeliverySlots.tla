--------------------------- MODULE DeliverySlots ----------------------------
(***************************************************************************)
(* What the outbox promises (docs/protocol.md, "The outbox"): for every    *)
(* client and every durable type there is one slot.  It is empty or holds  *)
(* a command; a newer command replaces what the slot holds; and what it    *)
(* holds leaves it when it is delivered, past its time or discarded.       *)
(* Outbox implements this.                                                 *)
(***************************************************************************)
EXTENDS Naturals

CONSTANTS Clients, Durable

VARIABLES
    slot,       \* the commands held: at most one per client and type
    last        \* commands issued so far; a command is its place in that order

slotVars == <<slot, last>>

SlotInit ==
    /\ slot = [p \in Clients |-> [t \in Durable |-> {}]]
    /\ last = 0

\* A command nobody holds for later.
Pass == last' = last + 1 /\ UNCHANGED slot

\* A durable command for an absent client.
Hold(p, t) ==
    /\ last' = last + 1
    /\ slot' = [slot EXCEPT ![p][t] = {last + 1}]

\* The client's turn, or that of retention.
Release(p, types) ==
    /\ slot' = [slot EXCEPT ![p] = [t \in Durable |-> IF t \in types THEN {} ELSE @[t]]]
    /\ UNCHANGED last

SlotNext ==
    \/ Pass
    \/ \E p \in Clients, t \in Durable : Hold(p, t)
    \/ \E p \in Clients, types \in SUBSET Durable : Release(p, types)

SlotSpecification == SlotInit /\ [][SlotNext]_slotVars
=============================================================================
