------------------------------ MODULE Delivery ------------------------------
(***************************************************************************)
(* What the transactional outbox promises to the code that appends to it   *)
(* and to the remote systems it calls, with workers, leases, retries and   *)
(* crashes hidden.                                                         *)
(*                                                                         *)
(* A message is queued once; its effect on the remote system happens at    *)
(* most once; it is marked sent only after that effect, and for good; a    *)
(* message given up on ("dead") comes back only when an operator says so.  *)
(* The effect may still land on a message that is already dead: the call   *)
(* of a worker that lost its lease is not recalled.                        *)
(***************************************************************************)
EXTENDS Naturals

CONSTANTS Messages   \* the (tenant, destination, idempotency key) triples

VARIABLES
    phase,    \* phase[m]: where the message stands for its sender
    applied   \* applied[m]: how often the remote system carried out the effect

dvars == <<phase, applied>>

DInit ==
    /\ phase = [m \in Messages |-> "absent"]
    /\ applied = [m \in Messages |-> 0]

Enqueue(m) ==
    /\ phase[m] = "absent"
    /\ phase' = [phase EXCEPT ![m] = "queued"]
    /\ UNCHANGED applied

Apply(m) ==
    /\ phase[m] # "absent"
    /\ applied[m] = 0
    /\ applied' = [applied EXCEPT ![m] = 1]
    /\ UNCHANGED phase

Confirm(m) ==
    /\ phase[m] = "queued"
    /\ applied[m] = 1
    /\ phase' = [phase EXCEPT ![m] = "sent"]
    /\ UNCHANGED applied

GiveUp(m) ==
    /\ phase[m] = "queued"
    /\ phase' = [phase EXCEPT ![m] = "dead"]
    /\ UNCHANGED applied

Revive(m) ==
    /\ phase[m] = "dead"
    /\ phase' = [phase EXCEPT ![m] = "queued"]
    /\ UNCHANGED applied

DNext ==
    \E m \in Messages :
        Enqueue(m) \/ Apply(m) \/ Confirm(m) \/ GiveUp(m) \/ Revive(m)

DSpec == DInit /\ [][DNext]_dvars
=============================================================================
