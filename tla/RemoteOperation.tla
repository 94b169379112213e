--------------------------- MODULE RemoteOperation ---------------------------
(***************************************************************************)
(* What sync_operations promise the code that creates one: the life of a   *)
(* remote command with workers, leases, retries and crashes hidden.        *)
(*                                                                         *)
(* An operation is done only when the remote system has acted.  An         *)
(* operation whose result is unknown rests: it becomes done when the       *)
(* effect is found, and is opened again only by somebody who says that it  *)
(* is absent.  Done and refused are final.  The remote system may act      *)
(* again on an open operation, and late on any: a call is not recalled.    *)
(***************************************************************************)
EXTENDS Naturals

CONSTANTS Operations

VARIABLES
    phase,    \* phase[o]: where the operation stands for its creator
    created   \* created[o]: how often the remote system carried it out

rvars == <<phase, created>>

RInit ==
    /\ phase = [o \in Operations |-> "absent"]
    /\ created = [o \in Operations |-> 0]

Move(o, from, to) ==
    /\ phase[o] = from
    /\ phase' = [phase EXCEPT ![o] = to]
    /\ UNCHANGED created

Act(o) ==
    /\ phase[o] # "absent"
    /\ created' = [created EXCEPT ![o] = @ + 1]
    /\ UNCHANGED phase

Submit(o) == Move(o, "absent", "open")
Finish(o) == created[o] > 0 /\ Move(o, "open", "done")
LoseTrack(o) == Move(o, "open", "unknown")
Discover(o) == created[o] > 0 /\ Move(o, "unknown", "done")
Reopen(o) == Move(o, "unknown", "open")
Refuse(o) == Move(o, "open", "refused")

RNext ==
    \E o \in Operations :
        \/ Submit(o) \/ Act(o) \/ Finish(o) \/ LoseTrack(o)
        \/ Discover(o) \/ Reopen(o) \/ Refuse(o)

RSpec == RInit /\ [][RNext]_rvars
=============================================================================
