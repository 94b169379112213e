----------------------------- MODULE EventLedger -----------------------------
(***************************************************************************)
(* What becomes of the inbound events of one order, with requests,         *)
(* workers, claims, attempts and crashes hidden: what the inbox promises   *)
(* to the handlers behind it, and what the handlers rely on.               *)
(*                                                                         *)
(* An event is recorded once and handled by one transaction at a time.     *)
(* Only an event that creates the order is applied without one; the others *)
(* wait in "parked".  The transaction of a creator first calls the events  *)
(* that wait by then, and wakes these and no others when it commits: an    *)
(* event parked in between waits for the next creator.  Once an event is   *)
(* processed, ignored or a dead letter, that is final, and the order never *)
(* goes away.                                                              *)
(***************************************************************************)
CONSTANTS
    Events,     \* inbound messages about the order
    Creators,   \* those that create or revise it
    Unhandled,  \* those that no handler is interested in
    Strays      \* those that wait under another order's name

VARIABLES
    fate,       \* fate[e]: what has become of e
    known,      \* whether there is an order
    calling,    \* the creator, at most one, that has called and not committed
    heard       \* the events it called

lvars == <<fate, known, calling, heard>>

LInit ==
    /\ fate \in [Events -> {"absent", "received"}]
    /\ known = FALSE
    /\ calling = {} /\ heard = {}

\* The fate of e changes, and nothing else does.
Turn(e, from, to) ==
    /\ fate[e] = from
    /\ fate' = [fate EXCEPT ![e] = to]
    /\ UNCHANGED <<known, calling, heard>>

\* A delivery, which may find that the event is overtaken or comes before its order.
Record(e) ==
    \/ Turn(e, "absent", "received")
    \/ Turn(e, "absent", "ignored")
    \/ e \notin Creators /\ Turn(e, "absent", "parked")

Claim(e) == Turn(e, "received", "processing")

\* The transaction is rolled back, to be tried again or not.
GiveBack(e) == Turn(e, "processing", "received")
Bury(e) == Turn(e, "processing", "dead_letter")

Park(e) == e \notin Creators \cup Unhandled /\ Turn(e, "processing", "parked")

\* An event that its order makes void, or that means nothing to anybody.
Ignore(e) == (known \/ e \in Unhandled) /\ Turn(e, "processing", "ignored")

Apply(e) ==
    e \notin Creators \cup Unhandled /\ known /\ Turn(e, "processing", "processed")

\* A creator calls whoever waits.  The order's row is its own from here on.
Call(e) ==
    /\ e \in Creators
    /\ fate[e] = "processing"
    /\ calling = {}
    /\ calling' = {e}
    /\ heard' = {f \in Events \ Strays : fate[f] = "parked"}
    /\ UNCHANGED <<fate, known>>

\* The order is created or revised, and whoever was called is woken.
Create(e) ==
    /\ e \in calling
    /\ fate' = [f \in Events |-> IF f = e THEN "processed"
                                 ELSE IF f \in heard THEN "received" ELSE fate[f]]
    /\ known' = TRUE
    /\ calling' = {} /\ heard' = {}

\* Or its transaction is rolled back, and nobody was called; the creator may be
\* tried again at once.
Retract(e) ==
    /\ e \in calling
    /\ fate' \in {fate, [fate EXCEPT ![e] = "received"]}
    /\ calling' = {} /\ heard' = {}
    /\ UNCHANGED known

LNext ==
    \E e \in Events :
        \/ Record(e) \/ Claim(e) \/ GiveBack(e) \/ Bury(e)
        \/ Park(e) \/ Ignore(e) \/ Apply(e)
        \/ Call(e) \/ Create(e) \/ Retract(e)

LSpec == LInit /\ [][LNext]_lvars
=============================================================================
