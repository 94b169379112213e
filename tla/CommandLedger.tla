---------------------------- MODULE CommandLedger ----------------------------
(***************************************************************************)
(* What operators are promised of their commands, with transactions, locks *)
(* and reads hidden: each takes effect in one step, on its exception as it *)
(* is at that moment, by the rules of ExceptionRules and under a key of    *)
(* its own, or not at all; and only a client whose command is on record is *)
(* told that it succeeded.                                                 *)
(***************************************************************************)
EXTENDS ExceptionRules

VARIABLES
    exception,    \* exception[x]: its status, version and what closed it
    commands,     \* the requests carried out
    mapped,       \* exceptions whose order line was inserted
    message,      \* what retries are about
    acknowledged  \* requests answered with success

lvars == <<exception, commands, mapped, message, acknowledged>>

LInit ==
    /\ exception = [x \in Exceptions |-> NoRow]
    /\ commands = {}
    /\ mapped = {}
    /\ message = "dead_letter"
    /\ acknowledged = {}

\* A command that the rules allow on the exception as it is now.
CarryOut(r) ==
    LET c == Command[r]
    IN /\ \A q \in commands : Command[q].key # c.key
       /\ exception[c.target].status # "absent"
       /\ Accepts(c, exception[c.target])
       /\ exception' = [exception EXCEPT ![c.target] = Result(r, exception[c.target])]
       /\ commands' = commands \cup {r}
       /\ mapped' = IF c.type = "map_sku" THEN mapped \cup {c.target} ELSE mapped
       /\ IF c.type = "retry_outbox"
          THEN message = "dead_letter" /\ message' = "pending"
          ELSE UNCHANGED message
       /\ acknowledged' = acknowledged \cup {r}

\* A repetition is answered like the first.
Repeat(r) ==
    /\ \E q \in commands : /\ Command[q].key = Command[r].key
                           /\ Command[q].target = Command[r].target
    /\ acknowledged' = acknowledged \cup {r}
    /\ UNCHANGED <<exception, commands, mapped, message>>

Open(x) ==
    /\ exception[x].status = "absent"
    /\ exception' = [exception EXCEPT ![x] = [NoRow EXCEPT !.status = "open"]]
    /\ UNCHANGED <<commands, mapped, message, acknowledged>>

Deliver ==
    /\ message = "pending"
    /\ message' \in {"sent", "dead_letter"}
    /\ UNCHANGED <<exception, commands, mapped, acknowledged>>

LNext ==
    \/ \E r \in Requests : CarryOut(r) \/ Repeat(r)
    \/ \E x \in Exceptions : Open(x)
    \/ Deliver

LSpec == LInit /\ [][LNext]_lvars
=============================================================================
