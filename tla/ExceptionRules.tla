--------------------------- MODULE ExceptionRules ---------------------------
(***************************************************************************)
(* What a command does to an exception, and when it may                    *)
(* (packages/domain/src/exception-commands.ts).                            *)
(***************************************************************************)
EXTENDS Naturals

CONSTANTS
    Exceptions,     \* exceptions of one order
    Type,           \* Type[x]
    Severity,       \* Severity[x]
    Requests,       \* requests that clients send
    Command,        \* Command[r]: a record of the set CommandRecord
    Keys,           \* idempotency keys
    Null

CommandTypes == {"assign", "add_note", "map_sku", "resolve_short", "retry_outbox",
                 "accept_authoritative_value", "dismiss"}

CommandRecord == [key : Keys, target : Exceptions, type : CommandTypes, expectedVersion : Nat]

ASSUME CommandAssumption == Command \in [Requests -> CommandRecord]
ASSUME SeverityAssumption == Severity \in [Exceptions -> {"low", "medium", "high", "critical"}]
ASSUME NullAssumption == Null \notin Requests

Row == [status : {"absent", "open", "resolved", "dismissed"}, version : Nat,
        closedBy : Requests \cup {Null}]
NoRow == [status |-> "absent", version |-> 1, closedBy |-> Null]

IsBlocking(x) == Severity[x] \in {"high", "critical"}

Closing == {"map_sku", "resolve_short", "accept_authoritative_value", "dismiss"}

Suits(type, x) ==
    CASE type = "map_sku" -> Type[x] = "MISSING_SKU_MAPPING"
      [] type = "resolve_short" -> Type[x] = "SHORT_SHIPMENT"
      [] type = "retry_outbox" -> Type[x] = "OUTBOX_DEAD_LETTER"
      [] type = "accept_authoritative_value" ->
           Type[x] \in {"WAREHOUSE_IDENTITY_CONFLICT", "TRACKING_MISMATCH"}
      [] type = "dismiss" -> Severity[x] = "low"
      [] OTHER -> TRUE

\* Rules that let a command close what is closed already.
AcceptsClosed(c, row) == c.expectedVersion = row.version /\ Suits(c.type, c.target)

Accepts(c, row) ==
    /\ c.expectedVersion = row.version
    /\ row.status = "open" \/ c.type = "add_note"
    /\ Suits(c.type, c.target)

\* The row after the command; every command bumps the version.
Result(r, row) ==
    LET type == Command[r].type
    IN [status |-> CASE type = "dismiss" -> "dismissed"
                     [] type \in Closing \ {"dismiss"} -> "resolved"
                     [] OTHER -> row.status,
        version |-> row.version + 1,
        closedBy |-> IF type \in Closing THEN r ELSE row.closedBy]
=============================================================================
