------------------------- MODULE MCOperatorCommands -------------------------
EXTENDS OperatorCommands, TLC

\* A short shipment, a dead letter to retry or dismiss, and a line without SKU.
OrderExceptions == {"short", "dead", "sku"}
OrderTypes == [x \in OrderExceptions |->
    CASE x = "short" -> "SHORT_SHIPMENT" [] x = "dead" -> "OUTBOX_DEAD_LETTER"
      [] x = "sku" -> "MISSING_SKU_MAPPING"]
OrderSeverity == [x \in OrderExceptions |-> IF x = "dead" THEN "low" ELSE "high"]

Ask(key, target, type, version) ==
    [key |-> key, target |-> target, type |-> type, expectedVersion |-> version]

\* Two operators after the same exceptions, one of whom uses a key twice.
OrderRequests == 1..7
OrderCommands == <<
    Ask("k1", "short", "assign", 1),
    Ask("k2", "short", "resolve_short", 1),
    Ask("k3", "short", "resolve_short", 2),
    Ask("k1", "dead", "retry_outbox", 1),
    Ask("k4", "sku", "map_sku", 1),
    Ask("k5", "dead", "retry_outbox", 2),
    Ask("k6", "dead", "dismiss", 2)>>
OrderKeys == {"k1", "k2", "k3", "k4", "k5", "k6"}

\* Sessions are interchangeable.
Symmetric == Permutations(Sessions)
=============================================================================
