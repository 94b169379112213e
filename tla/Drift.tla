-------------------------------- MODULE Drift --------------------------------
(***************************************************************************)
(* The comparison of a remote resource with the local copy of it           *)
(* (packages/domain/src/reconciliation.ts): which drift there is, and what *)
(* may be done about it without asking anybody.                            *)
(*                                                                         *)
(* A resource is a record of what the comparisons tell apart:              *)
(*   version  its source version (the carrier's shipments have none)       *)
(*   content  the line signature, the line quantities or the tracking      *)
(*   status   its status, and for a readback what commerce reflects        *)
(*   shipped  the quantity shipped, which readbacks compare                *)
(***************************************************************************)
EXTENDS Naturals

CONSTANTS Null, Contents, ResourceStatuses, MaxVersion

ASSUME VersionAssumption == MaxVersion \in Nat \ {0}
ASSUME ContentsAssumption == Contents # {}
ASSUME ReadbackAssumption == {"missing", "reflected"} \subseteq ResourceStatuses

Pairs == {"commerce_order", "warehouse_fulfillment", "carrier_shipment",
          "shipment_commerce_fulfillment"}

Resource == [version : 0..MaxVersion, content : Contents, status : ResourceStatuses,
             shipped : 0..MaxVersion]

Categories == {"none", "missing_local", "missing_remote", "stale_local",
               "stale_remote_or_delayed", "identity_mismatch", "quantity_mismatch",
               "tracking_mismatch", "status_mismatch"}

Found(category, auto) == [category |-> category, auto |-> auto]
NoDrift == Found("none", FALSE)

\* What both versioned pairs make of the versions.
CompareVersions(remote, local, otherwise) ==
    CASE local = Null -> Found("missing_local", TRUE)
      [] local # Null /\ remote.version > local.version -> Found("stale_local", TRUE)
      [] local # Null /\ remote.version < local.version ->
           Found("stale_remote_or_delayed", FALSE)
      [] local # Null /\ remote.version = local.version -> otherwise

ReconcileCommerceOrder(remote, local) ==
    CompareVersions(remote, local,
      IF remote.content # local.content THEN Found("identity_mismatch", FALSE) ELSE NoDrift)

ReconcileWarehouseFulfillment(remote, local) ==
    CompareVersions(remote, local,
      CASE remote.content # local.content -> Found("quantity_mismatch", FALSE)
        [] remote.content = local.content /\ remote.status # local.status ->
             Found("status_mismatch", FALSE)
        [] OTHER -> NoDrift)

ReconcileCarrierShipment(remote, local) ==
    CASE local = Null -> Found("missing_local", TRUE)
      [] local # Null /\ remote.content # local.content -> Found("tracking_mismatch", FALSE)
      [] local # Null /\ remote.content = local.content /\ remote.status # local.status ->
           Found("status_mismatch", FALSE)
      [] OTHER -> NoDrift

\* The runner drops the finding of an order that nothing was shipped for.
ReconcileCommerceFulfillment(remote, local) ==
    CASE remote.status # "reflected" ->
           IF remote.status = "missing" /\ local.shipped = 0
           THEN NoDrift ELSE Found("missing_remote", local.shipped > 0)
      [] remote.status = "reflected" /\ remote.shipped # local.shipped ->
           Found("quantity_mismatch", FALSE)
      [] OTHER -> NoDrift

\* One resource of either side; a resource that only the local side knows is
\* reported for review.
Compare(pair, remote, local) ==
    CASE remote = Null /\ local = Null -> NoDrift
      [] remote = Null /\ local # Null -> Found("missing_remote", FALSE)
      [] OTHER ->
           CASE pair = "commerce_order" -> ReconcileCommerceOrder(remote, local)
             [] pair = "warehouse_fulfillment" -> ReconcileWarehouseFulfillment(remote, local)
             [] pair = "carrier_shipment" -> ReconcileCarrierShipment(remote, local)
             [] pair = "shipment_commerce_fulfillment" ->
                  ReconcileCommerceFulfillment(remote, local)
=============================================================================
