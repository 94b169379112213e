-------------------------- MODULE MCSyncOperation --------------------------
EXTENDS SyncOperation

\* The processes share a worker id, as replicas with one configuration do.
SharedWorkerId == [p \in Processes |-> "executor"]
=============================================================================
