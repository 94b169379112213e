------------------------------ MODULE MCInbox ------------------------------
EXTENDS Inbox, TLC

\* The commerce stream of one order, and a warehouse event that nobody handles.
AllEvents == {"created", "accepted", "cancelled", "noted"}
AllCreators == {"created", "accepted"}
AllUnhandled == {"noted"}
AllStored == [e \in AllCreators |-> IF e = "created" THEN 1 ELSE 2]
AllVersions == [e \in AllEvents |->
    CASE e = "created" -> 1 [] e = "accepted" -> 2 [] e = "cancelled" -> 3 [] OTHER -> 0]
AllStreams == [e \in AllEvents |-> IF e = "noted" THEN "wms" ELSE "commerce"]

\* Three revisions, one of them without a version on its envelope; a carrier event,
\* which ingestion lets through without an order, and a warehouse event that ingestion
\* looks up under a key of its own.
SomeEvents == {"created", "accepted", "amended", "shipped", "strayed"}
SomeCreators == {"created", "accepted", "amended"}
SomeStrays == {"strayed"}
SomeStored == [e \in SomeCreators |-> IF e = "accepted" THEN 2 ELSE 1]
SomeVersions == [e \in SomeEvents |->
    CASE e = "created" -> 1 [] e = "accepted" -> 2 [] OTHER -> 0]
SomeStreams == [e \in SomeEvents |-> IF e \in SomeCreators THEN "commerce" ELSE e]

\* Workers and receivers are interchangeable in the safety run.
Symmetric == Permutations(Workers) \cup Permutations(Receivers)
=============================================================================
