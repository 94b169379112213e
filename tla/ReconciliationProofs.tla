------------------------ MODULE ReconciliationProofs ------------------------
(***************************************************************************)
(* Theorems about Reconciliation, for any runners, keys, times and bounds. *)
(***************************************************************************)
EXTENDS Reconciliation, FiniteSetTheorems, TLAPS

-----------------------------------------------------------------------------
(* Types *)

USE DEF AssertingSteps, WritingSteps

Apart == {"idle", "start", "starting"}

\* Locals of a visit: there is a run from start on, something to repair only
\* after the findings are stored, and of every finding to repair a remote copy.
Sound(l) ==
    /\ l \in Locals
    /\ l.now >= 0
    /\ l.base >= 0 - Lookback
    /\ l.run = 0 <=> l.step \in Apart
    /\ l.step \in Apart \cup {"local", "remote", "persist", "persisting"} => l.todo = {}
    /\ \A k \in l.todo : l.theirs[k] # Null

\* Readbacks compare orders that both sides know.
BothKnown ==
    /\ Readback => local \in [Keys -> Resource] /\ remote \in [Keys -> Resource]
    /\ \A k \in Keys : redelivery[k] # "none" => Readback

TypeInv ==
    /\ TypeOK
    /\ \A r \in Runners : Sound(runner[r])
    /\ watermark = Null \/ watermark >= 0
    /\ \A i \in DOMAIN runs : runs[i].windowEnd >= 0
    /\ BothKnown

\* What a step does to the runners: at most one of them moves, to sound locals.
Moves(r, l) == runner' = [runner EXCEPT ![r] = l]
Row(r) == runs[runner[r].run]
RowAfter(r) == runs'[runner[r].run]
RowAlone(r) == runs' = [runs EXCEPT ![runner[r].run] = RowAfter(r)]
Alone(r) == runner' = [runner EXCEPT ![r] = runner'[r]]

LEMMA UnknownType == Unknown \in [Keys -> Copies]
BY DEF Unknown, Copies

LEMMA IdleIsSound == Sound(IdleRunner)
BY UnknownType, TimeAssumption DEF IdleRunner, Sound, Locals, Steps, Times, Apart

\* Locals without copies and without anything to repair.
LEMMA GoingIsSound ==
    ASSUME NEW now \in 0..MaxTime, NEW run \in RunIds, NEW step \in Steps \ Apart
    PROVE  Sound([IdleRunner EXCEPT !.step = step, !.now = now, !.run = run])
<1> DEFINE l == [IdleRunner EXCEPT !.step = step, !.now = now, !.run = run]
<1>1. IdleRunner \in Locals /\ IdleRunner.base = 0 /\ IdleRunner.todo = {}
  BY IdleIsSound DEF Sound, IdleRunner
<1>2. now \in Times /\ run \in RunIds \cup {0} /\ step \in Steps
  BY TimeAssumption DEF Times
<1>3. l \in Locals
  BY <1>1, <1>2 DEF Locals
<1>4. l.now = now /\ l.run = run /\ l.step = step /\ l.base = 0 /\ l.todo = {}
  BY <1>1 DEF Locals
<1>5. run # 0
  BY BoundsAssumption DEF RunIds
<1> QED
  BY <1>3, <1>4, <1>5, TimeAssumption DEF Sound

LEMMA ContentType == FirstContent \in Contents
BY ContentsAssumption DEF FirstContent

LEMMA UnshippedType == Unshipped \in Resource
BY ContentType, VersionAssumption, ReadbackAssumption DEF Unshipped, Resource

LEMMA UnreportedType == Unreported \in Resource
BY ContentType, VersionAssumption, ReadbackAssumption DEF Unreported, Resource

LEMMA InitType == Init => TypeInv
<1> SUFFICES ASSUME Init PROVE TypeInv
  OBVIOUS
<1>1. /\ local \in [Keys -> Copies] /\ remote \in [Keys -> Copies] /\ BothKnown
  BY UnshippedType, UnreportedType DEF Init, Beginnings, Copies, BothKnown
<1>2. \A r \in Runners : Sound(runner[r]) /\ runner[r].run = 0
  BY IdleIsSound DEF Init, IdleRunner
<1>3. \A r \in Runners : runner[r] \in Locals
  BY <1>2 DEF Sound
<1>4. runs \in Seq(Run) /\ Len(runs) = 0 /\ DOMAIN runs = {}
  BY DEF Init
<1> QED
  BY <1>1, <1>2, <1>3, <1>4, PairAssumption, TimeAssumption, BoundsAssumption
  DEF Init, TypeInv, TypeOK

\* What TypeInv says of the runners.
RunnersOK ==
    /\ runner \in [Runners -> Locals]
    /\ \A r \in Runners : /\ Sound(runner[r])
                          /\ runner[r].run # 0 => runner[r].run \in DOMAIN runs

LEMMA MoveType ==
    ASSUME TypeInv, NEW r \in Runners, NEW l, Moves(r, l), Sound(l),
           l.run # 0 => l.run \in DOMAIN runs', DOMAIN runs \subseteq DOMAIN runs'
    PROVE  RunnersOK'
<1>1. \A s \in Runners : runner'[s] = IF s = r THEN l ELSE runner[s]
  BY DEF TypeInv, TypeOK, Moves
<1>2. runner' \in [Runners -> Locals]
  BY DEF TypeInv, TypeOK, Moves, Sound
<1> QED
  BY <1>1, <1>2 DEF TypeInv, TypeOK, RunnersOK

\* A step that leaves the repository alone.
LEMMA RepositoryStays ==
    ASSUME TypeInv, RunnersOK', UNCHANGED repository, UNCHANGED pair, clock' \in 0..MaxTime,
           local' \in [Keys -> Copies], remote' \in [Keys -> Copies], inbox' \subseteq Message,
           redelivery' \in [Keys -> {"none", "queued", "sent", "dead_letter"}],
           BothKnown', crashes' \in Nat, takeovers' \in Nat, events' \in Nat
    PROVE  TypeInv'
BY DEF TypeInv, TypeOK, repository, RunnersOK

\* A step of a runner that changes nothing but the runner and the time.
LEMMA RunnerStepType ==
    ASSUME TypeInv, UNCHANGED <<pair, repository, data>>, clock' \in 0..MaxTime,
           takeovers' \in Nat, crashes' \in Nat, events' \in Nat,
           NEW r \in Runners, NEW l, Moves(r, l), Sound(l), l.run \in {0, runner[r].run}
    PROVE  TypeInv'
<1>1. RunnersOK'
  BY MoveType DEF repository, TypeInv, TypeOK
<1>2. BothKnown'
  BY DEF TypeInv, BothKnown, data, Readback
<1> QED
  BY <1>1, <1>2, RepositoryStays DEF TypeInv, TypeOK, data

\* A step of the providers, the inbox or the outbox.
LEMMA DataStepType ==
    ASSUME TypeInv, UNCHANGED <<pair, clock, repository, runner, crashes, takeovers>>,
           local' \in [Keys -> Copies], remote' \in [Keys -> Copies], inbox' \subseteq Message,
           redelivery' \in [Keys -> {"none", "queued", "sent", "dead_letter"}],
           BothKnown', events' \in Nat
    PROVE  TypeInv'
<1>1. RunnersOK'
  BY DEF TypeInv, TypeOK, RunnersOK, repository, Sound
<1> QED
  BY <1>1, RepositoryStays DEF TypeInv, TypeOK

\* processNext with one message, successful or not.
LEMMA ProcessingType ==
    ASSUME TypeInv, NEW m \in inbox, Processed(m) \/ Conflicts(m) \/ DeadLettered(m),
           UNCHANGED <<pair, remote, redelivery>>
    PROVE  /\ local' \in [Keys -> Copies] /\ inbox' \subseteq Message
           /\ BothKnown' /\ events' \in Nat
<1>1. m \in Message /\ m.body \in Resource /\ m.key \in Keys
  BY DEF TypeInv, TypeOK, Message
<1>2. \A st \in {"processed", "ignored", "conflict", "dead_letter"} :
        Replace(m, st) \subseteq Message
  <2> TAKE st \in {"processed", "ignored", "conflict", "dead_letter"}
  <2>1. [m EXCEPT !.status = st] \in Message
    BY <1>1 DEF Message
  <2> QED
    BY <2>1 DEF TypeInv, TypeOK, Replace
<1>3. inbox' \subseteq Message
  BY <1>2 DEF Processed, Conflicts, DeadLettered
<1>4. local' \in [Keys -> Copies] /\ (Readback' => local' \in [Keys -> Resource])
  BY <1>1 DEF TypeInv, TypeOK, BothKnown, Readback, Processed, Conflicts, DeadLettered,
     Copies
<1>5. events' \in Nat
  BY DEF TypeInv, TypeOK, Processed, Conflicts, DeadLettered
<1> QED
  BY <1>3, <1>4, <1>5 DEF TypeInv, BothKnown, Readback

LEMMA InboxWorkerType == TypeInv /\ InboxWorker => TypeInv'
<1> SUFFICES ASSUME TypeInv, InboxWorker PROVE TypeInv'
  OBVIOUS
<1>1. PICK m \in inbox : Processed(m) \/ Conflicts(m) \/ DeadLettered(m)
  BY DEF InboxWorker
<1>2. /\ local' \in [Keys -> Copies] /\ inbox' \subseteq Message
      /\ BothKnown' /\ events' \in Nat
  BY <1>1, ProcessingType DEF InboxWorker
<1>3. /\ remote' \in [Keys -> Copies]
      /\ redelivery' \in [Keys -> {"none", "queued", "sent", "dead_letter"}]
      /\ UNCHANGED <<pair, clock, repository, runner, crashes, takeovers>>
  BY DEF InboxWorker, TypeInv, TypeOK
<1> QED
  BY <1>2, <1>3, DataStepType

LEMMA ProvidersType ==
    ASSUME TypeInv, NEW k \in Keys, RemoteChanges(k) \/ Ships(k) \/ Dispatcher(k)
    PROVE  TypeInv'
<1> USE DEF TypeInv, TypeOK
<1>0. UNCHANGED <<pair, clock, repository, runner, crashes, takeovers>> /\ events' \in Nat
  BY DEF RemoteChanges, Ships, Dispatcher
<1>1. ASSUME RemoteChanges(k)
      PROVE  /\ local' \in [Keys -> Copies] /\ remote' \in [Keys -> Copies]
             /\ inbox' \subseteq Message
             /\ redelivery' \in [Keys -> {"none", "queued", "sent", "dead_letter"}]
             /\ BothKnown'
  <2>1. PICK body \in Resource :
             \E report \in Reports(k, body) : /\ remote' = [remote EXCEPT ![k] = body]
                                               /\ inbox' = inbox \cup report
    BY <1>1 DEF RemoteChanges
  <2>2. ASSUME NEW report \in Reports(k, body) PROVE report \subseteq Message
    <3> HIDE DEF TypeInv, TypeOK
    <3>1. ASSUME NEW versioned \in BOOLEAN
          PROVE  [origin |-> "provider", key |-> k, body |-> body, versioned |-> versioned,
                  status |-> "received"] \in Message
      BY DEF Message
    <3> QED
      BY <3>1 DEF Reports
  <2>3. UNCHANGED <<local, redelivery, pair>> /\ ~Readback
    BY <1>1 DEF RemoteChanges
  <2> QED
    BY <2>1, <2>2, <2>3 DEF BothKnown, Readback, Copies
<1>2. ASSUME Ships(k)
      PROVE  /\ local' \in [Keys -> Copies] /\ remote' \in [Keys -> Copies]
             /\ inbox' \subseteq Message
             /\ redelivery' \in [Keys -> {"none", "queued", "sent", "dead_letter"}]
             /\ BothKnown'
  <2>1. /\ Readback /\ local[k] \in Resource /\ remote[k] \in Resource
        /\ local \in [Keys -> Resource] /\ remote \in [Keys -> Resource]
        /\ local[k].shipped + 1 \in 0..MaxVersion
    BY <1>2, VersionAssumption DEF Ships, BothKnown, Resource
  <2>3. [remote[k] EXCEPT !.status = "reflected", !.shipped = local[k].shipped + 1] \in Resource
    BY <2>1, ReadbackAssumption DEF Resource
  <2>4. local' = [local EXCEPT ![k] = [local[k] EXCEPT !.shipped = local[k].shipped + 1]]
    <3> HIDE DEF TypeInv, TypeOK
    <3> QED
      BY <1>2 DEF Ships
  <2>5. \/ remote' = [remote EXCEPT ![k] =
               [remote[k] EXCEPT !.status = "reflected", !.shipped = local[k].shipped + 1]]
        \/ remote' = remote
    <3> HIDE DEF TypeInv, TypeOK
    <3> QED
      BY <1>2 DEF Ships
  <2>6. local' \in [Keys -> Resource]
    <3> HIDE DEF TypeInv, TypeOK
    <3>1. [local[k] EXCEPT !.shipped = local[k].shipped + 1] \in Resource
      BY <2>1 DEF Resource
    <3> QED
      BY <2>1, <2>4, <3>1
  <2>7. remote' \in [Keys -> Resource]
    BY <2>1, <2>3, <2>5
  <2>8. UNCHANGED <<inbox, redelivery, pair>>
    BY <1>2 DEF Ships
  <2> QED
    BY <2>1, <2>6, <2>7, <2>8 DEF BothKnown, Readback, Copies
<1>3. ASSUME Dispatcher(k)
      PROVE  /\ local' \in [Keys -> Copies] /\ remote' \in [Keys -> Copies]
             /\ inbox' \subseteq Message
             /\ redelivery' \in [Keys -> {"none", "queued", "sent", "dead_letter"}]
             /\ BothKnown'
  <2>1. /\ Readback /\ remote[k] \in Resource
        /\ local \in [Keys -> Resource] /\ remote \in [Keys -> Resource]
    BY <1>3 DEF Dispatcher, BothKnown
  <2>2. [remote[k] EXCEPT !.status = "reflected", !.shipped = 1] \in Resource
    <3>1. 1 \in 0..MaxVersion /\ "reflected" \in ResourceStatuses
      BY VersionAssumption, ReadbackAssumption
    <3> HIDE DEF TypeInv, TypeOK
    <3> QED
      BY <2>1, <3>1 DEF Resource
  <2>3. \/ remote' = [remote EXCEPT ![k] = [remote[k] EXCEPT !.status = "reflected",
                                                            !.shipped = 1]]
        \/ remote' = remote
    BY <1>3 DEF Dispatcher
  <2>4. remote' \in [Keys -> Resource]
    BY <2>1, <2>2, <2>3
  <2>5. /\ UNCHANGED <<local, inbox, pair>>
        /\ redelivery' \in [Keys -> {"none", "queued", "sent", "dead_letter"}]
    BY <1>3 DEF Dispatcher
  <2> QED
    BY <2>1, <2>4, <2>5 DEF BothKnown, Readback, Copies
<1> HIDE DEF TypeInv, TypeOK
<1> QED
  BY <1>0, <1>1, <1>2, <1>3, DataStepType

LEMMA LocalFacts ==
    ASSUME TypeInv, NEW r \in Runners
    PROVE  /\ Sound(runner[r]) /\ runner[r] \in Locals
           /\ runner[r].now \in 0..MaxTime /\ runner[r].now \in Times
           /\ runner[r].run # 0 => runner[r].run \in DOMAIN runs
           /\ runner[r].run \in RunIds \cup {0}
BY TimeAssumption DEF TypeInv, TypeOK, Sound, Locals, Times

\* The rest of a visit, with nothing in its locals but the run.
LEMMA GoesType ==
    ASSUME TypeInv, NEW r \in Runners, runner[r].run # 0, NEW step \in Steps \ Apart,
           Goes(r, runner[r].run, step), UNCHANGED <<pair, clock, repository, data>>,
           takeovers' \in Nat, crashes' \in Nat, events' \in Nat
    PROVE  TypeInv'
<1> DEFINE l == [IdleRunner EXCEPT !.step = step, !.now = runner[r].now, !.run = runner[r].run]
<1>1. Sound(l)
  BY LocalFacts, GoingIsSound
<1>2. Moves(r, l)
  BY DEF Goes, Moves
<1>3. l.run = runner[r].run
  BY <1>1, IdleIsSound DEF Sound, Locals
<1> QED
  BY <1>1, <1>2, <1>3, RunnerStepType DEF TypeInv, TypeOK

LEMMA BeginType ==
    ASSUME TypeInv, NEW r \in Runners, BeginRun(r) \/ StartFirst(r) \/ Crash(r)
    PROVE  TypeInv'
<1>0. clock \in 0..MaxTime /\ takeovers' \in Nat /\ crashes' \in Nat /\ events' \in Nat
  BY DEF TypeInv, TypeOK, BeginRun, StartFirst, Crash, counters
<1>1. CASE BeginRun(r)
  <2> DEFINE l == [IdleRunner EXCEPT !.step = "start", !.now = clock']
  <2>1. clock' \in 0..MaxTime /\ clock' \in Times
    BY <1>0, <1>1, TimeAssumption DEF BeginRun, Times
  <2>2. IdleRunner \in Locals /\ IdleRunner.run = 0 /\ IdleRunner.todo = {} /\ IdleRunner.base = 0
    BY IdleIsSound DEF Sound, IdleRunner
  <2>3. l \in Locals
    BY <2>1, <2>2 DEF Locals, Steps
  <2>4. l.run = 0 /\ l.todo = {} /\ l.base = 0 /\ l.now = clock' /\ l.step = "start"
    BY <2>2 DEF Locals
  <2>5. Sound(l)
    BY <2>1, <2>3, <2>4, TimeAssumption DEF Sound, Apart
  <2>6. Moves(r, l) /\ UNCHANGED <<pair, repository, data>>
    BY <1>1 DEF BeginRun, Moves
  <2> QED
    BY <1>0, <2>1, <2>4, <2>5, <2>6, RunnerStepType
<1>2. CASE StartFirst(r)
  <2> DEFINE l == [runner[r] EXCEPT !.step = "starting", !.base = WatermarkBase(r)]
  <2>1. WatermarkBase(r) \in Times /\ WatermarkBase(r) >= 0 - Lookback
    BY LocalFacts, TimeAssumption DEF WatermarkBase, TypeInv, TypeOK, Times
  <2>2. l \in Locals
    BY <2>1, LocalFacts DEF Locals, Steps
  <2>3. /\ l.run = runner[r].run /\ l.todo = runner[r].todo /\ l.theirs = runner[r].theirs
        /\ l.base = WatermarkBase(r) /\ l.now = runner[r].now /\ l.step = "starting"
    BY LocalFacts DEF Locals
  <2>4. runner[r].step = "start"
    BY <1>2 DEF StartFirst
  <2>5. runner[r].run = 0 /\ runner[r].todo = {}
    BY <2>4, LocalFacts DEF Sound, Apart
  <2>6. Sound(l)
    BY <2>1, <2>2, <2>3, <2>5, LocalFacts DEF Sound, Apart
  <2>7. Moves(r, l) /\ UNCHANGED <<pair, clock, repository, data>>
    BY <1>2 DEF StartFirst, Moves
  <2> QED
    BY <1>0, <2>3, <2>6, <2>7, RunnerStepType
<1>3. CASE Crash(r)
  <2>1. Moves(r, IdleRunner) /\ UNCHANGED <<pair, clock, repository, data>>
    BY <1>3 DEF Crash, Moves
  <2>2. IdleRunner.run = 0
    BY DEF IdleRunner
  <2> QED
    BY <1>0, <2>1, <2>2, IdleIsSound, RunnerStepType
<1> QED
  BY <1>1, <1>2, <1>3

LEMMA ReadLocalType ==
    ASSUME TypeInv, NEW r \in Runners, ReadLocal(r)
    PROVE  TypeInv'
<1> DEFINE l == [runner[r] EXCEPT !.step = "remote", !.ours = local, !.unread = Keys]
<1>1. local \in [Keys -> Copies] /\ runner[r].step = "local"
  BY DEF ReadLocal, TypeInv, TypeOK
<1>2. l \in Locals
  BY <1>1, LocalFacts DEF Locals, Steps
<1>3. /\ l.run = runner[r].run /\ l.todo = runner[r].todo /\ l.theirs = runner[r].theirs
      /\ l.base = runner[r].base /\ l.now = runner[r].now /\ l.step = "remote"
  BY LocalFacts DEF Locals
<1>4. runner[r].run # 0 /\ runner[r].todo = {}
  BY <1>1, LocalFacts DEF Sound, Apart
<1>5. Sound(l)
  BY <1>2, <1>3, <1>4, LocalFacts DEF Sound, Apart
<1>6. Moves(r, l) /\ UNCHANGED <<pair, clock, repository, data, counters>>
  BY DEF ReadLocal, Moves
<1> QED
  BY <1>3, <1>5, <1>6, RunnerStepType DEF TypeInv, TypeOK, counters

LEMMA ReadPageType ==
    ASSUME TypeInv, NEW r \in Runners, ReadPage(r) \/ RemoteError(r)
    PROVE  TypeInv'
<1>0. /\ runner[r].step = "remote"
      /\ takeovers' \in Nat /\ crashes' \in Nat /\ events' \in Nat
      /\ UNCHANGED <<pair, clock, repository, data>>
  <2>1. /\ UNCHANGED <<takeovers, crashes>> /\ events' \in {events, events + 1}
        /\ runner[r].step = "remote" /\ UNCHANGED <<pair, clock, repository, data>>
    BY DEF ReadPage, RemoteError, counters
  <2> QED
    BY <2>1 DEF TypeInv, TypeOK
<1>1. runner[r].run # 0 /\ runner[r].todo = {}
  BY <1>0, LocalFacts DEF Sound, Apart
<1>2. "failing" \in Steps \ Apart
  BY DEF Steps, Apart
<1>3. CASE Goes(r, runner[r].run, "failing")
  BY <1>0, <1>1, <1>2, <1>3, GoesType
<1>4. ASSUME NEW k \in runner[r].unread, NEW step \in {"persist", "remote"},
             Moves(r, [runner[r] EXCEPT
               !.unread = runner[r].unread \ {k},
               !.theirs = [runner[r].theirs EXCEPT ![k] = remote[k]], !.step = step])
      PROVE  TypeInv'
  <2> DEFINE l == [runner[r] EXCEPT
               !.unread = runner[r].unread \ {k},
               !.theirs = [runner[r].theirs EXCEPT ![k] = remote[k]], !.step = step]
  <2>1. k \in Keys /\ remote[k] \in Copies
    BY LocalFacts DEF Locals, TypeInv, TypeOK
  <2>2. [runner[r].theirs EXCEPT ![k] = remote[k]] \in [Keys -> Copies]
    BY <2>1, LocalFacts DEF Locals
  <2>3. l \in Locals
    BY <2>2, LocalFacts DEF Locals, Steps
  <2>4. /\ l.run = runner[r].run /\ l.todo = runner[r].todo
        /\ l.base = runner[r].base /\ l.now = runner[r].now /\ l.step = step
    BY LocalFacts DEF Locals
  <2>5. Sound(l)
    BY <1>1, <2>3, <2>4, LocalFacts DEF Sound, Apart
  <2> QED
    BY <1>0, <1>4, <2>4, <2>5, RunnerStepType DEF TypeInv, TypeOK
<1> QED
  BY <1>0, <1>3, <1>4 DEF ReadPage, RemoteError, Moves


\* A step that replaces the row of a run.
LEMMA RowStepType ==
    ASSUME TypeInv, NEW r \in Runners, Alone(r), Sound(runner'[r]),
           runner'[r].run \in {0, runner[r].run},
           runner[r].run \in DOMAIN runs, RowAlone(r), RowAfter(r) \in Run,
           RowAfter(r).windowEnd >= 0, UNCHANGED <<pair, clock, data, counters>>,
           lease' \in {lease, Null}, watermark' = watermark \/ watermark' \in Times \cap Nat
    PROVE  TypeInv'
<1> DEFINE i == runner[r].run
           row == RowAfter(r)
<1>1. runs \in Seq(Run) /\ i \in 1..Len(runs) /\ row \in Run /\ row.windowEnd >= 0
  BY DEF TypeInv, TypeOK
<1>0. runs' = [runs EXCEPT ![i] = row]
  BY DEF RowAlone, RowAfter
<1> HIDE DEF i, row
<1>2. /\ runs' \in Seq(Run) /\ Len(runs') = Len(runs) /\ DOMAIN runs' = DOMAIN runs
      /\ \A j \in DOMAIN runs : runs'[j] = IF j = i THEN row ELSE runs[j]
  BY <1>0, <1>1
<1>3. RunnersOK'
  <2>1. \A s \in Runners : s # r => runner'[s] = runner[s]
    BY DEF Alone, TypeInv, TypeOK
  <2>2. runner' \in [Runners -> Locals]
    BY DEF Alone, TypeInv, TypeOK, Sound
  <2> QED
    BY <1>2, <2>1, <2>2 DEF TypeInv, TypeOK, RunnersOK
<1>4. BothKnown'
  BY DEF TypeInv, BothKnown, data, Readback
<1>5. watermark' \in Times \cup {Null} /\ (watermark' = Null \/ watermark' >= 0)
  BY DEF TypeInv, TypeOK
<1> QED
  BY <1>1, <1>2, <1>3, <1>4, <1>5 DEF TypeInv, TypeOK, RunnersOK, data, counters

LEMMA CompareType ==
    ASSUME pair \in Pairs, NEW theirs \in Copies, NEW ours \in Copies
    PROVE  /\ Compare(pair, theirs, ours).category \in Categories
           /\ theirs = Null => ~Compare(pair, theirs, ours).auto
<1> USE DEF Compare, Found, NoDrift, Categories
<1>1. \A c, a : Found(c, a).category = c /\ Found(c, a).auto = a
  OBVIOUS
<1>0. /\ theirs # Null => theirs.version \in Nat
      /\ ours # Null => ours.version \in Nat
  BY VersionAssumption DEF Copies, Resource
<1>2. CASE theirs = Null
  BY <1>2
<1>3. CASE theirs # Null /\ pair = "commerce_order"
  BY <1>0, <1>3 DEF ReconcileCommerceOrder, CompareVersions
<1>4. CASE theirs # Null /\ pair = "warehouse_fulfillment"
  BY <1>0, <1>4 DEF ReconcileWarehouseFulfillment, CompareVersions
<1>5. CASE theirs # Null /\ pair = "carrier_shipment"
  BY <1>5 DEF ReconcileCarrierShipment
<1>6. CASE theirs # Null /\ pair = "shipment_commerce_fulfillment"
  BY <1>6 DEF ReconcileCommerceFulfillment
<1> QED
  BY <1>2, <1>3, <1>4, <1>5, <1>6 DEF Pairs

\* The finding about a key that drifted.
LEMMA FindingFacts ==
    ASSUME TypeInv, NEW r \in Runners, NEW k \in Keys
    PROVE  /\ FindingOf(r, k) \in Finding /\ FindingOf(r, k).key = k
           /\ FindingOf(r, k).status \in {"repairable", "manual_required"}
           /\ FindingOf(r, k).status = "repairable" <=> FindingOf(r, k).action = "repair"
           /\ FindingOf(r, k).status = "repairable" =>
                /\ runner[r].theirs[k] # Null
                /\ FindingOf(r, k).version = runner[r].theirs[k].version
<1> DEFINE theirs == runner[r].theirs[k]
           found == Compare(pair, theirs, runner[r].ours[k])
           version == IF theirs = Null THEN 0 ELSE theirs.version
           action == IF found.auto THEN "repair" ELSE "review"
           status == IF found.auto THEN "repairable" ELSE "manual_required"
<1>1. theirs \in Copies /\ runner[r].ours[k] \in Copies
  BY LocalFacts DEF Locals
<1>2. found.category \in Categories /\ (theirs = Null => ~found.auto)
  BY <1>1, CompareType DEF TypeInv, TypeOK
<1>3. version \in 0..MaxVersion
  BY <1>1, VersionAssumption DEF Copies, Resource
<1>4. FindingOf(r, k) = [key |-> k, version |-> version, category |-> found.category,
                         action |-> action, status |-> status]
  BY DEF FindingOf
<1> HIDE DEF theirs, found, version
<1> QED
  BY <1>2, <1>3, <1>4 DEF Finding, theirs, version

\* What a run has on record when its findings are stored.
Rows(r) == {FindingOf(r, k) : k \in Drifted(r)}
Repairable(rows) == {f.key : f \in {g \in rows : g.status = "repairable"}}
Reviewed(r) == Drifted(r) \ Repairable(Rows(r))

\* What every step at work in a run finds.
LEMMA WorkFacts ==
    ASSUME TypeInv, NEW r \in Runners, runner[r].step \notin Apart
    PROVE  /\ runner[r].run # 0 /\ runner[r].run \in DOMAIN runs
           /\ Row(r) \in Run /\ Row(r).windowEnd >= 0
<1>1. runner[r].run # 0 /\ runner[r].run \in DOMAIN runs
  BY LocalFacts DEF Sound
<1> QED
  BY <1>1 DEF TypeInv, TypeOK, Row

LEMMA RowWritten ==
    ASSUME TypeInv, NEW r \in Runners, runner[r].run \in DOMAIN runs, NEW row,
           runs' = [runs EXCEPT ![runner[r].run] = row]
    PROVE  RowAlone(r) /\ RowAfter(r) = row
BY DEF TypeInv, TypeOK, RowAlone, RowAfter

LEMMA PersistFacts ==
    ASSUME TypeInv, NEW r \in Runners, PersistFindings(r)
    PROVE  /\ runner[r].step = "persisting" /\ runner[r].todo = {}
           /\ RowAlone(r) /\ RowAfter(r) = [Row(r) EXCEPT
                         !.findings = Rows(r),
                         !.detected = Row(r).detected + Cardinality(Drifted(r)),
                         !.manual = Row(r).manual + Cardinality(Reviewed(r))]
           /\ runner'[r].step = "repair" /\ runner'[r].run = runner[r].run
           /\ runner'[r].now = runner[r].now /\ runner'[r].repaired = runner[r].repaired
           /\ runner'[r].todo = Repairable(Rows(r))
           /\ \A k \in runner'[r].todo : runner'[r].theirs[k] = runner[r].theirs[k]
           /\ \A k \in Keys : runner'[r].theirs[k] \in {runner[r].theirs[k], Null}
           /\ Alone(r) /\ Sound(runner'[r])
           /\ UNCHANGED <<pair, clock, lease, watermark, data, counters>>
<1> DEFINE l == [runner[r] EXCEPT
                   !.step = "repair", !.ours = Unknown, !.todo = Repairable(Rows(r)),
                   !.theirs = [k \in Keys |-> IF k \in Repairable(Rows(r))
                                              THEN runner[r].theirs[k] ELSE Null]]
<1>1. /\ runner' = [runner EXCEPT ![r] = l] /\ runner[r].step = "persisting"
      /\ RowAlone(r) /\ RowAfter(r) = [Row(r) EXCEPT
                         !.findings = Rows(r),
                         !.detected = Row(r).detected + Cardinality(Drifted(r)),
                         !.manual = Row(r).manual + Cardinality(Reviewed(r))]
      /\ UNCHANGED <<pair, clock, lease, watermark, data, counters>>
  <2>1. /\ runner' = [runner EXCEPT ![r] = l] /\ runner[r].step = "persisting"
        /\ runs' = [runs EXCEPT ![runner[r].run] = [Row(r) EXCEPT
                         !.findings = Rows(r),
                         !.detected = Row(r).detected + Cardinality(Drifted(r)),
                         !.manual = Row(r).manual + Cardinality(Reviewed(r))]]
        /\ UNCHANGED <<pair, clock, lease, watermark, data, counters>>
    BY DEF PersistFindings, Rows, Repairable, Reviewed, Row
  <2>2. runner[r].run \in DOMAIN runs
    BY <2>1, WorkFacts DEF Apart
  <2> QED
    BY <2>1, <2>2, RowWritten
<1>2. \A k \in Repairable(Rows(r)) : k \in Keys /\ runner[r].theirs[k] # Null
  BY FindingFacts DEF Rows, Repairable, Drifted
<1>3. [k \in Keys |-> IF k \in Repairable(Rows(r)) THEN runner[r].theirs[k] ELSE Null]
        \in [Keys -> Copies]
  BY LocalFacts DEF Locals, Copies
<1>4. l \in Locals
  BY <1>2, <1>3, LocalFacts, UnknownType DEF Locals, Steps
<1>5. /\ l.step = "repair" /\ l.run = runner[r].run /\ l.now = runner[r].now
      /\ l.repaired = runner[r].repaired /\ l.todo = Repairable(Rows(r))
      /\ l.base = runner[r].base
      /\ \A k \in l.todo : l.theirs[k] = runner[r].theirs[k]
      /\ \A k \in Keys : l.theirs[k] \in {runner[r].theirs[k], Null}
  BY <1>2, LocalFacts DEF Locals
<1>6. runner'[r] = l
  BY <1>1 DEF TypeInv, TypeOK
<1>7. runner[r].run # 0 /\ runner[r].todo = {}
  BY <1>1, LocalFacts DEF Sound, Apart
<1>8. Sound(l)
  BY <1>2, <1>4, <1>5, <1>7, LocalFacts DEF Sound, Apart
<1> QED
  BY <1>1, <1>5, <1>6, <1>7, <1>8 DEF Alone

LEMMA PersistType ==
    ASSUME TypeInv, NEW r \in Runners, PersistFindings(r)
    PROVE  TypeInv'
<1> DEFINE detected == Row(r).detected + Cardinality(Drifted(r))
           manual == Row(r).manual + Cardinality(Reviewed(r))
           row == [Row(r) EXCEPT !.findings = Rows(r), !.detected = detected, !.manual = manual]
<1>0. runner[r].step \notin Apart
  BY DEF PersistFindings, Apart
<1>1. Rows(r) \subseteq Finding
  BY FindingFacts DEF Rows, Drifted
<1>2. Cardinality(Drifted(r)) \in Nat /\ Cardinality(Reviewed(r)) \in Nat
  <2>1. Drifted(r) \subseteq Keys /\ Reviewed(r) \subseteq Keys
    BY DEF Drifted, Reviewed
  <2> QED
    BY <2>1, BoundsAssumption, FS_Subset, FS_CardinalityType
<1>3. detected \in Nat /\ manual \in Nat
  BY <1>0, <1>2, WorkFacts DEF Run
<1>4. /\ RowAlone(r) /\ RowAfter(r) = row
      /\ Alone(r) /\ Sound(runner'[r]) /\ runner'[r].run = runner[r].run
      /\ UNCHANGED <<pair, clock, lease, watermark, data, counters>>
  BY PersistFacts
<1> HIDE DEF detected, manual
<1>5. row \in Run /\ row.windowEnd = Row(r).windowEnd
  BY <1>0, <1>1, <1>3, WorkFacts DEF Run
<1>6. runner[r].run \in DOMAIN runs /\ RowAfter(r) \in Run /\ RowAfter(r).windowEnd >= 0
  BY <1>0, <1>4, <1>5, WorkFacts
<1> QED
  BY <1>4, <1>6, RowStepType

LEMMA MarkFacts ==
    ASSUME TypeInv, NEW r \in Runners, MarkFinding(r)
    PROVE  LET mark == RepairStatus(runner[r].success)
               k == NextRepair(r)
           IN /\ runner[r].step = "mark"
              /\ RowAlone(r) /\ RowAfter(r) = [Row(r) EXCEPT !.findings =
                   {IF f.key = k THEN [f EXCEPT !.status = mark] ELSE f : f \in Row(r).findings}]
              /\ runner'[r].step = "repair" /\ runner'[r].run = runner[r].run
              /\ runner'[r].now = runner[r].now
              /\ runner'[r].repaired = runner[r].repaired + IF runner[r].success THEN 1 ELSE 0
              /\ runner'[r].todo = runner[r].todo \ {k}
              /\ runner'[r].theirs = runner[r].theirs
              /\ Alone(r) /\ Sound(runner'[r])
              /\ UNCHANGED <<pair, clock, lease, watermark, data, counters>>
<1> DEFINE mark == RepairStatus(runner[r].success)
           k == NextRepair(r)
           repaired == runner[r].repaired + IF runner[r].success THEN 1 ELSE 0
           l == [runner[r] EXCEPT !.step = "repair", !.todo = runner[r].todo \ {k},
                                  !.success = FALSE, !.repaired = repaired]
<1>1. /\ runner' = [runner EXCEPT ![r] = l] /\ runner[r].step = "mark"
      /\ RowAlone(r) /\ RowAfter(r) = [Row(r) EXCEPT !.findings =
           {IF f.key = k THEN [f EXCEPT !.status = mark] ELSE f : f \in Row(r).findings}]
      /\ UNCHANGED <<pair, clock, lease, watermark, data, counters>>
  <2>1. /\ runner' = [runner EXCEPT ![r] = l] /\ runner[r].step = "mark"
        /\ runs' = [runs EXCEPT ![runner[r].run] = [Row(r) EXCEPT !.findings =
             {IF f.key = k THEN [f EXCEPT !.status = mark] ELSE f : f \in Row(r).findings}]]
        /\ UNCHANGED <<pair, clock, lease, watermark, data, counters>>
    BY DEF MarkFinding, Row
  <2>2. runner[r].run \in DOMAIN runs
    BY <2>1, WorkFacts DEF Apart
  <2> QED
    BY <2>1, <2>2, RowWritten
<1>6. repaired \in Nat
  BY LocalFacts DEF Locals
<1> HIDE DEF repaired
<1>2. l \in Locals
  BY <1>6, LocalFacts DEF Locals, Steps
<1>3. /\ l.step = "repair" /\ l.run = runner[r].run /\ l.now = runner[r].now
      /\ l.repaired = repaired
      /\ l.todo = runner[r].todo \ {k} /\ l.theirs = runner[r].theirs
      /\ l.base = runner[r].base
  BY LocalFacts DEF Locals
<1>4. Sound(l)
  BY <1>1, <1>2, <1>3, LocalFacts DEF Sound, Apart
<1>5. runner'[r] = l
  BY <1>1 DEF TypeInv, TypeOK
<1> QED
  BY <1>1, <1>3, <1>4, <1>5 DEF Alone, repaired

LEMMA MarkType ==
    ASSUME TypeInv, NEW r \in Runners, MarkFinding(r)
    PROVE  TypeInv'
<1> DEFINE mark == RepairStatus(runner[r].success)
           k == NextRepair(r)
           findings == {IF f.key = k THEN [f EXCEPT !.status = mark] ELSE f : f \in Row(r).findings}
           row == [Row(r) EXCEPT !.findings = findings]
<1>0. runner[r].step \notin Apart
  BY DEF MarkFinding, Apart
<1>1. mark \in {"auto_repaired", "manual_required"}
  BY DEF RepairStatus
<1>2. Row(r).findings \subseteq Finding
  BY <1>0, WorkFacts DEF Run
<1>3. findings \subseteq Finding
  BY <1>1, <1>2 DEF Finding
<1>4. row \in Run /\ row.windowEnd = Row(r).windowEnd
  BY <1>0, <1>3, WorkFacts DEF Run
<1>5. /\ RowAlone(r) /\ RowAfter(r) = row
      /\ Alone(r) /\ Sound(runner'[r]) /\ runner'[r].run = runner[r].run
      /\ UNCHANGED <<pair, clock, lease, watermark, data, counters>>
  BY MarkFacts
<1>6. runner[r].run \in DOMAIN runs /\ RowAfter(r) \in Run /\ RowAfter(r).windowEnd >= 0
  BY <1>0, <1>4, <1>5, WorkFacts
<1> QED
  BY <1>5, <1>6, RowStepType

LEMMA AloneType ==
    ASSUME TypeInv, NEW r \in Runners, Alone(r), Sound(runner'[r]),
           runner'[r].run # 0 => runner'[r].run \in DOMAIN runs',
           DOMAIN runs \subseteq DOMAIN runs'
    PROVE  RunnersOK'
<1>1. \A s \in Runners : s # r => runner'[s] = runner[s]
  BY DEF Alone, TypeInv, TypeOK
<1>2. runner' \in [Runners -> Locals]
  BY DEF Alone, TypeInv, TypeOK, Sound
<1> QED
  BY <1>1, <1>2 DEF TypeInv, TypeOK, RunnersOK

LEMMA AttemptedFacts ==
    ASSUME TypeInv, NEW r \in Runners, NEW success \in BOOLEAN,
           NEW step \in {"process", "mark", "count", "failing"}, Attempted(r, success, step),
           runner[r].step \notin Apart
    PROVE  /\ Alone(r) /\ Sound(runner'[r])
           /\ runner'[r].step = step /\ runner'[r].success = success
           /\ runner'[r].run = runner[r].run /\ runner'[r].now = runner[r].now
           /\ runner'[r].todo = runner[r].todo /\ runner'[r].theirs = runner[r].theirs
           /\ runner'[r].repaired = runner[r].repaired
<1> DEFINE l == [runner[r] EXCEPT !.success = success, !.step = step]
<1>1. runner'[r] = l /\ Alone(r)
  BY DEF Attempted, Alone, TypeInv, TypeOK
<1>2. l \in Locals
  BY LocalFacts DEF Locals, Steps
<1>3. /\ l.step = step /\ l.success = success /\ l.run = runner[r].run /\ l.now = runner[r].now
      /\ l.todo = runner[r].todo /\ l.theirs = runner[r].theirs
      /\ l.repaired = runner[r].repaired /\ l.base = runner[r].base
  BY LocalFacts DEF Locals
<1>4. Sound(l)
  BY <1>2, <1>3, LocalFacts DEF Sound, Apart
<1> QED
  BY <1>1, <1>3, <1>4

\* The key whose repair is next and the copy it is repaired with.
LEMMA NextFacts ==
    ASSUME TypeInv, NEW r \in Runners, runner[r].todo # {}
    PROVE  /\ NextRepair(r) \in runner[r].todo /\ NextRepair(r) \in Keys
           /\ runner[r].theirs[NextRepair(r)] \in Resource
BY LocalFacts DEF NextRepair, Sound, Locals, Copies

LEMMA RepairInboundFacts ==
    ASSUME TypeInv, NEW r \in Runners, runner[r].step = "repair", runner[r].todo # {},
           RepairInbound(r, NextRepair(r))
    PROVE  /\ ~Readback /\ redelivery' = redelivery
           /\ inbox \subseteq inbox' /\ inbox' \subseteq Message
           /\ \E success \in BOOLEAN, step \in {"process", "mark", "failing"} :
                Attempted(r, success, step)
<1> DEFINE k == NextRepair(r)
           body == runner[r].theirs[k]
           message == [origin |-> "reconciliation", key |-> k, body |-> body,
                       versioned |-> TRUE, status |-> "received"]
<1>1. k \in Keys /\ body \in Resource
  BY NextFacts
<1>2. message \in Message /\ [message EXCEPT !.status = "ignored"] \in Message
  BY <1>1 DEF Message
<1>3. inbox' \in {inbox, inbox \cup {message}, inbox \cup {[message EXCEPT !.status = "ignored"]}}
  BY DEF RepairInbound
<1>4. ~Readback /\ redelivery' = redelivery
  BY DEF RepairInbound
<1>5. \/ Attempted(r, FALSE, "failing") \/ Attempted(r, TRUE, "mark")
      \/ Attempted(r, FALSE, "process")
  BY DEF RepairInbound
<1> QED
  BY <1>2, <1>3, <1>4, <1>5 DEF TypeInv, TypeOK

LEMMA RepairType ==
    ASSUME TypeInv, NEW r \in Runners, Repair(r)
    PROVE  TypeInv'
<1> DEFINE Works == \E success \in BOOLEAN, step \in {"process", "mark", "count", "failing"} :
                      Attempted(r, success, step)
<1>0. /\ runner[r].step = "repair" /\ runner[r].step \notin Apart
      /\ UNCHANGED <<pair, clock, repository, remote, local, counters>>
  BY DEF Repair, Apart
<1>1. CASE Goes(r, runner[r].run, "complete") /\ UNCHANGED <<inbox, redelivery>>
  BY <1>0, <1>1, WorkFacts, GoesType DEF data, counters, TypeInv, TypeOK, Steps, Apart
<1>2. ASSUME Works, inbox' \subseteq Message, redelivery' = redelivery \/
                 (Readback /\ redelivery' \in [Keys -> {"none", "queued", "sent", "dead_letter"}])
      PROVE  TypeInv'
  <2>1. PICK success \in BOOLEAN, step \in {"process", "mark", "count", "failing"} :
            Attempted(r, success, step)
    BY <1>2
  <2>2. Alone(r) /\ Sound(runner'[r]) /\ runner'[r].run = runner[r].run
    BY <1>0, <2>1, AttemptedFacts
  <2>3. runner[r].run \in DOMAIN runs /\ runs' = runs
    BY <1>0, WorkFacts DEF repository
  <2>4. RunnersOK'
    BY <2>2, <2>3, AloneType
  <2>5. BothKnown'
    BY <1>0, <1>2 DEF TypeInv, BothKnown, Readback
  <2> QED
    BY <1>0, <1>2, <2>4, <2>5, RepositoryStays DEF TypeInv, TypeOK, counters
<1>3. CASE runner[r].todo = {} /\ Attempted(r, FALSE, "count") /\ UNCHANGED <<inbox, redelivery>>
  BY <1>2, <1>3 DEF TypeInv, TypeOK
<1>4. CASE runner[r].todo # {} /\ RepairInbound(r, NextRepair(r))
  BY <1>0, <1>2, <1>4, RepairInboundFacts
<1>5. CASE RepairRefused(r)
  BY <1>2, <1>5 DEF RepairRefused, TypeInv, TypeOK
<1>6. CASE runner[r].todo # {} /\ RepairOutbound(r, NextRepair(r))
  <2>1. Readback /\ Attempted(r, TRUE, "mark") /\ inbox' = inbox
    BY <1>6 DEF RepairOutbound
  <2>2. redelivery' \in [Keys -> {"none", "queued", "sent", "dead_letter"}]
    BY <1>6, NextFacts DEF RepairOutbound, TypeInv, TypeOK
  <2> QED
    BY <1>2, <2>1, <2>2 DEF TypeInv, TypeOK
<1> QED
  BY <1>1, <1>3, <1>4, <1>5, <1>6 DEF Repair

LEMMA RepairProcessesType ==
    ASSUME TypeInv, NEW r \in Runners, RepairProcesses(r)
    PROVE  TypeInv'
<1>0. /\ runner[r].step = "process" /\ runner[r].step \notin Apart
      /\ UNCHANGED <<pair, clock, repository, remote, redelivery, crashes, takeovers>>
  BY DEF RepairProcesses, Apart
<1>1. /\ local' \in [Keys -> Copies] /\ inbox' \subseteq Message
      /\ BothKnown' /\ events' \in Nat
  <2>1. CASE \E m \in inbox : Processed(m) \/ Conflicts(m) \/ DeadLettered(m)
    <3>1. PICK m \in inbox : Processed(m) \/ Conflicts(m) \/ DeadLettered(m)
      BY <2>1
    <3> QED
      BY <1>0, <3>1, ProcessingType
  <2>2. CASE UNCHANGED <<local, inbox, events>>
    BY <1>0, <2>2 DEF TypeInv, TypeOK, BothKnown, Readback
  <2> QED
    BY <2>1, <2>2 DEF RepairProcesses
<1>2. Attempted(r, TRUE, "mark") \/ Attempted(r, FALSE, "mark")
  BY DEF RepairProcesses
<1>3. Alone(r) /\ Sound(runner'[r]) /\ runner'[r].run = runner[r].run
  BY <1>0, <1>2, AttemptedFacts
<1>4. RunnersOK'
  BY <1>0, <1>3, WorkFacts, AloneType DEF repository
<1> QED
  BY <1>0, <1>1, <1>4, RepositoryStays DEF TypeInv, TypeOK

\* Going on with nothing but the run.
LEMMA GoesFacts ==
    ASSUME TypeInv, NEW r \in Runners, NEW run \in RunIds, NEW step \in Steps \ Apart,
           Goes(r, run, step)
    PROVE  /\ Alone(r) /\ Sound(runner'[r])
           /\ runner'[r].step = step /\ runner'[r].run = run /\ runner'[r].now = runner[r].now
           /\ runner'[r].todo = {} /\ runner'[r].repaired = 0 /\ runner'[r].theirs = Unknown
<1> DEFINE l == [IdleRunner EXCEPT !.step = step, !.now = runner[r].now, !.run = run]
<1>1. runner'[r] = l /\ Alone(r)
  BY DEF Goes, Alone, TypeInv, TypeOK
<1>2. Sound(l)
  BY LocalFacts, GoingIsSound
<1>3. /\ l.step = step /\ l.run = run /\ l.now = runner[r].now
      /\ l.todo = {} /\ l.repaired = 0 /\ l.theirs = Unknown
  BY IdleIsSound DEF IdleRunner
<1> QED
  BY <1>1, <1>2, <1>3

\* assertLease passes, or the visit is on its way out.
LEMMA AssertFacts ==
    ASSUME TypeInv, NEW r \in Runners, AssertLease(r)
    PROVE  /\ runner[r].step \in AssertingSteps /\ runner[r].step \notin Apart
           /\ UNCHANGED <<pair, clock, repository, data, counters>>
           /\ Alone(r) /\ Sound(runner'[r])
           /\ \/ /\ Owns(r) /\ runner'[r].step = Granted(runner[r].step)
                 /\ runner'[r].step \in WritingSteps
                 /\ runner'[r].run = runner[r].run /\ runner'[r].now = runner[r].now
                 /\ runner'[r].todo = runner[r].todo /\ runner'[r].theirs = runner[r].theirs
                 /\ runner'[r].repaired = runner[r].repaired
              \/ ~Owns(r) /\ runner[r].step = "failing" /\ runner'[r] = IdleRunner
              \/ ~Owns(r) /\ Goes(r, runner[r].run, "failing")
<1>0. /\ runner[r].step \in AssertingSteps /\ runner[r].step \notin Apart
      /\ UNCHANGED <<pair, clock, repository, data, counters>>
  BY DEF AssertLease, AssertingSteps, Apart
<1>1. Granted(runner[r].step) \in WritingSteps
  BY <1>0 DEF Granted, AssertingSteps, WritingSteps
<1>2. CASE Owns(r)
  <2> DEFINE step == Granted(runner[r].step)
             l == [runner[r] EXCEPT !.step = step]
  <2>1. runner'[r] = l /\ Alone(r)
    BY <1>2 DEF AssertLease, Alone, TypeInv, TypeOK
  <2>2. step = "persisting" => runner[r].step = "persist"
    BY <1>0 DEF Granted, AssertingSteps
  <2> HIDE DEF step
  <2>3. l \in Locals
    BY <1>1, LocalFacts DEF Locals, Steps, step
  <2>4. /\ l.step = step /\ l.run = runner[r].run /\ l.now = runner[r].now
        /\ l.todo = runner[r].todo /\ l.theirs = runner[r].theirs
        /\ l.repaired = runner[r].repaired /\ l.base = runner[r].base
    BY LocalFacts DEF Locals
  <2>5. Sound(l)
    BY <1>0, <1>1, <2>2, <2>3, <2>4, LocalFacts DEF Sound, Apart, WritingSteps, step
  <2> QED
    BY <1>0, <1>1, <1>2, <2>1, <2>4, <2>5 DEF step
<1>3. CASE ~Owns(r) /\ runner[r].step = "failing"
  <2>1. runner'[r] = IdleRunner /\ Alone(r)
    BY <1>3 DEF AssertLease, Alone, TypeInv, TypeOK
  <2> QED
    BY <1>0, <1>3, <2>1, IdleIsSound
<1>4. CASE ~Owns(r) /\ runner[r].step # "failing"
  <2>1. Goes(r, runner[r].run, "failing")
    BY <1>4 DEF AssertLease
  <2>2. Alone(r) /\ Sound(runner'[r])
    BY <1>0, <2>1, LocalFacts, WorkFacts, GoesFacts DEF Steps, Apart
  <2> QED
    BY <1>0, <1>4, <2>1, <2>2
<1> QED
  BY <1>2, <1>3, <1>4

LEMMA AssertType ==
    ASSUME TypeInv, NEW r \in Runners, AssertLease(r)
    PROVE  TypeInv'
<1>1. /\ Alone(r) /\ Sound(runner'[r]) /\ runner[r].run \in DOMAIN runs
      /\ UNCHANGED <<pair, clock, repository, data, counters>>
      /\ runner'[r].run \in {0, runner[r].run}
  <2>1. IdleRunner.run = 0
    BY DEF IdleRunner
  <2>2. Goes(r, runner[r].run, "failing") => runner'[r].run = runner[r].run
    BY LocalFacts, WorkFacts, AssertFacts, GoesFacts DEF Steps, Apart
  <2> QED
    BY <2>1, <2>2, AssertFacts, WorkFacts
<1>2. RunnersOK'
  BY <1>1, AloneType DEF repository
<1>3. BothKnown' /\ UNCHANGED <<local, remote, inbox, redelivery>>
  BY <1>1 DEF TypeInv, BothKnown, data, Readback
<1> QED
  BY <1>1, <1>2, <1>3, RepositoryStays DEF TypeInv, TypeOK, counters

LEMMA CountFacts ==
    ASSUME TypeInv, NEW r \in Runners, CountRepairs(r)
    PROVE  /\ runner[r].step = "counting" /\ runner[r].step \notin Apart
           /\ RowAlone(r) /\ RowAfter(r) = [Row(r) EXCEPT
                !.repaired = Row(r).repaired + runner[r].repaired]
           /\ Goes(r, runner[r].run, "complete")
           /\ UNCHANGED <<pair, clock, lease, watermark, data, counters>>
<1>1. /\ runner[r].step = "counting" /\ runner[r].step \notin Apart
      /\ runs' = [runs EXCEPT ![runner[r].run] = [Row(r) EXCEPT
                !.repaired = Row(r).repaired + runner[r].repaired]]
      /\ Goes(r, runner[r].run, "complete")
      /\ UNCHANGED <<pair, clock, lease, watermark, data, counters>>
  BY DEF CountRepairs, Row, Apart
<1> QED
  BY <1>1, WorkFacts, RowWritten

LEMMA CountType ==
    ASSUME TypeInv, NEW r \in Runners, CountRepairs(r)
    PROVE  TypeInv'
<1> DEFINE repaired == Row(r).repaired + runner[r].repaired
           row == [Row(r) EXCEPT !.repaired = repaired]
<1>0. runner[r].step \notin Apart
  BY CountFacts
<1>1. repaired \in Nat
  BY <1>0, WorkFacts, LocalFacts DEF Run, Locals
<1>2. RowAlone(r) /\ RowAfter(r) = row
  BY CountFacts
<1> HIDE DEF repaired
<1>3. row \in Run /\ row.windowEnd = Row(r).windowEnd
  BY <1>0, <1>1, WorkFacts DEF Run
<1>4. runner[r].run \in RunIds
  BY <1>0, LocalFacts, WorkFacts
<1>5. Alone(r) /\ Sound(runner'[r]) /\ runner'[r].run = runner[r].run
  BY <1>4, CountFacts, GoesFacts DEF Steps, Apart
<1> QED
  BY <1>0, <1>2, <1>3, <1>5, CountFacts, WorkFacts, RowStepType

\* A run is opened, with the lease.
Opens(r, base) ==
    /\ base - Overlap < runner[r].now /\ Budget
    /\ lease' = [owner |-> Len(runs) + 1, until |-> runner[r].now + LeaseDuration]
    /\ runs' = Append(runs, [status |-> "running", windowStart |-> base - Overlap,
                             windowEnd |-> runner[r].now, findings |-> {},
                             detected |-> 0, repaired |-> 0, manual |-> 0])
    /\ Goes(r, Len(runs) + 1, "local")
    /\ takeovers' = takeovers + IF lease = Null THEN 0 ELSE 1
    /\ UNCHANGED watermark

\* A call of run() that is over.
Leaves(r) == runner' = [runner EXCEPT ![r] = IdleRunner]

LEMMA LeavesFacts ==
    ASSUME TypeInv, NEW r \in Runners, Leaves(r)
    PROVE  /\ Alone(r) /\ Sound(runner'[r]) /\ runner'[r].run = 0 /\ runner'[r].step = "idle"
           /\ runner'[r].theirs = Unknown
<1>1. runner'[r] = IdleRunner /\ Alone(r)
  BY DEF Leaves, Alone, TypeInv, TypeOK
<1> QED
  BY <1>1, IdleIsSound DEF IdleRunner

LEMMA OpensFacts ==
    ASSUME TypeInv, NEW r \in Runners, NEW base \in Times, base >= 0 - Lookback, Opens(r, base)
    PROVE  /\ DOMAIN runs = 1..Len(runs) /\ DOMAIN runs' = 1..(Len(runs) + 1)
           /\ Len(runs) \in Nat /\ Len(runs') = Len(runs) + 1 /\ Len(runs) + 1 <= MaxEvents
           /\ Len(runs) + 1 \in RunIds /\ runs' \in Seq(Run)
           /\ \A i \in DOMAIN runs : runs'[i] = runs[i]
           /\ runs'[Len(runs) + 1] =
                [status |-> "running", windowStart |-> base - Overlap,
                 windowEnd |-> runner[r].now, findings |-> {},
                 detected |-> 0, repaired |-> 0, manual |-> 0]
           /\ Alone(r) /\ Sound(runner'[r]) /\ runner'[r].step = "local"
           /\ runner'[r].run = Len(runs) + 1 /\ runner'[r].now = runner[r].now
<1> DEFINE row == [status |-> "running", windowStart |-> base - Overlap,
                   windowEnd |-> runner[r].now, findings |-> {},
                   detected |-> 0, repaired |-> 0, manual |-> 0]
<1>1. row \in Run
  BY LocalFacts, TimeAssumption DEF Run, Times, Opens
<1>2. runs \in Seq(Run) /\ Len(runs) + 1 <= MaxEvents /\ Len(runs) + 1 \in RunIds
  BY BoundsAssumption DEF TypeInv, TypeOK, Opens, Budget, RunIds
<1>3. runs' = Append(runs, row) /\ Goes(r, Len(runs) + 1, "local")
  BY DEF Opens
<1> HIDE DEF row
<1>4. /\ DOMAIN runs = 1..Len(runs) /\ DOMAIN runs' = 1..(Len(runs) + 1)
      /\ Len(runs) \in Nat /\ Len(runs') = Len(runs) + 1 /\ runs' \in Seq(Run)
      /\ \A i \in DOMAIN runs : runs'[i] = runs[i]
      /\ runs'[Len(runs) + 1] = row
  BY <1>1, <1>2, <1>3
<1>5. /\ Alone(r) /\ Sound(runner'[r]) /\ runner'[r].step = "local"
      /\ runner'[r].run = Len(runs) + 1 /\ runner'[r].now = runner[r].now
  BY <1>2, <1>3, GoesFacts DEF Steps, Apart
<1> QED
  BY <1>2, <1>4, <1>5 DEF row

LEMMA OpenType ==
    ASSUME TypeInv, NEW r \in Runners, NEW base \in Times, base >= 0 - Lookback, OpenRun(r, base),
           UNCHANGED <<pair, clock, data, crashes, events>>
    PROVE  TypeInv'
<1>0. BothKnown' /\ local' = local /\ remote' = remote /\ inbox' = inbox /\ redelivery' = redelivery
  BY DEF TypeInv, BothKnown, data, Readback
<1>1. CASE Leaves(r) /\ UNCHANGED <<repository, takeovers>>
  <2>1. RunnersOK'
    BY <1>1, LeavesFacts, AloneType DEF repository
  <2> QED
    BY <1>0, <1>1, <2>1, RepositoryStays DEF TypeInv, TypeOK
<1>2. CASE Opens(r, base)
  <2>0. /\ DOMAIN runs = 1..Len(runs) /\ DOMAIN runs' = 1..(Len(runs) + 1)
        /\ Len(runs) \in Nat /\ Len(runs') = Len(runs) + 1 /\ Len(runs) + 1 <= MaxEvents
        /\ Len(runs) + 1 \in RunIds /\ runs' \in Seq(Run)
        /\ \A i \in DOMAIN runs : runs'[i] = runs[i]
        /\ runs'[Len(runs) + 1] =
                [status |-> "running", windowStart |-> base - Overlap,
                 windowEnd |-> runner[r].now, findings |-> {},
                 detected |-> 0, repaired |-> 0, manual |-> 0]
        /\ Alone(r) /\ Sound(runner'[r]) /\ runner'[r].run = Len(runs) + 1
    BY <1>2, OpensFacts
  <2>1. RunnersOK'
    <3>1. DOMAIN runs \subseteq DOMAIN runs' /\ runner'[r].run \in DOMAIN runs'
      BY <2>0
    <3> QED
      BY <2>0, <3>1, AloneType
  <2>2. lease' \in [owner : RunIds, until : Nat] \cup {Null}
    BY <1>2, <2>0, LocalFacts, TimeAssumption DEF Opens
  <2>3. takeovers' \in Nat /\ watermark' = watermark
    BY <1>2 DEF Opens, TypeInv, TypeOK
  <2>4. \A i \in DOMAIN runs' : runs'[i].windowEnd >= 0
    <3> TAKE i \in DOMAIN runs'
    <3>1. CASE i \in DOMAIN runs
      BY <2>0, <3>1 DEF TypeInv
    <3>2. CASE i = Len(runs) + 1
      BY <2>0, <3>2, LocalFacts
    <3> QED
      BY <2>0, <3>1, <3>2
  <2> QED
    BY <1>0, <2>0, <2>1, <2>2, <2>3, <2>4 DEF TypeInv, TypeOK, RunnersOK
<1> QED
  BY <1>1, <1>2 DEF OpenRun, Opens, Leaves

LEMMA StartType ==
    ASSUME TypeInv, NEW r \in Runners, StartRun(r) \/ StartWrites(r)
    PROVE  TypeInv'
<1>0. UNCHANGED <<pair, clock, data, crashes, events>>
  BY DEF StartRun, StartWrites
<1>1. CASE OpenRun(r, WatermarkBase(r))
  <2>1. WatermarkBase(r) \in Times /\ WatermarkBase(r) >= 0 - Lookback
    BY LocalFacts, TimeAssumption DEF WatermarkBase, TypeInv, TypeOK, Times
  <2> QED
    BY <1>0, <1>1, <2>1, OpenType
<1>2. CASE OpenRun(r, runner[r].base)
  <2>1. runner[r].base \in Times /\ runner[r].base >= 0 - Lookback
    BY LocalFacts DEF Sound, Locals
  <2> QED
    BY <1>0, <1>2, <2>1, OpenType
<1>3. CASE Leaves(r) /\ UNCHANGED <<repository, takeovers>>
  <2>1. RunnersOK'
    BY <1>3, LeavesFacts, AloneType DEF repository
  <2>2. BothKnown' /\ UNCHANGED <<local, remote, inbox, redelivery>>
    BY <1>0 DEF TypeInv, BothKnown, data, Readback
  <2> QED
    BY <1>0, <1>3, <2>1, <2>2, RepositoryStays DEF TypeInv, TypeOK
<1> QED
  BY <1>1, <1>2, <1>3 DEF StartRun, StartWrites, Leaves

LEMMA CompleteFacts ==
    ASSUME TypeInv, NEW r \in Runners, CompleteWrites(r)
    PROVE  /\ runner[r].step = "commit" /\ runner[r].step \notin Apart
           /\ RowAlone(r) /\ RowAfter(r) = [Row(r) EXCEPT !.status = "completed"]
           /\ watermark' = Row(r).windowEnd /\ lease' = Released(r) /\ Leaves(r)
           /\ UNCHANGED <<pair, clock, data, counters>>
<1>1. /\ runner[r].step = "commit" /\ runner[r].step \notin Apart
      /\ runs' = [runs EXCEPT ![runner[r].run] = [Row(r) EXCEPT !.status = "completed"]]
      /\ watermark' = Row(r).windowEnd /\ lease' = Released(r) /\ Leaves(r)
      /\ UNCHANGED <<pair, clock, data, counters>>
  BY DEF CompleteWrites, Row, Apart, Leaves
<1> QED
  BY <1>1, WorkFacts, RowWritten

LEMMA FailFacts ==
    ASSUME TypeInv, NEW r \in Runners, FailRun(r)
    PROVE  /\ runner[r].step = "fail" /\ runner[r].step \notin Apart
           /\ RowAlone(r) /\ RowAfter(r) = [Row(r) EXCEPT
                !.status = "failed", !.detected = 0, !.repaired = 0, !.manual = 0]
           /\ lease' = Released(r) /\ Leaves(r)
           /\ UNCHANGED <<pair, clock, watermark, data, counters>>
<1>1. /\ runner[r].step = "fail" /\ runner[r].step \notin Apart
      /\ runs' = [runs EXCEPT ![runner[r].run] = [Row(r) EXCEPT
                !.status = "failed", !.detected = 0, !.repaired = 0, !.manual = 0]]
      /\ lease' = Released(r) /\ Leaves(r)
      /\ UNCHANGED <<pair, clock, watermark, data, counters>>
  BY DEF FailRun, Row, Apart, Leaves
<1> QED
  BY <1>1, WorkFacts, RowWritten

LEMMA EndType ==
    ASSUME TypeInv, NEW r \in Runners, CompleteWrites(r) \/ FailRun(r)
    PROVE  TypeInv'
<1>1. CASE CompleteWrites(r)
  <2> DEFINE row == [Row(r) EXCEPT !.status = "completed"]
  <2>1. row \in Run /\ row.windowEnd = Row(r).windowEnd /\ Row(r).windowEnd \in Times \cap Nat
    BY <1>1, CompleteFacts, WorkFacts, TimeAssumption DEF Run, Times
  <2>2. RowAlone(r) /\ RowAfter(r) = row /\ lease' \in {lease, Null}
    BY <1>1, CompleteFacts DEF Released
  <2>3. Alone(r) /\ Sound(runner'[r]) /\ runner'[r].run = 0
    BY <1>1, CompleteFacts, LeavesFacts
  <2> QED
    BY <1>1, <2>1, <2>2, <2>3, CompleteFacts, WorkFacts, RowStepType
<1>2. CASE FailRun(r)
  <2> DEFINE row == [Row(r) EXCEPT
                       !.status = "failed", !.detected = 0, !.repaired = 0, !.manual = 0]
  <2>1. row \in Run /\ row.windowEnd = Row(r).windowEnd
    BY <1>2, FailFacts, WorkFacts DEF Run
  <2>2. RowAlone(r) /\ RowAfter(r) = row /\ lease' \in {lease, Null}
    BY <1>2, FailFacts DEF Released
  <2>3. Alone(r) /\ Sound(runner'[r]) /\ runner'[r].run = 0
    BY <1>2, FailFacts, LeavesFacts
  <2> QED
    BY <1>2, <2>1, <2>2, <2>3, FailFacts, WorkFacts, RowStepType
<1> QED
  BY <1>1, <1>2

LEMMA TypeStep == TypeInv /\ [Next]_vars => TypeInv'
<1> SUFFICES ASSUME TypeInv, [Next]_vars PROVE TypeInv'
  OBVIOUS
<1>1. CASE InboxWorker
  BY <1>1, InboxWorkerType
<1>2. ASSUME NEW k \in Keys, RemoteChanges(k) \/ Ships(k) \/ Dispatcher(k) PROVE TypeInv'
  BY <1>2, ProvidersType
<1>3. ASSUME NEW r \in Runners, BeginRun(r) \/ RemoteError(r) \/ Crash(r) PROVE TypeInv'
  BY <1>3, BeginType, ReadPageType
<1>4. ASSUME NEW r \in Runners, Visit(r) PROVE TypeInv'
  BY <1>4, BeginType, StartType, ReadLocalType, ReadPageType, AssertType,
     PersistType, RepairType,
     RepairProcessesType, MarkType, CountType, EndType DEF Visit
<1>5. CASE UNCHANGED vars
  BY <1>5 DEF vars, repository, data, counters, TypeInv, TypeOK, BothKnown, Readback
<1> QED
  BY <1>1, <1>2, <1>3, <1>4, <1>5 DEF Next

\* Runs, findings, leases, copies, messages and the locals of runners keep their
\* types.
THEOREM TypeCorrect == Spec => []TypeOK
<1>1. TypeInv => TypeOK
  BY DEF TypeInv
<1> QED
  BY <1>1, InitType, TypeStep, PTL DEF Spec

-----------------------------------------------------------------------------
(* What a step does to the repository *)

\* A runner stays in its run, or out of one.
Going(r) == /\ runner'[r].run = runner[r].run
            /\ runner[r].run # 0 => runner'[r].now = runner[r].now

\* A runner that is about to open the first run has the base it read.
Based(r) == runner'[r].step = "starting" =>
              \/ runner[r].step = "starting" /\ runner'[r].base = runner[r].base
                   /\ runner'[r].now = runner[r].now
              \/ runner[r].step # "idle" /\ runner'[r].base = WatermarkBase(r)
                   /\ runner'[r].now = runner[r].now

\* A runner keeps the time of its visit, and a visit that begins takes the clock's.
Paced(r) == runner'[r].step # "idle" =>
              \/ runner[r].step # "idle" /\ runner'[r].now = runner[r].now
              \/ runner'[r].now = clock'

\* A runner leaves its run without a word when it dies or has lost its lease.
Deserts(r) == runner'[r].run = 0 /\ (crashes' > crashes \/ ~Owns(r))

Quiet == /\ UNCHANGED <<lease, watermark, runs, takeovers>> /\ crashes' >= crashes
         /\ \A r \in Runners : (Going(r) \/ Deserts(r)) /\ Based(r) /\ Paced(r)

\* Findings and counts are written.
Writes(r) == /\ RowAlone(r) /\ runner[r].run \in DOMAIN runs
             /\ RowAfter(r).status = Row(r).status
             /\ RowAfter(r).windowStart = Row(r).windowStart
             /\ RowAfter(r).windowEnd = Row(r).windowEnd
             /\ UNCHANGED <<lease, watermark, takeovers, crashes>>
             /\ Alone(r) /\ Going(r) /\ runner'[r].step # "starting"

\* A run ends as completed or failed.
Ends(r) == /\ RowAlone(r) /\ runner[r].run \in DOMAIN runs
           /\ \/ RowAfter(r).status = "completed" /\ watermark' = Row(r).windowEnd
              \/ RowAfter(r).status = "failed" /\ watermark' = watermark
           /\ RowAfter(r).windowStart = Row(r).windowStart
           /\ RowAfter(r).windowEnd = Row(r).windowEnd
           /\ lease' = Released(r)
           /\ UNCHANGED <<takeovers, crashes>>
           /\ Alone(r) /\ runner'[r].run = 0 /\ runner'[r].step = "idle"

\* A run is opened by a runner that knows the watermark or read it before.
OpensNow(r) == /\ UNCHANGED crashes
               /\ \/ runner[r].step = "start" /\ Opens(r, WatermarkBase(r))
                  \/ runner[r].step = "starting" /\ Opens(r, runner[r].base)

LEMMA AloneIsQuiet ==
    ASSUME TypeInv, NEW r \in Runners, Alone(r), Going(r) \/ Deserts(r), Based(r), Paced(r),
           UNCHANGED <<lease, watermark, runs, takeovers>>, crashes' >= crashes
    PROVE  Quiet
<1>1. \A s \in Runners : s # r => runner'[s] = runner[s]
  BY DEF Alone, TypeInv, TypeOK
<1>2. \A s \in Runners : s # r => Going(s) /\ Based(s) /\ Paced(s)
  BY <1>1 DEF Going, Based, Paced
<1> QED
  BY <1>2 DEF Quiet

LEMMA BeginQuiet ==
    ASSUME TypeInv, NEW r \in Runners, BeginRun(r) \/ StartFirst(r) \/ Crash(r)
    PROVE  Quiet
<1>0. crashes \in Nat /\ IdleRunner \in Locals /\ IdleRunner.run = 0 /\ IdleRunner.step = "idle"
  BY IdleIsSound DEF TypeInv, TypeOK, IdleRunner, Sound
<1>1. CASE BeginRun(r)
  <2> DEFINE l == [IdleRunner EXCEPT !.step = "start", !.now = clock']
  <2>1. /\ runner' = [runner EXCEPT ![r] = l] /\ runner[r].step = "idle"
        /\ UNCHANGED <<repository, takeovers, crashes>>
    BY <1>1 DEF BeginRun, counters
  <2>2. runner'[r] = l /\ Alone(r)
    BY <2>1 DEF Alone, TypeInv, TypeOK
  <2>3. l.run = 0 /\ l.step = "start" /\ l.now = clock'
    BY <1>0 DEF Locals
  <2>4. runner[r].run = 0
    BY <2>1, LocalFacts DEF Sound, Apart
  <2>5. Going(r) /\ Based(r) /\ Paced(r)
    BY <2>2, <2>3, <2>4 DEF Going, Based, Paced
  <2> QED
    BY <1>0, <2>1, <2>2, <2>5, AloneIsQuiet DEF repository
<1>2. CASE StartFirst(r)
  <2> DEFINE l == [runner[r] EXCEPT !.step = "starting", !.base = WatermarkBase(r)]
  <2>1. /\ runner' = [runner EXCEPT ![r] = l] /\ runner[r].step = "start"
        /\ UNCHANGED <<repository, takeovers, crashes>>
    BY <1>2 DEF StartFirst, counters
  <2>2. runner'[r] = l /\ Alone(r)
    BY <2>1 DEF Alone, TypeInv, TypeOK
  <2>3. l.run = runner[r].run /\ l.base = WatermarkBase(r) /\ l.now = runner[r].now
    BY LocalFacts DEF Locals
  <2>5. Going(r) /\ Based(r) /\ Paced(r)
    BY <2>1, <2>2, <2>3 DEF Going, Based, Paced
  <2> QED
    BY <1>0, <2>1, <2>2, <2>5, AloneIsQuiet DEF repository
<1>3. CASE Crash(r)
  <2>1. /\ Leaves(r) /\ crashes' = crashes + 1 /\ UNCHANGED <<repository, takeovers>>
    BY <1>3 DEF Crash, Leaves
  <2>2. Alone(r) /\ runner'[r].run = 0 /\ runner'[r].step = "idle"
    BY <2>1, LeavesFacts
  <2>3. Deserts(r) /\ Based(r) /\ Paced(r)
    BY <1>0, <2>1, <2>2 DEF Deserts, Based, Paced
  <2> QED
    BY <1>0, <2>1, <2>2, <2>3, AloneIsQuiet DEF repository
<1> QED
  BY <1>1, <1>2, <1>3

\* A step that goes on in its run and leaves the repository alone.
LEMMA GoesIsQuiet ==
    ASSUME TypeInv, NEW r \in Runners, runner[r].step \notin Apart, NEW step \in Steps \ Apart,
           Goes(r, runner[r].run, step), UNCHANGED <<lease, watermark, runs, takeovers, crashes>>
    PROVE  Quiet
<1>1. runner[r].run \in RunIds /\ crashes \in Nat
  BY LocalFacts, WorkFacts DEF TypeInv, TypeOK
<1>2. /\ Alone(r) /\ runner'[r].step = step /\ runner'[r].run = runner[r].run
      /\ runner'[r].now = runner[r].now
  BY <1>1, GoesFacts
<1>3. Going(r) /\ Based(r) /\ Paced(r)
  BY <1>2 DEF Going, Based, Paced, Apart
<1> QED
  BY <1>1, <1>2, <1>3, AloneIsQuiet

LEMMA AttemptedIsQuiet ==
    ASSUME TypeInv, NEW r \in Runners, runner[r].step \notin Apart, NEW success \in BOOLEAN,
           NEW step \in {"process", "mark", "count", "failing"}, Attempted(r, success, step),
           UNCHANGED <<lease, watermark, runs, takeovers, crashes>>
    PROVE  Quiet
<1>1. /\ Alone(r) /\ runner'[r].step = step /\ runner'[r].run = runner[r].run
      /\ runner'[r].now = runner[r].now
  BY AttemptedFacts
<1>2. Going(r) /\ Based(r) /\ Paced(r) /\ crashes \in Nat
  BY <1>1 DEF Going, Based, Paced, Apart, TypeInv, TypeOK
<1> QED
  BY <1>1, <1>2, AloneIsQuiet

LEMMA ReadQuiet ==
    ASSUME TypeInv, NEW r \in Runners, ReadLocal(r) \/ ReadPage(r) \/ RemoteError(r)
    PROVE  Quiet
<1>0. /\ UNCHANGED <<lease, watermark, runs, takeovers, crashes>> /\ crashes \in Nat
      /\ runner[r].step \notin Apart
  BY DEF ReadLocal, ReadPage, RemoteError, repository, counters, Apart, TypeInv, TypeOK
<1>1. CASE Goes(r, runner[r].run, "failing")
  BY <1>0, <1>1, GoesIsQuiet DEF Steps, Apart
<1>2. CASE ReadLocal(r)
  <2> DEFINE l == [runner[r] EXCEPT !.step = "remote", !.ours = local, !.unread = Keys]
  <2>1. runner'[r] = l /\ Alone(r)
    BY <1>2 DEF ReadLocal, Alone, TypeInv, TypeOK
  <2>2. l.run = runner[r].run /\ l.step = "remote" /\ l.now = runner[r].now
    BY LocalFacts DEF Locals
  <2>3. Going(r) /\ Based(r) /\ Paced(r)
    BY <1>0, <2>1, <2>2 DEF Going, Based, Paced, Apart
  <2> QED
    BY <1>0, <2>1, <2>3, AloneIsQuiet
<1>3. ASSUME NEW unread, NEW theirs, NEW step \in {"persist", "remote"},
             runner' = [runner EXCEPT ![r] =
               [runner[r] EXCEPT !.unread = unread, !.theirs = theirs, !.step = step]]
      PROVE  Quiet
  <2> DEFINE l == [runner[r] EXCEPT !.unread = unread, !.theirs = theirs, !.step = step]
  <2>1. runner'[r] = l /\ Alone(r)
    BY <1>3 DEF Alone, TypeInv, TypeOK
  <2>2. l.run = runner[r].run /\ l.step = step /\ l.now = runner[r].now
    BY LocalFacts DEF Locals
  <2>3. Going(r) /\ Based(r) /\ Paced(r)
    BY <1>0, <2>1, <2>2 DEF Going, Based, Paced, Apart
  <2> QED
    BY <1>0, <2>1, <2>3, AloneIsQuiet
<1> QED
  BY <1>1, <1>2, <1>3 DEF ReadPage, RemoteError

LEMMA LeavesIsQuiet ==
    ASSUME TypeInv, NEW r \in Runners, Leaves(r), runner[r].run = 0 \/ ~Owns(r),
           UNCHANGED <<lease, watermark, runs, takeovers, crashes>>
    PROVE  Quiet
<1>1. Alone(r) /\ runner'[r].run = 0 /\ runner'[r].step = "idle" /\ crashes \in Nat
  BY LeavesFacts DEF TypeInv, TypeOK
<1>2. (Going(r) \/ Deserts(r)) /\ Based(r) /\ Paced(r)
  BY <1>1 DEF Going, Deserts, Based, Paced
<1> QED
  BY <1>1, <1>2, AloneIsQuiet

LEMMA StartKinds ==
    ASSUME TypeInv, NEW r \in Runners, StartRun(r) \/ StartWrites(r)
    PROVE  Quiet \/ OpensNow(r)
<1>1. runner[r].run = 0 /\ UNCHANGED crashes
  BY LocalFacts DEF StartRun, StartWrites, Sound, Apart
<1>2. CASE Leaves(r) /\ UNCHANGED <<repository, takeovers>>
  BY <1>1, <1>2, LeavesIsQuiet DEF repository
<1>3. CASE StartRun(r) /\ ~(Leaves(r) /\ UNCHANGED <<repository, takeovers>>)
  BY <1>1, <1>3 DEF StartRun, OpenRun, Opens, OpensNow, Leaves
<1>4. CASE StartWrites(r) /\ ~(Leaves(r) /\ UNCHANGED <<repository, takeovers>>)
  BY <1>1, <1>4 DEF StartWrites, OpenRun, Opens, OpensNow, Leaves
<1> QED
  BY <1>2, <1>3, <1>4

LEMMA AssertQuiet ==
    ASSUME TypeInv, NEW r \in Runners, AssertLease(r)
    PROVE  Quiet
<1>0. /\ UNCHANGED <<lease, watermark, runs, takeovers, crashes>> /\ crashes \in Nat
      /\ runner[r].step \notin Apart /\ Alone(r)
  BY AssertFacts DEF repository, counters, TypeInv, TypeOK
<1>1. CASE Owns(r) /\ ~Goes(r, runner[r].run, "failing")
  <2>1. /\ runner'[r].step # "starting" /\ runner'[r].run = runner[r].run
        /\ runner'[r].now = runner[r].now
    BY <1>1, AssertFacts
  <2>2. Going(r) /\ Based(r) /\ Paced(r)
    BY <1>0, <2>1 DEF Going, Based, Paced, Apart
  <2> QED
    BY <1>0, <2>2, AloneIsQuiet
<1>2. CASE Goes(r, runner[r].run, "failing")
  BY <1>0, <1>2, GoesIsQuiet DEF Steps, Apart
<1>3. CASE ~Owns(r) /\ runner'[r] = IdleRunner
  <2>1. runner'[r].run = 0 /\ runner'[r].step = "idle"
    BY <1>3 DEF IdleRunner
  <2>2. Deserts(r) /\ Based(r) /\ Paced(r)
    BY <1>3, <2>1 DEF Deserts, Based, Paced
  <2> QED
    BY <1>0, <2>2, AloneIsQuiet
<1> QED
  BY <1>1, <1>2, <1>3, AssertFacts

LEMMA WriteKinds ==
    ASSUME TypeInv, NEW r \in Runners, PersistFindings(r) \/ MarkFinding(r) \/ CountRepairs(r)
    PROVE  Writes(r)
<1>0. runner[r].step \notin Apart
  BY DEF PersistFindings, MarkFinding, CountRepairs, Apart
<1>1. runner[r].run \in DOMAIN runs /\ Row(r) \in Run /\ runner[r].run \in RunIds
  BY <1>0, WorkFacts, LocalFacts
<1>2. CASE PersistFindings(r)
  <2>1. /\ RowAlone(r) /\ RowAfter(r) = [Row(r) EXCEPT
                         !.findings = Rows(r),
                         !.detected = Row(r).detected + Cardinality(Drifted(r)),
                         !.manual = Row(r).manual + Cardinality(Reviewed(r))]
        /\ Alone(r) /\ runner'[r].step = "repair" /\ runner'[r].run = runner[r].run
        /\ runner'[r].now = runner[r].now
        /\ UNCHANGED <<lease, watermark, counters>>
    BY <1>2, PersistFacts
  <2>2. /\ RowAfter(r).status = Row(r).status /\ RowAfter(r).windowStart = Row(r).windowStart
        /\ RowAfter(r).windowEnd = Row(r).windowEnd
    BY <1>1, <2>1 DEF Run
  <2> QED
    BY <1>1, <2>1, <2>2 DEF Writes, Going, counters
<1>3. CASE MarkFinding(r)
  <2> DEFINE findings == {IF f.key = NextRepair(r)
                          THEN [f EXCEPT !.status = RepairStatus(runner[r].success)]
                          ELSE f : f \in Row(r).findings}
  <2>1. /\ RowAlone(r) /\ RowAfter(r) = [Row(r) EXCEPT !.findings = findings]
        /\ Alone(r) /\ runner'[r].step = "repair" /\ runner'[r].run = runner[r].run
        /\ runner'[r].now = runner[r].now
        /\ UNCHANGED <<lease, watermark, counters>>
    BY <1>3, MarkFacts
  <2> HIDE DEF findings
  <2>2. /\ RowAfter(r).status = Row(r).status /\ RowAfter(r).windowStart = Row(r).windowStart
        /\ RowAfter(r).windowEnd = Row(r).windowEnd
    BY <1>1, <2>1 DEF Run
  <2> QED
    BY <1>1, <2>1, <2>2 DEF Writes, Going, counters
<1>4. CASE CountRepairs(r)
  <2>1. /\ RowAlone(r) /\ RowAfter(r) = [Row(r) EXCEPT
                !.repaired = Row(r).repaired + runner[r].repaired]
        /\ Goes(r, runner[r].run, "complete")
        /\ UNCHANGED <<lease, watermark, counters>>
    BY <1>4, CountFacts
  <2>2. /\ RowAfter(r).status = Row(r).status /\ RowAfter(r).windowStart = Row(r).windowStart
        /\ RowAfter(r).windowEnd = Row(r).windowEnd
    BY <1>1, <2>1 DEF Run
  <2>3. /\ Alone(r) /\ runner'[r].step = "complete" /\ runner'[r].run = runner[r].run
        /\ runner'[r].now = runner[r].now
    BY <1>1, <2>1, GoesFacts DEF Steps, Apart
  <2> QED
    BY <1>1, <2>1, <2>2, <2>3 DEF Writes, Going, counters
<1> QED
  BY <1>2, <1>3, <1>4

LEMMA EndKinds ==
    ASSUME TypeInv, NEW r \in Runners, CompleteWrites(r) \/ FailRun(r)
    PROVE  Ends(r)
<1>1. runner[r].run \in DOMAIN runs /\ Row(r) \in Run
  BY WorkFacts, CompleteFacts, FailFacts
<1>2. CASE CompleteWrites(r)
  <2>1. /\ RowAlone(r) /\ RowAfter(r) = [Row(r) EXCEPT !.status = "completed"]
        /\ watermark' = Row(r).windowEnd /\ lease' = Released(r) /\ Leaves(r)
        /\ UNCHANGED counters
    BY <1>2, CompleteFacts
  <2>2. /\ RowAfter(r).status = "completed" /\ RowAfter(r).windowStart = Row(r).windowStart
        /\ RowAfter(r).windowEnd = Row(r).windowEnd
    BY <1>1, <2>1 DEF Run
  <2>3. Alone(r) /\ runner'[r].run = 0 /\ runner'[r].step = "idle"
    BY <2>1, LeavesFacts
  <2> QED
    BY <1>1, <2>1, <2>2, <2>3 DEF Ends, counters
<1>3. CASE FailRun(r)
  <2>1. /\ RowAlone(r)
        /\ RowAfter(r) = [Row(r) EXCEPT
             !.status = "failed", !.detected = 0, !.repaired = 0, !.manual = 0]
        /\ watermark' = watermark /\ lease' = Released(r) /\ Leaves(r)
        /\ UNCHANGED counters
    BY <1>3, FailFacts
  <2>2. /\ RowAfter(r).status = "failed" /\ RowAfter(r).windowStart = Row(r).windowStart
        /\ RowAfter(r).windowEnd = Row(r).windowEnd
    BY <1>1, <2>1 DEF Run
  <2>3. Alone(r) /\ runner'[r].run = 0 /\ runner'[r].step = "idle"
    BY <2>1, LeavesFacts
  <2> QED
    BY <1>1, <2>1, <2>2, <2>3 DEF Ends, counters
<1> QED
  BY <1>2, <1>3

\* A step leaves the repository alone, or one runner writes to its run, ends it or
\* opens one.
LEMMA StepKinds ==
    ASSUME TypeInv, [Next]_vars
    PROVE  Quiet \/ \E r \in Runners : Writes(r) \/ Ends(r) \/ OpensNow(r)
<1>0. crashes \in Nat
  BY DEF TypeInv, TypeOK
<1>1. CASE UNCHANGED <<lease, watermark, runs, runner, takeovers, crashes>>
  BY <1>0, <1>1 DEF Quiet, Going, Based, Paced
<1>2. CASE InboxWorker
  BY <1>1, <1>2 DEF InboxWorker, repository
<1>3. ASSUME NEW k \in Keys, RemoteChanges(k) \/ Ships(k) \/ Dispatcher(k) PROVE Quiet
  <2>1. UNCHANGED <<lease, watermark, runs, runner, takeovers, crashes>>
    BY <1>3 DEF RemoteChanges, Ships, Dispatcher, repository
  <2> QED
    BY <1>0, <2>1 DEF Quiet, Going, Based, Paced
<1>4. ASSUME NEW r \in Runners, Repair(r) PROVE Quiet
  <2>1. /\ runner[r].step \notin Apart /\ UNCHANGED <<lease, watermark, runs, takeovers, crashes>>
    BY <1>4 DEF Repair, Apart, repository, counters
  <2>2. CASE Goes(r, runner[r].run, "complete")
    BY <2>1, <2>2, GoesIsQuiet DEF Steps, Apart
  <2>3. CASE \E success \in BOOLEAN, step \in {"process", "mark", "count", "failing"} :
               Attempted(r, success, step)
    BY <2>1, <2>3, AttemptedIsQuiet
  <2>4. CASE runner[r].todo # {} /\ RepairInbound(r, NextRepair(r))
    BY <1>4, <2>3, <2>4, RepairInboundFacts DEF Repair
  <2> QED
    BY <1>4, <2>2, <2>3, <2>4 DEF Repair, RepairRefused, RepairOutbound
<1>5. ASSUME NEW r \in Runners, RepairProcesses(r) PROVE Quiet
  <2>1. /\ runner[r].step \notin Apart /\ UNCHANGED <<lease, watermark, runs, takeovers, crashes>>
        /\ (Attempted(r, TRUE, "mark") \/ Attempted(r, FALSE, "mark"))
    BY <1>5 DEF RepairProcesses, Apart, repository
  <2> QED
    BY <2>1, AttemptedIsQuiet
<1>6. CASE UNCHANGED vars
  BY <1>1, <1>6 DEF vars, repository, counters
<1> QED
  BY <1>2, <1>3, <1>4, <1>5, <1>6, BeginQuiet, ReadQuiet, AssertQuiet, StartKinds,
     WriteKinds, EndKinds
     DEF Next, Visit

LEMMA RunsFacts ==
    ASSUME TypeInv
    PROVE  /\ runs \in Seq(Run) /\ Len(runs) \in Nat /\ DOMAIN runs = 1..Len(runs)
           /\ \A i \in DOMAIN runs : /\ runs[i].windowStart \in Int /\ runs[i].windowEnd \in Nat
                                     /\ runs[i] \in Run
<1>1. runs \in Seq(Run) /\ (\A i \in DOMAIN runs : runs[i].windowEnd >= 0)
  BY DEF TypeInv, TypeOK
<1>2. Len(runs) \in Nat /\ DOMAIN runs = 1..Len(runs) /\ \A i \in DOMAIN runs : runs[i] \in Run
  BY <1>1
<1>3. \A t \in Times : t \in Int
  BY TimeAssumption DEF Times
<1>4. \A i \in DOMAIN runs : runs[i].windowStart \in Times /\ runs[i].windowEnd \in Times
  BY <1>2 DEF Run
<1> QED
  BY <1>1, <1>2, <1>3, <1>4

\* Writing to the row of one run leaves the others alone.
LEMMA RowFrame ==
    ASSUME TypeInv, NEW r \in Runners, RowAlone(r), runner[r].run \in DOMAIN runs, Alone(r)
    PROVE  /\ DOMAIN runs' = DOMAIN runs /\ Len(runs') = Len(runs)
           /\ runs'[runner[r].run] = RowAfter(r) /\ runs[runner[r].run] = Row(r)
           /\ \A i \in DOMAIN runs : i # runner[r].run => runs'[i] = runs[i]
           /\ \A s \in Runners : s # r => runner'[s] = runner[s]
<1> DEFINE i == runner[r].run
           row == RowAfter(r)
<1>1. runs' = [runs EXCEPT ![i] = row]
  BY DEF RowAlone
<1>2. \A s \in Runners : s # r => runner'[s] = runner[s]
  BY DEF Alone, TypeInv, TypeOK
<1>3. runs'[runner[r].run] = RowAfter(r) /\ runs[runner[r].run] = Row(r)
  BY DEF RowAfter, Row
<1> HIDE DEF i, row
<1>4. /\ DOMAIN runs' = DOMAIN runs /\ Len(runs') = Len(runs)
      /\ \A j \in DOMAIN runs : j # i => runs'[j] = runs[j]
  BY <1>1, RunsFacts
<1> QED
  BY <1>2, <1>3, <1>4 DEF i

\* What opening a run does to the other runs and runners.
LEMMA OpenFrame ==
    ASSUME TypeInv, NEW r \in Runners, OpensNow(r)
    PROVE  \E base \in Int :
             /\ base = WatermarkBase(r) \/ (runner[r].step = "starting" /\ base = runner[r].base)
             /\ DOMAIN runs' = 1..(Len(runs) + 1) /\ Len(runs') = Len(runs) + 1
             /\ \A i \in DOMAIN runs : runs'[i] = runs[i]
             /\ runs'[Len(runs) + 1].status = "running"
             /\ runs'[Len(runs) + 1].windowStart = base - Overlap
             /\ runs'[Len(runs) + 1].windowEnd = runner[r].now
             /\ runner'[r].run = Len(runs) + 1 /\ runner'[r].now = runner[r].now
             /\ runner'[r].step = "local"
             /\ \A s \in Runners : s # r => runner'[s] = runner[s]
             /\ lease' = [owner |-> Len(runs) + 1, until |-> runner[r].now + LeaseDuration]
             /\ takeovers' = takeovers + (IF lease = Null THEN 0 ELSE 1)
             /\ UNCHANGED <<watermark, crashes>>
<1>1. PICK base \in Times : /\ base >= 0 - Lookback /\ Opens(r, base)
                            /\ \/ base = WatermarkBase(r)
                               \/ runner[r].step = "starting" /\ base = runner[r].base
  <2>1. WatermarkBase(r) \in Times /\ WatermarkBase(r) >= 0 - Lookback
    BY LocalFacts, TimeAssumption DEF WatermarkBase, TypeInv, TypeOK, Times
  <2>2. runner[r].base \in Times /\ runner[r].base >= 0 - Lookback
    BY LocalFacts DEF Sound, Locals
  <2> QED
    BY <2>1, <2>2 DEF OpensNow
<1>2. /\ DOMAIN runs' = 1..(Len(runs) + 1) /\ Len(runs') = Len(runs) + 1
      /\ \A i \in DOMAIN runs : runs'[i] = runs[i]
      /\ runs'[Len(runs) + 1] =
                [status |-> "running", windowStart |-> base - Overlap,
                 windowEnd |-> runner[r].now, findings |-> {},
                 detected |-> 0, repaired |-> 0, manual |-> 0]
      /\ Alone(r) /\ runner'[r].run = Len(runs) + 1 /\ runner'[r].now = runner[r].now
      /\ runner'[r].step = "local"
  BY <1>1, OpensFacts
<1>3. \A s \in Runners : s # r => runner'[s] = runner[s]
  BY <1>2 DEF Alone, TypeInv, TypeOK
<1>4. base \in Int
  BY <1>1, TimeAssumption DEF Times
<1>5. /\ lease' = [owner |-> Len(runs) + 1, until |-> runner[r].now + LeaseDuration]
      /\ takeovers' = takeovers + (IF lease = Null THEN 0 ELSE 1)
      /\ UNCHANGED <<watermark, crashes>>
  BY <1>1 DEF Opens, OpensNow
<1>6. /\ runs'[Len(runs) + 1].status = "running"
      /\ runs'[Len(runs) + 1].windowStart = base - Overlap
      /\ runs'[Len(runs) + 1].windowEnd = runner[r].now
  BY <1>2
<1> QED
  BY <1>1, <1>2, <1>3, <1>4, <1>5, <1>6

-----------------------------------------------------------------------------
(* Who is in which run *)

\* Runners are never in the same run.
DistinctInv == \A r, s \in Runners :
                 r # s /\ runner[r].run # 0 => runner[r].run # runner[s].run

LEMMA DistinctInit == Init => DistinctInv
BY DEF Init, DistinctInv, IdleRunner

LEMMA DistinctStep == TypeInv /\ DistinctInv /\ [Next]_vars => DistinctInv'
<1> SUFFICES ASSUME TypeInv, DistinctInv, [Next]_vars PROVE DistinctInv'
  OBVIOUS
<1>1. ASSUME \A r \in Runners : runner'[r].run \in {0, runner[r].run} PROVE DistinctInv'
  BY <1>1 DEF DistinctInv
<1>2. CASE Quiet
  BY <1>1, <1>2 DEF Quiet, Going, Deserts
<1>3. ASSUME NEW r \in Runners, Writes(r) \/ Ends(r) PROVE DistinctInv'
  <2>1. /\ \A s \in Runners : s # r => runner'[s] = runner[s]
        /\ runner'[r].run \in {0, runner[r].run}
    BY <1>3, RowFrame DEF Writes, Ends, Going
  <2> QED
    BY <1>1, <2>1
<1>4. ASSUME NEW r \in Runners, OpensNow(r) PROVE DistinctInv'
  <2>1. /\ runner'[r].run = Len(runs) + 1
        /\ \A s \in Runners : s # r => runner'[s] = runner[s]
    BY <1>4, OpenFrame
  <2>2. ASSUME NEW s \in Runners PROVE runner[s].run # Len(runs) + 1
    <3>1. runner[s].run = 0 \/ runner[s].run \in 1..Len(runs)
      BY LocalFacts, RunsFacts
    <3> QED
      BY <3>1, RunsFacts
  <2> QED
    BY <2>1, <2>2 DEF DistinctInv
<1> QED
  BY <1>2, <1>3, <1>4, StepKinds

\* A run that is over is left alone.
LiveInv == \A r \in Runners : runner[r].run # 0 => runs[runner[r].run].status = "running"

LEMMA LiveInit == Init => LiveInv
BY DEF Init, LiveInv, IdleRunner

\* What a step does to the runs and to whoever is in one.
LEMMA LiveKinds ==
    ASSUME TypeInv, LiveInv, [Next]_vars
    PROVE  \/ Quiet
           \/ \E r \in Runners :
                /\ runner[r].run # 0 /\ runs[runner[r].run].status = "running"
                /\ runner[r].run \in DOMAIN runs /\ DOMAIN runs' = DOMAIN runs
                /\ \A i \in DOMAIN runs : i # runner[r].run => runs'[i] = runs[i]
                /\ \A s \in Runners : s # r => runner'[s] = runner[s]
                /\ \/ runner'[r].run = 0
                   \/ runner'[r].run = runner[r].run /\ runs'[runner[r].run].status = "running"
           \/ \E r \in Runners :
                /\ \A i \in DOMAIN runs : i \in DOMAIN runs' /\ runs'[i] = runs[i]
                /\ \A s \in Runners : s # r => runner'[s] = runner[s]
                /\ runs'[runner'[r].run].status = "running"
<1>1. ASSUME NEW r \in Runners, Writes(r) \/ Ends(r)
      PROVE  /\ runner[r].run # 0 /\ runs[runner[r].run].status = "running"
             /\ runner[r].run \in DOMAIN runs /\ DOMAIN runs' = DOMAIN runs
             /\ \A i \in DOMAIN runs : i # runner[r].run => runs'[i] = runs[i]
             /\ \A s \in Runners : s # r => runner'[s] = runner[s]
             /\ \/ runner'[r].run = 0
                \/ runner'[r].run = runner[r].run /\ runs'[runner[r].run].status = "running"
  <2>1. RowAlone(r) /\ runner[r].run \in DOMAIN runs /\ Alone(r)
    BY <1>1 DEF Writes, Ends
  <2>2. /\ DOMAIN runs' = DOMAIN runs
        /\ runs'[runner[r].run] = RowAfter(r) /\ runs[runner[r].run] = Row(r)
        /\ \A i \in DOMAIN runs : i # runner[r].run => runs'[i] = runs[i]
        /\ \A s \in Runners : s # r => runner'[s] = runner[s]
    BY <2>1, RowFrame
  <2>3. runner[r].run # 0 /\ runs[runner[r].run].status = "running"
    BY <2>1, RunsFacts DEF LiveInv
  <2>4. runner'[r].run = 0 \/ (runner'[r].run = runner[r].run /\ RowAfter(r).status = Row(r).status)
    BY <1>1 DEF Writes, Ends, Going
  <2> QED
    BY <2>1, <2>2, <2>3, <2>4
<1>2. ASSUME NEW r \in Runners, OpensNow(r)
      PROVE  /\ \A i \in DOMAIN runs : i \in DOMAIN runs' /\ runs'[i] = runs[i]
             /\ \A s \in Runners : s # r => runner'[s] = runner[s]
             /\ runs'[runner'[r].run].status = "running"
  <2>1. /\ DOMAIN runs' = 1..(Len(runs) + 1)
        /\ \A i \in DOMAIN runs : runs'[i] = runs[i]
        /\ runs'[Len(runs) + 1].status = "running" /\ runner'[r].run = Len(runs) + 1
        /\ \A s \in Runners : s # r => runner'[s] = runner[s]
    BY <1>2, OpenFrame
  <2>2. \A i \in DOMAIN runs : i \in DOMAIN runs'
    BY <2>1, RunsFacts
  <2> QED
    BY <2>1, <2>2
<1> QED
  BY <1>1, <1>2, StepKinds

LEMMA LiveStep == TypeInv /\ DistinctInv /\ LiveInv /\ [Next]_vars => LiveInv'
<1> SUFFICES ASSUME TypeInv, DistinctInv, LiveInv, [Next]_vars, NEW s \in Runners,
                    runner'[s].run # 0
             PROVE  runs'[runner'[s].run].status = "running"
  BY DEF LiveInv
<1>1. runner[s].run # 0 => runner[s].run \in DOMAIN runs
  BY LocalFacts
<1>2. CASE Quiet
  <2>1. Going(s) \/ Deserts(s)
    BY <1>2 DEF Quiet
  <2> QED
    BY <1>2, <2>1 DEF Quiet, Going, Deserts, LiveInv
<1> QED
  BY <1>1, <1>2, LiveKinds DEF LiveInv, DistinctInv

-----------------------------------------------------------------------------
(* The lease *)

\* Only the latest run has the lease, and its runner never sees it expire.
FenceInv ==
    /\ lease # Null => lease.owner = Len(runs)
    /\ \A r \in Runners :
         lease # Null /\ lease.owner = runner[r].run => lease.until >= runner[r].now

LEMMA LeaseFacts ==
    ASSUME TypeInv, lease # Null
    PROVE  lease.owner \in RunIds /\ lease.owner # 0 /\ lease.until \in Nat
BY BoundsAssumption DEF TypeInv, TypeOK, RunIds

LEMMA FenceInit == Init => FenceInv
BY DEF Init, FenceInv

LEMMA FenceStep == TypeInv /\ FenceInv /\ [Next]_vars => FenceInv'
<1> SUFFICES ASSUME TypeInv, FenceInv, [Next]_vars PROVE FenceInv'
  OBVIOUS
<1>1. CASE Quiet
  BY <1>1, LeaseFacts DEF Quiet, FenceInv, Going, Deserts
<1>2. ASSUME NEW r \in Runners, Writes(r) PROVE FenceInv'
  <2>1. /\ \A s \in Runners : s # r => runner'[s] = runner[s]
        /\ Len(runs') = Len(runs) /\ lease' = lease /\ Going(r)
    BY <1>2, RowFrame DEF Writes
  <2> QED
    BY <2>1, LeaseFacts DEF FenceInv, Going
<1>3. ASSUME NEW r \in Runners, Ends(r) PROVE FenceInv'
  <2>1. /\ \A s \in Runners : s # r => runner'[s] = runner[s]
        /\ Len(runs') = Len(runs) /\ lease' \in {lease, Null} /\ runner'[r].run = 0
    BY <1>3, RowFrame DEF Ends, Released
  <2> QED
    BY <2>1, LeaseFacts DEF FenceInv
<1>4. ASSUME NEW r \in Runners, OpensNow(r) PROVE FenceInv'
  <2>1. /\ Len(runs') = Len(runs) + 1 /\ DOMAIN runs = 1..Len(runs) /\ Len(runs) \in Nat
        /\ runner'[r].now = runner[r].now
        /\ \A s \in Runners : s # r => runner'[s] = runner[s]
        /\ lease' = [owner |-> Len(runs) + 1, until |-> runner[r].now + LeaseDuration]
    BY <1>4, OpenFrame, RunsFacts
  <2>2. lease'.owner = Len(runs) + 1 /\ lease'.until = runner[r].now + LeaseDuration
    BY <2>1
  <2>3. \A s \in Runners : s # r => runner'[s].run # Len(runs) + 1
    <3> TAKE s \in Runners
    <3> HAVE s # r
    <3>1. runner[s].run = 0 \/ runner[s].run \in 1..Len(runs)
      BY <2>1, LocalFacts
    <3> QED
      BY <2>1, <3>1
  <2>4. lease'.until >= runner'[r].now
    BY <2>1, <2>2, LocalFacts, TimeAssumption
  <2> QED
    BY <2>1, <2>2, <2>3, <2>4 DEF FenceInv
<1> QED
  BY <1>1, <1>2, <1>3, <1>4, StepKinds

\* What OvertakenRunsAreFenced says of one runner.
Fenced(r) ==
    /\ runner'[r].step \notin WritingSteps
    /\ runner[r].step = "remote" /\ ~Readback => runner'[r].step \in {"failing", "idle"}
    /\ UNCHANGED lease
    /\ runner[r].step \notin WritingSteps =>
         /\ UNCHANGED watermark
         /\ \A i \in DOMAIN runs :
              \/ runs'[i] = runs[i]
              \/ /\ i = runner[r].run
                 /\ runs'[i] = [runs[i] EXCEPT !.findings = runs'[i].findings]

\* An overtaken run has lost its lease.
LEMMA OvertakenOwnsNothing ==
    ASSUME TypeInv, FenceInv, NEW r \in Runners, Overtaken(r)
    PROVE  /\ ~Owns(r) /\ Released(r) = lease
           /\ runner[r].run # 0 /\ runner[r].step \notin Apart
<1>1. Len(runs) \in Nat /\ runner[r].run \in Nat /\ runner[r].run < Len(runs)
  BY RunsFacts, LocalFacts, BoundsAssumption DEF RunIds, Overtaken
<1>2. runner[r].run # 0 /\ runner[r].step \notin Apart
  BY LocalFacts DEF Overtaken, Sound
<1> QED
  BY <1>1, <1>2 DEF Owns, Released, FenceInv

LEMMA FencedReads ==
    ASSUME TypeInv, FenceInv, NEW r \in Runners, Overtaken(r),
           ReadLocal(r) \/ ReadPage(r) \/ RemoteError(r)
    PROVE  Fenced(r)
<1>0. ~Owns(r) /\ runner[r].step \notin Apart /\ UNCHANGED repository
  BY OvertakenOwnsNothing DEF ReadLocal, ReadPage, RemoteError
<1>1. UNCHANGED <<lease, watermark, runs>>
  BY <1>0 DEF repository
<1>2. Goes(r, runner[r].run, "failing") => runner'[r].step = "failing"
  BY <1>0, LocalFacts, WorkFacts, GoesFacts DEF Steps, Apart
<1>3. CASE ReadLocal(r)
  <2> DEFINE l == [runner[r] EXCEPT !.step = "remote", !.ours = local, !.unread = Keys]
  <2>1. runner'[r] = l /\ runner[r].step = "local"
    BY <1>3 DEF ReadLocal, TypeInv, TypeOK
  <2>2. l.step = "remote"
    BY LocalFacts DEF Locals
  <2> QED
    BY <1>1, <2>1, <2>2 DEF Fenced
<1>4. CASE Goes(r, runner[r].run, "failing")
  BY <1>1, <1>2, <1>4 DEF Fenced
<1>5. CASE ReadPage(r) /\ ~Goes(r, runner[r].run, "failing")
  <2>1. Readback
    BY <1>0, <1>5 DEF ReadPage
  <2>2. PICK k \in runner[r].unread : runner' = [runner EXCEPT ![r] = [runner[r] EXCEPT
                !.unread = runner[r].unread \ {k},
                !.theirs = [runner[r].theirs EXCEPT ![k] = remote[k]],
                !.step = IF runner[r].unread = {k} THEN "persist" ELSE "remote"]]
    BY <1>5 DEF ReadPage
  <2> DEFINE unread == runner[r].unread \ {k}
             theirs == [runner[r].theirs EXCEPT ![k] = remote[k]]
             step == IF runner[r].unread = {k} THEN "persist" ELSE "remote"
             l == [runner[r] EXCEPT !.unread = unread, !.theirs = theirs, !.step = step]
  <2>3. step \in {"persist", "remote"}
    OBVIOUS
  <2>4. runner'[r] = l
    BY <2>2 DEF TypeInv, TypeOK
  <2> HIDE DEF unread, theirs, step
  <2>5. l.step = step
    BY LocalFacts DEF Locals
  <2> QED
    BY <1>1, <2>1, <2>3, <2>4, <2>5 DEF Fenced
<1> QED
  BY <1>3, <1>4, <1>5 DEF RemoteError

LEMMA FencedAsserts ==
    ASSUME TypeInv, FenceInv, NEW r \in Runners, Overtaken(r), AssertLease(r)
    PROVE  Fenced(r)
<1>0. ~Owns(r) /\ runner[r].step \in AssertingSteps /\ runner[r].step \notin Apart
      /\ UNCHANGED <<lease, watermark, runs>>
  BY OvertakenOwnsNothing, AssertFacts DEF repository
<1>1. Goes(r, runner[r].run, "failing") => runner'[r].step = "failing"
  BY <1>0, LocalFacts, WorkFacts, GoesFacts DEF Steps, Apart
<1>2. runner'[r].step \in {"failing", "idle"}
  BY <1>0, <1>1, AssertFacts DEF IdleRunner
<1> QED
  BY <1>0, <1>2 DEF Fenced

\* The one write that an overtaken run may have asserted before.
LEMMA FencedWrites ==
    ASSUME TypeInv, FenceInv, NEW r \in Runners, Overtaken(r),
           PersistFindings(r) \/ CountRepairs(r) \/ CompleteWrites(r) \/ FailRun(r)
    PROVE  Fenced(r)
<1>0. Released(r) = lease /\ runner[r].step \notin Apart
  BY OvertakenOwnsNothing
<1>1. CASE PersistFindings(r)
  BY <1>1, PersistFacts DEF Fenced
<1>2. CASE CountRepairs(r)
  <2>1. runner'[r].step = "complete"
    BY <1>0, <1>2, CountFacts, LocalFacts, WorkFacts, GoesFacts DEF Steps, Apart
  <2> QED
    BY <1>2, <2>1, CountFacts DEF Fenced
<1>3. CASE CompleteWrites(r)
  BY <1>0, <1>3, CompleteFacts, LeavesFacts DEF Fenced
<1>4. CASE FailRun(r)
  BY <1>0, <1>4, FailFacts, LeavesFacts DEF Fenced
<1> QED
  BY <1>1, <1>2, <1>3, <1>4

LEMMA FencedRepairs ==
    ASSUME TypeInv, FenceInv, NEW r \in Runners, Overtaken(r), Repair(r) \/ RepairProcesses(r)
    PROVE  Fenced(r)
<1>0. /\ UNCHANGED <<lease, watermark, runs>> /\ runner[r].step \in {"repair", "process"}
      /\ runner[r].step \notin Apart
  BY DEF Repair, RepairProcesses, repository, Apart
<1>1. runner'[r].step \notin WritingSteps => Fenced(r)
  BY <1>0 DEF Fenced
<1>2. CASE Goes(r, runner[r].run, "complete")
  BY <1>0, <1>1, <1>2, LocalFacts, WorkFacts, GoesFacts DEF Steps, Apart
<1>3. CASE \E success \in BOOLEAN, step \in {"process", "mark", "count", "failing"} :
             Attempted(r, success, step)
  BY <1>0, <1>1, <1>3, AttemptedFacts
<1>4. CASE runner[r].todo # {} /\ Repair(r) /\ RepairInbound(r, NextRepair(r))
  BY <1>3, <1>4, RepairInboundFacts DEF Repair
<1> QED
  BY <1>2, <1>3, <1>4 DEF Repair, RepairProcesses, RepairRefused, RepairOutbound

LEMMA FencedMarks ==
    ASSUME TypeInv, FenceInv, NEW r \in Runners, Overtaken(r), MarkFinding(r)
    PROVE  Fenced(r)
<1> DEFINE findings == {IF f.key = NextRepair(r)
                        THEN [f EXCEPT !.status = RepairStatus(runner[r].success)]
                        ELSE f : f \in Row(r).findings}
<1>1. /\ RowAlone(r) /\ RowAfter(r) = [Row(r) EXCEPT !.findings = findings]
      /\ Alone(r) /\ runner[r].step = "mark" /\ runner'[r].step = "repair"
      /\ UNCHANGED <<lease, watermark>>
  BY MarkFacts
<1> HIDE DEF findings
<1>2. runner[r].run \in DOMAIN runs /\ Row(r) \in Run
  BY <1>1, WorkFacts DEF Apart
<1>3. RowAfter(r).findings = findings
  BY <1>1, <1>2 DEF Run
<1>4. RowAfter(r) = [Row(r) EXCEPT !.findings = RowAfter(r).findings]
  BY <1>1, <1>3
<1>5. \A i \in DOMAIN runs : \/ runs'[i] = runs[i]
                             \/ /\ i = runner[r].run
                                /\ runs'[i] = [runs[i] EXCEPT !.findings = runs'[i].findings]
  BY <1>1, <1>2, <1>4, RowFrame
<1> QED
  BY <1>1, <1>5 DEF Fenced

\* A step of one runner moves no other.
LEMMA RunnersMoveAlone ==
    ASSUME TypeInv, NEW r \in Runners, BeginRun(r) \/ Visit(r) \/ RemoteError(r) \/ Crash(r)
    PROVE  Alone(r)
<1>1. ASSUME NEW l, Moves(r, l) PROVE Alone(r)
  BY <1>1 DEF Moves, Alone, TypeInv, TypeOK
<1>2. ASSUME BeginRun(r) \/ StartFirst(r) \/ ReadLocal(r) \/ PersistFindings(r) \/ MarkFinding(r)
      PROVE  Alone(r)
  BY <1>1, <1>2 DEF BeginRun, StartFirst, ReadLocal, PersistFindings, MarkFinding, Moves
<1>3. ASSUME StartRun(r) \/ StartWrites(r) PROVE Alone(r)
  BY <1>1, <1>3 DEF StartRun, StartWrites, OpenRun, Goes, Moves
<1>4. ASSUME ReadPage(r) \/ RemoteError(r) PROVE Alone(r)
  BY <1>1, <1>4 DEF ReadPage, RemoteError, Goes, Moves
<1>5. ASSUME Repair(r) \/ RepairProcesses(r) PROVE Alone(r)
  BY <1>1, <1>5 DEF Repair, RepairProcesses, RepairInbound, RepairRefused, RepairOutbound,
     Attempted, Goes, Moves
<1>6. ASSUME CountRepairs(r) \/ CompleteWrites(r) \/ FailRun(r) \/ Crash(r) PROVE Alone(r)
  BY <1>1, <1>6 DEF CountRepairs, CompleteWrites, FailRun, Crash, Goes, Moves
<1> QED
  BY <1>2, <1>3, <1>4, <1>5, <1>6, AssertFacts DEF Visit

\* A runner that a step of another moves does not move.
LEMMA OnlyOneMoves ==
    ASSUME TypeInv, NEW r \in Runners, NEW s \in Runners, Alone(r), runner'[s] # runner[s]
    PROVE  s = r
BY DEF Alone, TypeInv, TypeOK

\* Whatever lease is lost, raced for or outlived, an overtaken run passes no assertion,
\* leaves the new lease and the watermark alone and changes no record but the state of
\* its own findings, apart from a write that was asserted before.
THEOREM OvertakenRunsAreFencedCorrect == Spec => OvertakenRunsAreFenced
<1>1. TypeInv /\ FenceInv /\ [Next]_vars =>
        [\A r \in Runners : Overtaken(r) /\ runner'[r] # runner[r] => Fenced(r)]_vars
  <2> SUFFICES ASSUME TypeInv, FenceInv, [Next]_vars, NEW s \in Runners, Overtaken(s),
                      runner'[s] # runner[s]
               PROVE  Fenced(s)
    OBVIOUS
  <2>1. runner' # runner
    OBVIOUS
  <2>2. PICK r \in Runners : BeginRun(r) \/ Visit(r) \/ RemoteError(r) \/ Crash(r)
    BY <2>1 DEF Next, vars, InboxWorker, RemoteChanges, Ships, Dispatcher
  <2>3. Alone(r)
    BY <2>2, RunnersMoveAlone
  <2>4. s = r
    BY <2>3, OnlyOneMoves
  <2>5. runner[r].step \notin Apart
    BY <2>4, OvertakenOwnsNothing
  <2>6. ~BeginRun(r) /\ ~StartRun(r) /\ ~StartFirst(r) /\ ~StartWrites(r)
    BY <2>5 DEF BeginRun, StartRun, StartFirst, StartWrites, Apart
  <2>7. CASE Crash(r)
    <3>1. Leaves(r) /\ UNCHANGED <<lease, watermark, runs>>
      BY <2>7 DEF Crash, Leaves, repository
    <3>2. runner'[r].step = "idle"
      BY <3>1, LeavesFacts
    <3> QED
      BY <2>4, <3>1, <3>2 DEF Fenced
  <2> QED
    BY <2>2, <2>4, <2>6, <2>7, FencedReads, FencedAsserts, FencedWrites, FencedRepairs,
       FencedMarks DEF Visit
<1>2. (\A r \in Runners : Overtaken(r) /\ runner'[r] # runner[r] => Fenced(r)) <=>
        (\A r \in Runners :
           Overtaken(r) /\ runner'[r] # runner[r] =>
             /\ runner'[r].step \notin WritingSteps
             /\ runner[r].step = "remote" /\ ~Readback => runner'[r].step \in {"failing", "idle"}
             /\ UNCHANGED lease
             /\ runner[r].step \notin WritingSteps =>
                  /\ UNCHANGED watermark
                  /\ \A i \in DOMAIN runs :
                       \/ runs'[i] = runs[i]
                       \/ /\ i = runner[r].run
                          /\ runs'[i] = [runs[i] EXCEPT !.findings = runs'[i].findings])
  BY DEF Fenced
<1> QED
  BY <1>1, <1>2, InitType, TypeStep, FenceInit, FenceStep, PTL DEF Spec, OvertakenRunsAreFenced

-----------------------------------------------------------------------------
(* The clock *)

\* A run under way was opened for the time its runner fixed, no longer ago than
\* the bound on its age.
ClockInv ==
    /\ \A r \in Runners : runner[r].step # "idle" =>
         runner[r].now <= clock /\ clock <= runner[r].now + Lookback + Overlap
    /\ \A r \in Runners : runner[r].run # 0 => runs[runner[r].run].windowEnd = runner[r].now

\* Only a run that begins looks at the clock.
LEMMA ClockRuns ==
    ASSUME TypeInv, [Next]_vars
    PROVE  clock' \in Nat /\ clock <= clock' /\ (clock' = clock \/ Timely(clock'))
<1>0. clock \in Nat
  BY TimeAssumption DEF TypeInv, TypeOK
<1>1. ASSUME NEW r \in Runners, BeginRun(r) PROVE clock' \in clock..MaxTime /\ Timely(clock')
  BY <1>1 DEF BeginRun
<1>2. ASSUME InboxWorker \/ (\E k \in Keys : RemoteChanges(k) \/ Ships(k) \/ Dispatcher(k))
      PROVE  clock' = clock
  BY <1>2 DEF InboxWorker, RemoteChanges, Ships, Dispatcher
<1>3. ASSUME NEW r \in Runners, Visit(r) PROVE clock' = clock
  BY <1>3 DEF Visit, StartRun, StartFirst, StartWrites, ReadLocal, ReadPage, AssertLease,
     PersistFindings, Repair, RepairProcesses, MarkFinding, CountRepairs, CompleteWrites, FailRun
<1>4. ASSUME NEW r \in Runners, RemoteError(r) \/ Crash(r) PROVE clock' = clock
  BY <1>4 DEF RemoteError, Crash
<1>5. CASE UNCHANGED vars
  BY <1>0, <1>5 DEF vars
<1> QED
  BY <1>0, <1>1, <1>2, <1>3, <1>4, <1>5, TimeAssumption DEF Next

LEMMA AtWork ==
    ASSUME TypeInv, NEW r \in Runners, runner[r].run \in DOMAIN runs
    PROVE  runner[r].run # 0 /\ runner[r].step # "idle"
BY LocalFacts, RunsFacts DEF Sound, Apart

LEMMA AllPaced ==
    ASSUME TypeInv, [Next]_vars, NEW s \in Runners
    PROVE  Paced(s)
<1>1. CASE Quiet
  BY <1>1 DEF Quiet
<1>2. ASSUME NEW r \in Runners, Writes(r) \/ Ends(r) PROVE Paced(s)
  <2>1. /\ \A q \in Runners : q # r => runner'[q] = runner[q]
        /\ runner[r].run # 0 /\ runner[r].step # "idle"
        /\ Going(r) \/ runner'[r].step = "idle"
    BY <1>2, RowFrame, AtWork DEF Writes, Ends
  <2> QED
    BY <2>1 DEF Paced, Going
<1>3. ASSUME NEW r \in Runners, OpensNow(r) PROVE Paced(s)
  <2>1. /\ \A q \in Runners : q # r => runner'[q] = runner[q]
        /\ runner'[r].now = runner[r].now
    BY <1>3, OpenFrame
  <2>2. runner[r].step # "idle"
    BY <1>3 DEF OpensNow
  <2> QED
    BY <2>1, <2>2 DEF Paced
<1> QED
  BY <1>1, <1>2, <1>3, StepKinds

LEMMA ClockInit == Init => ClockInv
BY DEF Init, ClockInv, IdleRunner

LEMMA ClockStep == TypeInv /\ ClockInv /\ [Next]_vars => ClockInv'
<1> SUFFICES ASSUME TypeInv, ClockInv, [Next]_vars PROVE ClockInv'
  OBVIOUS
<1>0. clock \in Nat /\ clock' \in Nat /\ clock <= clock' /\ (clock' = clock \/ Timely(clock'))
  BY ClockRuns, TimeAssumption DEF TypeInv, TypeOK
<1>1. ASSUME NEW s \in Runners, runner'[s].step # "idle"
      PROVE  runner'[s].now <= clock' /\ clock' <= runner'[s].now + Lookback + Overlap
  <2>1. runner[s].now \in Nat
    BY LocalFacts, TimeAssumption
  <2>2. CASE runner'[s].now = clock'
    <3>1. \A t \in Nat : t <= t /\ t <= t + Lookback + Overlap
      BY TimeAssumption
    <3> QED
      BY <1>0, <2>2, <3>1
  <2>3. CASE runner[s].step # "idle" /\ runner'[s].now = runner[s].now
    <3>1. /\ runner[s].now <= clock /\ clock <= runner[s].now + Lookback + Overlap
          /\ clock' = clock \/ clock' <= runner[s].now + Lookback + Overlap
      BY <1>0, <2>3 DEF ClockInv, Timely
    <3> QED
      BY <1>0, <2>1, <2>3, <3>1
  <2> QED
    BY <1>1, <2>2, <2>3, AllPaced DEF Paced
<1>2. ASSUME NEW s \in Runners, runner'[s].run # 0
      PROVE  runs'[runner'[s].run].windowEnd = runner'[s].now
  <2> DEFINE Kept == runs'[runner'[s].run].windowEnd = runner'[s].now
  <2>1. ASSUME Quiet PROVE Kept
    BY <1>2, <2>1 DEF Quiet, Going, Deserts, ClockInv
  <2>2. ASSUME NEW r \in Runners, Writes(r) \/ Ends(r) PROVE Kept
    <3>1. /\ \A q \in Runners : q # r => runner'[q] = runner[q]
          /\ \A i \in DOMAIN runs : i # runner[r].run => runs'[i] = runs[i]
          /\ runs'[runner[r].run].windowEnd = runs[runner[r].run].windowEnd
          /\ runner[r].run # 0
          /\ Going(r) \/ runner'[r].run = 0
      BY <2>2, RowFrame, AtWork DEF Writes, Ends
    <3> QED
      BY <1>2, <3>1, LocalFacts DEF Going, ClockInv
  <2>3. ASSUME NEW r \in Runners, OpensNow(r) PROVE Kept
    <3>1. /\ \A q \in Runners : q # r => runner'[q] = runner[q]
          /\ \A i \in DOMAIN runs : runs'[i] = runs[i]
          /\ runs'[Len(runs) + 1].windowEnd = runner[r].now
          /\ runner'[r].run = Len(runs) + 1 /\ runner'[r].now = runner[r].now
      BY <2>3, OpenFrame
    <3> QED
      BY <1>2, <3>1, LocalFacts DEF ClockInv
  <2> QED
    BY <2>1, <2>2, <2>3, StepKinds
<1> QED
  BY <1>1, <1>2 DEF ClockInv

-----------------------------------------------------------------------------
(* The watermark *)

Completed(rs, i) == i \in DOMAIN rs /\ rs[i].status = "completed"

\* A completed run has got as far as t, and one has listed t.
Reached(rs, t) == \E i \in DOMAIN rs : Completed(rs, i) /\ t <= rs[i].windowEnd
Listed(rs, t) == \E i \in DOMAIN rs : /\ Completed(rs, i)
                                      /\ rs[i].windowStart <= t /\ t < rs[i].windowEnd

\* The instants a completed run ends with, or may come to end with.
Ended(rs, rn, time, q) == \/ q = time
                          \/ \E i \in DOMAIN rs : Completed(rs, i) /\ q = rs[i].windowEnd
                          \/ \E r \in Runners : rn[r].step # "idle" /\ q = rn[r].now

\* A run may start where a completed one has been, or before all of them.
Early(rs, rn, time, t) == \A q \in Nat : Ended(rs, rn, time, q) => t <= q
Grounded(rs, rn, time, t) == Reached(rs, t) \/ Early(rs, rn, time, t)

\* Every run starts on such ground, and so the completed ones list all the time
\* from wherever any of them ends to the latest of them.
EnumInv ==
    /\ watermark # Null => Reached(runs, watermark)
    /\ (\E i \in DOMAIN runs : Completed(runs, i)) => watermark # Null
    /\ \A i \in DOMAIN runs : Grounded(runs, runner, clock, runs[i].windowStart)
    /\ \A r \in Runners : runner[r].step = "starting" =>
         Grounded(runs, runner, clock, runner[r].base - Overlap)
    /\ \A i \in DOMAIN runs : Completed(runs, i) =>
         \A q \in Nat : Ended(runs, runner, clock, q) =>
           \A t \in q..(runs[i].windowEnd - 1) : Listed(runs, t)

\* Completed runs stay as they are, and no step brings an end before all there were.
KeepsCompleted ==
    \A i \in DOMAIN runs : Completed(runs, i) =>
      /\ Completed(runs', i) /\ runs'[i].windowStart = runs[i].windowStart
      /\ runs'[i].windowEnd = runs[i].windowEnd
EndsRise == \A q \in Nat : Ended(runs', runner', clock', q) =>
              \E p \in Nat : p <= q /\ Ended(runs, runner, clock, p)

LEMMA ReachedStays ==
    ASSUME KeepsCompleted
    PROVE  /\ \A t \in Int : Reached(runs, t) => Reached(runs', t)
           /\ \A t \in Int : Listed(runs, t) => Listed(runs', t)
BY DEF KeepsCompleted, Reached, Listed, Completed

LEMMA GroundedStays ==
    ASSUME KeepsCompleted, EndsRise, NEW t \in Int, Grounded(runs, runner, clock, t)
    PROVE  Grounded(runs', runner', clock', t)
<1>1. CASE Reached(runs, t)
  BY <1>1, ReachedStays DEF Grounded
<1>2. CASE Early(runs, runner, clock, t)
  <2> SUFFICES ASSUME NEW q \in Nat, Ended(runs', runner', clock', q) PROVE t <= q
    BY DEF Grounded, Early
  <2>1. PICK p \in Nat : p <= q /\ Ended(runs, runner, clock, p)
    BY DEF EndsRise
  <2>2. t <= p
    BY <1>2, <2>1 DEF Early
  <2> QED
    BY <2>1, <2>2
<1> QED
  BY <1>1, <1>2 DEF Grounded

\* Only the end of a run that completes is new, and its runner stood for it.
LEMMA EndsOnlyRise ==
    ASSUME TypeInv, ClockInv, [Next]_vars,
           \A i \in DOMAIN runs' : Completed(runs', i) =>
             \/ Completed(runs, i) /\ runs'[i].windowEnd = runs[i].windowEnd
             \/ \E r \in Runners : /\ runner[r].step # "idle"
                                   /\ runs'[i].windowEnd = runner[r].now
    PROVE  EndsRise
<1> SUFFICES ASSUME NEW q \in Nat, Ended(runs', runner', clock', q)
             PROVE  \E p \in Nat : p <= q /\ Ended(runs, runner, clock, p)
  BY DEF EndsRise
<1>0. clock \in Nat /\ clock <= clock' /\ Ended(runs, runner, clock, clock)
  BY ClockRuns, TimeAssumption DEF TypeInv, TypeOK, Ended
<1>1. CASE q = clock'
  BY <1>0, <1>1
<1>2. ASSUME NEW i \in DOMAIN runs', Completed(runs', i), q = runs'[i].windowEnd
      PROVE  Ended(runs, runner, clock, q)
  BY <1>2 DEF Ended, Completed
<1>3. ASSUME NEW r \in Runners, runner'[r].step # "idle", q = runner'[r].now
      PROVE  q = clock' \/ Ended(runs, runner, clock, q)
  BY <1>3, AllPaced DEF Paced, Ended
<1> QED
  BY <1>0, <1>1, <1>2, <1>3 DEF Ended

LEMMA BaseGrounded ==
    ASSUME TypeInv, ClockInv, EnumInv, NEW r \in Runners, runner[r].step # "idle"
    PROVE  /\ WatermarkBase(r) - Overlap \in Int
           /\ Grounded(runs, runner, clock, WatermarkBase(r) - Overlap)
<1>0. runner[r].now \in Nat /\ Overlap \in Nat /\ Lookback \in Nat /\ clock \in Nat
  BY LocalFacts, TimeAssumption DEF TypeInv, TypeOK
<1>1. CASE watermark = Null
  <2> DEFINE t == runner[r].now - Lookback - Overlap
  <2>1. ASSUME NEW q \in Nat, Ended(runs, runner, clock, q) PROVE t <= q
    <3>1. runner[r].now <= clock
      BY DEF ClockInv
    <3>2. CASE q = clock
      BY <1>0, <3>1, <3>2
    <3>3. ASSUME NEW s \in Runners, runner[s].step # "idle", q = runner[s].now PROVE t <= q
      <4>1. clock <= q + Lookback + Overlap
        BY <3>3 DEF ClockInv
      <4> QED
        BY <1>0, <3>1, <4>1
    <3> QED
      BY <1>1, <2>1, <3>2, <3>3 DEF Ended, EnumInv
  <2>2. WatermarkBase(r) - Overlap = t
    BY <1>1 DEF WatermarkBase
  <2>3. t \in Int /\ Grounded(runs, runner, clock, t)
    BY <1>0, <2>1 DEF Grounded, Early
  <2> QED
    BY <2>2, <2>3
<1>2. CASE watermark # Null
  <2>1. watermark \in Int
    BY <1>2, TimeAssumption DEF TypeInv, TypeOK, Times
  <2>2. Reached(runs, watermark) /\ WatermarkBase(r) = watermark
    BY <1>2 DEF EnumInv, WatermarkBase
  <2>3. \A i \in DOMAIN runs : runs[i].windowEnd \in Int
    BY RunsFacts
  <2> QED
    BY <1>0, <2>1, <2>2, <2>3 DEF Reached, Grounded
<1> QED
  BY <1>1, <1>2

LEMMA EnumInit == Init => EnumInv
BY DEF Init, EnumInv, IdleRunner

\* The ground under runners about to open a first run, and under the watermark.
LEMMA GroundKept ==
    ASSUME TypeInv, ClockInv, EnumInv, KeepsCompleted, EndsRise,
           NEW r \in Runners, runner'[r].step = "starting", Based(r), runner[r].step # "idle"
    PROVE  Grounded(runs', runner', clock', runner'[r].base - Overlap)
<1>1. CASE runner[r].step = "starting" /\ runner'[r].base = runner[r].base
  <2>1. runner[r].base - Overlap \in Int
    BY LocalFacts, TimeAssumption DEF Locals, Times
  <2> QED
    BY <1>1, <2>1, GroundedStays DEF EnumInv
<1>2. CASE runner'[r].base = WatermarkBase(r)
  BY <1>2, BaseGrounded, GroundedStays
<1> QED
  BY <1>1, <1>2 DEF Based

\* What is left to show when no run is completed.
LEMMA NobodyCompletes ==
    ASSUME TypeInv, ClockInv, EnumInv, KeepsCompleted, EndsRise, watermark' = watermark,
           \A i \in DOMAIN runs' : Completed(runs', i) => Completed(runs, i),
           \A i \in DOMAIN runs' : Grounded(runs', runner', clock', runs'[i].windowStart),
           \A r \in Runners : \/ Based(r) /\ runner[r].step # "idle"
                              \/ runner'[r].step # "starting"
    PROVE  EnumInv'
<1>1. watermark' # Null => Reached(runs', watermark')
  <2>1. watermark # Null => watermark \in Int
    BY TimeAssumption DEF TypeInv, TypeOK, Times
  <2> QED
    BY <2>1, ReachedStays DEF EnumInv
<1>2. (\E i \in DOMAIN runs' : Completed(runs', i)) => watermark' # Null
  BY DEF EnumInv, Completed
<1>3. ASSUME NEW r \in Runners, runner'[r].step = "starting"
      PROVE  Grounded(runs', runner', clock', runner'[r].base - Overlap)
  BY <1>3, GroundKept
<1>4. ASSUME NEW i \in DOMAIN runs', Completed(runs', i), NEW q \in Nat,
             Ended(runs', runner', clock', q), NEW t \in q..(runs'[i].windowEnd - 1)
      PROVE  Listed(runs', t)
  <2>1. /\ Completed(runs, i) /\ i \in DOMAIN runs /\ runs'[i].windowEnd = runs[i].windowEnd
        /\ runs[i].windowEnd \in Nat
    BY <1>4, RunsFacts DEF Completed, KeepsCompleted
  <2>2. PICK p \in Nat : p <= q /\ Ended(runs, runner, clock, p)
    BY <1>4 DEF EndsRise
  <2>3. t \in p..(runs[i].windowEnd - 1) /\ t \in Int
    BY <1>4, <2>1, <2>2
  <2> QED
    BY <2>1, <2>2, <2>3, ReachedStays DEF EnumInv
<1> QED
  BY <1>1, <1>2, <1>3, <1>4 DEF EnumInv

\* A run that completes lists its window, which starts on ground.
LEMMA CompletionEnumerates ==
    ASSUME TypeInv, ClockInv, EnumInv, [Next]_vars, NEW r \in Runners, Ends(r),
           RowAfter(r).status = "completed", watermark' = Row(r).windowEnd
    PROVE  EnumInv'
<1> DEFINE i == runner[r].run
<1>0. /\ DOMAIN runs' = DOMAIN runs /\ i \in DOMAIN runs
      /\ \A j \in DOMAIN runs : j # i => runs'[j] = runs[j]
      /\ \A s \in Runners : s # r => runner'[s] = runner[s]
      /\ runs'[i].status = "completed" /\ runs'[i].windowStart = runs[i].windowStart
      /\ runs'[i].windowEnd = runs[i].windowEnd /\ watermark' = runs[i].windowEnd
      /\ runner'[r].step = "idle"
      /\ runner[r].step # "idle" /\ runs[i].windowEnd = runner[r].now
  BY RowFrame, AtWork DEF Ends, ClockInv
<1> HIDE DEF i
<1>1. KeepsCompleted
  BY <1>0 DEF KeepsCompleted, Completed
<1>2. EndsRise
  BY <1>0, EndsOnlyRise DEF Completed
<1>3. Completed(runs', i) /\ runs[i].windowEnd \in Nat /\ runs[i].windowStart \in Int
  BY <1>0, RunsFacts DEF Completed
<1>4. watermark' # Null => Reached(runs', watermark')
  BY <1>0, <1>3 DEF Reached, Completed
<1>5. watermark' # Null
  BY <1>0, <1>3, NullAssumption
<1>6. ASSUME NEW j \in DOMAIN runs'
      PROVE  Grounded(runs', runner', clock', runs'[j].windowStart)
  <2>1. /\ runs'[j].windowStart = runs[j].windowStart /\ runs[j].windowStart \in Int
        /\ Grounded(runs, runner, clock, runs[j].windowStart)
    BY <1>0, <1>6, RunsFacts DEF EnumInv
  <2> QED
    BY <1>1, <1>2, <2>1, GroundedStays
<1>7. ASSUME NEW s \in Runners, runner'[s].step = "starting"
      PROVE  Grounded(runs', runner', clock', runner'[s].base - Overlap)
  <2>1. runner'[s] = runner[s]
    BY <1>0, <1>7
  <2>2. runner[s].base - Overlap \in Int
    BY LocalFacts, TimeAssumption DEF Locals, Times
  <2> QED
    BY <1>1, <1>2, <1>7, <2>1, <2>2, GroundedStays DEF EnumInv
<1>8. ASSUME NEW p \in Nat, Ended(runs, runner, clock, p), NEW t \in p..(runs[i].windowEnd - 1)
      PROVE  Listed(runs', t)
  <2>1. CASE runs[i].windowStart <= t
    BY <1>0, <1>3, <1>8, <2>1 DEF Listed
  <2>2. CASE t < runs[i].windowStart
    <3>1. ~Early(runs, runner, clock, runs[i].windowStart)
      BY <1>3, <1>8, <2>2 DEF Early
    <3>2. PICK k \in DOMAIN runs : Completed(runs, k) /\ runs[i].windowStart <= runs[k].windowEnd
      BY <1>0, <3>1 DEF EnumInv, Grounded, Reached
    <3>3. t \in p..(runs[k].windowEnd - 1) /\ t \in Int
      BY <1>3, <1>8, <2>2, <3>2, RunsFacts
    <3> QED
      BY <1>1, <1>8, <3>2, <3>3, ReachedStays DEF EnumInv
  <2> QED
    BY <1>3, <1>8, <2>1, <2>2
<1>9. ASSUME NEW j \in DOMAIN runs', Completed(runs', j), NEW q \in Nat,
             Ended(runs', runner', clock', q), NEW t \in q..(runs'[j].windowEnd - 1)
      PROVE  Listed(runs', t)
  <2>1. PICK p \in Nat : p <= q /\ Ended(runs, runner, clock, p)
    BY <1>2, <1>9 DEF EndsRise
  <2>2. CASE j = i
    <3>1. t \in p..(runs[i].windowEnd - 1)
      BY <1>0, <1>3, <1>9, <2>1, <2>2
    <3> QED
      BY <1>8, <2>1, <3>1
  <2>3. CASE j # i
    <3>1. Completed(runs, j) /\ j \in DOMAIN runs /\ runs'[j] = runs[j] /\ runs[j].windowEnd \in Nat
      BY <1>0, <1>9, <2>3, RunsFacts DEF Completed
    <3>2. t \in p..(runs[j].windowEnd - 1) /\ t \in Int
      BY <1>9, <2>1, <3>1
    <3> QED
      BY <1>1, <2>1, <3>1, <3>2, ReachedStays DEF EnumInv
  <2> QED
    BY <2>2, <2>3
<1> QED
  BY <1>4, <1>5, <1>6, <1>7, <1>9 DEF EnumInv

LEMMA EnumStep == TypeInv /\ LiveInv /\ ClockInv /\ EnumInv /\ [Next]_vars => EnumInv'
<1> SUFFICES ASSUME TypeInv, LiveInv, ClockInv, EnumInv, [Next]_vars PROVE EnumInv'
  OBVIOUS
<1>0. \A i \in DOMAIN runs : /\ Grounded(runs, runner, clock, runs[i].windowStart)
                             /\ runs[i].windowStart \in Int
  BY RunsFacts DEF EnumInv
<1>1. CASE Quiet
  <2>1. KeepsCompleted /\ watermark' = watermark /\ runs' = runs
    BY <1>1 DEF Quiet, KeepsCompleted, Completed
  <2>2. \A i \in DOMAIN runs' : Completed(runs', i) => Completed(runs, i)
    BY <2>1 DEF Completed
  <2>3. EndsRise
    BY <2>1, EndsOnlyRise
  <2>4. \A i \in DOMAIN runs' : Grounded(runs', runner', clock', runs'[i].windowStart)
    BY <1>0, <2>1, <2>3, GroundedStays
  <2>5. ASSUME NEW s \in Runners, runner'[s].step = "starting"
        PROVE  Based(s) /\ runner[s].step # "idle"
    BY <1>1, <2>5 DEF Quiet, Based
  <2> QED
    BY <2>1, <2>2, <2>3, <2>4, <2>5, NobodyCompletes
<1>2. ASSUME NEW r \in Runners, Writes(r) \/ (Ends(r) /\ RowAfter(r).status # "completed")
      PROVE  EnumInv'
  <2>1. /\ DOMAIN runs' = DOMAIN runs /\ watermark' = watermark
        /\ runner[r].run \in DOMAIN runs /\ runner'[r].step # "starting"
        /\ \A j \in DOMAIN runs : j # runner[r].run => runs'[j] = runs[j]
        /\ \A s \in Runners : s # r => runner'[s] = runner[s]
        /\ runs'[runner[r].run] = RowAfter(r) /\ runs[runner[r].run] = Row(r)
    BY <1>2, RowFrame DEF Writes, Ends
  <2>2. /\ RowAfter(r).windowStart = Row(r).windowStart /\ RowAfter(r).windowEnd = Row(r).windowEnd
        /\ \/ RowAfter(r).status = Row(r).status
           \/ RowAfter(r).status = "failed" /\ Row(r).status = "running"
    BY <1>2, <2>1, AtWork DEF Writes, Ends, LiveInv
  <2>3. KeepsCompleted
    BY <2>1, <2>2 DEF KeepsCompleted, Completed
  <2>4. \A i \in DOMAIN runs' : Completed(runs', i) =>
          Completed(runs, i) /\ runs'[i].windowEnd = runs[i].windowEnd
    BY <2>1, <2>2 DEF Completed
  <2>5. EndsRise
    BY <2>4, EndsOnlyRise
  <2>6. \A i \in DOMAIN runs' : runs'[i].windowStart = runs[i].windowStart
    BY <2>1, <2>2
  <2>7. \A i \in DOMAIN runs' : Grounded(runs', runner', clock', runs'[i].windowStart)
    BY <1>0, <2>1, <2>3, <2>5, <2>6, GroundedStays
  <2>8. \A s \in Runners : \/ Based(s) /\ runner[s].step # "idle"
                           \/ runner'[s].step # "starting"
    BY <2>1 DEF Based
  <2> QED
    BY <2>1, <2>3, <2>4, <2>5, <2>7, <2>8, NobodyCompletes
<1>3. ASSUME NEW r \in Runners, OpensNow(r) PROVE EnumInv'
  <2>1. PICK base \in Int :
             /\ base = WatermarkBase(r) \/ (runner[r].step = "starting" /\ base = runner[r].base)
             /\ DOMAIN runs' = 1..(Len(runs) + 1)
             /\ \A i \in DOMAIN runs : runs'[i] = runs[i]
             /\ runs'[Len(runs) + 1].status = "running"
             /\ runs'[Len(runs) + 1].windowStart = base - Overlap
             /\ runner'[r].step = "local"
             /\ \A s \in Runners : s # r => runner'[s] = runner[s]
             /\ watermark' = watermark
    BY <1>3, OpenFrame
  <2>2. DOMAIN runs' = DOMAIN runs \cup {Len(runs) + 1}
    BY <2>1, RunsFacts
  <2>3. KeepsCompleted
    BY <2>1, <2>2 DEF KeepsCompleted, Completed
  <2>4. \A i \in DOMAIN runs' : Completed(runs', i) =>
          Completed(runs, i) /\ runs'[i].windowEnd = runs[i].windowEnd
    BY <2>1, <2>2 DEF Completed
  <2>5. EndsRise
    BY <2>4, EndsOnlyRise
  <2>6. runner[r].step # "idle"
    BY <1>3 DEF OpensNow
  <2>7. base - Overlap \in Int /\ Grounded(runs, runner, clock, base - Overlap)
    BY <2>1, <2>6, BaseGrounded, TimeAssumption DEF EnumInv
  <2>8. \A i \in DOMAIN runs' : Grounded(runs', runner', clock', runs'[i].windowStart)
    BY <1>0, <2>1, <2>2, <2>3, <2>5, <2>7, GroundedStays
  <2>9. \A s \in Runners : \/ Based(s) /\ runner[s].step # "idle"
                           \/ runner'[s].step # "starting"
    BY <2>1 DEF Based
  <2> QED
    BY <2>1, <2>3, <2>4, <2>5, <2>8, <2>9, NobodyCompletes
<1>4. ASSUME NEW r \in Runners, Ends(r), RowAfter(r).status = "completed" PROVE EnumInv'
  BY <1>4, CompletionEnumerates DEF Ends
<1> QED
  BY <1>1, <1>2, <1>3, <1>4, StepKinds

\* However runs overtake each other, the watermark only passes time that some
\* completed run has listed.
THEOREM WatermarkIsEnumeratedCorrect == Spec => []WatermarkIsEnumerated
<1>1. TypeInv /\ EnumInv => WatermarkIsEnumerated
  <2> SUFFICES ASSUME TypeInv, EnumInv, NEW i \in DOMAIN runs, runs[i].status = "completed",
                      NEW t \in runs[i].windowEnd..(watermark - 1)
               PROVE  Listed(runs, t)
    BY DEF WatermarkIsEnumerated, Listed, Completed
  <2>1. watermark # Null /\ Reached(runs, watermark)
    BY DEF EnumInv, Completed
  <2>2. watermark \in Int /\ runs[i].windowEnd \in Nat
    BY <2>1, RunsFacts, TimeAssumption DEF TypeInv, TypeOK, Times
  <2>3. PICK k \in DOMAIN runs : Completed(runs, k) /\ watermark <= runs[k].windowEnd
    BY <2>1 DEF Reached
  <2>4. Ended(runs, runner, clock, runs[i].windowEnd)
    BY DEF Ended, Completed
  <2>5. t \in runs[i].windowEnd..(runs[k].windowEnd - 1)
    BY <2>2, <2>3, RunsFacts
  <2> QED
    BY <2>2, <2>3, <2>4, <2>5 DEF EnumInv
<1> QED
  BY <1>1, InitType, TypeStep, DistinctInit, DistinctStep, LiveInit, LiveStep, ClockInit,
     ClockStep, EnumInit, EnumStep, PTL DEF Spec

-----------------------------------------------------------------------------
(* Abandoned runs *)

\* Runs that are running without the lease, and the run that has it with nobody
\* left to finish it.
Dispossessed == {i \in DOMAIN runs : /\ runs[i].status = "running"
                                     /\ ~(lease # Null /\ lease.owner = i)}
Orphaned == /\ lease # Null /\ runs[lease.owner].status = "running"
            /\ \A r \in Runners : runner[r].run # lease.owner

\* Every takeover dispossesses one run, and orphans are left by crashes.
AbandonInv == /\ Cardinality(Dispossessed) <= takeovers
              /\ Orphaned => crashes >= 1

LEMMA DispossessedType ==
    ASSUME TypeInv
    PROVE  IsFiniteSet(Dispossessed) /\ Cardinality(Dispossessed) \in Nat
<1>1. Dispossessed \subseteq 1..Len(runs) /\ Len(runs) \in Nat
  BY RunsFacts DEF Dispossessed
<1>2. IsFiniteSet(1..Len(runs))
  BY <1>1, FS_Interval
<1> QED
  BY <1>1, <1>2, FS_Subset, FS_CardinalityType

LEMMA LeaseOwnerKnown ==
    ASSUME TypeInv, FenceInv, lease # Null
    PROVE  lease.owner \in DOMAIN runs
<1>1. lease.owner = Len(runs) /\ lease.owner >= 1
  BY BoundsAssumption DEF FenceInv, TypeInv, TypeOK, RunIds
<1> QED
  BY <1>1, RunsFacts

LEMMA AbandonInit == Init => AbandonInv
<1> SUFFICES ASSUME Init PROVE AbandonInv
  OBVIOUS
<1>1. Dispossessed = {} /\ ~Orphaned /\ takeovers = 0
  BY DEF Init, Dispossessed, Orphaned
<1> QED
  BY <1>1, FS_EmptySet DEF AbandonInv

\* No more runs than before are without their lease.
LEMMA FewerDispossessed ==
    ASSUME TypeInv, AbandonInv, Dispossessed' \subseteq Dispossessed,
           takeovers' = takeovers, Orphaned' => crashes' >= 1
    PROVE  AbandonInv'
<1>1. Cardinality(Dispossessed') <= Cardinality(Dispossessed) /\ IsFiniteSet(Dispossessed')
  BY DispossessedType, FS_Subset
<1>2. Cardinality(Dispossessed') \in Nat /\ takeovers \in Nat /\ Cardinality(Dispossessed) \in Nat
  BY <1>1, DispossessedType, FS_CardinalityType DEF TypeInv, TypeOK
<1> QED
  BY <1>1, <1>2 DEF AbandonInv

LEMMA QuietAbandons ==
    ASSUME TypeInv, TypeInv', FenceInv, AbandonInv, Quiet
    PROVE  AbandonInv'
<1>1. Dispossessed' = Dispossessed /\ takeovers' = takeovers
  BY DEF Quiet, Dispossessed
<1>2. crashes \in Nat /\ crashes' \in Nat /\ crashes' >= crashes
  BY DEF Quiet, TypeInv, TypeOK
<1>3. ASSUME Orphaned' PROVE crashes' >= 1
  <2>1. /\ lease # Null /\ runs[lease.owner].status = "running"
        /\ \A r \in Runners : runner'[r].run # lease.owner
    BY <1>3 DEF Orphaned, Quiet
  <2>2. CASE Orphaned
    BY <1>2, <2>2 DEF AbandonInv, Quiet
  <2>3. ASSUME NEW r \in Runners, runner[r].run = lease.owner PROVE crashes' >= 1
    <3>1. Deserts(r)
      BY <2>1, <2>3 DEF Quiet, Going
    <3>2. Owns(r)
      BY <2>1, <2>3 DEF FenceInv, Owns
    <3> QED
      BY <1>2, <3>1, <3>2 DEF Deserts
  <2> QED
    BY <2>1, <2>2, <2>3 DEF Orphaned
<1> QED
  BY <1>1, <1>3, FewerDispossessed

LEMMA WritingAbandons ==
    ASSUME TypeInv, FenceInv, AbandonInv, NEW r \in Runners, Writes(r) \/ Ends(r)
    PROVE  AbandonInv'
<1> DEFINE i == runner[r].run
<1>1. /\ DOMAIN runs' = DOMAIN runs /\ i \in DOMAIN runs
      /\ \A j \in DOMAIN runs : j # i => runs'[j] = runs[j]
      /\ \A s \in Runners : s # r => runner'[s] = runner[s]
      /\ takeovers' = takeovers /\ crashes' = crashes
  BY RowFrame DEF Writes, Ends
<1>2. CASE Writes(r)
  <2>1. /\ runs'[i].status = runs[i].status /\ lease' = lease
        /\ runner'[r].run = runner[r].run
    BY <1>2, RowFrame DEF Writes, Going
  <2>2. Dispossessed' = Dispossessed
    BY <1>1, <2>1 DEF Dispossessed
  <2>3. Orphaned' => Orphaned
    BY <1>1, <2>1, LeaseOwnerKnown DEF Orphaned
  <2> QED
    BY <1>1, <2>2, <2>3, FewerDispossessed DEF AbandonInv
<1>3. CASE Ends(r)
  <2>1. /\ runs'[i].status # "running" /\ lease' = Released(r)
    BY <1>3, RowFrame DEF Ends
  <2>2. Dispossessed' \subseteq Dispossessed
    BY <1>1, <2>1 DEF Dispossessed, Released
  <2>3. Orphaned' => Orphaned
    BY <1>1, <2>1, LeaseOwnerKnown DEF Orphaned, Released
  <2> QED
    BY <1>1, <2>2, <2>3, FewerDispossessed DEF AbandonInv
<1> QED
  BY <1>2, <1>3

LEMMA OpeningAbandons ==
    ASSUME TypeInv, AbandonInv, NEW r \in Runners, OpensNow(r)
    PROVE  AbandonInv'
<1>1. /\ DOMAIN runs' = 1..(Len(runs) + 1) /\ DOMAIN runs = 1..Len(runs) /\ Len(runs) \in Nat
      /\ \A j \in DOMAIN runs : runs'[j] = runs[j]
      /\ runner'[r].run = Len(runs) + 1
      /\ lease' = [owner |-> Len(runs) + 1, until |-> runner[r].now + LeaseDuration]
      /\ takeovers' = takeovers + (IF lease = Null THEN 0 ELSE 1)
  BY OpenFrame, RunsFacts
<1>2. lease'.owner = Len(runs) + 1 /\ lease' # Null /\ takeovers \in Nat
  <2>1. lease' \in [owner : Nat, until : Nat]
    BY <1>1, LocalFacts, TimeAssumption
  <2> QED
    BY <1>1, <2>1, NullAssumption DEF TypeInv, TypeOK
<1>3. ~Orphaned'
  BY <1>1, <1>2 DEF Orphaned
<1>5. CASE lease = Null
  <2>1. Dispossessed' \subseteq Dispossessed
    BY <1>1, <1>2, <1>5 DEF Dispossessed
  <2> QED
    BY <1>1, <1>2, <1>3, <1>5, <2>1, FewerDispossessed
<1>6. CASE lease # Null
  <2>1. Dispossessed' \subseteq Dispossessed \cup {lease.owner}
    BY <1>1, <1>2, <1>6 DEF Dispossessed
  <2>2. /\ IsFiniteSet(Dispossessed \cup {lease.owner})
        /\ Cardinality(Dispossessed \cup {lease.owner}) <= Cardinality(Dispossessed) + 1
    BY DispossessedType, FS_AddElement
  <2>3. Cardinality(Dispossessed') <= Cardinality(Dispossessed \cup {lease.owner})
    BY <2>1, <2>2, FS_Subset
  <2>4. /\ Cardinality(Dispossessed') \in Nat /\ Cardinality(Dispossessed) \in Nat
        /\ Cardinality(Dispossessed \cup {lease.owner}) \in Nat
    BY <2>1, <2>2, DispossessedType, FS_Subset, FS_CardinalityType
  <2>5. takeovers' = takeovers + 1
    BY <1>1, <1>6
  <2> QED
    BY <1>2, <1>3, <2>2, <2>3, <2>4, <2>5 DEF AbandonInv
<1> QED
  BY <1>5, <1>6

LEMMA AbandonStep == TypeInv /\ FenceInv /\ AbandonInv /\ [Next]_vars => AbandonInv'
BY TypeStep, StepKinds, QuietAbandons, WritingAbandons, OpeningAbandons

\* A run that stays running for good has cost a crash or a takeover.
THEOREM AbandonedRunsPaidForCorrect == Spec => []AbandonedRunsPaidFor
<1>1. TypeInv /\ AbandonInv => AbandonedRunsPaidFor
  <2> SUFFICES ASSUME TypeInv, AbandonInv PROVE AbandonedRunsPaidFor
    OBVIOUS
  <2> DEFINE abandoned == {i \in DOMAIN runs : /\ runs[i].status = "running"
                                               /\ \A r \in Runners : runner[r].run # i}
  <2>0. takeovers \in Nat /\ crashes \in Nat /\ Cardinality(Dispossessed) \in Nat
    BY DispossessedType DEF TypeInv, TypeOK
  <2>1. CASE Orphaned
    <3>1. abandoned \subseteq Dispossessed \cup {lease.owner}
      BY DEF Dispossessed
    <3>2. /\ IsFiniteSet(Dispossessed \cup {lease.owner})
          /\ Cardinality(Dispossessed \cup {lease.owner}) <= Cardinality(Dispossessed) + 1
      BY DispossessedType, FS_AddElement
    <3>3. Cardinality(abandoned) <= Cardinality(Dispossessed \cup {lease.owner})
      BY <3>1, <3>2, FS_Subset
    <3>4. /\ Cardinality(abandoned) \in Nat
          /\ Cardinality(Dispossessed \cup {lease.owner}) \in Nat
      BY <3>1, <3>2, FS_Subset, FS_CardinalityType
    <3> HIDE DEF abandoned
    <3>5. Cardinality(abandoned) <= crashes + takeovers
      BY <2>0, <2>1, <3>2, <3>3, <3>4 DEF AbandonInv
    <3> QED
      BY <3>5 DEF AbandonedRunsPaidFor, abandoned
  <2>2. CASE ~Orphaned
    <3>1. abandoned \subseteq Dispossessed
      BY <2>2 DEF Dispossessed, Orphaned
    <3>2. Cardinality(abandoned) <= Cardinality(Dispossessed) /\ Cardinality(abandoned) \in Nat
      BY <3>1, DispossessedType, FS_Subset, FS_CardinalityType
    <3> HIDE DEF abandoned
    <3>3. Cardinality(abandoned) <= crashes + takeovers
      BY <2>0, <3>2 DEF AbandonInv
    <3> QED
      BY <3>3 DEF AbandonedRunsPaidFor, abandoned
  <2> QED
    BY <2>1, <2>2
<1> QED
  BY <1>1, InitType, TypeStep, FenceInit, FenceStep, AbandonInit, AbandonStep, PTL DEF Spec

-----------------------------------------------------------------------------
(* What a run has on record *)

\* The row of a run counts its findings, of which there is one per key.
Repaired(findings) == {f \in findings : f.status = "auto_repaired"}
ForReview(findings) == {f \in findings : f.action = "review"}
Tallied(row) == /\ \A f, g \in row.findings : f.key = g.key => f = g
                /\ \A f \in row.findings : f.status = "repairable" => f.action = "repair"
                /\ IsFiniteSet(row.findings)
                /\ row.detected = Cardinality(row.findings)
                /\ row.manual = Cardinality(ForReview(row.findings))

\* Nothing is left to repair, and what was repaired is counted.
Settled(row) == /\ Tallied(row) /\ Repairable(row.findings) = {}
                /\ row.repaired = Cardinality(Repaired(row.findings))

\* Row and locals of a run that is not over, by where its runner stands.
Exact(row, l) ==
    /\ l.step \in {"local", "remote", "persist", "persisting"} =>
         row.detected = 0 /\ row.manual = 0 /\ row.repaired = 0 /\ l.repaired = 0
    /\ l.step \in {"repair", "process", "mark", "count", "counting"} =>
         /\ Tallied(row) /\ row.repaired = 0 /\ l.repaired = Cardinality(Repaired(row.findings))
         /\ l.todo = Repairable(row.findings)
    /\ l.step \in {"process", "mark"} => l.todo # {}
    /\ l.step \in {"count", "counting"} => l.todo = {}
    /\ l.step \in {"complete", "commit"} => Settled(row)

ExactInv ==
    /\ \A r \in Runners : runner[r].run # 0 =>
         /\ runs[runner[r].run].status # "completed"
         /\ Exact(runs[runner[r].run], runner[r])
    /\ \A i \in DOMAIN runs : runs[i].status = "completed" => Settled(runs[i])

\* A run that was reported completed or failed never changes again: neither a runner
\* that marks a finding, by its id and without the lease, nor one whose run was taken
\* over writes to a run that is over.
RunsAreFinal ==
    [][\A i \in DOMAIN runs :
         runs[i].status # "running" => i \in DOMAIN runs' /\ runs'[i] = runs[i]]_runs

\* What operators have read of a run that is over stays true.
THEOREM RunsAreFinalCorrect == Spec => RunsAreFinal
<1>1. TypeInv /\ LiveInv /\ [Next]_vars =>
        [\A i \in DOMAIN runs :
           runs[i].status # "running" => i \in DOMAIN runs' /\ runs'[i] = runs[i]]_runs
  <2> SUFFICES ASSUME TypeInv, LiveInv, [Next]_vars, runs' # runs, NEW i \in DOMAIN runs,
                      runs[i].status # "running"
               PROVE  i \in DOMAIN runs' /\ runs'[i] = runs[i]
    OBVIOUS
  <2>1. ~Quiet
    BY DEF Quiet
  <2> QED
    BY <2>1, LiveKinds
<1> QED
  BY <1>1, InitType, TypeStep, DistinctInit, DistinctStep, LiveInit, LiveStep, PTL
     DEF Spec, RunsAreFinal

LEMMA ExactInit == Init => ExactInv
BY DEF Init, ExactInv, IdleRunner

\* A step of a runner in a run touches the row of that run at most.
LEMMA ExactFrame ==
    ASSUME TypeInv, DistinctInv, ExactInv, NEW r \in Runners, Alone(r),
           runner[r].run \in DOMAIN runs, runs' = runs \/ RowAlone(r),
           runner'[r].run \in {0, runner[r].run},
           runner'[r].run # 0 =>
             RowAfter(r).status # "completed" /\ Exact(RowAfter(r), runner'[r]),
           RowAfter(r).status = "completed" => Settled(RowAfter(r))
    PROVE  ExactInv'
<1> DEFINE i == runner[r].run
<1>1. /\ DOMAIN runs' = DOMAIN runs /\ runs'[i] = RowAfter(r)
      /\ \A j \in DOMAIN runs : j # i => runs'[j] = runs[j]
      /\ \A s \in Runners : s # r => runner'[s] = runner[s]
  <2>1. CASE RowAlone(r)
    BY <2>1, RowFrame
  <2>2. CASE runs' = runs
    BY <2>2 DEF RowAfter, Alone, TypeInv, TypeOK
  <2> QED
    BY <2>1, <2>2
<1>2. i # 0
  BY AtWork
<1>3. ASSUME NEW s \in Runners, runner'[s].run # 0
      PROVE  /\ runs'[runner'[s].run].status # "completed"
             /\ Exact(runs'[runner'[s].run], runner'[s])
  <2>1. CASE s = r
    BY <1>1, <1>3, <2>1
  <2>2. CASE s # r
    <3>1. runner'[s] = runner[s] /\ runner[s].run # i /\ runner[s].run \in DOMAIN runs
      BY <1>1, <1>2, <1>3, <2>2, LocalFacts DEF DistinctInv
    <3>2. runs'[runner[s].run] = runs[runner[s].run]
      BY <1>1, <3>1
    <3>3. runs[runner[s].run].status # "completed" /\ Exact(runs[runner[s].run], runner[s])
      BY <1>3, <3>1 DEF ExactInv
    <3> QED
      BY <3>1, <3>2, <3>3
  <2> QED
    BY <2>1, <2>2
<1>4. ASSUME NEW j \in DOMAIN runs', runs'[j].status = "completed" PROVE Settled(runs'[j])
  BY <1>1, <1>4 DEF ExactInv
<1> QED
  BY <1>3, <1>4 DEF ExactInv

\* A runner that is in no run does nothing to one.
LEMMA ExactOutside ==
    ASSUME TypeInv, ExactInv, NEW r \in Runners, Alone(r), UNCHANGED runs, runner'[r].run = 0
    PROVE  ExactInv'
<1>1. \A s \in Runners : s # r => runner'[s] = runner[s]
  BY DEF Alone, TypeInv, TypeOK
<1> QED
  BY <1>1 DEF ExactInv

LEMMA OpensExact ==
    ASSUME TypeInv, ExactInv, NEW r \in Runners, OpensNow(r)
    PROVE  ExactInv'
<1>1. PICK base \in Times : base >= 0 - Lookback /\ Opens(r, base)
  <2>1. WatermarkBase(r) \in Times /\ WatermarkBase(r) >= 0 - Lookback
    BY LocalFacts, TimeAssumption DEF WatermarkBase, TypeInv, TypeOK, Times
  <2>2. runner[r].base \in Times /\ runner[r].base >= 0 - Lookback
    BY LocalFacts DEF Sound, Locals
  <2> QED
    BY <2>1, <2>2 DEF OpensNow
<1>2. /\ DOMAIN runs = 1..Len(runs) /\ DOMAIN runs' = 1..(Len(runs) + 1) /\ Len(runs) \in Nat
      /\ \A i \in DOMAIN runs : runs'[i] = runs[i]
      /\ runs'[Len(runs) + 1] =
                [status |-> "running", windowStart |-> base - Overlap,
                 windowEnd |-> runner[r].now, findings |-> {},
                 detected |-> 0, repaired |-> 0, manual |-> 0]
      /\ Alone(r) /\ runner'[r].step = "local" /\ runner'[r].run = Len(runs) + 1
      /\ Goes(r, Len(runs) + 1, "local") /\ Len(runs) + 1 \in RunIds
  BY <1>1, OpensFacts DEF Opens
<1>3. runner'[r].repaired = 0
  BY <1>2, GoesFacts DEF Steps, Apart
<1>4. \A s \in Runners : s # r => runner'[s] = runner[s]
  BY <1>2 DEF Alone, TypeInv, TypeOK
<1>5. /\ runs'[Len(runs) + 1].status = "running" /\ runs'[Len(runs) + 1].detected = 0
      /\ runs'[Len(runs) + 1].repaired = 0 /\ runs'[Len(runs) + 1].manual = 0
  BY <1>2
<1>6. ASSUME NEW s \in Runners, runner'[s].run # 0
      PROVE  /\ runs'[runner'[s].run].status # "completed"
             /\ Exact(runs'[runner'[s].run], runner'[s])
  <2>1. CASE s = r
    BY <1>2, <1>3, <1>5, <2>1 DEF Exact
  <2>2. CASE s # r
    BY <1>2, <1>4, <1>6, <2>2, LocalFacts DEF ExactInv
  <2> QED
    BY <2>1, <2>2
<1>7. ASSUME NEW j \in DOMAIN runs', runs'[j].status = "completed" PROVE Settled(runs'[j])
  <2>1. j \in DOMAIN runs
    BY <1>2, <1>5, <1>7
  <2> QED
    BY <1>2, <1>7, <2>1 DEF ExactInv
<1> QED
  BY <1>6, <1>7 DEF ExactInv

\* What the invariant says of a runner at work.
LEMMA ExactAtWork ==
    ASSUME TypeInv, ExactInv, NEW r \in Runners, runner[r].step \notin Apart
    PROVE  /\ Exact(Row(r), runner[r]) /\ Row(r).status # "completed"
           /\ runner[r].run \in DOMAIN runs /\ Row(r) \in Run /\ runner[r].run \in RunIds
BY WorkFacts, LocalFacts DEF ExactInv, Row

LEMMA GoesExact ==
    ASSUME TypeInv, DistinctInv, ExactInv, NEW r \in Runners, runner[r].step \notin Apart,
           UNCHANGED runs, NEW step \in {"failing", "complete"},
           Goes(r, runner[r].run, step), step # "failing" => Settled(Row(r))
    PROVE  ExactInv'
<1>1. Exact(Row(r), runner[r]) /\ Row(r).status # "completed" /\ runner[r].run \in DOMAIN runs
  BY ExactAtWork
<1>2. Alone(r) /\ runner'[r].step = step /\ runner'[r].run = runner[r].run
  BY ExactAtWork, GoesFacts DEF Steps, Apart
<1>3. RowAfter(r) = Row(r)
  BY DEF RowAfter, Row
<1>4. Exact(Row(r), runner'[r])
  BY <1>2 DEF Exact
<1> QED
  BY <1>1, <1>2, <1>3, <1>4, ExactFrame

LEMMA AttemptedExact ==
    ASSUME TypeInv, DistinctInv, ExactInv, NEW r \in Runners,
           runner[r].step \in {"repair", "process"}, UNCHANGED runs, NEW success \in BOOLEAN,
           NEW step \in {"process", "mark", "count", "failing"}, Attempted(r, success, step),
           step \in {"process", "mark"} => runner[r].todo # {},
           step = "count" => runner[r].todo = {}
    PROVE  ExactInv'
<1>0. runner[r].step \notin Apart
  BY DEF Apart
<1>1. Exact(Row(r), runner[r]) /\ Row(r).status # "completed" /\ runner[r].run \in DOMAIN runs
  BY <1>0, ExactAtWork
<1>2. /\ Alone(r) /\ runner'[r].step = step /\ runner'[r].run = runner[r].run
      /\ runner'[r].todo = runner[r].todo /\ runner'[r].repaired = runner[r].repaired
  BY <1>0, AttemptedFacts
<1>3. RowAfter(r) = Row(r)
  BY DEF RowAfter, Row
<1>4. Exact(Row(r), runner'[r])
  BY <1>1, <1>2 DEF Exact
<1> QED
  BY <1>1, <1>2, <1>3, <1>4, ExactFrame

LEMMA ReadExact ==
    ASSUME TypeInv, DistinctInv, ExactInv, NEW r \in Runners,
           ReadLocal(r) \/ ReadPage(r) \/ RemoteError(r)
    PROVE  ExactInv'
<1>0. /\ runner[r].step \in {"local", "remote"} /\ runner[r].step \notin Apart /\ runs' = runs
  BY DEF ReadLocal, ReadPage, RemoteError, repository, Apart
<1>1. CASE Goes(r, runner[r].run, "failing")
  BY <1>0, <1>1, GoesExact
<1>2. Exact(Row(r), runner[r]) /\ Row(r).status # "completed" /\ runner[r].run \in DOMAIN runs
  BY <1>0, ExactAtWork
<1>3. RowAfter(r) = Row(r)
  BY <1>0 DEF RowAfter, Row
<1>4. ASSUME NEW ours, NEW unread, NEW theirs, NEW step \in {"persist", "remote"},
             runner' = [runner EXCEPT ![r] = [runner[r] EXCEPT
               !.ours = ours, !.unread = unread, !.theirs = theirs, !.step = step]]
      PROVE  ExactInv'
  <2> DEFINE l == [runner[r] EXCEPT
                     !.ours = ours, !.unread = unread, !.theirs = theirs, !.step = step]
  <2>1. runner'[r] = l /\ Alone(r)
    BY <1>4 DEF Alone, TypeInv, TypeOK
  <2>2. l.run = runner[r].run /\ l.step = step /\ l.repaired = runner[r].repaired
    BY LocalFacts DEF Locals
  <2>3. Exact(Row(r), runner'[r])
    BY <1>0, <1>2, <2>1, <2>2 DEF Exact
  <2> QED
    BY <1>0, <1>2, <1>3, <2>1, <2>2, <2>3, ExactFrame
<1>5. CASE ReadLocal(r)
  <2>1. [runner[r] EXCEPT !.step = "remote", !.ours = local, !.unread = Keys]
          = [runner[r] EXCEPT !.ours = local, !.unread = Keys,
                              !.theirs = runner[r].theirs, !.step = "remote"]
    BY LocalFacts DEF Locals
  <2>2. runner' = [runner EXCEPT ![r] = [runner[r] EXCEPT
          !.ours = local, !.unread = Keys, !.theirs = runner[r].theirs, !.step = "remote"]]
    BY <1>5, <2>1 DEF ReadLocal
  <2> QED
    BY <1>4, <2>2
<1>6. ASSUME ReadPage(r), ~Goes(r, runner[r].run, "failing") PROVE ExactInv'
  <2>1. PICK k \in runner[r].unread : runner' = [runner EXCEPT ![r] = [runner[r] EXCEPT
                !.unread = runner[r].unread \ {k},
                !.theirs = [runner[r].theirs EXCEPT ![k] = remote[k]],
                !.step = IF runner[r].unread = {k} THEN "persist" ELSE "remote"]]
    BY <1>6 DEF ReadPage
  <2> DEFINE unread == runner[r].unread \ {k}
             theirs == [runner[r].theirs EXCEPT ![k] = remote[k]]
             step == IF runner[r].unread = {k} THEN "persist" ELSE "remote"
  <2>2. step \in {"persist", "remote"}
    OBVIOUS
  <2>3. runner' = [runner EXCEPT ![r] = [runner[r] EXCEPT
                !.unread = unread, !.theirs = theirs, !.step = step]]
    BY <2>1
  <2> HIDE DEF unread, theirs, step
  <2>4. [runner[r] EXCEPT !.unread = unread, !.theirs = theirs, !.step = step]
          = [runner[r] EXCEPT !.ours = runner[r].ours, !.unread = unread,
                              !.theirs = theirs, !.step = step]
    BY LocalFacts DEF Locals
  <2> QED
    BY <1>4, <2>2, <2>3, <2>4
<1> QED
  BY <1>1, <1>5, <1>6 DEF RemoteError

\* As many findings as keys that drifted, one for each.
LEMMA RowsTallied ==
    ASSUME TypeInv, NEW r \in Runners
    PROVE  /\ \A f, g \in Rows(r) : f.key = g.key => f = g
           /\ \A f \in Rows(r) : f.status = "repairable" => f.action = "repair"
           /\ IsFiniteSet(Rows(r)) /\ Cardinality(Rows(r)) = Cardinality(Drifted(r))
           /\ Cardinality(ForReview(Rows(r))) = Cardinality(Reviewed(r))
           /\ Repaired(Rows(r)) = {}
<1> DEFINE F == [k \in Drifted(r) |-> FindingOf(r, k)]
<1>1. IsFiniteSet(Drifted(r))
  <2>1. Drifted(r) \subseteq Keys
    BY DEF Drifted
  <2> QED
    BY <2>1, BoundsAssumption, FS_Subset
<1>2. \A k \in Drifted(r) :
        /\ FindingOf(r, k).key = k /\ FindingOf(r, k).status # "auto_repaired"
        /\ FindingOf(r, k).status = "repairable" <=> FindingOf(r, k).action = "repair"
        /\ FindingOf(r, k).action \in {"repair", "review"}
  BY FindingFacts DEF Drifted, Finding
<1>3. F \in Bijection(Drifted(r), Rows(r))
  <2>1. F \in [Drifted(r) -> Rows(r)]
    BY DEF Rows
  <2>2. \A j, k \in Drifted(r) : F[j] = F[k] => j = k
    BY <1>2
  <2>3. \A f \in Rows(r) : \E k \in Drifted(r) : F[k] = f
    BY DEF Rows
  <2> QED
    BY <2>1, <2>2, <2>3 DEF Bijection, Injection, Surjection, IsInjective
<1>4. \A f, g \in Rows(r) : f.key = g.key => f = g
  BY <1>2 DEF Rows
<1>5. Repaired(Rows(r)) = {} /\ \A f \in Rows(r) : f.status = "repairable" => f.action = "repair"
  BY <1>2 DEF Rows, Repaired
<1>6. Cardinality(ForReview(Rows(r))) = Cardinality(Reviewed(r))
  <2> DEFINE G == [k \in Reviewed(r) |-> FindingOf(r, k)]
  <2>1. \A k \in Drifted(r) : k \in Reviewed(r) <=> FindingOf(r, k).action = "review"
    BY <1>2 DEF Reviewed, Repairable, Rows
  <2>2. Reviewed(r) \subseteq Drifted(r) /\ IsFiniteSet(Reviewed(r))
    BY <1>1, FS_Subset DEF Reviewed
  <2>3. G \in [Reviewed(r) -> ForReview(Rows(r))]
    BY <2>1, <2>2 DEF Rows, ForReview
  <2>4. \A j, k \in Reviewed(r) : G[j] = G[k] => j = k
    BY <1>2, <2>2
  <2>5. \A f \in ForReview(Rows(r)) : \E k \in Reviewed(r) : G[k] = f
    BY <2>1 DEF Rows, ForReview
  <2>6. G \in Bijection(Reviewed(r), ForReview(Rows(r)))
    BY <2>3, <2>4, <2>5 DEF Bijection, Injection, Surjection, IsInjective
  <2> QED
    BY <2>2, <2>6, FS_Bijection DEF ExistsBijection
<1> QED
  BY <1>1, <1>3, <1>4, <1>5, <1>6, FS_Bijection DEF ExistsBijection

\* An assertion that passes leaves the run where it was.
LEMMA AssertExact ==
    ASSUME TypeInv, DistinctInv, ExactInv, NEW r \in Runners, AssertLease(r)
    PROVE  ExactInv'
<1>0. /\ runs' = runs /\ Alone(r) /\ runner[r].step \notin Apart
      /\ runner[r].step \in AssertingSteps
  BY AssertFacts DEF repository
<1>1. Exact(Row(r), runner[r]) /\ Row(r).status # "completed" /\ runner[r].run \in DOMAIN runs
  BY <1>0, ExactAtWork
<1>2. CASE /\ Owns(r) /\ runner'[r].step = Granted(runner[r].step)
           /\ runner'[r].run = runner[r].run /\ runner'[r].todo = runner[r].todo
           /\ runner'[r].repaired = runner[r].repaired
  <2>1. Exact(Row(r), runner'[r])
    BY <1>0, <1>1, <1>2 DEF Exact, Granted
  <2>2. RowAfter(r) = Row(r)
    BY <1>0 DEF RowAfter, Row
  <2> QED
    BY <1>0, <1>1, <1>2, <2>1, <2>2, ExactFrame
<1>3. CASE runner'[r] = IdleRunner
  BY <1>0, <1>3, ExactOutside DEF IdleRunner
<1>4. CASE Goes(r, runner[r].run, "failing")
  BY <1>0, <1>4, GoesExact
<1> QED
  BY <1>2, <1>3, <1>4, AssertFacts

LEMMA PersistExact ==
    ASSUME TypeInv, DistinctInv, ExactInv, NEW r \in Runners, PersistFindings(r)
    PROVE  ExactInv'
<1> DEFINE detected == Row(r).detected + Cardinality(Drifted(r))
           manual == Row(r).manual + Cardinality(Reviewed(r))
           row == [Row(r) EXCEPT !.findings = Rows(r), !.detected = detected, !.manual = manual]
<1>0. runner[r].step = "persisting" /\ runner[r].step \notin Apart
  BY DEF PersistFindings, Apart
<1>1. Exact(Row(r), runner[r]) /\ Row(r).status # "completed" /\ runner[r].run \in DOMAIN runs
      /\ Row(r) \in Run
  BY <1>0, ExactAtWork
<1>2. /\ RowAlone(r) /\ RowAfter(r) = row
      /\ runner'[r].step = "repair" /\ runner'[r].run = runner[r].run
      /\ runner'[r].repaired = runner[r].repaired
      /\ runner'[r].todo = Repairable(Rows(r)) /\ Alone(r)
  BY PersistFacts
<1>3. /\ detected = Cardinality(Rows(r)) /\ manual = Cardinality(ForReview(Rows(r)))
      /\ Row(r).repaired = 0 /\ runner[r].repaired = 0
  <2>1. /\ Row(r).detected = 0 /\ Row(r).manual = 0
        /\ Row(r).repaired = 0 /\ runner[r].repaired = 0
    BY <1>0, <1>1 DEF Exact
  <2>2. /\ Cardinality(Rows(r)) \in Nat /\ Cardinality(Drifted(r)) = Cardinality(Rows(r))
        /\ IsFiniteSet(Rows(r)) /\ Cardinality(Reviewed(r)) = Cardinality(ForReview(Rows(r)))
    BY RowsTallied, FS_CardinalityType
  <2>3. Cardinality(ForReview(Rows(r))) \in Nat
    BY <2>2, FS_Subset, FS_CardinalityType DEF ForReview
  <2> QED
    BY <2>1, <2>2, <2>3
<1> HIDE DEF detected, manual
<1>4. /\ row.findings = Rows(r) /\ row.detected = detected /\ row.manual = manual
      /\ row.repaired = Row(r).repaired /\ row.status = Row(r).status
  BY <1>1 DEF Run
<1> HIDE DEF row
<1>5. Tallied(row) /\ Repaired(row.findings) = {}
  BY <1>3, <1>4, RowsTallied DEF Tallied
<1>6. Exact(row, runner'[r])
  BY <1>2, <1>3, <1>4, <1>5, FS_EmptySet DEF Exact
<1> QED
  BY <1>1, <1>2, <1>4, <1>6, ExactFrame

LEMMA RepairExact ==
    ASSUME TypeInv, DistinctInv, ExactInv, NEW r \in Runners, Repair(r) \/ RepairProcesses(r)
    PROVE  ExactInv'
<1>0. /\ runner[r].step \in {"repair", "process"} /\ runner[r].step \notin Apart
      /\ runs' = runs
  BY DEF Repair, RepairProcesses, repository, Apart
<1>1. Exact(Row(r), runner[r]) /\ runner[r].run \in DOMAIN runs /\ Row(r) \in Run
  BY <1>0, ExactAtWork
<1>2. ASSUME runner[r].todo # {}, NEW success \in BOOLEAN,
             NEW step \in {"process", "mark", "failing"}, Attempted(r, success, step)
      PROVE  ExactInv'
  BY <1>0, <1>2, AttemptedExact
<1>3. CASE RepairProcesses(r)
  <2>1. runner[r].todo # {}
    BY <1>1, <1>3 DEF RepairProcesses, Exact
  <2> QED
    BY <1>2, <1>3, <2>1 DEF RepairProcesses
<1>4. CASE Repair(r) /\ runner[r].todo # {}
  <2>1. CASE RepairInbound(r, NextRepair(r))
    BY <1>2, <1>4, <2>1, RepairInboundFacts DEF Repair
  <2>2. CASE RepairRefused(r) \/ RepairOutbound(r, NextRepair(r))
    BY <1>2, <1>4, <2>2 DEF RepairRefused, RepairOutbound
  <2> QED
    BY <1>4, <2>1, <2>2 DEF Repair
<1>5. CASE Repair(r) /\ runner[r].todo = {}
  <2>1. CASE runner[r].repaired > 0
    BY <1>0, <1>5, <2>1, AttemptedExact DEF Repair
  <2>2. CASE ~(runner[r].repaired > 0)
    <3>1. Goes(r, runner[r].run, "complete")
      BY <1>5, <2>2 DEF Repair
    <3>2. runner[r].repaired = 0
      BY <2>2, LocalFacts DEF Locals
    <3>3. /\ Tallied(Row(r)) /\ Row(r).repaired = 0
          /\ runner[r].repaired = Cardinality(Repaired(Row(r).findings))
          /\ runner[r].todo = Repairable(Row(r).findings)
      BY <1>1, <1>5 DEF Exact, Repair
    <3> QED
      BY <1>0, <1>5, <3>1, <3>2, <3>3, GoesExact DEF Settled
  <2> QED
    BY <2>1, <2>2
<1> QED
  BY <1>3, <1>4, <1>5

\* Marking a finding changes it alone.
Marked(findings, k, mark) ==
    {IF f.key = k THEN [f EXCEPT !.status = mark] ELSE f : f \in findings}

LEMMA MarkingTallies ==
    ASSUME NEW findings, IsFiniteSet(findings), findings \subseteq Finding,
           \A f, g \in findings : f.key = g.key => f = g,
           \A f \in findings : f.status = "repairable" => f.action = "repair",
           NEW f0 \in findings, f0.status = "repairable",
           NEW mark \in {"auto_repaired", "manual_required"},
           NEW after, after = Marked(findings, f0.key, mark)
    PROVE  /\ \A f, g \in after : f.key = g.key => f = g
           /\ \A f \in after : f.status = "repairable" => f.action = "repair"
           /\ ForReview(after) = ForReview(findings)
           /\ IsFiniteSet(after) /\ Cardinality(after) = Cardinality(findings)
           /\ Repairable(after) = Repairable(findings) \ {f0.key}
           /\ Cardinality(Repaired(after)) =
                Cardinality(Repaired(findings)) + IF mark = "auto_repaired" THEN 1 ELSE 0
<1> DEFINE f1 == [f0 EXCEPT !.status = mark]
           others == findings \ {f0}
<1>1. f1.key = f0.key /\ f1.status = mark /\ f1.action = f0.action /\ f0.action = "repair"
  BY DEF Finding
<1>2. \A f \in others : f.key # f0.key
  OBVIOUS
<1> HIDE DEF f1
<1>3. after = others \cup {f1}
  BY <1>2 DEF Marked, f1
<1>4. f1 \notin others
  BY <1>1, <1>2
<1>5. IsFiniteSet(others) /\ Cardinality(others) = Cardinality(findings) - 1
  BY FS_RemoveElement
<1>6. Cardinality(findings) \in Nat
  BY FS_CardinalityType
<1>7. IsFiniteSet(after) /\ Cardinality(after) = Cardinality(findings)
  <2>1. /\ IsFiniteSet(others \cup {f1})
        /\ Cardinality(others \cup {f1}) = Cardinality(others) + 1
    BY <1>4, <1>5, FS_AddElement
  <2>2. IsFiniteSet(after) /\ Cardinality(after) = Cardinality(others) + 1
    BY <1>3, <2>1
  <2> QED
    BY <1>5, <1>6, <2>2
<1>8. \A f, g \in after : f.key = g.key => f = g
  BY <1>1, <1>2, <1>3
<1>9. Repairable(after) = Repairable(findings) \ {f0.key}
  BY <1>1, <1>2, <1>3 DEF Repairable
<1>10. Cardinality(Repaired(after)) =
         Cardinality(Repaired(findings)) + IF mark = "auto_repaired" THEN 1 ELSE 0
  <2>1. Repaired(findings) = Repaired(others)
    BY DEF Repaired
  <2>2. IsFiniteSet(Repaired(others)) /\ f1 \notin Repaired(others)
    BY <1>4, <1>5, FS_Subset DEF Repaired
  <2>3. Cardinality(Repaired(others)) \in Nat
    BY <2>2, FS_CardinalityType
  <2>4. Repaired(after) = IF mark = "auto_repaired"
                          THEN Repaired(others) \cup {f1} ELSE Repaired(others)
    BY <1>1, <1>3 DEF Repaired
  <2> HIDE DEF others
  <2>5. CASE mark = "auto_repaired"
    <3>1. Cardinality(Repaired(others) \cup {f1}) = Cardinality(Repaired(others)) + 1
      BY <2>2, FS_AddElement
    <3>2. Repaired(after) = Repaired(others) \cup {f1}
      BY <2>4, <2>5
    <3> QED
      BY <2>1, <2>3, <2>5, <3>1, <3>2
  <2>6. CASE mark # "auto_repaired"
    BY <2>1, <2>3, <2>4, <2>6
  <2> QED
    BY <2>5, <2>6
<1>11. /\ \A f \in after : f.status = "repairable" => f.action = "repair"
       /\ ForReview(after) = ForReview(findings)
  BY <1>1, <1>3 DEF ForReview
<1> QED
  BY <1>7, <1>8, <1>9, <1>10, <1>11

LEMMA MarkExact ==
    ASSUME TypeInv, DistinctInv, ExactInv, NEW r \in Runners, MarkFinding(r)
    PROVE  ExactInv'
<1> DEFINE k == NextRepair(r)
           mark == RepairStatus(runner[r].success)
           findings == Row(r).findings
           after == Marked(findings, k, mark)
           row == [Row(r) EXCEPT !.findings = after]
<1>0. runner[r].step = "mark" /\ runner[r].step \notin Apart
  BY DEF MarkFinding, Apart
<1>1. Exact(Row(r), runner[r]) /\ Row(r).status # "completed" /\ runner[r].run \in DOMAIN runs
      /\ Row(r) \in Run
  BY <1>0, ExactAtWork
<1>2. /\ Tallied(Row(r)) /\ Row(r).repaired = 0
      /\ runner[r].repaired = Cardinality(Repaired(Row(r).findings))
      /\ runner[r].todo = Repairable(findings) /\ runner[r].todo # {}
  BY <1>0, <1>1 DEF Exact
<1>3. mark \in {"auto_repaired", "manual_required"}
      /\ (mark = "auto_repaired" <=> runner[r].success)
  BY DEF RepairStatus
<1>4. /\ RowAlone(r) /\ RowAfter(r) = row
      /\ runner'[r].step = "repair" /\ runner'[r].run = runner[r].run
      /\ runner'[r].repaired = runner[r].repaired + IF runner[r].success THEN 1 ELSE 0
      /\ runner'[r].todo = runner[r].todo \ {k} /\ Alone(r)
  BY MarkFacts DEF Marked
<1> HIDE DEF mark
<1>5. PICK f0 \in findings : f0.status = "repairable" /\ f0.key = k
  BY <1>2, NextFacts DEF Repairable
<1>6. /\ findings \subseteq Finding /\ IsFiniteSet(findings)
      /\ \A f, g \in findings : f.key = g.key => f = g
      /\ \A f \in findings : f.status = "repairable" => f.action = "repair"
  BY <1>1, <1>2 DEF Run, Tallied
<1> HIDE DEF k, findings
<1>7. /\ \A f, g \in after : f.key = g.key => f = g
      /\ \A f \in after : f.status = "repairable" => f.action = "repair"
      /\ ForReview(after) = ForReview(findings)
      /\ IsFiniteSet(after) /\ Cardinality(after) = Cardinality(findings)
      /\ Repairable(after) = Repairable(findings) \ {k}
      /\ Cardinality(Repaired(after)) =
           Cardinality(Repaired(findings)) + IF mark = "auto_repaired" THEN 1 ELSE 0
  BY <1>3, <1>5, <1>6, MarkingTallies
<1> HIDE DEF after
<1>8. row.findings = after /\ row.detected = Row(r).detected /\ row.repaired = Row(r).repaired
      /\ row.manual = Row(r).manual /\ row.status = Row(r).status
  BY <1>1 DEF Run
<1> HIDE DEF row
<1>9. Tallied(row)
  BY <1>2, <1>7, <1>8 DEF Tallied, findings
<1>10. runner'[r].repaired = Cardinality(Repaired(row.findings))
  BY <1>2, <1>3, <1>4, <1>7, <1>8 DEF findings
<1>11. Exact(row, runner'[r])
  BY <1>2, <1>4, <1>7, <1>8, <1>9, <1>10 DEF Exact
<1> QED
  BY <1>1, <1>4, <1>8, <1>11, ExactFrame

LEMMA CountExact ==
    ASSUME TypeInv, DistinctInv, ExactInv, NEW r \in Runners, CountRepairs(r)
    PROVE  ExactInv'
<1> DEFINE repaired == Row(r).repaired + runner[r].repaired
           row == [Row(r) EXCEPT !.repaired = repaired]
<1>0. runner[r].step = "counting" /\ runner[r].step \notin Apart
  BY CountFacts
<1>1. Exact(Row(r), runner[r]) /\ Row(r).status # "completed" /\ runner[r].run \in DOMAIN runs
      /\ Row(r) \in Run /\ runner[r].run \in RunIds
  BY <1>0, ExactAtWork
<1>2. RowAlone(r) /\ RowAfter(r) = row /\ Goes(r, runner[r].run, "complete")
  BY CountFacts
<1>3. Alone(r) /\ runner'[r].step = "complete" /\ runner'[r].run = runner[r].run
  BY <1>1, <1>2, GoesFacts DEF Steps, Apart
<1>4. /\ Tallied(Row(r)) /\ Row(r).repaired = 0 /\ runner[r].todo = {}
      /\ runner[r].repaired = Cardinality(Repaired(Row(r).findings))
      /\ Repairable(Row(r).findings) = {}
  BY <1>0, <1>1 DEF Exact
<1>5. repaired = Cardinality(Repaired(Row(r).findings))
  BY <1>4, LocalFacts DEF Locals
<1> HIDE DEF repaired
<1>6. row.findings = Row(r).findings /\ row.detected = Row(r).detected
      /\ row.manual = Row(r).manual /\ row.repaired = repaired /\ row.status = Row(r).status
  BY <1>1 DEF Run
<1> HIDE DEF row
<1>7. Settled(row)
  BY <1>4, <1>5, <1>6 DEF Settled, Tallied
<1>8. Exact(row, runner'[r])
  BY <1>3, <1>7 DEF Exact
<1> QED
  BY <1>1, <1>2, <1>3, <1>6, <1>8, ExactFrame

LEMMA EndExact ==
    ASSUME TypeInv, DistinctInv, ExactInv, NEW r \in Runners, CompleteWrites(r) \/ FailRun(r)
    PROVE  ExactInv'
<1>0. runner[r].step \in {"commit", "fail"} /\ runner[r].step \notin Apart
  BY CompleteFacts, FailFacts
<1>1. Exact(Row(r), runner[r]) /\ Row(r).status # "completed" /\ runner[r].run \in DOMAIN runs
      /\ Row(r) \in Run
  BY <1>0, ExactAtWork
<1>2. CASE CompleteWrites(r)
  <2> DEFINE row == [Row(r) EXCEPT !.status = "completed"]
  <2>1. RowAlone(r) /\ RowAfter(r) = row /\ runner[r].step = "commit"
        /\ Alone(r) /\ runner'[r].run = 0
    BY <1>2, CompleteFacts, LeavesFacts
  <2>2. Settled(Row(r))
    BY <1>1, <2>1 DEF Exact
  <2>3. row.findings = Row(r).findings /\ row.detected = Row(r).detected
        /\ row.repaired = Row(r).repaired /\ row.manual = Row(r).manual
    BY <1>1 DEF Run
  <2> HIDE DEF row
  <2>4. Settled(row)
    BY <2>2, <2>3 DEF Settled, Tallied
  <2> QED
    BY <1>1, <2>1, <2>4, ExactFrame
<1>3. CASE FailRun(r)
  <2> DEFINE row == [Row(r) EXCEPT
                       !.status = "failed", !.detected = 0, !.repaired = 0, !.manual = 0]
  <2>1. RowAlone(r) /\ RowAfter(r) = row /\ Alone(r) /\ runner'[r].run = 0
    BY <1>3, FailFacts, LeavesFacts
  <2>2. row.status # "completed"
    BY <1>1 DEF Run
  <2> QED
    BY <1>1, <2>1, <2>2, ExactFrame
<1> QED
  BY <1>2, <1>3

LEMMA BeginExact ==
    ASSUME TypeInv, ExactInv, NEW r \in Runners, BeginRun(r) \/ StartFirst(r) \/ Crash(r)
    PROVE  ExactInv'
<1>0. runs' = runs /\ (BeginRun(r) \/ StartFirst(r) => runner[r].run = 0)
  BY LocalFacts DEF BeginRun, StartFirst, Crash, repository, Sound, Apart
<1>1. CASE BeginRun(r) \/ StartFirst(r)
  <2>1. Quiet
    BY <1>1, BeginQuiet
  <2>2. Alone(r)
    BY <1>1 DEF BeginRun, StartFirst, Alone, TypeInv, TypeOK
  <2>3. runner'[r].run = 0
    BY <1>0, <1>1, <2>1 DEF Quiet, Going, Deserts
  <2> QED
    BY <1>0, <2>2, <2>3, ExactOutside
<1>2. CASE Crash(r)
  <2>1. Leaves(r)
    BY <1>2 DEF Crash, Leaves
  <2> QED
    BY <1>0, <2>1, LeavesFacts, ExactOutside
<1> QED
  BY <1>1, <1>2

LEMMA StartExact ==
    ASSUME TypeInv, ExactInv, NEW r \in Runners, StartRun(r) \/ StartWrites(r)
    PROVE  ExactInv'
<1>1. CASE Leaves(r) /\ UNCHANGED runs
  BY <1>1, LeavesFacts, ExactOutside
<1>2. CASE ~(Leaves(r) /\ UNCHANGED runs)
  <2>1. OpensNow(r)
    BY <1>2 DEF StartRun, StartWrites, OpenRun, Opens, OpensNow, Leaves, repository
  <2> QED
    BY <2>1, OpensExact
<1> QED
  BY <1>1, <1>2

LEMMA ExactStep == TypeInv /\ DistinctInv /\ ExactInv /\ [Next]_vars => ExactInv'
<1> SUFFICES ASSUME TypeInv, DistinctInv, ExactInv, [Next]_vars PROVE ExactInv'
  OBVIOUS
<1>1. CASE UNCHANGED <<runs, runner>>
  BY <1>1 DEF ExactInv
<1>2. CASE InboxWorker
  BY <1>1, <1>2 DEF InboxWorker, repository
<1>3. ASSUME NEW k \in Keys, RemoteChanges(k) \/ Ships(k) \/ Dispatcher(k) PROVE ExactInv'
  BY <1>1, <1>3 DEF RemoteChanges, Ships, Dispatcher, repository
<1>4. CASE UNCHANGED vars
  BY <1>1, <1>4 DEF vars, repository
<1> QED
  BY <1>2, <1>3, <1>4, BeginExact, StartExact, ReadExact, AssertExact, PersistExact,
     RepairExact, MarkExact, CountExact, EndExact DEF Next, Visit

\* Whatever leases are lost and repairs fail, a run that completes has decided all
\* its findings and counted them.
THEOREM CompletedRunsAreExactCorrect == Spec => []CompletedRunsAreExact
<1>1. TypeInv /\ ExactInv => CompletedRunsAreExact
  <2> SUFFICES ASSUME TypeInv, ExactInv, NEW i \in DOMAIN runs, runs[i].status = "completed"
               PROVE  /\ \A f \in runs[i].findings : f.status # "repairable"
                      /\ runs[i].detected = Cardinality(runs[i].findings)
                      /\ runs[i].repaired = Cardinality(Repaired(runs[i].findings))
                      /\ runs[i].manual = Cardinality(ForReview(runs[i].findings))
    BY DEF CompletedRunsAreExact, Repaired, ForReview
  <2>1. Settled(runs[i])
    BY DEF ExactInv
  <2> QED
    BY <2>1 DEF Settled, Tallied, Repairable
<1> QED
  BY <1>1, InitType, TypeStep, DistinctInit, DistinctStep, ExactInit, ExactStep, PTL DEF Spec

-----------------------------------------------------------------------------
(* Repairs *)

Repairing == {"repair", "process", "mark"}

\* No finding is new or has another status.
FindingsKept ==
    \A i \in DOMAIN runs' : \A f \in runs'[i].findings :
      i \in DOMAIN runs /\ f \in runs[i].findings

\* A runner learns of copies from the remote side only.
Learns(r) == \A k \in Keys : runner'[r].theirs[k] \in {runner[r].theirs[k], remote[k], Null}

\* A step of a runner that is not about a repair.
Plain(r) == /\ Alone(r) /\ Learns(r) /\ runner'[r].step \notin Repairing /\ FindingsKept

LEMMA PlainGoes ==
    ASSUME TypeInv, NEW r \in Runners, NEW run \in RunIds,
           NEW step \in Steps \ (Apart \cup Repairing), Goes(r, run, step), FindingsKept
    PROVE  Plain(r)
<1>1. Alone(r) /\ runner'[r].step = step /\ runner'[r].theirs = Unknown
  BY GoesFacts
<1> QED
  BY <1>1 DEF Plain, Learns, Unknown

LEMMA PlainLeaves ==
    ASSUME TypeInv, NEW r \in Runners, Leaves(r), FindingsKept
    PROVE  Plain(r)
BY LeavesFacts DEF Plain, Learns, Repairing, Unknown

LEMMA PlainRow ==
    ASSUME TypeInv, NEW r \in Runners, Alone(r), RowAlone(r), runner[r].run \in DOMAIN runs,
           RowAfter(r).findings = Row(r).findings
    PROVE  FindingsKept
BY RowFrame DEF FindingsKept

LEMMA PlainBegins ==
    ASSUME TypeInv, NEW r \in Runners, BeginRun(r) \/ StartFirst(r) \/ Crash(r)
    PROVE  Plain(r)
<1>0. FindingsKept /\ IdleRunner \in Locals /\ IdleRunner.theirs = Unknown
  BY IdleIsSound DEF BeginRun, StartFirst, Crash, repository, FindingsKept, Sound, IdleRunner
<1>1. CASE BeginRun(r)
  <2> DEFINE l == [IdleRunner EXCEPT !.step = "start", !.now = clock']
  <2>1. runner'[r] = l /\ Alone(r)
    BY <1>1 DEF BeginRun, Alone, TypeInv, TypeOK
  <2>2. l.step = "start" /\ l.theirs = Unknown
    BY <1>0 DEF Locals
  <2> QED
    BY <1>0, <2>1, <2>2 DEF Plain, Learns, Repairing, Unknown
<1>2. CASE StartFirst(r)
  <2> DEFINE l == [runner[r] EXCEPT !.step = "starting", !.base = WatermarkBase(r)]
  <2>1. runner'[r] = l /\ Alone(r)
    BY <1>2 DEF StartFirst, Alone, TypeInv, TypeOK
  <2>2. l.step = "starting" /\ l.theirs = runner[r].theirs
    BY LocalFacts DEF Locals
  <2> QED
    BY <1>0, <2>1, <2>2 DEF Plain, Learns, Repairing
<1>3. CASE Crash(r)
  BY <1>0, <1>3, PlainLeaves DEF Crash, Leaves
<1> QED
  BY <1>1, <1>2, <1>3

LEMMA PlainReads ==
    ASSUME TypeInv, NEW r \in Runners, ReadLocal(r) \/ ReadPage(r) \/ RemoteError(r)
    PROVE  Plain(r)
<1>0. FindingsKept /\ runner[r].step \notin Apart /\ runner[r].unread \subseteq Keys
  BY LocalFacts DEF ReadLocal, ReadPage, RemoteError, repository, FindingsKept, Apart, Locals
<1>1. CASE Goes(r, runner[r].run, "failing")
  BY <1>0, <1>1, LocalFacts, WorkFacts, PlainGoes DEF Steps, Apart, Repairing
<1>2. CASE ReadLocal(r)
  <2> DEFINE l == [runner[r] EXCEPT !.step = "remote", !.ours = local, !.unread = Keys]
  <2>1. runner'[r] = l /\ Alone(r)
    BY <1>2 DEF ReadLocal, Alone, TypeInv, TypeOK
  <2>2. l.step = "remote" /\ l.theirs = runner[r].theirs
    BY LocalFacts DEF Locals
  <2> QED
    BY <1>0, <2>1, <2>2 DEF Plain, Learns, Repairing
<1>3. ASSUME NEW k \in Keys, NEW unread, NEW step \in {"persist", "remote"},
             runner' = [runner EXCEPT ![r] = [runner[r] EXCEPT
               !.unread = unread, !.theirs = [runner[r].theirs EXCEPT ![k] = remote[k]],
               !.step = step]]
      PROVE  Plain(r)
  <2> DEFINE theirs == [runner[r].theirs EXCEPT ![k] = remote[k]]
             l == [runner[r] EXCEPT !.unread = unread, !.theirs = theirs, !.step = step]
  <2>1. runner'[r] = l /\ Alone(r)
    BY <1>3 DEF Alone, TypeInv, TypeOK
  <2>2. \A j \in Keys : theirs[j] \in {runner[r].theirs[j], remote[j]}
    BY LocalFacts DEF Locals
  <2> HIDE DEF theirs
  <2>3. l.step = step /\ l.theirs = theirs
    BY LocalFacts DEF Locals
  <2> QED
    BY <1>0, <2>1, <2>2, <2>3 DEF Plain, Learns, Repairing
<1> QED
  BY <1>0, <1>1, <1>2, <1>3 DEF ReadPage, RemoteError

LEMMA PlainStarts ==
    ASSUME TypeInv, NEW r \in Runners, StartRun(r) \/ StartWrites(r)
    PROVE  Plain(r)
<1>1. CASE Leaves(r) /\ UNCHANGED runs
  BY <1>1, PlainLeaves DEF FindingsKept
<1>2. CASE ~(Leaves(r) /\ UNCHANGED runs)
  <2>1. OpensNow(r)
    BY <1>2 DEF StartRun, StartWrites, OpenRun, Opens, OpensNow, Leaves, repository
  <2>2. PICK base \in Times : base >= 0 - Lookback /\ Opens(r, base)
    <3>1. WatermarkBase(r) \in Times /\ WatermarkBase(r) >= 0 - Lookback
      BY LocalFacts, TimeAssumption DEF WatermarkBase, TypeInv, TypeOK, Times
    <3>2. runner[r].base \in Times /\ runner[r].base >= 0 - Lookback
      BY LocalFacts DEF Sound, Locals
    <3> QED
      BY <2>1, <3>1, <3>2 DEF OpensNow
  <2>3. /\ DOMAIN runs = 1..Len(runs) /\ DOMAIN runs' = 1..(Len(runs) + 1) /\ Len(runs) \in Nat
        /\ \A i \in DOMAIN runs : runs'[i] = runs[i]
        /\ runs'[Len(runs) + 1] =
                [status |-> "running", windowStart |-> base - Overlap,
                 windowEnd |-> runner[r].now, findings |-> {},
                 detected |-> 0, repaired |-> 0, manual |-> 0]
        /\ Goes(r, Len(runs) + 1, "local") /\ Len(runs) + 1 \in RunIds
    BY <2>2, OpensFacts DEF Opens
  <2>4. /\ runs'[Len(runs) + 1].findings = {}
        /\ \A i \in DOMAIN runs' : i # Len(runs) + 1 => i \in DOMAIN runs
    BY <2>3
  <2>5. FindingsKept
    BY <2>3, <2>4 DEF FindingsKept
  <2> QED
    BY <2>3, <2>5, PlainGoes DEF Steps, Apart, Repairing
<1> QED
  BY <1>1, <1>2

LEMMA PlainEnds ==
    ASSUME TypeInv, NEW r \in Runners,
           AssertLease(r) \/ CountRepairs(r) \/ CompleteWrites(r) \/ FailRun(r)
    PROVE  Plain(r)
<1>0. runner[r].step \notin Apart
  BY DEF AssertLease, CountRepairs, CompleteWrites, FailRun, Apart
<1>1. runner[r].run \in RunIds /\ runner[r].run \in DOMAIN runs /\ Row(r) \in Run
  BY <1>0, LocalFacts, WorkFacts
<1>2. ASSUME FindingsKept, NEW step \in {"failing", "complete"},
             Goes(r, runner[r].run, step)
      PROVE  Plain(r)
  BY <1>1, <1>2, PlainGoes DEF Steps, Apart, Repairing
<1>3. CASE AssertLease(r)
  <2>1. FindingsKept
    BY <1>3, AssertFacts DEF repository, FindingsKept
  <2>2. CASE Goes(r, runner[r].run, "failing")
    BY <1>2, <2>1, <2>2
  <2>3. CASE runner'[r] = IdleRunner /\ Alone(r)
    BY <2>1, <2>3 DEF Plain, Learns, Repairing, IdleRunner, Unknown
  <2>4. CASE /\ runner'[r].step \in WritingSteps /\ runner'[r].theirs = runner[r].theirs
             /\ Alone(r)
    BY <2>1, <2>4 DEF Plain, Learns, Repairing
  <2> QED
    BY <1>3, <2>2, <2>3, <2>4, AssertFacts
<1>4. CASE CountRepairs(r)
  <2> DEFINE repaired == Row(r).repaired + runner[r].repaired
  <2>1. RowAlone(r) /\ RowAfter(r) = [Row(r) EXCEPT !.repaired = repaired]
        /\ Goes(r, runner[r].run, "complete")
    BY <1>4, CountFacts
  <2> HIDE DEF repaired
  <2>2. RowAfter(r).findings = Row(r).findings
    BY <1>1, <2>1 DEF Run
  <2>3. Alone(r)
    BY <1>1, <2>1, GoesFacts DEF Steps, Apart
  <2> QED
    BY <1>1, <1>2, <2>1, <2>2, <2>3, PlainRow
<1>5. CASE CompleteWrites(r)
  <2>1. RowAlone(r) /\ RowAfter(r) = [Row(r) EXCEPT !.status = "completed"] /\ Leaves(r)
        /\ Alone(r)
    BY <1>5, CompleteFacts, LeavesFacts
  <2>2. RowAfter(r).findings = Row(r).findings
    BY <1>1, <2>1 DEF Run
  <2> QED
    BY <1>1, <2>1, <2>2, PlainRow, PlainLeaves
<1>6. CASE FailRun(r)
  <2>1. /\ RowAlone(r) /\ Leaves(r) /\ Alone(r)
        /\ RowAfter(r) = [Row(r) EXCEPT
              !.status = "failed", !.detected = 0, !.repaired = 0, !.manual = 0]
    BY <1>6, FailFacts, LeavesFacts
  <2>2. RowAfter(r).findings = Row(r).findings
    BY <1>1, <2>1 DEF Run
  <2> QED
    BY <1>1, <2>1, <2>2, PlainRow, PlainLeaves
<1> QED
  BY <1>3, <1>4, <1>5, <1>6

\* What a step of a runner does about repairs.
LEMMA RepairKinds ==
    ASSUME TypeInv, NEW r \in Runners, BeginRun(r) \/ Visit(r) \/ RemoteError(r) \/ Crash(r)
    PROVE  /\ Alone(r) /\ Learns(r)
           /\ \/ Plain(r)
              \/ PersistFindings(r)
              \/ Repair(r) /\ runner[r].todo # {} /\ FindingsKept
              \/ RepairProcesses(r) /\ FindingsKept
              \/ MarkFinding(r)
<1>1. CASE Plain(r)
  BY <1>1 DEF Plain
<1>2. CASE PersistFindings(r)
  BY <1>2, PersistFacts DEF Learns
<1>3. CASE MarkFinding(r)
  BY <1>3, MarkFacts DEF Learns
<1>4. CASE Repair(r) \/ RepairProcesses(r)
  <2>0. FindingsKept /\ runner[r].step \notin Apart
    BY <1>4 DEF Repair, RepairProcesses, repository, FindingsKept, Apart
  <2>1. CASE Goes(r, runner[r].run, "complete")
    BY <1>1, <2>0, <2>1, LocalFacts, WorkFacts, PlainGoes DEF Steps, Apart, Repairing
  <2>2. ASSUME NEW success \in BOOLEAN, NEW step \in {"process", "mark", "count", "failing"},
               Attempted(r, success, step)
        PROVE  /\ Alone(r) /\ Learns(r) /\ runner'[r].step = step
               /\ step = "count" => Plain(r)
    BY <2>0, <2>2, AttemptedFacts DEF Learns, Plain, Repairing
  <2>3. CASE RepairProcesses(r)
    BY <2>0, <2>2, <2>3 DEF RepairProcesses
  <2>4. CASE Repair(r) /\ runner[r].todo = {} /\ ~Goes(r, runner[r].run, "complete")
    BY <1>1, <2>0, <2>2, <2>4 DEF Repair
  <2>5. CASE Repair(r) /\ runner[r].todo # {}
    <3>1. Alone(r) /\ Learns(r)
      <4>1. CASE RepairInbound(r, NextRepair(r))
        BY <2>2, <2>5, <4>1, RepairInboundFacts DEF Repair
      <4>2. CASE RepairRefused(r) \/ RepairOutbound(r, NextRepair(r))
        BY <2>2, <4>2 DEF RepairRefused, RepairOutbound
      <4> QED
        BY <2>5, <4>1, <4>2 DEF Repair
    <3> QED
      BY <2>0, <2>5, <3>1
  <2> QED
    BY <1>4, <2>1, <2>3, <2>4, <2>5
<1> QED
  BY <1>1, <1>2, <1>3, <1>4, PlainBegins, PlainReads, PlainStarts, PlainEnds DEF Visit

\* Version v of the resource is known locally, or a message that brings it or a newer
\* one is still to be processed, has been given up or has ended in a conflict, or an
\* older one without a version in its envelope has been applied.
Carried(loc, box, k, v) ==
    \/ loc[k] # Null /\ loc[k].version >= v
    \/ \E m \in box : /\ m.key = k /\ m.body.version >= v
                      /\ m.status \in {"received", "dead_letter", "conflict"}
    \/ \E m \in box : /\ m.key = k /\ m.body.version < v
                      /\ ~m.versioned /\ m.status = "processed"

MessagesCarried ==
    ~Readback =>
      \A m \in inbox : \A v \in 0..m.body.version : Carried(local, inbox, m.key, v)

\* The carrier's shipments have no versions.
Flat == pair = "carrier_shipment" =>
          /\ \A k \in Keys : remote[k] # Null => remote[k].version = 0
          /\ \A m \in inbox : m.body.version = 0
          /\ \A r \in Runners : \A k \in Keys :
               runner[r].theirs[k] # Null => runner[r].theirs[k].version = 0

\* A message arrives, or is overtaken when it does.
Arrives(m) ==
    /\ ~Readback /\ UNCHANGED local /\ inbox' = inbox \cup {m}
    /\ m.status = "received" \/ \E n \in inbox : n.key = m.key /\ n.body.version > m.body.version
    /\ pair = "carrier_shipment" => m.body.version = 0

\* What is carried stays so.
KeepsCarried == \A k \in Keys : \A v \in Nat :
                  Carried(local, inbox, k, v) => Carried(local', inbox', k, v)

LEMMA MessageFacts ==
    ASSUME TypeInv, NEW m \in inbox
    PROVE  /\ m \in Message /\ m.key \in Keys /\ m.body.version \in Nat
           /\ m.body \in Resource /\ m.versioned \in BOOLEAN
           /\ m.status \in {"received", "processed", "ignored", "conflict", "dead_letter"}
BY VersionAssumption DEF TypeInv, TypeOK, Message, Resource

LEMMA LocalVersions ==
    ASSUME TypeInv, NEW k \in Keys, local[k] # Null
    PROVE  local[k].version \in Nat
BY VersionAssumption DEF TypeInv, TypeOK, Copies, Resource

LEMMA ArrivalKeeps ==
    ASSUME TypeInv, MessagesCarried, NEW m \in Message, Arrives(m), UNCHANGED pair
    PROVE  KeepsCarried /\ MessagesCarried'
<1>1. KeepsCarried
  BY DEF KeepsCarried, Carried, Arrives
<1>2. m.key \in Keys /\ m.body.version \in Nat
  BY VersionAssumption DEF Message, Resource
<1>3. \A v \in 0..m.body.version : Carried(local', inbox', m.key, v)
  <2> TAKE v \in 0..m.body.version
  <2>1. CASE m.status = "received"
    BY <1>2, <2>1 DEF Arrives, Carried
  <2>2. CASE m.status # "received"
    <3>1. PICK n \in inbox : n.key = m.key /\ n.body.version > m.body.version
      BY <2>2 DEF Arrives
    <3>2. v \in Nat /\ v \in 0..n.body.version
      BY <1>2, <3>1, MessageFacts
    <3>3. Carried(local, inbox, n.key, v)
      BY <3>2 DEF MessagesCarried, Arrives
    <3> QED
      BY <1>1, <1>2, <3>1, <3>2, <3>3 DEF KeepsCarried
  <2> QED
    BY <2>1, <2>2
<1>4. ASSUME NEW n \in inbox, NEW v \in 0..n.body.version
      PROVE  Carried(local', inbox', n.key, v)
  <2>1. n.key \in Keys /\ v \in Nat
    BY MessageFacts
  <2>2. Carried(local, inbox, n.key, v)
    BY DEF MessagesCarried, Arrives
  <2> QED
    BY <1>1, <2>1, <2>2 DEF KeepsCarried
<1>5. \A n \in inbox' : \A v \in 0..n.body.version : Carried(local', inbox', n.key, v)
  BY <1>3, <1>4 DEF Arrives
<1> QED
  BY <1>1, <1>5 DEF MessagesCarried

\* What becomes of a message, and of the local copy with it.
LEMMA ProcessingFacts ==
    ASSUME TypeInv, Flat, ~Readback, NEW m \in inbox,
           Processed(m) \/ Conflicts(m) \/ DeadLettered(m)
    PROVE  /\ m.status = "received"
           /\ \E status \in {"processed", "ignored", "conflict", "dead_letter"} :
                /\ inbox' = Replace(m, status)
                /\ \/ status \in {"conflict", "dead_letter"} /\ local' = local
                   \/ /\ local' = local /\ local[m.key] # Null
                      /\ local[m.key].version >= m.body.version
                   \/ /\ local' = [local EXCEPT ![m.key] = m.body] /\ status = "processed"
                      /\ \/ local[m.key] = Null \/ ~m.versioned
                         \/ m.body.version >= local[m.key].version
<1>0. m \in Message /\ m.key \in Keys /\ m.body.version \in Nat /\ m.versioned \in BOOLEAN
  BY MessageFacts
<1>1. CASE Conflicts(m) \/ DeadLettered(m)
  BY <1>1 DEF Conflicts, DeadLettered
<1>2. CASE Processed(m) /\ Applies(m)
  <2>1. \/ local[m.key] = Null \/ ~m.versioned \/ m.body.version >= local[m.key].version
    BY <1>0, <1>2, LocalVersions DEF Applies
  <2> QED
    BY <1>2, <2>1 DEF Processed
<1>3. CASE Processed(m) /\ ~Applies(m)
  <2>1. local[m.key] # Null
    BY <1>3 DEF Applies
  <2>2. local[m.key].version \in Nat
    BY <1>0, <2>1, LocalVersions
  <2>3. pair \in {"commerce_order", "warehouse_fulfillment", "carrier_shipment"}
    BY DEF TypeInv, TypeOK, Pairs, Readback
  <2>4. local[m.key].version >= m.body.version
    <3>1. CASE pair = "carrier_shipment"
      BY <2>2, <3>1 DEF Flat
    <3>2. CASE pair # "carrier_shipment"
      BY <1>0, <1>3, <2>2, <2>3, <3>2 DEF Applies
    <3> QED
      BY <3>1, <3>2
  <2>5. m.status = "received" /\ local' = local
        /\ (inbox' = Replace(m, "processed") \/ inbox' = Replace(m, "ignored"))
    BY <1>3 DEF Processed
  <2> QED
    BY <2>1, <2>4, <2>5
<1> QED
  BY <1>1, <1>2, <1>3

LEMMA ProcessingKeeps ==
    ASSUME TypeInv, MessagesCarried, Flat, ~Readback, UNCHANGED pair,
           NEW m \in inbox, Processed(m) \/ Conflicts(m) \/ DeadLettered(m)
    PROVE  KeepsCarried /\ MessagesCarried'
<1>0. /\ m \in Message /\ m.key \in Keys /\ m.body.version \in Nat
      /\ m.body \in Resource /\ m.body # Null /\ m.versioned \in BOOLEAN
  BY MessageFacts, NullAssumption
<1>1. PICK status \in {"processed", "ignored", "conflict", "dead_letter"} :
        /\ inbox' = Replace(m, status)
        /\ \/ status \in {"conflict", "dead_letter"} /\ local' = local
           \/ /\ local' = local /\ local[m.key] # Null
              /\ local[m.key].version >= m.body.version
           \/ /\ local' = [local EXCEPT ![m.key] = m.body] /\ status = "processed"
              /\ \/ local[m.key] = Null \/ ~m.versioned
                 \/ m.body.version >= local[m.key].version
  BY ProcessingFacts
<1> DEFINE n == [m EXCEPT !.status = status]
<1>2. n.key = m.key /\ n.body = m.body /\ n.versioned = m.versioned /\ n.status = status
  BY <1>0 DEF Message
<1>3. inbox' = (inbox \ {m}) \cup {n} /\ m.status = "received"
  BY <1>1, ProcessingFacts DEF Replace
<1> HIDE DEF n
<1>4. /\ \A j \in Keys : j # m.key => local'[j] = local[j]
      /\ \/ local'[m.key] = local[m.key]
         \/ /\ local'[m.key] = m.body /\ status = "processed"
            /\ \/ local[m.key] = Null \/ ~m.versioned
               \/ m.body.version >= local[m.key].version
  BY <1>0, <1>1 DEF TypeInv, TypeOK
<1>5. \/ status \in {"conflict", "dead_letter"}
      \/ /\ local'[m.key] # Null /\ local'[m.key].version \in Nat
         /\ local'[m.key].version >= m.body.version
  <2>1. CASE local' = local /\ local[m.key] # Null /\ local[m.key].version >= m.body.version
    <3>1. local[m.key].version \in Nat /\ local'[m.key] = local[m.key]
      BY <1>0, <2>1, LocalVersions
    <3> QED
      BY <2>1, <3>1
  <2>2. CASE local' = [local EXCEPT ![m.key] = m.body]
    <3>1. local'[m.key] = m.body
      BY <1>0, <2>2 DEF TypeInv, TypeOK
    <3> QED
      BY <1>0, <3>1
  <2> QED
    BY <1>1, <2>1, <2>2
<1>6. ASSUME NEW k \in Keys, NEW v \in Nat, Carried(local, inbox, k, v)
      PROVE  Carried(local', inbox', k, v)
  <2>1. CASE local[k] # Null /\ local[k].version >= v /\ local'[k] = local[k]
    BY <2>1 DEF Carried
  <2>2. CASE local[k] # Null /\ local[k].version >= v /\ local'[k] # local[k]
    <3>1. /\ k = m.key /\ local'[k] = m.body /\ status = "processed"
          /\ ~m.versioned \/ m.body.version >= local[k].version
      BY <1>4, <2>2
    <3>2. CASE m.body.version >= v
      BY <1>0, <3>1, <3>2 DEF Carried
    <3>3. CASE m.body.version < v
      <4>1. ~m.versioned
        <5>1. local[k].version \in Nat
          BY <2>2, LocalVersions
        <5> QED
          BY <1>0, <2>2, <3>1, <3>3, <5>1
      <4>2. n \in inbox' /\ n.key = k /\ n.body.version < v /\ ~n.versioned
            /\ n.status = "processed"
        BY <1>2, <1>3, <3>1, <3>3, <4>1
      <4> QED
        BY <4>2 DEF Carried
    <3> QED
      BY <1>0, <3>2, <3>3
  <2>3. CASE \E x \in inbox : /\ x.key = k /\ x.body.version >= v /\ x # m
                              /\ x.status \in {"received", "dead_letter", "conflict"}
    BY <1>3, <2>3 DEF Carried
  <2>4. CASE \E x \in inbox : /\ x.key = k /\ x.body.version < v
                              /\ ~x.versioned /\ x.status = "processed"
    BY <1>3, <2>4 DEF Carried
  <2>5. CASE m.key = k /\ m.body.version >= v
    <3>1. CASE status \in {"conflict", "dead_letter"}
      BY <1>2, <1>3, <2>5, <3>1 DEF Carried
    <3>2. CASE /\ local'[m.key] # Null /\ local'[m.key].version \in Nat
               /\ local'[m.key].version >= m.body.version
      <4>1. local'[k].version >= v
        BY <1>0, <2>5, <3>2
      <4> QED
        BY <2>5, <3>2, <4>1 DEF Carried
    <3> QED
      BY <1>5, <3>1, <3>2
  <2> QED
    BY <1>6, <2>1, <2>2, <2>3, <2>4, <2>5 DEF Carried
<1>7. ASSUME NEW x \in inbox', NEW v \in 0..x.body.version
      PROVE  Carried(local', inbox', x.key, v)
  <2>1. PICK y \in inbox : x.key = y.key /\ x.body = y.body
    BY <1>2, <1>3
  <2>2. Carried(local, inbox, y.key, v)
    BY <2>1 DEF MessagesCarried
  <2>3. y.key \in Keys /\ v \in Nat
    BY MessageFacts
  <2> QED
    BY <1>6, <2>1, <2>2, <2>3
<1>8. MessagesCarried'
  BY <1>7 DEF MessagesCarried
<1> QED
  BY <1>6, <1>8 DEF KeepsCarried

\* What an inbound repair leaves behind.
LEMMA InboundRepairs ==
    ASSUME TypeInv, Flat, MessagesCarried, NEW r \in Runners, UNCHANGED <<pair, local>>,
           runner[r].todo # {}, RepairInbound(r, NextRepair(r))
    PROVE  /\ ~Readback
           /\ UNCHANGED inbox \/ \E m \in Message : Arrives(m)
           /\ \/ \E success \in BOOLEAN : Attempted(r, success, "failing")
              \/ /\ \E success \in BOOLEAN, step \in {"process", "mark"} :
                      Attempted(r, success, step)
                 /\ Carried(local', inbox', NextRepair(r),
                            runner[r].theirs[NextRepair(r)].version)
<1> DEFINE k == NextRepair(r)
           body == runner[r].theirs[k]
           message == [origin |-> "reconciliation", key |-> k, body |-> body,
                       versioned |-> TRUE, status |-> "received"]
           ignored == [message EXCEPT !.status = "ignored"]
           overtaken == \E m \in inbox : SameStream(m, k) /\ m.body.version > body.version
<1>1. k \in Keys /\ body \in Resource /\ body.version \in Nat /\ body # Null
  BY NextFacts, VersionAssumption, NullAssumption DEF Resource
<1>2. pair = "carrier_shipment" => body.version = 0
  BY <1>1 DEF Flat
<1>3. CASE \E m \in inbox : SameKey(m, k, body)
  <2>1. PICK m \in inbox :
          /\ SameKey(m, k, body)
          /\ IF m.body # body THEN Attempted(r, FALSE, "failing")
             ELSE IF m.status \in {"processed", "conflict", "ignored"}
                  THEN Attempted(r, TRUE, "mark")
                  ELSE Attempted(r, FALSE, "process")
    BY <1>3 DEF RepairInbound
  <2>2. UNCHANGED inbox /\ ~Readback
    BY <1>3 DEF RepairInbound
  <2>3. m.key = k /\ m.body.version = body.version
    BY <1>2, <2>1 DEF SameKey, Flat
  <2>4. Carried(local, inbox, m.key, m.body.version)
    BY <2>2, MessageFacts DEF MessagesCarried
  <2>5. Carried(local', inbox', k, body.version)
    BY <2>2, <2>3, <2>4
  <2> QED
    BY <2>1, <2>2, <2>5
<1>4. CASE ~(\E m \in inbox : SameKey(m, k, body)) /\ overtaken
  <2>1. inbox' = inbox \cup {ignored} /\ Attempted(r, TRUE, "mark") /\ ~Readback
    BY <1>4 DEF RepairInbound
  <2>2. ignored \in Message /\ ignored.key = k /\ ignored.body = body
    BY <1>1 DEF Message
  <2>3. PICK n \in inbox : n.key = k /\ n.body.version > body.version
    BY <1>4 DEF SameStream
  <2> HIDE DEF ignored
  <2>4. Arrives(ignored)
    BY <1>2, <2>1, <2>2, <2>3 DEF Arrives
  <2>5. body.version \in 0..n.body.version
    BY <1>1, <2>3, MessageFacts
  <2>6. Carried(local, inbox, k, body.version)
    BY <2>1, <2>3, <2>5 DEF MessagesCarried
  <2>7. Carried(local', inbox', k, body.version)
    BY <1>1, <2>2, <2>4, <2>6, ArrivalKeeps DEF KeepsCarried
  <2> QED
    BY <2>1, <2>2, <2>4, <2>7
<1>5. CASE ~(\E m \in inbox : SameKey(m, k, body)) /\ ~overtaken
  <2>1. inbox' = inbox \cup {message} /\ Attempted(r, FALSE, "process") /\ ~Readback
    BY <1>5 DEF RepairInbound
  <2>2. message \in Message /\ message.key = k /\ message.body = body
        /\ message.status = "received"
    BY <1>1 DEF Message
  <2> HIDE DEF message
  <2>3. Arrives(message)
    BY <1>2, <2>1, <2>2 DEF Arrives
  <2>4. Carried(local', inbox', k, body.version)
    BY <1>1, <2>1, <2>2 DEF Carried
  <2> QED
    BY <2>1, <2>2, <2>3, <2>4
<1> QED
  BY <1>3, <1>4, <1>5

\* What stands behind a repair of version v.
Backed(p, loc, box, red, k, v) ==
    IF p = "shipment_commerce_fulfillment" THEN red[k] # "none" ELSE Carried(loc, box, k, v)

KeepsBacked == \A k \in Keys : \A v \in Nat :
                 Backed(pair, local, inbox, redelivery, k, v)
                   => Backed(pair', local', inbox', redelivery', k, v)

RedeliveryStays == \A k \in Keys : redelivery[k] # "none" => redelivery'[k] # "none"

\* What a repair that succeeded, or that waits for processNext, has done.
Attempting(l) == \/ l.step = "process"
                 \/ l.step = "mark" /\ l.success

FirstOf(todo) == CHOOSE k \in todo : TRUE

\* The runner still holds the copies that its repairable findings are about.
Versioned(row, l) ==
    \A f \in row.findings : f.status = "repairable" => f.version = l.theirs[f.key].version

FindingsBacked ==
    \A i \in DOMAIN runs : \A f \in runs[i].findings :
      f.status = "auto_repaired" => Backed(pair, local, inbox, redelivery, f.key, f.version)

AttemptsBacked ==
    \A r \in Runners : Attempting(runner[r]) =>
      Backed(pair, local, inbox, redelivery, FirstOf(runner[r].todo),
             runner[r].theirs[FirstOf(runner[r].todo)].version)

CopiesHeld == \A r \in Runners :
                runner[r].step \in Repairing => Versioned(runs[runner[r].run], runner[r])

BackedInv == /\ Flat /\ MessagesCarried /\ FindingsBacked
             /\ AttemptsBacked /\ CopiesHeld

LEMMA BackedInit == Init => BackedInv
<1> SUFFICES ASSUME Init PROVE BackedInv
  OBVIOUS
<1>1. /\ runs = <<>> /\ inbox = {} /\ runner = [r \in Runners |-> IdleRunner]
      /\ pair \in Pairs
  BY PairAssumption DEF Init
<1>2. IdleRunner.step = "idle" /\ IdleRunner.theirs = Unknown
  BY DEF IdleRunner
<1>3. pair = "carrier_shipment" => \A k \in Keys : remote[k] # Null => remote[k].version = 0
  <2>1. ASSUME pair = "carrier_shipment", NEW k \in Keys, remote[k] # Null
        PROVE  remote[k].version = 0
    <3>1. remote \in [Keys -> {Null, Unreported}] /\ Unreported.version = 0
      BY <2>1 DEF Init, Beginnings, Readback, Unreported
    <3> QED
      BY <2>1, <3>1
  <2> QED
    BY <2>1
<1>4. Flat /\ MessagesCarried
  BY <1>1, <1>2, <1>3 DEF Flat, MessagesCarried, Unknown
<1> QED
  BY <1>1, <1>2, <1>4 DEF BackedInv, FindingsBacked, AttemptsBacked, CopiesHeld, Attempting,
     Repairing

\* Whatever happens to the data, what backs a repair goes on backing it.
LEMMA KeptAsBacked ==
    ASSUME TypeInv, UNCHANGED pair, RedeliveryStays, KeepsCarried \/ Readback
    PROVE  KeepsBacked
BY DEF KeepsBacked, RedeliveryStays, KeepsCarried, Backed, Readback

LEMMA SameKept ==
    ASSUME TypeInv, MessagesCarried, UNCHANGED pair, RedeliveryStays,
           UNCHANGED <<local, inbox>> \/ Readback
    PROVE  KeepsBacked /\ MessagesCarried'
<1>1. CASE UNCHANGED <<local, inbox>>
  <2>1. KeepsCarried
    BY <1>1 DEF KeepsCarried
  <2>2. MessagesCarried'
    BY <1>1 DEF MessagesCarried, Readback
  <2> QED
    BY <2>1, <2>2, KeptAsBacked
<1>2. CASE Readback
  BY <1>2, KeptAsBacked DEF MessagesCarried, Readback
<1> QED
  BY <1>1, <1>2

LEMMA ProcessedKept ==
    ASSUME TypeInv, MessagesCarried, Flat, UNCHANGED <<pair, redelivery>>,
           NEW m \in inbox, Processed(m) \/ Conflicts(m) \/ DeadLettered(m)
    PROVE  KeepsBacked /\ MessagesCarried'
<1>1. RedeliveryStays
  BY DEF RedeliveryStays
<1>2. CASE Readback
  BY <1>1, <1>2, SameKept
<1>3. CASE ~Readback
  BY <1>1, <1>3, ProcessingKeeps, KeptAsBacked
<1> QED
  BY <1>2, <1>3

LEMMA ArrivedKept ==
    ASSUME TypeInv, MessagesCarried, UNCHANGED <<pair, redelivery>>,
           NEW m \in Message, Arrives(m)
    PROVE  KeepsBacked /\ MessagesCarried'
BY ArrivalKeeps, KeptAsBacked DEF RedeliveryStays

LEMMA ProvidersKept ==
    ASSUME TypeInv, MessagesCarried, Flat, NEW k \in Keys,
           RemoteChanges(k) \/ Ships(k) \/ Dispatcher(k)
    PROVE  KeepsBacked /\ MessagesCarried' /\ Flat'
<1>1. CASE RemoteChanges(k)
  <2>1. PICK body \in Resource :
          /\ pair = "carrier_shipment" => body.version = 0
          /\ remote' = [remote EXCEPT ![k] = body]
          /\ \E report \in Reports(k, body) : inbox' = inbox \cup report
    BY <1>1 DEF RemoteChanges
  <2>2. ~Readback /\ UNCHANGED <<pair, local, redelivery, runner>>
    BY <1>1 DEF RemoteChanges
  <2>3. PICK versioned \in BOOLEAN :
          \/ inbox' = inbox
          \/ inbox' = inbox \cup
               {[origin |-> "provider", key |-> k, body |-> body, versioned |-> versioned,
                 status |-> "received"]}
    BY <2>1 DEF Reports
  <2> DEFINE m == [origin |-> "provider", key |-> k, body |-> body, versioned |-> versioned,
                   status |-> "received"]
  <2>4. /\ m \in Message /\ m.body = body /\ m.status = "received"
        /\ inbox' = inbox \cup {m} \/ inbox' = inbox
    BY <2>3 DEF Message
  <2> HIDE DEF m
  <2>5. KeepsBacked /\ MessagesCarried'
    <3>1. CASE inbox' = inbox \cup {m}
      <4>1. Arrives(m)
        BY <2>1, <2>2, <2>4, <3>1 DEF Arrives
      <4> QED
        BY <2>2, <2>4, <4>1, ArrivedKept
    <3>2. CASE inbox' = inbox
      BY <2>2, <3>2, SameKept DEF RedeliveryStays
    <3> QED
      BY <2>4, <3>1, <3>2
  <2>6. Flat'
    <3> SUFFICES ASSUME pair = "carrier_shipment" PROVE
          /\ \A j \in Keys : remote'[j] # Null => remote'[j].version = 0
          /\ \A n \in inbox' : n.body.version = 0
          /\ \A r \in Runners : \A j \in Keys :
               runner'[r].theirs[j] # Null => runner'[r].theirs[j].version = 0
      BY <2>2 DEF Flat
    <3>1. remote \in [Keys -> Copies]
      BY DEF TypeInv, TypeOK
    <3>2. \A j \in Keys : remote'[j] \in {remote[j], body}
      BY <2>1, <3>1
    <3> QED
      BY <2>1, <2>2, <2>4, <3>2 DEF Flat
  <2> QED
    BY <2>5, <2>6
<1>2. CASE Ships(k)
  <2>1. Readback /\ UNCHANGED <<pair, redelivery, runner>>
    BY <1>2 DEF Ships
  <2> QED
    BY <2>1, SameKept DEF RedeliveryStays, Flat, Readback
<1>3. CASE Dispatcher(k)
  <2>1. /\ UNCHANGED <<pair, local, inbox, runner>>
        /\ \A j \in Keys : redelivery[j] # "none" => redelivery'[j] # "none"
    BY <1>3 DEF Dispatcher, TypeInv, TypeOK
  <2>2. ASSUME NEW j \in Keys, pair = "carrier_shipment", remote'[j] # Null
        PROVE  remote[j] # Null /\ remote'[j].version = remote[j].version
    <3>1. ~Readback
      BY <2>2 DEF Readback
    <3> QED
      BY <1>3, <2>2, <3>1 DEF Dispatcher, TypeInv, BothKnown
  <2>3. KeepsBacked /\ MessagesCarried'
    BY <2>1, SameKept DEF RedeliveryStays
  <2>4. Flat'
    BY <2>1, <2>2 DEF Flat
  <2> QED
    BY <2>3, <2>4
<1> QED
  BY <1>1, <1>2, <1>3

LEMMA FlatKept ==
    ASSUME TypeInv, Flat, NEW r \in Runners, Alone(r), Learns(r), UNCHANGED <<pair, remote>>,
           pair = "carrier_shipment" => \A m \in inbox' : m.body.version = 0
    PROVE  Flat'
<1>1. ASSUME pair = "carrier_shipment", NEW s \in Runners, NEW k \in Keys,
             runner'[s].theirs[k] # Null
      PROVE  runner'[s].theirs[k].version = 0
  <2>1. CASE s = r
    BY <1>1, <2>1 DEF Learns, Flat
  <2>2. CASE s # r
    <3>1. runner'[s] = runner[s]
      BY <2>2 DEF Alone, TypeInv, TypeOK
    <3> QED
      BY <1>1, <3>1 DEF Flat
  <2> QED
    BY <2>1, <2>2
<1> QED
  BY <1>1 DEF Flat

\* What a step of a runner does to the data.
LEMMA RunnerKept ==
    ASSUME TypeInv, BackedInv, NEW r \in Runners,
           BeginRun(r) \/ Visit(r) \/ RemoteError(r) \/ Crash(r)
    PROVE  KeepsBacked /\ MessagesCarried' /\ Flat' /\ UNCHANGED pair
<1>0. Alone(r) /\ Learns(r)
  BY RepairKinds
<1>1. Flat /\ MessagesCarried /\ UNCHANGED <<pair, remote>>
  BY DEF BackedInv, BeginRun, Visit, RemoteError, Crash, data, StartRun, StartFirst, StartWrites,
     ReadLocal, ReadPage, AssertLease, PersistFindings, Repair, RepairProcesses, MarkFinding,
     CountRepairs, CompleteWrites, FailRun
<1>2. CASE UNCHANGED <<local, inbox>> /\ RedeliveryStays
  <2>1. Flat'
    BY <1>0, <1>1, <1>2, FlatKept DEF Flat
  <2> QED
    BY <1>1, <1>2, <2>1, SameKept
<1>3. CASE RepairProcesses(r)
  <2>1. redelivery' = redelivery
    BY <1>3 DEF RepairProcesses
  <2>2. ASSUME NEW m \in inbox, Processed(m) \/ Conflicts(m) \/ DeadLettered(m)
        PROVE  KeepsBacked /\ MessagesCarried' /\ Flat'
    <3>1. PICK status \in {"processed", "ignored", "conflict", "dead_letter"} :
            inbox' = (inbox \ {m}) \cup {[m EXCEPT !.status = status]}
      BY <2>2 DEF Processed, Conflicts, DeadLettered, Replace
    <3>2. \A n \in inbox' : \E o \in inbox : n.body = o.body
      BY <3>1, MessageFacts DEF Message
    <3>3. Flat'
      BY <1>0, <1>1, <3>2, FlatKept DEF Flat
    <3> QED
      BY <1>1, <2>1, <2>2, <3>3, ProcessedKept
  <2>3. \/ \E m \in inbox : Processed(m) \/ Conflicts(m) \/ DeadLettered(m)
        \/ UNCHANGED <<local, inbox>>
    BY <1>3 DEF RepairProcesses
  <2> QED
    BY <1>1, <1>2, <2>1, <2>2, <2>3 DEF RedeliveryStays
<1>4. CASE Repair(r) /\ runner[r].todo # {}
  <2>0. local' = local
    BY <1>4 DEF Repair
  <2>1. CASE RepairRefused(r)
    BY <1>2, <2>0, <2>1 DEF RepairRefused, RedeliveryStays
  <2>2. CASE RepairOutbound(r, NextRepair(r))
    <3>1. inbox' = inbox /\ RedeliveryStays
      BY <2>2 DEF RepairOutbound, RedeliveryStays, TypeInv, TypeOK
    <3> QED
      BY <1>2, <2>0, <3>1
  <2>3. CASE RepairInbound(r, NextRepair(r))
    <3>1. redelivery' = redelivery /\ (UNCHANGED inbox \/ \E m \in Message : Arrives(m))
      BY <1>1, <1>4, <2>0, <2>3, InboundRepairs DEF RepairInbound
    <3>2. ASSUME NEW m \in Message, Arrives(m) PROVE KeepsBacked /\ MessagesCarried' /\ Flat'
      <4>1. pair = "carrier_shipment" => \A n \in inbox' : n.body.version = 0
        BY <1>1, <3>2 DEF Arrives, Flat
      <4> QED
        BY <1>0, <1>1, <3>1, <3>2, <4>1, FlatKept, ArrivedKept
    <3> QED
      BY <1>1, <1>2, <2>0, <3>1, <3>2 DEF RedeliveryStays
  <2> QED
    BY <1>4, <2>1, <2>2, <2>3 DEF Repair
<1>5. CASE ~RepairProcesses(r) /\ ~(Repair(r) /\ runner[r].todo # {})
  <2>1. UNCHANGED <<local, inbox, redelivery>>
    BY <1>5 DEF BeginRun, Visit, RemoteError, Crash, data, StartRun, StartFirst, StartWrites,
       ReadLocal, ReadPage, AssertLease, PersistFindings, Repair, MarkFinding, CountRepairs,
       CompleteWrites, FailRun
  <2> QED
    BY <1>2, <2>1 DEF RedeliveryStays
<1> QED
  BY <1>1, <1>3, <1>4, <1>5

LEMMA FindingTypes ==
    ASSUME TypeInv, NEW i \in DOMAIN runs, NEW f \in runs[i].findings
    PROVE  f \in Finding /\ f.key \in Keys /\ f.version \in Nat
<1>1. runs[i] \in Run
  BY RunsFacts
<1> QED
  BY <1>1, VersionAssumption DEF Run, Finding

LEMMA FindingsStayBacked ==
    ASSUME TypeInv, BackedInv, KeepsBacked, FindingsKept
    PROVE  FindingsBacked'
<1> SUFFICES ASSUME NEW i \in DOMAIN runs', NEW f \in runs'[i].findings,
                    f.status = "auto_repaired"
             PROVE  Backed(pair', local', inbox', redelivery', f.key, f.version)
  BY DEF FindingsBacked
<1>1. i \in DOMAIN runs /\ f \in runs[i].findings
  BY DEF FindingsKept
<1> QED
  BY <1>1, FindingTypes DEF BackedInv, FindingsBacked, KeepsBacked

\* A runner that is repairing has a first finding to repair, and a copy for it.
LEMMA AttemptFacts ==
    ASSUME TypeInv, ExactInv, NEW r \in Runners, runner[r].step \in {"process", "mark"}
    PROVE  /\ runner[r].todo # {} /\ FirstOf(runner[r].todo) = NextRepair(r)
           /\ NextRepair(r) \in runner[r].todo /\ NextRepair(r) \in Keys
           /\ runner[r].theirs[NextRepair(r)].version \in Nat
<1>1. runner[r].todo # {}
  BY ExactAtWork DEF Exact, Apart
<1>2. /\ NextRepair(r) \in runner[r].todo /\ NextRepair(r) \in Keys
      /\ runner[r].theirs[NextRepair(r)] \in Resource
  BY <1>1, NextFacts
<1> QED
  BY <1>1, <1>2, VersionAssumption DEF FirstOf, NextRepair, Resource

LEMMA AttemptsStayBacked ==
    ASSUME TypeInv, ExactInv, BackedInv, KeepsBacked, NEW r \in Runners, Alone(r),
           Attempting(runner'[r]) =>
             Backed(pair', local', inbox', redelivery', FirstOf(runner'[r].todo),
                    runner'[r].theirs[FirstOf(runner'[r].todo)].version)
    PROVE  AttemptsBacked'
<1> SUFFICES ASSUME NEW s \in Runners, Attempting(runner'[s])
             PROVE  Backed(pair', local', inbox', redelivery', FirstOf(runner'[s].todo),
                           runner'[s].theirs[FirstOf(runner'[s].todo)].version)
  BY DEF AttemptsBacked
<1>1. CASE s # r
  <2>1. runner'[s] = runner[s]
    BY <1>1 DEF Alone, TypeInv, TypeOK
  <2>2. runner[s].step \in {"process", "mark"}
    BY <2>1 DEF Attempting
  <2>3. /\ FirstOf(runner[s].todo) \in Keys
        /\ runner[s].theirs[FirstOf(runner[s].todo)].version \in Nat
    BY <2>2, AttemptFacts
  <2>4. Backed(pair, local, inbox, redelivery, FirstOf(runner[s].todo),
               runner[s].theirs[FirstOf(runner[s].todo)].version)
    BY <2>1 DEF BackedInv, AttemptsBacked
  <2>5. Backed(pair', local', inbox', redelivery', FirstOf(runner[s].todo),
               runner[s].theirs[FirstOf(runner[s].todo)].version)
    BY <2>3, <2>4 DEF KeepsBacked
  <2> QED
    BY <2>1, <2>5
<1> QED
  BY <1>1

LEMMA CopiesStayHeld ==
    ASSUME TypeInv, DistinctInv, BackedInv, NEW r \in Runners, Alone(r),
           \/ FindingsKept /\ DOMAIN runs \subseteq DOMAIN runs'
           \/ RowAlone(r) /\ runner[r].run \in DOMAIN runs,
           runner'[r].step \in Repairing => Versioned(runs'[runner'[r].run], runner'[r])
    PROVE  CopiesHeld'
<1> SUFFICES ASSUME NEW s \in Runners, runner'[s].step \in Repairing
             PROVE  Versioned(runs'[runner'[s].run], runner'[s])
  BY DEF CopiesHeld
<1>1. CASE s # r
  <2>1. runner'[s] = runner[s]
    BY <1>1 DEF Alone, TypeInv, TypeOK
  <2>2. Versioned(runs[runner[s].run], runner[s])
    BY <2>1 DEF BackedInv, CopiesHeld
  <2>3. runner[s].run \in DOMAIN runs /\ runner[s].run # 0
    BY <2>1, WorkFacts DEF Apart, Repairing
  <2>4. runs'[runner[s].run].findings \subseteq runs[runner[s].run].findings
    <3>1. CASE RowAlone(r) /\ runner[r].run \in DOMAIN runs
      <4>1. runner[s].run # runner[r].run
        BY <1>1, <2>3 DEF DistinctInv
      <4> QED
        BY <2>3, <3>1, <4>1, RowFrame
    <3>2. CASE FindingsKept /\ DOMAIN runs \subseteq DOMAIN runs'
      BY <2>3, <3>2 DEF FindingsKept
    <3> QED
      BY <3>1, <3>2
  <2> QED
    BY <2>1, <2>2, <2>4 DEF Versioned
<1> QED
  BY <1>1

LEMMA RunsGrow ==
    ASSUME TypeInv, [Next]_vars
    PROVE  DOMAIN runs \subseteq DOMAIN runs'
<1>1. CASE Quiet
  BY <1>1 DEF Quiet
<1>2. ASSUME NEW r \in Runners, Writes(r) \/ Ends(r) PROVE DOMAIN runs \subseteq DOMAIN runs'
  <2>1. RowAlone(r) /\ runner[r].run \in DOMAIN runs
    BY <1>2 DEF Writes, Ends
  <2> QED
    BY <2>1, RunsFacts DEF RowAlone
<1>3. ASSUME NEW r \in Runners, OpensNow(r) PROVE DOMAIN runs \subseteq DOMAIN runs'
  BY <1>3, OpenFrame, RunsFacts
<1> QED
  BY <1>1, <1>2, <1>3, StepKinds

\* A step that adds no finding, with what it leaves its runner to vouch for.
LEMMA QuietlyBacked ==
    ASSUME TypeInv, DistinctInv, ExactInv, BackedInv, [Next]_vars, NEW r \in Runners, Alone(r),
           KeepsBacked, MessagesCarried', Flat', FindingsKept,
           Attempting(runner'[r]) =>
             Backed(pair', local', inbox', redelivery', FirstOf(runner'[r].todo),
                    runner'[r].theirs[FirstOf(runner'[r].todo)].version),
           runner'[r].step \in Repairing => Versioned(runs'[runner'[r].run], runner'[r])
    PROVE  BackedInv'
BY RunsGrow, FindingsStayBacked, AttemptsStayBacked, CopiesStayHeld DEF BackedInv

LEMMA RepairBacked ==
    ASSUME TypeInv, DistinctInv, ExactInv, BackedInv, [Next]_vars, NEW r \in Runners,
           \/ Repair(r) /\ runner[r].todo # {}
           \/ RepairProcesses(r),
           KeepsBacked, MessagesCarried', Flat', UNCHANGED pair, FindingsKept
    PROVE  BackedInv'
<1> DEFINE k == NextRepair(r)
           v == runner[r].theirs[k].version
<1>0. /\ runner[r].step \in {"repair", "process"} /\ runner[r].step \notin Apart
      /\ runner[r].step \in Repairing /\ runs' = runs
  BY DEF Repair, RepairProcesses, Apart, Repairing, repository
<1>1. Versioned(Row(r), runner[r])
  BY <1>0 DEF BackedInv, CopiesHeld, Row
<1>2. ASSUME NEW success \in BOOLEAN, NEW step \in {"process", "mark", "failing"},
             Attempted(r, success, step),
             step = "process" \/ (step = "mark" /\ success) =>
               Backed(pair', local', inbox', redelivery', k, v)
      PROVE  BackedInv'
  <2>1. /\ Alone(r) /\ runner'[r].step = step /\ runner'[r].success = success
        /\ runner'[r].run = runner[r].run /\ runner'[r].todo = runner[r].todo
        /\ runner'[r].theirs = runner[r].theirs
    BY <1>0, <1>2, AttemptedFacts
  <2>2. Versioned(runs'[runner'[r].run], runner'[r])
    BY <1>0, <1>1, <2>1 DEF Versioned, Row
  <2>3. FirstOf(runner'[r].todo) = k
    BY <2>1 DEF FirstOf, NextRepair
  <2>4. Attempting(runner'[r]) => Backed(pair', local', inbox', redelivery', k, v)
    BY <1>2, <2>1 DEF Attempting
  <2>5. runner'[r].theirs[FirstOf(runner'[r].todo)].version = v
    BY <2>1, <2>3
  <2>6. Attempting(runner'[r]) =>
          Backed(pair', local', inbox', redelivery', FirstOf(runner'[r].todo),
                 runner'[r].theirs[FirstOf(runner'[r].todo)].version)
    BY <2>3, <2>4, <2>5
  <2> HIDE DEF k, v
  <2> QED
    BY <2>1, <2>2, <2>6, QuietlyBacked
<1>3. CASE RepairProcesses(r)
  <2>1. runner[r].step = "process" /\ Attempting(runner[r])
    BY <1>3 DEF RepairProcesses, Attempting
  <2>2. FirstOf(runner[r].todo) = k /\ k \in Keys /\ v \in Nat
    BY <2>1, AttemptFacts
  <2>3. Backed(pair, local, inbox, redelivery, k, v)
    BY <2>1, <2>2 DEF BackedInv, AttemptsBacked
  <2>4. Backed(pair', local', inbox', redelivery', k, v)
    BY <2>2, <2>3 DEF KeepsBacked
  <2>5. Attempted(r, TRUE, "mark") \/ Attempted(r, FALSE, "mark")
    BY <1>3 DEF RepairProcesses
  <2> HIDE DEF k, v
  <2> QED
    BY <1>2, <2>4, <2>5
<1>4. CASE Repair(r) /\ runner[r].todo # {}
  <2>1. CASE RepairRefused(r)
    <3>1. Attempted(r, FALSE, "mark")
      BY <2>1 DEF RepairRefused
    <3> HIDE DEF k, v
    <3> QED
      BY <1>2, <3>1
  <2>2. CASE RepairOutbound(r, NextRepair(r))
    <3>1. Attempted(r, TRUE, "mark") /\ pair = "shipment_commerce_fulfillment"
      BY <2>2 DEF RepairOutbound, Readback
    <3>2. redelivery'[k] # "none"
      BY <1>4, <2>2, NextFacts DEF RepairOutbound, TypeInv, TypeOK
    <3>3. Backed(pair', local', inbox', redelivery', k, v)
      BY <3>1, <3>2 DEF Backed
    <3> HIDE DEF k, v
    <3> QED
      BY <1>2, <3>1, <3>3
  <2>3. CASE RepairInbound(r, NextRepair(r))
    <3>1. UNCHANGED local /\ Flat /\ MessagesCarried
      BY <1>4 DEF Repair, BackedInv
    <3>2. /\ ~Readback
          /\ \/ \E success \in BOOLEAN : Attempted(r, success, "failing")
             \/ /\ \E success \in BOOLEAN, step \in {"process", "mark"} :
                     Attempted(r, success, step)
                /\ Carried(local', inbox', k, v)
      BY <1>4, <2>3, <3>1, InboundRepairs
    <3>3. CASE \E success \in BOOLEAN : Attempted(r, success, "failing")
      <4> HIDE DEF k, v
      <4> QED
        BY <1>2, <3>3
    <3>4. ASSUME Carried(local', inbox', k, v), NEW success \in BOOLEAN,
                 NEW step \in {"process", "mark"}, Attempted(r, success, step)
          PROVE  BackedInv'
      <4>1. Backed(pair', local', inbox', redelivery', k, v)
        BY <3>2, <3>4 DEF Backed, Readback
      <4> HIDE DEF k, v
      <4> QED
        BY <1>2, <3>4, <4>1
    <3> QED
      BY <3>2, <3>3, <3>4
  <2> QED
    BY <1>4, <2>1, <2>2, <2>3 DEF Repair
<1> QED
  BY <1>3, <1>4

LEMMA PersistBacked ==
    ASSUME TypeInv, DistinctInv, ExactInv, BackedInv, NEW r \in Runners,
           PersistFindings(r), KeepsBacked, MessagesCarried', Flat'
    PROVE  BackedInv'
<1> DEFINE detected == Row(r).detected + Cardinality(Drifted(r))
           manual == Row(r).manual + Cardinality(Reviewed(r))
<1>1. /\ RowAlone(r) /\ RowAfter(r) = [Row(r) EXCEPT
            !.findings = Rows(r), !.detected = detected, !.manual = manual]
      /\ runner'[r].step = "repair" /\ runner'[r].run = runner[r].run
      /\ runner'[r].todo = Repairable(Rows(r)) /\ Alone(r)
      /\ \A k \in runner'[r].todo : runner'[r].theirs[k] = runner[r].theirs[k]
      /\ runner[r].step = "persisting"
  BY PersistFacts
<1> HIDE DEF detected, manual
<1>2. runner[r].run \in DOMAIN runs /\ Row(r) \in Run
  BY <1>1, WorkFacts DEF Apart
<1>3. RowAfter(r).findings = Rows(r)
  BY <1>1, <1>2 DEF Run
<1>4. FindingsBacked'
  <2> SUFFICES ASSUME NEW i \in DOMAIN runs', NEW f \in runs'[i].findings,
                      f.status = "auto_repaired"
               PROVE  Backed(pair', local', inbox', redelivery', f.key, f.version)
    BY DEF FindingsBacked
  <2>1. f \notin Rows(r)
    BY FindingFacts DEF Rows, Drifted
  <2>2. i # runner[r].run => i \in DOMAIN runs /\ runs'[i] = runs[i]
    BY <1>1, <1>2, RowFrame
  <2>3. i # runner[r].run
    BY <1>3, <2>1 DEF RowAfter
  <2>4. i \in DOMAIN runs /\ f \in runs[i].findings
    BY <2>2, <2>3
  <2> QED
    BY <2>4, FindingTypes DEF BackedInv, FindingsBacked, KeepsBacked
<1>5. Versioned(RowAfter(r), runner'[r])
  <2> SUFFICES ASSUME NEW f \in Rows(r), f.status = "repairable"
               PROVE  f.version = runner'[r].theirs[f.key].version
    BY <1>3 DEF Versioned
  <2>1. PICK k \in Drifted(r) : f = FindingOf(r, k)
    BY DEF Rows
  <2>2. f.key = k /\ f.version = runner[r].theirs[k].version /\ f.key \in runner'[r].todo
    BY <1>1, <2>1, FindingFacts DEF Drifted, Repairable
  <2> QED
    BY <1>1, <2>2
<1>6. CopiesHeld'
  BY <1>1, <1>2, <1>5, CopiesStayHeld, RowFrame
<1>7. AttemptsBacked'
  BY <1>1, AttemptsStayBacked DEF Attempting
<1> QED
  BY <1>4, <1>6, <1>7 DEF BackedInv

LEMMA MarkBacked ==
    ASSUME TypeInv, DistinctInv, ExactInv, BackedInv, NEW r \in Runners,
           MarkFinding(r), KeepsBacked, MessagesCarried', Flat'
    PROVE  BackedInv'
<1> DEFINE k == NextRepair(r)
           mark == RepairStatus(runner[r].success)
           after == Marked(Row(r).findings, k, mark)
<1>1. /\ RowAlone(r) /\ RowAfter(r) = [Row(r) EXCEPT !.findings = after]
      /\ runner[r].step = "mark" /\ runner'[r].step = "repair"
      /\ runner'[r].run = runner[r].run /\ runner'[r].theirs = runner[r].theirs /\ Alone(r)
  BY MarkFacts DEF Marked
<1>2. runner[r].run \in DOMAIN runs /\ Row(r) \in Run
  BY <1>1, WorkFacts DEF Apart
<1>3. runs'[runner[r].run].findings = after
  <2> HIDE DEF after
  <2> QED
    BY <1>1, <1>2, RowFrame DEF Run
<1>4. mark \in {"auto_repaired", "manual_required"}
      /\ (mark = "auto_repaired" <=> runner[r].success)
  BY DEF RepairStatus
<1>5. \A f \in after : f \in Row(r).findings \/ \E g \in Row(r).findings :
        g.key = k /\ f = [g EXCEPT !.status = mark]
  BY DEF Marked
<1>6. /\ FirstOf(runner[r].todo) = k /\ k \in Keys /\ runner[r].theirs[k].version \in Nat
      /\ k \in runner[r].todo
  BY <1>1, AttemptFacts
<1>7. /\ runner[r].todo = Repairable(Row(r).findings)
      /\ \A f, g \in Row(r).findings : f.key = g.key => f = g
  BY <1>1, ExactAtWork DEF Exact, Tallied, Apart
<1>8. Versioned(Row(r), runner[r])
  BY <1>1 DEF BackedInv, CopiesHeld, Repairing, Row
<1> HIDE DEF mark, after, k
<1>9. \A g \in Row(r).findings : g.key = k => g.version = runner[r].theirs[k].version
  BY <1>6, <1>7, <1>8 DEF Repairable, Versioned
<1>10. \A g \in Row(r).findings : LET f == [g EXCEPT !.status = mark]
                                  IN f.key = g.key /\ f.version = g.version /\ f.status = mark
  BY <1>2 DEF Run, Finding
<1>11. FindingsBacked'
  <2> SUFFICES ASSUME NEW i \in DOMAIN runs', NEW f \in runs'[i].findings,
                      f.status = "auto_repaired"
               PROVE  Backed(pair', local', inbox', redelivery', f.key, f.version)
    BY DEF FindingsBacked
  <2>1. ASSUME i \in DOMAIN runs, f \in runs[i].findings
        PROVE  Backed(pair', local', inbox', redelivery', f.key, f.version)
    BY <2>1, FindingTypes DEF BackedInv, FindingsBacked, KeepsBacked
  <2>2. CASE i = runner[r].run /\ f \notin Row(r).findings
    <3>1. PICK g \in Row(r).findings : g.key = k /\ f = [g EXCEPT !.status = mark]
      BY <1>3, <1>5, <2>2
    <3>2. f.key = k /\ f.version = runner[r].theirs[k].version /\ f.status = mark
      BY <1>9, <1>10, <3>1
    <3>3. Attempting(runner[r])
      BY <1>1, <1>4, <3>2 DEF Attempting
    <3>4. Backed(pair, local, inbox, redelivery, k, runner[r].theirs[k].version)
      BY <1>6, <3>3 DEF BackedInv, AttemptsBacked
    <3>5. Backed(pair', local', inbox', redelivery', k, runner[r].theirs[k].version)
      BY <1>6, <3>4 DEF KeepsBacked
    <3> QED
      BY <3>2, <3>5
  <2>3. i = runner[r].run \/ (i \in DOMAIN runs /\ runs'[i] = runs[i])
    BY <1>1, <1>2, RowFrame
  <2> QED
    BY <1>2, <2>1, <2>2, <2>3 DEF Row
<1>12. Versioned(runs'[runner'[r].run], runner'[r])
  <2> SUFFICES ASSUME NEW f \in after, f.status = "repairable"
               PROVE  f.version = runner[r].theirs[f.key].version
    BY <1>1, <1>3 DEF Versioned
  <2>1. f \in Row(r).findings
    BY <1>4, <1>5, <1>10
  <2> QED
    BY <1>8, <2>1 DEF Versioned
<1>13. CopiesHeld'
  BY <1>1, <1>2, <1>12, CopiesStayHeld
<1>14. AttemptsBacked'
  BY <1>1, AttemptsStayBacked DEF Attempting
<1> QED
  BY <1>11, <1>13, <1>14 DEF BackedInv

\* What everybody else does leaves runs and runners alone.
LEMMA DataBacked ==
    ASSUME TypeInv, ExactInv, BackedInv, UNCHANGED <<runs, runner>>,
           KeepsBacked, MessagesCarried', Flat'
    PROVE  BackedInv'
<1>1. FindingsBacked'
  BY FindingsStayBacked DEF FindingsKept
<1>2. CopiesHeld'
  BY DEF BackedInv, CopiesHeld
<1>3. AttemptsBacked'
  <2> SUFFICES ASSUME NEW s \in Runners, Attempting(runner[s])
               PROVE  Backed(pair', local', inbox', redelivery', FirstOf(runner[s].todo),
                             runner[s].theirs[FirstOf(runner[s].todo)].version)
    BY DEF AttemptsBacked
  <2>1. /\ FirstOf(runner[s].todo) \in Keys
        /\ runner[s].theirs[FirstOf(runner[s].todo)].version \in Nat
    BY AttemptFacts DEF Attempting
  <2>2. Backed(pair, local, inbox, redelivery, FirstOf(runner[s].todo),
               runner[s].theirs[FirstOf(runner[s].todo)].version)
    BY DEF BackedInv, AttemptsBacked
  <2> QED
    BY <2>1, <2>2 DEF KeepsBacked
<1> QED
  BY <1>1, <1>2, <1>3 DEF BackedInv

LEMMA BackedStep ==
    TypeInv /\ DistinctInv /\ ExactInv /\ BackedInv /\ [Next]_vars => BackedInv'
<1> SUFFICES ASSUME TypeInv, DistinctInv, ExactInv, BackedInv, [Next]_vars PROVE BackedInv'
  OBVIOUS
<1>0. Flat /\ MessagesCarried
  BY DEF BackedInv
<1>1. CASE InboxWorker
  <2>1. UNCHANGED <<pair, redelivery, runs, runner, remote>>
    BY <1>1 DEF InboxWorker, repository
  <2>2. PICK m \in inbox : Processed(m) \/ Conflicts(m) \/ DeadLettered(m)
    BY <1>1 DEF InboxWorker
  <2>3. KeepsBacked /\ MessagesCarried'
    BY <1>0, <2>1, <2>2, ProcessedKept
  <2>4. PICK status \in {"processed", "ignored", "conflict", "dead_letter"} :
          inbox' = (inbox \ {m}) \cup {[m EXCEPT !.status = status]}
    BY <2>2 DEF Processed, Conflicts, DeadLettered, Replace
  <2>5. \A n \in inbox' : \E o \in inbox : n.body = o.body
    BY <2>4, MessageFacts DEF Message
  <2>6. Flat'
    BY <1>0, <2>1, <2>5 DEF Flat
  <2> QED
    BY <2>1, <2>3, <2>6, DataBacked
<1>2. ASSUME NEW k \in Keys, RemoteChanges(k) \/ Ships(k) \/ Dispatcher(k) PROVE BackedInv'
  <2>1. UNCHANGED <<runs, runner>>
    BY <1>2 DEF RemoteChanges, Ships, Dispatcher, repository
  <2> QED
    BY <1>0, <1>2, <2>1, ProvidersKept, DataBacked
<1>3. ASSUME NEW r \in Runners, BeginRun(r) \/ Visit(r) \/ RemoteError(r) \/ Crash(r)
      PROVE  BackedInv'
  <2>1. KeepsBacked /\ MessagesCarried' /\ Flat' /\ UNCHANGED pair
    BY <1>3, RunnerKept
  <2>2. Alone(r)
    BY <1>3, RepairKinds
  <2>3. CASE Plain(r)
    <3>1. FindingsKept /\ runner'[r].step \notin Repairing /\ ~Attempting(runner'[r])
      BY <2>3 DEF Plain, Attempting, Repairing
    <3> QED
      BY <2>1, <2>2, <3>1, QuietlyBacked
  <2>4. CASE PersistFindings(r)
    BY <2>1, <2>4, PersistBacked
  <2>5. CASE ((Repair(r) /\ runner[r].todo # {}) \/ RepairProcesses(r)) /\ FindingsKept
    BY <2>1, <2>5, RepairBacked
  <2>6. CASE MarkFinding(r)
    BY <2>1, <2>6, MarkBacked
  <2> QED
    BY <1>3, <2>3, <2>4, <2>5, <2>6, RepairKinds
<1>4. CASE UNCHANGED vars
  <2>1. UNCHANGED <<pair, redelivery, runs, runner, remote, local, inbox>>
    BY <1>4 DEF vars, repository, data
  <2>2. Flat' /\ RedeliveryStays
    BY <1>0, <2>1 DEF Flat, RedeliveryStays
  <2> QED
    BY <1>0, <2>1, <2>2, SameKept, DataBacked
<1> QED
  BY <1>1, <1>2, <1>3, <1>4 DEF Next

\* A drift reported as repaired has landed, is under way, is a dead letter or has left an
\* exception, whichever message the runner that says so has processed; and what has landed
\* is taken back by nothing but an event without a version in its envelope.
THEOREM RepairsAreBackedCorrect == Spec => []RepairsAreBacked
<1>1. TypeInv /\ BackedInv => RepairsAreBacked
  <2> SUFFICES ASSUME TypeInv, BackedInv, NEW i \in DOMAIN runs, NEW f \in runs[i].findings,
                      f.status = "auto_repaired"
               PROVE  \/ Landed(f) \/ UnderWay(f) \/ GivenUp(f)
                      \/ Contested(f) \/ TakenBack(f)
    BY DEF RepairsAreBacked
  <2>1. Backed(pair, local, inbox, redelivery, f.key, f.version) /\ f.key \in Keys
    BY FindingTypes DEF BackedInv, FindingsBacked
  <2>2. CASE Readback
    <3>1. redelivery[f.key] # "none"
      BY <2>1, <2>2 DEF Backed, Readback
    <3>2. redelivery[f.key] \in {"none", "queued", "sent", "dead_letter"}
      BY <2>1 DEF TypeInv, TypeOK
    <3> QED
      BY <2>2, <3>1, <3>2 DEF Landed, UnderWay, GivenUp
  <2>3. CASE ~Readback
    <3>1. Carried(local, inbox, f.key, f.version)
      BY <2>1, <2>3 DEF Backed, Readback
    <3> QED
      BY <2>3, <3>1 DEF Carried, Landed, UnderWay, GivenUp, Contested, TakenBack
  <2> QED
    BY <2>2, <2>3
<1> QED
  BY <1>1, InitType, TypeStep, DistinctInit, DistinctStep, ExactInit, ExactStep, BackedInit,
     BackedStep, PTL DEF Spec

=============================================================================
