---------------------------- MODULE OperatorProofs ----------------------------
(***************************************************************************)
(* Theorems about operator commands for any exceptions, requests, keys and *)
(* sessions, and any number of deliveries of each request.                 *)
(***************************************************************************)
EXTENDS OperatorCommands, FiniteSetTheorems, TLAPS

-----------------------------------------------------------------------------
(* Type correctness *)

Known == {x \in Exceptions : exception[x].status # "absent"}

\* Counting exceptions makes sense as only finitely many are ever opened.
TypeInv == TypeOK /\ IsFiniteSet(Known)

LEMMA CommandFacts ==
    \A r \in Requests : /\ Command[r].key \in Keys /\ Command[r].target \in Exceptions
                        /\ Command[r].type \in CommandTypes
                        /\ Command[r].expectedVersion \in Nat
BY CommandAssumption DEF CommandRecord

LEMMA RecordTypes ==
    /\ NoRow \in Row /\ IdleSession \in Session /\ NoReads \in Reads
    /\ IdleSession.step = "idle"
    /\ NoRow.status = "absent" /\ NoRow.version = 1
BY DEF NoRow, IdleSession, NoReads, Row, Session, Steps, Reads

LEMMA TypeFacts ==
    ASSUME TypeOK
    PROVE  /\ \A x \in Exceptions : exception[x] \in Row /\ exception[x].version \in Nat
           /\ \A s \in Sessions :
                /\ session[s] \in Session /\ session[s].row \in Row
                /\ session[s].count \in Nat /\ session[s].row.version \in Nat
                /\ session[s].step # "idle" =>
                     /\ session[s].request \in Requests
                     /\ Of(s) = Command[session[s].request]
                     /\ Of(s).key \in Keys /\ Of(s).target \in Exceptions
                     /\ Of(s).type \in CommandTypes
BY CommandFacts DEF TypeOK, Session, Row, Of

LEMMA TypeInit == Init => TypeInv
<1> SUFFICES ASSUME Init PROVE TypeInv
  OBVIOUS
<1>1. TypeOK
  BY RecordTypes DEF Init, TypeOK, Process
<1>2. Known = {}
  BY RecordTypes DEF Init, Known
<1> QED
  BY <1>1, <1>2, FS_EmptySet DEF TypeInv

LEMMA ResultType ==
    ASSUME NEW r \in Requests, NEW row \in Row
    PROVE  /\ Result(r, row) \in Row
           /\ Result(r, row).version = row.version + 1
           /\ Command[r].type \in Closing =>
                /\ Result(r, row).status \in {"resolved", "dismissed"}
                /\ Result(r, row).closedBy = r
           /\ Command[r].type \notin Closing =>
                /\ Result(r, row).status = row.status
                /\ Result(r, row).closedBy = row.closedBy
<1> DEFINE type == Command[r].type
<1>1. CASE type = "dismiss"
  BY <1>1 DEF Result, Closing, Row
<1>2. CASE type \in Closing \ {"dismiss"}
  BY <1>2 DEF Result, Closing, Row
<1>3. CASE type \notin Closing
  <2>1. type # "dismiss" /\ type \notin Closing \ {"dismiss"}
    BY <1>3 DEF Closing
  <2>2. Result(r, row) = [status |-> row.status, version |-> row.version + 1,
                          closedBy |-> row.closedBy]
    BY <1>3, <2>1 DEF Result
  <2> QED
    BY <1>3, <2>2 DEF Row
<1> QED
  BY <1>1, <1>2, <1>3

\* A session that is given a new record keeps the type of all.
LEMMA SessionType ==
    ASSUME TypeOK, NEW s \in Sessions, NEW new \in Session,
           new.step # "idle" => new.request \in Requests,
           session' = [session EXCEPT ![s] = new]
    PROVE  /\ session' \in [Sessions -> Session]
           /\ \A t \in Sessions : session'[t].step # "idle" => session'[t].request \in Requests
BY DEF TypeOK

LEMMA RollbackType ==
    ASSUME TypeOK, NEW s \in Sessions, Rollback(s)
    PROVE  /\ session' \in [Sessions -> Session]
           /\ \A t \in Sessions : session'[t].step # "idle" => session'[t].request \in Requests
BY RecordTypes, SessionType DEF Rollback

\* What changes neither the row of an exception nor finds a new one.
LEMMA KnownStays ==
    ASSUME TypeInv, TypeOK',
           exception' = exception
             \/ \E x \in Exceptions : \E new : exception' = [exception EXCEPT ![x] = new]
    PROVE  TypeInv'
<1>1. CASE exception' = exception
  BY <1>1 DEF TypeInv, Known
<1>2. ASSUME NEW x \in Exceptions, NEW new, exception' = [exception EXCEPT ![x] = new]
      PROVE  TypeInv'
  <2>1. Known' \subseteq Known \cup {x}
    BY <1>2 DEF Known, TypeInv, TypeOK
  <2>2. IsFiniteSet(Known \cup {x})
    BY FS_AddElement DEF TypeInv
  <2> QED
    BY <2>1, <2>2, FS_Subset DEF TypeInv
<1> QED
  BY <1>1, <1>2

LEMMA LookupType == ASSUME TypeOK, NEW s \in Sessions, Lookup(s) PROVE TypeOK'
<1>1. PICK r \in Requests :
        \/ /\ session' = [session EXCEPT ![s] = [@ EXCEPT !.step = "lock", !.request = r]]
           /\ UNCHANGED acknowledged
        \/ Rollback(s) /\ acknowledged' \in {acknowledged, acknowledged \cup {r}}
  BY DEF Lookup
<1>2. /\ session' \in [Sessions -> Session]
      /\ \A t \in Sessions : session'[t].step # "idle" => session'[t].request \in Requests
  <2>1. CASE session' = [session EXCEPT ![s] = [@ EXCEPT !.step = "lock", !.request = r]]
    <3> DEFINE new == [session[s] EXCEPT !.step = "lock", !.request = r]
    <3>1. new \in Session /\ new.request = r
      BY TypeFacts DEF Session, Steps
    <3> HIDE DEF new
    <3>2. session' = [session EXCEPT ![s] = new]
      BY <2>1 DEF new
    <3> QED
      BY <3>1, <3>2, SessionType
  <2>2. CASE Rollback(s)
    BY <2>2, RollbackType
  <2> QED
    BY <1>1, <2>1, <2>2
<1>3. acknowledged' \subseteq Requests
  BY <1>1 DEF TypeOK
<1> QED
  BY <1>2, <1>3 DEF Lookup, invoice, TypeOK

\* A transaction that goes on, or rolls back, and writes nothing others see.
LEMMA GoesOnType ==
    ASSUME TypeOK, NEW s \in Sessions, session[s].step # "idle",
           UNCHANGED <<records, invoice, evaluation, recompute>>,
           \/ Rollback(s)
           \/ \E new \in Session : /\ new.request = session[s].request
                                   /\ session' = [session EXCEPT ![s] = new]
    PROVE  TypeOK'
<1>1. /\ session' \in [Sessions -> Session]
      /\ \A t \in Sessions : session'[t].step # "idle" => session'[t].request \in Requests
  BY RollbackType, SessionType DEF TypeOK
<1> QED
  BY <1>1 DEF TypeOK, records, invoice

LEMMA BlockingIsCounted == TypeInv => \A x : Cardinality(OpenBlocking \ {x}) \in Nat
<1> SUFFICES ASSUME TypeInv, NEW x PROVE Cardinality(OpenBlocking \ {x}) \in Nat
  OBVIOUS
<1>1. OpenBlocking \ {x} \subseteq Known
  BY DEF OpenBlocking, Known
<1> QED
  BY <1>1, FS_Subset, FS_CardinalityType DEF TypeInv

LEMMA RecountedType ==
    ASSUME TypeOK, NEW s \in Sessions PROVE Recounted(s) \in Process
<1>1. proc \in Process /\ session[s].count \in Nat
  BY TypeFacts DEF TypeOK
<1> DEFINE forced == Of(s).type \in Closing /\ IsBlocking(Of(s).target)
<1>2. Recounted(s) = [step |-> IF ~forced THEN proc.step
                               ELSE IF session[s].count = 0
                                    THEN "resolution_pending_recompute" ELSE "exception",
                      blocking |-> session[s].count,
                      eligible |-> proc.eligible /\ ~forced,
                      decision |-> proc.decision]
  BY DEF Recounted
<1>3. forced \in BOOLEAN /\ proc.eligible \in BOOLEAN
  BY <1>1 DEF Process
<1> HIDE DEF forced
<1> QED
  BY <1>1, <1>2, <1>3 DEF Process

LEMMA CommitType == ASSUME TypeOK, NEW s \in Sessions, Commit(s) PROVE TypeOK'
<1> DEFINE r == session[s].request
           c == Command[r]
<1>1. r \in Requests /\ c.target \in Exceptions /\ session[s].row \in Row
  BY TypeFacts, CommandFacts DEF Commit
<1>2. exception' \in [Exceptions -> Row]
  BY <1>1, ResultType DEF Commit, TypeOK
<1>3. proc' \in Process
  BY RecountedType DEF Commit
<1>4. /\ session' \in [Sessions -> Session]
      /\ \A t \in Sessions : session'[t].step # "idle" => session'[t].request \in Requests
  BY RollbackType DEF Commit
<1>5. applied' \in [Requests -> Nat]
  BY <1>1 DEF Commit, TypeOK
<1>6. /\ commands' \subseteq Requests /\ mapped' \subseteq Exceptions
      /\ message' \in {"pending", "sent", "dead_letter"} /\ acknowledged' \subseteq Requests
  BY <1>1 DEF Commit, TypeOK
<1>7. UNCHANGED <<billed, evaluation, recompute>>
  BY DEF Commit
<1> QED
  BY <1>2, <1>3, <1>4, <1>5, <1>6, <1>7 DEF TypeOK

LEMMA TransactionType ==
    ASSUME TypeInv, NEW s \in Sessions,
           LockRow(s) \/ Effect(s) \/ InsertCommand(s) \/ Disconnect(s)
    PROVE  TypeOK'
<1> USE DEF TypeInv
<1>1. CASE LockRow(s)
  <2>1. \A step \in Steps : [session[s] EXCEPT !.row = exception[Of(s).target], !.step = step]
                              \in Session
    BY <1>1, TypeFacts DEF LockRow, Session
  <2>2. CASE Rollback(s)
    BY <1>1, <2>2, GoesOnType DEF LockRow
  <2>3. CASE ~Rollback(s)
    <3> DEFINE step == IF Of(s).type \in {"map_sku", "retry_outbox"} THEN "effect" ELSE "insert"
               new == [session[s] EXCEPT !.row = exception[Of(s).target], !.step = step]
    <3>1. session' = [session EXCEPT ![s] = new]
      BY <1>1, <2>3 DEF LockRow
    <3>2. step \in Steps
      BY DEF Steps
    <3>3. new \in Session /\ new.request = session[s].request
      <4> HIDE DEF step
      <4> QED
        BY <2>1, <3>2, TypeFacts DEF Session
    <3> HIDE DEF new
    <3> QED
      BY <1>1, <3>1, <3>3, GoesOnType DEF LockRow
  <2> QED
    BY <2>2, <2>3
<1>2. CASE Effect(s)
  <2> DEFINE new == [session[s] EXCEPT !.step = "insert"]
  <2>1. new \in Session /\ new.request = session[s].request
    BY TypeFacts DEF Session, Steps
  <2>2. Rollback(s) \/ session' = [session EXCEPT ![s] = new]
    BY <1>2 DEF Effect
  <2> HIDE DEF new
  <2> QED
    BY <1>2, <2>1, <2>2, GoesOnType DEF Effect
<1>3. CASE InsertCommand(s)
  <2>1. PICK n \in Nat :
           \/ Rollback(s)
           \/ session' = [session EXCEPT ![s] = [@ EXCEPT !.step = "commit", !.count = n]]
    <3> DEFINE r == session[s].request
               target == Of(s).target
               own == IF Result(r, session[s].row).status = "open" /\ IsBlocking(target)
                      THEN 1 ELSE 0
    <3>1. own \in Nat /\ Cardinality(OpenBlocking \ {target}) \in Nat
      BY BlockingIsCounted
    <3> HIDE DEF own, target
    <3>2. Cardinality(OpenBlocking \ {target}) + own \in Nat
      BY <3>1
    <3>3. \/ Rollback(s)
          \/ session' = [session EXCEPT ![s] =
               [@ EXCEPT !.step = "commit",
                         !.count = Cardinality(OpenBlocking \ {target}) + own]]
      BY <1>3 DEF InsertCommand, own, target
    <3> QED
      BY <3>2, <3>3
  <2> DEFINE new == [session[s] EXCEPT !.step = "commit", !.count = n]
  <2>2. new \in Session /\ new.request = session[s].request
    BY TypeFacts DEF Session, Steps
  <2>3. Rollback(s) \/ session' = [session EXCEPT ![s] = new]
    BY <2>1
  <2> HIDE DEF new
  <2> QED
    BY <1>3, <2>2, <2>3, GoesOnType DEF InsertCommand
<1>4. CASE Disconnect(s)
  BY <1>4, GoesOnType DEF Disconnect
<1> QED
  BY <1>1, <1>2, <1>3, <1>4

LEMMA EligibilityType ==
    ASSUME TypeOK, RecomputeReads \/ RecomputeWrites \/ EvaluateReads \/ EvaluateWrites
    PROVE  TypeOK'
<1>0. proc.decision \in Nat /\ evaluation.decision \in Nat /\ recompute.decision \in Nat
  BY DEF TypeOK, Process, Reads
<1>1. CASE RecomputeReads
  BY <1>0, <1>1 DEF RecomputeReads, TypeOK, Reads, records, invoice
<1>2. CASE RecomputeWrites
  <2>1. \A b \in BOOLEAN : \A n \in Nat :
          [proc EXCEPT !.step = "invoice_blocked", !.eligible = b, !.decision = n] \in Process
    BY <1>0 DEF TypeOK, Process
  <2>2. recompute.decision + 1 \in Nat /\ FALSE \in BOOLEAN
    BY <1>0
  <2>3. [proc EXCEPT !.step = "invoice_blocked", !.eligible = FALSE,
                     !.decision = recompute.decision + 1] \in Process
    BY <2>1, <2>2, Zenon
  <2> QED
    BY <1>2, <2>3, RecordTypes DEF RecomputeWrites, OperatorVerdict, TypeOK, records
<1>3. CASE EvaluateReads
  BY <1>0, <1>3 DEF EvaluateReads, TypeOK, Reads, records, invoice
<1>4. CASE EvaluateWrites
  <2>1. PICK evidence \in BOOLEAN :
          LET eligible == evidence /\ evaluation.clear
              decision == evaluation.decision + 1
          IN /\ proc' = [proc EXCEPT
                  !.step = IF eligible THEN "invoice_ready" ELSE "invoice_blocked",
                  !.eligible = eligible, !.decision = decision]
             /\ billed' = IF eligible THEN billed \cup {decision} ELSE billed
    BY <1>4 DEF EvaluateWrites
  <2> DEFINE eligible == evidence /\ evaluation.clear
             decision == evaluation.decision + 1
  <2>2. eligible \in BOOLEAN /\ decision \in Nat
    BY <1>0 DEF TypeOK, Reads
  <2>3. /\ proc' = [proc EXCEPT
             !.step = IF eligible THEN "invoice_ready" ELSE "invoice_blocked",
             !.eligible = eligible, !.decision = decision]
        /\ billed' = IF eligible THEN billed \cup {decision} ELSE billed
    BY <2>1
  <2> HIDE DEF eligible, decision
  <2>4. \A step \in {"invoice_ready", "invoice_blocked"} :
          [proc EXCEPT !.step = step, !.eligible = eligible, !.decision = decision] \in Process
    BY <2>2 DEF TypeOK, Process
  <2>5. proc' \in Process /\ billed' \subseteq Nat
    BY <2>2, <2>3, <2>4 DEF TypeOK
  <2> QED
    BY <1>4, <2>5, RecordTypes DEF EvaluateWrites, TypeOK, records
<1> QED
  BY <1>1, <1>2, <1>3, <1>4

LEMMA OpensType == ASSUME TypeOK, NEW x \in Exceptions, Opens(x) PROVE TypeOK'
<1>1. [NoRow EXCEPT !.status = "open"] \in Row
  BY RecordTypes DEF Row
<1>2. [proc EXCEPT !.step = "exception", !.blocking = 1] \in Process
  BY DEF TypeOK, Process
<1> QED
  BY <1>1, <1>2 DEF Opens, TypeOK

LEMMA TypeStep == TypeInv /\ [Next]_vars => TypeInv'
<1> SUFFICES ASSUME TypeInv, [Next]_vars PROVE TypeInv'
  OBVIOUS
<1>0. TypeOK
  BY DEF TypeInv
<1>1. TypeOK'
  <2>1. CASE Dispatch
    BY <1>0, <2>1 DEF Dispatch, invoice, TypeOK
  <2>2. CASE UNCHANGED vars
    BY <1>0, <2>2 DEF vars, records, invoice, TypeOK
  <2> QED
    BY <1>0, <2>1, <2>2, LookupType, TransactionType, CommitType, EligibilityType, OpensType
       DEF Next, Execute
<1>2. exception' = exception
             \/ \E x \in Exceptions : \E new : exception' = [exception EXCEPT ![x] = new]
  <2>1. ASSUME NEW s \in Sessions, Commit(s)
        PROVE  exception' = exception
             \/ \E x \in Exceptions : \E new : exception' = [exception EXCEPT ![x] = new]
    <3>1. Command[session[s].request].target \in Exceptions
      BY <1>0, <2>1, TypeFacts, CommandFacts DEF Commit
    <3> QED
      BY <2>1, <3>1 DEF Commit
  <2>2. ASSUME NEW x \in Exceptions, Opens(x)
        PROVE  \E y \in Exceptions : \E new : exception' = [exception EXCEPT ![y] = new]
    BY <2>2 DEF Opens
  <2>3. CASE exception' = exception
    BY <2>3
  <2> QED
    BY <2>1, <2>2, <2>3
       DEF Next, Execute, vars, records, Lookup, LockRow, Effect, InsertCommand, Disconnect,
           RecomputeReads, RecomputeWrites, EvaluateReads, EvaluateWrites, Dispatch
<1> QED
  BY <1>1, <1>2, KnownStays

\* Rows, commands and transactions keep their types.
THEOREM TypeCorrect == Spec => []TypeOK
<1>1. TypeInv => TypeOK
  BY DEF TypeInv
<1> QED
  BY <1>1, TypeInit, TypeStep, PTL DEF Spec

-----------------------------------------------------------------------------
(* Locks *)

Holding(s) == InFlight(s, {"effect", "insert", "commit"})
Reviving(s) == InFlight(s, {"insert", "commit"}) /\ Of(s).type = "retry_outbox"

\* What a transaction knows of the rows it has locked.
Informed(s) ==
    /\ Holding(s) =>
         /\ session[s].row = exception[Of(s).target]
         /\ session[s].row.status # "absent"
         /\ Accepts(Of(s), session[s].row)
    /\ session[s].step = "commit" => KeyFree(session[s].request)
    /\ Reviving(s) => message = "dead_letter"

\* No two transactions have the same row locked.
Apart(s, t) ==
    /\ ~(Holding(s) /\ Holding(t) /\ Of(s).target = Of(t).target)
    /\ ~(session[s].step = "commit" /\ session[t].step = "commit" /\ Of(s).key = Of(t).key)
    /\ ~(Reviving(s) /\ Reviving(t))

LockInv ==
    /\ \A s \in Sessions : Informed(s)
    /\ \A s, t \in Sessions : s # t => Apart(s, t)

LEMMA LockInit == Init => LockInv
BY RecordTypes DEF Init, LockInv, Informed, Apart, Holding, Reviving, InFlight

LEMMA Unmoved ==
    ASSUME NEW t \in Sessions, session'[t] = session[t]
    PROVE  /\ Holding(t)' <=> Holding(t)
           /\ Reviving(t)' <=> Reviving(t)
           /\ Of(t)' = Of(t)
BY DEF Holding, Reviving, InFlight, Of

\* One session moves, and the rows stay as they are.
LEMMA LockMove ==
    ASSUME LockInv, NEW s \in Sessions, UNCHANGED <<exception, commands, message>>,
           \A t \in Sessions \ {s} : session'[t] = session[t],
           Informed(s)', \A t \in Sessions \ {s} : Apart(s, t)'
    PROVE  LockInv'
<1>1. ASSUME NEW t \in Sessions, t # s PROVE Informed(t)'
  <2>1. Informed(t) /\ session'[t] = session[t]
    BY <1>1 DEF LockInv
  <2> QED
    BY <2>1, Unmoved DEF Informed, KeyFree
<1>2. ASSUME NEW t \in Sessions, NEW u \in Sessions, t # u PROVE Apart(t, u)'
  <2>1. CASE t = s
    BY <1>2, <2>1
  <2>2. CASE u = s
    <3>1. Apart(s, t)'
      BY <1>2, <2>2
    <3> QED
      BY <2>2, <3>1 DEF Apart
  <2>3. CASE t # s /\ u # s
    <3>1. Apart(t, u) /\ session'[t] = session[t] /\ session'[u] = session[u]
      BY <1>2, <2>3 DEF LockInv
    <3> QED
      BY <3>1, Unmoved DEF Apart
  <2> QED
    BY <2>1, <2>2, <2>3
<1> QED
  BY <1>1, <1>2 DEF LockInv

\* A session without locks disturbs nobody.
LEMMA LockRelease ==
    ASSUME LockInv, NEW s \in Sessions, UNCHANGED <<exception, commands, message>>,
           \A t \in Sessions \ {s} : session'[t] = session[t],
           session'[s].step \in {"idle", "lock"}
    PROVE  LockInv'
<1>1. Informed(s)' /\ \A t \in Sessions \ {s} : Apart(s, t)'
  BY DEF Informed, Apart, Holding, Reviving, InFlight
<1> QED
  BY <1>1, LockMove

LEMMA RollsBack ==
    ASSUME TypeOK, NEW s \in Sessions, Rollback(s)
    PROVE  /\ session'[s].step = "idle"
           /\ \A t \in Sessions \ {s} : session'[t] = session[t]
BY RecordTypes DEF Rollback, TypeOK

LEMMA LockStepLookup ==
    ASSUME TypeOK, LockInv, NEW s \in Sessions, Lookup(s) PROVE LockInv'
<1>1. UNCHANGED <<exception, commands, message>>
  BY DEF Lookup
<1>2. CASE Rollback(s)
  BY <1>1, <1>2, RollsBack, LockRelease
<1>3. CASE ~Rollback(s)
  <2>1. PICK r \in Requests :
          session' = [session EXCEPT ![s] = [@ EXCEPT !.step = "lock", !.request = r]]
    BY <1>3 DEF Lookup
  <2>2. /\ session'[s].step = "lock"
        /\ \A t \in Sessions \ {s} : session'[t] = session[t]
    BY <2>1 DEF TypeOK, Session
  <2> QED
    BY <1>1, <2>2, LockRelease
<1> QED
  BY <1>2, <1>3

LEMMA LockStepLockRow ==
    ASSUME TypeOK, LockInv, NEW s \in Sessions, LockRow(s) PROVE LockInv'
<1>1. UNCHANGED <<exception, commands, message>> /\ session[s].step = "lock"
  BY DEF LockRow, records
<1>2. CASE Rollback(s)
  BY <1>1, <1>2, RollsBack, LockRelease
<1>3. CASE ~Rollback(s)
  <2> DEFINE step == IF Of(s).type \in {"map_sku", "retry_outbox"} THEN "effect" ELSE "insert"
  <2>1. /\ exception[Of(s).target].status # "absent"
        /\ Accepts(Of(s), exception[Of(s).target])
        /\ session' = [session EXCEPT ![s] =
             [@ EXCEPT !.row = exception[Of(s).target], !.step = step]]
    BY <1>3 DEF LockRow
  <2>2. step \in {"effect", "insert"} /\ (Of(s).type = "retry_outbox" => step = "effect")
    OBVIOUS
  <2> HIDE DEF step
  <2>3. /\ session'[s].row = exception[Of(s).target] /\ session'[s].step = step
        /\ session'[s].request = session[s].request
        /\ \A t \in Sessions \ {s} : session'[t] = session[t]
    BY <2>1, TypeFacts DEF TypeOK, Session
  <2>4. Of(s)' = Of(s)
    BY <2>3 DEF Of
  <2>5. ~Reviving(s)' /\ session'[s].step # "commit"
    BY <2>2, <2>3, <2>4 DEF Reviving, InFlight
  <2>6. Informed(s)'
    BY <1>1, <2>1, <2>3, <2>4, <2>5 DEF Informed
  <2>7. ASSUME NEW t \in Sessions \ {s} PROVE Apart(s, t)'
    <3>1. Holding(t)' => Of(t)'.target # Of(s)'.target
      <4>1. Holding(t)' => Holding(t) /\ Of(t)' = Of(t)
        BY <2>3, Unmoved
      <4>2. Holding(t) => Of(t).target # Of(s).target
        BY DEF LockRow, WaitsForNobody, WaitsFor, RowHeld, Holding
      <4> QED
        BY <2>4, <4>1, <4>2
    <3> QED
      BY <2>5, <3>1 DEF Apart
  <2> QED
    BY <1>1, <2>3, <2>6, <2>7, LockMove
<1> QED
  BY <1>2, <1>3

\* A session that holds its locks moves on.
LEMMA HeldMove ==
    ASSUME TypeOK, LockInv, NEW s \in Sessions, NEW new \in Session, Holding(s),
           session' = [session EXCEPT ![s] = new], new.step \in {"insert", "commit"},
           new.row = session[s].row, new.request = session[s].request,
           UNCHANGED <<exception, commands, message>>,
           new.step = "commit" => KeyFree(session[s].request),
           Of(s).type = "retry_outbox" => message = "dead_letter",
           \A t \in Sessions \ {s} :
             /\ new.step = "commit" /\ session[t].step = "commit" => Of(t).key # Of(s).key
             /\ Of(s).type = "retry_outbox" => ~Reviving(t)
    PROVE  LockInv'
<1>1. session'[s] = new /\ \A t \in Sessions \ {s} : session'[t] = session[t]
  BY DEF TypeOK
<1>2. Of(s)' = Of(s) /\ Holding(s)'
  BY <1>1 DEF Of, Holding, InFlight
<1>3. Informed(s)'
  BY <1>1, <1>2 DEF LockInv, Informed, Reviving, InFlight, KeyFree
<1>4. ASSUME NEW t \in Sessions \ {s} PROVE Apart(s, t)'
  <2>1. /\ Apart(s, t) /\ session'[t] = session[t] /\ Of(t)' = Of(t)
        /\ (Holding(t)' <=> Holding(t)) /\ (Reviving(t)' <=> Reviving(t))
    BY <1>1, Unmoved DEF LockInv
  <2>2. Reviving(s)' => Of(s).type = "retry_outbox"
    BY <1>2 DEF Reviving
  <2> QED
    BY <1>1, <1>2, <2>1, <2>2 DEF Apart
<1> QED
  BY <1>1, <1>3, <1>4, LockMove

LEMMA LockStepEffect ==
    ASSUME TypeOK, LockInv, NEW s \in Sessions, Effect(s) PROVE LockInv'
<1>1. UNCHANGED <<exception, commands, message>> /\ session[s].step = "effect"
  BY DEF Effect, records
<1>2. CASE Rollback(s)
  BY <1>1, <1>2, RollsBack, LockRelease
<1>3. CASE ~Rollback(s)
  <2> DEFINE new == [session[s] EXCEPT !.step = "insert"]
  <2>1. /\ session' = [session EXCEPT ![s] = new]
        /\ Of(s).type = "retry_outbox" => message = "dead_letter"
    BY <1>3 DEF Effect, Revivable
  <2>2. /\ new \in Session /\ new.step = "insert" /\ new.row = session[s].row
        /\ new.request = session[s].request
    BY TypeFacts DEF Session, Steps
  <2>3. \A t \in Sessions \ {s} : Of(s).type = "retry_outbox" => ~Reviving(t)
    BY <1>1 DEF Effect, WaitsForNobody, WaitsFor, EffectHeld, Reviving
  <2>4. Holding(s)
    BY <1>1 DEF Holding, InFlight
  <2> HIDE DEF new
  <2> QED
    BY <1>1, <2>1, <2>2, <2>3, <2>4, HeldMove
<1> QED
  BY <1>2, <1>3

LEMMA LockStepInsert ==
    ASSUME TypeOK, LockInv, NEW s \in Sessions, InsertCommand(s), TypeOK' PROVE LockInv'
<1>1. UNCHANGED <<exception, commands, message>> /\ session[s].step = "insert"
  BY DEF InsertCommand, records
<1>2. CASE Rollback(s)
  BY <1>1, <1>2, RollsBack, LockRelease
<1>3. CASE ~Rollback(s)
  <2>1. KeyFree(session[s].request)
    BY <1>3 DEF InsertCommand
  <2>2. PICK n : session' = [session EXCEPT ![s] = [@ EXCEPT !.step = "commit", !.count = n]]
    BY <1>3 DEF InsertCommand
  <2> DEFINE new == [session[s] EXCEPT !.step = "commit", !.count = n]
  <2>3. session' = [session EXCEPT ![s] = new] /\ session'[s] = new
    BY <2>2 DEF TypeOK
  <2>4. new \in Session
    BY <2>3 DEF TypeOK
  <2>5. new.step = "commit" /\ new.row = session[s].row /\ new.request = session[s].request
    BY TypeFacts DEF Session
  <2>6. Holding(s) /\ (Of(s).type = "retry_outbox" => Reviving(s))
    BY <1>1 DEF Holding, Reviving, InFlight
  <2>7. Of(s).type = "retry_outbox" => message = "dead_letter"
    BY <2>6 DEF LockInv, Informed
  <2>8. \A t \in Sessions \ {s} : Of(s).type = "retry_outbox" => ~Reviving(t)
    BY <2>6 DEF LockInv, Apart
  <2>9. \A t \in Sessions \ {s} : session[t].step = "commit" => Of(t).key # Of(s).key
    BY <1>1 DEF InsertCommand, WaitsForNobody, WaitsFor, KeyHeld, InFlight
  <2> HIDE DEF new
  <2> QED
    BY <1>1, <2>1, <2>3, <2>4, <2>5, <2>6, <2>7, <2>8, <2>9, HeldMove
<1> QED
  BY <1>2, <1>3

\* What a commit finds: the row as it was read, a free key and, for a retry, a
\* dead letter.
LEMMA CommitFacts ==
    ASSUME TypeOK, LockInv, NEW s \in Sessions, Commit(s), NEW r, r = session[s].request
    PROVE  /\ r \in Requests /\ Of(s) = Command[r] /\ Command[r].target \in Exceptions
           /\ Holding(s) /\ session[s].row = exception[Command[r].target]
           /\ exception[Command[r].target].status # "absent"
           /\ Accepts(Command[r], exception[Command[r].target])
           /\ exception' = [exception EXCEPT ![Command[r].target] =
                              Result(r, exception[Command[r].target])]
           /\ KeyFree(r) /\ r \notin commands
           /\ commands' = commands \cup {r}
           /\ Command[r].type = "retry_outbox" => Reviving(s) /\ message = "dead_letter"
<1>1. session[s].step = "commit"
  BY DEF Commit
<1>2. r \in Requests /\ Of(s) = Command[r] /\ Command[r].target \in Exceptions
  BY <1>1, TypeFacts
<1>3. /\ Holding(s)
      /\ Command[r].type = "retry_outbox" => Reviving(s)
  BY <1>1, <1>2 DEF Holding, Reviving, InFlight
<1>4. /\ session[s].row = exception[Command[r].target]
      /\ exception[Command[r].target].status # "absent"
      /\ Accepts(Command[r], exception[Command[r].target])
      /\ KeyFree(r)
      /\ Reviving(s) => message = "dead_letter"
  BY <1>1, <1>2, <1>3 DEF LockInv, Informed
<1>5. r \notin commands
  BY <1>4 DEF KeyFree
<1>6. /\ exception' = [exception EXCEPT ![Command[r].target] =
                         Result(r, exception[Command[r].target])]
      /\ commands' = commands \cup {r}
  BY <1>4 DEF Commit
<1> QED
  BY <1>2, <1>3, <1>4, <1>5, <1>6

LEMMA LockStepCommit ==
    ASSUME TypeOK, LockInv, NEW s \in Sessions, Commit(s) PROVE LockInv'
<1>1. PICK r : r = session[s].request
  OBVIOUS
<1>2. /\ session'[s].step = "idle"
      /\ \A t \in Sessions \ {s} : session'[t] = session[t]
  BY RollsBack DEF Commit
<1>3. session[s].step = "commit"
  BY DEF Commit
<1>4. ASSUME NEW t \in Sessions, t # s PROVE Informed(t)'
  <2>1. Informed(t) /\ Apart(s, t) /\ session'[t] = session[t]
    BY <1>2, <1>4 DEF LockInv
  <2>2. /\ Holding(t)' <=> Holding(t)
        /\ Reviving(t)' <=> Reviving(t)
        /\ Of(t)' = Of(t)
    BY <2>1, Unmoved
  <2>3. ASSUME Holding(t)
        PROVE  exception'[Of(t).target] = exception[Of(t).target]
    <3>1. Of(t).target # Command[r].target
      BY <1>1, <2>1, <2>3, CommitFacts DEF Apart
    <3>2. Of(t).target \in Exceptions
      BY <2>3, TypeFacts DEF Holding, InFlight
    <3> QED
      BY <1>1, <3>1, <3>2, CommitFacts DEF TypeOK
  <2>4. ASSUME session[t].step = "commit" PROVE KeyFree(session[t].request)'
    <3>1. Of(t).key # Command[r].key /\ Of(t) = Command[session[t].request]
      BY <1>1, <1>3, <2>1, <2>4, CommitFacts DEF Apart, Of
    <3>2. commands' = commands \cup {r} /\ KeyFree(session[t].request)
      BY <1>1, <2>1, <2>4, CommitFacts DEF Informed
    <3> QED
      BY <2>1, <3>1, <3>2 DEF KeyFree
  <2>5. ASSUME Reviving(t) PROVE message' = "dead_letter"
    <3>1. ~Reviving(s) /\ message = "dead_letter"
      BY <2>1, <2>5 DEF Apart, Informed
    <3>2. Command[r].type # "retry_outbox"
      BY <1>1, <3>1, CommitFacts
    <3> QED
      BY <1>1, <3>1, <3>2 DEF Commit
  <2>6. Holding(t)' =>
          /\ session'[t].row = exception'[Of(t)'.target]
          /\ session'[t].row.status # "absent"
          /\ Accepts(Of(t)', session'[t].row)
    BY <2>1, <2>2, <2>3 DEF Informed
  <2>7. session'[t].step = "commit" => KeyFree(session[t].request)'
    BY <2>1, <2>4
  <2> QED
    BY <2>2, <2>5, <2>6, <2>7 DEF Informed
<1>5. Informed(s)'
  BY <1>2 DEF Informed, Holding, Reviving, InFlight
<1>6. ASSUME NEW t \in Sessions, NEW u \in Sessions, t # u PROVE Apart(t, u)'
  <2>1. CASE t = s \/ u = s
    BY <1>2, <2>1 DEF Apart, Holding, Reviving, InFlight
  <2>2. CASE t # s /\ u # s
    <3>1. Apart(t, u) /\ session'[t] = session[t] /\ session'[u] = session[u]
      BY <1>2, <1>6, <2>2 DEF LockInv
    <3> QED
      BY <3>1, Unmoved DEF Apart
  <2> QED
    BY <2>1, <2>2
<1> QED
  BY <1>4, <1>5, <1>6 DEF LockInv

LEMMA LockStep == TypeInv /\ LockInv /\ [Next]_vars => LockInv'
<1> SUFFICES ASSUME TypeInv, LockInv, [Next]_vars PROVE LockInv'
  OBVIOUS
<1>0. TypeOK /\ TypeOK'
  BY TypeStep DEF TypeInv
<1>1. ASSUME NEW s \in Sessions, Disconnect(s) PROVE LockInv'
  BY <1>0, <1>1, RollsBack, LockRelease DEF Disconnect, records
<1>2. ASSUME UNCHANGED <<exception, commands, message, session>> PROVE LockInv'
  BY <1>2 DEF LockInv, Informed, Apart, Holding, Reviving, InFlight, Of, KeyFree
<1>3. ASSUME NEW x \in Exceptions, Opens(x) PROVE LockInv'
  <2>1. UNCHANGED <<commands, message, session>> /\ exception[x].status = "absent"
        /\ \A y \in Exceptions \ {x} : exception'[y] = exception[y]
    BY <1>0, <1>3 DEF Opens, TypeOK
  <2>2. ASSUME NEW s \in Sessions, Holding(s)
        PROVE  exception'[Of(s).target] = exception[Of(s).target]
    <3>1. exception[Of(s).target].status # "absent" /\ Of(s).target \in Exceptions
      BY <1>0, <2>2, TypeFacts DEF LockInv, Informed, Holding, InFlight
    <3> QED
      BY <2>1, <3>1
  <2>3. ASSUME NEW s \in Sessions PROVE Informed(s)'
    <3>1. Informed(s) /\ session'[s] = session[s]
      BY <2>1 DEF LockInv
    <3> QED
      BY <2>1, <2>2, <3>1, Unmoved DEF Informed, KeyFree
  <2>4. \A s, t \in Sessions : s # t => Apart(s, t)'
    BY <2>1 DEF LockInv, Apart, Holding, Reviving, InFlight, Of
  <2> QED
    BY <2>3, <2>4 DEF LockInv
<1>4. ASSUME Dispatch PROVE LockInv'
  <2>1. message = "pending" /\ UNCHANGED <<exception, commands, session>>
    BY <1>4 DEF Dispatch
  <2>2. \A s \in Sessions : ~Reviving(s)
    BY <2>1 DEF LockInv, Informed
  <2> QED
    BY <2>1, <2>2 DEF LockInv, Informed, Apart, Holding, Reviving, InFlight, Of, KeyFree
<1> QED
  BY <1>0, <1>1, <1>2, <1>3, <1>4, LockStepLookup, LockStepLockRow, LockStepEffect,
     LockStepInsert, LockStepCommit
     DEF Next, Execute, RecomputeReads, RecomputeWrites, EvaluateReads, EvaluateWrites,
         vars, records

-----------------------------------------------------------------------------
(* The records *)

CommandsOn(x) == {r \in commands : Command[r].target = x}

RecordInv ==
    /\ \A r \in Requests : applied[r] = IF r \in commands THEN 1 ELSE 0
    /\ \A q, r \in commands : Command[q].key = Command[r].key => q = r
    /\ IsFiniteSet(commands)
    /\ \A x \in Exceptions : exception[x].status = "absent" => exception[x] = NoRow
    /\ VersionsCountCommands
    /\ ClosedByOneCommand
    /\ AcknowledgedIsRecorded

LEMMA RecordInit == Init => RecordInv
<1> SUFFICES ASSUME Init PROVE RecordInv
  OBVIOUS
<1>1. commands = {} /\ acknowledged = {} /\ \A x \in Exceptions : exception[x] = NoRow
  BY DEF Init
<1>2. VersionsCountCommands
  <2>1. \A x \in Exceptions : {r \in commands : Command[r].target = x} = {}
    BY <1>1
  <2>2. NoRow.version = 1 /\ Cardinality({}) = 0
    BY FS_EmptySet DEF NoRow
  <2> QED
    <3> SUFFICES ASSUME NEW x \in Exceptions
                 PROVE  exception[x].version =
                          1 + Cardinality({r \in commands : Command[r].target = x})
      BY DEF VersionsCountCommands
    <3>1. exception[x].version = 1
      BY <1>1, <2>2
    <3>2. Cardinality({r \in commands : Command[r].target = x}) = 0
      BY <2>1, <2>2
    <3> QED
      BY <3>1, <3>2
<1>3. ClosedByOneCommand
  BY <1>1, RecordTypes DEF ClosedByOneCommand
<1> QED
  BY <1>1, <1>2, <1>3, FS_EmptySet DEF Init, RecordInv, AcknowledgedIsRecorded

\* The version counts one command more, and so does the record.
LEMMA VersionsCommit ==
    ASSUME TypeOK, LockInv, RecordInv, NEW s \in Sessions, Commit(s)
    PROVE  VersionsCountCommands'
<1>1. PICK r : r = session[s].request
  OBVIOUS
<1> DEFINE x == Command[r].target
<1>2. /\ r \in Requests /\ x \in Exceptions /\ r \notin commands
      /\ exception' = [exception EXCEPT ![x] = Result(r, exception[x])]
      /\ commands' = commands \cup {r}
  BY <1>1, CommitFacts
<1> SUFFICES ASSUME NEW y \in Exceptions
             PROVE  exception'[y].version =
                      1 + Cardinality({q \in commands' : Command[q].target = y})
  BY DEF VersionsCountCommands
<1>3. exception[y].version = 1 + Cardinality(CommandsOn(y)) /\ IsFiniteSet(CommandsOn(y))
  <2>1. CommandsOn(y) \subseteq commands
    BY DEF CommandsOn
  <2> QED
    BY <2>1, FS_Subset DEF RecordInv, VersionsCountCommands, CommandsOn
<1>4. CASE y = x
  <2>1. exception'[y].version = exception[y].version + 1
    BY <1>2, <1>4, ResultType, TypeFacts DEF TypeOK
  <2>2. {q \in commands' : Command[q].target = y} = CommandsOn(y) \cup {r}
    BY <1>2, <1>4 DEF CommandsOn
  <2>3. Cardinality(CommandsOn(y) \cup {r}) = Cardinality(CommandsOn(y)) + 1
    <3>1. r \notin CommandsOn(y)
      BY <1>2 DEF CommandsOn
    <3> QED
      BY <1>3, <3>1, FS_AddElement
  <2>4. Cardinality(CommandsOn(y)) \in Nat
    BY <1>3, FS_CardinalityType
  <2>5. exception'[y].version = 1 + Cardinality(CommandsOn(y) \cup {r})
    BY <1>3, <2>1, <2>3, <2>4
  <2> QED
    BY <2>2, <2>5, Zenon
<1>5. CASE y # x
  <2>1. exception'[y] = exception[y]
    BY <1>2, <1>5 DEF TypeOK
  <2>2. {q \in commands' : Command[q].target = y} = CommandsOn(y)
    BY <1>2, <1>5 DEF CommandsOn
  <2> QED
    BY <1>3, <2>1, <2>2
<1> QED
  BY <1>4, <1>5

\* An open exception has no closing command, so the one that closes it is alone.
LEMMA ClosedCommit ==
    ASSUME TypeOK, LockInv, RecordInv, NEW s \in Sessions, Commit(s)
    PROVE  ClosedByOneCommand'
<1>1. PICK r : r = session[s].request
  OBVIOUS
<1> DEFINE x == Command[r].target
           ClosingOn(y) == {q \in commands : Command[q].target = y /\ Command[q].type \in Closing}
<1>2. /\ r \in Requests /\ x \in Exceptions
      /\ exception' = [exception EXCEPT ![x] = Result(r, exception[x])]
      /\ commands' = commands \cup {r}
      /\ Accepts(Command[r], exception[x])
      /\ Command[r].type \in CommandTypes
  BY <1>1, CommitFacts, CommandFacts
<1> SUFFICES ASSUME NEW y \in Exceptions
             PROVE  {q \in commands' : Command[q].target = y /\ Command[q].type \in Closing}
                      = IF exception'[y].status \in {"resolved", "dismissed"}
                        THEN {exception'[y].closedBy} ELSE {}
  BY DEF ClosedByOneCommand
<1>3. ClosingOn(y) = IF exception[y].status \in {"resolved", "dismissed"}
                     THEN {exception[y].closedBy} ELSE {}
  BY DEF RecordInv, ClosedByOneCommand
<1>4. CASE y # x
  BY <1>2, <1>3, <1>4 DEF TypeOK
<1>5. CASE y = x /\ Command[r].type \in Closing
  <2>1. exception[y].status = "open"
    BY <1>2, <1>5 DEF Accepts, Closing
  <2>2. \A q \in commands : ~(Command[q].target = y /\ Command[q].type \in Closing)
    BY <1>3, <2>1
  <2>3. {q \in commands' : Command[q].target = y /\ Command[q].type \in Closing} = {r}
    BY <1>2, <1>5, <2>2
  <2>4. exception'[y].status \in {"resolved", "dismissed"} /\ exception'[y].closedBy = r
    BY <1>2, <1>5, ResultType, TypeFacts DEF TypeOK
  <2> QED
    BY <2>3, <2>4
<1>6. CASE y = x /\ Command[r].type \notin Closing
  <2>1. {q \in commands' : Command[q].target = y /\ Command[q].type \in Closing} = ClosingOn(y)
    BY <1>2, <1>6
  <2>2. exception'[y].status = exception[y].status /\ exception'[y].closedBy = exception[y].closedBy
    BY <1>2, <1>6, ResultType, TypeFacts DEF TypeOK
  <2> QED
    BY <1>3, <2>1, <2>2
<1> QED
  BY <1>4, <1>5, <1>6

LEMMA RecordCommit ==
    ASSUME TypeOK, LockInv, RecordInv, NEW s \in Sessions, Commit(s)
    PROVE  RecordInv'
<1>1. PICK r : r = session[s].request
  OBVIOUS
<1> DEFINE x == Command[r].target
<1>2. /\ r \in Requests /\ x \in Exceptions /\ r \notin commands /\ KeyFree(r)
      /\ exception' = [exception EXCEPT ![x] = Result(r, exception[x])]
      /\ exception[x].status # "absent"
      /\ commands' = commands \cup {r}
      /\ commands \subseteq Requests
  BY <1>1, CommitFacts DEF TypeOK
<1>3. applied' = [applied EXCEPT ![r] = @ + 1] /\ acknowledged' = acknowledged \cup {r}
  BY <1>1 DEF Commit
<1>4. ASSUME NEW q \in Requests PROVE applied'[q] = IF q \in commands' THEN 1 ELSE 0
  BY <1>2, <1>3 DEF RecordInv, TypeOK
<1>5. \A p, q \in commands' : Command[p].key = Command[q].key => p = q
  BY <1>2 DEF RecordInv, KeyFree
<1>6. IsFiniteSet(commands')
  BY <1>2, FS_AddElement DEF RecordInv
<1>7. ASSUME NEW y \in Exceptions, exception'[y].status = "absent" PROVE exception'[y] = NoRow
  <2>1. Result(r, exception[x]).status # "absent"
    BY <1>2, ResultType, TypeFacts
  <2>2. y # x
    BY <1>2, <1>7, <2>1 DEF TypeOK
  <2> QED
    BY <1>2, <1>7, <2>2 DEF RecordInv, TypeOK
<1>8. AcknowledgedIsRecorded'
  BY <1>2, <1>3 DEF RecordInv, AcknowledgedIsRecorded
<1> QED
  BY <1>4, <1>5, <1>6, <1>7, <1>8, VersionsCommit, ClosedCommit DEF RecordInv

LEMMA RecordStep == TypeInv /\ LockInv /\ RecordInv /\ [Next]_vars => RecordInv'
<1> SUFFICES ASSUME TypeInv, LockInv, RecordInv, [Next]_vars PROVE RecordInv'
  OBVIOUS
<1>0. TypeOK
  BY DEF TypeInv
<1>1. ASSUME UNCHANGED <<exception, commands, applied, acknowledged>> PROVE RecordInv'
  BY <1>1 DEF RecordInv, VersionsCountCommands, ClosedByOneCommand, AcknowledgedIsRecorded
<1>2. ASSUME NEW s \in Sessions, Lookup(s) PROVE RecordInv'
  <2>1. UNCHANGED <<exception, commands, applied>>
    BY <1>2 DEF Lookup
  <2>2. PICK r \in Requests :
          \/ UNCHANGED acknowledged
          \/ /\ \E q \in commands : Command[q].key = Command[r].key /\ SameTarget(q, r)
             /\ acknowledged' = acknowledged \cup {r}
    BY <1>2 DEF Lookup
  <2>3. AcknowledgedIsRecorded'
    BY <2>1, <2>2 DEF RecordInv, AcknowledgedIsRecorded, SameTarget
  <2> QED
    BY <2>1, <2>3 DEF RecordInv, VersionsCountCommands, ClosedByOneCommand
<1>3. ASSUME NEW x \in Exceptions, Opens(x) PROVE RecordInv'
  <2>1. /\ UNCHANGED <<commands, applied, acknowledged>>
        /\ exception[x].status = "absent" /\ exception[x] = NoRow
        /\ exception' = [exception EXCEPT ![x] = [NoRow EXCEPT !.status = "open"]]
    BY <1>3 DEF Opens, RecordInv
  <2>2. exception'[x] = [NoRow EXCEPT !.status = "open"]
        /\ \A y \in Exceptions \ {x} : exception'[y] = exception[y]
    BY <1>0, <2>1 DEF TypeOK
  <2>3. /\ exception'[x].status = "open" /\ exception'[x].version = exception[x].version
    BY <2>1, <2>2 DEF NoRow
  <2>4. VersionsCountCommands'
    BY <2>1, <2>2, <2>3 DEF RecordInv, VersionsCountCommands
  <2>5. ClosedByOneCommand'
    BY <2>1, <2>2, <2>3 DEF RecordInv, ClosedByOneCommand
  <2> QED
    BY <2>1, <2>2, <2>3, <2>4, <2>5 DEF RecordInv, AcknowledgedIsRecorded
<1> QED
  BY <1>0, <1>1, <1>2, <1>3, RecordCommit
     DEF Next, Execute, LockRow, Effect, InsertCommand, Disconnect, RecomputeReads,
         RecomputeWrites, EvaluateReads, EvaluateWrites, Dispatch, vars, records

IInv == TypeInv /\ LockInv /\ RecordInv

LEMMA IInvInit == Init => IInv
BY TypeInit, LockInit, RecordInit DEF IInv

LEMMA IInvStep == IInv /\ [Next]_vars => IInv'
BY TypeStep, LockStep, RecordStep DEF IInv

\* Of the commands that were sent for one version one is carried out, although
\* the update of the row ignores whether it matched: the lock makes it match.
THEOREM VersionsCountCommandsCorrect == Spec => []VersionsCountCommands
<1>1. IInv => VersionsCountCommands
  BY DEF IInv, RecordInv
<1> QED
  BY <1>1, IInvInit, IInvStep, PTL DEF Spec

\* A key takes effect once however often and however concurrently its request is
\* delivered, and whoever hears of success has it on record.
THEOREM CommandsAreIdempotentCorrect == Spec => []CommandsAreIdempotent
<1>1. IInv => CommandsAreIdempotent
  <2> SUFFICES ASSUME IInv PROVE OncePerKey /\ AcknowledgedIsRecorded
    BY DEF CommandsAreIdempotent
  <2>1. \A r \in Requests : applied[r] = IF r \in commands THEN 1 ELSE 0
    BY DEF IInv, RecordInv
  <2>2. \A q, r \in commands : Command[q].key = Command[r].key => q = r
    BY DEF IInv, RecordInv
  <2>3. OncePerKey
    BY <2>1, <2>2 DEF OncePerKey
  <2> QED
    BY <2>3 DEF IInv, RecordInv
<1> QED
  BY <1>1, IInvInit, IInvStep, PTL DEF Spec

\* A closed exception has one closing command, the one its row names.
THEOREM ClosedByOneCommandCorrect == Spec => []ClosedByOneCommand
<1>1. IInv => ClosedByOneCommand
  BY DEF IInv, RecordInv
<1> QED
  BY <1>1, IInvInit, IInvStep, PTL DEF Spec

-----------------------------------------------------------------------------
(* Messages and billing *)

\* A retry that commits still holds the dead letter it locked, so a message that
\* was sent meanwhile is never queued again.
THEOREM SentIsNeverRevivedCorrect == Spec => SentIsNeverRevived
<1>1. IInv /\ [Next]_vars => [message = "sent" => message' = "sent"]_message
  <2> SUFFICES ASSUME IInv, [Next]_vars, message = "sent", message' # message PROVE FALSE
    OBVIOUS
  <2>1. ASSUME NEW s \in Sessions, Commit(s) PROVE FALSE
    <3>1. PICK r : r = session[s].request
      OBVIOUS
    <3>2. Command[r].type # "retry_outbox"
      BY <2>1, <3>1, CommitFacts DEF IInv, TypeInv
    <3> QED
      BY <2>1, <3>1, <3>2 DEF Commit
  <2>2. ~Dispatch
    BY DEF Dispatch
  <2> QED
    BY <2>1, <2>2
       DEF Next, Execute, Lookup, LockRow, Effect, InsertCommand, Disconnect, Opens,
           RecomputeReads, RecomputeWrites, EvaluateReads, EvaluateWrites, vars, records
<1> QED
  BY <1>1, IInvInit, IInvStep, PTL DEF Spec, SentIsNeverRevived

\* Recomputations and resolutions only ever withdraw eligibility; who grants it
\* tells billing in the same transaction.
THEOREM EligibleIsBilledCorrect == Spec => []EligibleIsBilled
<1>1. Init => EligibleIsBilled
  BY DEF Init, EligibleIsBilled
<1>2. EligibleIsBilled /\ TypeInv /\ [Next]_vars => EligibleIsBilled'
  <2> SUFFICES ASSUME EligibleIsBilled, TypeInv, [Next]_vars PROVE EligibleIsBilled'
    OBVIOUS
  <2>0. proc \in Process
    BY DEF TypeInv, TypeOK
  <2>1. ASSUME UNCHANGED invoice PROVE EligibleIsBilled'
    BY <2>1 DEF invoice, EligibleIsBilled
  <2>2. ASSUME NEW s \in Sessions, Commit(s) PROVE EligibleIsBilled'
    <3>1. proc' = Recounted(s) /\ billed' = billed
      BY <2>2 DEF Commit
    <3>2. Recounted(s).decision = proc.decision /\ (Recounted(s).eligible => proc.eligible)
      BY DEF Recounted
    <3> QED
      BY <3>1, <3>2 DEF EligibleIsBilled
  <2>3. ASSUME RecomputeWrites PROVE EligibleIsBilled'
    BY <2>0, <2>3 DEF RecomputeWrites, OperatorVerdict, EligibleIsBilled, Process
  <2>4. ASSUME EvaluateWrites PROVE EligibleIsBilled'
    <3>1. PICK evidence \in BOOLEAN :
            LET eligible == evidence /\ evaluation.clear
                decision == evaluation.decision + 1
            IN /\ proc' = [proc EXCEPT
                    !.step = IF eligible THEN "invoice_ready" ELSE "invoice_blocked",
                    !.eligible = eligible, !.decision = decision]
               /\ billed' = IF eligible THEN billed \cup {decision} ELSE billed
      BY <2>4 DEF EvaluateWrites
    <3> DEFINE eligible == evidence /\ evaluation.clear
               decision == evaluation.decision + 1
    <3>2. proc' = [proc EXCEPT
            !.step = IF eligible THEN "invoice_ready" ELSE "invoice_blocked",
            !.eligible = eligible, !.decision = decision]
          /\ (eligible => decision \in billed')
      BY <3>1
    <3> HIDE DEF eligible, decision
    <3>3. proc'.eligible = eligible /\ proc'.decision = decision
      BY <2>0, <3>2 DEF Process
    <3> QED
      BY <3>2, <3>3 DEF EligibleIsBilled
  <2>5. ASSUME NEW x \in Exceptions, Opens(x) PROVE EligibleIsBilled'
    BY <2>0, <2>5 DEF Opens, EligibleIsBilled, Process
  <2> QED
    BY <2>1, <2>2, <2>3, <2>4, <2>5
       DEF Next, Execute, Lookup, LockRow, Effect, InsertCommand, Disconnect,
           RecomputeReads, EvaluateReads, Dispatch, vars
<1> QED
  BY <1>1, <1>2, TypeInit, TypeStep, PTL DEF Spec

-----------------------------------------------------------------------------
(* Locks are taken in one order *)

\* A command waits only for one that is further in the transaction than itself:
\* the exception is locked before the row it is about, that row before the key.
LEMMA LocksAreOrdered ==
    ASSUME NEW s \in Sessions, NEW t \in Sessions, WaitsFor(s, t)
    PROVE  \/ session[s].step = "lock" /\ session[t].step \in {"effect", "insert", "commit"}
           \/ session[s].step = "effect" /\ session[t].step \in {"insert", "commit"}
           \/ session[s].step = "insert" /\ session[t].step = "commit"
BY DEF WaitsFor, RowHeld, EffectHeld, KeyHeld, InFlight

LEMMA FurthestGoesOn == TypeOK => CommandsNeverDeadlock
<1> SUFFICES ASSUME TypeOK, NEW group \in SUBSET {s \in Sessions : session[s].step # "idle"},
                    group # {}
             PROVE  \E s \in group : \A t \in group : ~WaitsFor(s, t)
  BY DEF CommandsNeverDeadlock
<1>0. \A s \in group :
        s \in Sessions /\ session[s].step \in {"lock", "effect", "insert", "commit"}
  BY DEF TypeOK, Session, Steps
<1>1. CASE \E s \in group : session[s].step = "commit"
  BY <1>0, <1>1, LocksAreOrdered
<1>2. CASE /\ \A s \in group : session[s].step # "commit"
           /\ \E s \in group : session[s].step = "insert"
  BY <1>0, <1>2, LocksAreOrdered
<1>3. CASE /\ \A s \in group : session[s].step \notin {"insert", "commit"}
           /\ \E s \in group : session[s].step = "effect"
  BY <1>0, <1>3, LocksAreOrdered
<1>4. CASE \A s \in group : session[s].step = "lock"
  BY <1>0, <1>4, LocksAreOrdered
<1> QED
  BY <1>0, <1>1, <1>2, <1>3, <1>4

\* However many commands are in flight and whatever rows and keys they have in common,
\* in every set of them there is one that waits for none of the others.
THEOREM CommandsNeverDeadlockCorrect == Spec => []CommandsNeverDeadlock
BY TypeCorrect, FurthestGoesOn, PTL

-----------------------------------------------------------------------------
(* Commands are atomic *)

LEMMA SameRules ==
    ASSUME NEW r \in Requests, NEW row
    PROVE  /\ Ledger!Result(r, row) = Result(r, row)
           /\ Ledger!Accepts(Command[r], row) <=> Accepts(Command[r], row)
BY DEF Ledger!Result, Ledger!Closing, Ledger!Accepts, Ledger!Suits,
       Result, Closing, Accepts, Suits

LEMMA LedgerInit == Init => Ledger!LInit
BY DEF Init, NoRow, Ledger!LInit, Ledger!NoRow

LEMMA LedgerCommit ==
    ASSUME TypeOK, LockInv, NEW s \in Sessions, Commit(s)
    PROVE  \E r \in Requests : Ledger!CarryOut(r)
<1>1. PICK r \in Requests : r = session[s].request
  BY TypeFacts DEF Commit
<1>2. /\ exception[Command[r].target].status # "absent"
      /\ Accepts(Command[r], exception[Command[r].target])
      /\ exception' = [exception EXCEPT ![Command[r].target] =
                         Result(r, exception[Command[r].target])]
      /\ commands' = commands \cup {r}
      /\ Command[r].type = "retry_outbox" => message = "dead_letter"
  BY <1>1, CommitFacts
<1>3. \A q \in commands : Command[q].key # Command[r].key
  BY <1>1, CommitFacts DEF KeyFree
<1>4. /\ mapped' = IF Command[r].type = "map_sku" THEN mapped \cup {Command[r].target}
                   ELSE mapped
      /\ message' = IF Command[r].type = "retry_outbox" THEN "pending" ELSE message
      /\ acknowledged' = acknowledged \cup {r}
  BY <1>1 DEF Commit
<1>5. /\ Ledger!Accepts(Command[r], exception[Command[r].target])
      /\ exception' = [exception EXCEPT ![Command[r].target] =
                         Ledger!Result(r, exception[Command[r].target])]
  BY <1>2, SameRules
<1> QED
  BY <1>2, <1>3, <1>4, <1>5 DEF Ledger!CarryOut

LEMMA LedgerStep == IInv /\ [Next]_vars => [Ledger!LNext]_(Ledger!lvars)
<1> SUFFICES ASSUME IInv, [Next]_vars PROVE [Ledger!LNext]_(Ledger!lvars)
  OBVIOUS
<1>0. TypeOK /\ LockInv
  BY DEF IInv, TypeInv
<1>1. ASSUME NEW s \in Sessions, Commit(s) PROVE Ledger!LNext
  BY <1>0, <1>1, LedgerCommit DEF Ledger!LNext
<1>2. ASSUME NEW s \in Sessions, Lookup(s) PROVE [Ledger!LNext]_(Ledger!lvars)
  <2>1. UNCHANGED <<exception, commands, mapped, message>>
    BY <1>2 DEF Lookup
  <2>2. CASE acknowledged' = acknowledged
    BY <2>1, <2>2 DEF Ledger!lvars
  <2>3. CASE acknowledged' # acknowledged
    <3>1. PICK r \in Requests, q \in commands :
            /\ Command[q].key = Command[r].key /\ SameTarget(q, r)
            /\ acknowledged' = acknowledged \cup {r}
      BY <1>2, <2>3 DEF Lookup
    <3> QED
      BY <2>1, <3>1 DEF SameTarget, Ledger!LNext, Ledger!Repeat
  <2> QED
    BY <2>2, <2>3
<1>3. ASSUME NEW x \in Exceptions, Opens(x) PROVE Ledger!LNext
  BY <1>3 DEF Opens, NoRow, Ledger!LNext, Ledger!Open, Ledger!NoRow
<1>4. CASE Dispatch
  BY <1>4 DEF Dispatch, Ledger!LNext, Ledger!Deliver
<1>5. CASE UNCHANGED records
  BY <1>5 DEF records, Ledger!lvars
<1> QED
  BY <1>1, <1>2, <1>3, <1>4, <1>5
     DEF Next, Execute, LockRow, Effect, InsertCommand, Disconnect, RecomputeReads,
         RecomputeWrites, EvaluateReads, EvaluateWrites, vars

\* The transactions of any number of sessions leave the records and the answers that
\* commands carried out one after the other, each in one step, would leave.
THEOREM CommandsAreAtomicCorrect == Spec => CommandsAreAtomic
BY IInvInit, IInvStep, LedgerInit, LedgerStep, PTL DEF Spec, CommandsAreAtomic, Ledger!LSpec
=============================================================================
