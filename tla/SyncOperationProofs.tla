------------------------- MODULE SyncOperationProofs -------------------------
(***************************************************************************)
(* Theorems about sync operations for any sets of operations and           *)
(* processes, any sharing of worker ids, and any number of faults,         *)
(* refusals and requeues.                                                  *)
(***************************************************************************)
EXTENDS SyncOperation, FiniteSetTheorems, TLAPS

-----------------------------------------------------------------------------
(* Type correctness *)

ProcState == {s \in Locals : s.step # "idle" <=> s.op \in Operations}

LEMMA RecordTypes ==
    /\ NoRow \in Row /\ IdleProcess \in ProcState
    /\ IdleProcess.step = "idle" /\ IdleProcess.op = Null
    /\ NoRow.token = 0 /\ NoRow.attempt = 0 /\ NoRow.status = "absent"
BY NullAssumption
   DEF NoRow, IdleProcess, Row, Statuses, Codes, ProcState, Locals, Steps, Outcomes

LEMMA TypeInit == Init => TypeOK
BY RecordTypes DEF Init, TypeOK, ProcState

LEMMA ReleasedType ==
    ASSUME NEW r \in Row, NEW s \in Statuses, NEW c \in Codes
    PROVE  /\ Released(r, s, c) \in Row
           /\ Released(r, s, c).status = s /\ Released(r, s, c).code = c
           /\ Released(r, s, c).token = 0 /\ Released(r, s, c).attempt = r.attempt
BY DEF Released, Row

\* What the outcomes make of a row.
LEMMA RecordedType ==
    ASSUME NEW r \in Row, NEW outcome \in Outcomes
    PROVE  /\ Recorded(outcome, r) \in Row
           /\ Recorded(outcome, r).token = 0
           /\ Recorded(outcome, r).attempt = r.attempt
           /\ outcome = "succeeded" => Recorded(outcome, r).status = "succeeded"
           /\ outcome \in {"recovered", "unknown"} =>
                Recorded(outcome, r).status = "failed" /\ Recorded(outcome, r).code = "unknown"
           /\ outcome = "retryable" => Recorded(outcome, r).status = "retrying"
           /\ outcome = "failed" =>
                Recorded(outcome, r).status = "failed" /\ Recorded(outcome, r).code = "error"
<1>1. CASE outcome = "succeeded"
  <2>1. Recorded(outcome, r) = Released(r, "succeeded", "none")
    BY <1>1 DEF Recorded
  <2> QED
    BY <1>1, <2>1, ReleasedType DEF Statuses, Codes
<1>2. CASE outcome \in {"recovered", "unknown"}
  <2>1. Recorded(outcome, r) = Released(r, "failed", "unknown")
    BY <1>2 DEF Recorded
  <2> QED
    BY <1>2, <2>1, ReleasedType DEF Statuses, Codes
<1>3. CASE outcome = "retryable"
  <2>1. Recorded(outcome, r) = Released(r, "retrying", "error")
    BY <1>3 DEF Recorded
  <2> QED
    BY <1>3, <2>1, ReleasedType DEF Statuses, Codes
<1>4. CASE outcome = "failed"
  <2>1. Recorded(outcome, r) = Released(r, "failed", "error")
    BY <1>4 DEF Recorded
  <2> QED
    BY <1>4, <2>1, ReleasedType DEF Statuses, Codes
<1> QED
  BY <1>1, <1>2, <1>3, <1>4 DEF Outcomes

\* Moving on inside executeNext.
LEMMA GoesType ==
    ASSUME proc \in [Processes -> ProcState], NEW p \in Processes,
           proc[p].step # "idle", NEW s \in Steps \ {"idle"}, NEW outcome \in Outcomes,
           Goes(p, s, outcome)
    PROVE  proc' \in [Processes -> ProcState]
BY DEF Goes, ProcState, Locals

LEMMA ThrowsType ==
    ASSUME proc \in [Processes -> ProcState], NEW p \in Processes,
           proc[p].step # "idle", Throws(p)
    PROVE  proc' \in [Processes -> ProcState]
<1>1. [proc[p] EXCEPT !.step = "attempt", !.outcome = "retryable"] \in ProcState
  BY DEF ProcState, Locals, Steps, Outcomes
<1> QED
  BY <1>1, RecordTypes DEF Throws

LEMMA IdleType ==
    ASSUME proc \in [Processes -> ProcState], NEW p \in Processes,
           proc' = [proc EXCEPT ![p] = IdleProcess]
    PROVE  proc' \in [Processes -> ProcState]
BY RecordTypes

LEMMA TypeStep == TypeOK /\ [Next]_vars => TypeOK'
<1> SUFFICES ASSUME TypeOK, [Next]_vars PROVE TypeOK'
  OBVIOUS
<1>0. /\ op \in [Operations -> Row] /\ attempts \subseteq Attempt
      /\ created \in [Operations -> Nat] /\ proc \in [Processes -> ProcState]
      /\ cleared \subseteq Operations /\ tokens \in Nat
      /\ faults \in Nat /\ refusals \in Nat /\ requeues \in Nat
  BY DEF TypeOK, ProcState
<1> SUFFICES /\ op' \in [Operations -> Row] /\ attempts' \subseteq Attempt
             /\ created' \in [Operations -> Nat] /\ proc' \in [Processes -> ProcState]
             /\ cleared' \subseteq Operations /\ tokens' \in Nat
             /\ faults' \in Nat /\ refusals' \in Nat /\ requeues' \in Nat
  BY DEF TypeOK, ProcState
<1> DEFINE Typed == /\ op' \in [Operations -> Row] /\ attempts' \subseteq Attempt
                    /\ created' \in [Operations -> Nat]
                    /\ proc' \in [Processes -> ProcState]
                    /\ cleared' \subseteq Operations /\ tokens' \in Nat
                    /\ faults' \in Nat /\ refusals' \in Nat /\ requeues' \in Nat
<1>a. \A p \in Processes : /\ proc[p] \in Locals
                           /\ proc[p].step # "idle" => proc[p].op \in Operations
                           /\ proc[p].outcome \in Outcomes
  BY <1>0 DEF ProcState, Locals
<1>1. ASSUME NEW o \in Operations, CreateOrGet(o) PROVE Typed
  <2>1. [NoRow EXCEPT !.status = "pending"] \in Row
    BY RecordTypes DEF Row, Statuses
  <2> QED
    BY <1>0, <1>1, <2>1 DEF CreateOrGet
<1>2. ASSUME NEW p \in Processes, ClaimNext(p) PROVE Typed
  <2>1. PICK o \in Operations :
          /\ op' = [op EXCEPT ![o] =
               [@ EXCEPT !.status = "running", !.attempt = op[o].attempt + 1, !.due = TRUE,
                         !.lockedBy = WorkerId[p], !.token = tokens + 1, !.lease = "held"]]
          /\ proc' = [proc EXCEPT ![p] =
               [IdleProcess EXCEPT !.step = "execute", !.op = o,
                                   !.attempt = op[o].attempt + 1, !.token = tokens + 1]]
    BY <1>2 DEF ClaimNext
  <2> DEFINE n == op[o].attempt + 1
             t == tokens + 1
  <2>2. n \in Nat /\ t \in Nat /\ WorkerId[p] \in WorkerIds /\ op[o] \in Row
    BY <1>0 DEF Row, WorkerIds
  <2>3. [op[o] EXCEPT !.status = "running", !.attempt = n, !.due = TRUE,
                      !.lockedBy = WorkerId[p], !.token = t, !.lease = "held"] \in Row
    <3> HIDE DEF n, t
    <3> QED
      BY <2>2 DEF Row, Statuses
  <2>4. [IdleProcess EXCEPT !.step = "execute", !.op = o, !.attempt = n, !.token = t]
          \in ProcState
    <3> HIDE DEF n, t
    <3> QED
      BY <2>2 DEF IdleProcess, ProcState, Locals, Steps, Outcomes
  <2> QED
    BY <1>0, <1>2, <2>1, <2>2, <2>3, <2>4 DEF ClaimNext
<1>3. ASSUME NEW p \in Processes, ExecuteSucceeds(p) PROVE Typed
  <2>1. proc' \in [Processes -> ProcState]
    BY <1>0, <1>3, GoesType DEF ExecuteSucceeds, Steps, Outcomes
  <2> QED
    BY <1>0, <1>a, <1>3, <2>1 DEF ExecuteSucceeds, RemoteActs
<1>4. ASSUME NEW p \in Processes, ExecuteUnknown(p) PROVE Typed
  <2>1. proc' \in [Processes -> ProcState]
    BY <1>0, <1>4, GoesType DEF ExecuteUnknown, Steps, Outcomes
  <2> QED
    BY <1>0, <1>a, <1>4, <2>1 DEF ExecuteUnknown, RemoteActs
<1>5. ASSUME NEW p \in Processes, ExecuteRefuses(p) PROVE Typed
  <2>1. \E outcome \in Outcomes : Goes(p, "attempt", outcome)
    BY <1>5 DEF ExecuteRefuses, Outcomes
  <2>2. proc' \in [Processes -> ProcState]
    BY <1>0, <1>5, <2>1, GoesType DEF ExecuteRefuses, Steps
  <2> QED
    BY <1>0, <1>5, <2>2 DEF ExecuteRefuses
<1>6. ASSUME NEW p \in Processes, Lookup(p) PROVE Typed
  <2>1. \E outcome \in Outcomes : Goes(p, "attempt", outcome)
    BY <1>6 DEF Lookup, NotFound, Outcomes
  <2>2. proc' \in [Processes -> ProcState]
    BY <1>0, <1>6, <2>1, GoesType DEF Lookup, Steps
  <2> QED
    BY <1>0, <1>6, <2>2 DEF Lookup
<1>7. ASSUME NEW p \in Processes, RecordAttempt(p) PROVE Typed
  <2>1. CASE Throws(p) /\ UNCHANGED attempts
    <3>1. proc' \in [Processes -> ProcState]
      BY <1>0, <1>7, <2>1, ThrowsType DEF RecordAttempt
    <3> QED
      BY <1>0, <1>7, <2>1, <3>1 DEF RecordAttempt
  <2>2. CASE /\ attempts' = attempts \cup
                   {[op |-> proc[p].op, attempt |-> proc[p].attempt,
                     outcome |-> proc[p].outcome]}
             /\ Goes(p, "record", proc[p].outcome)
    <3>1. proc' \in [Processes -> ProcState]
      BY <1>0, <1>a, <1>7, <2>2, GoesType DEF RecordAttempt, Steps
    <3>2. [op |-> proc[p].op, attempt |-> proc[p].attempt,
           outcome |-> proc[p].outcome] \in Attempt
      BY <1>a, <1>7 DEF RecordAttempt, Attempt, Locals
    <3> QED
      BY <1>0, <1>7, <2>2, <3>1, <3>2 DEF RecordAttempt
  <2> QED
    BY <1>7, <2>1, <2>2 DEF RecordAttempt
<1>8. ASSUME NEW p \in Processes, RecordOutcome(p) PROVE Typed
  <2>1. proc[p].op \in Operations /\ op[proc[p].op] \in Row
    BY <1>0, <1>a, <1>8 DEF RecordOutcome
  <2>2. op' \in [Operations -> Row]
    BY <1>0, <1>a, <1>8, <2>1, RecordedType DEF RecordOutcome
  <2>3. proc' \in [Processes -> ProcState]
    BY <1>0, <1>8, GoesType, IdleType DEF RecordOutcome, Steps, Outcomes
  <2> QED
    BY <1>0, <1>8, <2>2, <2>3 DEF RecordOutcome
<1>9. ASSUME NEW p \in Processes, ResolveUnknown(p) PROVE Typed
  <2>1. [op[proc[p].op] EXCEPT !.status = "succeeded", !.code = "none"] \in Row
    <3>1. op[proc[p].op] \in Row
      BY <1>0, <1>a, <1>9 DEF ResolveUnknown
    <3> QED
      BY <3>1 DEF Row, Statuses, Codes
  <2>2. op' \in [Operations -> Row]
    BY <1>0, <1>9, <2>1 DEF ResolveUnknown
  <2>3. proc' \in [Processes -> ProcState]
    BY <1>0, <1>9, IdleType DEF ResolveUnknown
  <2> QED
    BY <1>0, <1>9, <2>2, <2>3 DEF ResolveUnknown
<1>10. ASSUME NEW o \in Operations, OperatorFindsAbsent(o) PROVE Typed
  BY <1>0, <1>10 DEF OperatorFindsAbsent
<1>11. ASSUME NEW o \in Operations, Requeue(o) PROVE Typed
  <2>1. \A due \in BOOLEAN :
          [op[o] EXCEPT !.status = "retrying", !.code = "absent", !.due = due] \in Row
    BY <1>0 DEF Row, Statuses, Codes
  <2>2. op' \in [Operations -> Row]
    BY <1>0, <1>11, <2>1 DEF Requeue
  <2> QED
    BY <1>0, <1>11, <2>2 DEF Requeue
<1>12. ASSUME NEW o \in Operations, BecomesDue(o) \/ LeaseExpires(o) \/ LeaseOutlived(o)
       PROVE  Typed
  <2>1. /\ [op[o] EXCEPT !.due = TRUE] \in Row
        /\ [op[o] EXCEPT !.lease = "expired"] \in Row
    BY <1>0 DEF Row
  <2>2. op' \in [Operations -> Row]
    BY <1>0, <1>12, <2>1 DEF BecomesDue, LeaseExpires, LeaseOutlived
  <2>3. faults' \in Nat
    BY <1>0, <1>12 DEF BecomesDue, LeaseExpires, LeaseOutlived
  <2> QED
    BY <1>0, <1>12, <2>2, <2>3 DEF BecomesDue, LeaseExpires, LeaseOutlived
<1>13. ASSUME NEW p \in Processes, DatabaseError(p) PROVE Typed
  <2>1. proc' \in [Processes -> ProcState]
    BY <1>0, <1>13, ThrowsType DEF DatabaseError
  <2> QED
    BY <1>0, <1>13, <2>1 DEF DatabaseError
<1>14. ASSUME NEW p \in Processes, Crash(p) PROVE Typed
  <2>1. proc' \in [Processes -> ProcState]
    BY <1>0, <1>14, IdleType DEF Crash
  <2> QED
    BY <1>0, <1>14, <2>1 DEF Crash
<1>15. CASE UNCHANGED vars
  BY <1>0, <1>15 DEF vars
<1> QED
  BY <1>1, <1>2, <1>3, <1>4, <1>5, <1>6, <1>7, <1>8, <1>9, <1>10, <1>11, <1>12, <1>13,
     <1>14, <1>15 DEF Next, ExecuteNext

\* The rows, their attempts and the locals of executors keep their types.
THEOREM TypeCorrect == Spec => []TypeOK
BY TypeInit, TypeStep, PTL DEF Spec

-----------------------------------------------------------------------------
(* The fence *)

Active(p) == proc[p].step # "idle"

\* Every claim in flight has a token of its own, and the row only carries the
\* token of a claim while it is at that claim's attempt.
FenceInv ==
    /\ TypeOK
    /\ \A o \in Operations : op[o].token <= tokens
    /\ \A p \in Processes : Active(p) =>
         /\ 0 < proc[p].token /\ proc[p].token <= tokens
         /\ op[proc[p].op].status # "absent"
         /\ proc[p].attempt <= op[proc[p].op].attempt
         /\ proc[p].token = op[proc[p].op].token =>
              proc[p].attempt = op[proc[p].op].attempt
    /\ \A p, q \in Processes :
         Active(p) /\ Active(q) /\ proc[p].token = proc[q].token => p = q

\* What every step but a claim does to a row and to a process.
Calm(o) ==
    /\ op'[o].token \in {op[o].token, 0}
    /\ op[o].status # "absent" =>
         op'[o].attempt = op[o].attempt /\ op'[o].status # "absent"

Continues(p) ==
    \/ proc'[p].step = "idle"
    \/ /\ Active(p)
       /\ proc'[p].op = proc[p].op
       /\ proc'[p].attempt = proc[p].attempt
       /\ proc'[p].token = proc[p].token

LEMMA TypeFacts ==
    ASSUME TypeOK
    PROVE  /\ tokens \in Nat
           /\ \A o \in Operations : /\ op[o] \in Row /\ op[o].attempt \in Nat
                                    /\ op[o].token \in Nat /\ created[o] \in Nat
           /\ \A p \in Processes : /\ proc[p] \in Locals
                                   /\ proc[p].attempt \in Nat /\ proc[p].token \in Nat
                                   /\ Active(p) <=> proc[p].op \in Operations
BY DEF TypeOK, Row, Locals, Active

LEMMA FenceInit == Init => FenceInv
BY TypeInit, RecordTypes DEF Init, FenceInv, Active

LEMMA FenceCalm ==
    ASSUME FenceInv, TypeOK', tokens' = tokens,
           \A o \in Operations : Calm(o),
           \A p \in Processes : Continues(p)
    PROVE  FenceInv'
<1>1. TypeOK
  BY DEF FenceInv
<1> USE <1>1, TypeFacts
<1>2. ASSUME NEW o \in Operations PROVE op'[o].token <= tokens'
  BY DEF FenceInv, Calm
<1>3. ASSUME NEW p \in Processes, Active(p)'
      PROVE  /\ 0 < proc'[p].token /\ proc'[p].token <= tokens'
             /\ op'[proc'[p].op].status # "absent"
             /\ proc'[p].attempt <= op'[proc'[p].op].attempt
             /\ proc'[p].token = op'[proc'[p].op].token =>
                  proc'[p].attempt = op'[proc'[p].op].attempt
  <2>1. /\ Active(p) /\ proc'[p].op = proc[p].op /\ proc[p].op \in Operations
        /\ proc'[p].attempt = proc[p].attempt /\ proc'[p].token = proc[p].token
    BY <1>3 DEF Continues, Active
  <2>2. /\ 0 < proc[p].token /\ proc[p].token <= tokens
        /\ op[proc[p].op].status # "absent"
        /\ proc[p].attempt <= op[proc[p].op].attempt
        /\ proc[p].token = op[proc[p].op].token =>
             proc[p].attempt = op[proc[p].op].attempt
    BY <2>1 DEF FenceInv
  <2> QED
    BY <2>1, <2>2 DEF Calm
<1>4. ASSUME NEW p \in Processes, NEW q \in Processes,
             Active(p)', Active(q)', proc'[p].token = proc'[q].token
      PROVE  p = q
  <2>1. Active(p) /\ Active(q) /\ proc[p].token = proc[q].token
    BY <1>4 DEF Continues, Active
  <2> QED
    BY <2>1 DEF FenceInv
<1> QED
  BY <1>2, <1>3, <1>4 DEF FenceInv

\* A claim draws a token nobody has and takes the row to its own attempt.
LEMMA FenceClaim ==
    ASSUME FenceInv, TypeOK', NEW p \in Processes, ClaimNext(p)
    PROVE  FenceInv'
<1>1. TypeOK
  BY DEF FenceInv
<1> USE <1>1, TypeFacts
<1>2. PICK o \in Operations :
        /\ Claimable(o)
        /\ op' = [op EXCEPT ![o] =
             [@ EXCEPT !.status = "running", !.attempt = op[o].attempt + 1, !.due = TRUE,
                       !.lockedBy = WorkerId[p], !.token = tokens + 1, !.lease = "held"]]
        /\ proc' = [proc EXCEPT ![p] =
             [IdleProcess EXCEPT !.step = "execute", !.op = o,
                                 !.attempt = op[o].attempt + 1, !.token = tokens + 1]]
  BY DEF ClaimNext
<1>3. /\ op'[o].status = "running" /\ op'[o].token = tokens + 1
      /\ op'[o].attempt = op[o].attempt + 1
      /\ \A u \in Operations \ {o} : op'[u] = op[u]
  BY <1>2 DEF TypeOK, Row
<1>4. /\ proc'[p].op = o /\ proc'[p].token = tokens + 1
      /\ proc'[p].attempt = op[o].attempt + 1
      /\ \A q \in Processes \ {p} : proc'[q] = proc[q]
  BY <1>2 DEF TypeOK, IdleProcess
<1>5. tokens' = tokens + 1
  BY DEF ClaimNext
<1>6. ASSUME NEW u \in Operations PROVE op'[u].token <= tokens'
  BY <1>3, <1>5 DEF FenceInv
<1>7. ASSUME NEW q \in Processes \ {p}, Active(q)'
      PROVE  /\ 0 < proc'[q].token /\ proc'[q].token <= tokens
             /\ op'[proc'[q].op].status # "absent"
             /\ proc'[q].attempt <= op'[proc'[q].op].attempt
             /\ proc'[q].token = op'[proc'[q].op].token =>
                  proc'[q].attempt = op'[proc'[q].op].attempt
  <2>1. proc'[q] = proc[q] /\ Active(q) /\ proc[q].op \in Operations
    BY <1>4, <1>7 DEF Active
  <2>2. /\ 0 < proc[q].token /\ proc[q].token <= tokens
        /\ op[proc[q].op].status # "absent"
        /\ proc[q].attempt <= op[proc[q].op].attempt
        /\ proc[q].token = op[proc[q].op].token =>
             proc[q].attempt = op[proc[q].op].attempt
    BY <2>1 DEF FenceInv
  <2>3. CASE proc[q].op = o
    BY <1>3, <2>1, <2>2, <2>3
  <2>4. CASE proc[q].op # o
    BY <1>3, <2>1, <2>2, <2>4
  <2> QED
    BY <2>3, <2>4
<1>8. /\ 0 < proc'[p].token /\ proc'[p].token <= tokens'
      /\ op'[proc'[p].op].status # "absent"
      /\ proc'[p].attempt = op'[proc'[p].op].attempt
      /\ op'[proc'[p].op].attempt \in Nat
  BY <1>3, <1>4, <1>5
<1>9. ASSUME NEW q \in Processes, NEW s \in Processes,
             Active(q)', Active(s)', proc'[q].token = proc'[s].token
      PROVE  q = s
  <2>1. CASE q # p /\ s # p
    <3>1. Active(q) /\ Active(s) /\ proc[q].token = proc[s].token
      BY <1>4, <1>9, <2>1 DEF Active
    <3> QED
      BY <3>1 DEF FenceInv
  <2>2. CASE q = p /\ s # p
    BY <1>4, <1>7, <1>9, <2>2
  <2>3. CASE q # p /\ s = p
    BY <1>4, <1>7, <1>9, <2>3
  <2> QED
    BY <2>1, <2>2, <2>3
<1>10. ASSUME NEW q \in Processes, Active(q)'
       PROVE  /\ 0 < proc'[q].token /\ proc'[q].token <= tokens'
              /\ op'[proc'[q].op].status # "absent"
              /\ proc'[q].attempt <= op'[proc'[q].op].attempt
              /\ proc'[q].token = op'[proc'[q].op].token =>
                   proc'[q].attempt = op'[proc'[q].op].attempt
  <2>1. CASE q = p
    BY <1>8, <2>1
  <2>2. CASE q # p
    <3>1. proc'[q] = proc[q]
      BY <1>4, <2>2
    <3> QED
      BY <1>5, <1>7, <1>10, <2>2, <3>1
  <2> QED
    BY <2>1, <2>2
<1> QED
  BY <1>6, <1>9, <1>10 DEF FenceInv

\* Going on, throwing and ending leave the claim as it is.
LEMMA ProcessContinues ==
    ASSUME TypeOK, NEW p \in Processes, Active(p),
           \/ \E s \in Steps, outcome \in Outcomes : Goes(p, s, outcome)
           \/ Throws(p)
           \/ proc' = [proc EXCEPT ![p] = IdleProcess]
    PROVE  \A q \in Processes : Continues(q)
<1>1. \A q \in Processes \ {p} : Continues(q)
  <2>1. \A q \in Processes \ {p} : proc'[q] = proc[q]
    BY DEF Goes, Throws, TypeOK
  <2> QED
    BY <2>1 DEF Continues, Active
<1>2. CASE \E s \in Steps, outcome \in Outcomes : Goes(p, s, outcome)
  <2>1. PICK s \in Steps, outcome \in Outcomes :
          proc' = [proc EXCEPT ![p] = [@ EXCEPT !.step = s, !.outcome = outcome]]
    BY <1>2 DEF Goes
  <2>2. proc'[p] = [proc[p] EXCEPT !.step = s, !.outcome = outcome]
    BY <2>1 DEF TypeOK
  <2>3. /\ proc'[p].op = proc[p].op /\ proc'[p].attempt = proc[p].attempt
        /\ proc'[p].token = proc[p].token
    BY <2>2, TypeFacts DEF Locals
  <2> QED
    BY <1>1, <2>3 DEF Continues, Active
<1>3. CASE Throws(p)
  <2>1. \/ proc'[p] = [proc[p] EXCEPT !.step = "attempt", !.outcome = "retryable"]
        \/ proc'[p] = IdleProcess
    BY <1>3 DEF Throws, TypeOK
  <2>2. \/ proc'[p].step = "idle"
        \/ /\ proc'[p].op = proc[p].op /\ proc'[p].attempt = proc[p].attempt
           /\ proc'[p].token = proc[p].token
    BY <2>1, TypeFacts, RecordTypes DEF Locals
  <2> QED
    BY <1>1, <2>2 DEF Continues, Active
<1>4. CASE proc' = [proc EXCEPT ![p] = IdleProcess]
  BY <1>1, <1>4, RecordTypes DEF TypeOK, Continues, Active
<1> QED
  BY <1>2, <1>3, <1>4

LEMMA RowsCalm ==
    ASSUME TypeOK, Next, \A p \in Processes : ~ClaimNext(p)
    PROVE  \A o \in Operations : Calm(o)
<1> USE TypeFacts
<1>0. CASE op' = op
  BY <1>0 DEF Calm
<1>1. ASSUME NEW o \in Operations, CreateOrGet(o) PROVE \A u \in Operations : Calm(u)
  BY <1>1, RecordTypes DEF CreateOrGet, Calm, TypeOK, Row, NoRow
<1>2. ASSUME NEW p \in Processes, RecordOutcome(p) PROVE \A u \in Operations : Calm(u)
  <2> DEFINE o == proc[p].op
             r == Recorded(proc[p].outcome, op[o])
  <2>1. o \in Operations /\ op[o] \in Row /\ proc[p].outcome \in Outcomes
    BY <1>2 DEF RecordOutcome, Active, Locals
  <2>2. CASE Holds(p)
    <3>1. op' = [op EXCEPT ![o] = r]
      BY <1>2, <2>2 DEF RecordOutcome
    <3>2. r.token = 0 /\ r.attempt = op[o].attempt /\ r.status # "absent"
      BY <2>1, RecordedType DEF Outcomes
    <3> QED
      BY <2>1, <3>1, <3>2 DEF Calm, TypeOK
  <2>3. CASE ~Holds(p)
    BY <1>0, <1>2, <2>3 DEF RecordOutcome
  <2> QED
    BY <2>2, <2>3
<1>3. ASSUME NEW p \in Processes, ResolveUnknown(p) PROVE \A u \in Operations : Calm(u)
  <2>1. proc[p].op \in Operations
    BY <1>3 DEF ResolveUnknown, Active
  <2> QED
    BY <1>3, <2>1 DEF ResolveUnknown, Calm, TypeOK, Row
<1>4. ASSUME NEW o \in Operations, Requeue(o) PROVE \A u \in Operations : Calm(u)
  BY <1>4 DEF Requeue, Calm, TypeOK, Row
<1>5. ASSUME NEW o \in Operations, BecomesDue(o) \/ LeaseExpires(o) \/ LeaseOutlived(o)
      PROVE  \A u \in Operations : Calm(u)
  <2>1. \A u \in Operations : /\ op'[u].attempt = op[u].attempt
                              /\ op'[u].token = op[u].token
                              /\ op'[u].status = op[u].status
    BY <1>5 DEF BecomesDue, LeaseExpires, LeaseOutlived, TypeOK, Row
  <2> QED
    BY <2>1 DEF Calm
<1> QED
  BY <1>0, <1>1, <1>2, <1>3, <1>4, <1>5
     DEF Next, ExecuteNext, ExecuteSucceeds, ExecuteUnknown, ExecuteRefuses, Lookup,
         RecordAttempt, OperatorFindsAbsent, DatabaseError, Crash

LEMMA ProcessesContinue ==
    ASSUME TypeOK, Next, \A p \in Processes : ~ClaimNext(p)
    PROVE  \A p \in Processes : Continues(p)
<1>1. CASE proc' = proc
  BY <1>1 DEF Continues, Active
<1>2. ASSUME NEW p \in Processes,
             \/ ExecuteSucceeds(p) \/ ExecuteUnknown(p) \/ ExecuteRefuses(p) \/ Lookup(p)
             \/ RecordAttempt(p) \/ RecordOutcome(p) \/ ResolveUnknown(p)
             \/ DatabaseError(p) \/ Crash(p)
      PROVE  \A q \in Processes : Continues(q)
  <2>1. Active(p)
    BY <1>2 DEF Active, ExecuteSucceeds, ExecuteUnknown, ExecuteRefuses, Lookup,
                RecordAttempt, RecordOutcome, ResolveUnknown, DatabaseError, Crash
  <2>2. proc[p].outcome \in Outcomes
    BY TypeFacts DEF Locals
  <2>3. \/ \E s \in Steps, outcome \in Outcomes : Goes(p, s, outcome)
        \/ Throws(p)
        \/ proc' = [proc EXCEPT ![p] = IdleProcess]
    <3>1. CASE ExecuteSucceeds(p)
      BY <3>1 DEF ExecuteSucceeds, Steps, Outcomes
    <3>2. CASE ExecuteUnknown(p)
      BY <3>2 DEF ExecuteUnknown, Steps, Outcomes
    <3>3. CASE ExecuteRefuses(p)
      BY <3>3 DEF ExecuteRefuses, Steps, Outcomes
    <3>4. CASE Lookup(p)
      BY <3>4 DEF Lookup, NotFound, Steps, Outcomes
    <3>5. CASE RecordAttempt(p)
      BY <2>2, <3>5 DEF RecordAttempt, Steps
    <3>6. CASE RecordOutcome(p)
      BY <3>6 DEF RecordOutcome, Steps, Outcomes
    <3>7. CASE ResolveUnknown(p) \/ DatabaseError(p) \/ Crash(p)
      BY <3>7 DEF ResolveUnknown, DatabaseError, Crash
    <3> QED
      BY <1>2, <3>1, <3>2, <3>3, <3>4, <3>5, <3>6, <3>7
  <2> QED
    BY <2>1, <2>3, ProcessContinues
<1> QED
  BY <1>1, <1>2 DEF Next, ExecuteNext, CreateOrGet, OperatorFindsAbsent, Requeue,
                    BecomesDue, LeaseExpires, LeaseOutlived

LEMMA FenceStep == FenceInv /\ [Next]_vars => FenceInv'
<1> SUFFICES ASSUME FenceInv, [Next]_vars PROVE FenceInv'
  OBVIOUS
<1>0. TypeOK /\ TypeOK'
  BY TypeStep DEF FenceInv
<1>1. CASE \E p \in Processes : ClaimNext(p)
  BY <1>0, <1>1, FenceClaim
<1>2. CASE Next /\ \A p \in Processes : ~ClaimNext(p)
  <2>1. tokens' = tokens
    BY <1>2 DEF Next, ExecuteNext, CreateOrGet, OperatorFindsAbsent, Requeue, BecomesDue,
                LeaseExpires, LeaseOutlived, ExecuteSucceeds, ExecuteUnknown,
                ExecuteRefuses, Lookup, RecordAttempt, RecordOutcome, ResolveUnknown,
                DatabaseError, Crash
  <2> QED
    BY <1>0, <1>2, <2>1, RowsCalm, ProcessesContinue, FenceCalm
<1>3. CASE UNCHANGED vars
  BY <1>0, <1>3 DEF vars, FenceInv, Active
<1> QED
  BY <1>1, <1>2, <1>3

LEMMA FenceImplies == FenceInv => TokenFence
<1> SUFFICES ASSUME FenceInv, NEW p \in Processes, Active(p), Holds(p)
             PROVE  /\ op[proc[p].op].attempt = proc[p].attempt
                    /\ \A q \in Processes :
                         proc[q].op = proc[p].op /\ Active(q) /\ Holds(q) => q = p
  BY DEF TokenFence, Active
<1>1. op[proc[p].op].attempt = proc[p].attempt
  BY DEF FenceInv, Holds
<1>2. ASSUME NEW q \in Processes, proc[q].op = proc[p].op, Active(q), Holds(q)
      PROVE  q = p
  <2>1. proc[q].token = proc[p].token
    BY <1>2 DEF Holds
  <2> QED
    BY <1>2, <2>1 DEF FenceInv
<1> QED
  BY <1>1, <1>2

\* Whoever passes the token guard is the latest claim, and is alone.
THEOREM TokenFenceCorrect == Spec => []TokenFence
BY FenceInit, FenceStep, FenceImplies, PTL DEF Spec

-----------------------------------------------------------------------------
(* The evidence *)

Entry(p) == [op |-> proc[p].op, attempt |-> proc[p].attempt, outcome |-> proc[p].outcome]

\* What a process that is about to record an outcome can show for it.
Vouched(p) ==
    /\ /\ proc[p].step \in {"attempt", "record", "resolve"}
       /\ proc[p].outcome \in {"succeeded", "recovered"}
       => created[proc[p].op] > 0
    /\ proc[p].step \in {"record", "resolve"} => Entry(p) \in attempts
    /\ proc[p].step = "resolve" => proc[p].outcome = "recovered"

SuccessBacked(o) ==
    op[o].status = "succeeded" =>
      /\ created[o] > 0
      /\ \E a \in attempts : /\ a.op = o
                             /\ a.attempt <= op[o].attempt
                             /\ a.outcome \in {"succeeded", "recovered"}

LossBacked(o) ==
    StillUnknown(o) =>
      \E a \in attempts : /\ a.op = o
                          /\ a.attempt = op[o].attempt
                          /\ a.outcome \in {"unknown", "recovered"}

EvidenceInv ==
    /\ \A p \in Processes : Vouched(p)
    /\ \A o \in Operations : SuccessBacked(o) /\ LossBacked(o)

\* Nothing that vouches for anything is ever taken back.
EvidenceGrows ==
    /\ attempts \subseteq attempts'
    /\ \A o \in Operations : created'[o] \in Nat /\ created[o] <= created'[o]

LEMMA EvidenceStays == TypeOK /\ [Next]_vars => EvidenceGrows
<1> SUFFICES ASSUME TypeOK, [Next]_vars PROVE EvidenceGrows
  OBVIOUS
<1> USE TypeFacts
<1>1. CASE UNCHANGED <<attempts, created>>
  BY <1>1 DEF EvidenceGrows
<1>2. ASSUME NEW p \in Processes, ExecuteSucceeds(p) \/ ExecuteUnknown(p)
      PROVE  EvidenceGrows
  <2>1. attempts' = attempts /\ (RemoteActs(proc[p].op) \/ UNCHANGED created)
    BY <1>2 DEF ExecuteSucceeds, ExecuteUnknown
  <2>2. \A o \in Operations : created'[o] \in {created[o], created[o] + 1}
    BY <2>1 DEF RemoteActs, TypeOK
  <2> QED
    BY <2>1, <2>2 DEF EvidenceGrows
<1>3. ASSUME NEW p \in Processes, RecordAttempt(p) PROVE EvidenceGrows
  BY <1>3 DEF RecordAttempt, EvidenceGrows
<1> QED
  BY <1>1, <1>2, <1>3
     DEF Next, ExecuteNext, vars, CreateOrGet, ClaimNext, ExecuteRefuses, Lookup,
         RecordOutcome, ResolveUnknown, OperatorFindsAbsent, Requeue, BecomesDue,
         LeaseExpires, LeaseOutlived, DatabaseError, Crash

LEMMA EvidenceInit == Init => EvidenceInv
BY RecordTypes DEF Init, EvidenceInv, Vouched, SuccessBacked, LossBacked, StillUnknown

\* A process that moves on by itself, or not at all, is still vouched for.
LEMMA VouchedStill ==
    ASSUME TypeOK, EvidenceGrows, NEW p \in Processes, Vouched(p), proc'[p] = proc[p]
    PROVE  Vouched(p)'
<1> USE TypeFacts
<1>1. proc[p].step # "idle" => proc[p].op \in Operations
  BY DEF Active
<1> QED
  BY <1>1 DEF Vouched, Entry, EvidenceGrows

LEMMA VouchedOthers ==
    ASSUME TypeOK, EvidenceGrows, \A q \in Processes : Vouched(q), NEW p \in Processes,
           \A q \in Processes \ {p} : proc'[q] = proc[q], Vouched(p)'
    PROVE  \A q \in Processes : Vouched(q)'
<1> TAKE q \in Processes
<1>1. CASE q = p
  BY <1>1
<1>2. CASE q # p
  BY <1>2, VouchedStill
<1> QED
  BY <1>1, <1>2

LEMMA GoesOn ==
    ASSUME TypeOK, NEW p \in Processes, NEW s, NEW outcome, Goes(p, s, outcome)
    PROVE  /\ proc'[p].step = s /\ proc'[p].outcome = outcome
           /\ proc'[p].op = proc[p].op /\ proc'[p].attempt = proc[p].attempt
           /\ \A q \in Processes \ {p} : proc'[q] = proc[q]
<1>1. proc'[p] = [proc[p] EXCEPT !.step = s, !.outcome = outcome]
  BY DEF Goes, TypeOK
<1>2. proc[p] \in Locals
  BY TypeFacts
<1>3. /\ proc'[p].step = s /\ proc'[p].outcome = outcome
      /\ proc'[p].op = proc[p].op /\ proc'[p].attempt = proc[p].attempt
  BY <1>1, <1>2 DEF Locals
<1>4. \A q \in Processes \ {p} : proc'[q] = proc[q]
  BY DEF Goes, TypeOK
<1> QED
  BY <1>3, <1>4

LEMMA ThrowsOn ==
    ASSUME TypeOK, NEW p \in Processes, Throws(p)
    PROVE  /\ \/ proc'[p].step = "attempt" /\ proc'[p].outcome = "retryable"
              \/ proc'[p].step = "idle"
           /\ \A q \in Processes \ {p} : proc'[q] = proc[q]
<1>1. \/ proc'[p] = [proc[p] EXCEPT !.step = "attempt", !.outcome = "retryable"]
      \/ proc'[p] = IdleProcess
  BY DEF Throws, TypeOK
<1>2. proc[p] \in Locals
  BY TypeFacts
<1>3. \/ proc'[p].step = "attempt" /\ proc'[p].outcome = "retryable"
      \/ proc'[p].step = "idle"
  BY <1>1, <1>2, RecordTypes DEF Locals
<1>4. \A q \in Processes \ {p} : proc'[q] = proc[q]
  BY DEF Throws, TypeOK
<1> QED
  BY <1>3, <1>4

LEMMA VouchedStep ==
    ASSUME TypeOK, EvidenceGrows, \A p \in Processes : Vouched(p), [Next]_vars
    PROVE  \A p \in Processes : Vouched(p)'
<1> USE TypeFacts
<1>1. CASE proc' = proc
  BY <1>1, VouchedStill
<1>2. ASSUME NEW p \in Processes, ClaimNext(p) PROVE \A q \in Processes : Vouched(q)'
  <2>1. /\ proc'[p].step = "execute"
        /\ \A q \in Processes \ {p} : proc'[q] = proc[q]
    BY <1>2 DEF ClaimNext, TypeOK, IdleProcess
  <2>2. Vouched(p)'
    BY <2>1 DEF Vouched
  <2> QED
    BY <2>1, <2>2, VouchedOthers
<1>3. ASSUME NEW p \in Processes, ExecuteSucceeds(p) PROVE \A q \in Processes : Vouched(q)'
  <2>1. /\ proc'[p].step = "attempt" /\ proc'[p].op = proc[p].op
        /\ \A q \in Processes \ {p} : proc'[q] = proc[q]
    BY <1>3, GoesOn DEF ExecuteSucceeds
  <2>2. proc[p].op \in Operations
    BY <1>3 DEF ExecuteSucceeds, Active
  <2>3. created'[proc[p].op] > 0
    BY <1>3, <2>2 DEF ExecuteSucceeds, RemoteActs, TypeOK
  <2>4. Vouched(p)'
    BY <2>1, <2>3 DEF Vouched
  <2> QED
    BY <2>1, <2>4, VouchedOthers
<1>4. ASSUME NEW p \in Processes, ExecuteUnknown(p) PROVE \A q \in Processes : Vouched(q)'
  <2>1. /\ proc'[p].step = "lookup"
        /\ \A q \in Processes \ {p} : proc'[q] = proc[q]
    BY <1>4, GoesOn DEF ExecuteUnknown
  <2>2. Vouched(p)'
    BY <2>1 DEF Vouched
  <2> QED
    BY <2>1, <2>2, VouchedOthers
<1>5. ASSUME NEW p \in Processes, ExecuteRefuses(p) PROVE \A q \in Processes : Vouched(q)'
  <2>1. /\ proc'[p].step = "attempt" /\ proc'[p].outcome \in {"retryable", "failed"}
        /\ \A q \in Processes \ {p} : proc'[q] = proc[q]
    BY <1>5, GoesOn DEF ExecuteRefuses
  <2>2. Vouched(p)'
    BY <2>1 DEF Vouched
  <2> QED
    BY <2>1, <2>2, VouchedOthers
<1>6. ASSUME NEW p \in Processes, Lookup(p) PROVE \A q \in Processes : Vouched(q)'
  <2>1. CASE created[proc[p].op] > 0 /\ Goes(p, "attempt", "recovered")
    <3>1. /\ proc'[p].step = "attempt" /\ proc'[p].op = proc[p].op
          /\ \A q \in Processes \ {p} : proc'[q] = proc[q]
      BY <2>1, GoesOn
    <3>2. created'[proc[p].op] > 0
      BY <1>6, <2>1 DEF Lookup
    <3>3. Vouched(p)'
      BY <3>1, <3>2 DEF Vouched
    <3> QED
      BY <3>1, <3>3, VouchedOthers
  <2>2. CASE NotFound(p)
    <3>1. /\ proc'[p].step = "attempt" /\ proc'[p].outcome = "unknown"
          /\ \A q \in Processes \ {p} : proc'[q] = proc[q]
      BY <2>2, GoesOn DEF NotFound
    <3>2. Vouched(p)'
      BY <3>1 DEF Vouched
    <3> QED
      BY <3>1, <3>2, VouchedOthers
  <2> QED
    BY <1>6, <2>1, <2>2 DEF Lookup
<1>7. ASSUME NEW p \in Processes, Throws(p) PROVE \A q \in Processes : Vouched(q)'
  <2>1. Vouched(p)'
    BY <1>7, ThrowsOn DEF Vouched
  <2> QED
    BY <1>7, <2>1, ThrowsOn, VouchedOthers
<1>8. ASSUME NEW p \in Processes, RecordAttempt(p), ~Throws(p)
      PROVE  \A q \in Processes : Vouched(q)'
  <2>1. Entry(p) \in attempts' /\ Goes(p, "record", proc[p].outcome)
    BY <1>8 DEF RecordAttempt, Entry
  <2>2. /\ proc'[p].step = "record" /\ proc'[p].outcome = proc[p].outcome
        /\ proc'[p].op = proc[p].op /\ proc'[p].attempt = proc[p].attempt
        /\ \A q \in Processes \ {p} : proc'[q] = proc[q]
    BY <2>1, GoesOn
  <2>3. proc[p].step = "attempt" /\ created' = created
    BY <1>8 DEF RecordAttempt
  <2>4. Vouched(p)'
    BY <2>1, <2>2, <2>3 DEF Vouched, Entry
  <2> QED
    BY <2>2, <2>4, VouchedOthers
<1>9. ASSUME NEW p \in Processes, proc' = [proc EXCEPT ![p] = IdleProcess]
      PROVE  \A q \in Processes : Vouched(q)'
  <2>1. /\ proc'[p].step = "idle"
        /\ \A q \in Processes \ {p} : proc'[q] = proc[q]
    BY <1>9, RecordTypes DEF TypeOK
  <2>2. Vouched(p)'
    BY <2>1 DEF Vouched
  <2> QED
    BY <2>1, <2>2, VouchedOthers
<1>10. ASSUME NEW p \in Processes, RecordOutcome(p), proc[p].outcome = "recovered",
              Goes(p, "resolve", "recovered")
       PROVE  \A q \in Processes : Vouched(q)'
  <2>1. /\ proc'[p].step = "resolve" /\ proc'[p].outcome = proc[p].outcome
        /\ proc'[p].op = proc[p].op /\ proc'[p].attempt = proc[p].attempt
        /\ \A q \in Processes \ {p} : proc'[q] = proc[q]
    BY <1>10, GoesOn
  <2>2. proc[p].step = "record" /\ created' = created /\ attempts' = attempts
    BY <1>10 DEF RecordOutcome
  <2>3. Vouched(p)'
    BY <1>10, <2>1, <2>2 DEF Vouched, Entry
  <2> QED
    BY <2>1, <2>3, VouchedOthers
<1>11. CASE UNCHANGED vars
  BY <1>1, <1>11 DEF vars
<1>12. CASE Next
  <2>1. \A p \in Processes : RecordOutcome(p) => \A q \in Processes : Vouched(q)'
    BY <1>9, <1>10 DEF RecordOutcome
  <2> QED
    BY <1>1, <1>2, <1>3, <1>4, <1>5, <1>6, <1>7, <1>8, <1>9, <1>12, <2>1
       DEF Next, ExecuteNext, CreateOrGet, OperatorFindsAbsent, Requeue, BecomesDue,
           LeaseExpires, LeaseOutlived, ResolveUnknown, DatabaseError, Crash
<1> QED
  BY <1>11, <1>12

\* A row that keeps its verdict keeps what backs it.
LEMMA BackedStill ==
    ASSUME TypeOK, EvidenceGrows, NEW o \in Operations, SuccessBacked(o), LossBacked(o),
           op'[o].status = op[o].status, op'[o].attempt = op[o].attempt,
           op'[o].code = op[o].code
    PROVE  SuccessBacked(o)' /\ LossBacked(o)'
<1> USE TypeFacts
<1>1. SuccessBacked(o)'
  <2>1. op[o].status = "succeeded" => created'[o] > 0
    BY DEF SuccessBacked, EvidenceGrows
  <2> QED
    BY <2>1 DEF SuccessBacked, EvidenceGrows
<1>2. LossBacked(o)'
  BY DEF LossBacked, StillUnknown, EvidenceGrows
<1> QED
  BY <1>1, <1>2

\* A row at work has nothing to back.
LEMMA OpenRowBacked ==
    ASSUME NEW o \in Operations, op'[o].status \in {"pending", "running", "retrying"}
    PROVE  SuccessBacked(o)' /\ LossBacked(o)'
BY DEF SuccessBacked, LossBacked, StillUnknown

LEMMA BackedOutcome ==
    ASSUME FenceInv, EvidenceInv, NEW p \in Processes, RecordOutcome(p), Holds(p),
           NEW o, o = proc[p].op
    PROVE  SuccessBacked(o)' /\ LossBacked(o)'
<1> DEFINE r == Recorded(proc[p].outcome, op[o])
<1>1. TypeOK /\ Active(p)
  BY DEF FenceInv, RecordOutcome, Active
<1>2. o \in Operations /\ op[o] \in Row /\ proc[p].outcome \in Outcomes
  BY <1>1, TypeFacts DEF Locals
<1>3. op'[o] = r /\ attempts' = attempts /\ created' = created
  BY <1>1, <1>2 DEF RecordOutcome, TypeOK
<1>4. r.attempt = op[o].attempt
  BY <1>2, RecordedType
<1>5. proc[p].attempt = op[o].attempt /\ proc[p].attempt \in Nat
  BY <1>1, TypeFacts DEF FenceInv, Holds
<1>6. Entry(p) \in attempts
  BY DEF EvidenceInv, Vouched, RecordOutcome
<1>7. CASE proc[p].outcome = "succeeded"
  <2>1. r.status = "succeeded"
    BY <1>2, <1>7, RecordedType
  <2>2. created[o] > 0
    BY <1>7 DEF EvidenceInv, Vouched, RecordOutcome
  <2>3. /\ Entry(p).op = o /\ Entry(p).attempt <= r.attempt
        /\ Entry(p).outcome = "succeeded"
    BY <1>4, <1>5, <1>7 DEF Entry
  <2> HIDE DEF r
  <2> QED
    BY <1>3, <1>6, <2>1, <2>2, <2>3 DEF SuccessBacked, LossBacked, StillUnknown
<1>8. CASE proc[p].outcome \in {"recovered", "unknown"}
  <2>1. r.status = "failed" /\ r.code = "unknown"
    BY <1>2, <1>8, RecordedType
  <2>2. /\ Entry(p).op = o /\ Entry(p).attempt = r.attempt
        /\ Entry(p).outcome \in {"recovered", "unknown"}
    BY <1>4, <1>5, <1>8 DEF Entry
  <2> HIDE DEF r
  <2> QED
    BY <1>3, <1>6, <2>1, <2>2 DEF SuccessBacked, LossBacked, StillUnknown
<1>9. CASE proc[p].outcome = "retryable"
  <2>1. r.status = "retrying"
    BY <1>2, <1>9, RecordedType
  <2> QED
    BY <1>2, <1>3, <2>1, OpenRowBacked
<1>10. CASE proc[p].outcome = "failed"
  <2>1. r.status = "failed" /\ r.code = "error"
    BY <1>2, <1>10, RecordedType
  <2> HIDE DEF r
  <2> QED
    BY <1>3, <2>1 DEF SuccessBacked, LossBacked, StillUnknown
<1> QED
  BY <1>2, <1>7, <1>8, <1>9, <1>10 DEF Outcomes

LEMMA BackedDiscovery ==
    ASSUME FenceInv, EvidenceInv, NEW p \in Processes, ResolveUnknown(p),
           NEW o, o = proc[p].op, StillUnknown(o)
    PROVE  SuccessBacked(o)' /\ LossBacked(o)'
<1>1. TypeOK /\ Active(p)
  BY DEF FenceInv, ResolveUnknown, Active
<1>2. o \in Operations /\ op[o] \in Row
  BY <1>1, TypeFacts
<1>3. /\ op'[o].status = "succeeded" /\ op'[o].attempt = op[o].attempt
      /\ attempts' = attempts /\ created' = created
  BY <1>1, <1>2 DEF ResolveUnknown, TypeOK, Row
<1>4. /\ Entry(p) \in attempts /\ Entry(p).op = o /\ Entry(p).outcome = "recovered"
      /\ created[o] > 0
  BY DEF EvidenceInv, Vouched, ResolveUnknown, Entry
<1>5. Entry(p).attempt <= op[o].attempt
  BY <1>1 DEF FenceInv, Entry
<1> QED
  BY <1>3, <1>4, <1>5 DEF SuccessBacked, LossBacked, StillUnknown

LEMMA BackedStep ==
    ASSUME FenceInv, EvidenceInv, EvidenceGrows, [Next]_vars
    PROVE  \A o \in Operations : SuccessBacked(o)' /\ LossBacked(o)'
<1>0. TypeOK /\ \A o \in Operations : SuccessBacked(o) /\ LossBacked(o)
  BY DEF FenceInv, EvidenceInv
<1> USE <1>0, TypeFacts
<1>1. ASSUME op' = op PROVE \A o \in Operations : SuccessBacked(o)' /\ LossBacked(o)'
  BY <1>1, BackedStill
<1>2. ASSUME NEW o \in Operations, SuccessBacked(o)' /\ LossBacked(o)',
             \A u \in Operations \ {o} : op'[u] = op[u]
      PROVE  \A u \in Operations : SuccessBacked(u)' /\ LossBacked(u)'
  <2> TAKE u \in Operations
  <2>1. CASE u = o
    BY <1>2, <2>1
  <2>2. CASE u # o
    BY <1>2, <2>2, BackedStill
  <2> QED
    BY <2>1, <2>2
<1>3. ASSUME NEW o \in Operations, CreateOrGet(o)
      PROVE  \A u \in Operations : SuccessBacked(u)' /\ LossBacked(u)'
  <2>1. op'[o].status = "pending" /\ \A u \in Operations \ {o} : op'[u] = op[u]
    BY <1>3 DEF CreateOrGet, TypeOK, NoRow
  <2> QED
    BY <1>2, <2>1, OpenRowBacked
<1>4. ASSUME NEW p \in Processes, ClaimNext(p)
      PROVE  \A u \in Operations : SuccessBacked(u)' /\ LossBacked(u)'
  <2>1. PICK o \in Operations :
          op' = [op EXCEPT ![o] =
            [@ EXCEPT !.status = "running", !.attempt = op[o].attempt + 1, !.due = TRUE,
                      !.lockedBy = WorkerId[p], !.token = tokens + 1, !.lease = "held"]]
    BY <1>4 DEF ClaimNext
  <2>2. op'[o].status = "running" /\ \A u \in Operations \ {o} : op'[u] = op[u]
    BY <2>1 DEF TypeOK, Row
  <2> QED
    BY <1>2, <2>2, OpenRowBacked
<1>5. ASSUME NEW p \in Processes, RecordOutcome(p)
      PROVE  \A u \in Operations : SuccessBacked(u)' /\ LossBacked(u)'
  <2>1. PICK o \in Operations : o = proc[p].op
    BY <1>5 DEF RecordOutcome, Active
  <2>2. CASE Holds(p)
    <3>1. \A u \in Operations \ {o} : op'[u] = op[u]
      BY <1>5, <2>1, <2>2 DEF RecordOutcome, TypeOK
    <3> QED
      BY <1>2, <1>5, <2>1, <2>2, <3>1, BackedOutcome
  <2>3. CASE ~Holds(p)
    BY <1>1, <1>5, <2>3 DEF RecordOutcome
  <2> QED
    BY <2>2, <2>3
<1>6. ASSUME NEW p \in Processes, ResolveUnknown(p)
      PROVE  \A u \in Operations : SuccessBacked(u)' /\ LossBacked(u)'
  <2>1. PICK o \in Operations : o = proc[p].op
    BY <1>6 DEF ResolveUnknown, Active
  <2>2. CASE StillUnknown(o)
    <3>1. \A u \in Operations \ {o} : op'[u] = op[u]
      BY <1>6, <2>1, <2>2 DEF ResolveUnknown, TypeOK
    <3> QED
      BY <1>2, <1>6, <2>1, <2>2, <3>1, BackedDiscovery
  <2>3. CASE ~StillUnknown(o)
    BY <1>1, <1>6, <2>1, <2>3 DEF ResolveUnknown
  <2> QED
    BY <2>2, <2>3
<1>7. ASSUME NEW o \in Operations, Requeue(o)
      PROVE  \A u \in Operations : SuccessBacked(u)' /\ LossBacked(u)'
  <2>1. CASE StillUnknown(o)
    <3>1. op'[o].status = "retrying" /\ \A u \in Operations \ {o} : op'[u] = op[u]
      BY <1>7, <2>1 DEF Requeue, TypeOK, Row
    <3> QED
      BY <1>2, <3>1, OpenRowBacked
  <2>2. CASE ~StillUnknown(o)
    BY <1>1, <1>7, <2>2 DEF Requeue
  <2> QED
    BY <2>1, <2>2
<1>8. ASSUME NEW o \in Operations, BecomesDue(o) \/ LeaseExpires(o) \/ LeaseOutlived(o)
      PROVE  \A u \in Operations : SuccessBacked(u)' /\ LossBacked(u)'
  <2>1. \A u \in Operations : /\ op'[u].attempt = op[u].attempt
                              /\ op'[u].code = op[u].code
                              /\ op'[u].status = op[u].status
    BY <1>8 DEF BecomesDue, LeaseExpires, LeaseOutlived, TypeOK, Row
  <2> QED
    BY <2>1, BackedStill
<1>9. CASE UNCHANGED vars
  BY <1>1, <1>9 DEF vars
<1> QED
  BY <1>1, <1>3, <1>4, <1>5, <1>6, <1>7, <1>8, <1>9
     DEF Next, ExecuteNext, ExecuteSucceeds, ExecuteUnknown, ExecuteRefuses, Lookup,
         RecordAttempt, OperatorFindsAbsent, DatabaseError, Crash

LEMMA EvidenceStep == FenceInv /\ EvidenceInv /\ [Next]_vars => EvidenceInv'
<1> SUFFICES ASSUME FenceInv, EvidenceInv, [Next]_vars PROVE EvidenceInv'
  OBVIOUS
<1>1. TypeOK /\ EvidenceGrows
  BY EvidenceStays DEF FenceInv
<1>2. \A p \in Processes : Vouched(p)'
  BY <1>1, VouchedStep DEF EvidenceInv
<1>3. \A o \in Operations : SuccessBacked(o)' /\ LossBacked(o)'
  BY <1>1, BackedStep
<1> QED
  BY <1>2, <1>3 DEF EvidenceInv

LEMMA EvidenceImplies == EvidenceInv => AttemptsBackTheRow
BY DEF EvidenceInv, SuccessBacked, LossBacked, AttemptsBackTheRow

\* A success on record happened and has its attempt on record, and so has an
\* unknown result, however executors overlap, die and are retried.
THEOREM AttemptsBackTheRowCorrect == Spec => []AttemptsBackTheRow
BY FenceInit, FenceStep, EvidenceInit, EvidenceStep, EvidenceImplies, PTL DEF Spec

-----------------------------------------------------------------------------
(* Claims and their reports *)

\* What a process reports was not reported before, unless the error of one of its
\* statements is what it reports; a recovered result is off the row it was on.
Unreported(p) ==
    /\ proc[p].step \in {"execute", "lookup", "attempt"} /\ proc[p].outcome # "retryable" =>
         \A a \in attempts : ~(a.op = proc[p].op /\ a.attempt = proc[p].attempt)
    /\ proc[p].step \in {"execute", "lookup"} => proc[p].outcome = "unknown"
    /\ proc[p].step = "resolve" => proc[p].token # op[proc[p].op].token

ReportInv ==
    /\ \A a \in attempts : op[a.op].status # "absent" /\ a.attempt <= op[a.op].attempt
    /\ \A p \in Processes : Active(p) => Unreported(p)
    /\ \A p, q \in Processes :
         /\ Active(p) /\ Active(q)
         /\ proc[p].op = proc[q].op /\ proc[p].attempt = proc[q].attempt
         => p = q

LEMMA ReportInit == Init => ReportInv
BY RecordTypes DEF Init, ReportInv, Active

\* A step adds at most the attempt of the process that takes it.
LEMMA AttemptsOf ==
    ASSUME [Next]_vars
    PROVE  \/ attempts' = attempts
           \/ \E p \in Processes : RecordAttempt(p) /\ attempts' = attempts \cup {Entry(p)}
BY DEF Next, ExecuteNext, vars, CreateOrGet, ClaimNext, ExecuteSucceeds, ExecuteUnknown,
       ExecuteRefuses, Lookup, RecordAttempt, RecordOutcome, ResolveUnknown,
       OperatorFindsAbsent, Requeue, BecomesDue, LeaseExpires, LeaseOutlived,
       DatabaseError, Crash, Entry

\* A process moves by its own steps only.
LEMMA OthersStand ==
    ASSUME TypeOK, Next, NEW q \in Processes, ~ClaimNext(q),
           ~(\/ ExecuteSucceeds(q) \/ ExecuteUnknown(q) \/ ExecuteRefuses(q) \/ Lookup(q)
             \/ RecordAttempt(q) \/ RecordOutcome(q) \/ ResolveUnknown(q)
             \/ DatabaseError(q) \/ Crash(q))
    PROVE  proc'[q] = proc[q]
<1>1. CASE proc' = proc
  BY <1>1
<1>2. ASSUME NEW p \in Processes \ {q},
             ExecuteNext(p) \/ DatabaseError(p) \/ Crash(p)
      PROVE  proc'[q] = proc[q]
  <2>1. \/ \E s, outcome : Goes(p, s, outcome)
        \/ Throws(p)
        \/ \E l : proc' = [proc EXCEPT ![p] = l]
    BY <1>2 DEF ExecuteNext, ClaimNext, ExecuteSucceeds, ExecuteUnknown, ExecuteRefuses,
                Lookup, NotFound, RecordAttempt, RecordOutcome, ResolveUnknown,
                DatabaseError, Crash
  <2> QED
    BY <2>1 DEF Goes, Throws, TypeOK
<1> QED
  BY <1>1, <1>2 DEF Next, ExecuteNext, CreateOrGet, OperatorFindsAbsent, Requeue,
                    BecomesDue, LeaseExpires, LeaseOutlived

LEMMA ReportedRows ==
    ASSUME FenceInv, ReportInv, attempts' \subseteq Attempt,
           \A o \in Operations : op[o].status # "absent" =>
             op'[o].status # "absent" /\ op[o].attempt <= op'[o].attempt,
           TypeOK', [Next]_vars
    PROVE  \A a \in attempts' : op'[a.op].status # "absent" /\ a.attempt <= op'[a.op].attempt
<1> TAKE a \in attempts'
<1>0. TypeOK /\ a.op \in Operations /\ a.attempt \in Nat
  BY DEF FenceInv, Attempt
<1>1. op[a.op].status # "absent" /\ a.attempt <= op[a.op].attempt
  <2>1. CASE a \in attempts
    BY <2>1 DEF ReportInv
  <2>2. CASE a \notin attempts
    <3>1. PICK p \in Processes : RecordAttempt(p) /\ a = Entry(p)
      BY <2>2, AttemptsOf
    <3>2. Active(p) /\ a.op = proc[p].op /\ a.attempt = proc[p].attempt
      BY <3>1 DEF RecordAttempt, Active, Entry
    <3> QED
      BY <3>2 DEF FenceInv
  <2> QED
    BY <2>1, <2>2
<1>2. op[a.op].attempt \in Nat /\ op'[a.op].attempt \in Nat
  BY <1>0 DEF TypeOK, Row
<1> QED
  BY <1>0, <1>1, <1>2

\* A process that others leave alone.
LEMMA UnreportedStill ==
    ASSUME FenceInv, ReportInv, [Next]_vars, NEW q \in Processes, Active(q),
           proc'[q] = proc[q], op'[proc[q].op].token # proc[q].token
                               \/ op'[proc[q].op].token = op[proc[q].op].token,
           ~RecordAttempt(q) \/ attempts' = attempts
    PROVE  Unreported(q)'
<1>1. Unreported(q)
  BY DEF ReportInv
<1>2. ASSUME NEW a \in attempts' \ attempts
      PROVE  ~(a.op = proc[q].op /\ a.attempt = proc[q].attempt)
  <2>1. PICK p \in Processes : RecordAttempt(p) /\ a = Entry(p)
    BY <1>2, AttemptsOf
  <2>2. p # q /\ Active(p) /\ a.op = proc[p].op /\ a.attempt = proc[p].attempt
    BY <1>2, <2>1 DEF RecordAttempt, Active, Entry
  <2> QED
    BY <2>2 DEF ReportInv
<1> QED
  BY <1>1, <1>2 DEF Unreported

\* A process that goes on with what it has, to a step that reports nothing new.
LEMMA UnreportedOn ==
    ASSUME NEW p \in Processes, Unreported(p), attempts' = attempts,
           proc'[p].op = proc[p].op, proc'[p].attempt = proc[p].attempt,
           proc[p].step \in {"execute", "lookup"}, proc'[p].step \in {"lookup", "attempt"},
           proc'[p].step = "lookup" => proc'[p].outcome = "unknown"
    PROVE  Unreported(p)'
BY DEF Unreported

LEMMA MoverReports ==
    ASSUME FenceInv, ReportInv, TypeOK', NEW p \in Processes, Active(p), Active(p)',
           Continues(p), Calm(proc[p].op),
           \/ ExecuteSucceeds(p) \/ ExecuteUnknown(p) \/ ExecuteRefuses(p) \/ Lookup(p)
           \/ RecordAttempt(p) \/ RecordOutcome(p) \/ ResolveUnknown(p)
           \/ DatabaseError(p) \/ Crash(p)
    PROVE  Unreported(p)'
<1>1. TypeOK /\ Unreported(p) /\ proc[p].token \in Nat \ {0}
  BY TypeFacts DEF FenceInv, ReportInv
<1>2. /\ proc'[p].op = proc[p].op /\ proc'[p].attempt = proc[p].attempt
      /\ proc'[p].token = proc[p].token
  BY DEF Continues, Active
<1>3. CASE ExecuteSucceeds(p)
  BY <1>1, <1>2, <1>3, GoesOn, UnreportedOn DEF ExecuteSucceeds
<1>4. CASE ExecuteUnknown(p)
  BY <1>1, <1>2, <1>4, GoesOn, UnreportedOn DEF ExecuteUnknown
<1>5. CASE ExecuteRefuses(p)
  BY <1>1, <1>2, <1>5, GoesOn, UnreportedOn DEF ExecuteRefuses
<1>6. CASE Lookup(p)
  BY <1>1, <1>2, <1>6, GoesOn, UnreportedOn DEF Lookup, NotFound
<1>7. CASE Throws(p)
  BY <1>1, <1>7, ThrowsOn DEF Unreported, Active
<1>8. CASE RecordAttempt(p) /\ ~Throws(p)
  <2>1. proc'[p].step = "record"
    BY <1>1, <1>8, GoesOn DEF RecordAttempt
  <2> QED
    BY <2>1 DEF Unreported
<1>9. CASE proc' = [proc EXCEPT ![p] = IdleProcess]
  BY <1>1, <1>9, RecordTypes DEF TypeOK, Active
<1>10. CASE RecordOutcome(p) /\ Holds(p) /\ proc[p].outcome = "recovered"
  <2>1. proc'[p].step = "resolve"
    BY <1>1, <1>10, GoesOn DEF RecordOutcome
  <2>2. proc[p].op \in Operations /\ op[proc[p].op] \in Row /\ proc[p].outcome \in Outcomes
    BY <1>1, TypeFacts DEF Locals
  <2>3. op'[proc[p].op] = Recorded(proc[p].outcome, op[proc[p].op])
    BY <1>1, <1>10, <2>2 DEF RecordOutcome, TypeOK
  <2>4. op'[proc[p].op].token = 0
    BY <2>2, <2>3, RecordedType
  <2> QED
    BY <1>1, <1>2, <2>1, <2>4 DEF Unreported
<1> QED
  BY <1>3, <1>4, <1>5, <1>6, <1>7, <1>8, <1>9, <1>10
     DEF RecordOutcome, ResolveUnknown, DatabaseError, Crash

LEMMA ReportClaim ==
    ASSUME FenceInv, ReportInv, TypeOK', NEW p \in Processes, ClaimNext(p)
    PROVE  ReportInv'
<1>1. TypeOK
  BY DEF FenceInv
<1> USE <1>1, TypeFacts
<1>2. PICK o \in Operations :
        /\ Claimable(o)
        /\ op' = [op EXCEPT ![o] =
             [@ EXCEPT !.status = "running", !.attempt = op[o].attempt + 1, !.due = TRUE,
                       !.lockedBy = WorkerId[p], !.token = tokens + 1, !.lease = "held"]]
        /\ proc' = [proc EXCEPT ![p] =
             [IdleProcess EXCEPT !.step = "execute", !.op = o,
                                 !.attempt = op[o].attempt + 1, !.token = tokens + 1]]
  BY DEF ClaimNext
<1>3. /\ op'[o].status = "running" /\ op'[o].token = tokens + 1
      /\ op'[o].attempt = op[o].attempt + 1
      /\ \A u \in Operations \ {o} : op'[u] = op[u]
  BY <1>2 DEF TypeOK, Row
<1>4. /\ proc'[p].op = o /\ proc'[p].step = "execute" /\ proc'[p].outcome = "unknown"
      /\ proc'[p].attempt = op[o].attempt + 1
      /\ \A q \in Processes \ {p} : proc'[q] = proc[q]
  BY <1>2 DEF TypeOK, IdleProcess
<1>5. attempts' = attempts /\ ClaimNext(p) /\ attempts \subseteq Attempt
  BY DEF ClaimNext, TypeOK
<1>6. \A u \in Operations : op[u].status # "absent" =>
        op'[u].status # "absent" /\ op[u].attempt <= op'[u].attempt
  BY <1>3
<1>7. [Next]_vars
  BY DEF Next, ExecuteNext
<1>8. \A a \in attempts' : op'[a.op].status # "absent" /\ a.attempt <= op'[a.op].attempt
  BY <1>5, <1>6, <1>7, ReportedRows
<1>9. Unreported(p)'
  <2>1. ASSUME NEW a \in attempts', a.op = o PROVE a.attempt # op[o].attempt + 1
    <3>1. a.attempt \in Nat /\ a.attempt <= op[o].attempt
      BY <1>5, <2>1 DEF ReportInv, Attempt
    <3> QED
      BY <3>1
  <2> QED
    BY <1>4, <2>1 DEF Unreported
<1>10. ASSUME NEW q \in Processes \ {p}, Active(q)'
       PROVE  Unreported(q)' /\ Active(q) /\ proc'[q] = proc[q]
                             /\ ~(proc[q].op = o /\ proc[q].attempt = op[o].attempt + 1)
  <2>1. proc'[q] = proc[q] /\ Active(q) /\ proc[q].op \in Operations
    BY <1>4, <1>10 DEF Active
  <2>2. proc[q].token <= tokens /\ proc[q].attempt <= op[proc[q].op].attempt
    BY <2>1 DEF FenceInv
  <2>3. \/ op'[proc[q].op].token # proc[q].token
        \/ op'[proc[q].op].token = op[proc[q].op].token
    BY <1>3, <2>1, <2>2
  <2>4. Unreported(q)'
    BY <1>5, <1>7, <2>1, <2>3, UnreportedStill
  <2> QED
    BY <2>1, <2>2, <2>4
<1>11. \A q \in Processes : Active(q)' => Unreported(q)'
  BY <1>9, <1>10
<1>12. ASSUME NEW q \in Processes, NEW s \in Processes, Active(q)', Active(s)',
              proc'[q].op = proc'[s].op, proc'[q].attempt = proc'[s].attempt
       PROVE  q = s
  <2>1. CASE q = p \/ s = p
    BY <1>4, <1>10, <1>12, <2>1
  <2>2. CASE q # p /\ s # p
    BY <1>10, <1>12, <2>2 DEF ReportInv
  <2> QED
    BY <2>1, <2>2
<1> QED
  BY <1>8, <1>11, <1>12 DEF ReportInv

LEMMA ReportStep == FenceInv /\ ReportInv /\ [Next]_vars => ReportInv'
<1> SUFFICES ASSUME FenceInv, ReportInv, [Next]_vars PROVE ReportInv'
  OBVIOUS
<1>0. TypeOK /\ TypeOK'
  BY TypeStep DEF FenceInv
<1> USE <1>0, TypeFacts
<1>1. CASE \E p \in Processes : ClaimNext(p)
  BY <1>1, ReportClaim
<1>2. CASE UNCHANGED vars
  <2>1. op' = op /\ proc' = proc /\ attempts' = attempts
    BY <1>2 DEF vars
  <2> QED
    BY <2>1 DEF ReportInv, Unreported, Active
<1>3. CASE Next /\ \A p \in Processes : ~ClaimNext(p)
  <2>1. /\ \A o \in Operations : Calm(o)
        /\ \A p \in Processes : Continues(p)
    BY <1>3, RowsCalm, ProcessesContinue
  <2>2. \A o \in Operations : op[o].status # "absent" =>
          op'[o].status # "absent" /\ op[o].attempt <= op'[o].attempt
    BY <2>1 DEF Calm
  <2>3. \A a \in attempts' : op'[a.op].status # "absent" /\ a.attempt <= op'[a.op].attempt
    BY <2>2, ReportedRows DEF TypeOK
  <2>4. ASSUME NEW q \in Processes, NEW s \in Processes, Active(q)', Active(s)',
               proc'[q].op = proc'[s].op, proc'[q].attempt = proc'[s].attempt
        PROVE  q = s
    BY <2>1, <2>4 DEF ReportInv, Continues, Active
  <2>5. ASSUME NEW q \in Processes, Active(q)' PROVE Unreported(q)'
    <3>1. Active(q) /\ proc[q].op \in Operations
      BY <2>1, <2>5 DEF Continues, Active
    <3>2. Calm(proc[q].op) /\ Continues(q)
      BY <2>1, <3>1
    <3>3. CASE \/ ExecuteSucceeds(q) \/ ExecuteUnknown(q) \/ ExecuteRefuses(q) \/ Lookup(q)
               \/ RecordAttempt(q) \/ RecordOutcome(q) \/ ResolveUnknown(q)
               \/ DatabaseError(q) \/ Crash(q)
      BY <2>5, <3>1, <3>2, <3>3, MoverReports
    <3>4. CASE ~(\/ ExecuteSucceeds(q) \/ ExecuteUnknown(q) \/ ExecuteRefuses(q) \/ Lookup(q)
                 \/ RecordAttempt(q) \/ RecordOutcome(q) \/ ResolveUnknown(q)
                 \/ DatabaseError(q) \/ Crash(q))
      <4>1. proc'[q] = proc[q]
        BY <1>3, <3>4, OthersStand
      <4>2. 0 < proc[q].token
        BY <3>1 DEF FenceInv
      <4>3. \/ op'[proc[q].op].token # proc[q].token
            \/ op'[proc[q].op].token = op[proc[q].op].token
        BY <3>2, <4>2 DEF Calm
      <4> QED
        BY <3>1, <3>4, <4>1, <4>3, UnreportedStill
    <3> QED
      BY <3>3, <3>4
  <2> QED
    BY <2>3, <2>4, <2>5 DEF ReportInv
<1> QED
  BY <1>1, <1>2, <1>3

-----------------------------------------------------------------------------
(* The price of a repetition *)

\* The processes that may still make the remote system act for o.
Executing(o) == {p \in Processes : proc[p].op = o /\ proc[p].step = "execute"}

\* A process past the remote call whose operation will be claimed again.
Again(p) ==
    /\ proc[p].step # "execute"
    /\ \/ proc[p].outcome = "retryable"
       \/ proc[p].outcome = "unknown" /\ created[proc[p].op] = 0

\* Another claim of o costs no fault any more.
Free(o) ==
    \/ op[o].status \in {"absent", "pending", "retrying"}
    \/ /\ op[o].status = "running"
       /\ \/ op[o].lease = "expired"
          \/ \A p \in Processes : proc[p].op = o /\ Holds(p) => Again(p)
    \/ StillUnknown(o) /\ (o \in cleared \/ created[o] = 0)

\* The acts of the remote system, those under way and the one that a claim free
\* of charge may add are paid for.
Balanced(o) ==
    /\ IsFiniteSet(Executing(o))
    /\ created[o] + Cardinality(Executing(o)) + (IF Free(o) THEN 1 ELSE 0) <= 1 + faults

PaidInv ==
    /\ \A o \in Operations : Balanced(o)
    /\ \A o \in cleared : StillUnknown(o) \/ op[o].status = "succeeded"

LEMMA PaidInit == Init => PaidInv
<1> SUFFICES ASSUME Init, NEW o \in Operations PROVE Balanced(o)
  BY DEF Init, PaidInv
<1>1. Executing(o) = {}
  BY RecordTypes DEF Init, Executing
<1>2. created[o] = 0 /\ faults = 0
  BY DEF Init
<1> QED
  BY <1>1, <1>2, FS_EmptySet DEF Balanced

LEMMA BillStays ==
    ASSUME TypeOK, TypeOK', NEW o \in Operations, Balanced(o),
           created'[o] = created[o], Executing(o)' \subseteq Executing(o),
           \/ faults' = faults /\ (Free(o)' => Free(o))
           \/ faults' = faults + 1
    PROVE  Balanced(o)'
<1>1. /\ IsFiniteSet(Executing(o)')
      /\ Cardinality(Executing(o)') <= Cardinality(Executing(o))
      /\ Cardinality(Executing(o)) \in Nat /\ Cardinality(Executing(o)') \in Nat
  BY FS_Subset, FS_CardinalityType DEF Balanced
<1>2. created[o] \in Nat /\ faults \in Nat
  BY DEF TypeOK
<1> QED
  BY <1>1, <1>2 DEF Balanced

\* An execute ends, with or without an act.
LEMMA BillOfAct ==
    ASSUME TypeOK, TypeOK', NEW o \in Operations, Balanced(o), NEW p \in Executing(o),
           Executing(o)' = Executing(o) \ {p}, faults' = faults,
           \/ created'[o] = created[o]
           \/ created'[o] = created[o] + 1 /\ (Free(o)' => Free(o))
    PROVE  Balanced(o)'
<1>1. /\ IsFiniteSet(Executing(o)')
      /\ Cardinality(Executing(o)') = Cardinality(Executing(o)) - 1
      /\ Cardinality(Executing(o)) \in Nat /\ Cardinality(Executing(o)') \in Nat
  BY FS_RemoveElement, FS_CardinalityType DEF Balanced
<1>2. created[o] \in Nat /\ faults \in Nat
  BY DEF TypeOK
<1> QED
  BY <1>1, <1>2 DEF Balanced

LEMMA BillOfClaim ==
    ASSUME TypeOK, TypeOK', NEW o \in Operations, Balanced(o), NEW p \in Processes,
           Executing(o)' = Executing(o) \cup {p}, faults' = faults,
           created'[o] = created[o], Free(o), ~Free(o)'
    PROVE  Balanced(o)'
<1>1. /\ IsFiniteSet(Executing(o)')
      /\ Cardinality(Executing(o)') <= Cardinality(Executing(o)) + 1
      /\ Cardinality(Executing(o)) \in Nat /\ Cardinality(Executing(o)') \in Nat
  <2>1. IsFiniteSet(Executing(o)) /\ Cardinality(Executing(o)) \in Nat
    BY FS_CardinalityType DEF Balanced
  <2>2. /\ IsFiniteSet(Executing(o) \cup {p})
        /\ Cardinality(Executing(o) \cup {p}) \in
             {Cardinality(Executing(o)), Cardinality(Executing(o)) + 1}
    BY <2>1, FS_AddElement
  <2> QED
    BY <2>1, <2>2
<1>2. created[o] \in Nat /\ faults \in Nat
  BY DEF TypeOK
<1> QED
  BY <1>1, <1>2 DEF Balanced

\* Nothing becomes free when one process moves on and leaves the row alone,
\* unless it held the row and will not come again.
LEMMA FreeShrinks ==
    ASSUME TypeOK, TypeOK', NEW o \in Operations, NEW p \in Processes,
           op'[o] = op[o], o \in cleared' => o \in cleared, created[o] <= created'[o],
           \A q \in Processes \ {p} : proc'[q] = proc[q],
           proc[p].op = o /\ Holds(p) =>
             Again(p) \/ (proc'[p].op = o /\ Holds(p)' /\ ~Again(p)')
    PROVE  Free(o)' => Free(o)
<1> SUFFICES ASSUME Free(o)' PROVE Free(o)
  OBVIOUS
<1>1. created[o] \in Nat /\ created'[o] \in Nat
  BY DEF TypeOK
<1>2. created'[o] = 0 => created[o] = 0
  BY <1>1
<1>3. ASSUME \A q \in Processes : proc'[q].op = o /\ Holds(q)' => Again(q)',
             NEW q \in Processes, proc[q].op = o, Holds(q)
      PROVE  Again(q)
  <2>1. CASE q = p
    BY <1>3, <2>1
  <2>2. CASE q # p
    <3>1. proc'[q] = proc[q]
      BY <2>2
    <3>2. Holds(q)'
      BY <1>3, <3>1 DEF Holds
    <3> QED
      BY <1>2, <1>3, <3>1, <3>2 DEF Again
  <2> QED
    BY <2>1, <2>2
<1> QED
  BY <1>2, <1>3 DEF Free, StillUnknown

\* What a process does elsewhere is not on the bill of o.
LEMMA BillElsewhere ==
    ASSUME TypeOK, TypeOK', NEW o \in Operations, Balanced(o), NEW p \in Processes,
           proc[p].op # o, proc'[p].op # o,
           \A q \in Processes \ {p} : proc'[q] = proc[q],
           op'[o] = op[o], cleared' = cleared, created'[o] = created[o],
           faults' \in {faults, faults + 1}
    PROVE  Balanced(o)'
<1>1. Executing(o)' \subseteq Executing(o)
  BY DEF Executing
<1>2. created[o] \in Nat
  BY DEF TypeOK
<1>3. Free(o)' => Free(o)
  BY <1>2, FreeShrinks
<1> QED
  BY <1>1, <1>3, BillStays

\* The rows change under processes that stand still.
LEMMA BillOfRows ==
    ASSUME TypeOK, TypeOK', NEW o \in Operations, Balanced(o),
           proc' = proc, created' = created,
           \/ faults' = faults /\ (Free(o)' => Free(o))
           \/ faults' = faults + 1
    PROVE  Balanced(o)'
<1>1. Executing(o)' \subseteq Executing(o)
  BY DEF Executing
<1> QED
  BY <1>1, BillStays

LEMMA FreeStill ==
    ASSUME NEW o \in Operations, proc' = proc, created' = created, op'[o] = op[o],
           o \in cleared' => o \in cleared
    PROVE  Free(o)' => Free(o)
<1>1. \A p \in Processes : proc[p].op = o => (Holds(p)' <=> Holds(p)) /\ (Again(p)' <=> Again(p))
  BY DEF Holds, Again
<1> QED
  BY <1>1 DEF Free, StillUnknown

LEMMA BillOfRowSteps ==
    ASSUME TypeOK, TypeOK', NEW u \in Operations, NEW o \in Operations, Balanced(o),
           PaidInv,
           \/ CreateOrGet(u) \/ OperatorFindsAbsent(u) \/ Requeue(u)
           \/ BecomesDue(u) \/ LeaseExpires(u) \/ LeaseOutlived(u)
    PROVE  Balanced(o)'
<1>0. proc' = proc /\ created' = created
  BY DEF CreateOrGet, OperatorFindsAbsent, Requeue, BecomesDue, LeaseExpires, LeaseOutlived
<1>1. CASE LeaseOutlived(u)
  BY <1>0, <1>1, BillOfRows DEF LeaseOutlived
<1>2. CASE ~LeaseOutlived(u)
  <2>1. faults' = faults
    BY <1>2 DEF CreateOrGet, OperatorFindsAbsent, Requeue, BecomesDue, LeaseExpires
  <2>2. CASE o # u
    <3>1. op'[o] = op[o] /\ (o \in cleared' => o \in cleared)
      BY <1>2, <2>2 DEF CreateOrGet, OperatorFindsAbsent, Requeue, BecomesDue,
                        LeaseExpires, TypeOK
    <3> QED
      BY <1>0, <2>1, <3>1, FreeStill, BillOfRows
  <2>3. CASE o = u
    <3>1. CASE CreateOrGet(u) \/ OperatorFindsAbsent(u)
      BY <1>0, <2>1, <2>3, <3>1, BillOfRows DEF CreateOrGet, OperatorFindsAbsent, Free
    <3>2. CASE Requeue(u)
      <4>1. CASE StillUnknown(u)
        <5>1. Free(o)
          BY <2>3, <3>2, <4>1 DEF Requeue, Free
        <5> QED
          BY <1>0, <2>1, <5>1, BillOfRows
      <4>2. CASE ~StillUnknown(u)
        BY <1>0, <2>1, <3>2, <4>2, FreeStill, BillOfRows DEF Requeue
      <4> QED
        BY <4>1, <4>2
    <3>3. CASE BecomesDue(u) \/ LeaseExpires(u)
      <4>1. /\ op'[o].status = op[o].status /\ op'[o].code = op[o].code
            /\ op'[o].lockedBy = op[o].lockedBy /\ op'[o].token = op[o].token
            /\ op'[o].lease = op[o].lease \/ LeaseExpires(u)
            /\ cleared' = cleared
        BY <2>3, <3>3 DEF BecomesDue, LeaseExpires, TypeOK, Row
      <4>2. \A p \in Processes : proc[p].op = o =>
              (Holds(p)' <=> Holds(p)) /\ (Again(p)' <=> Again(p))
        BY <1>0, <4>1 DEF Holds, Again
      <4>3. LeaseExpires(u) => \A p \in Processes : ~(proc[p].op = o /\ Holds(p))
        BY <2>3 DEF LeaseExpires, Attended
      <4>4. Free(o)' => Free(o)
        BY <1>0, <4>1, <4>2, <4>3 DEF Free, StillUnknown
      <4> QED
        BY <1>0, <2>1, <4>4, BillOfRows
    <3> QED
      BY <1>2, <3>1, <3>2, <3>3
  <2> QED
    BY <2>2, <2>3
<1> QED
  BY <1>1, <1>2

LEMMA GoesKeepsToken ==
    ASSUME TypeOK, NEW p \in Processes, NEW s, NEW outcome, Goes(p, s, outcome)
    PROVE  proc'[p].token = proc[p].token
<1>1. proc'[p] = [proc[p] EXCEPT !.step = s, !.outcome = outcome] /\ proc[p] \in Locals
  BY TypeFacts DEF Goes, TypeOK
<1> QED
  BY <1>1 DEF Locals

LEMMA ClaimBill ==
    ASSUME TypeOK, TypeOK', NEW p \in Processes, ClaimNext(p), NEW o \in Operations,
           Balanced(o)
    PROVE  Balanced(o)'
<1>1. PICK u \in Operations :
        /\ Claimable(u)
        /\ op' = [op EXCEPT ![u] =
             [@ EXCEPT !.status = "running", !.attempt = op[u].attempt + 1, !.due = TRUE,
                       !.lockedBy = WorkerId[p], !.token = tokens + 1, !.lease = "held"]]
        /\ proc' = [proc EXCEPT ![p] =
             [IdleProcess EXCEPT !.step = "execute", !.op = u,
                                 !.attempt = op[u].attempt + 1, !.token = tokens + 1]]
  BY DEF ClaimNext
<1>2. /\ proc[p].step = "idle" /\ cleared' = cleared /\ created' = created
      /\ faults' = faults
  BY DEF ClaimNext
<1>3. /\ proc'[p].op = u /\ proc'[p].step = "execute" /\ proc'[p].token = tokens + 1
      /\ \A q \in Processes \ {p} : proc'[q] = proc[q]
  BY <1>1 DEF TypeOK, IdleProcess
<1>4. /\ op'[u].status = "running" /\ op'[u].lease = "held" /\ op'[u].token = tokens + 1
      /\ op'[u].lockedBy = WorkerId[p]
      /\ \A v \in Operations \ {u} : op'[v] = op[v]
  BY <1>1 DEF TypeOK, Row
<1>5. proc[p].op \notin Operations
  BY <1>2, TypeFacts DEF Active
<1>6. CASE o # u
  BY <1>2, <1>3, <1>4, <1>5, <1>6, BillElsewhere
<1>7. CASE o = u
  <2>1. Executing(o)' = Executing(o) \cup {p}
    BY <1>3, <1>7 DEF Executing
  <2>2. Free(o)
    BY <1>1, <1>7 DEF Claimable, Free
  <2>3. proc'[p].op = o /\ Holds(p)' /\ ~Again(p)'
    BY <1>3, <1>4, <1>7 DEF Holds, Again
  <2>4. ~Free(o)'
    BY <1>4, <1>7, <2>3 DEF Free, StillUnknown
  <2> QED
    BY <1>2, <2>1, <2>2, <2>4, BillOfClaim
<1> QED
  BY <1>6, <1>7

\* execute ends: the one step that a fault need not pay for.
LEMMA ExecuteBill ==
    ASSUME TypeOK, TypeOK', NEW p \in Processes, NEW o \in Operations, Balanced(o),
           ExecuteSucceeds(p) \/ ExecuteUnknown(p) \/ ExecuteRefuses(p)
    PROVE  Balanced(o)'
<1>1. /\ proc[p].step = "execute" /\ op' = op /\ cleared' = cleared /\ faults' = faults
  BY DEF ExecuteSucceeds, ExecuteUnknown, ExecuteRefuses
<1>2. PICK u \in Operations : u = proc[p].op
  BY <1>1, TypeFacts DEF Active
<1>3. /\ proc'[p].step \in {"attempt", "lookup"} /\ proc'[p].op = u
      /\ \A q \in Processes \ {p} : proc'[q] = proc[q]
  BY <1>2, GoesOn DEF ExecuteSucceeds, ExecuteUnknown, ExecuteRefuses
<1>4. /\ RemoteActs(u) \/ created' = created
      /\ created' # created => proc'[p].outcome \in {"succeeded", "unknown"}
  BY <1>2, GoesOn DEF ExecuteSucceeds, ExecuteUnknown, ExecuteRefuses
<1>5. \A v \in Operations : created[v] \in Nat /\ (v # u => created'[v] = created[v])
  BY <1>4 DEF RemoteActs, TypeOK
<1>6. CASE o # u
  BY <1>1, <1>2, <1>3, <1>5, <1>6, BillElsewhere
<1>7. CASE o = u
  <2>1. p \in Executing(o) /\ Executing(o)' = Executing(o) \ {p}
    BY <1>1, <1>2, <1>3, <1>7 DEF Executing
  <2>2. CASE created' = created
    BY <1>1, <2>1, <2>2, BillOfAct
  <2>3. CASE created' # created
    <3>1. created'[o] = created[o] + 1
      BY <1>4, <1>7, <2>3 DEF RemoteActs, TypeOK
    <3>2. proc'[p].token = proc[p].token
      BY GoesKeepsToken DEF ExecuteSucceeds, ExecuteUnknown, ExecuteRefuses
    <3>3. Holds(p)' <=> Holds(p)
      BY <1>1, <1>2, <1>3, <3>2 DEF Holds
    <3>4. ~Again(p)'
      BY <1>3, <1>4, <1>5, <1>7, <2>3, <3>1 DEF Again
    <3>5. Free(o)' => Free(o)
      BY <1>1, <1>3, <1>5, <1>7, <3>1, <3>3, <3>4, FreeShrinks
    <3> QED
      BY <1>1, <2>1, <3>1, <3>5, BillOfAct
  <2> QED
    BY <2>2, <2>3
<1> QED
  BY <1>6, <1>7

\* What goes on after execute leaves the acts as they are, and what was not free
\* does not become free without a fault.
LEMMA BillAfterwards ==
    ASSUME TypeOK, TypeOK', NEW p \in Processes, NEW o \in Operations, Balanced(o),
           proc[p].step \in {"lookup", "attempt", "record", "resolve"},
           proc'[p].step # "execute",
           proc'[p].op \in {proc[p].op, Null},
           \A q \in Processes \ {p} : proc'[q] = proc[q],
           \A v \in Operations : v # proc[p].op => op'[v] = op[v],
           created' = created, cleared' = cleared,
           faults' = faults, o = proc[p].op => (Free(o)' => Free(o))
    PROVE  Balanced(o)'
<1>1. CASE o # proc[p].op
  <2>1. proc'[p].op # o
    BY <1>1, NullAssumption
  <2> QED
    BY <1>1, <2>1, BillElsewhere
<1>2. CASE o = proc[p].op
  <2>1. Executing(o)' \subseteq Executing(o)
    BY DEF Executing
  <2> QED
    BY <1>2, <2>1, BillStays
<1> QED
  BY <1>1, <1>2

LEMMA FaultBill ==
    ASSUME TypeOK, TypeOK', NEW p \in Processes, NEW o \in Operations, Balanced(o),
           DatabaseError(p) \/ Crash(p)
    PROVE  Balanced(o)'
<1>1. created' = created /\ faults' = faults + 1
  BY DEF DatabaseError, Crash
<1>2. /\ proc'[p].step # "execute"
      /\ \A q \in Processes \ {p} : proc'[q] = proc[q]
  BY ThrowsOn, RecordTypes DEF DatabaseError, Crash, TypeOK
<1>3. Executing(o)' \subseteq Executing(o)
  BY <1>2 DEF Executing
<1> QED
  BY <1>1, <1>3, BillStays

LEMMA LookupBill ==
    ASSUME TypeOK, TypeOK', NEW p \in Processes, Lookup(p), Unreported(p), Active(p),
           NEW o \in Operations, Balanced(o)
    PROVE  Balanced(o)'
<1>1. /\ proc[p].step = "lookup" /\ op' = op /\ created' = created /\ cleared' = cleared
      /\ faults' = faults /\ proc[p].op \in Operations
  BY TypeFacts DEF Lookup
<1>2. proc[p].outcome = "unknown"
  BY <1>1 DEF Unreported
<1>3. /\ proc'[p].step = "attempt" /\ proc'[p].op = proc[p].op
      /\ \/ proc'[p].outcome = "recovered" /\ created[proc[p].op] > 0
         \/ proc'[p].outcome = "unknown"
      /\ \A q \in Processes \ {p} : proc'[q] = proc[q]
  BY GoesOn DEF Lookup, NotFound
<1>4. proc'[p].token = proc[p].token
  BY GoesKeepsToken DEF Lookup, NotFound
<1>5. Holds(p)' <=> Holds(p)
  BY <1>1, <1>3, <1>4 DEF Holds
<1>6. Again(p) \/ ~Again(p)'
  BY <1>1, <1>2, <1>3, TypeFacts DEF Again
<1>7. o = proc[p].op => (Free(o)' => Free(o))
  <2>1. created[o] <= created'[o]
    BY <1>1, TypeFacts
  <2> QED
    BY <1>1, <1>3, <1>5, <1>6, <2>1, FreeShrinks
<1> QED
  BY <1>1, <1>3, <1>7, BillAfterwards

LEMMA AttemptBill ==
    ASSUME TypeOK, TypeOK', NEW p \in Processes, RecordAttempt(p), Unreported(p), Active(p),
           NEW o \in Operations, Balanced(o)
    PROVE  Balanced(o)'
<1>1. /\ proc[p].step = "attempt" /\ op' = op /\ created' = created /\ cleared' = cleared
      /\ faults' = faults /\ proc[p].op \in Operations
  BY TypeFacts DEF RecordAttempt
<1>2. created[o] <= created'[o]
  BY <1>1, TypeFacts
<1>3. CASE Goes(p, "record", proc[p].outcome)
  <2>1. /\ proc'[p].step = "record" /\ proc'[p].op = proc[p].op
        /\ proc'[p].outcome = proc[p].outcome /\ proc'[p].token = proc[p].token
        /\ \A q \in Processes \ {p} : proc'[q] = proc[q]
    BY <1>3, GoesOn, GoesKeepsToken
  <2>2. (Holds(p)' <=> Holds(p)) /\ (Again(p)' <=> Again(p))
    BY <1>1, <2>1 DEF Holds, Again
  <2>3. o = proc[p].op => (Free(o)' => Free(o))
    BY <1>1, <1>2, <2>1, <2>2, FreeShrinks
  <2> QED
    BY <1>1, <2>1, <2>3, BillAfterwards
<1>4. CASE Throws(p) /\ \E a \in attempts : a.op = proc[p].op /\ a.attempt = proc[p].attempt
  <2>1. proc[p].outcome = "retryable"
    BY <1>1, <1>4 DEF Unreported
  <2>2. proc' = [proc EXCEPT ![p] = IdleProcess]
    BY <1>4, <2>1 DEF Throws
  <2>3. /\ proc'[p].step = "idle" /\ proc'[p].op = Null
        /\ \A q \in Processes \ {p} : proc'[q] = proc[q]
    BY <2>2, RecordTypes DEF TypeOK
  <2>4. Again(p)
    BY <1>1, <2>1 DEF Again
  <2>5. o = proc[p].op => (Free(o)' => Free(o))
    BY <1>1, <1>2, <2>3, <2>4, FreeShrinks
  <2> QED
    BY <1>1, <2>3, <2>5, BillAfterwards
<1> QED
  BY <1>3, <1>4 DEF RecordAttempt

LEMMA OutcomeBill ==
    ASSUME FenceInv, EvidenceInv, PaidInv, TypeOK', NEW p \in Processes, RecordOutcome(p),
           Active(p), NEW o \in Operations
    PROVE  Balanced(o)'
<1>0. TypeOK /\ Balanced(o)
  BY DEF FenceInv, PaidInv
<1>1. /\ proc[p].step = "record" /\ created' = created /\ cleared' = cleared
      /\ faults' = faults /\ proc[p].op \in Operations
      /\ proc[p].outcome \in Outcomes /\ op[proc[p].op] \in Row
  BY <1>0, TypeFacts DEF RecordOutcome, Locals
<1>2. /\ proc'[p].step \in {"idle", "resolve"} /\ proc'[p].op \in {proc[p].op, Null}
      /\ \A q \in Processes \ {p} : proc'[q] = proc[q]
  <2>1. CASE Holds(p) /\ proc[p].outcome = "recovered"
    BY <1>0, <2>1, GoesOn DEF RecordOutcome
  <2>2. CASE ~(Holds(p) /\ proc[p].outcome = "recovered")
    BY <1>0, <2>2, RecordTypes DEF RecordOutcome, TypeOK
  <2> QED
    BY <2>1, <2>2
<1>3. CASE ~Holds(p)
  <2>1. op' = op
    BY <1>3 DEF RecordOutcome
  <2>2. created[o] <= created'[o]
    BY <1>0, <1>1, TypeFacts
  <2>3. o = proc[p].op => (Free(o)' => Free(o))
    BY <1>0, <1>1, <1>2, <1>3, <2>1, <2>2, FreeShrinks
  <2> QED
    BY <1>0, <1>1, <1>2, <2>1, <2>3, BillAfterwards
<1>4. CASE Holds(p)
  <2> DEFINE r == Recorded(proc[p].outcome, op[proc[p].op])
  <2>1. op' = [op EXCEPT ![proc[p].op] = r]
    BY <1>4 DEF RecordOutcome
  <2>2. op'[proc[p].op] = r /\ \A v \in Operations : v # proc[p].op => op'[v] = op[v]
    BY <1>0, <1>1, <2>1 DEF TypeOK
  <2> HIDE DEF r
  <2>3. ASSUME o = proc[p].op, Free(o)' PROVE Free(o)
    <3>1. op[o].status = "running" /\ ~StillUnknown(o) /\ op[o].status # "succeeded"
      BY <1>4, <2>3 DEF Holds, StillUnknown
    <3>2. o \notin cleared
      BY <3>1 DEF PaidInv
    <3>3. \A q \in Processes : proc[q].op = o /\ Holds(q) => q = p
      <4>1. TokenFence
        BY FenceImplies
      <4> QED
        BY <1>0, <1>4, <2>3, <4>1, TypeFacts DEF TokenFence, Active
    <3>4. Again(p)
      <4>1. CASE proc[p].outcome \in {"succeeded", "failed"}
        <5>1. r.status = "succeeded" \/ (r.status = "failed" /\ r.code = "error")
          BY <1>1, <4>1, RecordedType DEF r
        <5> QED
          BY <2>2, <2>3, <5>1 DEF Free, StillUnknown
      <4>2. CASE proc[p].outcome = "retryable"
        BY <1>1, <4>2 DEF Again
      <4>3. CASE proc[p].outcome \in {"recovered", "unknown"}
        <5>1. r.status = "failed"
          BY <1>1, <4>3, RecordedType DEF r
        <5>2. created[o] = 0
          BY <1>1, <2>2, <2>3, <3>2, <5>1 DEF Free
        <5>3. proc[p].outcome # "recovered"
          BY <1>1, <2>3, <5>2 DEF EvidenceInv, Vouched
        <5> QED
          BY <1>1, <2>3, <4>3, <5>2, <5>3 DEF Again
      <4> QED
        BY <1>1, <4>1, <4>2, <4>3 DEF Outcomes
    <3> QED
      BY <3>1, <3>3, <3>4 DEF Free
  <2> QED
    BY <1>0, <1>1, <1>2, <2>2, <2>3, BillAfterwards
<1> QED
  BY <1>3, <1>4

LEMMA ResolveBill ==
    ASSUME TypeOK, TypeOK', NEW p \in Processes, ResolveUnknown(p), Unreported(p), Active(p),
           NEW o \in Operations, Balanced(o)
    PROVE  Balanced(o)'
<1>1. /\ proc[p].step = "resolve" /\ created' = created /\ cleared' = cleared
      /\ faults' = faults /\ proc[p].op \in Operations
  BY TypeFacts DEF ResolveUnknown
<1>2. /\ proc'[p].step = "idle" /\ proc'[p].op = Null
      /\ \A q \in Processes \ {p} : proc'[q] = proc[q]
  BY RecordTypes DEF ResolveUnknown, TypeOK
<1>3. \A v \in Operations : v # proc[p].op => op'[v] = op[v]
  BY DEF ResolveUnknown, TypeOK
<1>4. ASSUME o = proc[p].op PROVE Free(o)' => Free(o)
  <2>1. CASE StillUnknown(o)
    <3>1. op'[o].status = "succeeded"
      BY <1>1, <1>4, <2>1 DEF ResolveUnknown, TypeOK, Row
    <3> QED
      BY <3>1 DEF Free, StillUnknown
  <2>2. CASE ~StillUnknown(o)
    <3>1. op' = op /\ created[o] <= created'[o]
      BY <1>1, <1>4, <2>2, TypeFacts DEF ResolveUnknown
    <3>2. ~Holds(p)
      BY <1>1 DEF Unreported, Holds
    <3> QED
      BY <1>1, <1>2, <3>1, <3>2, FreeShrinks
  <2> QED
    BY <2>1, <2>2
<1> QED
  BY <1>1, <1>2, <1>3, <1>4, BillAfterwards

\* An operator's finding is about a row that nothing but a requeue opens again.
LEMMA ClearedStep ==
    ASSUME FenceInv, PaidInv, [Next]_vars
    PROVE  \A o \in cleared' : StillUnknown(o)' \/ op'[o].status = "succeeded"
<1>0. TypeOK /\ cleared \subseteq Operations
  BY DEF FenceInv, TypeOK
<1> TAKE o \in cleared'
<1>1. CASE o \notin cleared
  <2>1. OperatorFindsAbsent(o)
    BY <1>1 DEF Next, ExecuteNext, vars, CreateOrGet, ClaimNext, ExecuteSucceeds,
         ExecuteUnknown, ExecuteRefuses, Lookup, RecordAttempt, RecordOutcome,
         ResolveUnknown, OperatorFindsAbsent, Requeue, BecomesDue, LeaseExpires,
         LeaseOutlived, DatabaseError, Crash
  <2> QED
    BY <2>1 DEF OperatorFindsAbsent, StillUnknown
<1>2. CASE o \in cleared
  <2>0. o \in Operations /\ (StillUnknown(o) \/ op[o].status = "succeeded")
    BY <1>0, <1>2 DEF PaidInv
  <2>1. CASE op'[o] = op[o]
    BY <2>0, <2>1 DEF StillUnknown
  <2>2. ASSUME NEW u \in Operations, CreateOrGet(u) PROVE op'[o] = op[o]
    BY <1>0, <2>0, <2>2 DEF CreateOrGet, StillUnknown, TypeOK
  <2>3. ASSUME NEW p \in Processes, ClaimNext(p) PROVE op'[o] = op[o]
    BY <1>0, <2>0, <2>3 DEF ClaimNext, Claimable, StillUnknown, TypeOK
  <2>4. ASSUME NEW p \in Processes, RecordOutcome(p) PROVE op'[o] = op[o]
    BY <1>0, <2>0, <2>4 DEF RecordOutcome, Holds, StillUnknown, TypeOK
  <2>5. ASSUME NEW p \in Processes, ResolveUnknown(p)
        PROVE  op'[o] = op[o] \/ op'[o].status = "succeeded"
    BY <1>0, <2>0, <2>5 DEF ResolveUnknown, TypeOK, Row
  <2>6. ASSUME NEW u \in Operations, Requeue(u) PROVE op'[o] = op[o]
    BY <1>0, <2>0, <2>6 DEF Requeue, TypeOK
  <2>7. ASSUME NEW u \in Operations, BecomesDue(u) \/ LeaseExpires(u) \/ LeaseOutlived(u)
        PROVE  op'[o].status = op[o].status /\ op'[o].code = op[o].code
    BY <1>0, <2>0, <2>7 DEF BecomesDue, LeaseExpires, LeaseOutlived, TypeOK, Row
  <2>8. CASE UNCHANGED vars
    BY <2>1, <2>8 DEF vars
  <2> QED
    BY <2>0, <2>1, <2>2, <2>3, <2>4, <2>5, <2>6, <2>7, <2>8
       DEF Next, ExecuteNext, ExecuteSucceeds, ExecuteUnknown, ExecuteRefuses, Lookup,
           RecordAttempt, OperatorFindsAbsent, DatabaseError, Crash, StillUnknown
<1> QED
  BY <1>1, <1>2

LEMMA PaidStep ==
    FenceInv /\ EvidenceInv /\ ReportInv /\ PaidInv /\ [Next]_vars => PaidInv'
<1> SUFFICES ASSUME FenceInv, EvidenceInv, ReportInv, PaidInv, [Next]_vars PROVE PaidInv'
  OBVIOUS
<1>0. TypeOK /\ TypeOK' /\ \A p \in Processes : Active(p) => Unreported(p)
  BY TypeStep DEF FenceInv, ReportInv
<1>1. ASSUME NEW o \in Operations PROVE Balanced(o)'
  <2>0. Balanced(o)
    BY DEF PaidInv
  <2>1. CASE UNCHANGED vars
    BY <2>0, <2>1 DEF vars, Balanced, Executing, Free, StillUnknown, Holds, Again
  <2>2. ASSUME NEW u \in Operations,
               \/ CreateOrGet(u) \/ OperatorFindsAbsent(u) \/ Requeue(u)
               \/ BecomesDue(u) \/ LeaseExpires(u) \/ LeaseOutlived(u)
        PROVE  Balanced(o)'
    BY <1>0, <2>0, <2>2, BillOfRowSteps
  <2>3. ASSUME NEW p \in Processes,
               Lookup(p) \/ RecordAttempt(p) \/ RecordOutcome(p) \/ ResolveUnknown(p)
        PROVE  Balanced(o)'
    <3>1. Active(p) /\ Unreported(p)
      BY <1>0, <2>3 DEF Lookup, RecordAttempt, RecordOutcome, ResolveUnknown, Active
    <3> QED
      BY <1>0, <2>0, <2>3, <3>1, LookupBill, AttemptBill, OutcomeBill, ResolveBill
  <2> QED
    BY <1>0, <2>0, <2>1, <2>2, <2>3, ClaimBill, ExecuteBill, FaultBill DEF Next, ExecuteNext
<1> QED
  BY <1>1, ClearedStep DEF PaidInv

\* Whatever answers are lost, the remote system acts on an operation once, and
\* once more at most for each crash, outlived lease and database error.
THEOREM RecreationsPaidForCorrect == Spec => []RecreationsPaidFor
<1>1. FenceInv /\ PaidInv => RecreationsPaidFor
  <2> SUFFICES ASSUME FenceInv, PaidInv, NEW o \in Operations
               PROVE  created[o] <= 1 + faults
    BY DEF RecreationsPaidFor
  <2>1. Cardinality(Executing(o)) \in Nat
    BY FS_CardinalityType DEF PaidInv, Balanced
  <2>2. created[o] \in Nat /\ faults \in Nat
    BY DEF FenceInv, TypeOK
  <2> QED
    BY <2>1, <2>2 DEF PaidInv, Balanced
<1> QED
  BY <1>1, FenceInit, FenceStep, EvidenceInit, EvidenceStep, ReportInit, ReportStep,
     PaidInit, PaidStep, PTL DEF Spec

-----------------------------------------------------------------------------
(* Refinement *)

Promised == [Promise!RNext]_(Promise!rvars)

LEMMA PromiseInit == Init => Promise!RInit
BY DEF Init, Promise!RInit, NoRow, Phase

\* A row whose phase does not change stutters; the others move.
LEMMA PhaseStays ==
    ASSUME UNCHANGED created, \A o \in Operations : Phase(op'[o]) = Phase(op[o])
    PROVE  Promised
<1>1. UNCHANGED [o \in Operations |-> Phase(op[o])]
  OBVIOUS
<1> QED
  BY <1>1 DEF Promised, Promise!rvars

LEMMA PhaseMoves ==
    ASSUME NEW o \in Operations, NEW from, NEW to,
           Phase(op[o]) = from, Phase(op'[o]) = to, UNCHANGED created,
           \A u \in Operations \ {o} : op'[u] = op[u]
    PROVE  Promise!Move(o, from, to)
<1> DEFINE phase == [u \in Operations |-> Phase(op[u])]
<1>1. phase[o] = from
  OBVIOUS
<1>2. phase' = [phase EXCEPT ![o] = to]
  <2>1. \A u \in Operations : phase'[u] = IF u = o THEN to ELSE phase[u]
    OBVIOUS
  <2> QED
    BY <2>1
<1> QED
  BY <1>1, <1>2 DEF Promise!Move

LEMMA Acts ==
    ASSUME TypeOK, NEW o \in Operations, op[o].status # "absent", UNCHANGED op,
           RemoteActs(o)
    PROVE  Promised
<1>1. Phase(op[o]) # "absent"
  BY DEF Phase, TypeOK, Row, Statuses
<1>2. Promise!Act(o)
  BY <1>1 DEF Promise!Act, RemoteActs
<1> QED
  BY <1>2 DEF Promised, Promise!RNext

LEMMA OutcomePromised ==
    ASSUME FenceInv, EvidenceInv, NEW p \in Processes, RecordOutcome(p)
    PROVE  Promised
<1>1. TypeOK /\ Active(p) /\ UNCHANGED created
  BY DEF FenceInv, RecordOutcome, Active
<1>2. PICK o \in Operations : o = proc[p].op
  BY <1>1, TypeFacts
<1>3. op[o] \in Row /\ proc[p].outcome \in Outcomes
  BY <1>1, TypeFacts DEF Locals
<1>4. CASE ~Holds(p)
  <2>1. op' = op
    BY <1>4 DEF RecordOutcome
  <2> QED
    BY <1>1, <2>1, PhaseStays
<1>5. CASE Holds(p)
  <2> DEFINE r == Recorded(proc[p].outcome, op[o])
  <2>1. op'[o] = r /\ \A u \in Operations \ {o} : op'[u] = op[u]
    BY <1>1, <1>2, <1>5 DEF RecordOutcome, TypeOK
  <2>2. Phase(op[o]) = "open"
    BY <1>2, <1>5 DEF Holds, Phase
  <2>3. CASE proc[p].outcome = "succeeded"
    <3>1. created[o] > 0
      BY <1>2, <2>3 DEF EvidenceInv, Vouched, RecordOutcome
    <3>2. Phase(r) = "done"
      <4>1. r.status = "succeeded"
        BY <1>3, <2>3, RecordedType
      <4> QED
        BY <4>1 DEF Phase
    <3>3. Promise!Finish(o)
      BY <1>1, <2>1, <2>2, <3>1, <3>2, PhaseMoves DEF Promise!Finish
    <3> QED
      BY <3>3 DEF Promised, Promise!RNext
  <2>4. CASE proc[p].outcome \in {"recovered", "unknown"}
    <3>1. Phase(r) = "unknown"
      <4>1. r.status = "failed" /\ r.code = "unknown"
        BY <1>3, <2>4, RecordedType
      <4> QED
        BY <4>1 DEF Phase
    <3>2. Promise!LoseTrack(o)
      BY <1>1, <2>1, <2>2, <3>1, PhaseMoves DEF Promise!LoseTrack
    <3> QED
      BY <3>2 DEF Promised, Promise!RNext
  <2>5. CASE proc[p].outcome = "retryable"
    <3>1. Phase(r) = "open"
      <4>1. r.status = "retrying"
        BY <1>3, <2>5, RecordedType
      <4> QED
        BY <4>1 DEF Phase
    <3>2. \A u \in Operations : Phase(op'[u]) = Phase(op[u])
      BY <2>1, <2>2, <3>1
    <3> QED
      BY <1>1, <3>2, PhaseStays
  <2>6. CASE proc[p].outcome = "failed"
    <3>1. Phase(r) = "refused"
      <4>1. r.status = "failed" /\ r.code = "error"
        BY <1>3, <2>6, RecordedType
      <4> QED
        BY <4>1 DEF Phase
    <3>2. Promise!Refuse(o)
      BY <1>1, <2>1, <2>2, <3>1, PhaseMoves DEF Promise!Refuse
    <3> QED
      BY <3>2 DEF Promised, Promise!RNext
  <2> QED
    BY <1>3, <2>3, <2>4, <2>5, <2>6 DEF Outcomes
<1> QED
  BY <1>4, <1>5

LEMMA PromiseStep == FenceInv /\ EvidenceInv /\ [Next]_vars => Promised
<1> SUFFICES ASSUME FenceInv, EvidenceInv, [Next]_vars PROVE Promised
  OBVIOUS
<1>0. TypeOK
  BY DEF FenceInv
<1> USE <1>0, TypeFacts
<1>1. ASSUME op' = op, created' = created PROVE Promised
  BY <1>1, PhaseStays
<1>2. ASSUME NEW o \in Operations, CreateOrGet(o) PROVE Promised
  <2>1. /\ Phase(op[o]) = "absent" /\ Phase(op'[o]) = "open" /\ UNCHANGED created
        /\ \A u \in Operations \ {o} : op'[u] = op[u]
    BY <1>2 DEF CreateOrGet, TypeOK, NoRow, Phase
  <2>2. Promise!Submit(o)
    BY <2>1, PhaseMoves DEF Promise!Submit
  <2> QED
    BY <2>2 DEF Promised, Promise!RNext
<1>3. ASSUME NEW p \in Processes, ClaimNext(p) PROVE Promised
  <2>1. PICK o \in Operations :
          /\ Claimable(o)
          /\ op' = [op EXCEPT ![o] =
            [@ EXCEPT !.status = "running", !.attempt = op[o].attempt + 1, !.due = TRUE,
                      !.lockedBy = WorkerId[p], !.token = tokens + 1, !.lease = "held"]]
    BY <1>3 DEF ClaimNext
  <2>2. op'[o].status = "running" /\ \A u \in Operations \ {o} : op'[u] = op[u]
    BY <2>1 DEF TypeOK, Row
  <2>3. Phase(op'[o]) = "open" /\ Phase(op[o]) = "open"
    BY <2>1, <2>2 DEF Claimable, Phase
  <2>4. \A u \in Operations : Phase(op'[u]) = Phase(op[u])
    BY <2>2, <2>3
  <2>5. UNCHANGED created
    BY <1>3 DEF ClaimNext
  <2> QED
    BY <2>4, <2>5, PhaseStays
<1>4. ASSUME NEW p \in Processes, ExecuteSucceeds(p) \/ ExecuteUnknown(p) PROVE Promised
  <2>1. Active(p)
    BY <1>4 DEF ExecuteSucceeds, ExecuteUnknown, Active
  <2>2. proc[p].op \in Operations /\ op[proc[p].op].status # "absent"
    BY <2>1 DEF FenceInv
  <2>3. UNCHANGED op /\ (RemoteActs(proc[p].op) \/ UNCHANGED created)
    BY <1>4 DEF ExecuteSucceeds, ExecuteUnknown
  <2> QED
    BY <1>1, <2>2, <2>3, Acts
<1>5. ASSUME NEW p \in Processes, ResolveUnknown(p) PROVE Promised
  <2>1. PICK o \in Operations : o = proc[p].op
    BY <1>5 DEF ResolveUnknown, Active
  <2>2. CASE StillUnknown(o)
    <3>1. /\ op'[o].status = "succeeded" /\ UNCHANGED created
          /\ \A u \in Operations \ {o} : op'[u] = op[u]
      BY <1>5, <2>1, <2>2 DEF ResolveUnknown, TypeOK, Row
    <3>2. Phase(op[o]) = "unknown" /\ Phase(op'[o]) = "done"
      BY <2>2, <3>1 DEF StillUnknown, Phase
    <3>3. created[o] > 0
      BY <1>5, <2>1 DEF EvidenceInv, Vouched, ResolveUnknown
    <3>4. Promise!Discover(o)
      BY <3>1, <3>2, <3>3, PhaseMoves DEF Promise!Discover
    <3> QED
      BY <3>4 DEF Promised, Promise!RNext
  <2>3. CASE ~StillUnknown(o)
    BY <1>1, <1>5, <2>1, <2>3 DEF ResolveUnknown
  <2> QED
    BY <2>2, <2>3
<1>6. ASSUME NEW o \in Operations, Requeue(o) PROVE Promised
  <2>1. CASE StillUnknown(o)
    <3>1. /\ op'[o].status = "retrying" /\ UNCHANGED created
          /\ \A u \in Operations \ {o} : op'[u] = op[u]
      BY <1>6, <2>1 DEF Requeue, TypeOK, Row
    <3>2. Phase(op[o]) = "unknown" /\ Phase(op'[o]) = "open"
      BY <2>1, <3>1 DEF StillUnknown, Phase
    <3>3. Promise!Reopen(o)
      BY <3>1, <3>2, PhaseMoves DEF Promise!Reopen
    <3> QED
      BY <3>3 DEF Promised, Promise!RNext
  <2>2. CASE ~StillUnknown(o)
    BY <1>1, <1>6, <2>2 DEF Requeue
  <2> QED
    BY <2>1, <2>2
<1>7. ASSUME NEW o \in Operations, BecomesDue(o) \/ LeaseExpires(o) \/ LeaseOutlived(o)
      PROVE  Promised
  <2>1. \A u \in Operations : op'[u].code = op[u].code /\ op'[u].status = op[u].status
    BY <1>7 DEF BecomesDue, LeaseExpires, LeaseOutlived, TypeOK, Row
  <2>2. \A u \in Operations : Phase(op'[u]) = Phase(op[u])
    BY <2>1 DEF Phase
  <2>3. UNCHANGED created
    BY <1>7 DEF BecomesDue, LeaseExpires, LeaseOutlived
  <2> QED
    BY <2>2, <2>3, PhaseStays
<1>8. CASE UNCHANGED vars
  BY <1>1, <1>8 DEF vars
<1> QED
  BY <1>1, <1>2, <1>3, <1>4, <1>5, <1>6, <1>7, <1>8, OutcomePromised
     DEF Next, ExecuteNext, ExecuteRefuses, Lookup, RecordAttempt, OperatorFindsAbsent,
         DatabaseError, Crash

\* What workers, leases, retries and crashes do to an operation is something
\* that RemoteOperation allows: it is done only when the remote system acted,
\* and an unknown result is opened again only by an operator.
THEOREM SyncImplementsRemoteOperation == Spec => ImplementsRemoteOperation
BY FenceInit, FenceStep, EvidenceInit, EvidenceStep, PromiseInit, PromiseStep, PTL
   DEF Spec, ImplementsRemoteOperation, Promise!RSpec, Promised
=============================================================================
