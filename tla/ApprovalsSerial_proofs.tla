----------------------- MODULE ApprovalsSerial_proofs -----------------------
(***************************************************************************)
(* With one engine, a database on disk and one decide request at a time, a *)
(* token is used at most once.                                             *)
(***************************************************************************)
EXTENDS ApprovalsSerial, Approvals_proofs

LEMMA SerialInit == Init => SerialInv
  BY DEF Init, SerialInv, FreshReads, ApprovedOnce, Committed, Holds, Bit, None,
         NoAuth, NoDecision, Blank

\* No status that an operation has read is stale when it writes, because the
\* one engine and the one decision never want to write the same row: the
\* engine waits for APPROVED and the decision for PENDING.
LEMMA SerialStep == TypeOK /\ SerialInv /\ [Next]_vars => SerialInv'
<1> SUFFICES ASSUME TypeOK, SerialInv, [Next]_vars PROVE SerialInv'
  OBVIOUS
<1> DEFINE WriteFresh == \A d \in Deciders :
               dec[d].pc = "write" => store[dec[d].id].status = "pending"
           ConsumeFresh == \A e \in Engines :
               auth[e].pc = "consume" => store[auth[e].id].status = "approved"
           UsedConsumed == \A e \in Engines, a \in Actions, id \in Ids :
               Committed(e, a, id) > 0 => store[id].status = "consumed"
<1>0. WriteFresh /\ ConsumeFresh /\ UsedConsumed /\ ApprovedOnce
  BY DEF SerialInv, FreshReads
<1>a. \A e, f \in Engines : e = f
  BY SerialAssumption
<1>b. \A c, d \in Deciders : c = d
  BY SerialAssumption
<1>c. Durable
  BY SerialAssumption
<1>d. \A e \in Engines, a \in Actions, id \in Ids :
         /\ performed[e][a][id] \in Nat
         /\ inflight[e][a][id] \in Nat
         /\ approvals[id] \in Nat
  BY DEF TypeOK, CallType, Counters, RestType
<1> USE DEF Bit, Holds
<1>1. ASSUME NEW e \in Engines, NEW a \in Actions, NEW id \in Ids,
             RequestApproval(e, a, id)
      PROVE  SerialInv'
  <2>1. store[id].status = "absent" /\ approvals[id] = 0
    BY <1>0, <1>1 DEF ApprovedOnce, RequestApproval
  <2>2. /\ store'[id].status = "pending"
        /\ \A i \in Ids \ {id} : store'[i] = store[i]
    BY <1>1 DEF RequestApproval, TypeOK, StoreType
  <2>3. /\ asked'[id] # NoAction
        /\ \A i \in Ids \ {id} : asked'[i] = asked[i]
    BY <1>1, ActionsAssumption DEF RequestApproval, TypeOK, RestType
  <2>4. auth'[e].pc = "audit" /\ auth'[e].status = "pending_approval"
    BY <1>1 DEF RequestApproval, Goto, TypeOK, AuthType
  <2>5. WriteFresh'
    BY <1>0, <1>1, <2>2 DEF RequestApproval, TypeOK, DecType
  <2>6. ConsumeFresh'
    BY <1>a, <2>4
  <2>7. UsedConsumed'
    BY <1>0, <1>1, <1>a, <1>d, <2>1, <2>2, <2>4 DEF RequestApproval, Committed
  <2>8. ApprovedOnce'
    BY <1>0, <1>1, <2>1, <2>2, <2>3 DEF RequestApproval, ApprovedOnce
  <2> QED
    BY <2>5, <2>6, <2>7, <2>8 DEF SerialInv, FreshReads
<1>2. ASSUME NEW e \in Engines, NEW a \in Actions, NEW id \in Ids,
             \/ PresentRefused(e, a, id)
             \/ PresentPending(e, a, id)
             \/ PresentApproved(e, a, id)
      PROVE  SerialInv'
  <2>1. /\ auth'[e].pc = "consume" => store[auth'[e].id].status = "approved"
        /\ auth'[e].pc = "audit" => auth'[e].status # "allowed"
    BY <1>2 DEF PresentRefused, PresentPending, PresentApproved, Spendable, Goto,
                TypeOK, AuthType
  <2>2. UNCHANGED <<store, dec, performed, inflight, approvals, asked>>
    BY <1>2 DEF PresentRefused, PresentPending, PresentApproved
  <2>3. ConsumeFresh' /\ UsedConsumed'
    BY <1>0, <1>a, <1>d, <2>1, <2>2 DEF Committed
  <2> QED
    BY <1>0, <2>2, <2>3 DEF SerialInv, FreshReads, ApprovedOnce
<1>3. ASSUME NEW e \in Engines, Consume(e) PROVE SerialInv'
  <2> DEFINE id == auth[e].id
  <2>1. id \in Ids /\ store[id].status = "approved"
    BY <1>0, <1>3 DEF Consume, TypeOK, AuthType
  <2>2. /\ store'[id].status = "consumed"
        /\ \A i \in Ids \ {id} : store'[i] = store[i]
    BY <1>3, <2>1 DEF Consume, SetStatus, TypeOK, StoreType, Row
  <2>3. /\ auth'[e].pc = "audit"
        /\ auth'[e].id = id
    BY <1>3 DEF Consume, TypeOK, AuthType
  <2>4. UNCHANGED <<dec, performed, inflight, approvals, asked>>
    BY <1>3 DEF Consume
  <2> HIDE DEF id
  <2>5. WriteFresh'
    BY <1>0, <2>1, <2>2, <2>4 DEF TypeOK, DecType
  <2>6. ConsumeFresh'
    BY <1>a, <2>3
  <2>7. UsedConsumed'
    BY <1>0, <1>a, <1>d, <2>2, <2>3, <2>4 DEF Committed
  <2>8. ApprovedOnce'
    BY <1>0, <2>1, <2>2, <2>4 DEF ApprovedOnce
  <2> QED
    BY <2>5, <2>6, <2>7, <2>8 DEF SerialInv, FreshReads
<1>4. ASSUME NEW e \in Engines, WriteAudit(e) PROVE SerialInv'
  <2>1. auth'[e].pc = "idle" /\ UNCHANGED <<store, dec, performed, approvals, asked>>
    BY <1>4 DEF WriteAudit, NoAuth, TypeOK, AuthType
  <2>2. \A b \in Actions, i \in Ids :
           inflight'[e][b][i] = inflight[e][b][i] + Bit(Holds(e, "audit", b, i))
    BY <1>4 DEF WriteAudit, TypeOK, CallType, Counters, AuthType
  <2>3. UsedConsumed'
    BY <1>0, <1>a, <1>d, <2>1, <2>2 DEF Committed
  <2>4. ConsumeFresh'
    BY <1>a, <2>1
  <2> QED
    BY <1>0, <2>1, <2>3, <2>4 DEF SerialInv, FreshReads, ApprovedOnce
<1>5. ASSUME NEW e \in Engines, Raise(e) \/ Restart(e) PROVE SerialInv'
  <2>1. auth'[e].pc = "idle"
          /\ UNCHANGED <<store, performed, inflight, approvals, asked>>
    BY <1>5, <1>c DEF Raise, Restart, Surviving, NoAuth, TypeOK, AuthType
  <2>2. \A d \in Deciders : dec'[d] = dec[d] \/ dec'[d].pc = "idle"
    BY <1>5 DEF Raise, Restart, NoDecision
  <2>3. UsedConsumed' /\ ConsumeFresh'
    BY <1>0, <1>a, <1>d, <2>1 DEF Committed
  <2>4. WriteFresh'
    BY <1>0, <2>1, <2>2
  <2> QED
    BY <1>0, <2>1, <2>3, <2>4 DEF SerialInv, FreshReads, ApprovedOnce
<1>6. ASSUME NEW e \in Engines, NEW a \in Actions, NEW id \in Ids,
             Perform(e, a, id) \/ Lose(e, a, id)
      PROVE  SerialInv'
  <2>1. UNCHANGED <<store, auth, dec, approvals, asked>> /\ inflight[e][a][id] > 0
    BY <1>6 DEF Perform, Lose
  <2>2. store[id].status = "consumed"
    BY <1>0, <1>d, <2>1 DEF Committed
  <2>3. \A b \in Actions, i \in Ids :
           \/ /\ inflight'[e][b][i] = inflight[e][b][i]
              /\ performed'[e][b][i] = performed[e][b][i]
           \/ i = id
    <3>1. inflight \in Counters /\ inflight' = [inflight EXCEPT ![e][a][id] = @ - 1]
      BY <1>6 DEF Perform, Lose, TypeOK, CallType
    <3>2. performed \in Counters
            /\ \/ performed' = performed
               \/ performed' = [performed EXCEPT ![e][a][id] = @ + 1]
      BY <1>6 DEF Perform, Lose, TypeOK, CallType
    <3>3. \A b \in Actions, i \in Ids \ {id} : inflight'[e][b][i] = inflight[e][b][i]
      BY <3>1 DEF Counters
    <3>4. \A b \in Actions, i \in Ids \ {id} : performed'[e][b][i] = performed[e][b][i]
      BY <3>2 DEF Counters
    <3> QED
      BY <3>3, <3>4
  <2>4. UsedConsumed'
    BY <1>0, <1>a, <2>1, <2>2, <2>3 DEF Committed
  <2> QED
    BY <1>0, <2>1, <2>4 DEF SerialInv, FreshReads, ApprovedOnce
<1>7. ASSUME NEW d \in Deciders, NEW id \in Ids, NEW verdict \in Verdicts,
             DecideRead(d, id, verdict)
      PROVE  SerialInv'
  <2>1. WriteFresh'
    BY <1>0, <1>7 DEF DecideRead, Open, TypeOK, DecType
  <2> QED
    BY <1>0, <1>7, <2>1 DEF DecideRead, SerialInv, FreshReads, ApprovedOnce, Committed
<1>8. ASSUME NEW d \in Deciders, DecideWrite(d) PROVE SerialInv'
  <2> DEFINE id == dec[d].id
  <2>1. id \in Ids /\ store[id].status = "pending" /\ approvals[id] = 0
    BY <1>0, <1>8 DEF DecideWrite, TypeOK, DecType, ApprovedOnce
  <2>2. /\ store'[id].status = dec[d].verdict
        /\ \A i \in Ids \ {id} : store'[i] = store[i]
    BY <1>8, <2>1 DEF DecideWrite, SetStatus, TypeOK, StoreType, Row
  <2>3. /\ approvals'[id] \in {0, 1}
        /\ \A i \in Ids \ {id} : approvals'[i] = approvals[i]
    BY <1>8, <2>1 DEF DecideWrite, TypeOK, RestType
  <2>4. dec'[d].pc # "write"
    BY <1>8 DEF DecideWrite, NoDecision, TypeOK, DecType
  <2>5. UNCHANGED <<auth, performed, inflight, asked>>
    BY <1>8 DEF DecideWrite
  <2>6. dec[d].verdict \in {"approved", "denied"}
    BY DEF TypeOK, DecType, Verdicts
  <2> HIDE DEF id
  <2>7. WriteFresh'
    BY <1>b, <2>4
  <2>8. ConsumeFresh'
    BY <1>0, <2>1, <2>2, <2>5 DEF TypeOK, AuthType
  <2>9. UsedConsumed'
    BY <1>0, <2>1, <2>2, <2>5 DEF Committed
  <2>10. ApprovedOnce'
    BY <1>0, <2>1, <2>2, <2>3, <2>5, <2>6 DEF ApprovedOnce
  <2> QED
    BY <2>7, <2>8, <2>9, <2>10 DEF SerialInv, FreshReads
<1>9. ASSUME NEW d \in Deciders, DecideEnd(d) PROVE SerialInv'
  <2>1. WriteFresh'
    BY <1>0, <1>9 DEF DecideEnd, NoDecision, TypeOK, DecType
  <2> QED
    BY <1>0, <1>9, <2>1 DEF DecideEnd, SerialInv, FreshReads, ApprovedOnce, Committed
<1>10. CASE Tick
  BY <1>0, <1>10 DEF Tick, SerialInv, FreshReads, ApprovedOnce, Committed
<1>11. CASE UNCHANGED vars
  BY <1>0, <1>11 DEF vars, SerialInv, FreshReads, ApprovedOnce, Committed
<1> QED
  BY <1>1, <1>2, <1>3, <1>4, <1>5, <1>6, <1>7, <1>8, <1>9, <1>10, <1>11
  DEF Next, Engine, HomeAssistant, Human

THEOREM SerialCorrect == Spec => []SerialInv
<1>1. TypeOK /\ SerialInv /\ [Next]_vars => SerialInv'
  BY SerialStep
<1> QED
  BY SerialInit, <1>1, TypeCorrect, PTL DEF Spec

\* ADR-014's promise: tokens are single-use, for any number of actions, ids and
\* calls, when one process authorizes and one decision is in progress at a time.
THEOREM UsedOnce == Spec => []SingleUse
<1>1. GateInv /\ UsesArePaid /\ UsesAreBound /\ SerialInv => SingleUse
  <2> SUFFICES ASSUME GateInv, UsesArePaid, UsesAreBound, SerialInv,
                      NEW id \in Ids, NEW e \in Engines, NEW f \in Engines,
                      NEW a \in Actions, NEW b \in Actions,
                      performed[e][a][id] > 0, performed[f][b][id] > 0
               PROVE  e = f /\ a = b /\ performed[e][a][id] = 1
    BY DEF SingleUse
  <2>1. e = f
    BY SerialAssumption
  <2>2. a = b
    BY DEF UsesAreBound
  <2>3. performed[e][a][id] \in Nat /\ approvals[id] \in Nat
    BY DEF GateInv, TypeOK, CallType, Counters, RestType
  <2>4. performed[e][a][id] <= approvals[id] /\ approvals[id] <= 1
    BY DEF UsesArePaid, SerialInv, ApprovedOnce
  <2> QED
    BY <2>1, <2>2, <2>3, <2>4
<1> QED
  BY <1>1, GateCorrect, UsesPaid, UsesBound, SerialCorrect, PTL

\* Between the write and the answer of the one decision, its row moves only when
\* the engine spends the approval it wrote.
LEMMA AnswerStep ==
    ASSUME TypeOK, SerialInv, AnswerIsVerdict, [Next]_vars
    PROVE  AnswerIsVerdict'
<1> DEFINE Fits(status, verdict) == status = verdict \/ (status = "consumed" /\ verdict = "approved")
<1> SUFFICES ASSUME NEW d \in Deciders, dec'[d].pc = "answer"
             PROVE  Fits(store'[dec'[d].id].status, dec'[d].verdict)
  BY DEF AnswerIsVerdict
<1>a. Durable /\ \A c \in Deciders : c = d
  BY SerialAssumption
<1>b. dec[d].pc = "answer" => Fits(store[dec[d].id].status, dec[d].verdict)
  BY DEF AnswerIsVerdict
<1>c. dec[d].pc # "idle" => dec[d].id \in Ids /\ dec[d].verdict \in {"approved", "denied"}
  BY DEF TypeOK, DecType, Verdicts
<1>1. ASSUME dec' = dec,
             store'[dec[d].id] = store[dec[d].id]
      PROVE  Fits(store'[dec'[d].id].status, dec'[d].verdict)
  BY <1>1, <1>b
<1>2. ASSUME NEW e \in Engines, NEW a \in Actions, NEW i \in Ids, RequestApproval(e, a, i)
      PROVE  dec' = dec /\ store'[dec[d].id] = store[dec[d].id]
  <2>1. dec' = dec /\ store[i].status = "absent"
    BY <1>2 DEF RequestApproval, SerialInv, ApprovedOnce
  <2>2. dec[d].id # i
    BY <1>b, <1>c, <2>1
  <2> QED BY <1>2, <2>1, <2>2, <1>c DEF RequestApproval, TypeOK, StoreType
<1>3. ASSUME NEW e \in Engines, Consume(e)
      PROVE  Fits(store'[dec'[d].id].status, dec'[d].verdict)
  <2>1. /\ dec' = dec /\ auth[e].id \in Ids
        /\ store[auth[e].id].status = "approved"
        /\ store' = [store EXCEPT ![auth[e].id].status = "consumed"]
    BY <1>3 DEF Consume, SetStatus, SerialInv, FreshReads, TypeOK, AuthType
  <2>2. CASE dec[d].id = auth[e].id
    <3>1. store'[dec[d].id].status = "consumed" /\ dec[d].verdict = "approved"
      BY <1>b, <1>c, <2>1, <2>2 DEF TypeOK, StoreType, Row
    <3> QED BY <2>1, <3>1
  <2>3. CASE dec[d].id # auth[e].id
    BY <1>1, <1>c, <2>1, <2>3 DEF TypeOK, StoreType
  <2> QED BY <2>2, <2>3
<1>4. ASSUME NEW c \in Deciders, DecideWrite(c)
      PROVE  Fits(store'[dec'[d].id].status, dec'[d].verdict)
  <2>1. c = d /\ dec[d].pc = "write"
    BY <1>4, <1>a DEF DecideWrite
  <2>2. dec[d].id \in Ids /\ store[dec[d].id].status = "pending"
    BY <1>c, <2>1 DEF SerialInv, FreshReads
  <2>3. dec'[d] = [dec[d] EXCEPT !.pc = "answer"]
    BY <1>4, <1>a, <2>1 DEF DecideWrite, TypeOK, DecType
  <2>4. dec'[d].id = dec[d].id /\ dec'[d].verdict = dec[d].verdict
    BY <2>3 DEF TypeOK, DecType
  <2>5. store'[dec[d].id].status = dec[d].verdict
    BY <1>4, <2>1, <2>2 DEF DecideWrite, SetStatus, TypeOK, StoreType, Row
  <2> QED BY <2>4, <2>5
<1>5. ASSUME NEW e \in Engines, Restart(e)
      PROVE  dec' = dec /\ store' = store
  BY <1>5, <1>a, SerialAssumption DEF Restart, Surviving, NoDecision
<1>6. ASSUME NEW c \in Deciders,
             DecideEnd(c) \/ \E i \in Ids, verdict \in Verdicts : DecideRead(c, i, verdict)
      PROVE  FALSE
  BY <1>6, <1>a DEF DecideEnd, DecideRead, NoDecision, TypeOK, DecType
<1>7. CASE UNCHANGED <<store, dec>>
  BY <1>1, <1>7
<1>8. ASSUME NEW e \in Engines, NEW a \in Actions, NEW i \in Ids,
             PresentRefused(e, a, i) \/ PresentPending(e, a, i) \/ PresentApproved(e, a, i)
      PROVE  UNCHANGED <<store, dec>>
  BY <1>8 DEF PresentRefused, PresentPending, PresentApproved
<1>9. ASSUME NEW e \in Engines, WriteAudit(e) \/ Raise(e)
      PROVE  UNCHANGED <<store, dec>>
  BY <1>9 DEF WriteAudit, Raise
<1>10. ASSUME NEW e \in Engines, NEW a \in Actions, NEW i \in Ids,
              Perform(e, a, i) \/ Lose(e, a, i)
       PROVE  UNCHANGED <<store, dec>>
  BY <1>10 DEF Perform, Lose
<1>11. Tick \/ UNCHANGED vars => UNCHANGED <<store, dec>>
  BY DEF Tick, vars
<1> HIDE DEF Fits
<1>12. ASSUME NEW e \in Engines, Engine(e)
       PROVE  Fits(store'[dec'[d].id].status, dec'[d].verdict)
  BY <1>1, <1>2, <1>3, <1>5, <1>7, <1>8, <1>9, <1>12 DEF Engine
<1>13. CASE HomeAssistant
  BY <1>7, <1>10, <1>13 DEF HomeAssistant
<1>14. ASSUME NEW c \in Deciders, Human(c)
       PROVE  Fits(store'[dec'[d].id].status, dec'[d].verdict)
  BY <1>4, <1>6, <1>14 DEF Human
<1> QED BY <1>7, <1>11, <1>12, <1>13, <1>14 DEF Next

\* The human is answered with the verdict that was given, or learns that the
\* approval was used: the second read of set_status shows nothing else.
THEOREM Answered == Spec => []AnswerIsVerdict
<1>1. Init => AnswerIsVerdict
  BY DEF Init, AnswerIsVerdict, NoDecision
<1>2. TypeOK /\ SerialInv /\ AnswerIsVerdict /\ [Next]_vars => AnswerIsVerdict'
  BY AnswerStep
<1> QED
  BY <1>1, <1>2, TypeCorrect, SerialCorrect, PTL DEF Spec

-----------------------------------------------------------------------------
(* Approvals implements OneUseApproval *)

LEMMA PromiseInit == Init => Promise!Init
  BY EnginesAssumption DEF Init, Promise!Init, None, Blank

\* Each step of the system is a step of the abstract approval's life, or none.
LEMMA PromiseStep ==
    GateInv /\ SerialInv /\ [Next]_vars => [Promise!Next]_(Promise!vars)
<1> SUFFICES ASSUME GateInv, SerialInv, [Next]_vars
             PROVE  [Promise!Next]_(Promise!vars)
  OBVIOUS
<1> DEFINE state == [id \in Ids |-> store[id].status]
           uses == [id \in Ids |-> [a \in Actions |-> performed[Api][a][id]]]
<1>a. TypeOK
  BY DEF GateInv
<1>b. \A e \in Engines : e = Api
  BY SerialAssumption
<1>c. Durable
  BY SerialAssumption
<1>1. ASSUME NEW e \in Engines, NEW a \in Actions, NEW id \in Ids,
             RequestApproval(e, a, id)
      PROVE  Promise!Ask(id, a)
  <2>1. store[id].status = "absent"
    BY <1>1 DEF RequestApproval, SerialInv, ApprovedOnce
  <2>2. state' = [state EXCEPT ![id] = "pending"]
    BY <1>1, <1>a DEF RequestApproval, TypeOK, StoreType
  <2>3. uses' = uses /\ asked' = [asked EXCEPT ![id] = a]
    BY <1>1 DEF RequestApproval
  <2> QED
    BY <2>1, <2>2, <2>3 DEF Promise!Ask
<1>2. ASSUME NEW e \in Engines, NEW id \in Ids, id = auth[e].id, Consume(e)
      PROVE  Promise!Spend(id)
  <2>1. store[id].status = "approved"
    BY <1>2 DEF Consume, SerialInv, FreshReads
  <2>2. state' = [state EXCEPT ![id] = "consumed"]
    BY <1>2, <1>a, <2>1 DEF Consume, SetStatus, TypeOK, StoreType, Row
  <2>3. uses' = uses /\ asked' = asked
    BY <1>2 DEF Consume
  <2> QED
    BY <2>1, <2>2, <2>3 DEF Promise!Spend, Promise!Move
<1>3. ASSUME NEW d \in Deciders, NEW id \in Ids, id = dec[d].id, DecideWrite(d)
      PROVE  Promise!Decide(id)
  <2>1. dec[d].verdict \in {"approved", "denied"} /\ store[id].status = "pending"
    BY <1>3, <1>a DEF DecideWrite, SerialInv, FreshReads, TypeOK, DecType, Verdicts
  <2>2. state' = [state EXCEPT ![id] = dec[d].verdict]
    BY <1>3, <1>a, <2>1 DEF DecideWrite, SetStatus, TypeOK, StoreType, Row
  <2>3. uses' = uses /\ asked' = asked
    BY <1>3 DEF DecideWrite
  <2> QED
    BY <2>1, <2>2, <2>3 DEF Promise!Decide, Promise!Move
<1>4. ASSUME NEW e \in Engines, NEW a \in Actions, NEW id \in Ids, Perform(e, a, id)
      PROVE  Promise!Act(id, a)
  <2>1. /\ performed[e][a][id] \in Nat
        /\ inflight[e][a][id] \in Nat
        /\ inflight[e][a][id] > 0
        /\ approvals[id] \in Nat
    BY <1>4, <1>a DEF Perform, TypeOK, CallType, Counters, RestType
  <2>2. store[id].status = "consumed"
    BY <2>1 DEF SerialInv, FreshReads, Committed, Bit
  <2>3. asked[id] = a
    BY <2>1 DEF GateInv, ActionAccount
  <2>4. performed[Api][a][id] = 0
    <3>1. performed[e][a][id] + inflight[e][a][id] <= approvals[id]
      BY <2>1 DEF GateInv, UseAccount, Committed, Bit
    <3>2. approvals[id] <= 1
      BY DEF SerialInv, ApprovedOnce
    <3> QED
      BY <1>b, <2>1, <3>1, <3>2
  <2>5. uses' = [uses EXCEPT ![id][a] = 1]
    <3>1. /\ performed' = [performed EXCEPT ![Api][a][id] = @ + 1]
          /\ performed \in [Engines -> [Actions -> [Ids -> Nat]]]
          /\ Api \in Engines
      BY <1>4, <1>a, <1>b, EnginesAssumption DEF Perform, TypeOK, CallType, Counters
    <3>2. \A i \in Ids, b \in Actions :
             performed'[Api][b][i] = IF i = id /\ b = a THEN 1 ELSE performed[Api][b][i]
      BY <2>4, <3>1
    <3>3. uses' = [i \in Ids |-> [b \in Actions |->
                     IF i = id /\ b = a THEN 1 ELSE performed[Api][b][i]]]
      BY <3>2
    <3> QED
      BY <3>3
  <2>6. state' = state /\ asked' = asked
    BY <1>4 DEF Perform
  <2> QED
    BY <2>2, <2>3, <2>4, <2>5, <2>6 DEF Promise!Act
<1>5. CASE UNCHANGED <<store, performed, asked>>
  BY <1>5 DEF Promise!vars
<1>6. ASSUME NEW d \in Deciders, DecideWrite(d) PROVE dec[d].id \in Ids
  BY <1>6, <1>a DEF DecideWrite, TypeOK, DecType
<1>7. ASSUME NEW e \in Engines, Consume(e) PROVE auth[e].id \in Ids
  BY <1>7, <1>a DEF Consume, TypeOK, AuthType
<1>8. (\E id \in Ids : \E a \in Actions : Promise!Ask(id, a) \/ Promise!Act(id, a))
        \/ (\E id \in Ids : Promise!Decide(id) \/ Promise!Spend(id))
        => Promise!Next
  BY DEF Promise!Next
<1>9. ASSUME NEW e \in Engines, Engine(e) PROVE [Promise!Next]_(Promise!vars)
  <2>1. CASE \E a \in Actions, id \in Ids : RequestApproval(e, a, id)
    BY <1>1, <1>8, <2>1
  <2>2. CASE Consume(e)
    <3>1. PICK id \in Ids : id = auth[e].id
      BY <1>7, <2>2
    <3>2. Promise!Spend(id)
      BY <1>2, <2>2, <3>1
    <3> QED
      BY <1>8, <3>2
  <2>3. CASE Restart(e)
    BY <1>5, <1>c, <2>3 DEF Restart, Surviving
  <2> QED
    BY <1>5, <1>9, <2>1, <2>2, <2>3
    DEF Engine, PresentRefused, PresentPending, PresentApproved, WriteAudit, Raise
<1>10. CASE HomeAssistant
  BY <1>4, <1>5, <1>8, <1>10 DEF HomeAssistant, Lose
<1>11. ASSUME NEW d \in Deciders, Human(d) PROVE [Promise!Next]_(Promise!vars)
  <2>1. CASE DecideWrite(d)
    <3>1. PICK id \in Ids : id = dec[d].id
      BY <1>6, <2>1
    <3>2. Promise!Decide(id)
      BY <1>3, <2>1, <3>1
    <3> QED
      BY <1>8, <3>2
  <2> QED
    BY <1>5, <1>11, <2>1 DEF Human, DecideRead, DecideEnd
<1>12. CASE Tick \/ UNCHANGED vars
  BY <1>5, <1>12 DEF Tick, vars
<1> QED
  BY <1>9, <1>10, <1>11, <1>12 DEF Next

\* The gate implements the single-use approval of ADR-014.
THEOREM Implementation == Spec => ImplementsOneUse
  BY PromiseInit, PromiseStep, GateCorrect, SerialCorrect, PTL
  DEF Spec, ImplementsOneUse, Promise!Spec

=============================================================================
