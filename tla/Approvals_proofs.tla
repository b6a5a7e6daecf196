-------------------------- MODULE Approvals_proofs --------------------------
(***************************************************************************)
(* Proofs about Approvals, for any engines, decide requests, actions, ids, *)
(* store and bounds.                                                       *)
(***************************************************************************)
EXTENDS Approvals, TLAPS

LEMMA BlankType == AnyAction \in Actions /\ Blank \in Row
  BY ActionsAssumption DEF AnyAction, Blank, Row, RowStatus, Verdicts

\* Counting one call up or down moves that counter and no other.
LEMMA CounterUp ==
    ASSUME NEW f \in Counters, NEW e \in Engines, NEW a \in Actions, NEW id \in Ids,
           NEW g, g = [f EXCEPT ![e][a][id] = @ + 1]
    PROVE  /\ g \in Counters
           /\ \A x \in Engines, b \in Actions, i \in Ids :
                 g[x][b][i] = f[x][b][i] + (IF <<x, b, i>> = <<e, a, id>> THEN 1 ELSE 0)
  BY DEF Counters

LEMMA CounterDown ==
    ASSUME NEW f \in Counters, NEW e \in Engines, NEW a \in Actions, NEW id \in Ids,
           f[e][a][id] > 0,
           NEW g, g = [f EXCEPT ![e][a][id] = @ - 1]
    PROVE  /\ g \in Counters
           /\ \A x \in Engines, b \in Actions, i \in Ids :
                 g[x][b][i] = f[x][b][i] - (IF <<x, b, i>> = <<e, a, id>> THEN 1 ELSE 0)
  BY DEF Counters

\* A call that is about to consume or was allowed carries a real token.
LEMMA AuthHasId ==
    ASSUME AuthType, NEW e \in Engines, auth[e].status # "denied" \/ auth[e].pc = "consume"
    PROVE  auth[e].id \in Ids
  BY DEF AuthType

\* The four ways an engine leaves an authorize call in the type.
LEMMA AuthTypeGoto ==
    ASSUME AuthType, NEW e \in Engines, NEW pc \in {"consume", "audit"},
           NEW a \in Actions, NEW id \in Tokens, NEW status \in Outcomes,
           status # "denied" => id \in Ids, pc = "consume" => status = "allowed",
           Goto(e, pc, a, id, status)
    PROVE  AuthType'
  BY DEF AuthType, Goto

LEMMA AuthTypeIdle ==
    ASSUME AuthType, NEW e \in Engines, auth' = [auth EXCEPT ![e] = NoAuth]
    PROVE  AuthType'
  BY BlankType DEF AuthType, NoAuth, Outcomes, Tokens

LEMMA DecTypeIdle ==
    ASSUME DecType, NEW d \in Deciders, dec' = [dec EXCEPT ![d] = NoDecision]
    PROVE  DecType'
  BY DEF DecType, NoDecision, Verdicts, Tokens

LEMMA TypeInit == Init => TypeOK
<1> SUFFICES ASSUME Init PROVE TypeOK
  OBVIOUS
<1>1. StoreType /\ RestType
  BY BlankType, BoundsAssumption DEF Init, StoreType, RestType
<1>2. AuthType /\ DecType
  BY BlankType DEF Init, AuthType, DecType, NoAuth, NoDecision, Outcomes, Verdicts, Tokens
<1>3. CallType /\ AuditType
  BY DEF Init, CallType, AuditType, None, Counters
<1> QED
  BY <1>1, <1>2, <1>3 DEF TypeOK

LEMMA TypeStep == TypeOK /\ [Next]_vars => TypeOK'
<1> SUFFICES ASSUME StoreType, AuthType, DecType, CallType, AuditType, RestType,
                    [Next]_vars
             PROVE  TypeOK'
  BY DEF TypeOK
<1> USE DEF TypeOK
<1>1. ASSUME NEW e \in Engines, NEW a \in Actions, NEW id \in Ids,
             RequestApproval(e, a, id)
      PROVE  TypeOK'
  <2>1. StoreType' /\ RestType'
    BY <1>1, BoundsAssumption
    DEF RequestApproval, Begin, StoreType, RestType, Row, RowStatus
  <2>2. AuthType'
    BY <1>1, AuthTypeGoto DEF RequestApproval, Outcomes, Tokens
  <2> QED
    BY <1>1, <2>1, <2>2 DEF RequestApproval, DecType, CallType, AuditType
<1>2. ASSUME NEW e \in Engines, NEW a \in Actions, NEW id \in Ids,
             PresentRefused(e, a, id)
      PROVE  TypeOK'
  <2>1. AuthType'
    BY <1>2, AuthTypeGoto DEF PresentRefused, Outcomes, Tokens
  <2> QED
    BY <1>2, <2>1, BoundsAssumption
    DEF PresentRefused, Begin, StoreType, DecType, CallType, AuditType, RestType
<1>3. ASSUME NEW e \in Engines, NEW a \in Actions, NEW id \in Ids,
             PresentPending(e, a, id)
      PROVE  TypeOK'
  <2>1. AuthType'
    BY <1>3, AuthTypeGoto DEF PresentPending, Outcomes, Tokens
  <2> QED
    BY <1>3, <2>1, BoundsAssumption
    DEF PresentPending, Begin, StoreType, DecType, CallType, AuditType, RestType
<1>4. ASSUME NEW e \in Engines, NEW a \in Actions, NEW id \in Ids,
             PresentApproved(e, a, id)
      PROVE  TypeOK'
  <2>1. AuthType'
    BY <1>4, AuthTypeGoto DEF PresentApproved, Outcomes, Tokens
  <2> QED
    BY <1>4, <2>1, BoundsAssumption
    DEF PresentApproved, Begin, StoreType, DecType, CallType, AuditType, RestType
<1>5. ASSUME NEW e \in Engines, Consume(e) PROVE TypeOK'
  <2>1. auth[e].id \in Ids
    BY <1>5, AuthHasId DEF Consume
  <2>2. StoreType'
    BY <1>5, <2>1 DEF Consume, SetStatus, StoreType, Row, RowStatus
  <2>3. AuthType'
    BY <1>5 DEF Consume, SetStatus, AuthType
  <2> QED
    BY <1>5, <2>2, <2>3 DEF Consume, SetStatus, DecType, CallType, AuditType, RestType
<1>6. ASSUME NEW e \in Engines, WriteAudit(e) PROVE TypeOK'
  <2>1. auth[e].status # "denied" => auth[e].id \in Ids
    BY AuthHasId
  <2>2. auth[e].action \in Actions
    BY DEF AuthType
  <2>3. AuditType'
    <3>1. Line(e) \in Lines
      BY DEF AuthType, Lines, Line
    <3> QED
      BY <1>6, <3>1 DEF WriteAudit, Log, Line, AuditType
  <2>4. CallType'
    BY <1>6, <2>1, <2>2 DEF WriteAudit, Log, Line, CallType, Counters
  <2>5. AuthType'
    BY <1>6, AuthTypeIdle DEF WriteAudit
  <2> QED
    BY <1>6, <2>1, <2>3, <2>4, <2>5 DEF WriteAudit, Log, Line, StoreType, DecType, RestType
<1>7. ASSUME NEW e \in Engines, Raise(e) PROVE TypeOK'
  BY <1>7, AuthTypeIdle
  DEF Raise, StoreType, DecType, CallType, AuditType, RestType
<1>8. ASSUME NEW e \in Engines, Restart(e) PROVE TypeOK'
  <2>1. StoreType'
    BY <1>8, BlankType DEF Restart, Surviving, StoreType
  <2>2. DecType'
    BY <1>8 DEF Restart, Surviving, DecType, NoDecision, Verdicts, Tokens
  <2> QED
    BY <1>8, <2>1, <2>2, AuthTypeIdle DEF Restart, Surviving, CallType, AuditType, RestType
<1>9. ASSUME NEW e \in Engines, NEW a \in Actions, NEW id \in Ids,
             Perform(e, a, id) \/ Lose(e, a, id)
      PROVE  TypeOK'
  <2>1. inflight' \in Counters
    BY <1>9, CounterDown DEF Perform, Lose, CallType
  <2>2. performed' \in Counters
    BY <1>9, CounterUp DEF Perform, Lose, CallType
  <2> QED
    BY <1>9, <2>1, <2>2
    DEF Perform, Lose, StoreType, AuthType, DecType, CallType, AuditType, RestType
<1>10. ASSUME NEW d \in Deciders, NEW id \in Ids, NEW verdict \in Verdicts,
              DecideRead(d, id, verdict)
       PROVE  TypeOK'
  <2>1. DecType'
    BY <1>10 DEF DecideRead, DecType, Tokens
  <2> QED
    BY <1>10, <2>1
    DEF DecideRead, StoreType, AuthType, CallType, AuditType, RestType
<1>11. ASSUME NEW d \in Deciders, DecideWrite(d) PROVE TypeOK'
  <2>1. dec[d].id \in Ids /\ dec[d].verdict \in Verdicts
    BY <1>11 DEF DecideWrite, SetStatus, DecType
  <2>2. StoreType'
    BY <1>11, <2>1 DEF DecideWrite, SetStatus, StoreType, Row, RowStatus
  <2>3. approvals' \in [Ids -> Nat]
    BY <1>11, <2>1 DEF DecideWrite, SetStatus, RestType
  <2>4. DecType'
    <3>1. CASE Durable
      BY <1>11, <3>1 DEF DecideWrite, SetStatus, DecType
    <3>2. CASE ~Durable
      BY <1>11, <3>2, DecTypeIdle DEF DecideWrite
    <3> QED
      BY <3>1, <3>2
  <2> QED
    BY <1>11, <2>2, <2>3, <2>4
    DEF DecideWrite, SetStatus, AuthType, CallType, AuditType, RestType
<1>12. ASSUME NEW d \in Deciders, DecideEnd(d) PROVE TypeOK'
  BY <1>12, DecTypeIdle
  DEF DecideEnd, StoreType, AuthType, CallType, AuditType, RestType
<1>13. CASE Tick
  BY <1>13, BoundsAssumption
  DEF Tick, StoreType, AuthType, DecType, CallType, AuditType, RestType
<1>14. CASE UNCHANGED vars
  BY <1>14
  DEF vars, StoreType, AuthType, DecType, CallType, AuditType, RestType
<1> QED
  BY <1>1, <1>2, <1>3, <1>4, <1>5, <1>6, <1>7, <1>8, <1>9, <1>10, <1>11,
     <1>12, <1>13, <1>14
  DEF Next, Engine, HomeAssistant, Human

\* The variables keep their types.
THEOREM TypeCorrect == Spec => []TypeOK
  BY TypeInit, TypeStep, PTL DEF Spec

-----------------------------------------------------------------------------
(* The gate's inductive invariant *)

LEMMA GateInit == Init => GateInv
<1> SUFFICES ASSUME Init PROVE GateInv
  OBVIOUS
<1>1. TypeOK
  BY TypeInit
<1>2. UseAccount
  BY DEF Init, UseAccount, Committed, MayCommit, Holds, Bit, None, NoAuth, Blank
<1>3. ActionAccount
  BY DEF Init, ActionAccount, None, NoAuth, Blank
<1>4. AuditedBeforeActing
  BY DEF Init, AuditedBeforeActing, None, Lines, Outcomes, Tokens
<1> QED
  BY <1>1, <1>2, <1>3, <1>4 DEF GateInv

\* A use is paid for by the approve verdict that let the engine read APPROVED,
\* and consuming the row takes that permission away from the engine.
LEMMA UseStep == TypeOK /\ UseAccount /\ [Next]_vars => UseAccount'
<1> SUFFICES ASSUME TypeOK, UseAccount, [Next]_vars,
                    NEW f \in Engines, NEW b \in Actions, NEW i \in Ids
             PROVE  (Committed(f, b, i) + Bit(MayCommit(f, b, i)) <= approvals[i])'
  BY DEF UseAccount
<1> DEFINE Paid == Committed(f, b, i) + Bit(MayCommit(f, b, i)) <= approvals[i]
<1>0. /\ Paid
      /\ performed[f][b][i] \in Nat
      /\ inflight[f][b][i] \in Nat
      /\ approvals[i] \in Nat
      /\ now \in Nat
  BY BoundsAssumption DEF TypeOK, CallType, Counters, RestType, UseAccount
<1> USE DEF Committed, MayCommit, Holds, Bit
<1>1. ASSUME NEW e \in Engines, NEW a \in Actions, NEW id \in Ids,
             RequestApproval(e, a, id)
      PROVE  Paid'
  <2>1. store'[i] = store[i] \/ store'[i].status = "pending"
    BY <1>1 DEF RequestApproval, TypeOK, StoreType
  <2>2. \/ ~Holds(f, "audit", b, i)' /\ ~Holds(f, "consume", b, i)'
        \/ auth'[f] = auth[f]
    BY <1>1 DEF RequestApproval, Goto, TypeOK, AuthType
  <2> QED
    BY <1>0, <1>1, <2>1, <2>2 DEF RequestApproval, Expired
<1>2. ASSUME NEW e \in Engines, NEW a \in Actions, NEW id \in Ids,
             PresentRefused(e, a, id) \/ PresentPending(e, a, id)
      PROVE  Paid'
  BY <1>0, <1>2 DEF PresentRefused, PresentPending, Goto, Expired, TypeOK, AuthType
<1>3. ASSUME NEW e \in Engines, NEW a \in Actions, NEW id \in Ids,
             PresentApproved(e, a, id)
      PROVE  Paid'
  BY <1>0, <1>3 DEF PresentApproved, Goto, Spendable, Expired, TypeOK, AuthType, StoreType, Row
<1>4. ASSUME NEW e \in Engines, Consume(e) PROVE Paid'
  BY <1>0, <1>4 DEF Consume, SetStatus, Expired, TypeOK, AuthType, StoreType, Row
<1>5. ASSUME NEW e \in Engines, WriteAudit(e) PROVE Paid'
  BY <1>0, <1>5 DEF WriteAudit, Log, Line, Expired, NoAuth, TypeOK, AuthType, CallType
<1>6. ASSUME NEW e \in Engines, Raise(e) PROVE Paid'
  BY <1>0, <1>6 DEF Raise, Expired, NoAuth, TypeOK, AuthType
<1>7. ASSUME NEW e \in Engines, Restart(e) PROVE Paid'
  BY <1>0, <1>7 DEF Restart, Surviving, Expired, NoAuth, Blank, TypeOK, AuthType
<1>8. ASSUME NEW e \in Engines, NEW a \in Actions, NEW id \in Ids,
             Perform(e, a, id) \/ Lose(e, a, id)
      PROVE  Paid'
  <2> DEFINE One == IF <<f, b, i>> = <<e, a, id>> THEN 1 ELSE 0
  <2>1. inflight'[f][b][i] = inflight[f][b][i] - One
    <3>1. inflight \in Counters /\ inflight[e][a][id] > 0
            /\ inflight' = [inflight EXCEPT ![e][a][id] = @ - 1]
      BY <1>8 DEF Perform, Lose, TypeOK, CallType
    <3> QED
      BY <3>1 DEF Counters
  <2>2. performed'[f][b][i] = performed[f][b][i]
          \/ performed'[f][b][i] = performed[f][b][i] + One
    <3>1. performed \in Counters
            /\ \/ performed' = performed
               \/ performed' = [performed EXCEPT ![e][a][id] = @ + 1]
      BY <1>8 DEF Perform, Lose, TypeOK, CallType
    <3> QED
      BY <3>1 DEF Counters
  <2>3. Holds(f, "audit", b, i)' = Holds(f, "audit", b, i)
          /\ MayCommit(f, b, i)' = MayCommit(f, b, i) /\ approvals' = approvals
    BY <1>8 DEF Perform, Lose, Expired
  <2> QED
    BY <1>0, <2>1, <2>2, <2>3
<1>9. ASSUME NEW d \in Deciders, NEW id \in Ids, NEW verdict \in Verdicts,
             DecideRead(d, id, verdict)
      PROVE  Paid'
  BY <1>0, <1>9 DEF DecideRead, Expired
<1>10. ASSUME NEW d \in Deciders, DecideWrite(d) PROVE Paid'
  BY <1>0, <1>10 DEF DecideWrite, SetStatus, Expired, TypeOK, StoreType, DecType, RestType, Row
<1>11. ASSUME NEW d \in Deciders, DecideEnd(d) PROVE Paid'
  BY <1>0, <1>11 DEF DecideEnd, Expired
<1>12. CASE Tick
  BY <1>0, <1>12 DEF Tick, Expired, TypeOK, StoreType, Row
<1>13. CASE UNCHANGED vars
  BY <1>0, <1>13 DEF vars, Expired
<1> QED
  BY <1>1, <1>2, <1>3, <1>4, <1>5, <1>6, <1>7, <1>8, <1>9, <1>10, <1>11,
     <1>12, <1>13
  DEF Next, Engine, HomeAssistant, Human

\* The action of a row, of an allowed call and of a call under way is the one
\* the approval was asked for.
LEMMA ActionStep == TypeOK /\ ActionAccount /\ [Next]_vars => ActionAccount'
<1> SUFFICES ASSUME TypeOK, ActionAccount, [Next]_vars PROVE ActionAccount'
  OBVIOUS
<1> DEFINE RowAsked == \A id \in Ids : store[id].status # "absent" => asked[id] = store[id].action
           AuthAsked == \A e \in Engines : auth[e].status = "allowed" =>
                           asked[auth[e].id] = auth[e].action
           CallAsked == \A e \in Engines, a \in Actions, id \in Ids :
                           performed[e][a][id] + inflight[e][a][id] > 0 => asked[id] = a
<1>0. RowAsked /\ AuthAsked /\ CallAsked
  BY DEF ActionAccount
<1> USE DEF TypeOK
<1>1. ASSUME NEW e \in Engines, NEW a \in Actions, NEW id \in Ids,
             RequestApproval(e, a, id)
      PROVE  ActionAccount'
  <2>1. /\ asked[id] = NoAction
        /\ asked' = [asked EXCEPT ![id] = a]
        /\ asked \in [Ids -> Actions \cup {NoAction}]
    BY <1>1 DEF RequestApproval, RestType
  <2>2. RowAsked'
    BY <1>0, <1>1, <2>1 DEF RequestApproval, StoreType, Row
  <2>3. AuthAsked'
    BY <1>0, <1>1, <2>1, ActionsAssumption DEF RequestApproval, Goto, AuthType
  <2>4. CallAsked'
    BY <1>0, <1>1, <2>1, ActionsAssumption DEF RequestApproval
  <2> QED
    BY <2>2, <2>3, <2>4 DEF ActionAccount
<1>2. ASSUME NEW e \in Engines, NEW a \in Actions, NEW id \in Ids,
             PresentRefused(e, a, id) \/ PresentPending(e, a, id)
      PROVE  ActionAccount'
  <2>1. \A x \in Engines : auth'[x] = auth[x] \/ auth'[x].status # "allowed"
    BY <1>2 DEF PresentRefused, PresentPending, Goto, AuthType
  <2> QED
    BY <1>0, <1>2, <2>1 DEF PresentRefused, PresentPending, ActionAccount
<1>3. ASSUME NEW e \in Engines, NEW a \in Actions, NEW id \in Ids,
             PresentApproved(e, a, id)
      PROVE  ActionAccount'
  BY <1>0, <1>3 DEF PresentApproved, Matches, Goto, ActionAccount, AuthType
<1>4. ASSUME NEW e \in Engines, Consume(e) PROVE ActionAccount'
  BY <1>0, <1>4 DEF Consume, SetStatus, ActionAccount, AuthType, StoreType, Row
<1>5. ASSUME NEW e \in Engines, WriteAudit(e) PROVE ActionAccount'
  <2>1. RowAsked'
    BY <1>0, <1>5 DEF WriteAudit
  <2>2. AuthAsked'
    BY <1>0, <1>5 DEF WriteAudit, Log, Line, NoAuth, AuthType
  <2>3. CASE auth[e].status = "allowed"
    <3>1. auth[e].id \in Ids /\ auth[e].action \in Actions
            /\ asked[auth[e].id] = auth[e].action
      BY <1>0, <2>3 DEF AuthType
    <3>2. \A x \in Engines, b \in Actions, i \in Ids :
             \/ inflight'[x][b][i] = inflight[x][b][i]
             \/ <<x, b, i>> = <<e, auth[e].action, auth[e].id>>
      BY <1>5, <2>3, <3>1, CounterUp DEF WriteAudit, Log, Line, CallType
    <3>3. CallAsked'
      BY SMTT(30), <1>0, <1>5, <3>1, <3>2 DEF WriteAudit
    <3> QED
      BY <2>1, <2>2, <3>3 DEF ActionAccount
  <2>4. CASE auth[e].status # "allowed"
    BY <1>0, <1>5, <2>1, <2>2, <2>4 DEF WriteAudit, Log, Line, ActionAccount
  <2> QED
    BY <2>3, <2>4
<1>6. ASSUME NEW e \in Engines, Raise(e) PROVE ActionAccount'
  BY <1>0, <1>6 DEF Raise, NoAuth, ActionAccount, AuthType
<1>7. ASSUME NEW e \in Engines, Restart(e) PROVE ActionAccount'
  BY <1>0, <1>7 DEF Restart, Surviving, NoAuth, Blank, ActionAccount, AuthType
<1>8. ASSUME NEW e \in Engines, NEW a \in Actions, NEW id \in Ids,
             Perform(e, a, id) \/ Lose(e, a, id)
      PROVE  ActionAccount'
  <2>1. asked[id] = a
    BY <1>0, <1>8 DEF Perform, Lose, CallType, Counters
  <2>2. \A x \in Engines, b \in Actions, i \in Ids :
           \/ /\ inflight'[x][b][i] = inflight[x][b][i]
              /\ performed'[x][b][i] = performed[x][b][i]
           \/ <<x, b, i>> = <<e, a, id>>
    BY <1>8, CounterUp, CounterDown DEF Perform, Lose, CallType, Counters
  <2>3. CallAsked'
    BY <1>0, <1>8, <2>1, <2>2 DEF Perform, Lose
  <2> QED
    BY <1>0, <1>8, <2>3 DEF Perform, Lose, ActionAccount
<1>9. ASSUME NEW d \in Deciders, NEW id \in Ids, NEW verdict \in Verdicts,
             DecideRead(d, id, verdict)
      PROVE  ActionAccount'
  BY <1>0, <1>9 DEF DecideRead, ActionAccount
<1>10. ASSUME NEW d \in Deciders, DecideWrite(d) PROVE ActionAccount'
  <2>1. \A id \in Ids :
           /\ store'[id].action = store[id].action
           /\ store'[id].status # "absent" => store[id].status # "absent"
    BY <1>10 DEF DecideWrite, SetStatus, StoreType, DecType, Row
  <2> QED
    BY <1>0, <1>10, <2>1 DEF DecideWrite, ActionAccount
<1>11. ASSUME NEW d \in Deciders, DecideEnd(d) PROVE ActionAccount'
  BY <1>0, <1>11 DEF DecideEnd, ActionAccount
<1>12. CASE Tick
  BY <1>0, <1>12 DEF Tick, ActionAccount
<1>13. CASE UNCHANGED vars
  BY <1>0, <1>13 DEF vars, ActionAccount
<1> QED
  BY <1>1, <1>2, <1>3, <1>4, <1>5, <1>6, <1>7, <1>8, <1>9, <1>10, <1>11,
     <1>12, <1>13
  DEF Next, Engine, HomeAssistant, Human

\* WriteAudit writes the line of an allowed call in the step that sends it.
LEMMA AuditStep == TypeOK /\ AuditedBeforeActing /\ [Next]_vars => AuditedBeforeActing'
<1> SUFFICES ASSUME TypeOK, AuditedBeforeActing, [Next]_vars,
                    NEW f \in Engines, NEW b \in Actions, NEW i \in Ids
             PROVE  (performed[f][b][i] + inflight[f][b][i]
                       <= audit[f][[status |-> "allowed", action |-> b, id |-> i]])'
  BY DEF AuditedBeforeActing
<1> DEFINE Mine == [status |-> "allowed", action |-> b, id |-> i]
           Audited == performed[f][b][i] + inflight[f][b][i] <= audit[f][Mine]
<1>0. /\ Audited
      /\ performed[f][b][i] \in Nat
      /\ inflight[f][b][i] \in Nat
      /\ Mine \in Lines
      /\ audit[f][Mine] \in Nat
  <2>1. Audited
    BY DEF AuditedBeforeActing
  <2>2. Mine \in Lines
    BY DEF Lines, Outcomes, Tokens
  <2> QED
    BY <2>1, <2>2 DEF TypeOK, CallType, Counters, AuditType
<1> HIDE DEF Mine
<1>1. ASSUME NEW e \in Engines, WriteAudit(e) PROVE Audited'
  <2> DEFINE line == [status |-> auth[e].status, action |-> auth[e].action,
                      id |-> auth[e].id]
  <2>1. line \in Lines
    BY DEF TypeOK, AuthType, Lines
  <2>2. /\ audit' = [audit EXCEPT ![e][line] = @ + 1]
        /\ performed' = performed
    BY <1>1 DEF WriteAudit, Log, Line
  <2>3. CASE auth[e].status = "allowed"
    <3>1. auth[e].id \in Ids /\ auth[e].action \in Actions
      BY <2>3 DEF TypeOK, AuthType
    <3>2. inflight' = [inflight EXCEPT ![e][auth[e].action][auth[e].id] = @ + 1]
      BY <1>1, <2>3 DEF WriteAudit
    <3>3. CASE f = e /\ line = Mine
      <4>1. inflight'[f][b][i] = inflight[f][b][i] + 1
        BY <3>1, <3>2, <3>3 DEF TypeOK, CallType, Counters, Mine
      <4>2. audit'[f][Mine] = audit[f][Mine] + 1
        BY <1>0, <2>2, <3>3 DEF TypeOK, AuditType
      <4> QED
        BY <1>0, <2>2, <4>1, <4>2
    <3>4. CASE ~(f = e /\ line = Mine)
      <4>1. inflight'[f][b][i] = inflight[f][b][i]
        BY <2>3, <3>1, <3>2, <3>4 DEF TypeOK, CallType, Counters, Mine
      <4>2. audit'[f][Mine] = audit[f][Mine]
        BY <1>0, <2>1, <2>2, <3>4 DEF TypeOK, AuditType
      <4> QED
        BY <1>0, <2>2, <4>1, <4>2
    <3> QED
      BY <3>3, <3>4
  <2>4. CASE auth[e].status # "allowed"
    <3>1. inflight' = inflight
      BY <1>1, <2>4 DEF WriteAudit
    <3>2. line # Mine
      BY <2>4 DEF Mine
    <3>3. audit'[f][Mine] = audit[f][Mine]
      BY <1>0, <2>1, <2>2, <3>2 DEF TypeOK, AuditType
    <3> QED
      BY <1>0, <2>2, <3>1, <3>3
  <2> QED
    BY <2>3, <2>4
<1>2. ASSUME NEW e \in Engines, NEW a \in Actions, NEW id \in Ids,
             Perform(e, a, id) \/ Lose(e, a, id)
      PROVE  Audited'
  <2> DEFINE One == IF <<f, b, i>> = <<e, a, id>> THEN 1 ELSE 0
  <2>1. inflight'[f][b][i] = inflight[f][b][i] - One
    <3>1. inflight \in Counters /\ inflight' = [inflight EXCEPT ![e][a][id] = @ - 1]
      BY <1>2 DEF Perform, Lose, TypeOK, CallType
    <3> QED
      BY <3>1 DEF Counters
  <2>2. performed'[f][b][i] = performed[f][b][i]
          \/ performed'[f][b][i] = performed[f][b][i] + One
    <3>1. performed \in Counters
            /\ \/ performed' = performed
               \/ performed' = [performed EXCEPT ![e][a][id] = @ + 1]
      BY <1>2 DEF Perform, Lose, TypeOK, CallType
    <3> QED
      BY <3>1 DEF Counters
  <2> QED
    BY <1>0, <1>2, <2>1, <2>2 DEF Perform, Lose
<1>3. CASE UNCHANGED <<performed, inflight, audit>>
  BY <1>0, <1>3 DEF Mine
<1> QED
  BY <1>1, <1>2, <1>3
  DEF Next, Engine, HomeAssistant, Human, RequestApproval, PresentRefused,
      PresentPending, PresentApproved, Consume, Raise, Restart, DecideRead,
      DecideWrite, DecideEnd, Tick, vars, Mine

\* The gate's invariant: every use of a token is paid for by an approve verdict
\* given before the expiry, of the action that was asked, and on the audit log
\* before it happens.
THEOREM GateCorrect == Spec => []GateInv
<1>1. GateInv /\ [Next]_vars => GateInv'
  BY TypeStep, UseStep, ActionStep, AuditStep DEF GateInv
<1> QED
  BY GateInit, <1>1, PTL DEF Spec

\* However decisions, retries, engines, restarts and failures interleave, an
\* engine never performs an action more often than a human approved it in time.
THEOREM UsesPaid == Spec => []UsesArePaid
<1>1. GateInv => UsesArePaid
  <2> SUFFICES ASSUME GateInv, NEW e \in Engines, NEW a \in Actions, NEW id \in Ids
               PROVE  performed[e][a][id] <= approvals[id]
    BY DEF UsesArePaid
  <2>1. Bit(Holds(e, "audit", a, id)) \in Nat /\ Bit(MayCommit(e, a, id)) \in Nat
    BY DEF Bit
  <2>2. /\ performed[e][a][id] \in Nat
        /\ inflight[e][a][id] \in Nat
        /\ approvals[id] \in Nat
    BY DEF GateInv, TypeOK, CallType, Counters, RestType
  <2> QED
    BY <2>1, <2>2 DEF GateInv, UseAccount, Committed
<1> QED
  BY GateCorrect, <1>1, PTL

\* A token never performs another action than the one a human was shown.
THEOREM UsesBound == Spec => []UsesAreBound
<1>1. GateInv => UsesAreBound
  BY DEF GateInv, UsesAreBound, ActionAccount, TypeOK, CallType, Counters
<1> QED
  BY GateCorrect, <1>1, PTL

\* No guarded call leaves for Home Assistant before its audit line is written.
THEOREM Audited == Spec => []AuditedBeforeActing
<1>1. GateInv => AuditedBeforeActing
  BY DEF GateInv
<1> QED
  BY GateCorrect, <1>1, PTL

-----------------------------------------------------------------------------
(* Tokens that no longer work *)

\* What a dead token may still do, engine by engine, is no more than before.
Shrinks(id) == \A e \in Engines, a \in Actions : Committed(e, a, id)' <= Committed(e, a, id)

\* An engine that neither reads nor acts for the id leaves what it is committed to.
LEMMA SameUses ==
    ASSUME TypeOK, NEW id \in Ids, UNCHANGED <<inflight, performed>>,
           \A e \in Engines, a \in Actions :
              Holds(e, "audit", a, id)' => Holds(e, "audit", a, id)
    PROVE  Shrinks(id)
<1> SUFFICES ASSUME NEW e \in Engines, NEW a \in Actions
             PROVE  Committed(e, a, id)' <= Committed(e, a, id)
  BY DEF Shrinks
<1>1. inflight[e][a][id] \in Nat /\ performed[e][a][id] \in Nat
  BY DEF TypeOK, CallType, Counters
<1> QED
  BY <1>1 DEF Committed, Bit

\* A row stays dead while it is left as it is and nobody comes to act on a new read of it.
LEMMA DeadRow ==
    ASSUME TypeOK, NEW id \in Ids, Dead(id), asked'[id] = asked[id], now' \in Nat, now' >= now,
           store'[id] = store[id],
           \A e \in Engines : auth'[e].pc = "consume" /\ auth'[e].id = id
                                => auth'[e] = auth[e],
           \A d \in Deciders : dec'[d].pc = "write" /\ dec'[d].id = id
                                => dec'[d] = dec[d] \/ store[id].status = "pending"
    PROVE  Dead(id)'
<1>1. store[id].expires \in Nat /\ now \in Nat
  BY DEF TypeOK, StoreType, Row, RestType
<1> QED
  BY <1>1 DEF Dead

LEMMA DeadStep ==
    ASSUME TypeOK, Next, NEW id \in Ids, Dead(id)
    PROVE  Dead(id)' /\ Shrinks(id)
<1> USE DEF TypeOK
<1>0. /\ asked[id] # NoAction /\ now \in Nat
      /\ store[id].expires \in Nat
      /\ \A e \in Engines : ~(auth[e].pc = "consume" /\ auth[e].id = id)
      /\ Expired(store[id]) \/ (store[id].status # "pending" /\ ~Spendable(store[id]))
  BY DEF Dead, RestType, StoreType, Row, Expired, Spendable
<1>1. ASSUME NEW e \in Engines, NEW a \in Actions, NEW i \in Ids, RequestApproval(e, a, i)
      PROVE  Dead(id)' /\ Shrinks(id)
  <2>1. i # id
    BY <1>0, <1>1 DEF RequestApproval
  <2>2. \A x \in Engines : auth'[x] = auth[x] \/ auth'[x].id = i
    BY <1>1 DEF RequestApproval, Goto, AuthType
  <2>3. Dead(id)'
    BY <1>0, <1>1, <2>1, <2>2, DeadRow DEF RequestApproval, StoreType, RestType
  <2>4. Shrinks(id)
    BY <1>1, <2>1, <2>2, SameUses DEF RequestApproval, Holds
  <2> QED
    BY <2>3, <2>4
<1>2. ASSUME NEW e \in Engines, NEW a \in Actions, NEW i \in Ids,
             PresentRefused(e, a, i) \/ PresentPending(e, a, i)
      PROVE  Dead(id)' /\ Shrinks(id)
  <2>1. \A x \in Engines :
           auth'[x] = auth[x] \/ (auth'[x].pc = "audit" /\ auth'[x].status # "allowed")
    <3>1. PICK t \in Tokens, status \in {"denied", "pending_approval"} :
             auth' = [auth EXCEPT ![e] = [pc |-> "audit", action |-> a, id |-> t, status |-> status]]
      BY <1>2 DEF PresentRefused, PresentPending, Goto, Tokens
    <3>2. e \in DOMAIN auth
      BY DEF AuthType
    <3> QED
      BY <3>1, <3>2
  <2>2. Dead(id)'
    BY <1>0, <1>2, <2>1, DeadRow DEF PresentRefused, PresentPending
  <2>3. Shrinks(id)
    BY <1>2, <2>1, SameUses DEF PresentRefused, PresentPending, Holds
  <2> QED
    BY <2>2, <2>3
<1>3. ASSUME NEW e \in Engines, NEW a \in Actions, NEW i \in Ids, PresentApproved(e, a, i)
      PROVE  Dead(id)' /\ Shrinks(id)
  <2>1. i # id
    BY <1>0, <1>3 DEF PresentApproved
  <2>2. \A x \in Engines : auth'[x] = auth[x] \/ (auth'[x].pc = "consume" /\ auth'[x].id = i)
    <3>1. auth' = [auth EXCEPT ![e] = [pc |-> "consume", action |-> a, id |-> i,
                                       status |-> "allowed"]]
      BY <1>3 DEF PresentApproved, Goto
    <3>2. e \in DOMAIN auth
      BY DEF AuthType
    <3> QED
      BY <3>1, <3>2
  <2>3. Dead(id)'
    BY <1>0, <1>3, <2>1, <2>2, DeadRow DEF PresentApproved
  <2>4. Shrinks(id)
    BY <1>3, <2>2, SameUses DEF PresentApproved, Holds
  <2> QED
    BY <2>3, <2>4
<1>4. ASSUME NEW e \in Engines, Consume(e) PROVE Dead(id)' /\ Shrinks(id)
  <2>1. auth[e].id # id
    BY <1>0, <1>4 DEF Consume
  <2>2. \A x \in Engines : auth'[x] = auth[x] \/ (auth'[x].pc = "audit" /\ auth'[x].id # id)
    <3>1. auth' = [auth EXCEPT ![e].pc = "audit"] /\ e \in DOMAIN auth
      BY <1>4 DEF Consume, AuthType
    <3>2. auth'[e].pc = "audit" /\ auth'[e].id = auth[e].id
      BY <3>1 DEF AuthType
    <3>3. \A x \in Engines : x # e => auth'[x] = auth[x]
      BY <3>1 DEF AuthType
    <3>4. SUFFICES ASSUME NEW x \in Engines
                   PROVE  auth'[x] = auth[x] \/ (auth'[x].pc = "audit" /\ auth'[x].id # id)
      OBVIOUS
    <3>5. CASE x = e
      BY <2>1, <3>2, <3>5
    <3> QED
      BY <3>3, <3>5
  <2>3. store'[id] = store[id]
    BY <1>4, <2>1 DEF Consume, SetStatus, StoreType
  <2>4. Dead(id)'
    BY <1>0, <1>4, <2>2, <2>3, DeadRow DEF Consume
  <2>5. Shrinks(id)
    BY <1>4, <2>2, SameUses DEF Consume, Holds
  <2> QED
    BY <2>4, <2>5
<1>5. ASSUME NEW e \in Engines, WriteAudit(e) PROVE Dead(id)' /\ Shrinks(id)
  <2>1. auth' = [auth EXCEPT ![e] = NoAuth] /\ performed' = performed
    BY <1>5 DEF WriteAudit
  <2>2. \A x \in Engines : x # e => auth'[x] = auth[x]
    BY <2>1 DEF AuthType
  <2>3. auth'[e].pc = "idle"
    BY <2>1 DEF AuthType, NoAuth
  <2>4. Dead(id)'
    BY <1>0, <1>5, <2>2, <2>3, DeadRow DEF WriteAudit
  <2>5. ASSUME NEW x \in Engines, NEW a \in Actions
        PROVE  Committed(x, a, id)' <= Committed(x, a, id)
    <3>1. inflight[x][a][id] \in Nat /\ performed[x][a][id] \in Nat
      BY DEF CallType, Counters
    <3>2. CASE Holds(e, "audit", a, id) /\ x = e
      <4>1. inflight' = [inflight EXCEPT ![e][a][id] = @ + 1]
        BY <1>5, <3>2 DEF WriteAudit, Holds
      <4>2. inflight'[x][a][id] = inflight[x][a][id] + 1
        BY <3>1, <3>2, <4>1 DEF CallType, Counters
      <4>3. ~Holds(x, "audit", a, id)'
        BY <2>3, <3>2 DEF Holds
      <4> QED
        BY <2>1, <3>1, <3>2, <4>2, <4>3 DEF Committed, Bit
    <3>3. CASE ~(Holds(e, "audit", a, id) /\ x = e)
      <4>1. inflight'[x][a][id] = inflight[x][a][id]
        <5>1. CASE auth[e].status # "allowed"
          BY <1>5, <5>1 DEF WriteAudit
        <5>2. CASE auth[e].status = "allowed"
          <6>1. auth[e].id \in Ids /\ auth[e].action \in Actions
            BY <5>2 DEF AuthType
          <6>2. <<x, a, id>> # <<e, auth[e].action, auth[e].id>>
            BY <1>5, <3>3, <5>2 DEF WriteAudit, Holds
          <6>3. inflight' = [inflight EXCEPT ![e][auth[e].action][auth[e].id] = @ + 1]
            BY <1>5, <5>2 DEF WriteAudit
          <6> QED
            BY <3>1, <6>1, <6>2, <6>3, CounterUp DEF CallType
        <5> QED
          BY <5>1, <5>2
      <4>2. Holds(x, "audit", a, id)' => Holds(x, "audit", a, id)
        BY <2>2, <2>3 DEF Holds
      <4> QED
        BY <2>1, <3>1, <4>1, <4>2 DEF Committed, Bit
    <3> QED
      BY <3>2, <3>3
  <2> QED
    BY <2>4, <2>5 DEF Shrinks
<1>6. ASSUME NEW e \in Engines, Raise(e) PROVE Dead(id)' /\ Shrinks(id)
  <2>1. \A x \in Engines : auth'[x] = auth[x] \/ auth'[x].pc = "idle"
    BY <1>6 DEF Raise, NoAuth, AuthType
  <2>2. Dead(id)'
    BY <1>0, <1>6, <2>1, DeadRow DEF Raise
  <2>3. Shrinks(id)
    BY <1>6, <2>1, SameUses DEF Raise, Holds
  <2> QED
    BY <2>2, <2>3
<1>7. ASSUME NEW e \in Engines, Restart(e) PROVE Dead(id)' /\ Shrinks(id)
  <2>1. \A x \in Engines : auth'[x] = auth[x] \/ auth'[x].pc = "idle"
    BY <1>7 DEF Restart, NoAuth, AuthType
  <2>2. \A d \in Deciders : dec'[d] = dec[d] \/ dec'[d].pc = "idle"
    BY <1>7 DEF Restart, NoDecision, DecType
  <2>5. Shrinks(id)
    BY <1>7, <2>1, SameUses DEF Restart, Holds
  <2>3. CASE Durable
    <3>1. UNCHANGED <<store, asked, now>>
      BY <1>7, <2>3 DEF Restart, Surviving
    <3>2. \A x \in Engines : auth'[x].pc = "consume" /\ auth'[x].id = id => auth'[x] = auth[x]
      BY <2>1
    <3>3. \A d \in Deciders : dec'[d].pc = "write" /\ dec'[d].id = id
                              => dec'[d] = dec[d] \/ store[id].status = "pending"
      BY <2>2
    <3>4. Dead(id)'
      BY <1>0, <3>1, <3>2, <3>3, DeadRow
    <3> QED
      BY <2>5, <3>4
  <2>4. CASE ~Durable
    <3>1. store'[id].expires = 0
      BY <1>7, <2>4 DEF Restart, Surviving, Blank
    <3>2. \A x \in Engines : ~(auth'[x].pc = "consume" /\ auth'[x].id = id)
      BY <1>0, <2>1
    <3>3. asked' = asked /\ now' = now
      BY <1>7 DEF Restart
    <3>4. Dead(id)'
      BY <1>0, <3>1, <3>2, <3>3 DEF Dead
    <3> QED
      BY <2>5, <3>4
  <2> QED
    BY <2>3, <2>4
<1>8. ASSUME NEW e \in Engines, NEW a \in Actions, NEW i \in Ids,
             Perform(e, a, i) \/ Lose(e, a, i)
      PROVE  Dead(id)' /\ Shrinks(id)
  <2>1. Dead(id)'
    BY <1>0, <1>8, DeadRow DEF Perform, Lose
  <2>2. ASSUME NEW x \in Engines, NEW b \in Actions
        PROVE  Committed(x, b, id)' <= Committed(x, b, id)
    <3> DEFINE one == IF <<x, b, id>> = <<e, a, i>> THEN 1 ELSE 0
    <3>1. inflight[x][b][id] \in Nat /\ performed[x][b][id] \in Nat
      BY DEF CallType, Counters
    <3>2. inflight'[x][b][id] = inflight[x][b][id] - one
      <4>1. inflight' = [inflight EXCEPT ![e][a][i] = @ - 1]
        BY <1>8 DEF Perform, Lose
      <4> QED
        BY <3>1, <4>1 DEF CallType, Counters
    <3>3. performed'[x][b][id] \in {performed[x][b][id], performed[x][b][id] + one}
      <4>1. \/ performed' = performed
            \/ performed' = [performed EXCEPT ![e][a][i] = @ + 1]
        BY <1>8 DEF Perform, Lose
      <4> QED
        BY <3>1, <4>1 DEF CallType, Counters
    <3>4. auth' = auth
      BY <1>8 DEF Perform, Lose
    <3>5. one \in {0, 1}
      OBVIOUS
    <3> HIDE DEF one
    <3> QED
      BY <3>1, <3>2, <3>3, <3>4, <3>5 DEF Committed, Holds, Bit
  <2> QED
    BY <2>1, <2>2 DEF Shrinks
<1>9. ASSUME NEW d \in Deciders, NEW i \in Ids, NEW verdict \in Verdicts,
             DecideRead(d, i, verdict)
      PROVE  Dead(id)' /\ Shrinks(id)
  <2>1. \A x \in Deciders : dec'[x] = dec[x] \/ (dec'[x].id = i /\ store[i].status = "pending")
    BY <1>9 DEF DecideRead, Open, DecType
  <2>2. Dead(id)'
    BY <1>0, <1>9, <2>1, DeadRow DEF DecideRead
  <2>3. Shrinks(id)
    BY <1>9, SameUses DEF DecideRead, Holds
  <2> QED
    BY <2>2, <2>3
<1>10. ASSUME NEW d \in Deciders, DecideWrite(d) PROVE Dead(id)' /\ Shrinks(id)
  <2>1. \A x \in Deciders : dec'[x] = dec[x] \/ dec'[x].pc # "write"
    BY <1>10 DEF DecideWrite, NoDecision, DecType
  <2>2. Shrinks(id)
    BY <1>10, SameUses DEF DecideWrite, Holds
  <2>3. CASE dec[d].id # id
    <3>1. store'[id] = store[id]
      BY <1>10, <2>3 DEF DecideWrite, SetStatus, StoreType
    <3> QED
      BY <1>0, <1>10, <2>1, <2>2, <3>1, DeadRow DEF DecideWrite
  <2>4. CASE dec[d].id = id
    <3>1. store[id].expires <= now
      BY <1>10, <2>4 DEF Dead, DecideWrite
    <3>2. store'[id].expires = store[id].expires
      BY <1>10, <2>4 DEF DecideWrite, SetStatus, StoreType, Row
    <3> QED
      BY <1>0, <1>10, <2>2, <3>1, <3>2 DEF DecideWrite, Dead
  <2> QED
    BY <2>3, <2>4
<1>11. ASSUME NEW d \in Deciders, DecideEnd(d) PROVE Dead(id)' /\ Shrinks(id)
  <2>1. \A x \in Deciders : dec'[x] = dec[x] \/ dec'[x].pc = "idle"
    BY <1>11 DEF DecideEnd, NoDecision, DecType
  <2>2. Dead(id)'
    BY <1>0, <1>11, <2>1, DeadRow DEF DecideEnd
  <2>3. Shrinks(id)
    BY <1>11, SameUses DEF DecideEnd, Holds
  <2> QED
    BY <2>2, <2>3
<1>12. CASE Tick
  <2>1. Dead(id)'
    BY <1>0, <1>12, DeadRow DEF Tick
  <2>2. Shrinks(id)
    BY <1>12, SameUses DEF Tick, Holds
  <2> QED
    BY <2>1, <2>2
<1> QED
  BY <1>1, <1>2, <1>3, <1>4, <1>5, <1>6, <1>7, <1>8, <1>9, <1>10, <1>11, <1>12
  DEF Next, Engine, HomeAssistant, Human

\* A token that is spent, denied, expired or forgotten, and that no engine and no
\* decision has read before, never works again, on disk or in memory, for any engines,
\* decisions and bounds.
THEOREM DeadForGood == Spec => DeadStaysDead
<1>1. TypeOK /\ [Next]_vars =>
        [\A id \in Ids :
           Dead(id) => /\ Dead(id)'
                       /\ \A e \in Engines, a \in Actions :
                             Committed(e, a, id)' <= Committed(e, a, id)]_vars
  BY DeadStep DEF Shrinks
<1> QED
  BY <1>1, TypeCorrect, PTL DEF Spec, DeadStaysDead

=============================================================================
