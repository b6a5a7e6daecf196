------------------------------ MODULE Approvals ------------------------------
(***************************************************************************)
(* Two-phase approval of guarded actions: PolicyEngine._authorize_guarded, *)
(* the approval store it shares with POST /v1/approvals/{id}, and the      *)
(* call_service tool that acts on its answer.                              *)
(*                                                                         *)
(* An engine is one process that builds a PolicyEngine over the approvals  *)
(* database: the API service, and every `aios rv ask`.  authorize is a     *)
(* plain function on the process's event loop, so an engine runs one at a  *)
(* time; a tool call that was allowed then awaits Home Assistant while the *)
(* loop serves the next one (inflight).  decide_approval is a plain `def`  *)
(* route: FastAPI runs it on a worker thread, beside the loop and beside   *)
(* other decisions.  Every store operation is atomic (its lock, one SQLite *)
(* transaction); the code between two of them is not.                      *)
(*                                                                         *)
(* An operator under the comment "Mistake" is no part of the system: it is *)
(* a wrong version of the operator below it, kept to show that a property  *)
(* notices it.                                                             *)
(***************************************************************************)
EXTENDS Integers

CONSTANTS
    Actions,    \* guarded actions: (domain, service, targets)
    NoAction,
    Ids,        \* approval ids, which are also the agent's tokens
    NoId,
    Engines,    \* processes with a PolicyEngine over the store
    Api,        \* the engine that also serves /v1/approvals
    Deciders,   \* decide requests that can be in progress at once
    Durable,    \* TRUE: SqliteApprovalStore, FALSE: InMemoryApprovalStore
    TTL,        \* approval_ttl_seconds, in clock ticks
    MaxTime,    \* bound: last value of the clock
    MaxCalls    \* bound: guarded calls per engine

ASSUME ActionsAssumption == Actions # {} /\ NoAction \notin Actions
ASSUME IdsAssumption == NoId \notin Ids
\* An in-memory store is private to its process.
ASSUME EnginesAssumption == /\ Api \in Engines
                            /\ Durable \in BOOLEAN
                            /\ Durable \/ Engines = {Api}
ASSUME BoundsAssumption == TTL \in Nat /\ MaxTime \in Nat /\ MaxCalls \in Nat

VARIABLES
    store,      \* the approvals table: id -> row
    auth,       \* the authorize call each engine is executing
    dec,        \* the decide requests
    inflight,   \* allowed calls on their way to Home Assistant
    performed,  \* calls Home Assistant carried out
    audit,      \* how many times each line is in the audit log
    mirrored,   \* ids Home Assistant shows as a persistent notification
    now,        \* the wall clock both the store and the engine read
    calls,      \* guarded calls each engine has started (bounded)
    asked,      \* history: the action each id was issued for
    approvals   \* history: approve verdicts written before the row expired

vars == <<store, auth, dec, inflight, performed, audit, mirrored, now, calls,
          asked, approvals>>

Verdicts == {"approved", "denied"}
Tokens == Ids \cup {NoId}
RowStatus == {"absent", "pending", "consumed"} \cup Verdicts
Row == [status : RowStatus, action : Actions, expires : Nat]
Outcomes == {"allowed", "pending_approval", "denied"}
Counters == [Engines -> [Actions -> [Ids -> Nat]]]
Lines == [status : Outcomes, action : Actions, id : Tokens]

AnyAction == CHOOSE a \in Actions : TRUE
Blank == [status |-> "absent", action |-> AnyAction, expires |-> 0]
NoAuth == [pc |-> "idle", action |-> AnyAction, id |-> NoId, status |-> "denied"]
NoDecision == [pc |-> "idle", id |-> NoId, verdict |-> "denied"]
None == [e \in Engines |-> [a \in Actions |-> [id \in Ids |-> 0]]]

StoreType == store \in [Ids -> Row]

AuthType ==
    /\ auth \in [Engines -> [pc : {"idle", "consume", "audit"},
                             action : Actions,
                             id : Tokens,
                             status : Outcomes]]
    /\ \A e \in Engines :
          /\ auth[e].pc = "consume" => auth[e].status = "allowed"
          /\ auth[e].status # "denied" => auth[e].id \in Ids

DecType ==
    /\ dec \in [Deciders -> [pc : {"idle", "write", "answer"},
                             id : Tokens,
                             verdict : Verdicts]]
    /\ \A d \in Deciders : dec[d].pc # "idle" => dec[d].id \in Ids

CallType == inflight \in Counters /\ performed \in Counters

AuditType == audit \in [Engines -> [Lines -> Nat]]

RestType ==
    /\ mirrored \subseteq Ids
    /\ now \in 0..MaxTime
    /\ calls \in [Engines -> 0..MaxCalls]
    /\ asked \in [Ids -> Actions \cup {NoAction}]
    /\ approvals \in [Ids -> Nat]

TypeOK == StoreType /\ AuthType /\ DecType /\ CallType /\ AuditType /\ RestType

Init ==
    /\ store = [id \in Ids |-> Blank]
    /\ auth = [e \in Engines |-> NoAuth]
    /\ dec = [d \in Deciders |-> NoDecision]
    /\ inflight = None
    /\ performed = None
    /\ audit = [e \in Engines |-> [line \in Lines |-> 0]]
    /\ mirrored = {}
    /\ now = 0
    /\ calls = [e \in Engines |-> 0]
    /\ asked = [id \in Ids |-> NoAction]
    /\ approvals = [id \in Ids |-> 0]

-----------------------------------------------------------------------------
(* authorize, on the engine's event loop *)

Begin(e) ==
    /\ auth[e].pc = "idle"
    /\ calls[e] < MaxCalls
    /\ calls' = [calls EXCEPT ![e] = @ + 1]

\* The decision the engine is on its way to, with the approval it names.
\* Mistake: the approval is left out of the decision.
LostLink(e, pc, a, id, status) ==
    auth' = [auth EXCEPT ![e] = [pc |-> pc, action |-> a, id |-> NoId, status |-> status]]
Goto(e, pc, a, id, status) ==
    auth' = [auth EXCEPT ![e] = [pc |-> pc, action |-> a, id |-> id, status |-> status]]

\* No token: the engine creates a pending row under a fresh id (uuid4).
RequestApproval(e, a, id) ==
    /\ Begin(e)
    /\ asked[id] = NoAction
    /\ store' = [store EXCEPT ![id] =
                    [status |-> "pending", action |-> a, expires |-> now + TTL]]
    /\ asked' = [asked EXCEPT ![id] = a]
    /\ Goto(e, "audit", a, id, "pending_approval")
    /\ UNCHANGED <<dec, inflight, performed, audit, mirrored, now, approvals>>

\* The row is the approval of this very action: only then is it linked to the
\* audit line.
\* Mistake: the action is not compared.
AnyTokenDoes(row, a) == row.status # "absent"
Matches(row, a) == row.status # "absent" /\ row.action = a

\* Mistake: the boundary belongs to the approval.
ExpiresLate(row) == row.expires < now
Expired(row) == row.expires <= now

\* Mistake: only a consumed row is refused.
NotYetConsumed(row) == row.status \in {"approved", "denied"}
Spendable(row) == row.status = "approved"

\* A token that is unknown, of another action, expired, denied or consumed.
PresentRefused(e, a, id) ==
    /\ Begin(e)
    /\ \/ ~Matches(store[id], a)
       \/ Expired(store[id])
       \/ store[id].status # "pending" /\ ~Spendable(store[id])
    /\ Goto(e, "audit", a, IF Matches(store[id], a) THEN id ELSE NoId, "denied")
    /\ UNCHANGED <<store, dec, inflight, performed, audit, mirrored, now,
                   asked, approvals>>

PresentPending(e, a, id) ==
    /\ Begin(e)
    /\ Matches(store[id], a)
    /\ ~Expired(store[id])
    /\ store[id].status = "pending"
    /\ Goto(e, "audit", a, id, "pending_approval")
    /\ UNCHANGED <<store, dec, inflight, performed, audit, mirrored, now,
                   asked, approvals>>

\* The row reads APPROVED; the engine consumes it in a later store operation.
\* The clock is read right after the row: time that passes in between can only
\* refuse the token, as a Tick before this step does.
PresentApproved(e, a, id) ==
    /\ Begin(e)
    /\ Matches(store[id], a)
    /\ ~Expired(store[id])
    /\ Spendable(store[id])
    /\ Goto(e, "consume", a, id, "allowed")
    /\ UNCHANGED <<store, dec, inflight, performed, audit, mirrored, now,
                   asked, approvals>>

\* store.set_status: unconditional on the status the row holds by now; a row
\* that does not exist stays so.
\* Mistake: a guard meant for verdicts also stops the consumption.
OnlyPendingRows(id, status) ==
    store' = IF store[id].status # "pending" THEN store
             ELSE [store EXCEPT ![id].status = status]
SetStatus(id, status) ==
    store' = IF store[id].status = "absent" THEN store
             ELSE [store EXCEPT ![id].status = status]

Consume(e) ==
    /\ auth[e].pc = "consume"
    /\ SetStatus(auth[e].id, "consumed")
    /\ auth' = [auth EXCEPT ![e].pc = "audit"]
    /\ UNCHANGED <<dec, inflight, performed, audit, mirrored, now, calls,
                   asked, approvals>>

Line(e) == [status |-> auth[e].status, action |-> auth[e].action, id |-> auth[e].id]

\* Mistake: a failing append is ignored.
SwallowErrors(e) == audit' \in {audit, [audit EXCEPT ![e][Line(e)] = @ + 1]}
Log(e) == audit' = [audit EXCEPT ![e][Line(e)] = @ + 1]

\* _decide appends the audit line and call_service acts on the decision: an
\* allowed call goes to Home Assistant, a pending one is mirrored there, best
\* effort.
WriteAudit(e) ==
    /\ auth[e].pc = "audit"
    /\ Log(e)
    /\ inflight' = IF auth[e].status = "allowed"
                   THEN [inflight EXCEPT ![e][auth[e].action][auth[e].id] = @ + 1]
                   ELSE inflight
    /\ \/ UNCHANGED mirrored
       \/ /\ auth[e].status = "pending_approval"
          /\ mirrored' = mirrored \cup {auth[e].id}
    /\ auth' = [auth EXCEPT ![e] = NoAuth]
    /\ UNCHANGED <<store, dec, performed, now, calls, asked, approvals>>

\* The store (SQLite locked or full) or the audit file raises: the exception
\* leaves call_service before the tool acts.
Raise(e) ==
    /\ auth[e].pc # "idle"
    /\ auth' = [auth EXCEPT ![e] = NoAuth]
    /\ UNCHANGED <<store, dec, inflight, performed, audit, mirrored, now, calls,
                   asked, approvals>>

-----------------------------------------------------------------------------
(* client.call_service: Home Assistant executes the request, and its answer  *)
(* may be lost (Perform), or the request fails before it executes (Lose).    *)

Perform(e, a, id) ==
    /\ inflight[e][a][id] > 0
    /\ inflight' = [inflight EXCEPT ![e][a][id] = @ - 1]
    /\ performed' = [performed EXCEPT ![e][a][id] = @ + 1]
    /\ UNCHANGED <<store, auth, dec, audit, mirrored, now, calls, asked, approvals>>

Lose(e, a, id) ==
    /\ inflight[e][a][id] > 0
    /\ inflight' = [inflight EXCEPT ![e][a][id] = @ - 1]
    /\ UNCHANGED <<store, auth, dec, performed, audit, mirrored, now, calls,
                   asked, approvals>>

-----------------------------------------------------------------------------
(* decide_approval, on a worker thread of the API process *)

\* Mistake: an approved row may be decided again.
UntilConsumed(row) == row.status \in {"pending", "approved"}
Open(row) == row.status = "pending"

\* get: anything but a pending row is answered 404 or 409 and changes nothing.
\* Expiry is not looked at.
DecideRead(d, id, verdict) ==
    /\ dec[d].pc = "idle"
    /\ Open(store[id])
    /\ dec' = [dec EXCEPT ![d] = [pc |-> "write", id |-> id, verdict |-> verdict]]
    /\ UNCHANGED <<store, auth, inflight, performed, audit, mirrored, now, calls,
                   asked, approvals>>

\* set_status(verdict).  The SQLite store answers with a second get outside its
\* lock; the in-memory one with the row it wrote.
DecideWrite(d) ==
    LET id == dec[d].id
    IN  /\ dec[d].pc = "write"
        /\ SetStatus(id, dec[d].verdict)
        /\ approvals' = IF dec[d].verdict = "approved" /\ now < store[id].expires
                        THEN [approvals EXCEPT ![id] = @ + 1]
                        ELSE approvals
        /\ dec' = [dec EXCEPT ![d] = IF Durable THEN [@ EXCEPT !.pc = "answer"]
                                     ELSE NoDecision]
        /\ UNCHANGED <<auth, inflight, performed, audit, mirrored, now, calls, asked>>

\* The request ends: the answer to the human, or an exception of the store.
DecideEnd(d) ==
    /\ dec[d].pc # "idle"
    /\ dec' = [dec EXCEPT ![d] = NoDecision]
    /\ UNCHANGED <<store, auth, inflight, performed, audit, mirrored, now, calls,
                   asked, approvals>>

-----------------------------------------------------------------------------

Tick ==
    /\ now < MaxTime
    /\ now' = now + 1
    /\ UNCHANGED <<store, auth, dec, inflight, performed, audit, mirrored, calls,
                   asked, approvals>>

Surviving == IF Durable THEN store ELSE [id \in Ids |-> Blank]

\* A process ends and starts again at any point: what it was executing is
\* gone; the rows survive if they are on disk.
Restart(e) ==
    /\ auth' = [auth EXCEPT ![e] = NoAuth]
    /\ dec' = IF e = Api THEN [d \in Deciders |-> NoDecision] ELSE dec
    /\ store' = Surviving
    /\ UNCHANGED <<inflight, performed, audit, mirrored, now, calls, asked, approvals>>

Engine(e) ==
    \/ \E a \in Actions, id \in Ids :
          \/ RequestApproval(e, a, id)
          \/ PresentRefused(e, a, id)
          \/ PresentPending(e, a, id)
          \/ PresentApproved(e, a, id)
    \/ Consume(e)
    \/ WriteAudit(e)
    \/ Raise(e)
    \/ Restart(e)

HomeAssistant == \E e \in Engines, a \in Actions, id \in Ids :
                    Perform(e, a, id) \/ Lose(e, a, id)

Human(d) == \/ \E id \in Ids, verdict \in Verdicts : DecideRead(d, id, verdict)
            \/ DecideWrite(d)
            \/ DecideEnd(d)

Next == \/ \E e \in Engines : Engine(e)
        \/ HomeAssistant
        \/ \E d \in Deciders : Human(d)
        \/ Tick

Spec == Init /\ [][Next]_vars

-----------------------------------------------------------------------------
(* What the gate promises *)

Bit(b) == IF b THEN 1 ELSE 0

\* Engine e is at pc with permission to perform a under id.
Holds(e, pc, a, id) ==
    auth[e].pc = pc /\ auth[e].status = "allowed" /\ auth[e].action = a /\ auth[e].id = id

\* What an engine has done, or will do without asking the store again, on
\* behalf of a token.
Committed(e, a, id) ==
    performed[e][a][id] + inflight[e][a][id] + Bit(Holds(e, "audit", a, id))

\* The engine may still commit to the token once: it has read APPROVED and not
\* consumed it, or the row reads APPROVED and is not expired.
MayCommit(e, a, id) ==
    \/ Holds(e, "consume", a, id)
    \/ store[id].status = "approved" /\ now < store[id].expires

\* An engine performs a guarded action under a token at most as many times as
\* a human approved that token before it expired: however decisions, retries,
\* other engines, restarts and failures interleave, no use is free, and a
\* verdict that came after the expiry pays for none (_authorize_guarded).
UsesArePaid ==
    \A e \in Engines, a \in Actions, id \in Ids :
        performed[e][a][id] <= approvals[id]

\* A token performs only the action the human was shown when the approval was
\* created, also when the store behind it was lost and rebuilt (the action
\* comparison of _authorize_guarded).
UsesAreBound ==
    \A e \in Engines, a \in Actions, id \in Ids :
        performed[e][a][id] > 0 => asked[id] = a

\* Nothing guarded is on its way to Home Assistant, or was carried out there,
\* without its own "allowed" line in the audit log (_decide before the call).
AuditedBeforeActing ==
    \A e \in Engines, a \in Actions, id \in Ids :
        performed[e][a][id] + inflight[e][a][id]
          <= audit[e][[status |-> "allowed", action |-> a, id |-> id]]

\* The row of an id that was issued refuses it for good (it is spent, denied, expired or
\* forgotten), and no engine or decision has read it before it did.
Dead(id) ==
    /\ asked[id] # NoAction
    /\ ~ \E e \in Engines : auth[e].pc = "consume" /\ auth[e].id = id
    /\ \/ store[id].expires <= now
       \/ /\ store[id].status \notin {"pending", "approved"}
          /\ ~ \E d \in Deciders : dec[d].pc = "write" /\ dec[d].id = id

\* A dead token never works again: whoever presents it, decides it or restarts, only what
\* was already on its way to Home Assistant may still arrive there.  So a use too many
\* (SingleUse) needs an engine or a decision that has read the row before it was spent
\* (the order of the checks in _authorize_guarded, decide_approval's check of PENDING).
DeadStaysDead ==
    [][\A id \in Ids :
          Dead(id) => /\ Dead(id)'
                      /\ \A e \in Engines, a \in Actions :
                            Committed(e, a, id)' <= Committed(e, a, id)]_vars

\* A token is used once, over all engines and for ever (ADR-014: "tokens are
\* single-use and expire with the approval").
SingleUse ==
    \A id \in Ids, e, f \in Engines, a, b \in Actions :
        performed[e][a][id] > 0 /\ performed[f][b][id] > 0
          => e = f /\ a = b /\ performed[e][a][id] = 1

\* The status a decide request answers with is the verdict it was given, or
\* shows that the agent already used its approval: the human never reads that
\* the opposite happened (the get at the end of set_status).
AnswerIsVerdict ==
    \A d \in Deciders :
        dec[d].pc = "answer" =>
            \/ store[dec[d].id].status = dec[d].verdict
            \/ store[dec[d].id].status = "consumed" /\ dec[d].verdict = "approved"

-----------------------------------------------------------------------------
(* The inductive invariant behind the first three *)

UseAccount ==
    \A e \in Engines, a \in Actions, id \in Ids :
        Committed(e, a, id) + Bit(MayCommit(e, a, id)) <= approvals[id]

ActionAccount ==
    /\ \A id \in Ids : store[id].status # "absent" => asked[id] = store[id].action
    /\ \A e \in Engines : auth[e].status = "allowed" =>
          asked[auth[e].id] = auth[e].action
    /\ \A e \in Engines, a \in Actions, id \in Ids :
          performed[e][a][id] + inflight[e][a][id] > 0 => asked[id] = a

\* Every use is paid for, bound and audited, counting what is still on its way: what a
\* step of _authorize_guarded hands to the next.
GateInv == TypeOK /\ UseAccount /\ ActionAccount /\ AuditedBeforeActing

=============================================================================
