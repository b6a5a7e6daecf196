--------------------------- MODULE Actuation_proofs ---------------------------
(***************************************************************************)
(* The limiter: RateInv is inductive, for any threads, limits and window,  *)
(* and NeverOverRate and RefusedOnlyAtLimit follow from it.  A thread's    *)
(* time is never ahead of the clock (StampsArePast), so what any thread    *)
(* pops is at least a window old by the clock (PoppedAreOld).  A call      *)
(* allowed under limit n leaves fewer than n unpopped grants before it, so *)
(* the n-th before it was popped.  A refused call sees a head younger than *)
(* a window, and what lies behind the head was appended after it           *)
(* (InLockOrder).                                                          *)
(*                                                                         *)
(* The engine: Actuation takes steps of RateLimiter or leaves it alone, so *)
(* that what holds of the limiter holds here; and what is allowed is       *)
(* allowed by the first rule that claims it.                               *)
(***************************************************************************)
EXTENDS Actuation, WellFoundedInduction, TLAPS

(* The limiter alone *)

LEMMA InitInv == Init => RateInv
  BY DEF Init, RateInv, TypeOK, StampsArePast, InLockOrder, PoppedAreOld,
         NeverOverRate, Idle, Grant, Waiting

\* A thread that waits for the lock holds a time, a limit of a rule, and
\* nothing newer than the clock.
LEMMA AtLock ==
    ASSUME RateInv, NEW t \in Threads, call[t].pc = "lock"
    PROVE  /\ call[t].now \in Nat
           /\ call[t].limit \in Limits
           /\ call[t].limit \in Int
           /\ call[t].now <= clock
  <1>1. call[t] \in Waiting
    BY DEF RateInv, TypeOK, Idle
  <1>2. call[t].now <= clock
    BY DEF RateInv, StampsArePast
  <1> QED BY <1>1, <1>2, LimitsAssumption DEF Waiting

\* The fields of a grant.
LEMMA GrantFields ==
    ASSUME RateInv, NEW i \in 1..Len(grants)
    PROVE  /\ grants[i] \in Grant
           /\ grants[i].stamp \in Nat
           /\ grants[i].at \in Nat
           /\ grants[i].limit \in Int
  <1>1. grants \in Seq(Grant)
    BY DEF RateInv, TypeOK
  <1>2. grants[i] \in Grant
    BY <1>1
  <1> QED BY <1>2, LimitsAssumption DEF Grant

\* Trimming keeps popped within the history, and pops only what is old.
LEMMA TrimPops ==
    ASSUME RateInv, NEW t \in Threads, call[t].pc = "lock",
           NEW k \in popped..Len(grants), Trim(call[t].now, k)
    PROVE  /\ k \in 0..Len(grants)
           /\ \A i \in 1..k : grants[i].stamp + Window <= clock
  <1>1. k \in 0..Len(grants) /\ popped \in Nat /\ k \in Nat /\ clock \in Nat
    BY DEF RateInv, TypeOK
  <1>2. ASSUME NEW i \in 1..k
        PROVE  grants[i].stamp + Window <= clock
    <2>1. CASE i <= popped
      BY <1>1, <2>1 DEF RateInv, PoppedAreOld
    <2>2. CASE ~(i <= popped)
      <3>1. i \in popped + 1 .. k /\ i \in 1..Len(grants)
        BY <1>1, <2>2
      <3>2. call[t].now - grants[i].stamp >= Window
        BY <3>1 DEF Trim, Old
      <3> QED BY <1>1, <3>1, <3>2, AtLock, GrantFields, WindowAssumption
    <2> QED BY <2>1, <2>2
  <1> QED BY <1>1, <1>2

LEMMA AllowKeepsInv ==
    ASSUME RateInv, NEW t \in Threads, NEW k \in popped..Len(grants), Allow(t, k)
    PROVE  RateInv'
  <1> DEFINE g == [stamp |-> call[t].now, at |-> clock, limit |-> call[t].limit]
             n == Len(grants)
  <1>1. call[t].pc = "lock" /\ Trim(call[t].now, k) /\ ~Full(n - k, call[t].limit)
    BY DEF Allow
  <1>2. /\ grants' = Append(grants, g)
        /\ popped' = k
        /\ call' = [call EXCEPT ![t] = Idle]
        /\ clock' = clock
    BY DEF Allow
  <1>3. /\ call[t].now \in Nat
        /\ call[t].limit \in Limits
        /\ call[t].limit \in Int
        /\ call[t].now <= clock
    BY <1>1, AtLock
  <1>4. /\ k \in 0..n
        /\ \A i \in 1..k : grants[i].stamp + Window <= clock
    BY <1>1, TrimPops
  <1>5. clock \in Nat /\ grants \in Seq(Grant) /\ n \in Nat
    BY DEF RateInv, TypeOK
  <1>6. g \in Grant
    BY <1>3, <1>5 DEF Grant
  <1>7. /\ grants' \in Seq(Grant)
        /\ Len(grants') = n + 1
        /\ \A i \in 1..n : grants'[i] = grants[i]
        /\ grants'[n + 1] = g
    BY <1>2, <1>5, <1>6
  <1>8. \A i \in 1..n + 1 : i \in 1..n \/ i = n + 1
    BY <1>5
  <1> HIDE DEF n
  <1>9. g.stamp = call[t].now /\ g.at = clock /\ g.limit = call[t].limit
    OBVIOUS
  <1> HIDE DEF g
  <1>10. TypeOK'
    <2>1. call' \in [Threads -> Waiting \cup {Idle}]
      BY <1>2 DEF RateInv, TypeOK
    <2> QED BY <1>2, <1>4, <1>5, <1>7, <2>1 DEF TypeOK
  <1>11. StampsArePast'
    <2>1. \A u \in Threads : call'[u].now <= clock'
      BY <1>2, <1>5 DEF RateInv, TypeOK, StampsArePast, Idle
    <2>2. \A i \in 1..n : grants[i].stamp <= grants[i].at /\ grants[i].at <= clock
      BY DEF RateInv, StampsArePast, n
    <2>3. \A i \in 1..Len(grants') : /\ grants'[i].stamp <= grants'[i].at
                                     /\ grants'[i].at <= clock'
      BY <1>2, <1>3, <1>5, <1>7, <1>8, <1>9, <2>2
    <2> QED BY <2>1, <2>3 DEF StampsArePast
  <1>12. InLockOrder'
    <2>1. \A i \in 1..n : grants[i].at <= clock
      BY DEF RateInv, StampsArePast, n
    <2>2. \A i, j \in 1..n : i <= j => grants[i].at <= grants[j].at
      BY DEF RateInv, InLockOrder, n
    <2>3. ASSUME NEW i \in 1..n + 1, NEW j \in 1..n + 1, i <= j
          PROVE  grants'[i].at <= grants'[j].at
      <3>1. CASE j \in 1..n
        BY <1>5, <1>7, <2>2, <2>3, <3>1
      <3>2. CASE j = n + 1 /\ i \in 1..n
        BY <1>7, <1>9, <2>1, <3>2
      <3>3. CASE j = n + 1 /\ i = n + 1
        BY <1>5, <1>7, <1>9, <3>3
      <3> QED BY <1>8, <3>1, <3>2, <3>3
    <2> QED BY <1>7, <2>3 DEF InLockOrder
  <1>13. PoppedAreOld'
    <2>1. \A i \in 1..k : i \in 1..n
      BY <1>4, <1>5
    <2> QED BY <1>2, <1>4, <1>7, <2>1 DEF PoppedAreOld
  <1>14. NeverOverRate'
    <2>1. \A j \in 1..n :
             /\ grants[j].limit >= 1
             /\ j > grants[j].limit =>
                   grants[j].at >= grants[j - grants[j].limit].stamp + Window
      BY DEF RateInv, NeverOverRate, n
    <2>2. n - k < call[t].limit
      BY <1>1, <1>3, <1>4, <1>5 DEF Full, n
    <2>3. ASSUME NEW j \in 1..n + 1
          PROVE  grants'[j].limit >= 1
      <3>1. CASE j = n + 1
        BY <1>3, <1>4, <1>5, <1>7, <1>9, <2>2, <3>1
      <3>2. CASE j \in 1..n
        BY <1>7, <2>1, <3>2
      <3> QED BY <1>8, <3>1, <3>2
    <2>4. ASSUME NEW j \in 1..n + 1, j > grants'[j].limit
          PROVE  grants'[j].at >= grants'[j - grants'[j].limit].stamp + Window
      <3>1. CASE j = n + 1
        <4>1. n + 1 - call[t].limit \in 1..k
          BY <1>3, <1>4, <1>5, <1>7, <1>9, <2>2, <2>4, <3>1
        <4>2. grants'[n + 1 - call[t].limit] = grants[n + 1 - call[t].limit]
          BY <1>4, <1>5, <1>7, <4>1
        <4>3. grants[n + 1 - call[t].limit].stamp + Window <= clock
          BY <1>4, <4>1
        <4>4. j - grants'[j].limit = n + 1 - call[t].limit
          <5>1. grants'[j] = g
            BY <1>7, <3>1
          <5>2. grants'[j].limit = call[t].limit
            BY <1>9, <5>1
          <5> QED BY <1>3, <1>5, <3>1, <5>2
        <4>5. grants[n + 1 - call[t].limit].stamp \in Nat
          <5>1. n + 1 - call[t].limit \in 1..Len(grants)
            BY <1>4, <1>5, <4>1 DEF n
          <5> QED BY <5>1, GrantFields
        <4> QED BY <1>5, <1>7, <1>9, <3>1, <4>2, <4>3, <4>4, <4>5, WindowAssumption
      <3>2. CASE j \in 1..n
        <4>1. grants'[j] = grants[j] /\ grants[j].limit \in Int
          BY <1>7, <3>2, GrantFields DEF n
        <4>2. grants[j].limit >= 1
          BY <2>1, <3>2
        <4>3. j - grants[j].limit \in 1..n
          BY <1>5, <2>4, <3>2, <4>1, <4>2
        <4> QED BY <1>7, <2>1, <2>4, <3>2, <4>1, <4>3
      <3> QED BY <1>8, <3>1, <3>2
    <2> QED BY <1>7, <2>3, <2>4 DEF NeverOverRate
  <1> QED BY <1>10, <1>11, <1>12, <1>13, <1>14 DEF RateInv

LEMMA RefuseKeepsInv ==
    ASSUME RateInv, NEW t \in Threads, NEW k \in popped..Len(grants), Refuse(t, k)
    PROVE  RateInv'
  <1>1. /\ call[t].pc = "lock"
        /\ Trim(call[t].now, k)
        /\ popped' = k
        /\ call' = [call EXCEPT ![t] = Idle]
        /\ clock' = clock
        /\ grants' = grants
    BY DEF Refuse
  <1>2. /\ k \in 0..Len(grants)
        /\ \A i \in 1..k : grants[i].stamp + Window <= clock
    BY <1>1, TrimPops
  <1>3. TypeOK'
    BY <1>1, <1>2 DEF RateInv, TypeOK
  <1>4. StampsArePast'
    BY <1>1 DEF RateInv, TypeOK, StampsArePast, Idle
  <1>5. InLockOrder' /\ PoppedAreOld' /\ NeverOverRate'
    BY <1>1, <1>2 DEF RateInv, InLockOrder, PoppedAreOld, NeverOverRate
  <1> QED BY <1>3, <1>4, <1>5 DEF RateInv

LEMMA ReadClockKeepsInv ==
    ASSUME RateInv, NEW t \in Threads, NEW now \in 0..MaxTime,
           NEW limit \in Limits, ReadClock(t, now, limit)
    PROVE  RateInv'
  <1>1. /\ call' = [call EXCEPT ![t] = [pc |-> "lock", now |-> now, limit |-> limit]]
        /\ now = clock
        /\ UNCHANGED <<clock, grants, popped>>
    BY DEF ReadClock, MonotonicClock
  <1>2. TypeOK'
    <2>1. [pc |-> "lock", now |-> now, limit |-> limit] \in Waiting
      BY DEF Waiting
    <2> QED BY <1>1, <2>1 DEF RateInv, TypeOK
  <1>3. StampsArePast'
    BY <1>1 DEF RateInv, TypeOK, StampsArePast
  <1>4. InLockOrder' /\ PoppedAreOld' /\ NeverOverRate'
    BY <1>1 DEF RateInv, InLockOrder, PoppedAreOld, NeverOverRate
  <1> QED BY <1>2, <1>3, <1>4 DEF RateInv

LEMMA TickKeepsInv == RateInv /\ Tick => RateInv'
  <1> SUFFICES ASSUME RateInv, Tick PROVE RateInv'
    OBVIOUS
  <1>1. clock' = clock + 1 /\ UNCHANGED <<grants, popped, call>> /\ clock \in Nat
    BY DEF Tick, RateInv, TypeOK
  <1>2. TypeOK'
    BY <1>1 DEF RateInv, TypeOK
  <1>3. StampsArePast'
    <2>1. \A t \in Threads : call[t].now \in Nat /\ call[t].now <= clock
      <3>1. \A t \in Threads : call[t] \in Waiting \/ call[t] = Idle
        BY DEF RateInv, TypeOK
      <3>2. ASSUME NEW t \in Threads PROVE call[t].now \in Nat
        <4>1. call[t] \in Waiting => call[t].now \in Nat
          BY DEF Waiting
        <4>2. call[t] = Idle => call[t].now \in Nat
          BY DEF Idle
        <4> QED BY <3>1, <4>1, <4>2
      <3> QED BY <3>2 DEF RateInv, StampsArePast
    <2>2. \A i \in 1..Len(grants) : /\ grants[i].stamp <= grants[i].at
                                    /\ grants[i].at <= clock
                                    /\ grants[i].at \in Nat
      BY GrantFields DEF RateInv, StampsArePast
    <2> QED BY <1>1, <2>1, <2>2 DEF StampsArePast
  <1>4. InLockOrder' /\ NeverOverRate'
    BY <1>1 DEF RateInv, InLockOrder, NeverOverRate
  <1>5. PoppedAreOld'
    <2>1. \A i \in 1..popped : /\ grants[i].stamp \in Nat
                               /\ grants[i].stamp + Window <= clock
      <3>1. \A i \in 1..popped : i \in 1..Len(grants)
        BY DEF RateInv, TypeOK
      <3> QED BY <3>1, GrantFields DEF RateInv, PoppedAreOld
    <2> QED BY <1>1, <2>1, WindowAssumption DEF PoppedAreOld
  <1> QED BY <1>2, <1>3, <1>4, <1>5 DEF RateInv

LEMMA StepKeepsInv == RateInv /\ [Next]_vars => RateInv'
  <1> SUFFICES ASSUME RateInv, [Next]_vars PROVE RateInv'
    OBVIOUS
  <1>1. ASSUME NEW t \in Threads, NEW now \in 0..MaxTime, NEW limit \in Limits,
               ReadClock(t, now, limit)
        PROVE  RateInv'
    BY <1>1, ReadClockKeepsInv
  <1>2. ASSUME NEW t \in Threads, NEW k \in popped..Len(grants), Allow(t, k)
        PROVE  RateInv'
    BY <1>2, AllowKeepsInv
  <1>3. ASSUME NEW t \in Threads, NEW k \in popped..Len(grants), Refuse(t, k)
        PROVE  RateInv'
    BY <1>3, RefuseKeepsInv
  <1>4. CASE Tick
    BY <1>4, TickKeepsInv
  <1>5. CASE UNCHANGED vars
    BY <1>5 DEF vars, RateInv, TypeOK, StampsArePast, InLockOrder, PoppedAreOld,
                NeverOverRate
  <1> QED BY <1>1, <1>2, <1>3, <1>4, <1>5 DEF Next

\* The inductive invariant: the deque is the recent tail of the grants, and the
\* limiter's rate holds (RateLimiter.allow).
THEOREM RateCorrect == Spec => []RateInv
  BY InitInv, StepKeepsInv, PTL DEF Spec

\* For any threads, limits and window: a call allowed under limit n comes a
\* window after the stamp of the n-th grant before it (RateLimiter.allow).
THEOREM NeverOver == Spec => []NeverOverRate
  <1>1. RateInv => NeverOverRate
    BY DEF RateInv
  <1> QED BY <1>1, RateCorrect, PTL

LEMMA RefusalIsDue ==
    ASSUME RateInv, [Next]_vars, NEW t \in Threads, Refused(t)
    PROVE  /\ Len(grants) >= call[t].limit
           /\ \A i \in 1..Len(grants) :
                 i > Len(grants) - call[t].limit =>
                    grants[i].at > call[t].now - Window
  <1>1. call[t].pc = "lock" /\ call'[t].pc = "idle" /\ grants' = grants
    BY DEF Refused
  <1>2. PICK k \in popped..Len(grants) : Refuse(t, k)
    <2>1. ASSUME NEW u \in Threads, NEW now \in 0..MaxTime, NEW limit \in Limits,
                 ReadClock(u, now, limit)
          PROVE  FALSE
      <3>1. u # t
        BY <1>1, <2>1 DEF ReadClock
      <3> QED BY <1>1, <2>1, <3>1 DEF ReadClock, RateInv, TypeOK
    <2>2. ASSUME NEW u \in Threads, NEW k \in popped..Len(grants), Allow(u, k)
          PROVE  FALSE
      <3>1. Len(grants') = Len(grants) + 1
        BY <2>2 DEF Allow, RateInv, TypeOK
      <3> QED BY <1>1, <3>1 DEF RateInv, TypeOK
    <2>3. ASSUME NEW u \in Threads, NEW k \in popped..Len(grants), Refuse(u, k),
                 u # t
          PROVE  FALSE
      BY <1>1, <2>3 DEF Refuse, RateInv, TypeOK
    <2>4. CASE Tick \/ UNCHANGED vars
      BY <1>1, <2>4 DEF Tick, vars
    <2> QED BY <2>1, <2>2, <2>3, <2>4 DEF Next
  <1>3. /\ Trim(call[t].now, k)
        /\ Len(grants) - k >= call[t].limit
    BY <1>2 DEF Refuse, Full
  <1>4. /\ call[t].now \in Nat
        /\ call[t].limit \in Int
    BY <1>1, AtLock
  <1>5. k \in 0..Len(grants) /\ Len(grants) \in Nat
    BY DEF RateInv, TypeOK
  <1>6. ASSUME NEW i \in 1..Len(grants), i > Len(grants) - call[t].limit
        PROVE  grants[i].at > call[t].now - Window
    <2>1. k + 1 \in 1..Len(grants) /\ k + 1 <= i
      BY <1>3, <1>4, <1>5, <1>6
    <2>2. call[t].now - grants[k + 1].stamp < Window
      BY <1>3, <1>4, <1>5, <2>1, GrantFields, WindowAssumption DEF Trim, Old
    <2>3. grants[k + 1].stamp <= grants[k + 1].at /\ grants[k + 1].at <= grants[i].at
      BY <2>1 DEF RateInv, StampsArePast, InLockOrder
    <2>4. grants[k + 1].stamp \in Nat /\ grants[k + 1].at \in Nat /\ grants[i].at \in Nat
      BY <2>1, GrantFields
    <2>5. \A a, b, c, d, w \in Nat : d - a < w /\ a <= b /\ b <= c => c > d - w
      OBVIOUS
    <2> QED BY <1>4, <2>2, <2>3, <2>4, <2>5, WindowAssumption
  <1> QED BY <1>3, <1>4, <1>5, <1>6

\* For any threads, limits and window: a refused call would have broken the
\* rate (RateLimiter.allow).
THEOREM RefusalsAreDue == Spec => RefusedOnlyAtLimit
  <1>1. RateInv /\ [Next]_vars =>
          [\A t \in Threads : Refused(t) =>
              /\ Len(grants) >= call[t].limit
              /\ \A i \in 1..Len(grants) :
                    i > Len(grants) - call[t].limit =>
                       grants[i].at > call[t].now - Window]_vars
    BY RefusalIsDue
  <1> QED BY <1>1, RateCorrect, PTL DEF Spec, RefusedOnlyAtLimit

-----------------------------------------------------------------------------
(* The engine *)

\* A set of natural numbers has a least element.
LEMMA LeastOf ==
    ASSUME NEW S \in SUBSET Nat, S # {}
    PROVE  \E i \in S : \A j \in S : i <= j
  <1>1. \E i \in S : \A j \in S : ~(<<j, i>> \in OpToRel(<, Nat))
    BY NatLessThanWellFounded, WFMin
  <1>2. \A i, j \in Nat : ~(<<j, i>> \in OpToRel(<, Nat)) => i <= j
    BY DEF OpToRel
  <1> QED BY <1>1, <1>2

\* The rule found for an action is the first that claims it, or the default.
LEMMA FoundRule ==
    ASSUME policy \in Policies, NEW a
    PROVE  \/ /\ FindRule(a) = Default
              /\ \A j \in 1..Len(policy.rules) : ~Claims(policy.rules[j], a)
           \/ \E i \in 1..Len(policy.rules) :
                 /\ FindRule(a) = policy.rules[i]
                 /\ Claims(policy.rules[i], a)
                 /\ \A j \in 1 .. i - 1 : ~Claims(policy.rules[j], a)
  <1>1. CASE Claiming(a) = {}
    BY <1>1 DEF FindRule, Claiming
  <1>2. CASE Claiming(a) # {}
    <2>1. policy.rules \in Seq(Rule)
      BY PoliciesAssumption
    <2>2. Claiming(a) \in SUBSET Nat
      BY <2>1 DEF Claiming
    <2>3. PICK i \in Claiming(a) : \A j \in Claiming(a) : i <= j
      BY <1>2, <2>2, LeastOf
    <2> DEFINE c == CHOOSE n \in Claiming(a) : \A j \in Claiming(a) : n <= j
    <2>4. c \in Claiming(a) /\ \A j \in Claiming(a) : c <= j
      BY <2>3
    <2>5. FindRule(a) = policy.rules[c]
      BY <1>2 DEF FindRule
    <2> HIDE DEF c
    <2>6. Len(policy.rules) \in Nat
      BY <2>1
    <2>7. c \in 1..Len(policy.rules) /\ Claims(policy.rules[c], a)
      BY <2>4 DEF Claiming
    <2>8. \A j \in 1 .. c - 1 : ~Claims(policy.rules[j], a)
      BY <2>4, <2>6, <2>7 DEF Claiming
    <2> QED BY <2>5, <2>7, <2>8
  <1> QED BY <1>1, <1>2

\* Its rate is of the limits the limiter knows.
LEMMA FoundRate ==
    ASSUME policy \in Policies, NEW a
    PROVE  FindRule(a).rate \subseteq Limits /\ FindRule(a).tier \in Tiers
  <1>1. CASE FindRule(a) = Default
    BY <1>1, PoliciesAssumption DEF Default
  <1>2. ASSUME NEW i \in 1..Len(policy.rules), FindRule(a) = policy.rules[i]
        PROVE  FindRule(a).rate \subseteq Limits /\ FindRule(a).tier \in Tiers
    <2>1. policy.rules \in Seq(Rule)
      BY PoliciesAssumption
    <2>2. policy.rules[i] \in Rule
      BY <2>1
    <2> QED BY <1>2, <2>2 DEF Rule
  <1> QED BY <1>1, <1>2, FoundRule

-----------------------------------------------------------------------------
(* Steps *)

LEMMA AuthorizeStep ==
    ASSUME ActTypeOK, NEW t \in Threads, NEW a \in Action, Authorize(t, a)
    PROVE  /\ [Next]_vars
           /\ UNCHANGED policy
           /\ line' \in Lines
           /\ \/ UNCHANGED <<vars, asks>>
              \/ /\ Free(a) /\ asks' = [asks EXCEPT ![t] = a] /\ UNCHANGED line
                 /\ \E limit \in FindRule(a).rate, now \in 0..MaxTime :
                       ReadClock(t, now, limit)
  <1>1. policy \in Policies /\ line \in Lines
    BY DEF ActTypeOK
  <1>2. FindRule(a).rate \subseteq Limits /\ FindRule(a).tier \in Tiers
    BY <1>1, FoundRate
  <1>3. UNCHANGED policy
    BY DEF Authorize
  <1>4. CASE (Deny(a) \/ Guarded(a) \/ AllowFree(a)) /\ UNCHANGED <<vars, asks>>
    <2>1. PICK status \in {"allowed", "pending_approval", "denied"} : Decide(a, status)
      BY <1>4 DEF Deny, Guarded, AllowFree
    <2>2. line' \in Lines
      BY <2>1, <1>2 DEF Decide, Lines, Action
    <2> QED BY <1>3, <1>4, <2>2
  <1>5. CASE /\ Free(a)
             /\ \E limit \in FindRule(a).rate, now \in 0..MaxTime : ReadClock(t, now, limit)
             /\ asks' = [asks EXCEPT ![t] = a]
             /\ UNCHANGED line
    <2>1. Next
      BY <1>2, <1>5 DEF Next
    <2> QED BY <1>1, <1>3, <1>5, <2>1
  <1> QED BY <1>4, <1>5 DEF Authorize

LEMMA LimitedStep ==
    ASSUME ActTypeOK, NEW t \in Threads, Limited(t)
    PROVE  /\ Next
           /\ UNCHANGED policy
           /\ asks' = [asks EXCEPT ![t] = {}]
           /\ line' \in Lines
           /\ call[t].pc = "lock" /\ call' = [call EXCEPT ![t] = Idle]
           /\ \/ /\ line' = [targets |-> asks[t], tier |-> FindRule(asks[t]).tier,
                             status |-> "allowed"]
                 /\ grants' = Append(grants, [stamp |-> call[t].now, at |-> clock,
                                              limit |-> call[t].limit])
              \/ line'.status = "rate_limited"
  <1>1. policy \in Policies /\ asks[t] \in Action
    BY DEF ActTypeOK
  <1>2. FindRule(asks[t]).tier \in Tiers
    BY <1>1, FoundRate
  <1>3. PICK k \in popped..Len(grants) :
            \/ Allow(t, k) /\ Decide(asks[t], "allowed")
            \/ Refuse(t, k) /\ Decide(asks[t], "rate_limited")
    BY DEF Limited
  <1>4. Next
    BY <1>3 DEF Next
  <1>5. line' \in Lines
    BY <1>1, <1>2, <1>3 DEF Decide, Lines
  <1>6. UNCHANGED policy /\ asks' = [asks EXCEPT ![t] = {}]
    BY DEF Limited
  <1> QED BY <1>3, <1>4, <1>5, <1>6 DEF Allow, Refuse, Decide

\* Every step is one of the limiter, or leaves it alone.
LEMMA StepsOfLimiter ==
    ASSUME ActTypeOK, [ActNext]_actVars
    PROVE  [Next]_vars
  <1>1. ASSUME NEW t \in Threads, Limited(t) PROVE [Next]_vars
    BY <1>1, LimitedStep
  <1>2. ASSUME NEW t \in Threads, NEW a \in Action, Authorize(t, a) PROVE [Next]_vars
    BY <1>2, AuthorizeStep
  <1>3. CASE Passes
    BY <1>3 DEF Passes, Next
  <1>4. CASE UNCHANGED actVars
    BY <1>4 DEF actVars
  <1> QED BY <1>1, <1>2, <1>3, <1>4 DEF ActNext

LEMMA ActInitInv == ActInit => AsksInv
  <1> SUFFICES ASSUME ActInit PROVE AsksInv
    OBVIOUS
  <1>1. RateInv
    BY InitInv DEF ActInit
  <1>2. ActTypeOK
    BY DEF ActInit, ActTypeOK, Action, Lines
  <1>3. \A t \in Threads : call[t].pc = "idle"
    BY DEF ActInit, Init, Idle
  <1> QED BY <1>1, <1>2, <1>3 DEF AsksInv

\* A thread that goes on waiting is held to what it was held to.
LEMMA ActStepKeepsInv == AsksInv /\ [ActNext]_actVars => AsksInv'
  <1> SUFFICES ASSUME AsksInv, [ActNext]_actVars PROVE AsksInv'
    OBVIOUS
  <1>1. RateInv /\ ActTypeOK /\ TypeOK
    BY DEF AsksInv, RateInv
  <1>2. RateInv'
    BY <1>1, StepsOfLimiter, StepKeepsInv
  <1>3. asks \in [Threads -> Action] /\ {} \in Action /\ call \in [Threads -> Waiting \cup {Idle}]
    BY <1>1 DEF ActTypeOK, Action, TypeOK
  <1> DEFINE Held(t) == call[t].pc = "lock" => /\ Free(asks[t])
                                               /\ call[t].limit \in FindRule(asks[t]).rate
  <1>4. \A t \in Threads : Held(t)
    BY DEF AsksInv
  <1>5. ASSUME UNCHANGED policy
        PROVE  \A a : FindRule(a)' = FindRule(a) /\ (Free(a)' <=> Free(a))
    BY <1>5 DEF FindRule, Free, Claiming, Default, Claims
  <1>6. ASSUME NEW t \in Threads, Limited(t)
        PROVE  ActTypeOK' /\ \A u \in Threads : Held(u)'
    <2>1. /\ UNCHANGED policy /\ line' \in Lines
          /\ asks' = [asks EXCEPT ![t] = {}] /\ call' = [call EXCEPT ![t] = Idle]
      BY <1>1, <1>6, LimitedStep
    <2>2. ActTypeOK'
      BY <1>1, <1>3, <2>1 DEF ActTypeOK
    <2>3. ASSUME NEW u \in Threads, u # t PROVE Held(u)'
      BY <1>3, <1>4, <1>5, <2>1, <2>3 DEF Free
    <2>4. Held(t)'
      BY <1>3, <2>1 DEF Idle
    <2> QED BY <2>2, <2>3, <2>4
  <1>7. ASSUME NEW t \in Threads, NEW a \in Action, Authorize(t, a)
        PROVE  ActTypeOK' /\ \A u \in Threads : Held(u)'
    <2>1. UNCHANGED policy /\ line' \in Lines
      BY <1>1, <1>7, AuthorizeStep
    <2>2. CASE UNCHANGED <<vars, asks>>
      BY <1>1, <1>4, <1>5, <2>1, <2>2 DEF ActTypeOK, vars, Free
    <2>3. CASE /\ Free(a) /\ asks' = [asks EXCEPT ![t] = a] /\ UNCHANGED line
               /\ \E limit \in FindRule(a).rate, now \in 0..MaxTime : ReadClock(t, now, limit)
      <3>1. PICK limit \in FindRule(a).rate, now \in 0..MaxTime : ReadClock(t, now, limit)
        BY <2>3
      <3>2. call' = [call EXCEPT ![t] = [pc |-> "lock", now |-> now, limit |-> limit]]
        BY <3>1 DEF ReadClock
      <3>3. ActTypeOK'
        BY <1>1, <1>3, <2>1, <2>3 DEF ActTypeOK
      <3>4. ASSUME NEW u \in Threads, u # t PROVE Held(u)'
        BY <1>3, <1>4, <1>5, <2>1, <2>3, <3>2, <3>4 DEF Free
      <3>5. Held(t)'
        <4>1. asks'[t] = a /\ call'[t].limit = limit
          BY <1>3, <2>3, <3>2
        <4>2. FindRule(asks[t])' = FindRule(a) /\ (Free(asks[t])' <=> Free(a))
          BY <1>5, <2>1, <4>1
        <4> QED BY <2>3, <3>1, <4>1, <4>2
      <3> QED BY <3>3, <3>4, <3>5
    <2> QED BY <1>1, <1>7, <2>2, <2>3, AuthorizeStep
  <1>8. CASE Passes \/ UNCHANGED actVars
    <2>1. UNCHANGED <<policy, asks, line, call>>
      BY <1>8 DEF Passes, Tick, actVars, vars
    <2> QED BY <1>1, <1>2, <1>4, <1>5, <2>1 DEF AsksInv, ActTypeOK, Free
  <1>9. CASE ActNext
    BY <1>2, <1>6, <1>7, <1>8, <1>9 DEF ActNext, AsksInv
  <1> QED BY <1>8, <1>9

\* For any policies, threads, limits and delays, a thread is held to the limit of
\* the rule that claims its action.
THEOREM AsksCorrect == ActSpec => []AsksInv
  BY ActInitInv, ActStepKeepsInv, PTL DEF ActSpec

\* What the limiter promises holds under any policy (RateLimiter.allow).
THEOREM RateHolds == ActSpec => []NeverOverRate
  <1>1. AsksInv => NeverOverRate
    BY DEF AsksInv, RateInv
  <1> QED BY <1>1, AsksCorrect, PTL

\* The limiter refuses an engine's thread only at its limit, whatever rule claims
\* the action and whatever the other threads were asked (RateLimiter.allow).
THEOREM RefusalsHold == ActSpec => RefusedOnlyAtLimit
  <1>1. AsksInv /\ [ActNext]_actVars =>
          [\A t \in Threads : Refused(t) =>
              /\ Len(grants) >= call[t].limit
              /\ \A i \in 1..Len(grants) :
                    i > Len(grants) - call[t].limit =>
                       grants[i].at > call[t].now - Window]_vars
    BY StepsOfLimiter, RefusalIsDue DEF AsksInv
  <1> QED BY <1>1, AsksCorrect, PTL DEF ActSpec, RefusedOnlyAtLimit

-----------------------------------------------------------------------------
(* What is allowed *)

LEMMA ClaimsIsCovers ==
    ASSUME NEW rule, NEW a \in Action
    PROVE  Claims(rule, a) <=> Covers(rule, a)
  BY DEF Claims, Covers

\* The rule found for an action that it lets through is the one ActsByRule asks for.
LEMMA FoundCovers ==
    ASSUME policy \in Policies, NEW a \in Action
    PROVE  \E i \in 1 .. Len(policy.rules) + 1 :
              /\ RuleAt(i) = FindRule(a) /\ Covers(RuleAt(i), a)
              /\ \A j \in 1 .. i - 1 : ~Covers(RuleAt(j), a)
  <1>1. Len(policy.rules) \in Nat
    BY PoliciesAssumption
  <1>2. CASE /\ FindRule(a) = Default
             /\ \A j \in 1..Len(policy.rules) : ~Claims(policy.rules[j], a)
    <2>1. Covers(Default, a)
      BY DEF Default, Covers, Action
    <2>2. \A j \in 1..Len(policy.rules) : ~Covers(policy.rules[j], a)
      BY <1>2, ClaimsIsCovers
    <2>3. RuleAt(Len(policy.rules) + 1) = Default
      BY <1>1 DEF RuleAt
    <2>4. \A j \in 1 .. (Len(policy.rules) + 1) - 1 : ~Covers(RuleAt(j), a)
      BY <1>1, <2>2 DEF RuleAt
    <2>5. Len(policy.rules) + 1 \in 1 .. Len(policy.rules) + 1
      BY <1>1
    <2> QED BY <1>2, <2>1, <2>3, <2>4, <2>5
  <1>3. ASSUME NEW i \in 1..Len(policy.rules), FindRule(a) = policy.rules[i],
               Claims(policy.rules[i], a),
               \A j \in 1 .. i - 1 : ~Claims(policy.rules[j], a)
        PROVE  \E n \in 1 .. Len(policy.rules) + 1 :
                  /\ RuleAt(n) = FindRule(a) /\ Covers(RuleAt(n), a)
                  /\ \A j \in 1 .. n - 1 : ~Covers(RuleAt(j), a)
    <2>1. RuleAt(i) = policy.rules[i] /\ i \in 1 .. Len(policy.rules) + 1
      BY <1>1 DEF RuleAt
    <2>2. Covers(policy.rules[i], a) /\ \A j \in 1 .. i - 1 : ~Covers(policy.rules[j], a)
      BY <1>3, ClaimsIsCovers
    <2>3. \A j \in 1 .. i - 1 : RuleAt(j) = policy.rules[j]
      BY <1>1 DEF RuleAt
    <2> QED BY <1>3, <2>1, <2>2, <2>3
  <1> QED BY <1>2, <1>3, FoundRule

\* One step of ActsByRule, for a rule that is found for what the line tells.
LEMMA ActsByFound ==
    ASSUME policy \in Policies, NEW a \in Action,
           line'.targets = a, line'.tier = FindRule(a).tier,
           FindRule(a).tier \in {"read", "control"}, Spends(FindRule(a))
    PROVE  \E i \in 1 .. Len(policy.rules) + 1 :
              /\ RuleAt(i).tier = line'.tier /\ line'.tier \in {"read", "control"}
              /\ Covers(RuleAt(i), line'.targets) /\ Spends(RuleAt(i))
              /\ \A j \in 1 .. i - 1 : RuleAt(j).tier \in {"guarded", "deny"} =>
                                          ~Covers(RuleAt(j), line'.targets)
  <1>1. PICK i \in 1 .. Len(policy.rules) + 1 :
              /\ RuleAt(i) = FindRule(a) /\ Covers(RuleAt(i), a)
              /\ \A j \in 1 .. i - 1 : ~Covers(RuleAt(j), a)
    BY FoundCovers
  <1> QED BY <1>1

LEMMA ActsStep ==
    ASSUME AsksInv, [ActNext]_actVars,
           line'.status = "allowed", <<line, grants>>' # <<line, grants>>
    PROVE  \/ line'.tier = "guarded"
           \/ \E i \in 1 .. Len(policy.rules) + 1 :
                 /\ RuleAt(i).tier = line'.tier /\ line'.tier \in {"read", "control"}
                 /\ Covers(RuleAt(i), line'.targets) /\ Spends(RuleAt(i))
                 /\ \A j \in 1 .. i - 1 : RuleAt(j).tier \in {"guarded", "deny"} =>
                                             ~Covers(RuleAt(j), line'.targets)
  <1> DEFINE Goal ==
               \/ line'.tier = "guarded"
               \/ \E i \in 1 .. Len(policy.rules) + 1 :
                     /\ RuleAt(i).tier = line'.tier /\ line'.tier \in {"read", "control"}
                     /\ Covers(RuleAt(i), line'.targets) /\ Spends(RuleAt(i))
                     /\ \A j \in 1 .. i - 1 : RuleAt(j).tier \in {"guarded", "deny"} =>
                                                 ~Covers(RuleAt(j), line'.targets)
  <1>1. ActTypeOK /\ policy \in Policies /\ grants \in Seq(Grant)
    BY DEF AsksInv, ActTypeOK, RateInv, TypeOK
  <1>2. ASSUME NEW t \in Threads, Limited(t) PROVE Goal
    <2>1. /\ call[t].pc = "lock"
          /\ line' = [targets |-> asks[t], tier |-> FindRule(asks[t]).tier,
                      status |-> "allowed"]
          /\ grants' = Append(grants, [stamp |-> call[t].now, at |-> clock,
                                       limit |-> call[t].limit])
      BY <1>1, <1>2, LimitedStep
    <2>2. Free(asks[t]) /\ call[t].limit \in FindRule(asks[t]).rate /\ asks[t] \in Action
      BY <1>1, <2>1 DEF AsksInv, ActTypeOK
    <2>3. Len(grants') = Len(grants) + 1 /\ grants'[Len(grants')].limit = call[t].limit
      BY <1>1, <2>1
    <2>4. Spends(FindRule(asks[t]))
      BY <2>2, <2>3 DEF Spends
    <2>5. line'.targets = asks[t] /\ line'.tier = FindRule(asks[t]).tier
      BY <2>1
    <2>6. FindRule(asks[t]).tier \in {"read", "control"}
      BY <2>2 DEF Free
    <2> HIDE DEF Goal
    <2> QED BY <1>1, <2>2, <2>4, <2>5, <2>6, ActsByFound DEF Goal
  <1>3. ASSUME NEW t \in Threads, NEW a \in Action, Authorize(t, a) PROVE Goal
    <2>1. (Deny(a) \/ Guarded(a) \/ AllowFree(a)) /\ UNCHANGED vars
      BY <1>3 DEF Authorize, ReadClock
    <2>2. CASE Deny(a)
      BY <2>2 DEF Deny, Decide
    <2>3. CASE Guarded(a)
      BY <2>3 DEF Guarded, Decide
    <2>4. CASE AllowFree(a)
      <3>1. /\ line'.targets = a /\ line'.tier = FindRule(a).tier
            /\ FindRule(a).tier \in {"read", "control"} /\ FindRule(a).rate = {}
        BY <2>4 DEF AllowFree, Decide, Free
      <3>2. Spends(FindRule(a))
        BY <2>1, <3>1 DEF Spends, vars
      <3> HIDE DEF Goal
      <3> QED BY <1>1, <3>1, <3>2, ActsByFound DEF Goal
    <2> QED BY <2>1, <2>2, <2>3, <2>4
  <1>4. ~Passes /\ ~UNCHANGED actVars
    BY DEF Passes, Tick, actVars, vars
  <1> QED BY <1>2, <1>3, <1>4 DEF ActNext

\* For any policies and targets, what is allowed without a human is covered by a
\* rule of its tier, with none that forbids all of it before, and spends one
\* grant exactly if that rule has a limit (authorize, matches).
THEOREM ByRule == ActSpec => ActsByRule
  <1>1. AsksInv /\ [ActNext]_actVars =>
          [line'.status = "allowed" /\ <<line, grants>>' # <<line, grants>> =>
              \/ line'.tier = "guarded"
              \/ \E i \in 1 .. Len(policy.rules) + 1 :
                    /\ RuleAt(i).tier = line'.tier /\ line'.tier \in {"read", "control"}
                    /\ Covers(RuleAt(i), line'.targets) /\ Spends(RuleAt(i))
                    /\ \A j \in 1 .. i - 1 : RuleAt(j).tier \in {"guarded", "deny"} =>
                                                ~Covers(RuleAt(j), line'.targets)]_actVars
    BY ActsStep
  <1> QED BY <1>1, AsksCorrect, PTL DEF ActSpec, ActsByRule

\* Targets that fall under one rule each alone fall under it together, so a call
\* gets another tier only by mixing targets of different rules (_find_rule).
THEOREM TogetherAsAlone ==
    ASSUME policy \in Policies, NEW a \in Action, a # {},
           NEW i \in 1..Len(policy.rules),
           \A x \in a : /\ Claims(policy.rules[i], {x})
                        /\ \A j \in 1 .. i - 1 : ~Claims(policy.rules[j], {x})
    PROVE  FindRule(a) = policy.rules[i]
  <1>1. Len(policy.rules) \in Nat
    BY PoliciesAssumption
  <1>2. Claims(policy.rules[i], a)
    BY DEF Claims
  <1>3. \A j \in 1 .. i - 1 : ~Claims(policy.rules[j], a)
    BY DEF Claims
  <1>4. PICK k \in 1..Len(policy.rules) :
            /\ FindRule(a) = policy.rules[k]
            /\ Claims(policy.rules[k], a)
            /\ \A j \in 1 .. k - 1 : ~Claims(policy.rules[j], a)
    BY <1>2, FoundRule
  <1>5. k = i
    BY <1>1, <1>2, <1>3, <1>4
  <1> QED BY <1>4, <1>5

=============================================================================
