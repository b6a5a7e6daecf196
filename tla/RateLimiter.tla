----------------------------- MODULE RateLimiter -----------------------------
(***************************************************************************)
(* RateLimiter.allow, for one key ("domain.service").  Keys share nothing  *)
(* but the lock.  The limit is an argument: two rules of the policy may    *)
(* claim the same key with different limits, and then share its deque.     *)
(*                                                                         *)
(* The clock is read before the lock is taken, so a thread may record a    *)
(* time stamp that is older than the ones before it, and is always late.   *)
(* The deque is the tail of the history of grants: grants[popped+1..].     *)
(***************************************************************************)
EXTENDS Integers, Sequences

CONSTANTS
    Threads,    \* callers of allow
    Limits,     \* rate_limit_per_minute of the rules that claim the key
    Window,     \* 60 seconds, in clock ticks
    MaxTime     \* bound: last value of the clock

ASSUME LimitsAssumption == Limits \subseteq Int
ASSUME WindowAssumption == Window \in Nat /\ MaxTime \in Nat

VARIABLES
    clock,      \* time.monotonic
    grants,     \* every call that was allowed, in the order of the lock
    popped,     \* how many of them have left the deque
    call        \* what each thread is doing

vars == <<clock, grants, popped, call>>

Grant == [stamp : Nat, at : Nat, limit : Limits]
Idle == [pc |-> "idle", now |-> 0, limit |-> 0]
Waiting == [pc : {"lock"}, now : Nat, limit : Limits]

TypeOK ==
    /\ clock \in Nat
    /\ grants \in Seq(Grant)
    /\ popped \in 0..Len(grants)
    /\ call \in [Threads -> Waiting \cup {Idle}]

Init ==
    /\ clock = 0
    /\ grants = <<>>
    /\ popped = 0
    /\ call = [t \in Threads |-> Idle]

\* Mistake: time.time, which an NTP step can move.
WallClock(now) == now \in 0..MaxTime
MonotonicClock(now) == now = clock

ReadClock(t, now, limit) ==
    /\ call[t].pc = "idle"
    /\ MonotonicClock(now)
    /\ call' = [call EXCEPT ![t] = [pc |-> "lock", now |-> now, limit |-> limit]]
    /\ UNCHANGED <<clock, grants, popped>>

\* Mistake: an event at the very edge of the window is kept.
OldAfterWindow(now, stamp) == now - stamp > Window
Old(now, stamp) == now - stamp >= Window

\* The head of the deque is popped while it is old, whatever lies behind it:
\* k is the number of popped grants afterwards.
Trim(now, k) ==
    /\ \A i \in popped + 1 .. k : Old(now, grants[i].stamp)
    /\ k < Len(grants) => ~Old(now, grants[k + 1].stamp)

\* Mistake: one too many.
AboveLimit(size, limit) == size > limit
Full(size, limit) == size >= limit

Allow(t, k) ==
    /\ call[t].pc = "lock"
    /\ Trim(call[t].now, k)
    /\ ~Full(Len(grants) - k, call[t].limit)
    /\ popped' = k
    /\ grants' = Append(grants, [stamp |-> call[t].now, at |-> clock,
                                 limit |-> call[t].limit])
    /\ call' = [call EXCEPT ![t] = Idle]
    /\ UNCHANGED clock

Refuse(t, k) ==
    /\ call[t].pc = "lock"
    /\ Trim(call[t].now, k)
    /\ Full(Len(grants) - k, call[t].limit)
    /\ popped' = k
    /\ call' = [call EXCEPT ![t] = Idle]
    /\ UNCHANGED <<clock, grants>>

Tick ==
    /\ clock < MaxTime
    /\ clock' = clock + 1
    /\ UNCHANGED <<grants, popped, call>>

Next ==
    \/ \E t \in Threads :
          \/ \E now \in 0..MaxTime, limit \in Limits : ReadClock(t, now, limit)
          \/ \E k \in popped..Len(grants) : Allow(t, k) \/ Refuse(t, k)
    \/ Tick

Spec == Init /\ [][Next]_vars

-----------------------------------------------------------------------------

\* However threads are delayed between reading the clock and taking the lock, a
\* call that is allowed under limit n comes at least a window after the time
\* stamp of the n-th grant before it, and none is allowed under a limit of
\* zero (RateLimiter.allow).
NeverOverRate ==
    \A j \in 1..Len(grants) :
        LET n == grants[j].limit
        IN  /\ n >= 1
            /\ j > n => grants[j].at >= grants[j - n].stamp + Window

\* Thread t leaves the lock with False.
Refused(t) ==
    /\ call[t].pc = "lock"
    /\ call'[t].pc = "idle"
    /\ grants' = grants

\* A call is refused only if as many calls as its limit were allowed within
\* the window before the time it read: stamps that arrive out of order, or a
\* deque that is trimmed at its head alone, never refuse a call that the rate
\* permits.
RefusedOnlyAtLimit ==
    [][\A t \in Threads : Refused(t) =>
          /\ Len(grants) >= call[t].limit
          /\ \A i \in 1..Len(grants) :
                i > Len(grants) - call[t].limit =>
                   grants[i].at > call[t].now - Window]_vars

-----------------------------------------------------------------------------
(* The inductive invariant *)

\* Nobody holds a time from the future.
StampsArePast ==
    /\ \A t \in Threads : call[t].now <= clock
    /\ \A i \in 1..Len(grants) : /\ grants[i].stamp <= grants[i].at
                                 /\ grants[i].at <= clock

InLockOrder ==
    \A i, j \in 1..Len(grants) : i <= j => grants[i].at <= grants[j].at

\* A grant leaves the deque at the end of its window, never earlier.
PoppedAreOld == \A i \in 1..popped : grants[i].stamp + Window <= clock

RateInv == TypeOK /\ StampsArePast /\ InLockOrder /\ PoppedAreOld /\ NeverOverRate

=============================================================================
