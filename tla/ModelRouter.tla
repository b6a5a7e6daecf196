------------------------------ MODULE ModelRouter ------------------------------
(***************************************************************************)
(* ModelRouter.route: which provider of a language model an ask is sent to.*)
(*                                                                         *)
(* An ask walks the providers that offer its capability, best priority     *)
(* first, and takes the first healthy one.  Health is the answer of a      *)
(* probe, kept for TTL in a cache that all asks of the event loop share,   *)
(* under the time at which the probe began.  A probe is awaited: other     *)
(* asks go on meanwhile, may probe the same provider, and write the cache  *)
(* in any order.  Providers go up and down at any moment; one that answers *)
(* too late counts as down.                                                *)
(*                                                                         *)
(* A provider is a number, its place in the sorted tuple of providers.     *)
(***************************************************************************)
EXTENDS Integers

CONSTANTS
    Providers,      \* places in ModelRouter.providers
    Capabilities,
    Offers,         \* the providers that offer a capability
    Asks,           \* calls of route that may overlap
    TTL,            \* probe_ttl_seconds
    MaxTime         \* bound: the clock

ASSUME ProvidersAssumption == Providers \subseteq Nat
ASSUME OffersAssumption == Offers \in [Capabilities -> SUBSET Providers]
ASSUME TimeAssumption == TTL \in Nat /\ MaxTime \in Nat

VARIABLES
    now,        \* time.monotonic
    up,         \* a probe of the provider would be answered with 200
    last,       \* history: when each provider was last up, and last down
    cache,      \* _probe_cache, for the providers it has an entry of
    ask         \* the calls of route

vars == <<now, up, last, cache, ask>>

Time == 0..MaxTime
\* Before any time a property looks back to.
LongAgo == -TTL
Entry == [since : Time, ok : BOOLEAN]
Phases == {"idle", "walking", "probing", "answered", "routed", "failed"}
Ask == [pc : Phases, left : SUBSET Providers, tried : SUBSET Providers,
        begun : Time, since : Time, ok : BOOLEAN]
Seen == [up : Time \cup {LongAgo}, down : Time \cup {LongAgo}]
Caches == UNION {[D -> Entry] : D \in SUBSET Providers}

\* Idle asks and the fields an ask does not use yet have this value.
Blank == [pc |-> "idle", left |-> {}, tried |-> {}, begun |-> 0,
          since |-> 0, ok |-> FALSE]

-----------------------------------------------------------------------------

\* The next candidate of an ask.
IsNext(c, p) ==
    /\ p \in ask[c].left
    /\ \A q \in ask[c].left : p <= q

\* Mistake: an entry is used one moment too long.
UpToTTL(p) == p \in DOMAIN cache /\ now - cache[p].since <= TTL

Cached(p) ==
    /\ p \in DOMAIN cache
    /\ now - cache[p].since < TTL

\* Provider p was found healthy or not: the ask ends, or goes on to the next.
Found(c, p, ok) ==
    [pc |-> IF ok THEN "routed" ELSE "walking",
     left |-> ask[c].left \ {p},
     tried |-> IF ok THEN ask[c].tried ELSE ask[c].tried \cup {p},
     begun |-> ask[c].begun, since |-> 0, ok |-> FALSE]

Begin(c, cap) ==
    /\ ask[c].pc = "idle"
    /\ ask' = [ask EXCEPT ![c] = [Blank EXCEPT !.pc = "walking",
                                               !.left = Offers[cap],
                                               !.begun = now]]
    /\ UNCHANGED <<now, up, last, cache>>

UseCache(c, p) ==
    /\ ask[c].pc = "walking"
    /\ IsNext(c, p)
    /\ Cached(p)
    /\ ask' = [ask EXCEPT ![c] = Found(c, p, cache[p].ok)]
    /\ UNCHANGED <<now, up, last, cache>>

StartProbe(c, p) ==
    /\ ask[c].pc = "walking"
    /\ IsNext(c, p)
    /\ ~Cached(p)
    /\ ask' = [ask EXCEPT ![c].pc = "probing", ![c].since = now]
    /\ UNCHANGED <<now, up, last, cache>>

\* The provider answers, or fails to.
Answer(c, p) ==
    /\ ask[c].pc = "probing"
    /\ IsNext(c, p)
    /\ ask' = [ask EXCEPT ![c].pc = "answered", ![c].ok = up[p]]
    /\ UNCHANGED <<now, up, last, cache>>

\* Mistake: the entry has the time at which it expires.
StampedAtExpiry(c) == [since |-> ask[c].since + TTL, ok |-> ask[c].ok]

\* Mistake: the entry has the time at which the probe ended.
StampedAtEnd(c) == [since |-> now, ok |-> ask[c].ok]

EntryOf(c) == [since |-> ask[c].since, ok |-> ask[c].ok]

\* The ask is resumed.
EndProbe(c, p) ==
    /\ ask[c].pc = "answered"
    /\ IsNext(c, p)
    /\ cache' = [q \in DOMAIN cache \cup {p} |->
                    IF q = p THEN EntryOf(c) ELSE cache[q]]
    /\ ask' = [ask EXCEPT ![c] = Found(c, p, ask[c].ok)]
    /\ UNCHANGED <<now, up, last>>

\* NoProviderAvailableError.
GiveUp(c) ==
    /\ ask[c].pc = "walking"
    /\ ask[c].left = {}
    /\ ask' = [ask EXCEPT ![c].pc = "failed"]
    /\ UNCHANGED <<now, up, last, cache>>

\* The ask has ended, and another may begin.
Return(c) ==
    /\ ask[c].pc \in {"routed", "failed"}
    /\ ask' = [ask EXCEPT ![c] = Blank]
    /\ UNCHANGED <<now, up, last, cache>>

\* When p was last up (ok) or down (~ok), and what becomes of it at time t.
Last(p, ok) == IF ok THEN last[p].up ELSE last[p].down
Noted(p, ok, t) == IF ok THEN [up |-> t, down |-> last[p].down]
                         ELSE [up |-> last[p].up, down |-> t]

Toggle(p) ==
    /\ up' = [up EXCEPT ![p] = ~@]
    /\ last' = [last EXCEPT ![p] = Noted(p, ~up[p], now)]
    /\ UNCHANGED <<now, cache, ask>>

Tick ==
    /\ now < MaxTime
    /\ now' = now + 1
    /\ last' = [p \in Providers |-> Noted(p, up[p], now + 1)]
    /\ UNCHANGED <<up, cache, ask>>

Init ==
    /\ now = 0
    /\ up \in [Providers -> BOOLEAN]
    /\ last = [p \in Providers |-> IF up[p] THEN [up |-> 0, down |-> LongAgo]
                                           ELSE [up |-> LongAgo, down |-> 0]]
    /\ cache = [p \in {} |-> [since |-> 0, ok |-> FALSE]]
    /\ ask = [c \in Asks |-> Blank]

Next ==
    \/ \E c \in Asks, cap \in Capabilities : Begin(c, cap)
    \/ \E c \in Asks, p \in Providers :
          UseCache(c, p) \/ StartProbe(c, p) \/ Answer(c, p) \/ EndProbe(c, p)
    \/ \E c \in Asks : GiveUp(c) \/ Return(c)
    \/ \E p \in Providers : Toggle(p)
    \/ Tick

Spec == Init /\ [][Next]_vars

-----------------------------------------------------------------------------

TypeOK ==
    /\ now \in Time
    /\ up \in [Providers -> BOOLEAN]
    /\ last \in [Providers -> Seen]
    /\ cache \in Caches
    /\ ask \in [Asks -> Ask]

\* An ask is routed to a provider that was up less than TTL ago, or at some
\* moment since the ask began to probe it, however many probes of it overlapped
\* and in whatever order they ended.
RoutedWasUp ==
    [][\A c \in Asks, p \in Providers :
          /\ ask[c].pc # "routed" /\ ask'[c].pc = "routed"
          /\ IsNext(c, p)
          => \/ last[p].up > now - TTL
             \/ ask[c].pc = "answered" /\ last[p].up >= ask[c].since]_vars

\* Every provider an ask passed over, and so every one that offers the
\* capability when it fails, was down at some moment less than TTL before the
\* ask began, or later: a provider that is up for good is not missed.
PassedOverWasDown ==
    \A c \in Asks, p \in Providers :
        p \in ask[c].tried =>
            \/ last[p].down > ask[c].begun - TTL
            \/ last[p].down >= ask[c].begun

-----------------------------------------------------------------------------
(* The strengthening the proofs use.                                       *)

\* An entry and an answer tell what the provider was at some moment since the
\* probe began.
CacheIsHonest ==
    \A p \in DOMAIN cache : Last(p, cache[p].ok) >= cache[p].since

AnswersAreHonest ==
    \A c \in Asks, p \in Providers :
        ask[c].pc = "answered" /\ IsNext(c, p) => Last(p, ask[c].ok) >= ask[c].since

\* Time goes on: history is not later than now, and a provider is now what it is.
HistoryIsPast ==
    \A p \in Providers :
        /\ Last(p, up[p]) = now
        /\ last[p].up <= now /\ last[p].down <= now

InOrder ==
    \A c \in Asks :
        /\ ask[c].begun <= now
        /\ ask[c].pc \in {"probing", "answered"} =>
              ask[c].begun <= ask[c].since /\ ask[c].since <= now

RouteInv ==
    /\ TypeOK /\ HistoryIsPast /\ InOrder
    /\ CacheIsHonest /\ AnswersAreHonest /\ PassedOverWasDown

=============================================================================
