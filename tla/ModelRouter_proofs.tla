-------------------------- MODULE ModelRouter_proofs --------------------------
(* What a route rests on, for any providers, capabilities, asks and TTL.    *)
EXTENDS ModelRouter, TLAPS

USE ProvidersAssumption, OffersAssumption, TimeAssumption

LEMMA TTLType == TTL \in Int /\ TTL >= 0
  BY TimeAssumption

\* An ask has one next candidate.
LEMMA NextIsOne ==
    ASSUME NEW c, NEW p, NEW q, ask[c].left \subseteq Providers,
           IsNext(c, p), IsNext(c, q)
    PROVE  p = q
  <1>1. p \in Nat /\ q \in Nat
    BY DEF IsNext
  <1>2. p <= q /\ q <= p
    BY DEF IsNext
  <1>. QED
    BY <1>1, <1>2

\* A provider found down was so less than TTL before the ask began, or later.
DownLately(c, p) ==
    \/ last[p].down > ask[c].begun - TTL
    \/ last[p].down >= ask[c].begun

LEMMA FoundType ==
    ASSUME NEW c \in Asks, ask[c] \in Ask, NEW p \in Providers, NEW ok \in BOOLEAN
    PROVE  /\ Found(c, p, ok) \in Ask
           /\ Found(c, p, ok).pc = IF ok THEN "routed" ELSE "walking"
           /\ Found(c, p, ok).begun = ask[c].begun
           /\ Found(c, p, ok).left = ask[c].left \ {p}
           /\ Found(c, p, ok).tried = IF ok THEN ask[c].tried ELSE ask[c].tried \cup {p}
  <1>2. 0 \in Time
    BY DEF Time
  <1>3. (IF ok THEN "routed" ELSE "walking") \in Phases
    BY DEF Phases
  <1>. QED
    BY <1>2, <1>3 DEF Found, Ask

\* What has a type, field by field.
LEMMA AskFields ==
    ASSUME TypeOK, NEW c \in Asks
    PROVE  /\ ask[c] \in Ask
           /\ ask[c].pc \in Phases /\ ask[c].left \subseteq Providers
           /\ ask[c].tried \subseteq Providers
           /\ ask[c].begun \in Time /\ ask[c].since \in Time /\ ask[c].ok \in BOOLEAN
  BY DEF TypeOK, Ask

LEMMA CacheFields ==
    ASSUME TypeOK, NEW p \in DOMAIN cache
    PROVE  /\ p \in Providers /\ cache[p] \in Entry
           /\ cache[p].since \in Time /\ cache[p].ok \in BOOLEAN
  <1>1. PICK D \in SUBSET Providers : cache \in [D -> Entry]
    BY DEF TypeOK, Caches
  <1>2. p \in Providers /\ cache[p] \in Entry
    BY <1>1
  <1>. QED
    BY <1>2 DEF Entry

LEMMA BlankType == Blank \in Ask
  <1>1. 0 \in Time
    BY DEF Time
  <1>. QED
    BY <1>1 DEF Blank, Ask, Phases

\* The cache with an entry of p written.
LEMMA WriteType ==
    ASSUME NEW r \in Caches, NEW p \in Providers, NEW e \in Entry
    PROVE  [q \in DOMAIN r \cup {p} |-> IF q = p THEN e ELSE r[q]] \in Caches
  <1>1. PICK D \in SUBSET Providers : r \in [D -> Entry]
    BY DEF Caches
  <1>2. [q \in DOMAIN r \cup {p} |-> IF q = p THEN e ELSE r[q]]
          \in [D \cup {p} -> Entry]
    BY <1>1
  <1>3. D \cup {p} \in SUBSET Providers
    OBVIOUS
  <1>. QED
    BY <1>2, <1>3 DEF Caches

LEMMA TypeStep ==
    ASSUME TypeOK, Next
    PROVE  TypeOK'
  <1>1. ASSUME NEW c \in Asks, NEW cap \in Capabilities, Begin(c, cap)
        PROVE  TypeOK'
    <2>1. [Blank EXCEPT !.pc = "walking", !.left = Offers[cap], !.begun = now] \in Ask
      BY BlankType DEF Ask, Phases, TypeOK
    <2>. QED
      BY <1>1, <2>1 DEF Begin, TypeOK
  <1>2. ASSUME NEW c \in Asks, NEW p \in Providers, UseCache(c, p)
        PROVE  TypeOK'
    <2>1. Found(c, p, cache[p].ok) \in Ask
      BY <1>2, CacheFields, AskFields, FoundType DEF UseCache, Cached
    <2>. QED
      BY <1>2, <2>1 DEF UseCache, TypeOK
  <1>3. ASSUME NEW c \in Asks, NEW p \in Providers, StartProbe(c, p)
        PROVE  TypeOK'
    <2>1. [ask[c] EXCEPT !.pc = "probing", !.since = now] \in Ask
      BY AskFields DEF Ask, Phases, TypeOK
    <2>2. ask' = [ask EXCEPT ![c] = [ask[c] EXCEPT !.pc = "probing", !.since = now]]
      BY <1>3 DEF StartProbe, TypeOK
    <2>. QED
      BY <1>3, <2>1, <2>2 DEF StartProbe, TypeOK
  <1>4. ASSUME NEW c \in Asks, NEW p \in Providers, Answer(c, p)
        PROVE  TypeOK'
    <2>1. [ask[c] EXCEPT !.pc = "answered", !.ok = up[p]] \in Ask
      BY AskFields DEF Ask, Phases, TypeOK
    <2>2. ask' = [ask EXCEPT ![c] = [ask[c] EXCEPT !.pc = "answered", !.ok = up[p]]]
      BY <1>4 DEF Answer, TypeOK
    <2>. QED
      BY <1>4, <2>1, <2>2 DEF Answer, TypeOK
  <1>5. ASSUME NEW c \in Asks, NEW p \in Providers, EndProbe(c, p)
        PROVE  TypeOK'
    <2>1. EntryOf(c) \in Entry
      BY AskFields DEF EntryOf, Entry
    <2>2. cache' \in Caches
      BY <1>5, <2>1, WriteType DEF EndProbe, TypeOK
    <2>3. Found(c, p, ask[c].ok) \in Ask
      BY AskFields, FoundType
    <2>. QED
      BY <1>5, <2>2, <2>3 DEF EndProbe, TypeOK
  <1>6. ASSUME NEW c \in Asks, GiveUp(c)
        PROVE  TypeOK'
    <2>1. [ask[c] EXCEPT !.pc = "failed"] \in Ask
      BY AskFields DEF Ask, Phases
    <2>2. ask' = [ask EXCEPT ![c] = [ask[c] EXCEPT !.pc = "failed"]]
      BY <1>6 DEF GiveUp, TypeOK
    <2>. QED
      BY <1>6, <2>1, <2>2 DEF GiveUp, TypeOK
  <1>7. ASSUME NEW c \in Asks, Return(c)
        PROVE  TypeOK'
    BY <1>7, BlankType DEF Return, TypeOK
  <1>8. ASSUME NEW p \in Providers, Toggle(p)
        PROVE  TypeOK'
    <2>1. up' \in [Providers -> BOOLEAN]
      BY <1>8 DEF Toggle, TypeOK
    <2>2. last' \in [Providers -> Seen]
      BY <1>8 DEF Toggle, TypeOK, Noted, Seen
    <2>. QED
      BY <1>8, <2>1, <2>2 DEF Toggle, TypeOK
  <1>9. CASE Tick
    BY <1>9 DEF Tick, Time, TypeOK, Noted, Seen
  <1>. QED
    BY <1>1, <1>2, <1>3, <1>4, <1>5, <1>6, <1>7, <1>8, <1>9 DEF Next

\* History only grows.
Grows == /\ now <= now'
         /\ \A p \in Providers : last[p].up <= last'[p].up /\ last[p].down <= last'[p].down

LEMMA LastType ==
    ASSUME TypeOK
    PROVE  /\ now \in Int
           /\ \A p \in Providers : last[p].up \in Int /\ last[p].down \in Int
  BY TTLType DEF TypeOK, Seen, Time, LongAgo

LEMMA HistoryStep ==
    ASSUME TypeOK, HistoryIsPast, Next
    PROVE  HistoryIsPast' /\ Grows
  <1>. USE DEF HistoryIsPast, Last, Grows
  <1>1. ASSUME NEW p \in Providers, Toggle(p)
        PROVE  HistoryIsPast' /\ Grows
    <2>1. ASSUME NEW q \in Providers
          PROVE  /\ Last(q, up[q])' = now
                 /\ last'[q].up <= now /\ last'[q].down <= now
                 /\ last[q].up <= last'[q].up /\ last[q].down <= last'[q].down
      <3>1. CASE q = p
        BY <1>1, <3>1, LastType DEF Toggle, Noted, TypeOK
      <3>2. CASE q # p
        BY <1>1, <3>2, LastType DEF Toggle, TypeOK
      <3>. QED
        BY <3>1, <3>2
    <2>. QED
      BY <1>1, <2>1, LastType DEF Toggle
  <1>2. CASE Tick
    BY <1>2, LastType DEF Tick, Noted, TypeOK
  <1>3. CASE UNCHANGED <<now, up, last>>
    <2>1. ASSUME NEW q \in Providers
          PROVE  /\ Last(q, up[q])' = now
                 /\ last'[q].up <= now /\ last'[q].down <= now
                 /\ last[q].up <= last'[q].up /\ last[q].down <= last'[q].down
      <3>1. now' = now /\ up' = up /\ last' = last
        BY <1>3
      <3>2. Last(q, up[q]) = now /\ last[q].up <= now /\ last[q].down <= now
        OBVIOUS
      <3>3. Last(q, up[q])' = Last(q, up[q])
        BY <3>1
      <3>4. last[q].up \in Int /\ last[q].down \in Int
        BY LastType
      <3>. HIDE DEF Last
      <3>. QED
        BY <3>1, <3>2, <3>3, <3>4
    <2>. QED
      BY <1>3, <2>1, LastType
  <1>. QED
    BY <1>1, <1>2, <1>3
    DEF Next, Begin, UseCache, StartProbe, Answer, EndProbe, GiveUp, Return

-----------------------------------------------------------------------------
(* The invariant.                                                          *)

\* What a step leaves of one ask.
Keeps(d) == ask'[d] = ask[d]

\* Each step is one of an ask, and leaves the others, or one of the world.
LEMMA Cases ==
    ASSUME TypeOK, Next
    PROVE  \/ \E c \in Asks :
                 /\ \A d \in Asks : d # c => Keeps(d)
                 /\ UNCHANGED <<now, up, last>>
                 /\ \/ \E cap \in Capabilities : Begin(c, cap)
                    \/ \E p \in Providers : \/ UseCache(c, p) \/ StartProbe(c, p)
                                             \/ Answer(c, p) \/ EndProbe(c, p)
                    \/ GiveUp(c) \/ Return(c)
           \/ UNCHANGED <<cache, ask>>
  <1>. USE DEF TypeOK, Keeps
  <1>1. ASSUME NEW c \in Asks, NEW cap \in Capabilities, Begin(c, cap)
        PROVE  UNCHANGED <<now, up, last>> /\ \A d \in Asks : d # c => Keeps(d)
    BY <1>1 DEF Begin
  <1>2. ASSUME NEW c \in Asks, NEW p \in Providers,
               UseCache(c, p) \/ StartProbe(c, p) \/ Answer(c, p) \/ EndProbe(c, p)
        PROVE  UNCHANGED <<now, up, last>> /\ \A d \in Asks : d # c => Keeps(d)
    BY <1>2 DEF UseCache, StartProbe, Answer, EndProbe
  <1>3. ASSUME NEW c \in Asks, GiveUp(c) \/ Return(c)
        PROVE  UNCHANGED <<now, up, last>> /\ \A d \in Asks : d # c => Keeps(d)
    BY <1>3 DEF GiveUp, Return
  <1>4. (\E p \in Providers : Toggle(p)) \/ Tick => UNCHANGED <<cache, ask>>
    BY DEF Toggle, Tick
  <1>. HIDE DEF TypeOK, Keeps
  <1>. QED
    BY <1>1, <1>2, <1>3, <1>4 DEF Next

\* What each step makes of its own ask.
LEMMA Effects ==
    ASSUME TypeOK, NEW c \in Asks
    PROVE  /\ \A cap \in Capabilities : Begin(c, cap) =>
                 /\ ask'[c].begun = now /\ ask'[c].pc = "walking"
                 /\ ask'[c].tried = {} /\ UNCHANGED cache
           /\ \A p \in Providers : UseCache(c, p) =>
                 /\ ask'[c] = Found(c, p, cache[p].ok) /\ Cached(p)
                 /\ cache[p].ok \in BOOLEAN /\ UNCHANGED cache /\ IsNext(c, p)
           /\ \A p \in Providers : StartProbe(c, p) =>
                 /\ ask'[c].begun = ask[c].begun /\ ask'[c].since = now
                 /\ ask'[c].tried = ask[c].tried /\ ask'[c].pc = "probing"
                 /\ UNCHANGED cache
           /\ \A p \in Providers : Answer(c, p) =>
                 /\ ask'[c].begun = ask[c].begun /\ ask'[c].since = ask[c].since
                 /\ ask'[c].tried = ask[c].tried /\ ask'[c].left = ask[c].left
                 /\ ask[c].pc = "probing" /\ ask'[c].pc = "answered"
                 /\ ask'[c].ok = up[p] /\ IsNext(c, p) /\ UNCHANGED cache
           /\ \A p \in Providers : EndProbe(c, p) =>
                 /\ ask'[c] = Found(c, p, ask[c].ok) /\ ask[c].pc = "answered"
                 /\ ask[c].ok \in BOOLEAN /\ IsNext(c, p)
           /\ GiveUp(c) =>
                 /\ ask'[c].begun = ask[c].begun /\ ask'[c].pc = "failed"
                 /\ ask'[c].tried = ask[c].tried /\ UNCHANGED cache
           /\ Return(c) => ask'[c] = Blank /\ UNCHANGED cache
  <1>1. ask \in [Asks -> Ask] /\ ask[c] \in Ask
    BY AskFields DEF TypeOK
  <1>2. ASSUME NEW cap \in Capabilities, Begin(c, cap)
        PROVE  /\ ask'[c].begun = now /\ ask'[c].pc = "walking"
               /\ ask'[c].tried = {} /\ UNCHANGED cache
    BY <1>1, <1>2 DEF Begin, Blank
  <1>3. ASSUME NEW p \in Providers, UseCache(c, p)
        PROVE  /\ ask'[c] = Found(c, p, cache[p].ok) /\ Cached(p)
               /\ cache[p].ok \in BOOLEAN /\ UNCHANGED cache /\ IsNext(c, p)
    BY <1>1, <1>3, CacheFields DEF UseCache, Cached
  <1>4. ASSUME NEW p \in Providers, StartProbe(c, p)
        PROVE  /\ ask'[c].begun = ask[c].begun /\ ask'[c].since = now
               /\ ask'[c].tried = ask[c].tried /\ ask'[c].pc = "probing"
               /\ UNCHANGED cache
    BY <1>1, <1>4 DEF StartProbe, Ask
  <1>5. ASSUME NEW p \in Providers, Answer(c, p)
        PROVE  /\ ask'[c].begun = ask[c].begun /\ ask'[c].since = ask[c].since
               /\ ask'[c].tried = ask[c].tried /\ ask'[c].left = ask[c].left
               /\ ask[c].pc = "probing" /\ ask'[c].pc = "answered"
               /\ ask'[c].ok = up[p] /\ IsNext(c, p) /\ UNCHANGED cache
    BY <1>1, <1>5 DEF Answer, Ask
  <1>6. ASSUME NEW p \in Providers, EndProbe(c, p)
        PROVE  /\ ask'[c] = Found(c, p, ask[c].ok) /\ ask[c].pc = "answered"
               /\ ask[c].ok \in BOOLEAN /\ IsNext(c, p)
    BY <1>1, <1>6, AskFields DEF EndProbe
  <1>7. ASSUME GiveUp(c)
        PROVE  /\ ask'[c].begun = ask[c].begun /\ ask'[c].pc = "failed"
               /\ ask'[c].tried = ask[c].tried /\ UNCHANGED cache
    BY <1>1, <1>7 DEF GiveUp, Ask
  <1>8. ASSUME Return(c)
        PROVE  ask'[c] = Blank /\ UNCHANGED cache
    BY <1>1, <1>8 DEF Return
  <1>. QED
    BY <1>2, <1>3, <1>4, <1>5, <1>6, <1>7, <1>8

\* What RouteInv says of one ask.
AskInv(c) ==
    /\ ask[c].begun <= now
    /\ ask[c].pc \in {"probing", "answered"} =>
          ask[c].begun <= ask[c].since /\ ask[c].since <= now
    /\ \A p \in Providers :
          ask[c].pc = "answered" /\ IsNext(c, p) => Last(p, ask[c].ok) >= ask[c].since
    /\ \A p \in Providers : p \in ask[c].tried => DownLately(c, p)

LEMMA RouteInvParts ==
    RouteInv <=> /\ TypeOK /\ HistoryIsPast /\ CacheIsHonest
                 /\ \A c \in Asks : AskInv(c)
  BY DEF RouteInv, InOrder, AnswersAreHonest, PassedOverWasDown, AskInv, DownLately

\* Values that are compared.
LEMMA Numbers ==
    ASSUME TypeOK
    PROVE  /\ now \in Int
           /\ \A p \in Providers : last[p].up \in Int /\ last[p].down \in Int
           /\ \A c \in Asks : ask[c].begun \in Int /\ ask[c].since \in Int
           /\ \A p \in DOMAIN cache : cache[p].since \in Int
  BY LastType, AskFields, CacheFields DEF Time

\* An ask that a step leaves alone keeps its part.
LEMMA KeepsInv ==
    ASSUME TypeOK, TypeOK', Grows, NEW c \in Asks, Keeps(c), AskInv(c)
    PROVE  AskInv(c)'
  <1>1. /\ now \in Int /\ now' \in Int
        /\ \A p \in Providers : /\ last[p].up \in Int /\ last'[p].up \in Int
                               /\ last[p].down \in Int /\ last'[p].down \in Int
        /\ ask[c].begun \in Int /\ ask[c].since \in Int /\ ask[c].ok \in BOOLEAN
    <2>1. (TypeOK => /\ now \in Int
                     /\ \A p \in Providers : last[p].up \in Int /\ last[p].down \in Int)'
      BY Numbers, PTL
    <2>. QED
      BY <2>1, Numbers, AskFields
  <1>2. \A p : IsNext(c, p)' <=> IsNext(c, p)
    BY DEF Keeps, IsNext
  <1>3. \A p \in Providers : DownLately(c, p) => DownLately(c, p)'
    <2>. SUFFICES ASSUME NEW p \in Providers, DownLately(c, p)
                  PROVE  DownLately(c, p)'
      OBVIOUS
    <2>1. last[p].down <= last'[p].down
      BY DEF Grows
    <2>2. last[p].down \in Int /\ last'[p].down \in Int
      BY <1>1
    <2>. QED
      BY <1>1, <2>1, <2>2, TTLType DEF DownLately, Keeps
  <1>. QED
    BY <1>1, <1>2, <1>3 DEF AskInv, Keeps, Grows, Last

\* The cache stays honest.
LEMMA CacheStep ==
    ASSUME RouteInv, Next, TypeOK', Grows
    PROVE  CacheIsHonest'
  <1>1. TypeOK /\ CacheIsHonest
    BY DEF RouteInv
  <1>2. /\ \A p \in Providers : /\ last[p].up \in Int /\ last'[p].up \in Int
                               /\ last[p].down \in Int /\ last'[p].down \in Int
        /\ \A p \in DOMAIN cache : /\ cache[p].since \in Int /\ p \in Providers
                                    /\ cache[p].ok \in BOOLEAN
    <2>1. (TypeOK => \A p \in Providers : last[p].up \in Int /\ last[p].down \in Int)'
      BY Numbers, PTL
    <2>. QED
      BY <1>1, <2>1, Numbers, CacheFields
  <1>3. CASE UNCHANGED cache
    <2>. SUFFICES ASSUME NEW p \in DOMAIN cache
                  PROVE  Last(p, cache[p].ok)' >= cache[p].since
      BY <1>3 DEF CacheIsHonest
    <2>1. Last(p, cache[p].ok) >= cache[p].since
      BY <1>1 DEF CacheIsHonest
    <2>2. /\ p \in Providers /\ cache[p].since \in Int
          /\ cache[p].ok \in BOOLEAN /\ cache' = cache
          /\ last[p].up \in Int /\ last'[p].up \in Int
          /\ last[p].down \in Int /\ last'[p].down \in Int
      BY <1>2, <1>3
    <2>3. last[p].up <= last'[p].up /\ last[p].down <= last'[p].down
      BY <2>2 DEF Grows
    <2>4. CASE cache[p].ok = TRUE
      <3>1. last[p].up >= cache[p].since
        BY <2>1, <2>4 DEF Last
      <3>2. last'[p].up >= cache[p].since
        BY <2>2, <2>3, <3>1
      <3>. QED
        BY <2>2, <2>4, <3>2 DEF Last
    <2>5. CASE cache[p].ok = FALSE
      <3>1. last[p].down >= cache[p].since
        BY <2>1, <2>5 DEF Last
      <3>2. last'[p].down >= cache[p].since
        BY <2>2, <2>3, <3>1
      <3>. QED
        BY <2>2, <2>5, <3>2 DEF Last
    <2>. QED
      BY <2>2, <2>4, <2>5
  <1>4. ASSUME NEW c \in Asks, NEW p \in Providers, EndProbe(c, p), UNCHANGED last
        PROVE  CacheIsHonest'
    <2>1. Last(p, ask[c].ok) >= ask[c].since
      BY <1>4 DEF RouteInv, AnswersAreHonest, EndProbe
    <2>2. DOMAIN cache' = DOMAIN cache \cup {p}
      BY <1>4 DEF EndProbe
    <2>3. ASSUME NEW q \in DOMAIN cache'
          PROVE  Last(q, cache[q].ok)' >= cache'[q].since
      <3>1. CASE q = p
        BY <1>4, <2>1, <2>2, <3>1 DEF EndProbe, EntryOf, Last
      <3>2. CASE q # p
        BY <1>1, <1>4, <2>2, <2>3, <3>2 DEF EndProbe, CacheIsHonest, Last
      <3>. QED
        BY <3>1, <3>2
    <2>. QED
      BY <2>3 DEF CacheIsHonest
  <1>. QED
    BY <1>1, <1>3, <1>4, Cases, Effects

\* Each step keeps what RouteInv says of its own ask.
LEMMA AskStep ==
    ASSUME RouteInv, TypeOK', NEW c \in Asks, UNCHANGED <<now, up, last>>,
           \/ \E cap \in Capabilities : Begin(c, cap)
           \/ \E p \in Providers : \/ UseCache(c, p) \/ StartProbe(c, p)
                                    \/ Answer(c, p) \/ EndProbe(c, p)
           \/ GiveUp(c) \/ Return(c)
    PROVE  AskInv(c)'
  <1>1. /\ TypeOK /\ HistoryIsPast /\ CacheIsHonest /\ AskInv(c)
        /\ ask[c] \in Ask /\ ask[c].left \subseteq Providers
        /\ 0 <= now
    BY RouteInvParts, AskFields DEF TypeOK, Time
  <1>2. /\ now \in Int /\ ask[c].begun \in Int /\ ask[c].since \in Int
        /\ \A p \in Providers : last[p].up \in Int /\ last[p].down \in Int
        /\ \A p \in DOMAIN cache : cache[p].since \in Int
    BY <1>1, Numbers
  <1>3. ASSUME NEW cap \in Capabilities, Begin(c, cap)
        PROVE  AskInv(c)'
    BY <1>1, <1>2, <1>3, Effects DEF AskInv
  <1>4. ASSUME NEW p \in Providers, NEW ok \in BOOLEAN,
               ask'[c] = Found(c, p, ok), ok = FALSE => DownLately(c, p)
        PROVE  AskInv(c)'
    <2>1. /\ ask'[c].begun = ask[c].begun /\ ask'[c].pc \in {"walking", "routed"}
          /\ ask'[c].tried = IF ok THEN ask[c].tried ELSE ask[c].tried \cup {p}
      BY <1>1, <1>4, FoundType
    <2>2. \A q \in ask'[c].tried : q \in Providers => DownLately(c, q)
      BY <1>1, <1>4, <2>1 DEF AskInv
    <2>3. \A q \in Providers : DownLately(c, q)' <=> DownLately(c, q)
      BY <2>1 DEF DownLately
    <2>. QED
      BY <1>1, <2>1, <2>2, <2>3 DEF AskInv
  <1>5. ASSUME NEW p \in Providers, UseCache(c, p)
        PROVE  AskInv(c)'
    <2>1. /\ p \in DOMAIN cache /\ now - cache[p].since < TTL
          /\ Last(p, cache[p].ok) >= cache[p].since
      BY <1>1, <1>5, Effects DEF Cached, CacheIsHonest
    <2>2. ASSUME cache[p].ok = FALSE
          PROVE  DownLately(c, p)
      <3>1. last[p].down >= cache[p].since /\ last[p].down \in Int
        BY <1>2, <2>1, <2>2 DEF Last
      <3>2. ask[c].begun <= now /\ cache[p].since \in Int
        BY <1>1, <1>2, <2>1 DEF AskInv
      <3>. QED
        BY <1>2, <2>1, <3>1, <3>2, TTLType DEF DownLately
    <2>. QED
      BY <1>1, <1>4, <1>5, <2>2, Effects
  <1>6. ASSUME NEW p \in Providers, StartProbe(c, p)
        PROVE  AskInv(c)'
    <2>1. /\ ask'[c].begun = ask[c].begun /\ ask'[c].since = now
          /\ ask'[c].tried = ask[c].tried /\ ask'[c].pc = "probing"
      BY <1>1, <1>6, Effects
    <2>2. \A q \in Providers : DownLately(c, q)' <=> DownLately(c, q)
      BY <2>1 DEF DownLately
    <2>. QED
      BY <1>1, <1>2, <2>1, <2>2 DEF AskInv
  <1>7. ASSUME NEW p \in Providers, Answer(c, p)
        PROVE  AskInv(c)'
    <2>1. /\ ask'[c].begun = ask[c].begun /\ ask'[c].since = ask[c].since
          /\ ask'[c].tried = ask[c].tried /\ ask'[c].left = ask[c].left
          /\ ask[c].pc = "probing" /\ ask'[c].ok = up[p] /\ IsNext(c, p)
      BY <1>1, <1>7, Effects
    <2>2. \A q \in Providers : DownLately(c, q)' <=> DownLately(c, q)
      BY <2>1 DEF DownLately
    <2>3. ASSUME NEW q \in Providers, IsNext(c, q)'
          PROVE  q = p
      <3>1. IsNext(c, q)
        BY <2>1, <2>3 DEF IsNext
      <3>. QED
        BY <1>1, <2>1, <3>1, NextIsOne
    <2>4. Last(p, up[p]) = now
      BY <1>1 DEF HistoryIsPast
    <2>5. ask[c].begun <= ask[c].since /\ ask[c].since <= now
      BY <1>1, <2>1 DEF AskInv
    <2>. QED
      BY <1>1, <1>2, <2>1, <2>2, <2>3, <2>4, <2>5 DEF AskInv, Last
  <1>8. ASSUME NEW p \in Providers, EndProbe(c, p)
        PROVE  AskInv(c)'
    <2>1. /\ ask[c].pc = "answered" /\ IsNext(c, p) /\ ask[c].ok \in BOOLEAN
          /\ ask'[c] = Found(c, p, ask[c].ok)
      BY <1>1, <1>8, Effects
    <2>2. ASSUME ask[c].ok = FALSE
          PROVE  DownLately(c, p)
      <3>1. last[p].down >= ask[c].since /\ ask[c].begun <= ask[c].since
        BY <1>1, <2>1, <2>2 DEF AskInv, Last
      <3>2. last[p].down \in Int
        BY <1>2
      <3>. QED
        BY <1>2, <3>1, <3>2, TTLType DEF DownLately
    <2>. QED
      BY <1>4, <2>1, <2>2
  <1>9. CASE GiveUp(c)
    <2>1. /\ ask'[c].begun = ask[c].begun /\ ask'[c].pc = "failed"
          /\ ask'[c].tried = ask[c].tried
      BY <1>1, <1>9, Effects
    <2>2. \A q \in Providers : DownLately(c, q)' <=> DownLately(c, q)
      BY <2>1 DEF DownLately
    <2>. QED
      BY <1>1, <2>1, <2>2 DEF AskInv
  <1>10. CASE Return(c)
    BY <1>1, <1>10, Effects DEF AskInv, Blank
  <1>. QED
    BY <1>3, <1>5, <1>6, <1>7, <1>8, <1>9, <1>10

LEMMA RouteInit == Init => RouteInv
  <1>. SUFFICES ASSUME Init
                PROVE  RouteInv
    OBVIOUS
  <1>1. 0 \in Time /\ LongAgo <= 0
    BY TTLType DEF Time, LongAgo
  <1>2. TypeOK
    <2>1. last \in [Providers -> Seen]
      BY <1>1 DEF Init, Seen
    <2>2. cache \in [{} -> Entry]
      BY DEF Init
    <2>3. cache \in Caches
      BY <2>2 DEF Caches
    <2>. QED
      BY <1>1, <2>1, <2>3, BlankType DEF Init, TypeOK
  <1>3. HistoryIsPast
    <2>. SUFFICES ASSUME NEW p \in Providers
                  PROVE  /\ Last(p, up[p]) = now
                         /\ last[p].up <= now /\ last[p].down <= now
      BY DEF HistoryIsPast
    <2>1. now = 0 /\ last[p] = IF up[p] THEN [up |-> 0, down |-> LongAgo]
                                        ELSE [up |-> LongAgo, down |-> 0]
      BY DEF Init
    <2>2. CASE up[p]
      BY <1>1, <2>1, <2>2 DEF Last
    <2>3. CASE ~up[p]
      BY <1>1, <2>1, <2>3 DEF Last
    <2>. QED
      BY <2>2, <2>3
  <1>. QED
    BY <1>2, <1>3
    DEF Init, Blank, RouteInv, InOrder, CacheIsHonest, AnswersAreHonest, PassedOverWasDown

LEMMA RouteStep == RouteInv /\ [Next]_vars => RouteInv'
  <1>1. ASSUME RouteInv, Next
        PROVE  RouteInv'
    <2>1. TypeOK /\ HistoryIsPast /\ \A c \in Asks : AskInv(c)
      BY <1>1, RouteInvParts
    <2>2. TypeOK' /\ HistoryIsPast' /\ Grows
      BY <1>1, <2>1, TypeStep, HistoryStep, RouteInvParts
    <2>3. CacheIsHonest'
      BY <1>1, <2>2, CacheStep
    <2>4. ASSUME NEW d \in Asks
          PROVE  AskInv(d)'
      <3>1. CASE UNCHANGED ask
        BY <2>1, <2>2, <3>1, KeepsInv DEF Keeps
      <3>2. CASE ~UNCHANGED ask
        <4>1. PICK c \in Asks :
                 /\ \A e \in Asks : e # c => Keeps(e)
                 /\ UNCHANGED <<now, up, last>>
                 /\ \/ \E cap \in Capabilities : Begin(c, cap)
                    \/ \E p \in Providers : \/ UseCache(c, p) \/ StartProbe(c, p)
                                             \/ Answer(c, p) \/ EndProbe(c, p)
                    \/ GiveUp(c) \/ Return(c)
          BY <1>1, <2>1, <3>2, Cases
        <4>2. CASE d = c
          BY <1>1, <2>2, <4>1, <4>2, AskStep
        <4>3. CASE d # c
          BY <2>1, <2>2, <4>1, <4>3, KeepsInv
        <4>. QED
          BY <4>2, <4>3
      <3>. QED
        BY <3>1, <3>2
    <2>5. RouteInv' <=> /\ TypeOK' /\ HistoryIsPast' /\ CacheIsHonest'
                        /\ \A c \in Asks : AskInv(c)'
      BY DEF RouteInv, InOrder, AnswersAreHonest, PassedOverWasDown, AskInv, DownLately
    <2>. QED
      BY <2>2, <2>3, <2>4, <2>5
  <1>2. ASSUME RouteInv, UNCHANGED vars
        PROVE  RouteInv'
    BY <1>2 DEF RouteInv, TypeOK, HistoryIsPast, InOrder, CacheIsHonest,
                AnswersAreHonest, PassedOverWasDown, IsNext, Last, vars
  <1>. QED
    BY <1>1, <1>2

-----------------------------------------------------------------------------
(* The theorems.                                                           *)

\* Cache and answers never claim more than some moment since the probe began.
THEOREM RouteCorrect == Spec => []RouteInv
  BY RouteInit, RouteStep, PTL DEF Spec

\* Every variable has its type.
THEOREM TypeCorrect == Spec => []TypeOK
  <1>1. RouteInv => TypeOK
    BY DEF RouteInv
  <1>. QED
    BY <1>1, RouteCorrect, PTL

\* A provider that stays up is not passed over, however probes overlap.
THEOREM NotMissed == Spec => []PassedOverWasDown
  <1>1. RouteInv => PassedOverWasDown
    BY DEF RouteInv
  <1>. QED
    BY <1>1, RouteCorrect, PTL

\* An ask is routed on evidence that is younger than TTL, or its own.
THEOREM Evidence == Spec => RoutedWasUp
  <1>. DEFINE Due == \A c \in Asks, p \in Providers :
                        /\ ask[c].pc # "routed" /\ ask'[c].pc = "routed"
                        /\ IsNext(c, p)
                        => \/ last[p].up > now - TTL
                           \/ ask[c].pc = "answered" /\ last[p].up >= ask[c].since
  <1>1. ASSUME RouteInv, Next
        PROVE  Due
    <2>. SUFFICES ASSUME NEW c \in Asks, NEW p \in Providers, IsNext(c, p),
                         ask[c].pc # "routed", ask'[c].pc = "routed"
                  PROVE  \/ last[p].up > now - TTL
                         \/ ask[c].pc = "answered" /\ last[p].up >= ask[c].since
      OBVIOUS
    <2>1. /\ TypeOK /\ CacheIsHonest /\ AnswersAreHonest /\ ask[c] \in Ask
          /\ ask[c].left \subseteq Providers /\ now \in Int
      BY <1>1, AskFields, Numbers DEF RouteInv
    <2>2. ~Keeps(c)
      BY DEF Keeps
    <2>3. PICK q \in Providers : UseCache(c, q) \/ EndProbe(c, q)
      BY <1>1, <2>1, <2>2, Cases, Effects DEF Blank, Keeps
    <2>4. q = p
      BY <2>1, <2>3, NextIsOne, Effects
    <2>5. CASE UseCache(c, p)
      <3>1. /\ Cached(p) /\ cache[p].ok \in BOOLEAN
            /\ ask'[c] = Found(c, p, cache[p].ok)
        BY <2>1, <2>5, Effects
      <3>2. cache[p].ok = TRUE
        BY ZenonT(30), <2>1, <3>1, FoundType
      <3>3. /\ last[p].up >= cache[p].since /\ now - cache[p].since < TTL
            /\ cache[p].since \in Int
        BY <2>1, <3>1, <3>2, Numbers DEF CacheIsHonest, Cached, Last
      <3>4. last[p].up \in Int
        BY <2>1, Numbers
      <3>. QED
        BY <2>1, <3>3, <3>4, TTLType
    <2>6. CASE EndProbe(c, p)
      <3>1. /\ ask[c].pc = "answered" /\ ask[c].ok \in BOOLEAN
            /\ ask'[c] = Found(c, p, ask[c].ok)
        BY <2>1, <2>6, Effects
      <3>2. ask[c].ok = TRUE
        BY ZenonT(30), <2>1, <3>1, FoundType
      <3>. QED
        BY <2>1, <3>1, <3>2 DEF AnswersAreHonest, Last
    <2>. QED
      BY <2>3, <2>4, <2>5, <2>6
  <1>2. RouteInv /\ [Next]_vars => [Due]_vars
    BY <1>1
  <1>. QED
    BY <1>2, RouteCorrect, PTL DEF Spec, RoutedWasUp

=============================================================================
