-------------------------- MODULE Discovery_proofs --------------------------
(***************************************************************************)
(* Proofs about Discovery, for any fixtures, pairs, foreign configs,       *)
(* versions of the map and bounds.  One lemma per action or group of them  *)
(* shows that it keeps DiscoveryInv; the two promises follow from that.    *)
(***************************************************************************)
EXTENDS Discovery, TLAPS

(* The configs *)

LEMMA AbsentType == Absent \in Configs
  BY TopicsAssumption DEF Absent, Configs

LEMMA NameType ==
    ASSUME NEW v \in Versions, NEW x \in Ours
    PROVE  NameOf(v, x) \in Names
  BY MapsAssumption, TopicsAssumption DEF Versions, NameOf

LEMMA FixtureConfigType ==
    ASSUME NEW v \in Versions, NEW f \in Fixtures
    PROVE  FixtureConfig(v, f) \in Configs /\ FixtureConfig(v, f).name = NameOf(v, f)
  <1>1. NameOf(v, f) \in Names
    BY NameType DEF Ours
  <1> QED BY <1>1 DEF FixtureConfig, Configs

LEMMA PairConfigType ==
    ASSUME NEW v \in Versions, NEW p \in Pairs, NEW fields \in Layouts
    PROVE  /\ PairConfig(v, p, fields) \in Configs
           /\ PairConfig(v, p, fields).name = NameOf(v, p)
           /\ fields # {} => PairConfig(v, p, fields) # Absent
  <1>1. NameOf(v, p) \in Names
    BY NameType DEF Ours
  <1>2. PairConfig(v, p, fields).parts = fields /\ Absent.parts = {}
    BY DEF PairConfig, Absent
  <1> QED BY <1>1, <1>2 DEF PairConfig, Configs

\* What a session publishes again is a config under the name its map gives.
LEMMA ConfigOfType ==
    ASSUME TypeOK, SessionHolds, NEW c \in ToRepeat
    PROVE  /\ c \in Ours /\ ConfigOf(c) \in Configs
           /\ ConfigOf(c).name = NameOf(map, c)
           /\ c \in Fixtures => ConfigOf(c) = FixtureConfig(map, c)
           /\ c \notin Fixtures => c \in Pairs /\ ConfigOf(c) = discovered[c]
  <1>1. CASE c \in Fixtures
    <2>1. FixtureConfig(map, c) \in Configs /\ FixtureConfig(map, c).name = NameOf(map, c)
      BY <1>1, FixtureConfigType DEF TypeOK
    <2> QED BY <1>1, <2>1 DEF ConfigOf, Ours
  <1>2. CASE c \notin Fixtures
    <2>1. c \in Pairs /\ discovered[c] # Absent
      BY <1>2 DEF ToRepeat, Mapped
    <2> QED BY <1>2, <2>1 DEF ConfigOf, Ours, TypeOK, SessionHolds
  <1> QED BY <1>1, <1>2

\* The publishes of a frame: the config first, if there is one.
LEMMA PublishesOf ==
    ASSUME NEW p \in Pairs
    PROVE  /\ Publishes(p, TRUE) \in Seq(Pairs \X Steps)
           /\ Publishes(p, FALSE) \in Seq(Pairs \X Steps)
           /\ Publishes(p, TRUE) # <<>> /\ Publishes(p, FALSE) # <<>>
           /\ Head(Publishes(p, TRUE)) = <<p, "config">>
           /\ Head(Publishes(p, FALSE)) = <<p, "state">>
           /\ Tail(Publishes(p, TRUE)) = Publishes(p, FALSE)
           /\ Tail(Publishes(p, FALSE)) = <<>>
  BY DEF Publishes, Steps

\* Only the topic that is published changes.
LEMMA RetainOne ==
    ASSUME TypeOK, NEW c \in Topics, NEW config \in Configs, Retain(c, config)
    PROVE  /\ retained' \in [Topics -> Configs] /\ inbox' \subseteq Ours
           /\ retained'[c] = config
           /\ \A x \in Topics : x # c => retained'[x] = retained[x]
  BY DEF Retain, TypeOK

-----------------------------------------------------------------------------

LEMMA InitHolds == Init => DiscoveryInv
  <1> SUFFICES ASSUME Init PROVE DiscoveryInv
    OBVIOUS
  <1>1. [name |-> DefaultName, parts |-> {"light"}] \in Configs
    BY TopicsAssumption DEF Configs
  <1>2. [name |-> DefaultName, parts |-> {"light"}] # Absent
    <2>1. [name |-> DefaultName, parts |-> {"light"}].parts = {"light"} /\ Absent.parts = {}
      BY DEF Absent
    <2> QED BY <2>1
  <1>3. TypeOK
    <2>1. 1 \in Versions
      BY MapsAssumption DEF Versions
    <2>2. can \in Seq(Pairs \X Steps)
      BY DEF Init
    <2>3. left \in [ends : 0..MaxEnds, resets : 0..MaxResets, births : 0..MaxBirths]
      BY BoundsAssumption DEF Init
    <2> QED BY <1>1, <2>1, <2>2, <2>3, AbsentType DEF Init, TypeOK, Idle, Topics, Ours
  <1>4. SessionHolds
    BY DEF Init, SessionHolds, Awaiting
  <1>5. ResetHolds
    BY <1>2 DEF Init, ResetHolds, Idle, Topics, Ours
  <1> QED BY <1>3, <1>4, <1>5 DEF DiscoveryInv

\* What a session publishes under its map's name is as the reset expects it.
LEMMA PublishKeepsReset ==
    ASSUME DiscoveryInv, NEW c \in Ours, NEW config \in Configs,
           config.name = NameOf(map, c), Retain(c, config),
           phase # "down", UNCHANGED <<phase, map, reset>>
    PROVE  ResetHolds'
  <1>1. TypeOK /\ ResetHolds /\ c \in Topics /\ c \notin Foreign
    BY TopicsAssumption DEF DiscoveryInv, Topics, Ours
  <1>2. retained'[c] = config /\ \A x \in Topics : x # c => retained'[x] = retained[x]
    BY <1>1, RetainOne
  <1>3. \A x \in Foreign : retained'[x] # Absent
    BY <1>1, <1>2 DEF ResetHolds, Topics
  <1>4. reset.pc # "idle" => map \in reset.maps
    BY <1>1 DEF ResetHolds
  <1>5. ASSUME reset.pc \in {"clear", "done"}, NEW x \in Ours \ reset.topics,
               reset.full \/ x \in reset.mapped, retained'[x] # Absent
        PROVE  \E v \in reset.maps : retained'[x].name = NameOf(v, x)
    <2>1. CASE x = c
      BY <1>2, <1>4, <1>5, <2>1
    <2>2. CASE x # c
      <3>1. retained'[x] = retained[x]
        BY <1>2, <1>5, <2>2 DEF Topics
      <3> QED BY <1>1, <1>5, <3>1 DEF ResetHolds
    <2> QED BY <2>1, <2>2
  <1> QED BY <1>1, <1>3, <1>4, <1>5 DEF ResetHolds

-----------------------------------------------------------------------------
(* A session of the bridge *)

LEMMA StartHolds ==
    ASSUME DiscoveryInv, Start
    PROVE  DiscoveryInv'
  <1> USE DEF DiscoveryInv
  <1>1. TypeOK'
    BY DEF Start, TypeOK, Mapped, home
  <1>2. SessionHolds'
    <2>1. /\ can = <<>> /\ birth = {} /\ states = {} /\ \A p \in Pairs : discovered[p] = Absent
          /\ UNCHANGED <<can, birth, states, discovered, retained>>
          /\ phase' = "startup" /\ map' = version /\ todo' = Mapped(version)
      BY DEF Start, SessionHolds
    <2> QED BY <2>1 DEF SessionHolds, Awaiting
  <1>3. ResetHolds'
    <2>1. /\ reset'.pc = reset.pc /\ reset'.mapped = reset.mapped
          /\ reset'.topics = reset.topics /\ reset'.full = reset.full
          /\ map' = version /\ retained' = retained
          /\ reset.pc # "idle" => reset'.maps = reset.maps \cup {version}
      BY DEF Start, TypeOK
    <2> QED BY <2>1 DEF ResetHolds
  <1> QED BY <1>1, <1>2, <1>3

LEMMA ConfigureHolds ==
    ASSUME DiscoveryInv, NEW f \in Fixtures, Configure(f)
    PROVE  DiscoveryInv'
  <1> DEFINE config == FixtureConfig(map, f)
  <1>0. TypeOK /\ SessionHolds /\ f \in Ours /\ f \in Topics
    BY DEF DiscoveryInv, Ours, Topics
  <1>1. config \in Configs /\ config.name = NameOf(map, f)
    BY <1>0, FixtureConfigType DEF TypeOK
  <1>2. /\ phase = "startup" /\ Retain(f, config) /\ todo' = todo \ {f}
        /\ UNCHANGED <<version, phase, map, discovered, can, birth, states, heard, intact,
                       home, reset, left>>
    BY DEF Configure
  <1> HIDE DEF config
  <1>3. /\ retained' \in [Topics -> Configs] /\ inbox' \subseteq Ours
        /\ retained'[f] = config
        /\ \A x \in Topics : x # f => retained'[x] = retained[x]
    BY <1>0, <1>1, <1>2, RetainOne
  <1>4. TypeOK'
    BY <1>0, <1>2, <1>3 DEF TypeOK, home
  <1>5. \A p \in Pairs : discovered[p] = Absent
    BY <1>0, <1>2 DEF SessionHolds
  <1>6. SessionHolds'
    <2>1. intact => \A g \in Mapped(map) \ todo' : retained'[g] = FixtureConfig(map, g)
      BY <1>0, <1>2, <1>3 DEF SessionHolds, Mapped, Topics, Ours, config
    <2> QED BY <1>0, <1>2, <1>5, <2>1 DEF SessionHolds, Awaiting, Awaits, ToRepeat
  <1>7. ResetHolds'
    BY <1>0, <1>1, <1>2, PublishKeepsReset
  <1> QED BY <1>4, <1>6, <1>7 DEF DiscoveryInv

LEMMA StartPumpsHolds ==
    ASSUME DiscoveryInv, StartPumps
    PROVE  DiscoveryInv'
  <1> USE DEF DiscoveryInv, StartPumps, session, home
  <1>1. TypeOK'
    BY DEF TypeOK
  <1>2. SessionHolds'
    BY DEF SessionHolds, Awaiting, Awaits, ToRepeat
  <1>3. ResetHolds'
    BY DEF ResetHolds
  <1> QED BY <1>1, <1>2, <1>3

LEMMA EndHolds ==
    ASSUME DiscoveryInv, End
    PROVE  DiscoveryInv'
  <1> USE DEF DiscoveryInv, End, home
  <1>1. TypeOK'
    <2>1. left' \in [ends : 0..MaxEnds, resets : 0..MaxResets, births : 0..MaxBirths]
      BY SMTT(30), BoundsAssumption DEF TypeOK
    <2>2. discovered' \in [Pairs -> Configs] /\ can' \in Seq(Pairs \X Steps)
      BY AbsentType
    <2> QED BY <2>1, <2>2 DEF TypeOK
  <1>2. SessionHolds'
    <2>1. /\ phase' = "down" /\ todo' = {} /\ can' = <<>> /\ birth' = {} /\ states' = {}
          /\ \A p \in Pairs : discovered'[p] = Absent
      OBVIOUS
    <2> QED BY <2>1 DEF SessionHolds, Awaiting
  <1>3. ResetHolds'
    BY DEF ResetHolds
  <1> QED BY <1>1, <1>2, <1>3

\* A frame makes a pair known and awaits its config before its state.
LEMMA HandleFrameHolds ==
    ASSUME DiscoveryInv, NEW p \in Pairs, NEW fields \in Layouts, HandleFrame(p, fields)
    PROVE  DiscoveryInv'
  <1>0. TypeOK /\ SessionHolds /\ ResetHolds
    BY DEF DiscoveryInv
  <1>1. /\ phase = "pumps" /\ can = <<>> /\ can' = Publishes(p, IsNew(p, fields))
        /\ UNCHANGED <<version, phase, map, todo, birth, states, heard, intact, retained,
                       home, inbox, reset, left>>
    BY DEF HandleFrame
  <1>2. \A q \in Pairs : Publishes(q, TRUE) # <<>> /\ Publishes(q, FALSE) # <<>>
    BY PublishesOf
  <1>3. ResetHolds'
    BY <1>0, <1>1 DEF ResetHolds
  <1>4. \A q \in Pairs : ~Awaits(q)
    BY <1>1, <1>2 DEF Awaits
  <1>5. CASE IsNew(p, fields)
    <2> DEFINE config == PairConfig(map, p, fields)
    <2>1. fields # {} /\ discovered[p] = Absent
      BY <1>5 DEF IsNew
    <2>2. config \in Configs /\ config.name = NameOf(map, p) /\ config # Absent
      BY <1>0, <2>1, PairConfigType DEF TypeOK
    <2>3. discovered' = [discovered EXCEPT ![p] = config] /\ can' = Publishes(p, TRUE)
      BY <1>1, <1>5 DEF HandleFrame
    <2> HIDE DEF config
    <2>4. /\ discovered' \in [Pairs -> Configs] /\ discovered'[p] = config
          /\ \A q \in Pairs \ {p} : discovered'[q] = discovered[q]
      BY <1>0, <2>2, <2>3 DEF TypeOK
    <2>5. can' \in Seq(Pairs \X Steps)
      BY <2>3, PublishesOf
    <2>6. TypeOK'
      BY <1>0, <1>1, <2>4, <2>5 DEF TypeOK, home
    <2>7. \A q \in Pairs : Awaits(q)' <=> q = p
      <3>1. ASSUME NEW q \in Pairs, Awaits(q)' PROVE q = p
        <4>1. Publishes(q, TRUE) = Publishes(p, TRUE)
          BY <2>3, <3>1 DEF Awaits
        <4>2. <<q, "config">> = <<p, "config">>
          BY <4>1, PublishesOf
        <4> QED BY <4>2
      <3>2. Awaits(p)'
        BY <2>2, <2>3, <2>4 DEF Awaits
      <3> QED BY <3>1, <3>2
    <2>8. p \notin states
      BY <1>0, <2>1 DEF SessionHolds
    <2>9. Awaiting' /\ birth' \subseteq ToRepeat'
      BY <1>0, <1>1, <2>1, <2>4, <2>7 DEF SessionHolds, Awaiting, ToRepeat
    <2>10. \A q \in states' : discovered'[q] # Absent /\ ~Awaits(q)'
      BY <1>0, <1>1, <2>4, <2>7, <2>8 DEF SessionHolds, TypeOK
    <2>11. intact' => \A q \in Pairs : discovered'[q] # Absent /\ ~Awaits(q)' =>
                         retained'[q] = discovered'[q]
      BY <1>0, <1>1, <1>4, <2>4, <2>7 DEF SessionHolds
    <2>12. \A q \in Pairs : discovered'[q] # Absent => discovered'[q].name = NameOf(map, q)
      BY <1>0, <2>2, <2>4 DEF SessionHolds
    <2>13. SessionHolds'
      BY <1>0, <1>1, <2>9, <2>10, <2>11, <2>12 DEF SessionHolds
    <2> QED BY <1>3, <2>6, <2>13 DEF DiscoveryInv
  <1>6. CASE ~IsNew(p, fields)
    <2>1. discovered' = discovered /\ can' = Publishes(p, FALSE)
      BY <1>1, <1>6 DEF HandleFrame, IsNew
    <2>2. TypeOK'
      BY <1>0, <1>1, <2>1, PublishesOf DEF TypeOK, home
    <2>3. \A q \in Pairs : ~Awaits(q)'
      <3>1. ASSUME NEW q \in Pairs, Publishes(q, TRUE) = Publishes(p, FALSE) PROVE FALSE
        <4>1. <<q, "config">> = <<p, "state">>
          BY <3>1, PublishesOf
        <4> QED BY <4>1
      <3> QED BY <2>1, <3>1 DEF Awaits
    <2>4. Awaiting'
      BY <2>1 DEF Awaiting
    <2>5. SessionHolds'
      BY <1>0, <1>1, <1>4, <2>1, <2>3, <2>4 DEF SessionHolds, ToRepeat, TypeOK
    <2> QED BY <1>3, <2>2, <2>5 DEF DiscoveryInv
  <1> QED BY <1>5, <1>6

\* The broker keeps a pair's config when its first state is published.
LEMMA PublishNextHolds ==
    ASSUME DiscoveryInv, PublishNext
    PROVE  DiscoveryInv'
  <1>0. TypeOK /\ SessionHolds /\ ResetHolds
    BY DEF DiscoveryInv
  <1>1. /\ can # <<>> /\ can' = Tail(can)
        /\ UNCHANGED <<version, phase, map, todo, discovered, birth, heard, intact, home,
                       reset, left>>
    BY DEF PublishNext
  <1>2. phase = "pumps" /\ todo = {}
    BY <1>0, <1>1 DEF SessionHolds
  <1>3. can' \in Seq(Pairs \X Steps)
    BY <1>0, <1>1 DEF TypeOK
  <1>4. ASSUME NEW p \in Pairs, Awaits(p) PROVE DiscoveryInv'
    <2>1. /\ can = Publishes(p, TRUE) /\ discovered[p] # Absent
          /\ Head(can) = <<p, "config">> /\ can' = Publishes(p, FALSE)
      BY <1>1, <1>4, PublishesOf DEF Awaits
    <2>2. Retain(p, discovered[p]) /\ states' = states
      <3>1. \A step : step = <<p, "config">> => step[1] = p /\ step[2] = "config"
        OBVIOUS
      <3>2. Head(can)[1] = p /\ Head(can)[2] = "config"
        BY <2>1, <3>1
      <3> QED BY <3>2 DEF PublishNext
    <2>3. discovered[p] \in Configs /\ discovered[p].name = NameOf(map, p)
      BY <1>0, <2>1 DEF TypeOK, SessionHolds
    <2>4. p \in Ours /\ p \in Topics
      BY DEF Topics, Ours
    <2>5. ResetHolds'
      BY <1>1, <1>2, <2>2, <2>3, <2>4, PublishKeepsReset
    <2>6. /\ retained' \in [Topics -> Configs] /\ inbox' \subseteq Ours
          /\ retained'[p] = discovered[p]
          /\ \A x \in Topics : x # p => retained'[x] = retained[x]
      BY <1>0, <2>2, <2>3, <2>4, RetainOne
    <2>7. TypeOK'
      BY <1>0, <1>1, <1>3, <2>2, <2>6 DEF TypeOK, home
    <2>8. \A q \in Pairs : Awaits(q) => q = p
      <3>1. ASSUME NEW q \in Pairs, Publishes(q, TRUE) = Publishes(p, TRUE) PROVE q = p
        <4>1. <<q, "config">> = <<p, "config">>
          BY <3>1, PublishesOf
        <4> QED BY <4>1
      <3> QED BY <2>1, <3>1 DEF Awaits
    <2>9. \A q \in Pairs : ~Awaits(q)'
      <3>1. ASSUME NEW q \in Pairs, Publishes(q, TRUE) = Publishes(p, FALSE) PROVE FALSE
        <4>1. <<q, "config">> = <<p, "state">>
          BY <3>1, PublishesOf
        <4> QED BY <4>1
      <3> QED BY <2>1, <3>1 DEF Awaits
    <2>10. Awaiting'
      BY <2>1 DEF Awaiting
    <2>11. intact => \A f \in Mapped(map) : retained'[f] = FixtureConfig(map, f)
      BY <1>0, <1>2, <2>6, TopicsAssumption DEF SessionHolds, Mapped, Topics, Ours
    <2>12. intact => \A q \in Pairs : discovered[q] # Absent => retained'[q] = discovered[q]
      BY <1>0, <2>6, <2>8 DEF SessionHolds, Topics, Ours
    <2>13. SessionHolds'
      BY <1>0, <1>1, <1>2, <2>2, <2>9, <2>10, <2>11, <2>12
      DEF SessionHolds, ToRepeat, TypeOK
    <2> QED BY <2>5, <2>7, <2>13 DEF DiscoveryInv
  <1>5. ASSUME NEW p \in Pairs, can = Publishes(p, FALSE) PROVE DiscoveryInv'
    <2>1. Head(can) = <<p, "state">> /\ can' = <<>>
      BY <1>1, <1>5, PublishesOf
    <2>2. /\ states' = IF discovered[p] = Absent THEN states ELSE states \cup {p}
          /\ UNCHANGED <<retained, inbox>>
      BY <2>1 DEF PublishNext
    <2>3. TypeOK'
      BY <1>0, <1>1, <1>3, <2>2 DEF TypeOK, home
    <2>4. \A q \in Pairs : ~Awaits(q) /\ ~Awaits(q)'
      <3>1. ASSUME NEW q \in Pairs, Publishes(q, TRUE) = Publishes(p, FALSE) PROVE FALSE
        <4>1. <<q, "config">> = <<p, "state">>
          BY <3>1, PublishesOf
        <4> QED BY <4>1
      <3> QED BY <1>5, <2>1, <3>1, PublishesOf DEF Awaits
    <2>5. \A q \in states' : discovered'[q] # Absent
      BY <1>0, <1>1, <2>2 DEF SessionHolds
    <2>6. SessionHolds'
      BY <1>0, <1>1, <1>2, <2>1, <2>2, <2>4, <2>5, <2>3
      DEF SessionHolds, ToRepeat, Awaiting, TypeOK
    <2>7. ResetHolds'
      BY <1>0, <1>1, <2>2 DEF ResetHolds
    <2> QED BY <2>3, <2>6, <2>7 DEF DiscoveryInv
  <1> QED BY <1>0, <1>1, <1>4, <1>5 DEF SessionHolds, Awaiting

LEMMA HandleBirthHolds ==
    ASSUME DiscoveryInv, HandleBirth
    PROVE  DiscoveryInv'
  <1> USE DEF DiscoveryInv, HandleBirth, home
  <1>1. TypeOK'
    BY DEF TypeOK, ToRepeat, Mapped, Ours
  <1>2. SessionHolds'
    BY DEF SessionHolds, Awaiting, Awaits, ToRepeat
  <1>3. ResetHolds'
    BY DEF ResetHolds
  <1> QED BY <1>1, <1>2, <1>3

LEMMA RepublishHolds ==
    ASSUME DiscoveryInv, NEW c \in Ours, Republish(c)
    PROVE  DiscoveryInv'
  <1>0. TypeOK /\ SessionHolds /\ ResetHolds /\ c \in Topics
    BY DEF DiscoveryInv, Topics
  <1>1. /\ c \in birth /\ Retain(c, ConfigOf(c)) /\ birth' = birth \ {c}
        /\ UNCHANGED <<version, phase, map, todo, discovered, can, states, heard, intact,
                       home, reset, left>>
    BY DEF Republish
  <1>2. phase = "pumps" /\ todo = {} /\ c \in ToRepeat
    BY <1>0, <1>1 DEF SessionHolds
  <1>3. /\ ConfigOf(c) \in Configs /\ ConfigOf(c).name = NameOf(map, c)
        /\ c \in Fixtures => ConfigOf(c) = FixtureConfig(map, c)
        /\ c \notin Fixtures => ConfigOf(c) = discovered[c]
    BY <1>0, <1>2, ConfigOfType
  <1>4. ResetHolds'
    BY <1>1, <1>2, <1>3, PublishKeepsReset
  <1>5. /\ retained' \in [Topics -> Configs] /\ inbox' \subseteq Ours
        /\ retained'[c] = ConfigOf(c)
        /\ \A x \in Topics : x # c => retained'[x] = retained[x]
    BY <1>0, <1>1, <1>3, RetainOne
  <1>6. TypeOK'
    BY <1>0, <1>1, <1>5 DEF TypeOK, home
  <1>7. intact => \A f \in Mapped(map) : retained'[f] = FixtureConfig(map, f)
    BY <1>0, <1>2, <1>3, <1>5 DEF SessionHolds, Mapped, Topics, Ours
  <1>8. intact => \A p \in Pairs : discovered[p] # Absent /\ ~Awaits(p) =>
                     retained'[p] = discovered[p]
    BY <1>0, <1>3, <1>5, TopicsAssumption DEF SessionHolds, Topics, Ours
  <1>9. SessionHolds'
    BY <1>0, <1>1, <1>2, <1>7, <1>8 DEF SessionHolds, Awaiting, Awaits, ToRepeat
  <1> QED BY <1>4, <1>6, <1>9 DEF DiscoveryInv

-----------------------------------------------------------------------------
(* Home Assistant, the operator and the reset *)

\* What leaves the session and the broker alone keeps what relates them.
LEMMA SessionAlone ==
    ASSUME SessionHolds, UNCHANGED <<phase, session, intact, retained>>
    PROVE  SessionHolds'
  BY DEF SessionHolds, Awaiting, Awaits, ToRepeat, session

LEMMA HomeHolds ==
    ASSUME DiscoveryInv, HaStart \/ HaStop \/ Remap \/ \E c \in Ours : HaHandle(c)
    PROVE  DiscoveryInv'
  <1>1. TypeOK /\ UNCHANGED <<phase, session, intact, retained, reset>>
    BY DEF DiscoveryInv, HaStart, HaStop, HaHandle, Remap
  <1>2. SessionHolds'
    BY <1>1, SessionAlone DEF DiscoveryInv
  <1>3. ResetHolds'
    BY <1>1 DEF DiscoveryInv, ResetHolds, session
  <1>4. ASSUME HaStart PROVE TypeOK'
    BY <1>1, <1>4 DEF HaStart, TypeOK, session, home
  <1>5. ASSUME HaStop PROVE TypeOK'
    <2>1. left' \in [ends : 0..MaxEnds, resets : 0..MaxResets, births : 0..MaxBirths]
      BY SMTT(30), <1>1, <1>5, BoundsAssumption DEF HaStop, TypeOK
    <2> QED BY <1>1, <1>5, <2>1 DEF HaStop, TypeOK, session
  <1>6. ASSUME Remap PROVE TypeOK'
    <2>1. version' \in Versions
      BY <1>1, <1>6, MapsAssumption DEF Remap, TypeOK, Versions
    <2> QED BY <1>1, <1>6, <2>1 DEF Remap, TypeOK, session, home
  <1>7. ASSUME NEW c \in Ours, HaHandle(c) PROVE TypeOK'
    BY <1>1, <1>7 DEF HaHandle, TypeOK, session, Topics
  <1>8. TypeOK'
    BY <1>4, <1>5, <1>6, <1>7
  <1> QED BY <1>2, <1>3, <1>8 DEF DiscoveryInv

LEMMA ResetStartHolds ==
    ASSUME DiscoveryInv, ResetStart
    PROVE  DiscoveryInv'
  <1>1. TypeOK /\ UNCHANGED <<phase, session, intact, retained>>
    BY DEF DiscoveryInv, ResetStart
  <1>2. SessionHolds'
    BY <1>1, SessionAlone DEF DiscoveryInv
  <1>3. /\ reset'.pc = "collect" /\ reset'.mapped = reset'.topics
        /\ phase # "down" => map \in reset'.maps
    BY DEF ResetStart
  <1>4. ResetHolds'
    BY <1>1, <1>3 DEF DiscoveryInv, ResetHolds, session
  <1>5. TypeOK'
    <2>1. left' \in [ends : 0..MaxEnds, resets : 0..MaxResets, births : 0..MaxBirths]
      <3>1. left' = [left EXCEPT !.resets = @ - 1] /\ left.resets > 0
        BY DEF ResetStart
      <3> QED BY SMTT(30), <1>1, <3>1, BoundsAssumption DEF TypeOK
    <2> QED BY <1>1, <2>1 DEF ResetStart, TypeOK, Mapped, Ours, session, home
  <1> QED BY <1>2, <1>4, <1>5 DEF DiscoveryInv

\* A config that the window missed, or that the map does not name, is no matter
\* of this reset; any other is on its list when the window closes.
LEMMA WindowHolds ==
    ASSUME DiscoveryInv,
           CloseWindow \/ ResetEnd \/ ResetFails \/ \E c \in Topics : Collect(c)
    PROVE  DiscoveryInv'
  <1>1. TypeOK /\ UNCHANGED <<version, phase, session, heard, intact, retained, home, inbox, left>>
    BY DEF DiscoveryInv, CloseWindow, ResetEnd, ResetFails, Collect
  <1>2. SessionHolds'
    BY <1>1, SessionAlone DEF DiscoveryInv
  <1>3. ResetHolds
    BY DEF DiscoveryInv
  <1>4. CASE CloseWindow
    <2>1. /\ reset.pc = "collect" /\ reset'.pc = "clear"
          /\ reset'.mapped = reset.mapped /\ reset'.topics = reset.topics
          /\ reset'.maps = reset.maps
          /\ reset'.full = \A c \in Ours : retained[c] # Absent => c \in reset.topics
      BY <1>1, <1>4 DEF CloseWindow, TypeOK
    <2>2. ResetHolds'
      BY <1>1, <1>3, <2>1 DEF ResetHolds, session
    <2>3. reset'.full \in BOOLEAN
      BY <2>1
    <2>4. TypeOK'
      BY <1>1, <1>4, <2>3 DEF CloseWindow, TypeOK, session, home
    <2> QED BY <1>2, <2>2, <2>4 DEF DiscoveryInv
  <1>5. CASE ResetEnd
    <2>1. ResetHolds' /\ TypeOK'
      BY ZenonT(30), <1>1, <1>3, <1>5 DEF ResetEnd, ResetHolds, TypeOK, session, home
    <2> QED BY <1>2, <2>1 DEF DiscoveryInv
  <1>6. CASE ResetFails
    <2>1. ResetHolds' /\ TypeOK'
      BY <1>1, <1>3, <1>6 DEF ResetFails, Idle, ResetHolds, TypeOK, session, home
    <2> QED BY <1>2, <2>1 DEF DiscoveryInv
  <1>7. ASSUME NEW c \in Topics, Collect(c) PROVE DiscoveryInv'
    <2>1. ResetHolds' /\ TypeOK'
      BY <1>1, <1>3, <1>7 DEF Collect, HasPrefix, ResetHolds, TypeOK, session, home
    <2> QED BY <1>2, <2>1 DEF DiscoveryInv
  <1> QED BY <1>4, <1>5, <1>6, <1>7

LEMMA ClearHolds ==
    ASSUME DiscoveryInv, NEW c \in Topics, Clear(c)
    PROVE  DiscoveryInv'
  <1>0. TypeOK /\ SessionHolds /\ ResetHolds
    BY DEF DiscoveryInv
  <1>1. /\ reset.pc = "clear" /\ c \in reset.topics /\ Retain(c, Absent) /\ intact' = FALSE
        /\ reset' = [reset EXCEPT !.topics = @ \ {c}]
        /\ UNCHANGED <<version, phase, session, heard, home, left>>
    BY DEF Clear
  <1>2. c \in Ours /\ c \notin Foreign
    BY <1>0, <1>1, TopicsAssumption DEF TypeOK, Ours
  <1>3. /\ retained' \in [Topics -> Configs] /\ inbox' \subseteq Ours
        /\ retained'[c] = Absent
        /\ \A x \in Topics : x # c => retained'[x] = retained[x]
    BY <1>0, <1>1, AbsentType, RetainOne
  <1>4. /\ reset'.pc = reset.pc /\ reset'.mapped = reset.mapped /\ reset'.maps = reset.maps
        /\ reset'.full = reset.full /\ reset'.topics = reset.topics \ {c}
    BY <1>0, <1>1 DEF TypeOK
  <1>5. TypeOK'
    BY <1>0, <1>1, <1>3 DEF TypeOK, session, home
  <1>6. SessionHolds'
    BY <1>0, <1>1 DEF SessionHolds, Awaiting, Awaits, ToRepeat, session
  <1>7. \A x \in Foreign : retained'[x] # Absent
    BY <1>0, <1>2, <1>3 DEF ResetHolds, Topics
  <1>8. ASSUME NEW x \in Ours \ reset'.topics, reset.full \/ x \in reset.mapped,
               retained'[x] # Absent
        PROVE  \E v \in reset.maps : retained'[x].name = NameOf(v, x)
    <2>1. x # c /\ x \in Topics
      BY <1>3, <1>8 DEF Topics
    <2> QED BY <1>0, <1>1, <1>3, <1>4, <1>8, <2>1 DEF ResetHolds
  <1>9. ResetHolds'
    BY <1>0, <1>1, <1>4, <1>7, <1>8 DEF ResetHolds, session
  <1> QED BY <1>5, <1>6, <1>9 DEF DiscoveryInv

-----------------------------------------------------------------------------

LEMMA StepHolds == DiscoveryInv /\ [Next]_vars => DiscoveryInv'
  <1> SUFFICES ASSUME DiscoveryInv, [Next]_vars PROVE DiscoveryInv'
    OBVIOUS
  <1>1. CASE UNCHANGED vars
    <2>1. TypeOK'
      BY <1>1 DEF DiscoveryInv, TypeOK, vars, session, home
    <2>2. SessionHolds'
      BY <1>1, SessionAlone DEF DiscoveryInv, vars
    <2>3. ResetHolds'
      BY <1>1 DEF DiscoveryInv, ResetHolds, vars, session
    <2> QED BY <2>1, <2>2, <2>3 DEF DiscoveryInv
  <1> QED
    BY <1>1, StartHolds, ConfigureHolds, StartPumpsHolds, EndHolds, HandleFrameHolds,
       PublishNextHolds, HandleBirthHolds, RepublishHolds, HomeHolds, ResetStartHolds,
       WindowHolds, ClearHolds
    DEF Next, Session, PumpMqtt, Deliver, Reset

\* Sessions, births, resets and restarts of both ends interleave in any order: a
\* session's own state goes on saying what the broker keeps, and a reset's list
\* what is left of the rest.
THEOREM DiscoveryCorrect == Spec => []DiscoveryInv
  BY InitHolds, StepHolds, PTL DEF Spec

\* While a session pumps and no reset has cleared a config, the broker keeps this
\* session's config of each mapped fixture, and that of a pair before its states.
THEOREM ConfigsStood == Spec => []ConfigsStand
  <1>1. DiscoveryInv => ConfigsStand
    <2> SUFFICES ASSUME DiscoveryInv, phase = "pumps", intact PROVE ConfigsStand
      BY DEF ConfigsStand
    <2>1. todo = {} /\ states \subseteq Pairs
      BY DEF DiscoveryInv, SessionHolds, TypeOK
    <2> QED BY <2>1 DEF ConfigsStand, DiscoveryInv, SessionHolds
  <1> QED BY <1>1, DiscoveryCorrect, PTL

\* A reset leaves other devices alone, and what is there of the coach when it has
\* ended was put there beside it or since, under a name of the session's own map.
THEOREM ResetWasExact == Spec => []ResetIsExact
  <1>1. DiscoveryInv => ResetIsExact
    BY DEF DiscoveryInv, ResetHolds, ResetIsExact
  <1> QED BY <1>1, DiscoveryCorrect, PTL

=============================================================================
