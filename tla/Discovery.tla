------------------------------ MODULE Discovery ------------------------------
(***************************************************************************)
(* The retained discovery configs of one coach, which Home Assistant turns *)
(* into devices: a bridge session publishes those of the mapped fixtures   *)
(* when it starts, those of a (DGN, instance) pair with its first frame,   *)
(* and all of them again when Home Assistant announces its birth, while    *)
(* `astro-rvc-bridge --reset-discovery`, a process of its own, may clear   *)
(* them.  Both pumps of a session, the reset, the broker's deliveries and  *)
(* restarts interleave at each publish.  A topic stands for its device.    *)
(***************************************************************************)
EXTENDS Naturals, Sequences, FiniteSets

CONSTANTS
    Fixtures,   \* lights and colour fixtures that some map names
    Pairs,      \* (DGN, instance) pairs of telemetry
    Foreign,    \* configs of other integrations and other coaches
    Names,      \* device names
    DefaultName, \* the name of what the map does not name
    Layouts,    \* what a frame may carry besides its instance: sets of fields
    Maps,       \* the versions of the coach's instance map, one after another
    MaxEnds,    \* bound: ends of sessions
    MaxResets,  \* bound: runs of the reset
    MaxBirths   \* bound: starts of Home Assistant

Versions == 1..Len(Maps)

\* A map names some fixtures and some pairs (zones and appliances).
ASSUME MapsAssumption ==
    /\ Len(Maps) \in Nat \ {0}
    /\ \A v \in Versions :
          /\ DOMAIN Maps[v] \subseteq Fixtures \cup Pairs
          /\ \A x \in DOMAIN Maps[v] : Maps[v][x] \in Names
ASSUME TopicsAssumption ==
    /\ Fixtures \cap Pairs = {} /\ Fixtures \cap Foreign = {} /\ Pairs \cap Foreign = {}
    /\ DefaultName \in Names
ASSUME BoundsAssumption == MaxEnds \in Nat /\ MaxResets \in Nat /\ MaxBirths \in Nat

Ours == Fixtures \cup Pairs
Topics == Ours \cup Foreign
Configs == [name : Names, parts : Layouts \cup {{}, {"light"}}]
Absent == [name |-> DefaultName, parts |-> {}]

VARIABLES
    version,    \* of the instance map on disk
    phase,      \* "down", "startup" or "pumps"
    map,        \* the version this session, or the last one, has read
    todo,       \* fixtures whose config startup has still to publish
    discovered, \* _discovered of the session
    can,        \* publishes _pump_can has still to await
    heard,      \* birth messages _pump_mqtt has still to take
    birth,      \* configs it has still to publish again
    states,     \* discovered pairs whose state this session has published since
    intact,     \* no config was cleared since the session started
    retained,   \* configs the broker keeps
    ha,         \* devices of Home Assistant for this coach
    haUp,
    inbox,      \* topics whose message Home Assistant has still to handle
    reset,      \* the reset process
    left        \* what the bounds still allow

session == <<map, todo, discovered, can, birth, states>>
home == <<ha, haUp>>
vars == <<version, phase, session, heard, intact, retained, home, inbox, reset, left>>

Steps == {"config", "state"}
Idle == [pc |-> "idle", mapped |-> {}, topics |-> {}, maps |-> {}, full |-> FALSE]

TypeOK ==
    /\ version \in Versions /\ map \in Versions
    /\ phase \in {"down", "startup", "pumps"}
    /\ todo \subseteq Fixtures
    /\ discovered \in [Pairs -> Configs]
    /\ can \in Seq(Pairs \X Steps)
    /\ heard \in Nat
    /\ birth \subseteq Ours
    /\ states \subseteq Pairs
    /\ intact \in BOOLEAN
    /\ retained \in [Topics -> Configs] /\ ha \in [Ours -> Configs]
    /\ haUp \in BOOLEAN
    /\ inbox \subseteq Ours
    /\ reset \in [pc : {"idle", "collect", "clear", "done"}, mapped : SUBSET Fixtures,
                  topics : SUBSET Ours, maps : SUBSET Versions, full : BOOLEAN]
    /\ left \in [ends : 0..MaxEnds, resets : 0..MaxResets, births : 0..MaxBirths]

-----------------------------------------------------------------------------
(* The configs *)

NameOf(v, x) == IF x \in DOMAIN Maps[v] THEN Maps[v][x] ELSE DefaultName
Mapped(v) == Fixtures \cap DOMAIN Maps[v]

FixtureConfig(v, f) == [name |-> NameOf(v, f), parts |-> {"light"}]

\* A component for each field of this very frame; without any, no config.
PairConfig(v, p, fields) == [name |-> NameOf(v, p), parts |-> fields]

ConfigOf(c) == IF c \in Fixtures THEN FixtureConfig(map, c) ELSE discovered[c]

\* The broker keeps the config, and passes it on to a subscriber that is there.
Retain(c, config) ==
    /\ retained' = [retained EXCEPT ![c] = config]
    /\ inbox' = IF haUp THEN inbox \cup ({c} \cap Ours) ELSE inbox

Init ==
    /\ version = 1 /\ map = 1 /\ phase = "down"
    /\ todo = {} /\ discovered = [p \in Pairs |-> Absent] /\ can = <<>>
    /\ heard = 0 /\ birth = {} /\ states = {} /\ intact = TRUE
    /\ retained = [c \in Topics |-> IF c \in Foreign
                                    THEN [name |-> DefaultName, parts |-> {"light"}]
                                    ELSE Absent]
    /\ ha = [c \in Ours |-> Absent]
    /\ haUp = TRUE /\ inbox = {}
    /\ reset = Idle
    /\ left = [ends |-> MaxEnds, resets |-> MaxResets, births |-> MaxBirths]

-----------------------------------------------------------------------------
(* A session of the bridge *)

\* The process reads the map, connects, announces itself and subscribes.
Start ==
    /\ phase = "down"
    /\ phase' = "startup"
    /\ map' = version
    /\ todo' = Mapped(version)
    /\ intact' = TRUE
    /\ reset' = [reset EXCEPT !.maps = IF reset.pc = "idle" THEN {} ELSE @ \cup {version}]
    /\ UNCHANGED <<version, discovered, can, birth, states, heard, retained, home,
                   inbox, left>>

Configure(f) ==
    /\ phase = "startup"
    /\ f \in todo
    /\ Retain(f, FixtureConfig(map, f))
    /\ todo' = todo \ {f}
    /\ UNCHANGED <<version, phase, map, discovered, can, birth, states, heard, intact,
                   home, reset, left>>

StartPumps ==
    /\ phase = "startup"
    /\ todo = {}
    /\ phase' = "pumps"
    /\ UNCHANGED <<version, session, heard, intact, retained, home, inbox, reset, left>>

End ==
    /\ phase # "down"
    /\ left.ends > 0
    /\ left' = [left EXCEPT !.ends = @ - 1]
    /\ phase' = "down"
    /\ todo' = {} /\ discovered' = [p \in Pairs |-> Absent] /\ can' = <<>>
    /\ birth' = {} /\ states' = {} /\ heard' = 0
    /\ UNCHANGED <<version, map, intact, retained, home, inbox, reset>>

\* Mistake: every config that differs from the one retained is worth publishing.
IsNewer(p, fields) == fields # {} /\ discovered[p] # PairConfig(map, p, fields)
IsNew(p, fields) == fields # {} /\ discovered[p] = Absent

\* Mistake: the value first.
StateFirst(p, isNew) == IF isNew THEN <<<<p, "state">>, <<p, "config">>>> ELSE <<<<p, "state">>>>
Publishes(p, isNew) == IF isNew THEN <<<<p, "config">>, <<p, "state">>>> ELSE <<<<p, "state">>>>

\* A telemetry frame that carries these fields: _discover, then the publishes.
HandleFrame(p, fields) ==
    /\ phase = "pumps"
    /\ can = <<>>
    /\ can' = Publishes(p, IsNew(p, fields))
    /\ discovered' = IF IsNew(p, fields)
                     THEN [discovered EXCEPT ![p] = PairConfig(map, p, fields)]
                     ELSE discovered
    /\ UNCHANGED <<version, phase, map, todo, birth, states, heard, intact, retained,
                   home, inbox, reset, left>>

PublishNext ==
    /\ can # <<>>
    /\ can' = Tail(can)
    /\ LET p == Head(can)[1]
       IN  IF Head(can)[2] = "config"
           THEN Retain(p, discovered[p]) /\ UNCHANGED states
           ELSE /\ states' = IF discovered[p] = Absent THEN states ELSE states \cup {p}
                /\ UNCHANGED <<retained, inbox>>
    /\ UNCHANGED <<version, phase, map, todo, discovered, birth, heard, intact, home,
                   reset, left>>

\* Mistake: the fixtures alone, as at startup.
FixturesOnly == Mapped(map)
ToRepeat == Mapped(map) \cup {p \in Pairs : discovered[p] # Absent}

\* _pump_mqtt takes the birth message: the configs there are at this moment.
HandleBirth ==
    /\ phase = "pumps"
    /\ heard > 0 /\ birth = {}
    /\ heard' = heard - 1
    /\ birth' = ToRepeat
    /\ UNCHANGED <<version, phase, map, todo, discovered, can, states, intact, retained,
                   home, inbox, reset, left>>

Republish(c) ==
    /\ c \in birth
    /\ c \in Pairs => birth \cap Fixtures = {}
    /\ Retain(c, ConfigOf(c))
    /\ birth' = birth \ {c}
    /\ UNCHANGED <<version, phase, map, todo, discovered, can, states, heard, intact,
                   home, reset, left>>

-----------------------------------------------------------------------------
(* Home Assistant, the operator *)

\* It subscribes, is sent what is retained, and announces its birth, which a
\* session that has subscribed will take from its queue.
HaStart ==
    /\ ~haUp
    /\ haUp' = TRUE
    /\ inbox' = {c \in Ours : retained[c] # Absent}
    /\ heard' = IF phase = "down" THEN 0 ELSE heard + 1
    /\ UNCHANGED <<version, phase, session, intact, retained, ha, reset, left>>

HaStop ==
    /\ haUp /\ left.births > 0
    /\ left' = [left EXCEPT !.births = @ - 1]
    /\ haUp' = FALSE /\ inbox' = {}
    /\ UNCHANGED <<version, phase, session, heard, intact, retained, ha, reset>>

\* It handles the last message of the topic; an empty one removes the device.
HaHandle(c) ==
    /\ haUp /\ c \in inbox
    /\ ha' = [ha EXCEPT ![c] = retained[c]]
    /\ inbox' = inbox \ {c}
    /\ UNCHANGED <<version, phase, session, heard, intact, retained, haUp, reset, left>>

Remap ==
    /\ version < Len(Maps)
    /\ version' = version + 1
    /\ UNCHANGED <<phase, session, heard, intact, retained, home, inbox, reset, left>>

-----------------------------------------------------------------------------
(* The reset *)

\* It knows the fixtures of the map and subscribes for the rest.
ResetStart ==
    /\ reset.pc \in {"idle", "done"}
    /\ left.resets > 0
    /\ left' = [left EXCEPT !.resets = @ - 1]
    /\ reset' = [pc |-> "collect", mapped |-> Mapped(version), topics |-> Mapped(version),
                 maps |-> IF phase = "down" THEN {} ELSE {map}, full |-> FALSE]
    /\ UNCHANGED <<version, phase, session, heard, intact, retained, home, inbox>>

\* Mistake: every device is ours.
AnyTopic(c) == c \in Topics
HasPrefix(c) == c \in Ours

Collect(c) ==
    /\ reset.pc = "collect"
    /\ HasPrefix(c) /\ retained[c] # Absent
    /\ c \notin reset.topics
    /\ reset' = [reset EXCEPT !.topics = @ \cup {c}]
    /\ UNCHANGED <<version, phase, session, heard, intact, retained, home, inbox, left>>

\* The window ends, whether or not the broker has delivered everything: full.
CloseWindow ==
    /\ reset.pc = "collect"
    /\ reset' = [reset EXCEPT !.pc = "clear",
                              !.full = \A c \in Ours : retained[c] # Absent => c \in reset.topics]
    /\ UNCHANGED <<version, phase, session, heard, intact, retained, home, inbox, left>>

Clear(c) ==
    /\ reset.pc = "clear"
    /\ c \in reset.topics
    /\ Retain(c, Absent)
    /\ reset' = [reset EXCEPT !.topics = @ \ {c}]
    /\ intact' = FALSE
    /\ UNCHANGED <<version, phase, session, heard, home, left>>

ResetEnd ==
    /\ reset.pc = "clear"
    /\ reset.topics = {}
    /\ reset' = [reset EXCEPT !.pc = "done"]
    /\ UNCHANGED <<version, phase, session, heard, intact, retained, home, inbox, left>>

\* The connection is lost, or the operator interrupts it.
ResetFails ==
    /\ reset.pc \in {"collect", "clear"}
    /\ reset' = Idle
    /\ UNCHANGED <<version, phase, session, heard, intact, retained, home, inbox, left>>

-----------------------------------------------------------------------------

Session == Start \/ (\E f \in Fixtures : Configure(f)) \/ StartPumps
PumpMqtt == HandleBirth \/ \E c \in Ours : Republish(c)
Deliver == \E c \in Ours : HaHandle(c)
Reset == ResetStart \/ CloseWindow \/ ResetEnd \/ ResetFails
            \/ \E c \in Topics : Collect(c) \/ Clear(c)

Next ==
    \/ Session \/ PublishNext \/ PumpMqtt \/ Deliver \/ Reset
    \/ \E p \in Pairs, fields \in Layouts : HandleFrame(p, fields)
    \/ End \/ HaStart \/ HaStop \/ Remap

Spec == Init /\ [][Next]_vars
            /\ WF_vars(Session) /\ WF_vars(PublishNext) /\ WF_vars(PumpMqtt)
            /\ WF_vars(Deliver)

-----------------------------------------------------------------------------

\* Whatever births and earlier sessions have left, once a session pumps, the
\* broker keeps this session's config of each mapped fixture, and that of a pair
\* as it was first seen before any state of it, unless a reset has cleared some
\* (run, _discover, handle_ha_status).
ConfigsStand ==
    phase = "pumps" /\ intact =>
        /\ \A f \in Mapped(map) : retained[f] = FixtureConfig(map, f)
        /\ \A p \in states : retained[p] = discovered[p]

\* A reset leaves other devices alone, and when it has ended, a config of the
\* coach that its map names, or any if its window was long enough, is there only
\* because a session that ran beside it, or since, has published it under a name
\* of its own map (reset_discovery).
ResetIsExact ==
    /\ \A c \in Foreign : retained[c] # Absent
    /\ reset.pc = "done" =>
          \A c \in Ours :
             (reset.full \/ c \in reset.mapped) /\ retained[c] # Absent =>
                \E v \in reset.maps : retained[c].name = NameOf(v, c)

\* What a session has cannot reach Home Assistant as long as this is so.
Interrupted == phase = "down" \/ ~haUp

\* What a session has found out about.
Known(c) == c \in Mapped(map) \/ (c \in Pairs /\ discovered[c] # Absent)

\* Home Assistant comes to have a device for each fixture of the session and for
\* each pair it has shown, as the session configured them; and if a reset has
\* removed some beside the running session, Home Assistant's next birth brings
\* them back (startup_publishes, handle_ha_status).
DevicesAppear ==
    \A c \in Ours :
       /\ (intact /\ (c \in todo \/ c \in states) /\ ~Interrupted)
             ~> (ha[c] = ConfigOf(c) \/ ~intact \/ Interrupted)
       /\ (heard > 0 /\ Known(c) /\ ~Interrupted)
             ~> (ha[c] = ConfigOf(c) \/ reset.pc = "clear" \/ Interrupted)

-----------------------------------------------------------------------------
(* The inductive invariant behind the two *)

\* What _pump_can has still to await: nothing, or the publishes of one frame.
Awaits(p) == can = Publishes(p, TRUE) /\ discovered[p] # Absent

Awaiting == can = <<>> \/ \E p \in Pairs : Awaits(p) \/ can = Publishes(p, FALSE)

\* The session's own state says what the broker keeps: all that it has configured,
\* but for a fixture startup has not reached, and the pair _pump_can is awaiting.
SessionHolds ==
    /\ todo \subseteq Mapped(map)
    /\ phase # "startup" => todo = {}
    /\ phase # "pumps" => /\ can = <<>> /\ birth = {} /\ states = {}
                          /\ \A p \in Pairs : discovered[p] = Absent
    /\ Awaiting
    /\ birth \subseteq ToRepeat
    /\ \A p \in Pairs : discovered[p] # Absent => discovered[p].name = NameOf(map, p)
    /\ \A p \in states : discovered[p] # Absent /\ ~Awaits(p)
    /\ intact =>
          /\ phase # "down" =>
                \A f \in Mapped(map) \ todo : retained[f] = FixtureConfig(map, f)
          /\ \A p \in Pairs : discovered[p] # Absent /\ ~Awaits(p) =>
                retained[p] = discovered[p]

\* Of what the reset is to clear, what is left is still on its list, or has been
\* published since by a session whose map it knows.
ResetHolds ==
    /\ \A c \in Foreign : retained[c] # Absent
    /\ reset.pc # "idle" /\ phase # "down" => map \in reset.maps
    /\ reset.pc = "collect" => reset.mapped \subseteq reset.topics
    /\ reset.pc = "done" => reset.topics = {}
    /\ reset.pc \in {"clear", "done"} =>
          \A c \in Ours \ reset.topics :
             (reset.full \/ c \in reset.mapped) /\ retained[c] # Absent =>
                \E v \in reset.maps : retained[c].name = NameOf(v, c)

\* A session, the births it answers and a reset beside it leave each other's
\* configs as each expects them.
DiscoveryInv == TypeOK /\ SessionHolds /\ ResetHolds

=============================================================================
