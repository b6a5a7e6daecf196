-------------------------------- MODULE Bridge --------------------------------
(***************************************************************************)
(* RvcBridge.run: one light fixture's way from the coach's CAN bus to what *)
(* Home Assistant shows, and back, over sessions of the bridge process.    *)
(*                                                                         *)
(* A fixture has parts, each a DC_DIMMER_COMMAND_2 instance: a plain light *)
(* its switch, a colour fixture a switch and its channels.  The bus        *)
(* carries commands only, so the level of a part is what was last          *)
(* commanded.  The bridge reads the commands of others (reader), never its *)
(* own.  Two tasks share the MQTT client: _pump_can publishes a fixture's  *)
(* state and then its mark, awaiting each; _pump_mqtt sends commands.      *)
(*                                                                         *)
(* The broker keeps the retained topics; Home Assistant shows a fixture as *)
(* available when both its topics say "online" (availability_mode "all").  *)
(* Discovery configs, sensors and Home Assistant's birth message touch     *)
(* none of these topics and are left out.                                  *)
(***************************************************************************)
EXTENDS Integers, Sequences

CONSTANTS
    Lights,     \* InstanceMap.lights
    Colours,    \* InstanceMap.rgb_fixtures
    Channels,   \* the channels of a colour fixture
    MaxLevel,   \* levels are 0 (off) to MaxLevel
    NoLevel,    \* a desired_level of 0xFF, "no change"
    Modes,      \* values of BridgeSettings.listen_only that are deployed
    MaxReader,  \* bound: frames waiting in the reader
    MaxEnds     \* bound: times the process ends

Fixtures == Lights \cup Colours
Switch == "switch"
AllParts == {Switch} \cup Channels
Levels == 0..MaxLevel
Parts(f) == IF f \in Colours THEN AllParts ELSE {Switch}

ASSUME FixturesAssumption == Lights \cap Colours = {} /\ Switch \notin Channels
ASSUME LevelsAssumption == MaxLevel \in Nat /\ NoLevel \notin Levels
ASSUME ModesAssumption == Modes \subseteq BOOLEAN
ASSUME BoundsAssumption == MaxReader \in Nat /\ MaxEnds \in Nat

VARIABLES
    lamp,       \* the level each part was last commanded to, by anyone
    phase,      \* the bridge process
    listen,     \* its listen_only
    reader,     \* frames the bridge has received and not handled
    levels,     \* _rgb_state; a plain light's level passes through it
    can,        \* what _pump_can is publishing
    marks,      \* fixtures startup_publishes has still to mark unobserved
    status,     \* retained: rvc/bridge/status
    seen,       \* retained: rvc/seen/...
    state,      \* retained: rvc/state/...
    will,       \* a connection died and the broker holds its will
    ends,       \* how often the process has ended (bounded)
    fresh,      \* history: parts whose level this session has published
    ours        \* history: parts it has commanded since it last received a level of them

bus == <<lamp, reader>>
topics == <<status, seen, state>>
history == <<fresh, ours>>
vars == <<bus, phase, listen, levels, can, marks, topics, will, ends, history>>

Phases == {"down", "open", "starting", "running"}
LevelsOf == [AllParts -> Levels]
Dark == [p \in AllParts |-> 0]
Frame == [of : Fixtures, part : AllParts, level : Levels \cup {NoLevel}]
Waiting == [pc |-> "wait"]
Publishing == [pc : {"state", "seen"}, of : Fixtures, part : AllParts, value : LevelsOf]

TypeOK ==
    /\ lamp \in [Fixtures -> LevelsOf]
    /\ phase \in Phases
    /\ listen \in BOOLEAN
    /\ reader \in Seq(Frame)
    /\ levels \in [Fixtures -> LevelsOf]
    /\ can \in Publishing \cup {Waiting}
    /\ marks \subseteq Fixtures
    /\ status \in {"online", "offline"}
    /\ seen \in [Fixtures -> {"online", "offline"}]
    /\ state \in [Fixtures -> LevelsOf]
    /\ will \in BOOLEAN
    /\ ends \in 0..MaxEnds
    /\ fresh \subseteq Fixtures \X AllParts
    /\ ours \subseteq Fixtures \X AllParts

\* A topic that was never published reads as "offline": Home Assistant takes
\* an availability topic without a message as unavailable.
Init ==
    /\ lamp = [f \in Fixtures |-> Dark]
    /\ phase = "down"
    /\ listen = TRUE
    /\ reader = <<>>
    /\ levels = [f \in Fixtures |-> Dark]
    /\ can = Waiting
    /\ marks = {}
    /\ status = "offline"
    /\ seen = [f \in Fixtures |-> "offline"]
    /\ state = [f \in Fixtures |-> Dark]
    /\ will = FALSE
    /\ ends = 0
    /\ fresh = {}
    /\ ours = {}

-----------------------------------------------------------------------------
(* The coach *)

\* A wall switch or the lighting controller broadcasts a command.  It is seen
\* only while the bridge has its CAN socket open.
Press(f, p, l) ==
    /\ phase # "down" => Len(reader) < MaxReader
    /\ lamp' = IF l = NoLevel THEN lamp ELSE [lamp EXCEPT ![f][p] = l]
    /\ reader' = IF phase = "down" THEN reader
                 ELSE Append(reader, [of |-> f, part |-> p, level |-> l])
    /\ ours' = IF l = NoLevel THEN ours ELSE ours \ {<<f, p>>}
    /\ UNCHANGED <<phase, listen, levels, can, marks, topics, will, ends, fresh>>

-----------------------------------------------------------------------------
(* A session of the bridge *)

\* RvcBridge.__init__ and can.Bus: the settings are read; nothing is known of any
\* fixture.
Open ==
    /\ phase = "down"
    /\ phase' = "open"
    /\ listen' \in Modes
    /\ UNCHANGED <<bus, levels, can, marks, topics, will, ends, history>>

\* Mistake: the marks are left to the previous session.
OnlyNewFixtures == {}
ToMark == Fixtures

\* The MQTT client connects and announces the bridge; the marks come next.
\* The broker runs on the same node, so it knows that the last session is gone.
Connect ==
    /\ phase = "open"
    /\ ~will
    /\ status' = "online"
    /\ marks' = ToMark
    /\ phase' = "starting"
    /\ UNCHANGED <<bus, listen, levels, can, seen, state, will, ends, history>>

Mark(f) ==
    /\ phase = "starting"
    /\ f \in marks
    /\ seen' = [seen EXCEPT ![f] = "offline"]
    /\ marks' = marks \ {f}
    /\ UNCHANGED <<bus, phase, listen, levels, can, status, state, will, ends, history>>

\* The two tasks start once every startup publish is out.
StartPumps ==
    /\ phase = "starting"
    /\ marks = {}
    /\ phase' = "running"
    /\ UNCHANGED <<bus, listen, levels, can, marks, topics, will, ends, history>>

\* Every end of the process drops the frames and publishes it had not handled, and what
\* it knew.
Stop ==
    /\ ends < MaxEnds
    /\ phase' = "down"
    /\ reader' = <<>>
    /\ can' = Waiting
    /\ marks' = {}
    /\ ends' = ends + 1
    /\ levels' = [f \in Fixtures |-> Dark]
    /\ fresh' = {} /\ ours' = {}
    /\ UNCHANGED <<listen, topics>>

\* The process is killed or loses its connection: the broker will publish the
\* connection's last will, if there was a connection.
Crash ==
    /\ phase # "down"
    /\ Stop
    /\ will' = (will \/ phase \in {"starting", "running"})
    /\ UNCHANGED lamp

\* A task raises, or the process is interrupted: the client is closed on the
\* way out, and an orderly DISCONNECT discards the will.
Exit ==
    /\ phase \in {"starting", "running"}
    /\ Stop
    /\ UNCHANGED <<lamp, will>>

WillFires ==
    /\ will
    /\ status' = "offline"
    /\ will' = FALSE
    /\ UNCHANGED <<bus, phase, listen, levels, can, marks, seen, state, ends, history>>

-----------------------------------------------------------------------------
(* _pump_can *)

\* Mistake: a frame is handled while the last one is still being published.
NoWaiting == TRUE
PumpIsFree == can.pc = "wait"

\* Mistake: the level is not looked at.
Anything(m) == TRUE
HasLevel(m) == m.level # NoLevel

\* A frame without a level is no news.
Ignore ==
    /\ phase = "running"
    /\ PumpIsFree
    /\ reader # <<>>
    /\ ~HasLevel(Head(reader))
    /\ reader' = Tail(reader)
    /\ UNCHANGED <<lamp, phase, listen, levels, can, marks, topics, will, ends, history>>

\* handle_frame: one component of the fixture is updated, and the whole of it
\* published.
HandleFrame ==
    LET m == Head(reader)
    IN  /\ phase = "running"
        /\ PumpIsFree
        /\ reader # <<>>
        /\ HasLevel(m)
        /\ reader' = Tail(reader)
        /\ levels' = [levels EXCEPT ![m.of][m.part] = m.level]
        /\ can' = [pc |-> "state", of |-> m.of, part |-> m.part,
                   value |-> levels'[m.of]]
        /\ UNCHANGED <<lamp, phase, listen, marks, topics, will, ends, history>>

\* The retained topic the pump writes next, and the one after it.
WriteState == /\ state' = [state EXCEPT ![can.of] = can.value]
              /\ fresh' = fresh \cup {<<can.of, can.part>>}
              /\ UNCHANGED seen
WriteSeen == /\ seen' = [seen EXCEPT ![can.of] = "online"]
             /\ UNCHANGED <<state, fresh>>

\* Mistake: the fixture is marked observed before its level is out.
SeenFirst(pc) == IF pc = "state" THEN WriteSeen ELSE WriteState
\* Mistake: the fixture is not marked observed.
StateOnly(pc) == WriteState
StateFirst(pc) == IF pc = "state" THEN WriteState ELSE WriteSeen

Publish ==
    /\ can.pc # "wait"
    /\ StateFirst(can.pc)
    /\ can' = IF can.pc = "state" THEN [can EXCEPT !.pc = "seen"] ELSE Waiting
    /\ UNCHANGED <<bus, phase, listen, levels, marks, status, will, ends, ours>>

-----------------------------------------------------------------------------
(* _pump_mqtt *)

\* What a set of frames makes of a fixture's levels.
Overlay(old, sent) ==
    [p \in AllParts |-> IF p \in DOMAIN sent THEN sent[p] ELSE old[p]]

MayTransmit(f) == ~listen

\* The frames of one command of Home Assistant: always the switch, and the
\* channels the payload names.
Commands(f) ==
    UNION {[parts -> Levels] : parts \in {s \in SUBSET Parts(f) : Switch \in s}}

\* handle_command: the frames go out back to back.  The bridge's own socket
\* does not receive them (receive_own_messages is False).
Command(f, sent) ==
    /\ phase = "running"
    /\ MayTransmit(f)
    /\ lamp' = [lamp EXCEPT ![f] = Overlay(@, sent)]
    /\ ours' = ours \cup ({f} \X DOMAIN sent)
    /\ UNCHANGED <<reader, phase, listen, levels, can, marks, topics, will, ends, fresh>>

\* bus.send raises after some of the frames (the switch comes first), and the
\* exception ends the session.
CommandFails(f, sent) ==
    /\ phase = "running"
    /\ MayTransmit(f)
    /\ lamp' = [lamp EXCEPT ![f] = Overlay(@, sent)]
    /\ Stop
    /\ UNCHANGED will

-----------------------------------------------------------------------------

Pumps == Ignore \/ HandleFrame \/ Publish

Session == Open \/ Connect \/ (\E f \in Fixtures : Mark(f)) \/ StartPumps

Next ==
    \/ \E f \in Fixtures :
          \/ \E p \in Parts(f), l \in Levels \cup {NoLevel} : Press(f, p, l)
          \/ \E sent \in Commands(f) : Command(f, sent) \/ CommandFails(f, sent)
    \/ Session
    \/ Pumps
    \/ Crash
    \/ Exit
    \/ WillFires

Spec == Init /\ [][Next]_vars

\* The container restarts the process (restart: unless-stopped), the event loop
\* runs the tasks, the broker publishes a will.  Nobody has to touch a switch.
Fairness == WF_vars(Session) /\ WF_vars(Pumps) /\ WF_vars(WillFires)

FairSpec == Spec /\ Fairness

-----------------------------------------------------------------------------
(* What Home Assistant shows *)

Available(f) == status = "online" /\ seen[f] = "online"

\* Nothing of what the session has received is still on its way to the broker.
Settled == phase = "running" /\ reader = <<>> /\ can.pc = "wait"

\* Once everything received is published, every part this session has published is
\* available, and shown at the level it was last commanded to, by whomever, unless the
\* bridge itself has commanded it since it last received a level of it (ADR-012: "the bridge
\* tracks each mapped light's state from observed command traffic").  Commands that go
\* out between, whole or cut short, make nothing else untrue.
SettledIsTrue ==
    Settled =>
        \A f \in Fixtures, p \in AllParts :
            <<f, p>> \in fresh =>
               Available(f) /\ (<<f, p>> \notin ours => state[f][p] = lamp[f][p])

\* While the bridge runs, what an available fixture shows was published in this
\* very session: a level retained from an earlier one is never shown as live
\* (startup_publishes and the order of the publishes in handle_frame).
AvailableIsFresh ==
    phase = "running" =>
        \A f \in Fixtures : Available(f) => \E p \in AllParts : <<f, p>> \in fresh

\* Without a bridge, and without a will still to come, no fixture is available
\* (ADR-012: "availability via MQTT LWT").
DownIsUnavailable ==
    phase \in {"down", "open"} /\ ~will => \A f \in Fixtures : ~Available(f)

\* A frame the bridge has received is shown in the end, unless the session ends
\* (the pump of handle_frame's publishes).
FramesAreShown ==
    \A f \in Fixtures : \A p \in Parts(f), l \in Levels :
        (\E i \in 1..Len(reader) :
             reader[i] = [of |-> f, part |-> p, level |-> l])
          ~> (Available(f) /\ state[f][p] = l) \/ phase = "down"

-----------------------------------------------------------------------------
(* The inductive invariants behind AvailableIsFresh and SettledIsTrue *)

\* Only a running session publishes, only a starting one marks, and a session
\* that has not started has published no level and commanded nothing.
SessionShape ==
    /\ phase # "running" => can = Waiting
    /\ phase # "starting" => marks = {}
    /\ phase # "running" => fresh = {} /\ ours = {}
    /\ phase = "down" => reader = <<>>
    /\ phase \in {"starting", "running"} => status = "online" /\ ~will

\* A fixture that reads as observed is either still to be marked or was
\* published by this session.
SeenIsFresh ==
    /\ can.pc = "seen" => <<can.of, can.part>> \in fresh
    /\ \A f \in Fixtures : seen[f] = "online" =>
          /\ phase = "starting" => f \in marks
          /\ phase = "running" => \E p \in AllParts : <<f, p>> \in fresh

\* In every step of every session, no mark of an earlier session survives the
\* startup, and none of this one runs ahead of its level (startup_publishes,
\* handle_frame).
FreshInv == TypeOK /\ SessionShape /\ SeenIsFresh

\* Frame m commands a level of part p of fixture f.
Sets(m, f, p) == m.of = f /\ m.part = p /\ m.level # NoLevel

\* The last command of a part that waits in the reader is the level it has, unless the
\* bridge has commanded it since.
ReaderIsTrue ==
    \A f \in Fixtures, p \in AllParts, i \in 1..Len(reader) :
        /\ <<f, p>> \notin ours
        /\ Sets(reader[i], f, p)
        /\ \A j \in i+1..Len(reader) : ~Sets(reader[j], f, p)
        => lamp[f][p] = reader[i].level

Known(f, p) == \/ <<f, p>> \in fresh
               \/ can.pc # "wait" /\ can.of = f /\ can.part = p

\* What the bridge takes a part to be is its level, unless a frame of it waits or the
\* bridge has commanded it since.
LevelsAreTrue ==
    \A f \in Fixtures, p \in AllParts :
        /\ phase = "running"
        /\ Known(f, p)
        /\ <<f, p>> \notin ours
        /\ \A i \in 1..Len(reader) : ~Sets(reader[i], f, p)
        => levels[f][p] = lamp[f][p]

IsPublishing(pc, f) == can.pc = pc /\ can.of = f

\* What is published is what the bridge takes the fixture to be, unless it is
\* about to publish it again.
PublishedIsLevels ==
    /\ can.pc # "wait" => can.value = levels[can.of]
    /\ \A f \in Fixtures, p \in AllParts :
          phase = "running" /\ <<f, p>> \in fresh =>
             /\ ~IsPublishing("state", f) => state[f][p] = levels[f][p]
             /\ ~IsPublishing("seen", f) => seen[f] = "online"

\* Bus, reader, levels and retained state agree up to what is still on its way and what the
\* bridge has commanded itself, which in listen-only mode is nothing (_pump_can handles one
\* frame after the other, _pump_mqtt sends beside it).
TruthInv ==
    /\ listen => ours = {}
    /\ ReaderIsTrue /\ LevelsAreTrue /\ PublishedIsLevels

=============================================================================
