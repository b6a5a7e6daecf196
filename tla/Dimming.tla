------------------------------- MODULE Dimming -------------------------------
(***************************************************************************)
(* Levels on the bus: frames of switches and panels, which the bridge      *)
(* decodes and shows, commands of Home Assistant, which it encodes and     *)
(* transmits, and a recorder whose capture the tools of                    *)
(* astro-rvc-analyze read.  A command is one MQTT message, and its         *)
(* handling is one step: handle_command does not wait.                     *)
(***************************************************************************)
EXTENDS Codec, FiniteSets, TLC

CONSTANTS
    Lights,     \* command instances of plain lights
    Rgb,        \* from the switch of each colour fixture to its three channels
    Layouts,    \* the specification: from a DGN to its layout, by name (the encoder's)
    Dimmer,     \* DC_DIMMER_COMMAND_2
    Allowlist,  \* DGNs the generic path may encode
    Requests,   \* generic requests: a DGN, an instance and raw fields
    Raws,       \* raw levels others command
    Panels,     \* instances they command
    Brightness, \* levels Home Assistant commands
    Colours,    \* channels, with their levels, that it names in one command
    Window,     \* of clusters
    PerDgn,     \* of slice
    MaxFrames,  \* bound: a capture of as many frames grows no more
    MaxTime     \* bound: last value of the clock

Switches == DOMAIN Rgb
Channels == {Rgb[s][k] : s \in Switches, k \in 1..3}
Instances == Lights \cup Switches \cup Channels
Unseen == -1

ASSUME DimmingAssumption ==
    /\ Lights \cap Switches = {} /\ Lights \cap Channels = {}
    /\ Switches \cap Channels = {} /\ Instances \subseteq 0..254
    /\ Panels \subseteq Instances
    /\ Raws \subseteq 0..255 /\ Brightness \subseteq 0..255
    /\ \A c \in Colours : DOMAIN c \subseteq 1..3 /\ \A k \in DOMAIN c : c[k] \in 0..255
    /\ Window \in Nat /\ PerDgn \in Nat /\ MaxFrames \in Nat /\ MaxTime \in Nat

\* What holds of the tables of the specification, but for two of their DGNs: a field is of
\* at most four bytes (not the text of TERMINAL), and no two fields of a DGN overlap (two of
\* INVERTER_COMMAND do).  Of a dimmer command the encoder writes whole bytes.
ASSUME LayoutsAssumption ==
    /\ \A dgn \in DOMAIN Layouts :
          /\ IsFiniteSet(DOMAIN Layouts[dgn])
          /\ \A f \in DOMAIN Layouts[dgn] : Layouts[dgn][f] \in Field
          /\ \A f, g \in DOMAIN Layouts[dgn] : f # g => Apart(Layouts[dgn][f], Layouts[dgn][g])
    /\ Dimmer \in DOMAIN Layouts
    /\ {"instance", "desired_level", "command"} \subseteq DOMAIN Layouts[Dimmer]
    /\ Layouts[Dimmer]["instance"] = Byte(0)
    /\ Layouts[Dimmer]["desired_level"] = Byte(2)
    /\ Layouts[Dimmer]["command"] = Byte(3)

ASSUME RequestsAssumption ==
    \A r \in Requests :
        /\ r.dgn \in DOMAIN Layouts /\ r.instance \in Int
        /\ \A f \in DOMAIN r.values : r.values[f] \in Int

VARIABLES
    listen,     \* listen_only
    lamp,       \* raw level of each instance
    observed,   \* raw level the bridge has published of it, or Unseen
    log,        \* the capture
    now

dimVars == <<listen, lamp, observed, log, now>>

InOrder(frames) == \A k \in 1..Len(frames) : \A j \in 1..k : frames[j].time <= frames[k].time

DimTypeOK ==
    /\ listen \in BOOLEAN
    /\ lamp \in [Instances -> 0..254]
    /\ observed \in [Instances -> -1..254]
    /\ log \in Seq([time : 0..MaxTime, dgn : DOMAIN Layouts, bytes : Seq(0..255)])
    /\ \A k \in 1..Len(log) : log[k].time <= now /\ Len(log[k].bytes) \in {2, 8}
    /\ InOrder(log)
    /\ now \in 0..MaxTime

DimInit ==
    /\ listen \in BOOLEAN
    /\ lamp = [i \in Instances |-> 0]
    /\ observed = [i \in Instances |-> Unseen]
    /\ log = <<>> /\ now = 0

-----------------------------------------------------------------------------
(* Frames *)

RawOf(fr, f) == ExtractRaw(fr.bytes, Layouts[fr.dgn][f])
IsDimmer(fr) == fr.dgn = Dimmer /\ "instance" \in Present(Layouts[Dimmer], fr.bytes)

HasLevel(fr) ==
    /\ IsDimmer(fr)
    /\ "desired_level" \in Present(Layouts[Dimmer], fr.bytes)
    /\ Available(Layouts[Dimmer]["desired_level"], RawOf(fr, "desired_level"))

InstanceOf(fr) == RawOf(fr, "instance")
LevelOf(fr) == RawOf(fr, "desired_level")

Of(dgn, bytes) == [time |-> now, dgn |-> dgn, bytes |-> bytes]
DimmerFrame(i, raw, command) ==
    Of(Dimmer, EncodeFields(Layouts[Dimmer],
                  [instance |-> i, desired_level |-> raw, command |-> command]))

\* What a request asks for: its topic names the instance, unless its payload does.
ValuesOf(r) ==
    [f \in DOMAIN r.values \cup {"instance"} |->
        IF f \in DOMAIN r.values THEN r.values[f] ELSE r.instance]
KnownFields(r) == DOMAIN ValuesOf(r) \subseteq DOMAIN Layouts[r.dgn]
AllFit(r) == \A f \in DOMAIN ValuesOf(r) : Fits(Layouts[r.dgn][f], ValuesOf(r)[f])

FrameOf(r) == Of(r.dgn, EncodeFields(Layouts[r.dgn], ValuesOf(r)))

\* The level that the last of the frames for an instance gives it.
Telling(frames, i) == {k \in 1..Len(frames) : HasLevel(frames[k]) /\ InstanceOf(frames[k]) = i}
After(frames, levels) ==
    [i \in Instances |->
        LET telling == Telling(frames, i)
        IN  IF telling = {} THEN levels[i] ELSE LevelOf(frames[Max(telling)])]

OnBus(frames) ==
    /\ Len(log) < MaxFrames
    /\ log' = log \o frames
    /\ lamp' = After(frames, lamp)

\* A switch or a panel says something; the bridge receives and shows it.
Broadcast(fr) ==
    /\ OnBus(<<fr>>)
    /\ observed' = After(<<fr>>, observed)
    /\ UNCHANGED <<listen, now>>

Press(i, raw) == Broadcast(DimmerFrame(i, raw, 0))

\* A frame that ends before its level.
PressShort(i) == Broadcast(Of(Dimmer, <<i, 255>>))

\* Some other frame.
Report(r) ==
    /\ KnownFields(r) /\ AllFit(r)
    /\ Broadcast(FrameOf(r))

-----------------------------------------------------------------------------
(* Commands: handle_command.  The bridge does not receive what it transmits. *)

Transmit(frames) ==
    /\ ~listen
    /\ OnBus(frames)
    /\ UNCHANGED <<listen, observed, now>>

\* To turn a plain light on at a brightness Home Assistant sends two messages, the brightness
\* and then "ON", which is 100 percent: a step each, with whatever comes between.
Switch(i, on) == Transmit(<<DimmerFrame(i, IF on THEN 200 ELSE 0, 0)>>)
Dim(i, b) == Transmit(<<DimmerFrame(i, PlainRaw(b), 0)>>)

\* Colour channels that the command names, in the order of red, green and blue.
Named(s, colour) ==
    LET frame(k) == IF k \in DOMAIN colour
                    THEN <<DimmerFrame(Rgb[s][k], ColourRaw(colour[k]), 0)>> ELSE <<>>
    IN  frame(1) \o frame(2) \o frame(3)

Colour(s, b, colour) ==
    Transmit(<<DimmerFrame(s, ColourRaw(b), 0)>> \o Named(s, colour))

\* Mistake: what is not on the list is on it.
AnyDgn(dgn) == TRUE
Allowed(dgn) == dgn \in Allowlist

Generic(r) ==
    /\ Allowed(r.dgn) /\ KnownFields(r) /\ AllFit(r)
    /\ Transmit(<<FrameOf(r)>>)

\* A whole-byte field too large for its bytes raises OverflowError, which
\* handle_command does not catch: the session ends, and the next one has
\* observed nothing.
Overflow(r) ==
    /\ ~listen
    /\ Allowed(r.dgn) /\ KnownFields(r) /\ ~AllFit(r)
    /\ observed' = [i \in Instances |-> Unseen]
    /\ UNCHANGED <<listen, lamp, log, now>>

\* Time counts from the first frame of the capture to the last.
Tick ==
    /\ now < MaxTime /\ log # <<>> /\ Len(log) < MaxFrames
    /\ now' = now + 1
    /\ UNCHANGED <<listen, lamp, observed, log>>

\* What Home Assistant shows of a part: what was published, or the zero that the state of a
\* colour fixture starts from.
Shown(i) == IF observed[i] = Unseen THEN 0 ELSE To255(observed[i])

\* Home Assistant sends a colour fixture the state it shows of it, as a script does that
\* restores what it has saved: if the fixture is off, only that it is off.  It asks nothing
\* of a fixture that no frame has told of, which is not available.
RestoreColour(s) ==
    /\ \E i \in {s, Rgb[s][1], Rgb[s][2], Rgb[s][3]} : observed[i] # Unseen
    /\ IF Shown(s) = 0 THEN Colour(s, 0, <<>>)
       ELSE Colour(s, Shown(s), [k \in 1..3 |-> Shown(Rgb[s][k])])

DimNext ==
    \/ \E i \in Panels : PressShort(i) \/ \E raw \in Raws : Press(i, raw)
    \/ \E i \in Lights : \/ \E on \in BOOLEAN : Switch(i, on)
                         \/ \E b \in Brightness \cup {Shown(i)} : Dim(i, b)
    \/ \E s \in Switches : \/ RestoreColour(s)
                            \/ \E b \in Brightness, c \in Colours : Colour(s, b, c)
    \/ \E r \in Requests : Report(r) \/ Generic(r) \/ Overflow(r)
    \/ Tick

=============================================================================
