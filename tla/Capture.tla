------------------------------- MODULE Capture -------------------------------
(***************************************************************************)
(* The tools of astro-rvc-analyze over a capture of the bus, as it grows:  *)
(* correlate, clusters, slice and verify-encoder over the frames of        *)
(* Dimming, and reassemble_tp (Transfers) over those of transfers.  The    *)
(* two kinds of frames share nothing, so one kind is on the bus in a       *)
(* behaviour.                                                              *)
(***************************************************************************)
EXTENDS Dimming, Transfers

VARIABLE kind

vars == <<kind, dimVars, tpVars>>

Init == kind \in {"levels", "transfers"} /\ DimInit /\ TpInit

Next ==
    /\ UNCHANGED kind
    /\ \/ kind = "levels" /\ DimNext /\ UNCHANGED tpVars
       \/ kind = "transfers" /\ TpNext /\ UNCHANGED dimVars

Spec == Init /\ [][Next]_vars

TypeOK == kind \in {"levels", "transfers"} /\ DimTypeOK /\ TpTypeOK
CaptureInv == TypeOK /\ TpInv

-----------------------------------------------------------------------------
(* The tools *)

\* A level that a frame tells.
Event(fr) == [time |-> fr.time, instance |-> InstanceOf(fr), value |-> LevelOf(fr)]

Before(last, i, value) == IF i \in DOMAIN last THEN last[i] ELSE value
Noted(last, fr) ==
    [i \in DOMAIN last \cup {InstanceOf(fr)} |->
        IF i = InstanceOf(fr) THEN LevelOf(fr) ELSE last[i]]
InstancesOf(events) == {events[k].instance : k \in 1..Len(events)}

\* The first time each instance goes from off to on (a capture is in the order of time,
\* so that sorting what was found leaves it in its order).
Correlated(acc, fr) ==
    IF ~HasLevel(fr) THEN acc
    ELSE [last |-> Noted(acc.last, fr),
          on |-> IF /\ LevelOf(fr) > 0 /\ Before(acc.last, InstanceOf(fr), 0) = 0
                    /\ InstanceOf(fr) \notin InstancesOf(acc.on)
                 THEN Append(acc.on, Event(fr)) ELSE acc.on]
Correlate(frames) == FoldLeft(Correlated, [last |-> <<>>, on |-> <<>>], frames).on

Changed(acc, fr) ==
    IF ~HasLevel(fr) THEN acc
    ELSE [last |-> Noted(acc.last, fr),
          changes |-> IF Before(acc.last, InstanceOf(fr), Unseen) # LevelOf(fr)
                      THEN Append(acc.changes, Event(fr)) ELSE acc.changes]
Changes(frames) == FoldLeft(Changed, [last |-> <<>>, changes |-> <<>>], frames).changes

\* Mistake: the window is open at its end.
OpenEnded(cluster, time) == time - cluster.start < Window
Within(cluster, time) == time - cluster.start <= Window

Grown(cluster, i) == [start |-> cluster.start, instances |-> cluster.instances \cup {i}]
Clustered(acc, e) ==
    IF acc # <<>> /\ Within(Last(acc), e.time)
    THEN [acc EXCEPT ![Len(acc)] = Grown(@, e.instance)]
    ELSE Append(acc, [start |-> e.time, instances |-> {e.instance}])
Clusters(frames) == FoldLeft(Clustered, <<>>, Changes(frames))

CountOf(dgn, frames) == Cardinality({k \in 1..Len(frames) : frames[k].dgn = dgn})

Sliced(kept, fr, names) ==
    IF fr.dgn \in names /\ CountOf(fr.dgn, kept) < PerDgn THEN Append(kept, fr) ELSE kept
Slice(frames, names) == FoldLeft(LAMBDA kept, fr : Sliced(kept, fr, names), <<>>, frames)

\* What is compared of a command frame and of our own encoding of it.
KeyFields == {"instance", "desired_level", "command"}
Rebuilt(fr) == DimmerFrame(InstanceOf(fr), LevelOf(fr), RawOf(fr, "command"))
SameKeyFields(fr, other) == \A f \in KeyFields : RawOf(fr, f) = RawOf(other, f)

-----------------------------------------------------------------------------

\* A sequence of what is at these places, in their order.
Lists(found, at) ==
    /\ Len(found) = Cardinality(DOMAIN at)
    /\ \A k \in DOMAIN at : found[Cardinality({j \in DOMAIN at : j <= k})] = at[k]

\* Frames of one instance that tell a level.
Tells(frames, k, i) == HasLevel(frames[k]) /\ InstanceOf(frames[k]) = i

\* correlate finds the frames before which no frame had that instance on.
FirstOn(frames) ==
    {k \in 1..Len(frames) :
        /\ HasLevel(frames[k]) /\ LevelOf(frames[k]) > 0
        /\ \A j \in 1 .. k - 1 :
              Tells(frames, j, InstanceOf(frames[k])) => LevelOf(frames[j]) = 0}
CorrelateAgrees == Lists(Correlate(log), [k \in FirstOn(log) |-> Event(log[k])])

\* A level is a change if none was told before, or the one told last was another.
ChangesOf(frames) ==
    {k \in 1..Len(frames) :
        /\ HasLevel(frames[k])
        /\ \A j \in 1 .. k - 1 :
              /\ Tells(frames, j, InstanceOf(frames[k]))
              /\ \A m \in j + 1 .. k - 1 : ~Tells(frames, m, InstanceOf(frames[k]))
              => LevelOf(frames[j]) # LevelOf(frames[k])}

\* Each change is in the one cluster whose window holds its time, and the windows
\* do not overlap.
Covers(cluster, fr) == fr.time \in cluster.start .. cluster.start + Window
ClustersAgree ==
    LET found == Clusters(log)
        places == ChangesOf(log)
    IN  /\ \A k \in 1 .. Len(found) - 1 : found[k + 1].start > found[k].start + Window
        /\ \A n \in places : \E k \in 1..Len(found) : Covers(found[k], log[n])
        /\ \A k \in 1..Len(found) :
              found[k].instances
                 = {InstanceOf(log[n]) : n \in {m \in places : Covers(found[k], log[m])}}

\* slice keeps the first frames of each DGN it is asked for.
FirstOf(frames, names) ==
    {k \in 1..Len(frames) :
        /\ frames[k].dgn \in names
        /\ Cardinality({j \in 1 .. k - 1 : frames[j].dgn = frames[k].dgn}) < PerDgn}
SliceAgrees ==
    \A names \in SUBSET DOMAIN Layouts :
       Lists(Slice(log, names), [k \in FirstOf(log, names) |-> log[k]])

\* Whoever sent it, the last recorded command, if it gives a level, is re-encoded with the
\* same instance, level and command (verify_encoder).
CommandsReencode ==
    log # <<>> /\ HasLevel(Last(log)) => SameKeyFields(Last(log), Rebuilt(Last(log)))

\* The tools agree with what their documentation says they look for.
ToolsAgree == CommandsReencode /\ CorrelateAgrees /\ ClustersAgree /\ SliceAgrees

\* What a part is shown at, as a raw level: full scale is 250, and what was never heard of
\* is dark.
AsShown(i) == IF observed[i] = Unseen THEN 0 ELSE Least(observed[i], 250)

\* However its levels came about, sending a colour fixture what Home Assistant shows of it
\* gives every part of it the very level it is shown at, leaves the channels alone if it is
\* shown off, and moves nothing else (rgb_state_payload, _encode_rgb_command).
LevelsReturn ==
    [][\A s \in Switches : RestoreColour(s) =>
          LET channels == {Rgb[s][1], Rgb[s][2], Rgb[s][3]}
              told == IF AsShown(s) = 0 THEN {s} ELSE {s} \cup channels
          IN  \A i \in Instances :
                 lamp'[i] = IF i \in told THEN AsShown(i) ELSE lamp[i]]_vars

AllOnes(dgn, f) ==
    LET d == Layouts[dgn][f]
    IN  (IF d.width = 0 THEN 256 ^ Span(d) ELSE 2 ^ d.width) - 1

\* What goes out on the generic path is on the list and says what the request says,
\* each bit field within its width, and "not available" of everything else.
GenericIsSaid ==
    [][\A r \in Requests :
          Generic(r) =>
             /\ r.dgn \in Allowlist
             /\ \A f \in DOMAIN Layouts[r.dgn] :
                   RawOf(Last(log'), f) = IF f \in DOMAIN ValuesOf(r)
                                          THEN ValuesOf(r)[f] % (AllOnes(r.dgn, f) + 1)
                                          ELSE AllOnes(r.dgn, f)]_vars

=============================================================================
