----------------------------- MODULE EntityRename -----------------------------
(***************************************************************************)
(* rename_entities.py --apply against Home Assistant's entity registry.    *)
(*                                                                         *)
(* Every light and sensor of the bridge has an entity, and the instance    *)
(* map, corrected over time, gives each the entity_id it should have       *)
(* (want).  A run of the script lists the registry, then reads devices and *)
(* areas and computes the moves, and then calls Home Assistant once per    *)
(* move: first the moves onto an id nobody leaves (direct); then, for the  *)
(* moves onto an id some other move leaves (rotating), one pass that parks *)
(* the entities on temporary ids and one that releases them.               *)
(*                                                                         *)
(* A call names an entity by the id it has.  One that fails raises, and    *)
(* ends the run; the operator runs the script again.  Meanwhile entities   *)
(* register, the bridge's and others, and the map is corrected.            *)
(*                                                                         *)
(* An id is an integer, its place in the order of sorted().  All ids are   *)
(* of one domain ("light."); a dry run and --show change nothing and are   *)
(* left out.                                                               *)
(***************************************************************************)
EXTENDS Integers, FiniteSets

CONSTANTS
    Own,        \* entities with the bridge's PREFIX and a device name
    Others,     \* every other entity
    Names,      \* the ids entities have or want, temporaries aside
    MaxStops,   \* bound: runs that end by a lost connection or an interrupt
    MaxRemaps   \* bound: corrections of the map

Entities == Own \cup Others
Temporaries == 0 .. Cardinality(Own) - 1
Ids == Names \cup Temporaries

ASSUME EntitiesAssumption == IsFiniteSet(Own) /\ Own \cap Others = {}
ASSUME NamesAssumption == Names \subseteq Int /\ Names \cap Temporaries = {}
ASSUME BoundsAssumption == MaxStops \in Nat /\ MaxRemaps \in Nat

VARIABLES
    registry,   \* the id of each entity registered with Home Assistant
    want,       \* the id the map gives each of the bridge's entities
    phase,      \* the run of the script
    listed,     \* entities: the registry as the run read it
    aim,        \* want, as the run read it
    todo,       \* the calls the run has still to make
    outcome,    \* how the last run ended
    stops,      \* runs that ended from outside (bounded)
    remaps      \* corrections of the map (bounded)

run == <<phase, listed, aim, todo, outcome>>
vars == <<registry, want, run, stops, remaps>>

Phases == {"idle", "listed", "moving"}
Outcomes == {"none", "renamed", "nothing", "refused", "failed"}
Move == [from : Ids, to : Ids]
Passes == {"direct", "park", "release"}

IdsIn(r) == {r[e] : e \in DOMAIN r}
Registries == UNION {[D -> Ids] : D \in SUBSET Entities}
Injective(r) == \A d, e \in DOMAIN r : r[d] = r[e] => d = e

-----------------------------------------------------------------------------
(* The plan of a run, from what it has read.                               *)

Planned == {e \in Own \cap DOMAIN listed : aim[e] # listed[e]}
MoveOf(e) == [from |-> listed[e], to |-> aim[e]]
Moves == {MoveOf(e) : e \in Planned}
Leaving == {m.from : m \in Moves}

Duplicated == \E m, n \in Moves : m # n /\ m.to = n.to
External == \E m \in Moves : m.to \in IdsIn(listed) \ Leaving

\* Mistake: a rotation is walked in place.
NoRotation == {}

Rotating == {m \in Moves : m.to \in Leaving}
Direct == Moves \ Rotating

\* Mistake: enumerate(sorted(rotating), start=1).
IndexFromOne(m) == Cardinality({n \in Rotating : n.from <= m.from})

\* enumerate(sorted(rotating))
Index(m) == Cardinality({n \in Rotating : n.from < m.from})

\* A call: its pass, its place in the pass, and the two ids.
Call(pass, place, from, to) ==
    [pass |-> pass, place |-> place, from |-> from, to |-> to]
Calls == [pass : Passes, place : Ids, from : Ids, to : Ids]

MoveAtOnce(m) == Call("direct", m.from, m.from, m.to)
Park(m) == Call("park", Index(m), m.from, Index(m))
Release(m) == Call("release", Index(m), Index(m), m.to)

AllCalls ==
    {MoveAtOnce(m) : m \in Direct}
    \cup {Park(m) : m \in Rotating} \cup {Release(m) : m \in Rotating}

Earlier(p, q) == \/ p = "direct" /\ q # "direct"
                 \/ p = "park" /\ q = "release"

\* Mistake: each rotating entity is parked and released in one round trip.
OneRoundTripEach(c, S) ==
    /\ c \in S
    /\ \A d \in S :
          \/ c.pass = "direct" /\ d.pass # "direct"
          \/ (c.pass = "direct" <=> d.pass = "direct") /\ c.place < d.place
          \/ c.place = d.place /\ (c.pass = d.pass \/ Earlier(c.pass, d.pass))

\* Call c is the first of the calls S.
IsFirst(c, S) ==
    /\ c \in S
    /\ \A d \in S : \/ Earlier(c.pass, d.pass)
                    \/ c.pass = d.pass /\ c.place <= d.place

-----------------------------------------------------------------------------
(* Home Assistant.                                                         *)

\* The id is held by no entity but e.
FreeFor(id, e) == \A d \in DOMAIN registry : registry[d] = id => d = e

\* config/entity_registry/update can be done: some entity e has the id from,
\* and no other has the id to.
Accepts(e, c) ==
    /\ e \in DOMAIN registry
    /\ registry[e] = c.from
    /\ FreeFor(c.to, e)

\* An entity registers, under an id that is free.
Register(e, id) ==
    /\ e \notin DOMAIN registry
    /\ id \notin IdsIn(registry)
    /\ registry' = [d \in DOMAIN registry \cup {e} |->
                       IF d = e THEN id ELSE registry[d]]
    /\ UNCHANGED <<want, run, stops, remaps>>

\* The id an entity should have changes: the map is corrected, or the area of
\* its device.
Remap(e, id) ==
    /\ remaps < MaxRemaps
    /\ remaps' = remaps + 1
    /\ want[e] # id
    /\ want' = [want EXCEPT ![e] = id]
    /\ UNCHANGED <<registry, run, stops>>

-----------------------------------------------------------------------------
(* A run.                                                                  *)

\* config/entity_registry/list.
List ==
    /\ phase = "idle"
    /\ phase' = "listed"
    /\ listed' = registry
    /\ outcome' = "none"
    /\ UNCHANGED <<registry, want, aim, todo, stops, remaps>>

\* Areas repaired, devices and areas read again.
ReadWanted ==
    /\ phase = "listed"
    /\ aim' = want
    /\ UNCHANGED <<registry, want, listed, stops, remaps>>

Nothing ==
    /\ ReadWanted
    /\ Planned' = {}
    /\ phase' = "idle"
    /\ outcome' = "nothing"
    /\ UNCHANGED todo

Conflict == External \/ Duplicated

Refuse ==
    /\ ReadWanted
    /\ Conflict'
    /\ phase' = "idle"
    /\ outcome' = "refused"
    /\ UNCHANGED todo

Plan ==
    /\ ReadWanted
    /\ Planned' # {}
    /\ ~Conflict'
    /\ phase' = "moving"
    /\ todo' = AllCalls'
    /\ UNCHANGED outcome

\* A call succeeds, and the run goes on to the next, or ends.
Rename(e, c) ==
    /\ phase = "moving"
    /\ IsFirst(c, todo)
    /\ Accepts(e, c)
    /\ registry' = [registry EXCEPT ![e] = c.to]
    /\ todo' = todo \ {c}
    /\ IF todo' = {}
       THEN phase' = "idle" /\ outcome' = "renamed"
       ELSE UNCHANGED <<phase, outcome>>
    /\ UNCHANGED <<want, listed, aim, stops, remaps>>

\* Mistake: the run goes on with the next call.
CarryOn(c) == todo \ {c}

\* What a call that Home Assistant refuses leaves to do: it raises.
AfterRefusal(c) == {}

\* A call is refused, and RuntimeError ends the run.
Refused(c) ==
    /\ phase = "moving"
    /\ IsFirst(c, todo)
    /\ \A e \in DOMAIN registry : ~Accepts(e, c)
    /\ todo' = AfterRefusal(c)
    /\ IF todo' = {}
       THEN phase' = "idle" /\ outcome' = "failed"
       ELSE UNCHANGED <<phase, outcome>>
    /\ UNCHANGED <<registry, want, listed, aim, stops, remaps>>

\* The connection or the process is lost between two calls.
Stop ==
    /\ phase # "idle"
    /\ stops < MaxStops
    /\ stops' = stops + 1
    /\ phase' = "idle"
    /\ outcome' = "failed"
    /\ todo' = {}
    /\ UNCHANGED <<registry, want, listed, aim, remaps>>

-----------------------------------------------------------------------------

Init ==
    /\ registry \in UNION {[D -> Names] : D \in SUBSET Entities}
    /\ Injective(registry)
    /\ want \in [Own -> Names]
    /\ phase = "idle"
    /\ listed = registry
    /\ aim = want
    /\ todo = {}
    /\ outcome = "none"
    /\ stops = 0
    /\ remaps = 0

Script ==
    \/ List \/ Nothing \/ Refuse \/ Plan
    \/ \E e \in Entities, c \in todo : Rename(e, c)
    \/ \E c \in todo : Refused(c)

Next ==
    \/ Script
    \/ Stop
    \/ \E e \in Entities, id \in Names : Register(e, id)
    \/ \E e \in Own, id \in Names : Remap(e, id)

Spec == Init /\ [][Next]_vars

\* The operator runs the script again and again.
FairSpec == Spec /\ WF_vars(Script)

-----------------------------------------------------------------------------

TypeOK ==
    /\ registry \in Registries
    /\ want \in [Own -> Names]
    /\ phase \in Phases
    /\ listed \in Registries
    /\ aim \in [Own -> Names]
    /\ todo \subseteq Calls
    /\ outcome \in Outcomes
    /\ stops \in 0..MaxStops
    /\ remaps \in 0..MaxRemaps

\* Nobody has registered since the run read the registry.
NobodyCame == DOMAIN registry = DOMAIN listed

\* The run found an entity that an earlier run had parked and not released.
FoundParked == IdsIn(listed) \cap Temporaries # {}

\* The next call, if there is one, can be done.
WayIsClear ==
    phase = "moving" =>
        \A c \in todo : IsFirst(c, todo) => \E e \in Entities : Accepts(e, c)

\* A run that finds nobody parked, and sees nobody register, never walks into
\* an id that is in use, for any permutation of ids: this is what the refusal,
\* the direct pass and the two passes over temporaries are for.
NoCollision == ~FoundParked /\ NobodyCame => WayIsClear

\* rename_entities.py: "A collision would make HA silently append _2, so it has
\* to be resolved rather than walked into."
NeverWalksIn == NobodyCame => WayIsClear

\* A run that reports that all is renamed, or that there was nothing to rename,
\* leaves every entity of the bridge it listed on the id it aimed at, whoever
\* registered meanwhile and wherever an earlier run had left it.
ReportIsTrue ==
    phase = "idle" /\ outcome \in {"renamed", "nothing"} =>
        \A e \in Own \cap DOMAIN listed : registry[e] = aim[e]

\* Although calls name entities by an id that several hold one after another,
\* each moves the entity it was planned for: never one of another integration,
\* and one of the bridge only onto the id it aims at or a temporary one.
EachToItsOwn ==
    [][\A e \in DOMAIN registry :
          registry'[e] # registry[e] =>
              e \in Own /\ registry'[e] \in Temporaries \cup {aim[e]}]_vars

\* Every entity of the bridge can have the id it wants.
Consistent ==
    /\ \A d, e \in Own \cap DOMAIN registry : want[d] = want[e] => d = e
    /\ \A d \in Own, e \in Others :
          d \in DOMAIN registry /\ e \in DOMAIN registry => want[d] # registry[e]

AllHome == \A e \in Own \cap DOMAIN registry : registry[e] = want[e]

\* However runs were cut short, running the script again in the end puts every
\* entity on the id it wants, if those ids can be had at all.
Recovers == <>[]Consistent => <>[]AllHome

-----------------------------------------------------------------------------
(* The strengthening the proofs use.                                       *)

\* Where a planned move has got to.
Place(m) ==
    IF m \in Direct
    THEN IF MoveAtOnce(m) \in todo THEN m.from ELSE m.to
    ELSE IF Park(m) \in todo THEN m.from
         ELSE IF Release(m) \in todo THEN Index(m) ELSE m.to

\* What the run read is still so.
ListIsTrue == \A e \in DOMAIN listed : registry[e] = listed[e]

\* Every listed entity is where the calls made so far have put it, and whoever
\* is still to be parked is still to be released.
OnTrack ==
    /\ todo \subseteq AllCalls
    /\ ~Conflict
    /\ \A m \in Rotating : Park(m) \in todo => Release(m) \in todo
    /\ \A e \in DOMAIN listed :
          registry[e] = IF e \in Planned THEN Place(MoveOf(e)) ELSE listed[e]

\* A run knows where each entity is that it listed: no two entities share an
\* id, none is unregistered, and only the run moves the ones it plans for.
RunInv ==
    /\ TypeOK
    /\ Injective(registry) /\ Injective(listed)
    /\ DOMAIN listed \subseteq DOMAIN registry
    /\ phase = "listed" => ListIsTrue
    /\ phase = "moving" => OnTrack
    /\ ReportIsTrue

=============================================================================
