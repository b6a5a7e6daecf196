-------------------------- MODULE EntityRename_proofs --------------------------
(* That a run moves only what it planned, reports the truth, and never walks *)
(* into an id in use, for any entities, names and bounds.                    *)
EXTENDS EntityRename, FiniteSetTheorems, TLAPS

USE EntitiesAssumption, NamesAssumption, BoundsAssumption

ReadOK == listed \in Registries /\ aim \in [Own -> Names]

\* What is planned for an entity leads from a listed id to a name.
LEMMA PlannedType ==
    ASSUME ReadOK, NEW e \in Planned
    PROVE  /\ e \in Own /\ e \in DOMAIN listed
           /\ listed[e] \in Ids /\ aim[e] \in Names
           /\ MoveOf(e) \in Move
           /\ MoveOf(e).from = listed[e] /\ MoveOf(e).to = aim[e]
           /\ MoveOf(e) \in Moves
  BY DEF ReadOK, Planned, Registries, MoveOf, Move, Moves, Ids

\* Places in a pass: the temporaries suffice, and no two moves share one.
LEMMA PlaceType ==
    ASSUME NEW S, IsFiniteSet(S), Cardinality(S) <= Cardinality(Own), NEW m \in S,
           m.from \in Int
    PROVE  Cardinality({n \in S : n.from < m.from}) \in Temporaries
  <1>. DEFINE before == {n \in S : n.from < m.from}
  <1>1. before \subseteq S /\ m \notin before
    OBVIOUS
  <1>2. /\ IsFiniteSet(before) /\ Cardinality(before) <= Cardinality(S)
        /\ Cardinality(before) = Cardinality(S) => before = S
    BY <1>1, FS_Subset
  <1>3. /\ Cardinality(before) \in Nat /\ Cardinality(S) \in Nat
        /\ Cardinality(Own) \in Nat
    BY <1>2, FS_CardinalityType
  <1>. QED
    BY <1>1, <1>2, <1>3 DEF Temporaries

LEMMA PlaceUnique ==
    ASSUME NEW S, IsFiniteSet(S), \A x \in S : x.from \in Int,
           NEW m \in S, NEW n \in S, m.from < n.from
    PROVE  Cardinality({x \in S : x.from < m.from})
             # Cardinality({x \in S : x.from < n.from})
  <1>. DEFINE low == {x \in S : x.from < m.from}
              high == {x \in S : x.from < n.from}
  <1>1. low \subseteq high /\ m \in high /\ m \notin low
    OBVIOUS
  <1>2. IsFiniteSet(high)
    BY FS_Subset, high \subseteq S
  <1>. QED
    BY <1>1, <1>2, FS_Subset

\* There are no more moves than entities of the bridge.
LEMMA MovesFinite ==
    ASSUME ReadOK
    PROVE  /\ IsFiniteSet(Rotating)
           /\ Cardinality(Rotating) <= Cardinality(Own)
           /\ \A m \in Moves : m \in Move /\ m.from \in Int
  <1>1. Planned \subseteq Own
    BY DEF Planned
  <1>2. IsFiniteSet(Planned) /\ Cardinality(Planned) <= Cardinality(Own)
    BY <1>1, FS_Subset
  <1>3. IsFiniteSet(Moves) /\ Cardinality(Moves) <= Cardinality(Planned)
    <2>. DEFINE f == [e \in Planned |-> MoveOf(e)]
    <2>1. f \in [Planned -> Moves] /\ \A m \in Moves : \E e \in Planned : f[e] = m
      BY DEF Moves
    <2>. HIDE DEF f
    <2>2. f \in Surjection(Planned, Moves)
      BY <2>1 DEF Surjection
    <2>. QED
      BY <2>2, <1>2, FS_Surjection
  <1>4. IsFiniteSet(Rotating) /\ Cardinality(Rotating) <= Cardinality(Moves)
    <2>1. Rotating \subseteq Moves
      BY DEF Rotating
    <2>. QED
      BY <2>1, <1>3, FS_Subset
  <1>5. /\ Cardinality(Own) \in Nat /\ Cardinality(Planned) \in Nat
        /\ Cardinality(Moves) \in Nat /\ Cardinality(Rotating) \in Nat
    BY <1>2, <1>3, <1>4, FS_CardinalityType
  <1>6. Ids \subseteq Int
    <2>1. Temporaries \subseteq Int
      BY <1>5 DEF Temporaries
    <2>2. Names \subseteq Int
      BY NamesAssumption
    <2>. QED
      BY <2>1, <2>2 DEF Ids
  <1>7. \A m \in Moves : m \in Move /\ m.from \in Int
    BY <1>6, PlannedType DEF Moves, Move
  <1>. QED
    BY <1>2, <1>3, <1>4, <1>5, <1>7

LEMMA IndexType ==
    ASSUME ReadOK, NEW m \in Rotating
    PROVE  Index(m) \in Temporaries
  <1>1. m \in Moves
    BY DEF Rotating
  <1>. QED
    BY <1>1, MovesFinite, PlaceType DEF Index

\* The calls of a plan are typed.
LEMMA CallsType == ReadOK => AllCalls \subseteq Calls
  <1>. SUFFICES ASSUME ReadOK, NEW c \in AllCalls
                PROVE  c \in Calls
    OBVIOUS
  <1>1. \A m \in Moves : m.from \in Ids /\ m.to \in Ids
    BY MovesFinite DEF Move
  <1>2. CASE \E m \in Direct : c = MoveAtOnce(m)
    BY <1>1, <1>2 DEF Direct, MoveAtOnce, Call, Calls, Passes
  <1>3. CASE \E m \in Rotating : c = Park(m)
    BY <1>1, <1>3, IndexType DEF Rotating, Park, Call, Calls, Passes, Ids
  <1>4. CASE \E m \in Rotating : c = Release(m)
    BY <1>1, <1>4, IndexType DEF Rotating, Release, Call, Calls, Passes, Ids
  <1>. QED
    BY <1>2, <1>3, <1>4 DEF AllCalls

-----------------------------------------------------------------------------
(* Which entity a call names.                                              *)

\* A call is one of the three of the move of a planned entity.
LEMMA CallOf ==
    ASSUME NEW c \in AllCalls
    PROVE  \E e \in Planned :
              \/ MoveOf(e) \in Direct /\ c = MoveAtOnce(MoveOf(e))
              \/ MoveOf(e) \in Rotating /\ c = Park(MoveOf(e))
              \/ MoveOf(e) \in Rotating /\ c = Release(MoveOf(e))
  BY DEF AllCalls, Moves, Direct, Rotating

\* Calls differ when their entities do.
LEMMA CallsDiffer ==
    ASSUME ReadOK, Injective(listed), ~Duplicated,
           NEW d \in Planned, NEW e \in Planned, d # e
    PROVE  /\ MoveOf(d) # MoveOf(e)
           /\ MoveAtOnce(MoveOf(d)) # MoveAtOnce(MoveOf(e))
           /\ Park(MoveOf(d)) # Park(MoveOf(e))
           /\ Release(MoveOf(d)) # Release(MoveOf(e))
           /\ aim[d] # aim[e]
  <1>1. listed[d] # listed[e]
    BY PlannedType DEF Injective
  <1>2. MoveOf(d).from # MoveOf(e).from
    BY <1>1, PlannedType
  <1>3. MoveOf(d).to # MoveOf(e).to
    BY <1>2, PlannedType DEF Duplicated
  <1>. QED
    BY <1>2, <1>3, PlannedType DEF MoveAtOnce, Park, Release, Call

\* Calls of different passes differ.
LEMMA PassesDiffer ==
    ASSUME NEW m, NEW n
    PROVE  /\ MoveAtOnce(m) # Park(n) /\ Park(m) # Release(n)
           /\ MoveAtOnce(m) # Release(n)
           /\ MoveAtOnce(m).pass = "direct" /\ Park(m).pass = "park"
           /\ Release(m).pass = "release"
           /\ MoveAtOnce(m).from = m.from /\ MoveAtOnce(m).to = m.to
           /\ Park(m).from = m.from /\ Park(m).to = Index(m)
           /\ Release(m).from = Index(m) /\ Release(m).to = m.to
  BY DEF MoveAtOnce, Park, Release, Call

\* No two entities wait on one temporary id.
LEMMA IndexUnique ==
    ASSUME ReadOK, Injective(listed), NEW d \in Planned, NEW e \in Planned, d # e,
           MoveOf(d) \in Rotating, MoveOf(e) \in Rotating
    PROVE  Index(MoveOf(d)) # Index(MoveOf(e))
  <1>1. listed[d] # listed[e]
    BY PlannedType DEF Injective
  <1>2. MoveOf(d).from # MoveOf(e).from
    BY <1>1, PlannedType
  <1>3. \A m \in Rotating : m.from \in Int
    BY MovesFinite DEF Rotating
  <1>4. CASE MoveOf(d).from < MoveOf(e).from
    BY <1>3, <1>4, MovesFinite, PlaceUnique DEF Index
  <1>5. CASE MoveOf(e).from < MoveOf(d).from
    BY <1>3, <1>5, MovesFinite, PlaceUnique DEF Index
  <1>. QED
    BY <1>2, <1>3, <1>4, <1>5

\* The first call in order.
LEMMA FirstPass ==
    ASSUME NEW S, NEW c, IsFirst(c, S)
    PROVE  /\ c.pass = "park" => \A d \in S : d.pass # "direct"
           /\ c.pass = "release" => \A d \in S : d.pass # "direct" /\ d.pass # "park"
  BY DEF IsFirst, Earlier

\* What a run on track does next: its first call is for one planned entity,
\* and that entity has the id the call names.
NextIs(e, c) ==
    LET m == MoveOf(e) IN
    \/ m \in Direct /\ c = MoveAtOnce(m)
    \/ m \in Rotating /\ c = Park(m)
    \/ m \in Rotating /\ c = Release(m) /\ Park(m) \notin todo

LEMMA NextCall ==
    ASSUME ReadOK, OnTrack, NEW c \in todo, IsFirst(c, todo)
    PROVE  \E e \in Planned : NextIs(e, c) /\ registry[e] = c.from
  <1>1. PICK e \in Planned :
              \/ MoveOf(e) \in Direct /\ c = MoveAtOnce(MoveOf(e))
              \/ MoveOf(e) \in Rotating /\ c = Park(MoveOf(e))
              \/ MoveOf(e) \in Rotating /\ c = Release(MoveOf(e))
    BY CallOf DEF OnTrack
  <1>2. registry[e] = Place(MoveOf(e))
    BY PlannedType DEF OnTrack
  <1>3. MoveOf(e) \in Rotating => MoveOf(e) \notin Direct
    BY DEF Direct
  <1>4. c = Release(MoveOf(e)) => Park(MoveOf(e)) \notin todo
    BY FirstPass, PassesDiffer
  <1>. QED
    BY <1>1, <1>2, <1>3, <1>4, PassesDiffer DEF Place, NextIs

-----------------------------------------------------------------------------
(* A call that succeeds.                                                   *)

plan == <<Planned, Moves, Rotating, Direct, Duplicated, External, AllCalls>>

\* The plan depends on what was read only.
LEMMA SamePlan ==
    ASSUME UNCHANGED <<listed, aim>>
    PROVE  /\ UNCHANGED plan
           /\ \A e : MoveOf(e)' = MoveOf(e)
           /\ \A m : /\ Index(m)' = Index(m) /\ MoveAtOnce(m)' = MoveAtOnce(m)
                     /\ Park(m)' = Park(m) /\ Release(m)' = Release(m)
  BY DEF plan, Planned, Moves, Rotating, Direct, Duplicated, External, AllCalls,
         Leaving, MoveOf, Index, MoveAtOnce, Park, Release, Call

\* It moves the entity the call was planned for.
LEMMA Mover ==
    ASSUME RunInv, NEW e \in Entities, NEW c \in todo, Rename(e, c)
    PROVE  e \in Planned /\ NextIs(e, c)
  <1>1. OnTrack /\ ReadOK /\ Injective(registry) /\ DOMAIN listed \subseteq DOMAIN registry
    BY DEF RunInv, TypeOK, ReadOK, Rename
  <1>2. PICK d \in Planned : NextIs(d, c) /\ registry[d] = c.from
    BY <1>1, NextCall DEF Rename
  <1>3. d = e
    BY <1>1, <1>2, PlannedType DEF Injective, Rename, Accepts
  <1>. QED
    BY <1>2, <1>3

\* After the call, the move of its entity has got to where the call leads, and
\* every other is where it was.
LEMMA Progress ==
    ASSUME ReadOK, OnTrack, Injective(listed),
           NEW e \in Planned, NEW c \in todo, NextIs(e, c),
           UNCHANGED <<listed, aim>>, todo' = todo \ {c}
    PROVE  /\ Place(MoveOf(e))' = c.to
           /\ \A d \in Planned : d # e => Place(MoveOf(d))' = Place(MoveOf(d))
           /\ \A m \in Rotating : Park(m) \in todo' => Release(m) \in todo'
  <1>1. ~Duplicated
    BY DEF OnTrack, Conflict
  <1>2. /\ UNCHANGED <<Direct, Rotating>> /\ MoveOf(e)' = MoveOf(e)
        /\ \A m : /\ Index(m)' = Index(m) /\ MoveAtOnce(m)' = MoveAtOnce(m)
                  /\ Park(m)' = Park(m) /\ Release(m)' = Release(m)
    BY SamePlan DEF plan
  <1>3. \A d : MoveOf(d)' = MoveOf(d)
    BY SamePlan
  <1>4. \A m \in Rotating : m \notin Direct
    BY DEF Direct
  <1>5. Place(MoveOf(e))' = c.to
    <2>1. CASE MoveOf(e) \in Direct /\ c = MoveAtOnce(MoveOf(e))
      BY <1>2, <2>1, PassesDiffer DEF Place
    <2>2. CASE MoveOf(e) \in Rotating /\ c = Park(MoveOf(e))
      <3>1. Release(MoveOf(e)) \in todo'
        BY <2>2, PassesDiffer DEF OnTrack
      <3>. QED
        BY <1>2, <1>4, <2>2, <3>1, PassesDiffer DEF Place
    <2>3. CASE /\ MoveOf(e) \in Rotating /\ c = Release(MoveOf(e))
               /\ Park(MoveOf(e)) \notin todo
      BY <1>2, <1>4, <2>3, PassesDiffer DEF Place
    <2>. QED
      BY <2>1, <2>2, <2>3 DEF NextIs
  <1>6. ASSUME NEW d \in Planned, d # e
        PROVE  /\ c # MoveAtOnce(MoveOf(d)) /\ c # Park(MoveOf(d))
               /\ c # Release(MoveOf(d))
    BY <1>1, <1>6, CallsDiffer, PassesDiffer DEF NextIs
  <1>7. ASSUME NEW d \in Planned, d # e
        PROVE  Place(MoveOf(d))' = Place(MoveOf(d))
    BY <1>2, <1>3, <1>6, <1>7 DEF Place
  <1>8. ASSUME NEW m \in Rotating, Park(m) \in todo'
        PROVE  Release(m) \in todo'
    <2>1. PICK d \in Planned : m = MoveOf(d)
      BY DEF Rotating, Moves
    <2>2. Park(m) \in todo /\ Release(m) \in todo
      BY <1>2, <1>8 DEF OnTrack
    <2>3. CASE d # e
      BY <1>2, <1>6, <2>1, <2>2, <2>3
    <2>4. CASE d = e
      <3>1. c # Release(m)
        BY <2>1, <2>2, <2>4, PassesDiffer DEF NextIs
      <3>. QED
        BY <1>2, <2>2, <3>1
    <2>. QED
      BY <2>3, <2>4
  <1>. QED
    BY <1>2, <1>5, <1>7, <1>8

LEMMA RenameType ==
    ASSUME RunInv, NEW e \in Entities, NEW c \in todo, Rename(e, c)
    PROVE  TypeOK'
  <1>. USE DEF RunInv, TypeOK, Rename
  <1>1. c \in Calls /\ c.to \in Ids
    BY DEF Calls
  <1>2. registry' \in Registries
    BY <1>1 DEF Registries, Accepts
  <1>3. phase' \in Phases /\ outcome' \in Outcomes
    BY DEF Phases, Outcomes
  <1>. QED
    BY <1>2, <1>3

LEMMA RenameStep ==
    ASSUME RunInv, NEW e \in Entities, NEW c \in todo, Rename(e, c)
    PROVE  RunInv'
  <1>1. /\ OnTrack /\ ReadOK /\ Injective(registry) /\ Injective(listed)
        /\ DOMAIN listed \subseteq DOMAIN registry
        /\ phase = "moving"
    BY DEF RunInv, TypeOK, ReadOK, Rename
  <1>2. e \in Planned /\ NextIs(e, c)
    BY Mover
  <1>3. /\ e \in DOMAIN registry /\ FreeFor(c.to, e)
        /\ registry' = [registry EXCEPT ![e] = c.to]
        /\ todo' = todo \ {c} /\ UNCHANGED <<listed, aim>>
        /\ DOMAIN registry' = DOMAIN registry
    BY DEF Rename, Accepts
  <1>4. Injective(registry') /\ Injective(listed')
    BY <1>1, <1>3 DEF Injective, FreeFor
  <1>5. /\ UNCHANGED plan /\ \A d : MoveOf(d)' = MoveOf(d)
        /\ \A m : Park(m)' = Park(m) /\ Release(m)' = Release(m)
    BY <1>3, SamePlan
  <1>6. OnTrack'
    <2>1. todo' \subseteq AllCalls' /\ ~Conflict'
      BY <1>1, <1>3, <1>5 DEF OnTrack, plan, Conflict
    <2>2. (\A m \in Rotating : Park(m) \in todo => Release(m) \in todo)'
      BY <1>1, <1>2, <1>3, <1>5, Progress DEF plan
    <2>3. ASSUME NEW d \in DOMAIN listed
          PROVE  registry'[d] = IF d \in Planned THEN Place(MoveOf(d))' ELSE listed[d]
      <3>1. CASE d = e
        BY <1>1, <1>2, <1>3, <2>3, <3>1, Progress
      <3>2. CASE d # e
        BY <1>1, <1>2, <1>3, <2>3, <3>2, Progress DEF OnTrack
      <3>. QED
        BY <3>1, <3>2
    <2>. QED
      BY <1>3, <1>5, <2>1, <2>2, <2>3 DEF OnTrack, plan
  <1>7. ReportIsTrue'
    <2>. SUFFICES ASSUME todo' = {}, NEW d \in Own \cap DOMAIN listed
                  PROVE  registry'[d] = aim[d]
      BY <1>1, <1>3 DEF ReportIsTrue, Rename
    <2>1. CASE d \in Planned
      BY <1>3, <1>5, <1>6, <2>1, PlannedType, <1>1 DEF OnTrack, Place, plan
    <2>2. CASE d \notin Planned
      BY <1>3, <1>5, <1>6, <2>2 DEF OnTrack, plan, Planned
    <2>. QED
      BY <2>1, <2>2
  <1>8. phase' # "listed"
    BY <1>1 DEF Rename
  <1>. QED
    BY <1>1, <1>3, <1>4, <1>6, <1>7, <1>8, RenameType DEF RunInv

-----------------------------------------------------------------------------
(* The other actions.                                                      *)

LEMMA RegisterStep ==
    ASSUME RunInv, NEW e \in Entities, NEW id \in Names, Register(e, id)
    PROVE  RunInv'
  <1>. USE DEF RunInv, TypeOK, Register, run
  <1>1. UNCHANGED plan /\ \A d : MoveOf(d)' = MoveOf(d)
    BY SamePlan
  <1>2. \A d \in Planned : Place(MoveOf(d))' = Place(MoveOf(d))
    BY <1>1, SamePlan DEF plan, Place
  <1>3. registry' \in Registries
    BY DEF Registries, Ids
  <1>4. Injective(registry')
    BY DEF Injective, IdsIn
  <1>5. phase = "listed" => ListIsTrue'
    BY DEF ListIsTrue
  <1>6. \A d \in DOMAIN listed : registry'[d] = registry[d]
    OBVIOUS
  <1>7. phase = "moving" => OnTrack'
    <2>1. phase = "moving" => ~Conflict' /\ todo' \subseteq AllCalls'
      BY <1>1 DEF OnTrack, Conflict, plan
    <2>2. phase = "moving" =>
             \A m \in Rotating' : Park(m)' \in todo' => Release(m)' \in todo'
      BY <1>1, SamePlan DEF OnTrack, plan
    <2>3. ASSUME phase = "moving", NEW d \in DOMAIN listed'
          PROVE  registry'[d] = IF d \in Planned' THEN Place(MoveOf(d))' ELSE listed'[d]
      BY <1>1, <1>2, <1>6, <2>3 DEF OnTrack, plan
    <2>. QED
      BY <2>1, <2>2, <2>3 DEF OnTrack
  <1>8. ReportIsTrue'
    BY <1>6 DEF ReportIsTrue
  <1>. QED
    BY <1>3, <1>4, <1>5, <1>7, <1>8

LEMMA PlanStep ==
    ASSUME RunInv, Plan
    PROVE  RunInv'
  <1>. USE DEF RunInv, TypeOK, Plan, ReadWanted
  <1>1. ListIsTrue /\ todo' = AllCalls' /\ ~Conflict'
    OBVIOUS
  <1>2. AllCalls' \subseteq Calls
    <2>1. ReadOK'
      BY DEF ReadOK
    <2>2. (ReadOK => AllCalls \subseteq Calls)'
      BY CallsType, PTL
    <2>. QED
      BY <2>1, <2>2 DEF Calls
  <1>3. \A m \in Rotating' : Release(m)' \in todo'
    BY DEF AllCalls
  <1>4. ASSUME NEW d \in DOMAIN listed'
        PROVE  registry'[d] = IF d \in Planned' THEN Place(MoveOf(d))' ELSE listed'[d]
    <2>1. CASE d \in Planned'
      <3>1. MoveOf(d)' \in Moves' /\ MoveOf(d)'.from = listed'[d]
        BY <2>1 DEF Moves, MoveOf
      <3>2. CASE MoveOf(d)' \in Direct'
        <4>1. MoveAtOnce(MoveOf(d))' \in todo'
          BY <3>2 DEF AllCalls
        <4>. QED
          BY <1>1, <1>4, <2>1, <3>1, <3>2, <4>1 DEF Place, ListIsTrue
      <3>3. CASE MoveOf(d)' \notin Direct'
        <4>1. MoveOf(d)' \in Rotating'
          BY <3>1, <3>3 DEF Direct
        <4>2. Park(MoveOf(d))' \in todo'
          BY <4>1 DEF AllCalls
        <4>. QED
          BY <1>1, <1>4, <2>1, <3>1, <3>3, <4>2 DEF Place, ListIsTrue
      <3>. QED
        BY <3>2, <3>3
    <2>2. CASE d \notin Planned'
      BY <1>1, <1>4, <2>2 DEF ListIsTrue
    <2>. QED
      BY <2>1, <2>2
  <1>5. OnTrack'
    BY <1>1, <1>3, <1>4 DEF OnTrack
  <1>. QED
    BY <1>2, <1>5 DEF ReportIsTrue, Phases

LEMMA NothingStep ==
    ASSUME RunInv, Nothing
    PROVE  RunInv'
  <1>. USE DEF RunInv, TypeOK, Nothing, ReadWanted
  <1>1. ReportIsTrue'
    BY DEF ReportIsTrue, ListIsTrue, Planned
  <1>. QED
    BY <1>1 DEF Phases, Outcomes, Injective

LEMMA RunStep == RunInv /\ [Next]_vars => RunInv'
  <1>. SUFFICES ASSUME RunInv, [Next]_vars
                PROVE  RunInv'
    OBVIOUS
  <1>1. CASE List
    BY <1>1 DEF RunInv, TypeOK, List, ListIsTrue, ReportIsTrue, Phases, Outcomes, Injective
  <1>2. CASE Nothing
    BY <1>2, NothingStep
  <1>3. CASE Refuse
    BY <1>3 DEF RunInv, TypeOK, Refuse, ReadWanted, ReportIsTrue, Phases, Outcomes, Injective
  <1>4. CASE Plan
    BY <1>4, PlanStep
  <1>5. ASSUME NEW e \in Entities, NEW c \in todo, Rename(e, c)
        PROVE  RunInv'
    BY <1>5, RenameStep
  <1>6. ASSUME NEW c \in todo, Refused(c)
        PROVE  RunInv'
    BY <1>6 DEF RunInv, TypeOK, Refused, AfterRefusal, ReportIsTrue, Phases, Outcomes, Injective
  <1>7. CASE Stop
    BY <1>7 DEF RunInv, TypeOK, Stop, ReportIsTrue, Phases, Outcomes, Injective
  <1>8. ASSUME NEW e \in Entities, NEW id \in Names, Register(e, id)
        PROVE  RunInv'
    BY <1>8, RegisterStep
  <1>9. CASE UNCHANGED <<registry, run, stops>> /\ want' \in [Own -> Names]
               /\ remaps' \in 0..MaxRemaps
    <2>1. UNCHANGED plan /\ \A d : MoveOf(d)' = MoveOf(d)
      BY <1>9, SamePlan DEF run
    <2>2. UNCHANGED <<OnTrack, ListIsTrue, ReportIsTrue>>
      <3>1. \A d : Place(MoveOf(d))' = Place(MoveOf(d))
        BY <1>9, <2>1, SamePlan DEF plan, Place, run
      <3>2. OnTrack' = OnTrack
        BY <1>9, <2>1, <3>1, SamePlan DEF plan, OnTrack, Conflict, run
      <3>. QED
        BY <1>9, <3>2 DEF ListIsTrue, ReportIsTrue, run
    <2>. QED
      BY <1>9, <2>2 DEF RunInv, TypeOK, run, Injective
  <1>10. ASSUME NEW e \in Own, NEW id \in Names, Remap(e, id)
         PROVE  RunInv'
    BY <1>9, <1>10 DEF RunInv, TypeOK, Remap
  <1>11. CASE UNCHANGED vars
    BY <1>9, <1>11 DEF vars, RunInv, TypeOK
  <1>. QED
    BY <1>1, <1>2, <1>3, <1>4, <1>5, <1>6, <1>7, <1>8, <1>10, <1>11 DEF Next, Script

LEMMA RunInit == Init => RunInv
  BY DEF Init, RunInv, TypeOK, ReportIsTrue, Registries, Ids, Phases, Outcomes,
         Injective, Calls

-----------------------------------------------------------------------------
(* The theorems.                                                           *)

\* A run knows where each entity is that it listed, whatever registers,
\* changes or breaks off meanwhile.
THEOREM RunCorrect == Spec => []RunInv
  BY RunInit, RunStep, PTL DEF Spec

\* Every variable has its type.
THEOREM TypeCorrect == Spec => []TypeOK
  <1>1. RunInv => TypeOK
    BY DEF RunInv
  <1>. QED
    BY <1>1, RunCorrect, PTL

\* What a run reports is so: all it listed is where it aimed.
THEOREM TrueReport == Spec => []ReportIsTrue
  <1>1. RunInv => ReportIsTrue
    BY DEF RunInv
  <1>. QED
    BY <1>1, RunCorrect, PTL

\* Every call moves the entity it was planned for, onto the id it aims at or a
\* temporary one.
THEOREM Ownership == Spec => EachToItsOwn
  <1>. DEFINE Kept == \A e \in DOMAIN registry :
                        registry'[e] # registry[e] =>
                            e \in Own /\ registry'[e] \in Temporaries \cup {aim[e]}
  <1>1. ASSUME RunInv, NEW e \in Entities, NEW c \in todo, Rename(e, c)
        PROVE  Kept
    <2>1. e \in Planned /\ NextIs(e, c)
      BY <1>1, Mover
    <2>2. ReadOK
      BY <1>1 DEF RunInv, TypeOK, ReadOK
    <2>3. c.to \in Temporaries \cup {aim[e]}
      BY <2>1, <2>2, PlannedType, PassesDiffer, IndexType DEF NextIs
    <2>. QED
      BY <1>1, <2>1, <2>3 DEF Rename, Planned
  <1>2. RunInv /\ [Next]_vars => [Kept]_vars
    <2>. SUFFICES ASSUME RunInv, Next
                  PROVE  Kept
      OBVIOUS
    <2>1. CASE UNCHANGED registry
      BY <2>1
    <2>2. ASSUME NEW e \in Entities, NEW id \in Names, Register(e, id)
          PROVE  Kept
      BY <2>2 DEF Register
    <2>. QED
      BY <1>1, <2>1, <2>2
      DEF Next, Script, List, Nothing, Refuse, Plan, ReadWanted, Refused, Stop, Remap
  <1>. QED
    BY <1>2, RunCorrect, PTL DEF Spec, EachToItsOwn

\* A direct move leads to an id that nobody had and no other move leads to; a
\* park, to a place of its own; a release, to an id that its holder has left,
\* since all are parked by then.
LEMMA NextIsClear ==
    ASSUME RunInv, ~FoundParked, NobodyCame, phase = "moving",
           NEW c \in todo, IsFirst(c, todo)
    PROVE  \E e \in Entities : Accepts(e, c)
  <1>1. /\ OnTrack /\ ReadOK /\ Injective(listed) /\ ~Duplicated /\ ~External
        /\ DOMAIN registry = DOMAIN listed
    BY DEF RunInv, TypeOK, ReadOK, OnTrack, Conflict, NobodyCame
  <1>2. PICK e \in Planned : NextIs(e, c) /\ registry[e] = c.from
    BY <1>1, NextCall
  <1>3. e \in Entities /\ e \in DOMAIN registry /\ MoveOf(e) \in Moves
    BY <1>1, <1>2, PlannedType DEF Entities
  <1>4. \A m \in Rotating : m \notin Direct
    BY DEF Direct
  <1>5. ASSUME NEW d \in DOMAIN registry, registry[d] = c.to
        PROVE  d = e
    <2>1. listed[d] \in IdsIn(listed) /\ listed[d] \notin Temporaries
      BY <1>1 DEF FoundParked, IdsIn
    <2>2. registry[d] = IF d \in Planned THEN Place(MoveOf(d)) ELSE listed[d]
      BY <1>1 DEF OnTrack
    <2>3. d \in Planned => /\ MoveOf(d).from = listed[d] /\ MoveOf(d).to = aim[d]
                           /\ aim[d] \notin Temporaries
                           /\ MoveOf(d) \in Direct \/ MoveOf(d) \in Rotating
      BY <1>1, PlannedType, NamesAssumption DEF Direct
    <2>4. d \in Planned /\ d # e => aim[d] # aim[e]
      BY <1>1, CallsDiffer
    <2>5. CASE MoveOf(e) \in Direct /\ c = MoveAtOnce(MoveOf(e))
      <3>1. aim[e] \notin IdsIn(listed) /\ c.to = aim[e] /\ aim[e] \notin Temporaries
        BY <1>1, <1>3, <2>5, PassesDiffer, PlannedType, NamesAssumption
        DEF External, Direct, Rotating
      <3>2. d \in Planned => registry[d] \in {listed[d], aim[d]} \cup Temporaries
        BY <1>1, <2>2, <2>3, IndexType DEF Place
      <3>. QED
        BY <1>5, <2>1, <2>2, <2>4, <3>1, <3>2
    <2>6. CASE MoveOf(e) \in Rotating /\ c = Park(MoveOf(e))
      <3>1. c.to = Index(MoveOf(e)) /\ c.to \in Temporaries
        BY <1>1, <2>6, PassesDiffer, IndexType
      <3>2. d \in Planned /\ MoveOf(d) \in Rotating /\ registry[d] = Index(MoveOf(d))
        BY <1>5, <2>1, <2>2, <2>3, <3>1 DEF Place
      <3>. QED
        BY <1>1, <1>2, <1>5, <2>6, <3>1, <3>2, IndexUnique
    <2>7. CASE MoveOf(e) \in Rotating /\ c = Release(MoveOf(e))
      <3>1. c.to = aim[e] /\ aim[e] \in Leaving /\ aim[e] \notin Temporaries
        BY <1>1, <2>7, PassesDiffer, PlannedType, NamesAssumption DEF Rotating
      <3>2. PICK f \in Planned : aim[e] = listed[f]
        BY <1>1, <3>1, PlannedType DEF Leaving, Moves
      <3>3. \A m : MoveAtOnce(m) \notin todo /\ Park(m) \notin todo
        BY <2>7, FirstPass, PassesDiffer
      <3>4. d \in Planned => registry[d] \in {aim[d]} \cup Temporaries
        BY <1>1, <1>4, <2>2, <2>3, <3>3, IndexType DEF Place
      <3>5. d \notin Planned => d = f
        BY <1>1, <1>5, <2>2, <3>1, <3>2, PlannedType DEF Injective
      <3>. QED
        BY <1>5, <2>4, <3>1, <3>2, <3>4, <3>5
    <2>. QED
      BY <1>2, <2>5, <2>6, <2>7 DEF NextIs
  <1>. QED
    BY <1>2, <1>3, <1>5 DEF Accepts, FreeFor

\* A run that finds nobody parked, and sees nobody register, never walks into
\* an id in use, for any permutation of any number of ids.
THEOREM ClearWay == Spec => []NoCollision
  <1>1. RunInv => NoCollision
    BY NextIsClear DEF NoCollision, WayIsClear
  <1>. QED
    BY <1>1, RunCorrect, PTL

=============================================================================
