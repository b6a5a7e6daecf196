----------------------------- MODULE Bridge_proofs -----------------------------
(* Freshness and truth of what the bridge shows, for any fixtures and bounds. *)
EXTENDS Bridge, TLAPS

USE FixturesAssumption, LevelsAssumption, ModesAssumption, BoundsAssumption

\* What each action of Next does, one disjunct at a time, so that the proofs
\* below split on a named list.
LEMMA Cases ==
    ASSUME Next
    PROVE  \/ \E f \in Fixtures, p \in AllParts, l \in Levels \cup {NoLevel} :
                 Press(f, p, l)
           \/ \E f \in Fixtures : \E sent \in Commands(f) : Command(f, sent)
           \/ \E f \in Fixtures : \E sent \in Commands(f) : CommandFails(f, sent)
           \/ Open \/ Connect \/ (\E f \in Fixtures : Mark(f)) \/ StartPumps
           \/ Ignore \/ HandleFrame \/ Publish
           \/ Crash \/ Exit \/ WillFires
  BY DEF Next, Session, Pumps, Parts, AllParts

\* A command sets levels only (Commands), so a lamp keeps its type.
LEMMA OverlayType ==
    ASSUME NEW f \in Fixtures, NEW sent \in Commands(f), NEW old \in LevelsOf
    PROVE  Overlay(old, sent) \in LevelsOf
  <1>1. PICK parts \in SUBSET AllParts : sent \in [parts -> Levels]
    BY DEF Commands, Parts, AllParts
  <1>. QED
    BY <1>1 DEF Overlay, LevelsOf

\* A command is of parts the fixtures have (Commands).
LEMMA SentParts ==
    ASSUME NEW f \in Fixtures, NEW sent \in Commands(f)
    PROVE  DOMAIN sent \subseteq AllParts
  <1>1. PICK parts \in SUBSET AllParts : sent \in [parts -> Levels]
    BY DEF Commands, Parts, AllParts
  <1>. QED
    BY <1>1

\* The frame at the head of the reader, and what is left of it.
LEMMA HeadType ==
    ASSUME NEW q \in Seq(Frame), q # <<>>
    PROVE  /\ Head(q) \in Frame
           /\ Tail(q) \in Seq(Frame)
           /\ Len(Tail(q)) = Len(q) - 1
           /\ \A i \in 1..Len(Tail(q)) : Tail(q)[i] = q[i + 1]
           /\ Head(q) = q[1]
           /\ Len(q) \in Nat \ {0}
  OBVIOUS

\* Types: the one of each variable survives every action.
LEMMA TypeStep ==
    ASSUME TypeOK, Next
    PROVE  TypeOK'
  <1>. USE DEF TypeOK
  <1>1. ASSUME NEW f \in Fixtures, NEW p \in AllParts,
               NEW l \in Levels \cup {NoLevel}, Press(f, p, l)
        PROVE  TypeOK'
    <2>1. lamp' \in [Fixtures -> LevelsOf]
      <3>1. CASE l = NoLevel
        BY <1>1, <3>1 DEF Press
      <3>2. CASE l # NoLevel
        BY <1>1, <3>2 DEF Press, LevelsOf
      <3>. QED
        BY <3>1, <3>2
    <2>2. [of |-> f, part |-> p, level |-> l] \in Frame
      BY <1>1 DEF Frame
    <2>3. reader' \in Seq(Frame)
      BY <1>1, <2>2 DEF Press
    <2>. QED
      BY <1>1, <2>1, <2>3 DEF Press, topics
  <1>2. ASSUME NEW f \in Fixtures, NEW sent \in Commands(f), Command(f, sent)
        PROVE  TypeOK'
    <2>1. lamp' \in [Fixtures -> LevelsOf]
      BY <1>2, OverlayType DEF Command
    <2>2. ours' \subseteq Fixtures \X AllParts
      BY <1>2, SentParts DEF Command
    <2>. QED
      BY <1>2, <2>1, <2>2 DEF Command, topics
  <1>3. ASSUME Stop PROVE /\ phase' \in Phases
                          /\ reader' \in Seq(Frame)
                          /\ can' \in Publishing \cup {Waiting}
                          /\ marks' \subseteq Fixtures
                          /\ ends' \in 0..MaxEnds
                          /\ levels' \in [Fixtures -> LevelsOf]
                          /\ fresh' = {} /\ ours' = {}
                          /\ UNCHANGED <<listen, status, seen, state>>
    BY <1>3 DEF Stop, Phases, topics, LevelsOf, Dark, Levels
  <1>4. ASSUME NEW f \in Fixtures, NEW sent \in Commands(f), CommandFails(f, sent)
        PROVE  TypeOK'
    <2>1. lamp' \in [Fixtures -> LevelsOf]
      BY <1>4, OverlayType DEF CommandFails
    <2>. QED
      BY <1>4, <1>3, <2>1 DEF CommandFails
  <1>5. CASE Open
    BY <1>5 DEF Open, bus, topics, history, Phases
  <1>6. CASE Connect
    BY <1>6 DEF Connect, ToMark, bus, history, Phases
  <1>7. CASE \E f \in Fixtures : Mark(f)
    BY <1>7 DEF Mark, bus, history
  <1>8. CASE StartPumps
    BY <1>8 DEF StartPumps, bus, topics, history, Phases
  <1>9. CASE Ignore
    BY <1>9, HeadType DEF Ignore, topics, history
  <1>10. CASE HandleFrame
    <2>. DEFINE m == Head(reader)
    <2>1. m \in Frame /\ reader' \in Seq(Frame)
      BY <1>10, HeadType DEF HandleFrame
    <2>2. m.of \in Fixtures /\ m.part \in AllParts /\ m.level \in Levels
      BY <1>10, <2>1 DEF HandleFrame, Frame, HasLevel
    <2>3. levels' = [levels EXCEPT ![m.of][m.part] = m.level]
      BY <1>10 DEF HandleFrame
    <2>4. can' = [pc |-> "state", of |-> m.of, part |-> m.part, value |-> levels'[m.of]]
      BY <1>10 DEF HandleFrame
    <2>. HIDE DEF m
    <2>5. levels' \in [Fixtures -> LevelsOf]
      BY <2>2, <2>3 DEF LevelsOf
    <2>6. can' \in Publishing
      BY <2>2, <2>4, <2>5 DEF Publishing
    <2>. QED
      BY <1>10, <2>1, <2>5, <2>6 DEF HandleFrame, topics, history
  <1>11. CASE Publish
    <2>1. can \in Publishing
      BY <1>11 DEF Publish, Waiting
    <2>2. /\ can.of \in Fixtures /\ can.part \in AllParts
          /\ can.value \in LevelsOf /\ can.pc \in {"state", "seen"}
      BY <2>1 DEF Publishing
    <2>3. can' \in Publishing \cup {Waiting}
      BY <1>11, <2>1 DEF Publish, Publishing
    <2>. QED
      BY SMTT(30), <1>11, <2>2, <2>3 DEF Publish, StateFirst, WriteState, WriteSeen, bus
  <1>12. CASE Crash
    BY <1>12, <1>3 DEF Crash
  <1>13. CASE Exit
    BY <1>13, <1>3 DEF Exit
  <1>14. CASE WillFires
    BY <1>14 DEF WillFires, bus, history
  <1>. QED
    BY Cases, <1>1, <1>2, <1>4, <1>5, <1>6, <1>7, <1>8, <1>9, <1>10, <1>11,
       <1>12, <1>13, <1>14

LEMMA TypeInit == Init => TypeOK
  <1>1. Dark \in LevelsOf
    BY DEF Dark, LevelsOf, Levels
  <1>2. <<>> \in Seq(Frame) /\ 0 \in 0..MaxEnds
    OBVIOUS
  <1>. QED
    BY <1>1, <1>2 DEF Init, TypeOK, Phases

LEMMA TypeStutter == TypeOK /\ UNCHANGED vars => TypeOK'
  BY DEF TypeOK, vars, bus, topics, history

\* The bridge's variables and the retained topics keep their types, whatever
\* fixtures, levels and bounds there are.
THEOREM TypeCorrect == Spec => []TypeOK
  <1>1. TypeOK /\ [Next]_vars => TypeOK'
    BY TypeStep, TypeStutter
  <1>. QED
    BY TypeInit, <1>1, PTL DEF Spec

-----------------------------------------------------------------------------
(* Freshness *)

\* The publishing record, taken apart.
LEMMA CanType ==
    ASSUME TypeOK, can.pc # "wait"
    PROVE  /\ can \in Publishing
           /\ can.pc \in {"state", "seen"}
           /\ can.of \in Fixtures
           /\ can.part \in AllParts
           /\ can.value \in LevelsOf
  <1>1. can \in Publishing
    BY DEF TypeOK, Waiting
  <1>. QED
    BY <1>1 DEF Publishing

\* A session that ends leaves nothing that a property of the running phase
\* speaks of.
LEMMA StopIsFresh ==
    ASSUME TypeOK, Stop
    PROVE  SessionShape' /\ SeenIsFresh'
  BY DEF Stop, SessionShape, SeenIsFresh, Waiting, topics

LEMMA FreshStep ==
    ASSUME FreshInv, Next
    PROVE  FreshInv'
  <1>. USE DEF FreshInv
  <1>0. SUFFICES SessionShape' /\ SeenIsFresh'
    BY TypeStep
  <1>1. ASSUME NEW f \in Fixtures, NEW p \in AllParts,
               NEW l \in Levels \cup {NoLevel}, Press(f, p, l)
        PROVE  SessionShape' /\ SeenIsFresh'
    BY <1>1 DEF Press, SessionShape, SeenIsFresh, topics
  <1>2. ASSUME NEW f \in Fixtures, NEW sent \in Commands(f), Command(f, sent)
        PROVE  SessionShape' /\ SeenIsFresh'
    BY <1>2 DEF Command, SessionShape, SeenIsFresh, topics
  <1>3. ASSUME NEW f \in Fixtures, NEW sent \in Commands(f), CommandFails(f, sent)
        PROVE  SessionShape' /\ SeenIsFresh'
    BY <1>3, StopIsFresh DEF CommandFails
  <1>4. CASE Open
    BY <1>4 DEF Open, SessionShape, SeenIsFresh, Waiting, bus, topics, history
  <1>5. CASE Connect
    BY <1>5 DEF Connect, ToMark, SessionShape, SeenIsFresh, Waiting, bus, history
  <1>6. CASE \E f \in Fixtures : Mark(f)
    BY <1>6 DEF Mark, SessionShape, SeenIsFresh, TypeOK, bus, history
  <1>7. CASE StartPumps
    BY <1>7 DEF StartPumps, SessionShape, SeenIsFresh, Waiting, bus, topics, history
  <1>8. CASE Ignore
    BY <1>8 DEF Ignore, SessionShape, SeenIsFresh, topics, history
  <1>9. CASE HandleFrame
    BY <1>9 DEF HandleFrame, SessionShape, SeenIsFresh, topics, history
  <1>10. CASE Publish
    <2>1. phase = "running"
      BY <1>10 DEF Publish, SessionShape, Waiting
    <2>2. SessionShape'
      BY <1>10, <2>1 DEF Publish, SessionShape, StateFirst, WriteState, WriteSeen, bus
    <2>3. CASE can.pc = "state"
      BY <1>10, <2>1, <2>2, <2>3, CanType
         DEF Publish, StateFirst, WriteState, SeenIsFresh, bus, Publishing
    <2>4. CASE can.pc = "seen"
      BY <1>10, <2>1, <2>2, <2>4, CanType
         DEF Publish, StateFirst, WriteSeen, SeenIsFresh, Waiting, bus, TypeOK
    <2>. QED
      BY <1>10, <2>2, <2>3, <2>4, CanType DEF Publish
  <1>11. CASE Crash
    BY <1>11, StopIsFresh DEF Crash
  <1>12. CASE Exit
    BY <1>12, StopIsFresh DEF Exit
  <1>13. CASE WillFires
    BY <1>13 DEF WillFires, SessionShape, SeenIsFresh, bus, history
  <1>. QED
    BY Cases, <1>1, <1>2, <1>3, <1>4, <1>5, <1>6, <1>7, <1>8, <1>9,
       <1>10, <1>11, <1>12, <1>13

\* The inductive invariant: no mark of an earlier session survives the startup,
\* and none of this session runs ahead of its level.
THEOREM FreshCorrect == Spec => []FreshInv
  <1>1. Init => FreshInv
    BY TypeInit DEF Init, FreshInv, SessionShape, SeenIsFresh, Waiting
  <1>2. FreshInv /\ [Next]_vars => FreshInv'
    <2>1. ASSUME FreshInv, UNCHANGED vars PROVE FreshInv'
      BY <2>1, TypeStutter DEF FreshInv, SessionShape, SeenIsFresh, vars, bus, topics, history
    <2>. QED
      BY <2>1, FreshStep
  <1>. QED
    BY <1>1, <1>2, PTL DEF Spec

\* While the bridge runs, a fixture that Home Assistant shows as available was
\* published in this session, whatever came before (startup_publishes).
THEOREM Freshness == Spec => []AvailableIsFresh
  <1>1. FreshInv => AvailableIsFresh
    BY DEF FreshInv, SeenIsFresh, AvailableIsFresh, Available
  <1>. QED
    BY <1>1, FreshCorrect, PTL

-----------------------------------------------------------------------------
(* Truth *)

Truth == ReaderIsTrue /\ LevelsAreTrue /\ PublishedIsLevels

\* A command of the wall is the last one in the reader afterwards.
LEMMA PressIsTrue ==
    ASSUME FreshInv, Truth,
           NEW f \in Fixtures, NEW p \in AllParts,
           NEW l \in Levels \cup {NoLevel}, Press(f, p, l)
    PROVE  Truth'
  <1>1. CASE phase = "down"
    <2>1. reader' = <<>> /\ phase' # "running" /\ can' = Waiting
      BY <1>1 DEF Press, FreshInv, SessionShape
    <2>. QED
      BY <2>1 DEF Truth, ReaderIsTrue, LevelsAreTrue, PublishedIsLevels, Waiting
  <1>2. CASE phase # "down"
    <2>. DEFINE m == [of |-> f, part |-> p, level |-> l]
    <2>1. /\ reader \in Seq(Frame)
          /\ m \in Frame
          /\ reader' = Append(reader, m)
      BY <1>2 DEF Press, FreshInv, TypeOK, Frame
    <2>2. /\ Len(reader') = Len(reader) + 1
          /\ Len(reader) \in Nat
          /\ \A i \in 1..Len(reader) : reader'[i] = reader[i]
          /\ reader'[Len(reader) + 1] = m
      BY <2>1
    <2>3. UNCHANGED <<phase, levels, can, state, seen, fresh>>
      BY DEF Press, topics
    <2>9. \A g \in Fixtures, q \in AllParts :
             <<g, q>> \notin ours' => Sets(m, g, q) \/ <<g, q>> \notin ours
      BY DEF Press, Sets
    <2>4. \A g \in Fixtures, q \in AllParts :
             lamp'[g][q] = IF Sets(m, g, q) THEN m.level ELSE lamp[g][q]
      <3>1. CASE l = NoLevel
        BY <3>1 DEF Press, Sets
      <3>2. CASE l # NoLevel
        BY <3>2 DEF Press, Sets, FreshInv, TypeOK, LevelsOf
      <3>. QED
        BY <3>1, <3>2
    <2>. HIDE DEF m
    <2>5. ReaderIsTrue'
      <3>1. SUFFICES ASSUME NEW g \in Fixtures, NEW q \in AllParts,
                            NEW i \in 1..Len(reader'),
                            <<g, q>> \notin ours',
                            Sets(reader'[i], g, q),
                            \A j \in i+1..Len(reader') : ~Sets(reader'[j], g, q)
                     PROVE  lamp'[g][q] = reader'[i].level
        BY DEF ReaderIsTrue, Sets
      <3>2. CASE i = Len(reader) + 1
        BY <2>2, <2>4, <3>1, <3>2
      <3>3. CASE i # Len(reader) + 1
        <4>1. i \in 1..Len(reader) /\ Len(reader) + 1 \in i+1..Len(reader')
          BY <2>2, <3>3
        <4>2. ~Sets(m, g, q)
          BY <2>2, <3>1, <4>1
        <4>3. \A j \in i+1..Len(reader) : ~Sets(reader[j], g, q)
          BY <2>2, <3>1, <4>1
        <4>4. Sets(reader[i], g, q) /\ reader'[i] = reader[i]
          BY <2>2, <3>1, <4>1
        <4>. QED
          BY SMTT(30), <2>4, <2>9, <3>1, <4>1, <4>2, <4>3, <4>4 DEF Truth, ReaderIsTrue
      <3>. QED
        BY <3>2, <3>3
    <2>6. LevelsAreTrue'
      <3>1. SUFFICES ASSUME NEW g \in Fixtures, NEW q \in AllParts,
                            phase = "running", Known(g, q), <<g, q>> \notin ours',
                            \A i \in 1..Len(reader') : ~Sets(reader'[i], g, q)
                     PROVE  levels[g][q] = lamp'[g][q]
        BY <2>3 DEF LevelsAreTrue, Known, Sets
      <3>2. \A i \in 1..Len(reader) : ~Sets(reader[i], g, q)
        BY <2>2, <3>1
      <3>3. ~Sets(m, g, q)
        BY <2>2, <3>1
      <3>. QED
        BY <2>4, <2>9, <3>1, <3>2, <3>3 DEF Truth, LevelsAreTrue
    <2>7. PublishedIsLevels'
      BY <2>3 DEF Truth, PublishedIsLevels, IsPublishing
    <2>. QED
      BY <2>5, <2>6, <2>7 DEF Truth
  <1>. QED
    BY <1>1, <1>2

\* Taking a frame off the reader keeps what the rest of it claims.
LEMMA TailIsTrue ==
    ASSUME TypeOK, reader # <<>>, ReaderIsTrue, reader' = Tail(reader), lamp' = lamp,
           ours' = ours
    PROVE  ReaderIsTrue'
  <1>1. /\ Len(reader') = Len(reader) - 1
        /\ Len(reader) \in Nat \ {0}
        /\ \A i \in 1..Len(reader') : reader'[i] = reader[i + 1]
    BY HeadType DEF TypeOK
  <1>2. SUFFICES ASSUME NEW g \in Fixtures, NEW q \in AllParts,
                        NEW i \in 1..Len(reader'),
                        <<g, q>> \notin ours,
                        Sets(reader'[i], g, q),
                        \A j \in i+1..Len(reader') : ~Sets(reader'[j], g, q)
                 PROVE  lamp[g][q] = reader'[i].level
    BY ZenonT(30) DEF ReaderIsTrue, Sets
  <1>3. i + 1 \in 1..Len(reader) /\ reader'[i] = reader[i + 1]
    BY <1>1
  <1>4. ASSUME NEW j \in (i+1)+1..Len(reader)
        PROVE  ~Sets(reader[j], g, q)
    <2>1. j - 1 \in i+1..Len(reader') /\ j - 1 \in 1..Len(reader')
      BY <1>1
    <2>2. reader'[j - 1] = reader[j]
      BY <1>1, <2>1
    <2>. QED
      BY <1>2, <2>1, <2>2
  <1>. QED
    BY <1>2, <1>3, <1>4 DEF ReaderIsTrue

LEMMA IgnoreIsTrue ==
    ASSUME FreshInv, Truth, Ignore
    PROVE  Truth'
  <1>1. /\ reader # <<>> /\ reader \in Seq(Frame) /\ reader' = Tail(reader)
        /\ Head(reader).level = NoLevel
        /\ UNCHANGED <<lamp, phase, levels, can, state, seen, fresh, ours>>
    BY DEF Ignore, HasLevel, FreshInv, TypeOK, topics, history
  <1>2. ReaderIsTrue'
    BY <1>1, TailIsTrue DEF Truth, FreshInv
  <1>3. LevelsAreTrue'
    <2>1. SUFFICES ASSUME NEW g \in Fixtures, NEW q \in AllParts,
                          phase = "running", Known(g, q), <<g, q>> \notin ours,
                          \A i \in 1..Len(reader') : ~Sets(reader'[i], g, q)
                   PROVE  levels[g][q] = lamp[g][q]
      BY <1>1 DEF LevelsAreTrue, Known, Sets
    <2>2. ASSUME NEW i \in 1..Len(reader) PROVE ~Sets(reader[i], g, q)
      <3>1. CASE i = 1
        BY <1>1, <3>1, HeadType DEF Sets
      <3>2. CASE i # 1
        <4>1. i - 1 \in 1..Len(reader') /\ reader'[i - 1] = reader[i]
          BY <1>1, <3>2, HeadType
        <4>. QED
          BY <2>1, <4>1
      <3>. QED
        BY <3>1, <3>2
    <2>. QED
      BY <2>1, <2>2 DEF Truth, LevelsAreTrue
  <1>4. PublishedIsLevels'
    BY <1>1 DEF Truth, PublishedIsLevels, IsPublishing
  <1>. QED
    BY <1>2, <1>3, <1>4 DEF Truth

LEMMA HandleIsTrue ==
    ASSUME FreshInv, Truth, HandleFrame
    PROVE  Truth'
  <1>. DEFINE m == Head(reader)
  <1>1. /\ reader # <<>> /\ reader \in Seq(Frame) /\ reader' = Tail(reader)
        /\ can.pc = "wait"
        /\ UNCHANGED <<lamp, phase, state, seen, fresh, ours>>
    BY DEF HandleFrame, PumpIsFree, FreshInv, TypeOK, topics, history
  <1>2. /\ m \in Frame /\ m = reader[1]
        /\ m.of \in Fixtures /\ m.part \in AllParts /\ m.level # NoLevel
    BY <1>1, HeadType DEF HandleFrame, HasLevel, Frame
  <1>3. levels' = [levels EXCEPT ![m.of][m.part] = m.level]
    BY DEF HandleFrame
  <1>4. can' = [pc |-> "state", of |-> m.of, part |-> m.part, value |-> levels'[m.of]]
    BY DEF HandleFrame
  <1>5. levels \in [Fixtures -> [AllParts -> Levels]]
    BY DEF FreshInv, TypeOK, LevelsOf
  <1>. HIDE DEF m
  <1>6. ReaderIsTrue'
    BY <1>1, TailIsTrue DEF Truth, FreshInv
  <1>7. LevelsAreTrue'
    <2>1. SUFFICES ASSUME NEW g \in Fixtures, NEW q \in AllParts,
                          phase = "running", Known(g, q)', <<g, q>> \notin ours,
                          \A i \in 1..Len(reader') : ~Sets(reader'[i], g, q)
                   PROVE  levels'[g][q] = lamp[g][q]
      BY <1>1 DEF LevelsAreTrue, Sets
    <2>2. ASSUME NEW i \in 2..Len(reader) PROVE ~Sets(reader[i], g, q)
      <3>1. i - 1 \in 1..Len(reader') /\ reader'[i - 1] = reader[i]
        BY <1>1, HeadType
      <3>. QED
        BY <2>1, <3>1
    <2>3. CASE g = m.of /\ q = m.part
      <3>1. Sets(reader[1], g, q) /\ 1 \in 1..Len(reader)
        BY <1>1, <1>2, <2>3, HeadType DEF Sets
      <3>2. lamp[g][q] = reader[1].level
        BY <2>1, <2>2, <3>1 DEF Truth, ReaderIsTrue
      <3>. QED
        BY <1>2, <1>3, <1>5, <2>3, <3>2
    <2>4. CASE ~(g = m.of /\ q = m.part)
      <3>1. ~Sets(reader[1], g, q)
        BY <1>2, <2>4 DEF Sets
      <3>2. ASSUME NEW i \in 1..Len(reader) PROVE ~Sets(reader[i], g, q)
        BY <1>1, <2>2, <3>1, HeadType
      <3>3. Known(g, q)
        BY <1>1, <1>4, <2>1, <2>4 DEF Known
      <3>4. levels[g][q] = lamp[g][q]
        BY <2>1, <3>2, <3>3 DEF Truth, LevelsAreTrue
      <3>. QED
        BY <1>2, <1>3, <1>5, <2>4, <3>4
    <2>. QED
      BY <2>3, <2>4
  <1>8. PublishedIsLevels'
    <2>1. can'.pc = "state" /\ can'.of = m.of /\ can'.value = levels'[m.of]
      BY <1>4
    <2>2. ASSUME NEW g \in Fixtures, NEW q \in AllParts,
                 phase = "running", <<g, q>> \in fresh
          PROVE  /\ g # m.of => state[g][q] = levels'[g][q]
                 /\ seen[g] = "online"
      BY <1>1, <1>2, <1>3, <1>5, <2>2 DEF Truth, PublishedIsLevels, IsPublishing
    <2>. QED
      BY <1>1, <2>1, <2>2 DEF PublishedIsLevels, IsPublishing
  <1>. QED
    BY <1>6, <1>7, <1>8 DEF Truth

LEMMA PublishIsTrue ==
    ASSUME FreshInv, Truth, Publish
    PROVE  Truth'
  <1>1. /\ can.pc # "wait"
        /\ UNCHANGED <<lamp, reader, phase, levels, ours>>
    BY DEF Publish, bus
  <1>2. /\ can \in Publishing /\ can.pc \in {"state", "seen"}
        /\ can.of \in Fixtures /\ can.part \in AllParts
        /\ can.value = levels[can.of]
    BY <1>1, CanType DEF FreshInv, Truth, PublishedIsLevels
  <1>3. ReaderIsTrue'
    BY <1>1 DEF Truth, ReaderIsTrue, Sets
  <1>4. CASE can.pc = "state"
    <2>1. /\ state' = [state EXCEPT ![can.of] = can.value]
          /\ fresh' = fresh \cup {<<can.of, can.part>>}
          /\ seen' = seen
      BY <1>4 DEF Publish, StateFirst, WriteState
    <2>2. /\ can'.pc = "seen" /\ can'.of = can.of /\ can'.part = can.part
          /\ can'.value = can.value
      BY <1>2, <1>4 DEF Publish, Publishing
    <2>3. LevelsAreTrue'
      <3>1. \A g \in Fixtures, q \in AllParts : Known(g, q)' => Known(g, q)
        BY <1>1, <2>1, <2>2 DEF Known
      <3>. QED
        BY <1>1, <3>1 DEF Truth, LevelsAreTrue, Sets
    <2>4. PublishedIsLevels'
      <3>1. ASSUME NEW g \in Fixtures, NEW q \in AllParts,
                   phase = "running", <<g, q>> \in fresh'
            PROVE  /\ state'[g][q] = levels[g][q]
                   /\ g # can.of => seen[g] = "online"
        <4>1. CASE g = can.of
          BY <1>2, <2>1, <4>1 DEF FreshInv, TypeOK
        <4>2. CASE g # can.of
          BY <1>2, <2>1, <3>1, <4>2
             DEF FreshInv, TypeOK, Truth, PublishedIsLevels, IsPublishing
        <4>. QED
          BY <4>1, <4>2
      <3>. QED
        BY <1>1, <1>2, <2>1, <2>2, <3>1 DEF PublishedIsLevels, IsPublishing
    <2>. QED
      BY <1>3, <2>3, <2>4 DEF Truth
  <1>5. CASE can.pc = "seen"
    <2>1. /\ seen' = [seen EXCEPT ![can.of] = "online"]
          /\ UNCHANGED <<state, fresh>>
          /\ can' = Waiting
      BY <1>5 DEF Publish, StateFirst, WriteSeen
    <2>2. LevelsAreTrue'
      <3>1. \A g \in Fixtures, q \in AllParts : Known(g, q)' => Known(g, q)
        BY <2>1 DEF Known, Waiting
      <3>. QED
        BY <1>1, <3>1 DEF Truth, LevelsAreTrue, Sets
    <2>3. PublishedIsLevels'
      BY <1>1, <1>2, <1>5, <2>1
         DEF FreshInv, TypeOK, Truth, PublishedIsLevels, IsPublishing, Waiting
    <2>. QED
      BY <1>3, <2>2, <2>3 DEF Truth
  <1>. QED
    BY <1>2, <1>4, <1>5

\* A command moves lamps of the parts it names only, and those the bridge then knows as its
\* own.
LEMMA CommandIsTrue ==
    ASSUME FreshInv, Truth,
           NEW f \in Fixtures, NEW sent \in Commands(f), Command(f, sent)
    PROVE  Truth'
  <1>1. /\ UNCHANGED <<reader, phase, levels, can, seen, state, fresh>>
        /\ lamp' = [lamp EXCEPT ![f] = Overlay(@, sent)]
        /\ ours' = ours \cup ({f} \X DOMAIN sent)
    BY DEF Command, topics
  <1>2. \A g \in Fixtures, q \in AllParts :
           <<g, q>> \notin ours' => <<g, q>> \notin ours /\ lamp'[g][q] = lamp[g][q]
    BY <1>1 DEF Overlay, FreshInv, TypeOK
  <1>3. ReaderIsTrue'
    BY <1>1, <1>2 DEF Truth, ReaderIsTrue, Sets
  <1>4. LevelsAreTrue'
    BY <1>1, <1>2 DEF Truth, LevelsAreTrue, Known, Sets
  <1>5. PublishedIsLevels'
    BY <1>1 DEF Truth, PublishedIsLevels, IsPublishing
  <1>. QED
    BY <1>3, <1>4, <1>5 DEF Truth

LEMMA TruthStep ==
    ASSUME FreshInv, TruthInv, Next
    PROVE  TruthInv'
  <1>0. Truth /\ (listen => ours = {})
    BY DEF TruthInv, Truth
  <1>1. SUFFICES Truth' /\ (listen' => ours' = {})
    BY DEF TruthInv, Truth
  <1>2. ASSUME NEW f \in Fixtures, NEW p \in AllParts,
               NEW l \in Levels \cup {NoLevel}, Press(f, p, l)
        PROVE  Truth' /\ (listen' => ours' = {})
    BY <1>0, <1>2, PressIsTrue DEF Press
  <1>3. ASSUME NEW f \in Fixtures, NEW sent \in Commands(f), Command(f, sent)
        PROVE  Truth' /\ (listen' => ours' = {})
    BY <1>0, <1>3, CommandIsTrue DEF Command, MayTransmit
  <1>4. ASSUME Stop PROVE Truth' /\ (listen' => ours' = {})
    BY <1>4 DEF Stop, Truth, ReaderIsTrue, LevelsAreTrue, PublishedIsLevels, Waiting
  <1>5. CASE Open
    <2>1. reader' = <<>> /\ phase' # "running" /\ can' = Waiting /\ ours' = {}
      BY <1>5 DEF Open, bus, history, FreshInv, SessionShape
    <2>. QED
      BY <2>1 DEF Truth, ReaderIsTrue, LevelsAreTrue, PublishedIsLevels, Waiting
  <1>6. ASSUME listen' = listen, UNCHANGED <<lamp, reader, levels, can, ours>>,
               phase' = "running" => fresh' = {}, can = Waiting
        PROVE  Truth' /\ (listen' => ours' = {})
    BY <1>0, <1>6 DEF Truth, ReaderIsTrue, LevelsAreTrue, PublishedIsLevels,
                      Known, Sets, Waiting
  <1>7. CASE Connect
    BY <1>6, <1>7 DEF Connect, bus, history, FreshInv, SessionShape
  <1>8. CASE \E f \in Fixtures : Mark(f)
    BY <1>6, <1>8 DEF Mark, bus, history, FreshInv, SessionShape
  <1>9. CASE StartPumps
    BY <1>6, <1>9 DEF StartPumps, bus, history, FreshInv, SessionShape
  <1>10. CASE Ignore
    BY <1>0, <1>10, IgnoreIsTrue DEF Ignore, history
  <1>11. CASE HandleFrame
    BY <1>0, <1>11, HandleIsTrue DEF HandleFrame, history
  <1>12. CASE Publish
    BY <1>0, <1>12, PublishIsTrue DEF Publish
  <1>13. CASE WillFires
    BY <1>0, <1>13 DEF WillFires, Truth, ReaderIsTrue, LevelsAreTrue,
                       PublishedIsLevels, Known, Sets, IsPublishing, bus, history
  <1>. QED
    BY Cases, <1>2, <1>3, <1>4, <1>5, <1>7, <1>8, <1>9, <1>10, <1>11, <1>12, <1>13
       DEF CommandFails, Crash, Exit

\* What waits in the reader, what the bridge takes the levels to be and what it has
\* published agree with the lamps, but for the parts it has commanded itself since.
THEOREM TruthCorrect == Spec => []TruthInv
  <1>1. Init => TruthInv
    BY DEF Init, TruthInv, ReaderIsTrue, LevelsAreTrue, PublishedIsLevels, Waiting
  <1>2. FreshInv /\ TruthInv /\ [Next]_vars => TruthInv'
    <2>1. ASSUME TruthInv, UNCHANGED vars PROVE TruthInv'
      BY <2>1 DEF TruthInv, ReaderIsTrue, LevelsAreTrue, PublishedIsLevels, Known,
                  Sets, IsPublishing, vars, bus, topics, history
    <2>. QED
      BY <2>1, TruthStep
  <1>. QED
    BY <1>1, <1>2, FreshCorrect, PTL DEF Spec

\* Once everything received is published, every part this session has published is
\* available, and shown at the level it was last commanded to unless the bridge has
\* commanded it itself since.
THEOREM SettledTruth == Spec => []SettledIsTrue
  <1>1. FreshInv /\ TruthInv => SettledIsTrue
    <2>1. SUFFICES ASSUME FreshInv, TruthInv, Settled,
                          NEW f \in Fixtures, NEW p \in AllParts, <<f, p>> \in fresh
                   PROVE  /\ Available(f)
                          /\ <<f, p>> \notin ours => state[f][p] = lamp[f][p]
      BY DEF SettledIsTrue
    <2>2. <<f, p>> \notin ours => levels[f][p] = lamp[f][p]
      BY <2>1 DEF TruthInv, LevelsAreTrue, Known, Settled
    <2>3. state[f][p] = levels[f][p] /\ seen[f] = "online"
      BY <2>1 DEF TruthInv, PublishedIsLevels, IsPublishing, Settled
    <2>. QED
      BY <2>1, <2>2, <2>3 DEF FreshInv, SessionShape, Settled, Available
  <1>. QED
    BY <1>1, FreshCorrect, TruthCorrect, PTL

=============================================================================
