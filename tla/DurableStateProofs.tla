------------------------- MODULE DurableStateProofs -------------------------
(***************************************************************************)
(* Theorems about the durable state, for every queue, every number of      *)
(* gates, every bound, and any number of coordinators that interleave and  *)
(* crash, or one where the statement says so.                              *)
(***************************************************************************)
EXTENDS DurableState, TLAPS

CoordIsFunction == coord = [c \in Coordinators |-> coord[c]]

LEMMA BecomeEffect ==
    ASSUME CoordIsFunction, NEW c \in Coordinators, NEW k, Become(c, k)
    PROVE  /\ coord'[c] = k
           /\ \A d \in Coordinators : d # c => coord'[d] = coord[d]
           /\ CoordIsFunction'
BY DEF CoordIsFunction, Become

\* Artifacts on disk stay there.
LEMMA ArtifactsStay ==
    ASSUME NEW t, NEW A, NEW B, A \subseteq B, ArtifactsExist(t, A)
    PROVE  ArtifactsExist(t, B)
BY DEF ArtifactsExist

-----------------------------------------------------------------------------
(* Types *)

LEMMA DeriveType ==
    ASSUME NEW t, NEW phase \in 0 .. Gates, NEW gen \in Nat, NEW pause \in BOOLEAN
    PROVE  /\ Derive(t, phase, gen) \in Summaries
           /\ Summary(t, phase, gen, pause) \in Summaries
<1>1. Derive(t, phase, gen) \in Summaries
  BY DEF Derive, Status, Summaries, With, Relevant
<1> QED BY <1>1 DEF Summary, Paused, Summaries

LEMMA TypeInit == Init => TypeOK
<1> SUFFICES ASSUME Init PROVE TypeOK
  OBVIOUS
<1>1. PICK t \in Tables : queue = [gen |-> 1, row |-> t] /\ state = Derive(t, 0, 1)
  BY DEF Init
<1>2. 0 \in 0 .. Gates /\ 0 \in 0 .. MaxCrashes
  BY QueueAssumption
<1>3. state \in Summaries
  BY <1>1, <1>2, DeriveType
<1>4. queue \in Queues
  BY <1>1 DEF Queues
<1>5. coord \in [Coordinators -> Progress]
  BY DEF Init, Idle, Progress
<1> QED BY <1>2, <1>3, <1>4, <1>5 DEF Init, TypeOK

LEMMA TypeStep == TypeOK /\ [Next]_vars => TypeOK'
<1> SUFFICES ASSUME TypeOK, [Next]_vars PROVE TypeOK'
  OBVIOUS
<1>0. \A c \in Coordinators : \A k : Become(c, k) /\ k \in Progress => coord' \in [Coordinators -> Progress]
  BY DEF TypeOK, Become
<1>i. Idle \in Progress
  BY DEF Idle, Progress
<1>1. ASSUME NEW c \in Coordinators, NEW new \in Tables, NEW gate \in 0 .. Gates,
             NEW pause \in BOOLEAN, Plan(c, new, gate, pause), human' \in {"go", "pause"}
      PROVE  TypeOK'
  <2>1. [pc |-> "read", queue |-> queue, state |-> state,
         new |-> new, gate |-> gate, pause |-> pause] \in Progress
    BY DEF TypeOK, Progress
  <2> QED BY <1>0, <1>1, <2>1 DEF Plan, TypeOK
<1>2. ASSUME NEW c \in Coordinators, Persist(c) \/ CheckBoth(c) \/ WriteQueue(c)
      PROVE  TypeOK'
  <2> DEFINE k == coord[c]
  <2>1. /\ k.queue \in Queues /\ k.state \in Summaries /\ k.new \in Tables
        /\ k.gate \in 0 .. Gates /\ k.pause \in BOOLEAN
    <3>1. k \in Progress /\ k.pc \in {"read", "persisted", "checked"}
      BY <1>2 DEF TypeOK, Persist, CheckBoth, WriteQueue
    <3> QED BY <3>1 DEF Progress
  <2>2. Advanced(k, "persisted") \in Progress /\ Advanced(k, "checked") \in Progress
    BY <2>1 DEF Advanced, Progress
  <2>3. CASE Persist(c)
    <3>1. Finished(k.new) \subseteq Rows
      BY DEF Finished
    <3> QED BY <1>0, <2>1, <2>2, <2>3, <3>1 DEF Persist, TypeOK
  <2>4. CASE CheckBoth(c)
    BY <1>0, <1>i, <2>2, <2>4 DEF CheckBoth, TypeOK
  <2>5. CASE WriteQueue(c)
    <3>1. queue' \in Queues
      BY <2>1, <2>5 DEF WriteQueue, Queues
    <3>2. [pc |-> "written", queue |-> queue', pause |-> k.pause] \in Progress
      BY <2>1, <3>1 DEF Progress
    <3> QED BY <1>0, <2>5, <3>1, <3>2 DEF WriteQueue, TypeOK
  <2> QED BY <1>2, <2>3, <2>4, <2>5
<1>3. ASSUME NEW c \in Coordinators, DeriveAndCheck(c)
      PROVE  TypeOK'
  <2>1. coord[c].pause \in BOOLEAN /\ queue.gen \in Nat
    <3>1. coord[c] \in Progress /\ coord[c].pc = "written"
      BY <1>3 DEF TypeOK, DeriveAndCheck
    <3> QED BY <3>1 DEF Progress, TypeOK, Queues
  <2>2. Summary(queue.row, passed, queue.gen, coord[c].pause) \in Summaries
    BY <2>1, DeriveType DEF TypeOK
  <2>3. [pc |-> "derived", state |-> Summary(queue.row, passed, queue.gen, coord[c].pause)]
          \in Progress
    BY <2>2 DEF Progress
  <2> QED BY <1>0, <1>i, <1>3, <2>3 DEF DeriveAndCheck, TypeOK
<1>4. ASSUME NEW c \in Coordinators, WriteState(c)
      PROVE  TypeOK'
  <2>1. coord[c].state \in Summaries
    <3>1. coord[c] \in Progress /\ coord[c].pc = "derived"
      BY <1>4 DEF TypeOK, WriteState
    <3> QED BY <3>1 DEF Progress
  <2> QED BY <1>0, <1>i, <1>4, <2>1 DEF WriteState, TypeOK
<1>5. ASSUME NEW c \in Coordinators, Recover(c) \/ Stop(c) \/ Crash(c)
      PROVE  TypeOK'
  <2>1. /\ [pc |-> "written", queue |-> queue, pause |-> FALSE] \in Progress
        /\ [pc |-> "stopped"] \in Progress
    BY DEF TypeOK, Progress
  <2>2. crashes < MaxCrashes => crashes + 1 \in 0 .. MaxCrashes
    BY QueueAssumption DEF TypeOK
  <2> QED BY <1>0, <1>i, <1>5, <2>1, <2>2 DEF Recover, Stop, Crash, TypeOK
<1>6. CASE UNCHANGED vars
  BY <1>6 DEF vars, TypeOK
<1>7. ASSUME NEW c \in Coordinators, NEW new \in Tables, NEW gate \in 0 .. Gates, Read(c, new, gate)
      PROVE  TypeOK'
  BY <1>1, <1>7 DEF Read, TypeOK
<1>8. ASSUME NEW c \in Coordinators, NEW gate \in 0 .. Gates, PauseOrResume(c, gate)
      PROVE  TypeOK'
  <2>1. queue.row \in Tables
    BY DEF TypeOK, Queues
  <2> QED BY <1>1, <1>8, <2>1 DEF PauseOrResume
<1> QED BY <1>2, <1>3, <1>4, <1>5, <1>6, <1>7, <1>8 DEF Next, Finish

\* TypeOK holds for every queue and any number of coordinators.
THEOREM TypeCorrect == Spec => []TypeOK
BY TypeInit, TypeStep, PTL DEF Spec

-----------------------------------------------------------------------------
(* Any number of coordinators *)

Races == CoordIsFunction /\ RaceInv

LEMMA RaceInit == Init => Races
<1> SUFFICES ASSUME Init PROVE Races
  OBVIOUS
<1>1. CoordIsFunction /\ \A c \in Coordinators : coord[c] = Idle
  BY DEF Init, CoordIsFunction
<1>2. PlansHold
  BY <1>1 DEF PlansHold, Idle, Planning
<1>3. QueueHolds
  BY DEF Init, QueueHolds, ArtifactsExist, Finished
<1> QED BY <1>1, <1>2, <1>3 DEF Races, RaceInv

LEMMA RaceStep ==
    ASSUME Races, [Next]_vars
    PROVE  Races'
<1> USE DEF Races, RaceInv
<1> DEFINE Same(c) == \A d \in Coordinators : d # c => coord'[d] = coord[d]
<1>1. ASSUME NEW c \in Coordinators, NEW new \in Tables, NEW gate, Read(c, new, gate)
      PROVE  Races'
  <2>1. /\ coord'[c].pc = "read" /\ coord'[c].new = new
        /\ Same(c) /\ CoordIsFunction'
        /\ RowsHold(new) /\ queue' = queue /\ artifacts' = artifacts
    BY <1>1, BecomeEffect DEF Read, Plan, Mutation
  <2>2. PlansHold'
    BY <2>1 DEF PlansHold, Planning
  <2> QED BY <2>1, <2>2 DEF QueueHolds
<1>7. ASSUME NEW c \in Coordinators, NEW gate, PauseOrResume(c, gate)
      PROVE  Races'
  <2>1. /\ coord'[c].pc = "read" /\ coord'[c].new = queue.row
        /\ Same(c) /\ CoordIsFunction'
        /\ queue' = queue /\ artifacts' = artifacts
    BY <1>7, BecomeEffect DEF PauseOrResume, Plan
  <2>2. PlansHold'
    BY <2>1 DEF PlansHold, Planning, QueueHolds
  <2> QED BY <2>1, <2>2 DEF QueueHolds
<1>2. ASSUME NEW c \in Coordinators, Persist(c) PROVE Races'
  <2>1. /\ coord[c].pc = "read" /\ coord'[c] = Advanced(coord[c], "persisted")
        /\ Same(c) /\ CoordIsFunction'
        /\ queue' = queue /\ artifacts' = artifacts \union Finished(coord[c].new)
    BY <1>2, BecomeEffect DEF Persist
  <2>2. coord'[c].pc = "persisted" /\ coord'[c].new = coord[c].new
    BY <2>1 DEF Advanced
  <2>3. ArtifactsExist(coord[c].new, artifacts')
    BY <2>1 DEF ArtifactsExist, Finished
  <2>4. PlansHold'
    BY <2>1, <2>2, <2>3, ArtifactsStay DEF PlansHold, Planning
  <2>5. QueueHolds'
    BY <2>1, ArtifactsStay DEF QueueHolds
  <2> QED BY <2>1, <2>4, <2>5
<1>3. ASSUME NEW c \in Coordinators, CheckBoth(c) PROVE Races'
  <2>1. /\ coord[c].pc = "persisted"
        /\ coord'[c] \in {Idle, Advanced(coord[c], "checked")}
        /\ Same(c) /\ CoordIsFunction'
        /\ queue' = queue /\ artifacts' = artifacts
    BY <1>3, BecomeEffect DEF CheckBoth
  <2>2. coord'[c].pc = "idle" \/ coord'[c].new = coord[c].new
    BY <2>1 DEF Idle, Advanced
  <2>3. PlansHold'
    BY <2>1, <2>2 DEF PlansHold, Planning
  <2> QED BY <2>1, <2>3 DEF QueueHolds
<1>4. ASSUME NEW c \in Coordinators, WriteQueue(c) PROVE Races'
  <2>1. /\ coord[c].pc = "checked" /\ coord'[c].pc = "written"
        /\ Same(c) /\ CoordIsFunction'
        /\ queue'.row = coord[c].new /\ artifacts' = artifacts
    BY <1>4, BecomeEffect DEF WriteQueue
  <2>2. PlansHold'
    BY <2>1 DEF PlansHold, Planning
  <2>3. QueueHolds'
    BY <2>1 DEF QueueHolds, PlansHold, Planning
  <2> QED BY <2>1, <2>2, <2>3
<1>5. ASSUME NEW c \in Coordinators,
             DeriveAndCheck(c) \/ WriteState(c) \/ Recover(c) \/ Stop(c) \/ Crash(c)
      PROVE  Races'
  <2>1. /\ coord'[c].pc \in {"idle", "derived", "written", "stopped"}
        /\ Same(c) /\ CoordIsFunction'
        /\ queue' = queue /\ artifacts' = artifacts
    BY <1>5, BecomeEffect DEF DeriveAndCheck, WriteState, Recover, Stop, Crash, Idle
  <2>2. PlansHold'
    BY <2>1 DEF PlansHold, Planning
  <2> QED BY <2>1, <2>2 DEF QueueHolds
<1>6. CASE UNCHANGED vars
  BY <1>6 DEF vars, CoordIsFunction, QueueHolds, PlansHold
<1> QED BY <1>1, <1>2, <1>3, <1>4, <1>5, <1>6, <1>7 DEF Next, Finish

\* The race invariant: every table about to be written holds, with its artifacts.
LEMMA PlansAlwaysHold == Spec => []RaceInv
<1>1. Races /\ [Next]_vars => Races'
  BY RaceStep
<1> QED BY <1>1, RaceInit, PTL DEF Spec, Races

\* However coordinators interleave and crash, QUEUE.md holds.
THEOREM QueueAlwaysHolds == Spec => []QueueHolds
BY PlansAlwaysHold, PTL DEF RaceInv

-----------------------------------------------------------------------------
(* One coordinator at a time *)

OneAtATime == \A c, d \in Coordinators : c = d

Serial == CoordIsFunction /\ SerialInv

LEMMA SerialInit == Init => Serial
<1> SUFFICES ASSUME Init PROVE Serial
  OBVIOUS
<1>1. CoordIsFunction /\ \A c \in Coordinators : coord[c] = Idle
  BY DEF Init, CoordIsFunction
<1>2. \A c \in Coordinators : KnowsFiles(c)
  BY <1>1 DEF KnowsFiles, Idle, Planning
<1>3. PICK t \in Tables : /\ Finished(t) = {} /\ queue = [gen |-> 1, row |-> t]
                          /\ state = Derive(t, 0, 1) /\ passed = 0
  BY DEF Init
<1>4. state.gen = 1 /\ state.phase = 0
  BY <1>3 DEF Derive
<1>5. Gates \in Nat \ {0}
  BY QueueAssumption
<1>6. state \in MaybePaused(Derive(queue.row, state.phase, state.gen))
  BY <1>3, <1>4 DEF MaybePaused
<1>7. Summarised
  BY <1>3, <1>4, <1>5, <1>6 DEF Summarised
<1> QED BY <1>1, <1>2, <1>7 DEF Serial, SerialInv

LEMMA SerialStep ==
    ASSUME OneAtATime, QueueHolds, Serial, [Next]_vars
    PROVE  Serial'
<1> USE DEF Serial, SerialInv
<1>9. Gates \in Nat \ {0}
  BY QueueAssumption
<1>1. SUFFICES ASSUME NEW c \in Coordinators, Next
               PROVE  CoordIsFunction' /\ Summarised' /\ KnowsFiles(c)'
  <2>1. CASE UNCHANGED vars
    BY <2>1 DEF vars, CoordIsFunction, Summarised, KnowsFiles
  <2>2. CASE Next
    <3>1. PICK c \in Coordinators : TRUE
      BY <2>2 DEF Next
    <3>2. \A d \in Coordinators : d = c
      BY DEF OneAtATime
    <3> QED BY <2>2, <3>1, <3>2
  <2> QED BY <2>1, <2>2
<1> \A d \in Coordinators : d = c
  BY DEF OneAtATime
<1> DEFINE k == coord[c]
<1> KnowsFiles(c) /\ Summarised
  OBVIOUS
<1>2. ASSUME NEW new \in Tables, NEW gate \in 0 .. Gates, Read(c, new, gate)
      PROVE  CoordIsFunction' /\ Summarised' /\ KnowsFiles(c)'
  <2>1. /\ coord'[c] = [pc |-> "read", queue |-> queue, state |-> state, new |-> new,
                        gate |-> gate, pause |-> state.status = "PAUSED"]
        /\ CoordIsFunction' /\ queue.gen = state.gen
        /\ gate = Gates => AllDone(new)
        /\ Mutation(queue.row, new)
        /\ UNCHANGED <<queue, state, passed>>
    BY <1>2, BecomeEffect DEF Read, Plan, GateResults, AllDone
  <2> QED BY <2>1 DEF Summarised, KnowsFiles, Planning
<1>12. ASSUME NEW gate \in 0 .. Gates, PauseOrResume(c, gate)
       PROVE  CoordIsFunction' /\ Summarised' /\ KnowsFiles(c)'
  <2>1. /\ coord'[c] = [pc |-> "read", queue |-> queue, state |-> state,
                        new |-> queue.row, gate |-> gate,
                        pause |-> state.status # "PAUSED"]
        /\ CoordIsFunction' /\ queue.gen = state.gen
        /\ gate = Gates => AllDone(queue.row)
        /\ UNCHANGED <<queue, state, passed>>
    BY <1>12, BecomeEffect DEF PauseOrResume, Plan, GateResults, AllDone
  <2>2. Mutation(queue.row, queue.row)
    BY DEF Mutation, QueueHolds
  <2> QED BY <2>1, <2>2 DEF Summarised, KnowsFiles, Planning
<1>3. CASE Persist(c)
  <2>1. /\ coord[c].pc = "read" /\ coord'[c] = Advanced(coord[c], "persisted")
        /\ CoordIsFunction' /\ passed' = coord[c].gate
        /\ UNCHANGED <<queue, state>>
    BY <1>3, BecomeEffect DEF Persist
  <2> QED BY <2>1 DEF Summarised, KnowsFiles, Planning, Advanced
<1>4. CASE CheckBoth(c)
  <2>1. /\ coord[c].pc = "persisted"
        /\ coord'[c] \in {Idle, Advanced(coord[c], "checked")}
        /\ CoordIsFunction' /\ UNCHANGED <<queue, state, passed>>
    BY <1>4, BecomeEffect DEF CheckBoth
  <2> QED BY <2>1 DEF Summarised, KnowsFiles, Planning, Advanced, Idle
<1>5. CASE WriteQueue(c)
  <2>1. /\ coord[c].pc = "checked"
        /\ queue' = [gen |-> queue.gen + 1, row |-> coord[c].new]
        /\ coord'[c] = [pc |-> "written", queue |-> queue', pause |-> coord[c].pause]
        /\ CoordIsFunction' /\ UNCHANGED <<state, passed>>
    BY <1>5, BecomeEffect DEF WriteQueue, KnowsFiles, Planning
  <2> QED BY <2>1 DEF Summarised, KnowsFiles, Planning
<1>6. CASE DeriveAndCheck(c)
  <2>1. /\ coord[c].pc = "written"
        /\ coord'[c] = [pc |-> "derived",
                        state |-> Summary(queue.row, passed, queue.gen, coord[c].pause)]
        /\ CoordIsFunction' /\ UNCHANGED <<queue, state, passed>>
    BY <1>6, BecomeEffect DEF DeriveAndCheck, KnowsFiles
  <2>2. coord'[c].state \in MaybePaused(Derive(queue.row, passed, queue.gen))
    BY <2>1 DEF Summary, MaybePaused
  <2> QED BY <2>1, <2>2 DEF Summarised, KnowsFiles, Planning
<1>7. CASE WriteState(c)
  <2>1. /\ coord[c].pc = "derived" /\ coord'[c] = Idle
        /\ state' \in MaybePaused(Derive(queue.row, passed, queue.gen))
        /\ CoordIsFunction' /\ UNCHANGED <<queue, passed>>
    BY <1>7, BecomeEffect DEF WriteState, KnowsFiles
  <2>2. state'.gen = queue.gen /\ state'.phase = passed
    BY <2>1 DEF Derive, MaybePaused, Paused
  <2>3. queue.gen # state.gen
    BY <2>1 DEF KnowsFiles, Summarised
  <2>4. KnowsFiles(c)'
    BY <2>1 DEF KnowsFiles, Planning, Idle
  <2> QED BY <2>1, <2>2, <2>3, <2>4 DEF Summarised
<1>8. CASE Recover(c)
  <2>1. /\ coord'[c] = [pc |-> "written", queue |-> queue, pause |-> FALSE]
        /\ queue.gen > state.gen
        /\ CoordIsFunction' /\ UNCHANGED <<queue, state, passed>>
    BY <1>8, BecomeEffect DEF Recover
  <2> QED BY <2>1 DEF Summarised, KnowsFiles, Planning
<1>10. CASE Stop(c)
  BY <1>10 DEF Stop, Summarised
<1>11. CASE Crash(c)
  <2>1. coord'[c] = Idle /\ CoordIsFunction' /\ UNCHANGED <<queue, state, passed>>
    BY <1>11, BecomeEffect DEF Crash
  <2> QED BY <2>1 DEF Summarised, KnowsFiles, Planning, Idle
<1> QED
  BY <1>1, <1>2, <1>3, <1>4, <1>5, <1>6, <1>7, <1>8, <1>10, <1>11, <1>12
     DEF Next, Finish

\* With one coordinator at a time, the files are those of the last transaction or
\* of the one that was interrupted, and recovery knows which.
THEOREM SerialFiles == OneAtATime => (Spec => []SerialInv)
<1> SUFFICES ASSUME OneAtATime PROVE Spec => []SerialInv
  OBVIOUS
<1>1. RaceInv /\ Serial /\ [Next]_vars => Serial'
  BY SerialStep DEF RaceInv
<1> QED BY <1>1, SerialInit, PlansAlwaysHold, PTL DEF Spec, Serial

LEMMA PauseInit == Init => PauseInv
<1> SUFFICES ASSUME Init PROVE PauseInv
  OBVIOUS
<1>1. /\ human = "go" /\ queue.gen = 1 /\ state.gen = 1
      /\ \A c \in Coordinators : coord[c] = Idle
  BY DEF Init, Derive
<1>2. state.status # "PAUSED"
  BY DEF Init, Derive, Status
<1>3. crashes \in Nat
  BY DEF Init
<1> QED BY <1>1, <1>2, <1>3 DEF PauseInv, KnowsPause, Idle, Planning

LEMMA PauseStep ==
    ASSUME OneAtATime, Serial, PauseInv, [Next]_vars
    PROVE  PauseInv'
<1> USE DEF Serial, SerialInv, PauseInv
<1>1. CASE UNCHANGED vars
  BY <1>1 DEF vars, KnowsPause
<1>2. SUFFICES ASSUME NEW c \in Coordinators, Next
               PROVE  human' \in {"go", "pause"} /\ crashes' \in Nat /\ KnowsPause(c)'
  <2>1. ASSUME Next PROVE \E c \in Coordinators : \A d \in Coordinators : d = c
    BY <2>1 DEF Next, OneAtATime
  <2> QED BY <1>1, <2>1
<1> \A d \in Coordinators : d = c
  BY DEF OneAtATime
<1> KnowsFiles(c) /\ KnowsPause(c) /\ Summarised
  OBVIOUS
<1>3. ASSUME NEW new, NEW gate, Read(c, new, gate) PROVE human' = human /\ KnowsPause(c)'
  <2>1. /\ coord[c].pc = "idle" /\ coord'[c].pc = "read"
        /\ coord'[c].pause = (state.status = "PAUSED")
        /\ human' = human /\ crashes' = crashes
    BY <1>3, BecomeEffect DEF Read, Plan
  <2> QED BY <2>1 DEF KnowsPause, Planning
<1>4. ASSUME NEW gate, PauseOrResume(c, gate)
      PROVE  human' \in {"go", "pause"} /\ KnowsPause(c)'
  <2>1. /\ coord[c].pc = "idle" /\ coord'[c].pc = "read"
        /\ coord'[c].pause = (state.status # "PAUSED")
        /\ human' = (IF state.status = "PAUSED" THEN "go" ELSE "pause")
    BY <1>4, BecomeEffect DEF PauseOrResume, Plan
  <2> QED BY <2>1 DEF KnowsPause, Planning
<1>5. ASSUME Persist(c) \/ CheckBoth(c) \/ WriteQueue(c)
      PROVE  human' = human /\ KnowsPause(c)'
  <2>1. /\ coord[c].pc \in Planning /\ coord'[c].pc \in Planning \union {"written"}
        /\ coord'[c].pause = coord[c].pause
        /\ human' = human /\ crashes' = crashes
    BY <1>5, BecomeEffect DEF Persist, CheckBoth, WriteQueue, Advanced, Planning, KnowsFiles
  <2> QED BY <2>1 DEF KnowsPause, Planning
<1>6. ASSUME DeriveAndCheck(c) PROVE human' = human /\ KnowsPause(c)'
  <2>1. /\ coord[c].pc = "written" /\ coord'[c].pc = "derived"
        /\ coord'[c].state = Summary(queue.row, passed, queue.gen, coord[c].pause)
        /\ human' = human /\ crashes' = crashes
    BY <1>6, BecomeEffect DEF DeriveAndCheck, KnowsFiles
  <2>2. ASSUME coord[c].pause = TRUE PROVE coord'[c].state.status = "PAUSED"
    BY <2>1, <2>2 DEF Summary, Paused, Derive
  <2>3. ASSUME coord[c].pause = FALSE PROVE coord'[c].state.status # "PAUSED"
    BY <2>1, <2>3 DEF Summary, Derive, Status
  <2> QED BY <2>1, <2>2, <2>3 DEF KnowsPause, Planning
<1>7. ASSUME WriteState(c) PROVE human' = human /\ KnowsPause(c)'
  <2>1. /\ coord[c].pc = "derived" /\ coord'[c].pc = "idle" /\ state' = coord[c].state
        /\ UNCHANGED <<queue, human, crashes>>
    BY <1>7, BecomeEffect DEF WriteState, Idle
  <2>2. state'.gen = queue.gen
    BY <2>1 DEF KnowsFiles, MaybePaused, Paused, Derive
  <2> QED BY <2>1, <2>2 DEF KnowsPause, Planning
<1>8. ASSUME Recover(c) \/ Stop(c) PROVE human' = human /\ KnowsPause(c)'
  <2>1. /\ coord[c].pc = "idle" /\ human' = human /\ crashes' = crashes
        /\ queue.gen > state.gen \/ state.gen > queue.gen
    BY <1>8 DEF Recover, Stop
  <2>2. crashes # 0
    BY <2>1 DEF KnowsPause, Summarised
  <2> QED BY <2>1, <2>2 DEF KnowsPause
<1>9. ASSUME Crash(c) PROVE human' = human /\ KnowsPause(c)'
  BY <1>9 DEF Crash, KnowsPause
<1>10. \/ \E new, gate : Read(c, new, gate)
       \/ \E gate : PauseOrResume(c, gate)
       \/ Finish(c) \/ Crash(c)
  BY <1>2 DEF Next
<1>11. human' \in {"go", "pause"} /\ KnowsPause(c)'
  BY <1>3, <1>4, <1>5, <1>6, <1>7, <1>8, <1>9, <1>10 DEF Finish
<1>12. crashes' \in Nat
  <2>1. \/ \E new, gate : Read(c, new, gate)
        \/ \E gate : PauseOrResume(c, gate)
        \/ Finish(c)
        => crashes' = crashes
    BY DEF Read, PauseOrResume, Plan, Finish, Persist, CheckBoth, WriteQueue,
       DeriveAndCheck, WriteState, Recover, Stop
  <2>2. Crash(c) => crashes' = crashes + 1
    BY DEF Crash
  <2> QED BY <1>10, <2>1, <2>2
<1> QED BY <1>11, <1>12

\* Without a crash, a project between transactions is paused exactly when the
\* human last said so, whatever was worked on or evaluated since.
THEOREM HumanAlwaysObeyed ==
    OneAtATime /\ Coordinators # {} => (Spec => []HumanIsObeyed)
<1> SUFFICES ASSUME OneAtATime, Coordinators # {} PROVE Spec => []HumanIsObeyed
  OBVIOUS
<1>1. PauseInv => HumanIsObeyed
  BY DEF PauseInv, KnowsPause, HumanIsObeyed, Idle
<1>2. RaceInv /\ Serial /\ [Next]_vars => Serial'
  BY SerialStep DEF RaceInv
<1>3. Serial /\ PauseInv /\ [Next]_vars => PauseInv'
  BY PauseStep
<1> QED
  BY <1>1, <1>2, <1>3, SerialInit, PauseInit, PlansAlwaysHold, PTL DEF Spec

\* STATE.md never gets ahead of QUEUE.md, nor more than one transaction behind.
THEOREM StateFollowsQueue == OneAtATime => (Spec => []StateNeverAhead)
<1> SUFFICES ASSUME OneAtATime PROVE Spec => []StateNeverAhead
  OBVIOUS
<1>1. SerialInv => StateNeverAhead
  BY DEF SerialInv, Summarised, StateNeverAhead
<1> QED BY <1>1, SerialFiles, PTL

\* Two files of one generation agree, whatever crashed in between.
THEOREM EqualGenerationsAlwaysAgree == OneAtATime => (Spec => []EqualGenerationsAgree)
<1> SUFFICES ASSUME OneAtATime PROVE Spec => []EqualGenerationsAgree
  OBVIOUS
<1>1. SerialInv => EqualGenerationsAgree
  <2> SUFFICES ASSUME SerialInv, queue.gen = state.gen
               PROVE  /\ ListsAgree(queue.row, state)
                      /\ (\E r \in Relevant(state.phase) : queue.row[r].status # "DONE") =>
                           Accepts(queue.row, state.phase, state.status)
                      /\ state.status = "COMPLETE" =>
                           Accepts(queue.row, state.phase, "COMPLETE")
    BY DEF EqualGenerationsAgree
  <2> DEFINE t == queue.row
             p == state.phase
  <2>1. /\ state \in MaybePaused(Derive(t, p, state.gen)) /\ t \in Tables
        /\ p = Gates => AllDone(t)
    BY DEF SerialInv, Summarised
  <2>2. state.status \in {"PAUSED", Status(t, p)} /\ ListsAgree(t, state)
    BY <2>1 DEF Derive, ListsAgree, MaybePaused, Paused
  <2>3. Status(t, p) = "COMPLETE" => p = Gates /\ Accepts(t, p, "COMPLETE")
    BY <2>1 DEF Status, Accepts, AllDone
  <2>4. ASSUME NEW r \in Relevant(p), t[r].status # "DONE"
        PROVE  Accepts(t, p, Status(t, p))
    <3>1. r \in Rows /\ t[r].status \in {"TODO", "IN_PROGRESS", "BLOCKED"}
      BY <2>1, <2>4 DEF Relevant, Tables, Statuses
    <3>2. Actionable(t, p) # {} \/ With(t, p, "BLOCKED") # {}
      BY <2>4, <3>1 DEF Actionable, With
    <3>3. p # Gates
      BY <2>1, <2>4, <3>1 DEF AllDone
    <3> QED BY <3>2, <3>3 DEF Status, Accepts
  <2>5. Accepts(t, p, "PAUSED")
    BY DEF Accepts
  <2> QED BY <2>2, <2>3, <2>4, <2>5
<1> QED BY <1>1, SerialFiles, PTL

\* Every step is a whole transaction of the abstract record, its summary, or
\* nothing it sees.
THEOREM SerialImplementsRecord == OneAtATime => (Spec => Record!Safety)
<1> SUFFICES ASSUME OneAtATime PROVE Spec => Record!Safety
  OBVIOUS
<1>1. Init => Record!Init
  BY DEF Init, Record!Init, Progressed, Tables, Statuses, Record!Statuses, Derive
<1>2. Serial /\ Serial' /\ [Next]_vars => [Record!Next]_(Record!vars)
  <2> SUFFICES ASSUME Serial, Serial', [Next]_vars
               PROVE  Record!Next \/ UNCHANGED Record!vars
    OBVIOUS
  <2> USE DEF Serial, SerialInv
  <2>1. CASE queue' = queue /\ state'.gen = state.gen
    BY <2>1 DEF Record!vars, Progressed
  <2>2. ASSUME NEW c \in Coordinators, WriteQueue(c) PROVE Record!Transact
    <3>1. /\ KnowsFiles(c) /\ coord[c].pc = "checked" /\ state' = state
          /\ queue' = [gen |-> coord[c].queue.gen + 1, row |-> coord[c].new]
      BY <2>2 DEF WriteQueue
    <3>2. /\ queue.gen = state.gen /\ queue'.gen = queue.gen + 1
          /\ queue'.row = coord[c].new /\ coord[c].new \in Tables
          /\ Mutation(queue.row, coord[c].new)
      BY <3>1 DEF KnowsFiles, Planning
    <3>3. Progressed' \in [Rows -> Statuses]
      BY <3>2 DEF Progressed, Tables
    <3> QED BY <3>1, <3>2, <3>3 DEF Record!Transact, Progressed, Mutation, Transitions,
          Record!Transitions, Statuses, Record!Statuses
  <2>3. ASSUME NEW c \in Coordinators, WriteState(c) PROVE Record!Publish
    <3>1. /\ KnowsFiles(c) /\ coord[c].pc = "derived"
          /\ state' = coord[c].state /\ queue' = queue
      BY <2>3 DEF WriteState
    <3>2. state'.gen = queue.gen /\ queue.gen = state.gen + 1
      BY <3>1 DEF KnowsFiles, Derive, MaybePaused, Paused
    <3> QED BY <3>1, <3>2 DEF Record!Publish, Progressed, Summarised
  <2>4. \/ queue' = queue /\ state' = state
        \/ \E c \in Coordinators : WriteQueue(c) \/ WriteState(c)
    BY DEF Next, Finish, Read, PauseOrResume, Plan, Persist, CheckBoth, DeriveAndCheck, Recover, Stop, Crash, vars
  <2> QED BY <2>1, <2>2, <2>3, <2>4 DEF Record!Next
<1>3. RaceInv /\ Serial /\ [Next]_vars => Serial'
  BY SerialStep DEF RaceInv
<1> QED
  BY <1>1, <1>2, <1>3, SerialInit, PlansAlwaysHold, PTL DEF Spec, Record!Safety
=============================================================================
