--------------------------- MODULE OwnershipProofs ---------------------------
(***************************************************************************)
(* What RunOwnership guarantees for any number of processes and open       *)
(* descriptions, any wall time, and clocks that run for any time.          *)
(***************************************************************************)
EXTENDS RunOwnership, TLAPS

-----------------------------------------------------------------------------
(* The inductive invariant *)

Holding  == {"creating", "opening", "binding", "bound"}

\* whoever got past the lock is on the one description that holds it, in every process
LockHeld == \A d \in Description, p \in Proc : fd[d][p] \in Holding => flock = d

\* there is one creator, as long as there is no schema; only a run is bound and worked on
OneCreator ==
    /\ \A d \in Description, p \in Proc : fd[d][p] \in Creating => file = "empty"
    /\ \A d, e \in Description, p, q \in Proc :
          fd[d][p] \in Creating /\ fd[e][q] \in Creating => d = e /\ p = q
    /\ \A d \in Description, p \in Proc : fd[d][p] \in {"binding", "bound"} => file = "ready"
    /\ worked # -1 => file = "ready"

\* clocks that nobody sets agree, and no object has more time than the run
Clocks ==
    honest => /\ now = wall
              /\ \A d \in Description, p \in Proc :
                    fd[d][p] = "bound" => monotonic[d] <= now \/ monotonic[d] <= deadline

OwnershipInv ==
    OwnershipTypeOK /\ LockHeld /\ OneCreator /\ Clocks /\ DeadlineCountsDowntime

-----------------------------------------------------------------------------
(* Each step preserves it *)

\* The first state satisfies the invariant.
LEMMA InitOwnership == Init => OwnershipInv
  <1> SUFFICES ASSUME Init PROVE OwnershipInv
    OBVIOUS
  <1> DEFINE first == CHOOSE p \in Proc : TRUE
  <1>1. first \in Proc
    BY OwnershipAssumption
  <1>2. owner = [d \in Description |-> first]
    BY DEF Init
  <1> HIDE DEF first
  <1>3. OwnershipTypeOK
    <2>1. owner \in [Description -> Proc]
      BY <1>1, <1>2
    <2>2. fd \in [Description -> [Proc -> State]]
      BY DEF Init, State
    <2>3. monotonic \in [Description -> 0..(MaxTime + MaxWall + WallTime)]
      BY OwnershipAssumption DEF Init
    <2>4. /\ file \in {"absent", "empty", "ready"} /\ flock \in Description \cup {0}
          /\ last_clock \in 0..MaxWall /\ deadline \in 0..(MaxWall + WallTime)
          /\ now \in 0..MaxTime /\ wall \in 0..MaxWall /\ honest \in BOOLEAN
          /\ read \in 0..MaxWall /\ worked \in -1..MaxTime
      BY OwnershipAssumption DEF Init
    <2> QED
      BY <2>1, <2>2, <2>3, <2>4 DEF OwnershipTypeOK
  <1>4. LockHeld /\ OneCreator /\ Clocks /\ DeadlineCountsDowntime
    BY DEF Init, LockHeld, OneCreator, Clocks, DeadlineCountsDowntime, Creating, Holding
  <1> QED
    BY <1>3, <1>4 DEF OwnershipInv

\* After a close of one description by one process, the lock is where it was for all others.
LEMMA CloseKeeps ==
  ASSUME OwnershipTypeOK, LockHeld, NEW p \in Proc, NEW d \in Description, Close(p, d)
  PROVE  /\ fd' \in [Description -> [Proc -> State]] /\ flock' \in Description \cup {0}
         /\ LockHeld'
         /\ \A e \in Description, q \in Proc : fd'[e][q] = fd[e][q] \/ fd'[e][q] = "none"
  <1>1. \A e \in Description, q \in Proc :
           fd'[e][q] = IF e = d /\ q = p THEN "none" ELSE fd[e][q]
    BY DEF Close, OwnershipTypeOK
  <1>2. fd' \in [Description -> [Proc -> State]] /\ flock' \in Description \cup {0}
    BY DEF Close, OwnershipTypeOK, State
  <1>3. LockHeld'
    BY <1>1 DEF Close, LockHeld, Holding
  <1> QED
    BY <1>1, <1>2, <1>3

\* A close by itself disturbs nothing.
LEMMA ClosePreserves ==
  ASSUME OwnershipInv, NEW p \in Proc, NEW d \in Description, Close(p, d),
         UNCHANGED <<disk, owner, monotonic, time, past>>
  PROVE  OwnershipInv'
  <1>1. /\ fd' \in [Description -> [Proc -> State]] /\ flock' \in Description \cup {0}
        /\ LockHeld'
        /\ \A e \in Description, q \in Proc : fd'[e][q] = fd[e][q] \/ fd'[e][q] = "none"
    BY CloseKeeps DEF OwnershipInv
  <1>2. OwnershipTypeOK'
    BY <1>1 DEF OwnershipInv, OwnershipTypeOK, disk, time, past
  <1>3. \A e \in Description, q \in Proc :
           fd'[e][q] \in Creating \cup {"binding", "bound"} => fd'[e][q] = fd[e][q]
    BY <1>1 DEF Creating
  <1>4. OneCreator'
    BY <1>3 DEF OwnershipInv, OneCreator, Creating, disk, past
  <1>5. Clocks' /\ DeadlineCountsDowntime'
    BY <1>3 DEF OwnershipInv, Clocks, DeadlineCountsDowntime, disk, time, past
  <1> QED
    BY <1>1, <1>2, <1>4, <1>5 DEF OwnershipInv

\* An object that becomes something else is the only one that does.
LEMMA BecomesOne ==
  ASSUME OwnershipTypeOK, NEW p \in Proc, NEW d \in Description, NEW state \in State,
         Becomes(p, d, state)
  PROVE  /\ fd' \in [Description -> [Proc -> State]]
         /\ \A e \in Description, q \in Proc :
               fd'[e][q] = IF e = d /\ q = p THEN state ELSE fd[e][q]
  BY DEF Becomes, OwnershipTypeOK

\* Opening and locking.
LEMMA StepOpen ==
  ASSUME OwnershipInv, NEW p \in Proc, NEW d \in Description,
         OpenCreate(p, d) \/ OpenExisting(p, d) \/ Lock(p, d)
  PROVE  OwnershipInv'
  <1> USE DEF OwnershipInv
  <1>1. ASSUME OpenCreate(p, d) PROVE OwnershipInv'
    <2>1. /\ fd' \in [Description -> [Proc -> State]]
          /\ \A e \in Description, q \in Proc :
                fd'[e][q] = IF e = d /\ q = p THEN "created" ELSE fd[e][q]
      BY <1>1, BecomesOne DEF OpenCreate, State
    <2>2. \A e \in Description, q \in Proc : fd[e][q] \notin Creating \cup {"binding", "bound"}
      BY <1>1 DEF OpenCreate, OneCreator
    <2>3. OwnershipTypeOK'
      BY <1>1, <2>1 DEF OpenCreate, OwnershipTypeOK, time, past
    <2>4. LockHeld'
      BY <1>1, <2>1 DEF OpenCreate, LockHeld, Holding
    <2>5. /\ \A e \in Description, q \in Proc :
                fd'[e][q] \in Creating => e = d /\ q = p
          /\ \A e \in Description, q \in Proc : fd'[e][q] \notin {"binding", "bound"}
      BY <2>1, <2>2
    <2>6. file = "absent" /\ file' = "empty" /\ UNCHANGED <<deadline, monotonic, time, past>>
      BY <1>1 DEF OpenCreate
    <2>7. OneCreator' /\ Clocks' /\ DeadlineCountsDowntime'
      BY <2>5, <2>6 DEF OneCreator, Clocks, DeadlineCountsDowntime, time, past
    <2> QED
      BY <2>3, <2>4, <2>7
  <1>2. ASSUME OpenExisting(p, d) PROVE OwnershipInv'
    <2>1. /\ fd' \in [Description -> [Proc -> State]]
          /\ \A e \in Description, q \in Proc :
                fd'[e][q] = IF e = d /\ q = p THEN "opened" ELSE fd[e][q]
      BY <1>2, BecomesOne DEF OpenExisting, State
    <2>2. /\ UNCHANGED <<disk, flock, monotonic, time, past>>
          /\ owner' = [owner EXCEPT ![d] = p]
      BY <1>2 DEF OpenExisting
    <2>3. OwnershipTypeOK'
      BY <2>1, <2>2 DEF OwnershipTypeOK, disk, time, past
    <2>4. \A e \in Description, q \in Proc :
             fd'[e][q] \in Creating \cup Holding => fd'[e][q] = fd[e][q]
      BY <2>1 DEF Creating, Holding
    <2>5. LockHeld' /\ OneCreator' /\ Clocks' /\ DeadlineCountsDowntime'
      BY <2>2, <2>4 DEF LockHeld, OneCreator, Clocks, DeadlineCountsDowntime, Creating, Holding,
         disk, time, past
    <2> QED
      BY <2>3, <2>5
  <1>3. ASSUME Lock(p, d), flock = 0 PROVE OwnershipInv'
    <2> DEFINE state == IF fd[d][p] = "created" THEN "creating" ELSE "opening"
    <2>1. /\ fd' \in [Description -> [Proc -> State]]
          /\ \A e \in Description, q \in Proc :
                fd'[e][q] = IF e = d /\ q = p THEN state ELSE fd[e][q]
      BY <1>3, BecomesOne DEF Lock, State
    <2>2. \A e \in Description, q \in Proc : fd[e][q] \notin Holding
      BY <1>3 DEF LockHeld, Description
    <2>3. LockHeld'
      BY <1>3, <2>1, <2>2 DEF Lock, LockHeld
    <2>4. fd[d][p] \in {"created", "opened"} /\ (state = "creating" <=> fd[d][p] = "created")
          /\ state \in {"creating", "opening"}
      BY <1>3 DEF Lock
    <2>5. /\ \A e \in Description, q \in Proc : fd'[e][q] \in Creating <=> fd[e][q] \in Creating
          /\ \A e \in Description, q \in Proc :
                fd'[e][q] \in {"binding", "bound"} => fd'[e][q] = fd[e][q]
      BY <2>1, <2>4 DEF Creating
    <2> HIDE DEF state
    <2>6. UNCHANGED <<disk, owner, monotonic, time, past>> /\ flock' = d
      BY <1>3 DEF Lock
    <2>7. OneCreator' /\ Clocks' /\ DeadlineCountsDowntime'
      BY <2>5, <2>6 DEF OneCreator, Clocks, DeadlineCountsDowntime, disk, time, past
    <2> QED
      BY <2>1, <2>3, <2>6, <2>7 DEF OwnershipTypeOK, disk, time, past
  <1>4. ASSUME Lock(p, d), flock # 0 PROVE OwnershipInv'
    <2>1. Close(p, d) /\ UNCHANGED <<disk, owner, monotonic, time, past>>
      BY <1>4 DEF Lock
    <2> QED
      BY <2>1, ClosePreserves
  <1> QED
    BY <1>1, <1>2, <1>3, <1>4

\* The schema, its check, and the clock.
LEMMA StepBind ==
  ASSUME OwnershipInv, NEW p \in Proc, NEW d \in Description,
         CommitSchema(p, d) \/ CheckSchema(p, d) \/ Bind(p, d)
  PROVE  OwnershipInv'
  <1> USE DEF OwnershipInv
  <1>1. ASSUME CommitSchema(p, d) PROVE OwnershipInv'
    <2>1. /\ fd' \in [Description -> [Proc -> State]]
          /\ \A e \in Description, q \in Proc :
                fd'[e][q] = IF e = d /\ q = p THEN "binding" ELSE fd[e][q]
      BY <1>1, BecomesOne DEF CommitSchema, State
    <2>2. file = "empty" /\ worked = -1
      BY <1>1 DEF CommitSchema, OneCreator, Creating
    <2>3. \A e \in Description, q \in Proc : fd'[e][q] # "bound" /\ fd'[e][q] \notin Creating
      BY <1>1, <2>1, <2>2 DEF CommitSchema, OneCreator, Creating
    <2>4. OwnershipTypeOK'
      BY <1>1, <2>1, OwnershipAssumption DEF CommitSchema, OwnershipTypeOK, time, past
    <2>5. LockHeld'
      BY <1>1, <2>1 DEF CommitSchema, LockHeld, Holding
    <2>6. OneCreator' /\ Clocks' /\ DeadlineCountsDowntime'
      BY <1>1, <2>2, <2>3 DEF CommitSchema, OneCreator, Clocks, DeadlineCountsDowntime, time, past
    <2> QED
      BY <2>4, <2>5, <2>6
  <1>2. ASSUME CheckSchema(p, d), file = "ready" PROVE OwnershipInv'
    <2>1. /\ fd' \in [Description -> [Proc -> State]]
          /\ \A e \in Description, q \in Proc :
                fd'[e][q] = IF e = d /\ q = p THEN "binding" ELSE fd[e][q]
      BY <1>2, BecomesOne DEF CheckSchema, State
    <2>2. UNCHANGED <<disk, owner, flock, monotonic, time, past>> /\ fd[d][p] = "opening"
      BY <1>2 DEF CheckSchema
    <2>3. OwnershipTypeOK'
      BY <2>1, <2>2 DEF OwnershipTypeOK, disk, time, past
    <2>4. LockHeld'
      BY <2>1, <2>2 DEF LockHeld, Holding
    <2>5. \A e \in Description, q \in Proc :
             fd'[e][q] \in Creating \cup {"bound"} => fd'[e][q] = fd[e][q]
      BY <2>1 DEF Creating
    <2>6. OneCreator' /\ Clocks' /\ DeadlineCountsDowntime'
      BY <1>2, <2>2, <2>5 DEF OneCreator, Clocks, DeadlineCountsDowntime, Creating, disk, time, past
    <2> QED
      BY <2>3, <2>4, <2>6
  <1>3. ASSUME CheckSchema(p, d), file # "ready" PROVE OwnershipInv'
    <2>1. Close(p, d) /\ UNCHANGED <<disk, owner, monotonic, time, past>>
      BY <1>3 DEF CheckSchema
    <2> QED
      BY <2>1, ClosePreserves
  <1>4. ASSUME Bind(p, d), wall < last_clock PROVE OwnershipInv'
    <2>1. Close(p, d) /\ UNCHANGED <<disk, owner, monotonic, time, past>>
      BY <1>4 DEF Bind, past
    <2> QED
      BY <2>1, ClosePreserves
  <1>5. ASSUME Bind(p, d), ~(wall < last_clock) PROVE OwnershipInv'
    <2>1. /\ fd' \in [Description -> [Proc -> State]]
          /\ \A e \in Description, q \in Proc :
                fd'[e][q] = IF e = d /\ q = p THEN "bound" ELSE fd[e][q]
      BY <1>5, BecomesOne DEF Bind, State
    <2>2. /\ fd[d][p] = "binding" /\ UNCHANGED <<disk, owner, flock, time, worked>>
          /\ monotonic' = [monotonic EXCEPT ![d] = now + Later(0, deadline - wall)]
          /\ read' = Later(read, wall)
      BY <1>5 DEF Bind
    <2>3. /\ now + Later(0, deadline - wall) \in 0..(MaxTime + MaxWall + WallTime)
          /\ Later(read, wall) \in 0..MaxWall
          /\ now = wall => \/ now + Later(0, deadline - wall) <= now
                           \/ now + Later(0, deadline - wall) <= deadline
      BY OwnershipAssumption DEF OwnershipTypeOK, Later
    <2>4. OwnershipTypeOK'
      BY <2>1, <2>2, <2>3 DEF OwnershipTypeOK, disk, time
    <2>5. LockHeld' /\ OneCreator'
      <3>1. LockHeld'
        BY <2>1, <2>2 DEF LockHeld, Holding
      <3>2. \A e \in Description, q \in Proc :
               fd'[e][q] \in Creating => fd'[e][q] = fd[e][q]
        BY <2>1 DEF Creating
      <3>3. file = "ready"
        BY <2>2 DEF OneCreator
      <3> QED
        BY <2>2, <3>1, <3>2, <3>3 DEF OneCreator, Creating, disk
    <2>6. \A e \in Description :
             monotonic'[e] = IF e = d THEN now + Later(0, deadline - wall) ELSE monotonic[e]
      BY <2>2 DEF OwnershipTypeOK
    <2>7. Clocks' /\ DeadlineCountsDowntime'
      BY <2>1, <2>2, <2>3, <2>6 DEF Clocks, DeadlineCountsDowntime, disk, time
    <2> QED
      BY <2>4, <2>5, <2>7
  <1> QED
    BY <1>1, <1>2, <1>3, <1>4, <1>5

\* Work, and the end of an owner.
LEMMA StepOwner ==
  ASSUME OwnershipInv, NEW p \in Proc, NEW d \in Description,
         Authorise(p, d) \/ CloseObject(p, d)
  PROVE  OwnershipInv'
  <1> USE DEF OwnershipInv
  <1>1. ASSUME Authorise(p, d) PROVE OwnershipInv'
    <2>1. /\ fd[d][p] = "bound" /\ monotonic[d] > now /\ last_clock' = wall /\ worked' = now
          /\ read' = Later(read, wall)
          /\ UNCHANGED <<file, deadline, fd, owner, flock, monotonic, time>>
      BY <1>1 DEF Authorise, Owns
    <2>2. honest => now < deadline
      BY <2>1 DEF Clocks, OwnershipTypeOK, Description
    <2>3. OwnershipTypeOK'
      BY <2>1, OwnershipAssumption DEF OwnershipTypeOK, Later, time
    <2>4. LockHeld' /\ OneCreator'
      BY <2>1 DEF LockHeld, OneCreator
    <2>5. Clocks' /\ DeadlineCountsDowntime'
      BY <2>1, <2>2 DEF Clocks, DeadlineCountsDowntime, time
    <2> QED
      BY <2>3, <2>4, <2>5
  <1>2. ASSUME CloseObject(p, d) PROVE OwnershipInv'
    <2>1. Close(p, d) /\ UNCHANGED <<disk, owner, monotonic, time, past>>
      BY <1>2 DEF CloseObject
    <2> QED
      BY <2>1, ClosePreserves
  <1> QED
    BY <1>1, <1>2

\* A fork shares what is bound, and a death closes what only the dead had open.
LEMMA StepProcess ==
  ASSUME OwnershipInv, NEW p \in Proc,
         Die(p) \/ (\E q \in Proc : Fork(p, q))
  PROVE  OwnershipInv'
  <1> USE DEF OwnershipInv
  <1>1. ASSUME NEW q \in Proc, Fork(p, q) PROVE OwnershipInv'
    <2>1. \A e \in Description, r \in Proc :
             fd'[e][r] = IF r # q THEN fd[e][r]
                         ELSE IF fd[e][p] \in {"none", "bound"} THEN fd[e][p] ELSE "held"
      BY <1>1 DEF Fork, OwnershipTypeOK
    <2>2. fd' \in [Description -> [Proc -> State]]
      BY <1>1 DEF Fork, OwnershipTypeOK, State
    <2>3. \A e \in Description, r \in Proc :
             \/ fd'[e][r] = fd[e][r] \/ fd'[e][r] \in {"none", "held"}
             \/ fd'[e][r] = "bound" /\ fd[e][p] = "bound"
      BY <2>1
    <2>4. UNCHANGED <<disk, owner, flock, monotonic, time, past>>
      BY <1>1 DEF Fork
    <2>5. LockHeld' /\ OneCreator'
      BY <2>3, <2>4 DEF LockHeld, OneCreator, Creating, Holding, disk, past
    <2>6. OwnershipTypeOK' /\ Clocks' /\ DeadlineCountsDowntime'
      BY <2>2, <2>3, <2>4 DEF OwnershipTypeOK, Clocks, DeadlineCountsDowntime, disk, time, past
    <2> QED
      BY <2>5, <2>6
  <1>2. ASSUME Die(p) PROVE OwnershipInv'
    <2>1. \A e \in Description, r \in Proc :
             fd'[e][r] = IF r = p THEN "none" ELSE fd[e][r]
      BY <1>2 DEF Die, OwnershipTypeOK
    <2>2. fd' \in [Description -> [Proc -> State]]
      BY <1>2 DEF Die, OwnershipTypeOK, State
    <2>3. /\ UNCHANGED <<disk, owner, monotonic, time, past>>
          /\ flock' = IF flock # 0 /\ \A r \in Proc \ {p} : fd[flock][r] = "none"
                      THEN 0 ELSE flock
      BY <1>2 DEF Die
    <2>4. LockHeld'
      BY <2>1, <2>3 DEF LockHeld, Holding, Description
    <2>5. OneCreator'
      BY <2>1, <2>3 DEF OneCreator, Creating, disk, past
    <2>6. OwnershipTypeOK' /\ Clocks' /\ DeadlineCountsDowntime'
      BY <2>1, <2>2, <2>3 DEF OwnershipTypeOK, Clocks, DeadlineCountsDowntime, disk, time, past
    <2> QED
      BY <2>4, <2>5, <2>6
  <1> QED
    BY <1>1, <1>2

\* Every step of a process or a clock preserves the invariant.
LEMMA StepOwnership == OwnershipInv /\ [Next]_vars => OwnershipInv'
  <1> SUFFICES ASSUME OwnershipInv, [Next]_vars PROVE OwnershipInv'
    OBVIOUS
  <1> USE DEF OwnershipInv
  <1>1. ASSUME Pass \/ SetClock PROVE OwnershipInv'
    <2>1. /\ UNCHANGED <<disk, fd, owner, flock, monotonic, past>>
          /\ now' \in 0..MaxTime /\ wall' \in 0..MaxWall /\ honest' \in BOOLEAN
      <3>1. CASE Pass
        BY <3>1, OwnershipAssumption DEF Pass, OwnershipTypeOK
      <3>2. CASE SetClock
        BY <3>2, OwnershipAssumption DEF SetClock, OwnershipTypeOK
      <3> QED
        BY <1>1, <3>1, <3>2
    <2>2. OwnershipTypeOK'
      BY <2>1 DEF OwnershipTypeOK, disk, past
    <2>3. LockHeld' /\ OneCreator'
      BY <2>1 DEF LockHeld, OneCreator, disk, past
    <2>4. honest' => honest /\ now' = now + 1 /\ wall' = wall + 1
      BY <1>1 DEF Pass, SetClock
    <2>5. \A d \in Description : monotonic[d] <= now => monotonic[d] <= now + 1
      BY OwnershipAssumption DEF OwnershipTypeOK
    <2>6. Clocks' /\ DeadlineCountsDowntime'
      BY <2>1, <2>4, <2>5 DEF Clocks, DeadlineCountsDowntime, disk, past
    <2> QED
      BY <2>2, <2>3, <2>6
  <1>2. ASSUME UNCHANGED vars PROVE OwnershipInv'
    BY <1>2 DEF vars, OwnershipTypeOK, LockHeld, OneCreator, Clocks, DeadlineCountsDowntime,
       disk, time, past
  <1> QED
    BY <1>1, <1>2, StepOpen, StepBind, StepOwner, StepProcess DEF Next

\* The invariant holds in every behaviour.
LEMMA OwnershipInvariant == Spec => []OwnershipInv
  BY InitOwnership, StepOwnership, PTL DEF Spec

-----------------------------------------------------------------------------
(* Theorems *)

\* Files, lock and clocks are type correct for any number of processes.
THEOREM OwnershipTyping == Spec => []OwnershipTypeOK
  <1>1. OwnershipInv => OwnershipTypeOK
    BY DEF OwnershipInv
  <1> QED
    BY <1>1, OwnershipInvariant, PTL

\* However many processes create, open, fork and die between any two system calls, one object
\* of one process may write the run.
THEOREM Exclusive == Spec => []OneWriter
  <1>1. OwnershipInv => OneWriter
    BY DEF OwnershipInv, OneWriter, Owns, LockHeld, OneCreator, Holding
  <1> QED
    BY <1>1, OwnershipInvariant, PTL

\* As long as nobody sets the wall clock, no work is authorised after the deadline, whoever
\* opens the run and however often.
THEOREM Downtime == Spec => []DeadlineCountsDowntime
  <1>1. OwnershipInv => DeadlineCountsDowntime
    BY DEF OwnershipInv
  <1> QED
    BY <1>1, OwnershipInvariant, PTL

-----------------------------------------------------------------------------
(* The lease                                                               *)

\* A step that takes writers away leaves none, and one that adds a writer found none; and
\* without a new creator a claimed path can only become void.
LEMMA LeaseChanges ==
  ASSUME OwnershipInv, OwnershipInv', UNCHANGED <<file, deadline, now, honest, worked>>,
         Claimed' => Claimed,
         Writers' \subseteq Writers \/ Writers \subseteq Writers'
  PROVE  Lease!Acquire \/ Lease!Release \/ Lease!Abandon \/ UNCHANGED Lease!vars
  <1> Writers \subseteq Proc /\ Writers' \subseteq Proc
    BY DEF Writers
  <1>1. /\ \A p, q \in Writers : p = q
        /\ \A p, q \in Writers' : p = q
        /\ Writers # {} \/ Writers' # {} => file = "ready"
    BY DEF OwnershipInv, Writers, Owns, LockHeld, OneCreator, Holding
  <1>2. CASE Claimed /\ ~Claimed' /\ file = "empty"
    <2>1. Writers = {} /\ Writers' = {} /\ Path = "claimed" /\ Path' = "void"
      BY <1>1, <1>2 DEF Path
    <2> QED
      BY <2>1 DEF Lease!Abandon
  <1>3. CASE ~(Claimed /\ ~Claimed' /\ file = "empty")
    <2>1. Path' = Path /\ (file = "ready" => Path = "made")
      BY <1>3 DEF Path
    <2>2. CASE Writers = {} /\ Writers' # {}
      <3>1. PICK p \in Proc : Writers' = {p}
        BY <1>1, <2>2
      <3> QED
        BY <1>1, <2>1, <2>2, <3>1 DEF Lease!Acquire
    <2>3. CASE Writers # {} /\ Writers' = {}
      BY <2>1, <2>3 DEF Lease!Release
    <2>4. CASE (Writers = {} /\ Writers' = {}) \/ (Writers # {} /\ Writers' # {})
      <3>1. Writers' = Writers
        BY <1>1, <2>4
      <3> QED
        BY <2>1, <3>1 DEF Lease!vars
    <2> QED
      BY <2>2, <2>3, <2>4
  <1> QED
    BY <1>2, <1>3

\* Nobody claims the path by a step after which every creator was one before.
LEMMA NoNewClaim ==
  (\A p \in Proc, d \in Description : fd'[d][p] \in Creating => fd[d][p] \in Creating)
     => (Claimed' => Claimed)
  BY DEF Claimed

\* Writing is lost or won as the objects that own the run are.
LEMMA WritersMove ==
  /\ (\A p \in Proc, d \in Description : Owns(p, d)' => Owns(p, d)) => Writers' \subseteq Writers
  /\ (\A p \in Proc, d \in Description : Owns(p, d) => Owns(p, d)') => Writers \subseteq Writers'
  BY DEF Writers

\* A close takes away what the process could write through the description, and no more.
LEMMA CloseLoses ==
  ASSUME OwnershipInv, NEW p \in Proc, NEW d \in Description, Close(p, d), owner' = owner
  PROVE  Writers' \subseteq Writers /\ (Claimed' => Claimed)
  <1>1. \A q \in Proc, e \in Description : Owns(q, e)' => Owns(q, e)
    BY CloseKeeps DEF OwnershipInv, Owns
  <1>2. \A q \in Proc, e \in Description : fd'[e][q] \in Creating => fd[e][q] \in Creating
    BY CloseKeeps DEF OwnershipInv, Creating
  <1> QED
    BY <1>1, <1>2, WritersMove, NoNewClaim

\* The path without a run is free.
LEMMA InitLease == Init => Lease!Init
  <1> SUFFICES ASSUME Init PROVE Lease!Init
    OBVIOUS
  <1>1. \A p \in Proc, d \in Description : fd[d][p] = "none"
    BY DEF Init
  <1>2. Writers = {}
    BY <1>1 DEF Writers, Owns
  <1>3. Path = "free"
    BY DEF Init, Path
  <1> QED
    BY <1>2, <1>3 DEF Init, Lease!Init

\* Every step of a process or a clock is a step of the lease, or none.
LEMMA StepLease == OwnershipInv /\ OwnershipInv' /\ [Next]_vars => [Lease!Next]_(Lease!vars)
  <1> SUFFICES ASSUME OwnershipInv, OwnershipInv', [Next]_vars
               PROVE  Lease!Next \/ UNCHANGED Lease!vars
    OBVIOUS
  <1> USE DEF OwnershipInv
  <1>0. ASSUME NEW p \in Proc, NEW d \in Description, OpenCreate(p, d) PROVE Lease!Claim
    <2>1. \A q \in Proc, e \in Description :
             fd'[e][q] = IF e = d /\ q = p THEN "created" ELSE fd[e][q]
      BY <1>0, BecomesOne DEF OpenCreate, State
    <2>2. file = "absent" /\ file' = "empty" /\ UNCHANGED <<deadline, now, honest, worked>>
      BY <1>0 DEF OpenCreate, time, past
    <2>3. Path = "free" /\ Path' = "claimed"
      BY <2>1, <2>2 DEF Path, Claimed, Creating
    <2>4. Writers = {} /\ Writers' = {}
      BY <2>2 DEF Writers, Owns, OneCreator
    <2> QED
      BY <2>2, <2>3, <2>4 DEF Lease!Claim
  <1>1. ASSUME NEW p \in Proc, NEW d \in Description, OpenExisting(p, d)
        PROVE  Lease!Next \/ UNCHANGED Lease!vars
    <2>1. /\ Unused(d) /\ owner' = [owner EXCEPT ![d] = p]
          /\ UNCHANGED <<file, deadline, now, honest, worked>>
      BY <1>1 DEF OpenExisting, disk, time, past
    <2>2. \A q \in Proc, e \in Description :
             fd'[e][q] = IF e = d /\ q = p THEN "opened" ELSE fd[e][q]
      BY <1>1, BecomesOne DEF OpenExisting, State
    <2>3. \A q \in Proc, e \in Description : Owns(q, e)' => Owns(q, e)
      BY <2>1, <2>2 DEF Owns, Unused, OwnershipTypeOK
    <2>4. Claimed' => Claimed
      BY <2>2, NoNewClaim DEF Creating
    <2> QED
      BY <2>1, <2>3, <2>4, WritersMove, LeaseChanges DEF Lease!Next
  <1>2. ASSUME NEW p \in Proc, NEW d \in Description, Lock(p, d) \/ CheckSchema(p, d)
        PROVE  Lease!Next \/ UNCHANGED Lease!vars
    <2>1. UNCHANGED <<owner, file, deadline, now, honest, worked>>
      BY <1>2 DEF Lock, CheckSchema, disk, time, past
    <2>2. CASE Close(p, d)
      BY <2>1, <2>2, CloseLoses, LeaseChanges DEF Lease!Next
    <2>3. ASSUME NEW state \in {"creating", "opening", "binding"}, Becomes(p, d, state),
                 state = "creating" => fd[d][p] = "created"
          PROVE  Lease!Next \/ UNCHANGED Lease!vars
      <3>1. \A q \in Proc, e \in Description :
               fd'[e][q] = IF e = d /\ q = p THEN state ELSE fd[e][q]
        BY <2>3, BecomesOne DEF State
      <3>2. \A q \in Proc, e \in Description : Owns(q, e)' => Owns(q, e)
        BY <2>1, <3>1 DEF Owns
      <3>3. Claimed' => Claimed
        BY <2>3, <3>1, NoNewClaim DEF Creating
      <3> QED
        BY <2>1, <3>2, <3>3, WritersMove, LeaseChanges DEF Lease!Next
    <2> QED
      BY <1>2, <2>2, <2>3 DEF Lock, CheckSchema
  <1>3. ASSUME NEW p \in Proc, NEW d \in Description, CommitSchema(p, d) PROVE Lease!Make
    <2>1. \A q \in Proc, e \in Description :
             fd'[e][q] = IF e = d /\ q = p THEN "binding" ELSE fd[e][q]
      BY <1>3, BecomesOne DEF CommitSchema, State
    <2>2. \A q \in Proc, e \in Description : Owns(q, e)' <=> Owns(q, e)
      BY <1>3, <2>1 DEF Owns, CommitSchema
    <2>3. Writers' = Writers
      BY <2>2, WritersMove
    <2>4. Path = "claimed" /\ Path' = "made"
      BY <1>3 DEF CommitSchema, OneCreator, Creating, Claimed, Path
    <2>5. deadline' = wall + WallTime /\ wall \in Nat /\ WallTime \in Nat
      BY <1>3, OwnershipAssumption DEF CommitSchema, OwnershipTypeOK
    <2> QED
      BY <1>3, <2>3, <2>4, <2>5 DEF Lease!Make, CommitSchema, Clocks, time, past
  <1>4. ASSUME NEW p \in Proc, NEW d \in Description, Bind(p, d)
        PROVE  Lease!Next \/ UNCHANGED Lease!vars
    <2>1. UNCHANGED <<owner, file, deadline, now, honest, worked>>
      BY <1>4 DEF Bind, disk, time
    <2>2. CASE Close(p, d)
      BY <2>1, <2>2, CloseLoses, LeaseChanges DEF Lease!Next
    <2>3. CASE Becomes(p, d, "bound")
      <3>1. \A q \in Proc, e \in Description :
               fd'[e][q] = IF e = d /\ q = p THEN "bound" ELSE fd[e][q]
        BY <2>3, BecomesOne DEF State
      <3>2. \A q \in Proc, e \in Description : Owns(q, e) => Owns(q, e)'
        BY <2>1, <3>1 DEF Owns
      <3>3. Claimed' => Claimed
        BY <3>1, NoNewClaim DEF Creating
      <3> QED
        BY <2>1, <3>2, <3>3, WritersMove, LeaseChanges DEF Lease!Next
    <2> QED
      BY <1>4, <2>2, <2>3 DEF Bind
  <1>5. ASSUME NEW p \in Proc, NEW d \in Description, Authorise(p, d) PROVE Lease!Work
    <2>1. p \in Writers
      BY <1>5 DEF Authorise, Writers
    <2>2. Writers' = Writers
      BY <1>5 DEF Authorise, Writers, Owns
    <2>3. honest => now < deadline
      BY <1>5, OwnershipAssumption DEF Authorise, Owns, Clocks, OwnershipTypeOK
    <2>4. Path' = Path
      BY <1>5 DEF Authorise, Path, Claimed
    <2> QED
      BY <1>5, <2>1, <2>2, <2>3, <2>4 DEF Lease!Work, Authorise, time
  <1>6. ASSUME NEW p \in Proc, NEW d \in Description, CloseObject(p, d)
        PROVE  Lease!Next \/ UNCHANGED Lease!vars
    <2>1. UNCHANGED <<owner, file, deadline, now, honest, worked>> /\ Close(p, d)
      BY <1>6 DEF CloseObject, disk, time, past
    <2> QED
      BY <2>1, CloseLoses, LeaseChanges DEF Lease!Next
  <1>7. ASSUME NEW p \in Proc, NEW q \in Proc, Fork(p, q)
        PROVE  Lease!Next \/ UNCHANGED Lease!vars
    <2>1. UNCHANGED <<owner, file, deadline, now, honest, worked>>
      BY <1>7 DEF Fork, disk, time, past
    <2>2. \A r \in Proc, e \in Description : fd[e][r] = "bound" => fd'[e][r] = "bound"
      BY <1>7 DEF Fork, OwnershipTypeOK
    <2>3. \A r \in Proc, e \in Description : Owns(r, e) => Owns(r, e)'
      BY <2>1, <2>2 DEF Owns
    <2>4. Claimed' => Claimed
      BY <1>7, NoNewClaim DEF Fork, OwnershipTypeOK, Creating
    <2> QED
      BY <2>1, <2>3, <2>4, WritersMove, LeaseChanges DEF Lease!Next
  <1>8. ASSUME NEW p \in Proc, Die(p) PROVE Lease!Next \/ UNCHANGED Lease!vars
    <2>1. UNCHANGED <<owner, file, deadline, now, honest, worked>>
      BY <1>8 DEF Die, disk, time, past
    <2>2. \A r \in Proc, e \in Description : fd'[e][r] = "bound" => fd[e][r] = "bound"
      BY <1>8 DEF Die, OwnershipTypeOK
    <2>3. \A r \in Proc, e \in Description : Owns(r, e)' => Owns(r, e)
      BY <2>1, <2>2 DEF Owns
    <2>4. Claimed' => Claimed
      BY <1>8, NoNewClaim DEF Die, OwnershipTypeOK, Creating
    <2> QED
      BY <2>1, <2>3, <2>4, WritersMove, LeaseChanges DEF Lease!Next
  <1>9. ASSUME Pass \/ SetClock PROVE Lease!Next
    <2>1. Writers' = Writers
      BY <1>9 DEF Pass, SetClock, Writers, Owns
    <2>2. Path' = Path
      BY <1>9 DEF Pass, SetClock, Path, Claimed, disk
    <2> QED
      BY <1>9, <2>1, <2>2 DEF Pass, SetClock, Lease!Next, Lease!Pass, Lease!SetClock, disk, past
  <1>10. CASE UNCHANGED vars
    <2>1. Writers' = Writers
      BY <1>10 DEF vars, Writers, Owns
    <2>2. Path' = Path
      BY <1>10 DEF vars, Path, Claimed, disk
    <2> QED
      BY <1>10, <2>1, <2>2 DEF vars, disk, time, past, Lease!vars
  <1> QED
    BY <1>0, <1>1, <1>2, <1>3, <1>4, <1>5, <1>6, <1>7, <1>8, <1>9, <1>10 DEF Next, Lease!Next

\* Whatever processes do to the path, at any point between two system calls, is what
\* AbstractLease allows: one writer after the other, each within the time of the run.
THEOREM KeepsLease == Spec => ImplementsLease
  <1>1. OwnershipInv /\ OwnershipInv' /\ [Next]_vars => [Lease!Next]_(Lease!vars)
    BY StepLease
  <1> QED
    BY <1>1, InitLease, OwnershipInvariant, PTL DEF Spec, ImplementsLease, Lease!Spec

\* The deadline a run was created with is never written again: the lease never moves it.
THEOREM Fixed == Spec => DeadlineFixed
  <1>1. OwnershipTypeOK /\ OwnershipTypeOK' /\ [Lease!Next]_(Lease!vars) =>
           [file = "ready" => file' = "ready" /\ deadline' = deadline]_vars
    <2> SUFFICES ASSUME OwnershipTypeOK, OwnershipTypeOK', [Lease!Next]_(Lease!vars),
                        file = "ready"
                 PROVE  file' = "ready" /\ deadline' = deadline
      OBVIOUS
    <2>1. Path = "made"
      BY DEF Path
    <2>2. Path' = "made" /\ deadline' = deadline
      BY <2>1 DEF Lease!Next, Lease!vars, Lease!Claim, Lease!Make, Lease!Abandon, Lease!Acquire,
         Lease!Release, Lease!Work, Lease!Pass, Lease!SetClock
    <2> QED
      BY <2>2 DEF Path, OwnershipTypeOK
  <1> QED
    BY <1>1, KeepsLease, OwnershipTyping, PTL DEF ImplementsLease, Lease!Spec, DeadlineFixed

\* A path whose creator gave up or died, between the O_EXCL of create() and the commit of its
\* schema, is never a run again, whoever creates or opens there.
THEOREM Void == Spec => VoidForEver
  <1>1. [Lease!Next]_(Lease!vars) => [Path = "void" => Path' = "void"]_vars
    BY DEF Lease!Next, Lease!vars, Lease!Claim, Lease!Make, Lease!Abandon, Lease!Acquire,
       Lease!Release, Lease!Work, Lease!Pass, Lease!SetClock
  <1> QED
    BY <1>1, KeepsLease, PTL DEF ImplementsLease, Lease!Spec, VoidForEver
=============================================================================
