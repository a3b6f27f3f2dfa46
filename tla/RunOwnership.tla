---------------------------- MODULE RunOwnership ----------------------------
(***************************************************************************)
(* Who may write a run, and for how long: the constructor, create(),       *)
(* open(), _bind_clock(), _transaction(), _require_time() and close() of   *)
(* class SQLiteRun (sqlite_run.py), over the file, its flock and the two   *)
(* clocks.                                                                 *)
(*                                                                         *)
(* Processes create, open and close SQLiteRun objects on one path, fork    *)
(* and die, between any two system calls.  An object is known by the open  *)
(* file description of its _fd: the flock belongs to the description and   *)
(* a fork shares it, so it lasts until every process that holds the        *)
(* description has closed it.  What work does to the journal is RunStore.  *)
(***************************************************************************)
EXTENDS Integers

CONSTANTS
    Proc,      \* processes
    MaxOpens,  \* bound: open file descriptions at one time
    MaxTime,   \* bound: the monotonic clock stops here
    MaxWall,   \* bound: the wall clock reads 0..MaxWall
    WallTime   \* RunLimits.wall_time_seconds

ASSUME OwnershipAssumption ==
    Proc # {} /\ MaxOpens \in Nat /\ MaxTime \in Nat /\ MaxWall \in Nat /\ WallTime \in Nat \ {0}

Description == 1..MaxOpens

VARIABLES
    file,        \* the path: absent, empty (no schema committed), or ready
    fd,          \* fd[d][p]: how far the object on description d is in process p
    owner,       \* _owner_pid of the object on a description
    flock,       \* the description that holds the lock, 0 for none
    last_clock,  \* run.last_clock
    deadline,    \* run.deadline
    monotonic,   \* _monotonic_deadline of the object on a description
    now,         \* time.monotonic()
    wall,        \* time.time()
    honest,      \* history: the wall clock was never set
    read,        \* history: the largest wall time that bound or authorised anything
    worked       \* history: monotonic time of the last authorised work, -1 for none

disk  == <<file, last_clock, deadline>>
time  == <<now, wall, honest>>
past  == <<read, worked>>
vars  == <<disk, fd, owner, flock, monotonic, time, past>>

\* an object is made by create() or open(), locked, checked and bound to the clock; a child
\* holds the description of one that its parent was still making
State == {"none", "created", "opened", "creating", "opening", "binding", "bound", "held"}

Init ==
    /\ file = "absent"
    /\ fd = [d \in Description |-> [p \in Proc |-> "none"]]
    /\ owner = [d \in Description |-> CHOOSE p \in Proc : TRUE]
    /\ flock = 0
    /\ last_clock = 0
    /\ deadline = 0
    /\ monotonic = [d \in Description |-> 0]
    /\ now = 0
    /\ wall = 0
    /\ honest = TRUE
    /\ read = 0
    /\ worked = -1

\* Mutant: what is left of the deadline is not cut off at zero
LaterUnclamped(t, u) == u

Later(t, u) == IF t > u THEN t ELSE u

Unused(d) == \A p \in Proc : fd[d][p] = "none"

-----------------------------------------------------------------------------
(* The constructor *)

\* an object moves on in process p
Becomes(p, d, state) == fd' = [fd EXCEPT ![d][p] = state]

\* Mutant: close() unlocks, for every process that holds the description
CloseUnlocks(p, d) ==
    /\ fd' = [fd EXCEPT ![d][p] = "none"]
    /\ flock' = IF flock = d THEN 0 ELSE flock

\* p closes description d, and the lock goes with the last process that holds it
Close(p, d) ==
    /\ fd' = [fd EXCEPT ![d][p] = "none"]
    /\ flock' = IF flock = d /\ \A q \in Proc \ {p} : fd[d][q] = "none" THEN 0 ELSE flock

\* Mutant: O_EXCL is missing
OpenCreateAnyway(p, d) ==
    /\ Unused(d)
    /\ file' = "empty"
    /\ owner' = [owner EXCEPT ![d] = p]
    /\ Becomes(p, d, "created")
    /\ UNCHANGED <<last_clock, deadline, flock, monotonic, time, past>>

\* os.open with O_CREAT and O_EXCL: an existing path is refused
OpenCreate(p, d) ==
    /\ Unused(d)
    /\ file = "absent"
    /\ file' = "empty"
    /\ owner' = [owner EXCEPT ![d] = p]
    /\ Becomes(p, d, "created")
    /\ UNCHANGED <<last_clock, deadline, flock, monotonic, time, past>>

OpenExisting(p, d) ==
    /\ Unused(d)
    /\ file # "absent"
    /\ owner' = [owner EXCEPT ![d] = p]
    /\ Becomes(p, d, "opened")
    /\ UNCHANGED <<disk, flock, monotonic, time, past>>

\* flock with LOCK_NB: a live owner refuses, and a creator may lose to an opener
Lock(p, d) ==
    /\ fd[d][p] \in {"created", "opened"}
    /\ IF flock = 0
       THEN /\ flock' = d
            /\ Becomes(p, d, IF fd[d][p] = "created" THEN "creating" ELSE "opening")
       ELSE Close(p, d)
    /\ UNCHANGED <<disk, owner, monotonic, time, past>>

-----------------------------------------------------------------------------
(* create() and open() *)

\* the schema and the one row of the run are committed together
CommitSchema(p, d) ==
    /\ fd[d][p] = "creating"
    /\ file' = "ready"
    /\ last_clock' = wall
    /\ deadline' = wall + WallTime
    /\ Becomes(p, d, "binding")
    /\ UNCHANGED <<owner, flock, monotonic, time, past>>

\* Mutant: an empty file is taken for a run
CheckSchemaAny(p, d) ==
    /\ fd[d][p] = "opening"
    /\ Becomes(p, d, "binding")
    /\ UNCHANGED <<disk, owner, flock, monotonic, time, past>>

\* application id, schema version and the row: an empty file is no run
CheckSchema(p, d) ==
    /\ fd[d][p] = "opening"
    /\ IF file = "ready" THEN Becomes(p, d, "binding") /\ UNCHANGED flock ELSE Close(p, d)
    /\ UNCHANGED <<disk, owner, monotonic, time, past>>

\* Mutant: the whole wall time is granted again at each opening
BindAnew(p, d) ==
    /\ fd[d][p] = "binding"
    /\ wall >= last_clock
    /\ monotonic' = [monotonic EXCEPT ![d] = now + WallTime]
    /\ read' = Later(read, wall)
    /\ Becomes(p, d, "bound")
    /\ UNCHANGED <<disk, owner, flock, time, worked>>

\* _bind_clock(): what is left of the deadline, on the monotonic clock
Bind(p, d) ==
    /\ fd[d][p] = "binding"
    /\ IF wall < last_clock
       THEN Close(p, d) /\ UNCHANGED <<monotonic, read>>
       ELSE /\ monotonic' = [monotonic EXCEPT ![d] = now + Later(0, deadline - wall)]
            /\ read' = Later(read, wall)
            /\ Becomes(p, d, "bound")
            /\ UNCHANGED flock
    /\ UNCHANGED <<disk, owner, time, worked>>

-----------------------------------------------------------------------------
(* The life of an owner *)

\* Mutant: a forked child writes through the object it inherited
OwnsInherited(p, d) == fd[d][p] = "bound"

\* _transaction(): only the process that made the object writes through it
Owns(p, d) == fd[d][p] = "bound" /\ owner[d] = p

\* _require_time() in the transaction of a start, a dispatch or a completion
Authorise(p, d) ==
    /\ Owns(p, d)
    /\ wall >= last_clock
    /\ monotonic[d] > now
    /\ last_clock' = wall
    /\ read' = Later(read, wall)
    /\ worked' = now
    /\ UNCHANGED <<file, deadline, fd, owner, flock, monotonic, time>>

\* close(), in the owner or in a child
CloseObject(p, d) ==
    /\ fd[d][p] = "bound"
    /\ Close(p, d)
    /\ UNCHANGED <<disk, owner, monotonic, time, past>>

\* A fork shares every description its parent has open.  The thread that was making an
\* object is not in the child, which only holds the description then.
Fork(p, q) ==
    /\ \A d \in Description : fd[d][q] = "none"
    /\ \E d \in Description : fd[d][p] # "none"
    /\ fd' = [d \in Description |-> [fd[d] EXCEPT ![q] =
                 IF fd[d][p] \in {"none", "bound"} THEN fd[d][p] ELSE "held"]]
    /\ UNCHANGED <<disk, owner, flock, monotonic, time, past>>

\* a process dies: an open transaction rolls back, and its descriptions are closed
Die(p) ==
    /\ \E d \in Description : fd[d][p] # "none"
    /\ fd' = [d \in Description |-> [fd[d] EXCEPT ![p] = "none"]]
    /\ flock' = IF flock # 0 /\ \A q \in Proc \ {p} : fd[flock][q] = "none" THEN 0 ELSE flock
    /\ UNCHANGED <<disk, owner, monotonic, time, past>>

\* both clocks advance, whether or not the run is open
Pass ==
    /\ now < MaxTime /\ wall < MaxWall
    /\ now' = now + 1
    /\ wall' = wall + 1
    /\ UNCHANGED <<disk, fd, owner, flock, monotonic, honest, past>>

\* somebody sets the wall clock
SetClock ==
    /\ \E t \in 0..MaxWall : t # wall /\ wall' = t
    /\ honest' = FALSE
    /\ UNCHANGED <<disk, fd, owner, flock, monotonic, now, past>>

Next ==
    \/ \E p \in Proc, d \in Description :
          \/ OpenCreate(p, d) \/ OpenExisting(p, d) \/ Lock(p, d)
          \/ CommitSchema(p, d) \/ CheckSchema(p, d) \/ Bind(p, d)
          \/ Authorise(p, d) \/ CloseObject(p, d)
    \/ \E p, q \in Proc : Fork(p, q)
    \/ \E p \in Proc : Die(p)
    \/ Pass
    \/ SetClock

Spec == Init /\ [][Next]_vars

-----------------------------------------------------------------------------
(* Properties *)

OwnershipTypeOK ==
    /\ file \in {"absent", "empty", "ready"}
    /\ fd \in [Description -> [Proc -> State]]
    /\ owner \in [Description -> Proc]
    /\ flock \in Description \cup {0}
    /\ last_clock \in 0..MaxWall
    /\ deadline \in 0..(MaxWall + WallTime)
    /\ monotonic \in [Description -> 0..(MaxTime + MaxWall + WallTime)]
    /\ now \in 0..MaxTime /\ wall \in 0..MaxWall
    /\ honest \in BOOLEAN
    /\ read \in 0..MaxWall
    /\ worked \in -1..MaxTime

\* At most one object of one process may write the run, and a lock outlives its process
\* only in the children that still hold it: across creations that race with openings,
\* forks, and deaths between any two system calls.
OneWriter ==
    \A p, q \in Proc, d, e \in Description :
       Owns(p, d) /\ Owns(q, e) => p = q /\ d = e /\ flock = d /\ file = "ready"

\* While the wall clock is left alone no work is authorised after the deadline, however
\* often the run is closed, forked, abandoned and opened again: downtime is counted.
DeadlineCountsDowntime == honest /\ worked # -1 => worked < deadline

\* The limits a run was created with are never written again.
DeadlineFixed == [][file = "ready" => file' = "ready" /\ deadline' = deadline]_vars

\* "Wall time includes downtime; a backward clock refuses further work": no work is
\* authorised at a wall time before one that opened the run or authorised other work.
BackwardClockRefused == [][worked' # worked => wall >= read]_vars

-----------------------------------------------------------------------------
(* The promised lease *)

\* create() is on its way between its O_EXCL and its schema
Creating == {"created", "creating"}
Claimed  == \E d \in Description, p \in Proc : fd[d][p] \in Creating

Path ==
    CASE file = "absent" -> "free"
      [] file = "ready"  -> "made"
      [] file = "empty"  -> IF Claimed THEN "claimed" ELSE "void"

Writers == {p \in Proc : \E d \in Description : Owns(p, d)}

Lease == INSTANCE AbstractLease WITH path <- Path, writers <- Writers

\* Ownership implements the lease: creations, openings, forks, closes and deaths are steps
\* of it or leave it alone.  A path whose creator lost the lock to an opener, or died before
\* its schema was committed, is refused for ever, by create() and by open(); a run never
\* passes from one writer to another directly; and no work is authorised but by its writer,
\* within the time it was made with.
ImplementsLease == Lease!Spec

\* A path that was given up never holds a run.
VoidForEver == [][Path = "void" => Path' = "void"]_vars
=============================================================================
