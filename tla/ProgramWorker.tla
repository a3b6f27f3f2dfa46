--------------------------- MODULE ProgramWorker ---------------------------
(***************************************************************************)
(* ProgramWorker.run() of program_worker.py, and the bootstrap that runs   *)
(* in its child process.                                                   *)
(*                                                                         *)
(* Four parties race: the parent in its selector loop, the thread that     *)
(* writes the request, the confined child, and the wall clock.  The child  *)
(* runs generated code: it may write anything to either stream, close it,  *)
(* exit, be killed by its limits, or never end.  Bwrap and what runs in it *)
(* are one process here, its output is counted in units, and its standard  *)
(* output is what a JSON parser would make of it.                          *)
(***************************************************************************)
EXTENDS Integers, FiniteSets

CONSTANTS
    PipeCap,      \* units a pipe holds
    ReadSize,     \* units of one os.read()
    OutputBytes,  \* ProgramLimits.output_bytes
    MaxWrite      \* bound: units the child writes to one stream

ASSUME PipeAssumption  == PipeCap \in Nat \ {0} /\ ReadSize \in Nat \ {0}
ASSUME WriteAssumption == OutputBytes \in Nat \ {0} /\ MaxWrite \in Nat

Stream == {"stdout", "stderr"}

\* standard output as a document: a proper envelope with a value or an error, or neither
Text == {"empty", "value", "error", "other"}

VARIABLES
    phase,       \* what run() does next
    child,       \* the child: none, a stage of the bootstrap, a zombie, reaped
    code,        \* its exit status: "0", "nonzero", "killed" by a signal, "none"
    closed,      \* streams whose write end is closed
    written,     \* units the child wrote to each stream
    pipe,        \* units of them nobody has read
    text,        \* what the child wrote to standard output
    writer,      \* the thread that sends the request
    fits,        \* the request fits into the pipe without a reader
    watched,     \* streams the selector still watches
    ready,       \* answer of the last select() that is not used up
    kept,        \* len(output) and len(errors)
    late,        \* the wall limit has passed
    failure,     \* the local variable failure, "raised" when an exception unwinds
    result       \* how the call ended

process   == <<child, code, closed, written, pipe, text>>
sender    == <<writer, fits>>
reading   == <<watched, ready, kept>>
workerVars == <<phase, process, sender, reading, late, failure, result>>

Phase  == {"idle", "launching", "starting", "selecting", "reading", "waiting",
           "cleanup", "killing", "reaping", "joining", "returned"}
Child  == {"none", "setup", "loading", "program", "printing", "printed", "zombie", "reaped"}
Result == {"none", "refused", "unavailable", "leaked", "raised", "timeout", "output_limit",
           "execution_failed", "invalid_output", "ok", "program_error"}

Alive == child \in {"setup", "loading", "program", "printing", "printed"}

WorkerInit ==
    /\ phase = "idle" /\ child = "none" /\ code = "none" /\ closed = {}
    /\ written = [s \in Stream |-> 0] /\ pipe = [s \in Stream |-> 0] /\ text = "empty"
    /\ writer = "none" /\ fits = FALSE
    /\ watched = {} /\ ready = {} /\ kept = [s \in Stream |-> 0]
    /\ late = FALSE /\ failure = "none" /\ result = "none"

-----------------------------------------------------------------------------
(* The parent: launch *)

WorkerReturns(r) == phase' = "returned" /\ result' = r

\* the request is checked before anything starts: operation, size, arity and finite JSON
CallWorker ==
    /\ phase = "idle"
    /\ UNCHANGED <<process, writer, reading, late, failure>>
    /\ \/ phase' = "launching" /\ fits' \in BOOLEAN /\ UNCHANGED result
       \/ WorkerReturns("refused") /\ UNCHANGED fits

\* no fallback: without the backend, or when it cannot be started, nothing runs
Launch ==
    /\ phase = "launching"
    /\ UNCHANGED <<code, closed, written, pipe, text, sender, reading, late, failure>>
    /\ \/ phase' = "starting" /\ child' = "setup" /\ UNCHANGED result
       \/ WorkerReturns("unavailable") /\ UNCHANGED child

\* the sender thread starts ahead of the try block: its failure leaves the child behind
StartSender ==
    /\ phase = "starting"
    /\ UNCHANGED <<process, fits, ready, kept, late, failure>>
    /\ \/ /\ phase' = "selecting" /\ writer' = "writing" /\ watched' = Stream
          /\ UNCHANGED result
       \/ WorkerReturns("leaked") /\ UNCHANGED <<writer, watched>>

-----------------------------------------------------------------------------
(* The parent: the selector loop *)

Fails(f) == failure' = f /\ phase' = "cleanup"

Readable == {s \in watched : pipe[s] > 0 \/ s \in closed}

\* Mutant: the loop ends with the first stream that does
LoopEndsEarly == watched # Stream

LoopEnds == watched = {}

\* the head of the loop looks at the clock, then select() takes a snapshot or times out
Select ==
    /\ phase = "selecting"
    /\ UNCHANGED <<process, sender, watched, kept, late, result>>
    /\ IF LoopEnds THEN phase' = "waiting" /\ UNCHANGED <<ready, failure>>
       ELSE IF late THEN Fails("timeout") /\ UNCHANGED ready
       ELSE Readable # {} /\ ready' = Readable /\ phase' = "reading" /\ UNCHANGED failure

Room == OutputBytes - kept["stdout"] - kept["stderr"]

Least(m, n) == IF m < n THEN m ELSE n

\* Mutant: a chunk is kept whole, and the loop ends after it
ReadUncut(s) ==
    LET n == Least(pipe[s], ReadSize) IN
    /\ pipe' = [pipe EXCEPT ![s] = @ - n]
    /\ kept' = [kept EXCEPT ![s] = @ + n]
    /\ IF n > Room THEN Fails("output_limit") /\ ready' = {}
       ELSE /\ ready' = ready \ {s}
            /\ phase' = (IF ready' = {} THEN "selecting" ELSE "reading")
            /\ UNCHANGED failure
    /\ UNCHANGED watched

\* os.read() of a stream with data: what fits is kept, more than that ends the loop
ReadData(s) ==
    LET n == Least(pipe[s], ReadSize) IN
    /\ pipe' = [pipe EXCEPT ![s] = @ - n]
    /\ kept' = [kept EXCEPT ![s] = @ + Least(n, Room)]
    /\ IF n > Room THEN Fails("output_limit") /\ ready' = {}
       ELSE /\ ready' = ready \ {s}
            /\ phase' = (IF ready' = {} THEN "selecting" ELSE "reading")
            /\ UNCHANGED failure
    /\ UNCHANGED watched

\* os.read() of a closed, empty stream
ReadEnd(s) ==
    /\ watched' = watched \ {s}
    /\ ready' = ready \ {s}
    /\ phase' = (IF ready' = {} THEN "selecting" ELSE "reading")
    /\ UNCHANGED <<pipe, kept, failure>>

ReadReady(s) ==
    /\ phase = "reading" /\ s \in ready
    /\ IF pipe[s] > 0 THEN ReadData(s) ELSE ReadEnd(s)
    /\ UNCHANGED <<child, code, closed, written, text, sender, late, result>>

\* Mutant: wait() without a timeout
AwaitExitForever ==
    /\ phase = "waiting" /\ child = "zombie"
    /\ child' = "reaped" /\ phase' = "cleanup"
    /\ UNCHANGED <<code, closed, written, pipe, text, sender, reading, late, failure, result>>

\* both streams have ended, the process perhaps not: what is left of the limit is for it
AwaitExit ==
    /\ phase = "waiting"
    /\ \/ child = "zombie" /\ child' = "reaped" /\ phase' = "cleanup" /\ UNCHANGED failure
       \/ Alive /\ late /\ Fails("timeout") /\ UNCHANGED child
    /\ UNCHANGED <<code, closed, written, pipe, text, sender, reading, late, result>>

\* KeyboardInterrupt, or an error of a system call, unwinds through the finally clause
Unwind ==
    /\ phase \in {"selecting", "reading", "waiting"}
    /\ Fails("raised") /\ ready' = {}
    /\ UNCHANGED <<process, sender, watched, kept, late, result>>

-----------------------------------------------------------------------------
(* The parent: the finally clause and the result *)

\* Mutant: only a timeout kills
CleanupTimeout ==
    /\ phase = "cleanup"
    /\ IF failure = "timeout" THEN phase' = "killing" ELSE phase' = "joining"
    /\ UNCHANGED <<process, sender, reading, late, failure, result>>

\* poll() reaps a child that has ended
Cleanup ==
    /\ phase = "cleanup"
    /\ phase' = (IF Alive THEN "killing" ELSE "reaping")
    /\ child' = (IF Alive THEN child ELSE "reaped")
    /\ UNCHANGED <<code, closed, written, pipe, text, sender, reading, late, failure, result>>

\* the child may have ended after poll() saw it alive: killpg() then finds a zombie
Kill ==
    /\ phase = "killing" /\ phase' = "reaping"
    /\ IF Alive THEN child' = "zombie" /\ code' = "killed" /\ closed' = Stream
       ELSE UNCHANGED <<child, code, closed>>
    /\ UNCHANGED <<written, pipe, text, sender, reading, late, failure, result>>

\* wait() has no timeout here
Reap ==
    /\ phase = "reaping" /\ child \in {"zombie", "reaped"}
    /\ child' = "reaped" /\ phase' = "joining"
    /\ UNCHANGED <<code, closed, written, pipe, text, sender, reading, late, failure, result>>

\* what json.loads() may find in the output that was kept
Parsed == IF kept["stdout"] = written["stdout"] THEN {text} ELSE Text

\* the sender is given a second to notice that its pipe has no reader any more
Finish ==
    /\ phase = "joining"
    /\ UNCHANGED <<process, sender, reading, late, failure>>
    /\ IF failure # "none" THEN WorkerReturns(failure)
       ELSE IF code # "0" THEN WorkerReturns("execution_failed")
       ELSE \E t \in Parsed : WorkerReturns(CASE t = "value" -> "ok"
                                              [] t = "error" -> "program_error"
                                              [] OTHER       -> "invalid_output")

\* the caller takes the result; a child left behind is no longer anyone's
TakeResult ==
    /\ phase = "returned"
    /\ phase' = "idle" /\ child' = "none" /\ code' = "none" /\ closed' = {}
    /\ written' = [s \in Stream |-> 0] /\ pipe' = [s \in Stream |-> 0] /\ text' = "empty"
    /\ writer' = "none" /\ fits' = FALSE
    /\ watched' = {} /\ ready' = {} /\ kept' = [s \in Stream |-> 0]
    /\ late' = FALSE /\ failure' = "none" /\ result' = "none"

-----------------------------------------------------------------------------
(* The sender thread, the child and the clock *)

\* the request is in the pipe, was read by the child, or meets a broken pipe
SenderEnds ==
    /\ writer = "writing"
    /\ fits \/ child = "loading" \/ ~Alive
    /\ writer' = "done"
    /\ UNCHANGED <<phase, process, fits, reading, late, failure, result>>

ChildDies(status) ==
    child' = "zombie" /\ code' = status /\ closed' = Stream /\ UNCHANGED <<written, pipe, text>>

ChildGoes(next) == child' = next /\ UNCHANGED <<code, closed, written, pipe, text>>

\* a write of one unit; it blocks while the pipe is full
Writes(s, meaning) ==
    /\ s \notin closed /\ written[s] < MaxWrite /\ pipe[s] < PipeCap
    /\ written' = [written EXCEPT ![s] = @ + 1]
    /\ pipe' = [pipe EXCEPT ![s] = @ + 1]
    /\ text' = (IF s = "stdout" THEN meaning ELSE text)
    /\ UNCHANGED <<code, closed>>

\* confine(): limits and filter are in place, or status 78 ahead of any source
ChildSetup ==
    /\ child = "setup"
    /\ ChildGoes("loading") \/ ChildDies("nonzero") \/ (Writes("stderr", text) /\ UNCHANGED child)

\* json.load(stdin) wants the end of the input, unless memory ends first
ChildLoads ==
    /\ child = "loading"
    /\ (writer = "done" /\ ChildGoes("program")) \/ ChildGoes("printing")

\* generated code writes, closes a stream, exits, or comes to an answer
ChildRuns ==
    /\ child = "program"
    /\ \/ \E s \in Stream, t \in Text \ {"empty"} : Writes(s, t) /\ UNCHANGED child
       \/ \E s \in Stream \ closed :
             closed' = closed \cup {s} /\ UNCHANGED <<child, code, written, pipe, text>>
       \/ \E status \in {"0", "nonzero"} : ChildDies(status)
       \/ ChildGoes("printing")

\* the envelope, in as many units as it takes; what the program printed before it spoils
\* the document, unless it is white space
ChildPrints ==
    /\ child = "printing"
    /\ \/ Writes("stdout", "other") /\ UNCHANGED child
       \/ \E t \in {"value", "error"} \cup (IF text = "empty" THEN {} ELSE {"other"}) :
             Writes("stdout", t) /\ child' = "printed"
       \/ "stdout" \in closed /\ ChildDies("nonzero")

ChildExits == child = "printed" /\ ChildDies("0")

\* the limits on time and memory, from the launch on
ChildKilled == Alive /\ ChildDies("killed")

ChildSteps ==
    /\ ChildSetup \/ ChildLoads \/ ChildRuns \/ ChildPrints \/ ChildExits \/ ChildKilled
    /\ UNCHANGED <<phase, sender, reading, late, failure, result>>

WallPasses ==
    /\ phase \notin {"idle", "returned"} /\ ~late /\ late' = TRUE
    /\ UNCHANGED <<phase, process, sender, reading, failure, result>>

ParentSteps ==
    \/ Launch \/ StartSender \/ Select \/ (\E s \in Stream : ReadReady(s))
    \/ AwaitExit \/ Cleanup \/ Kill \/ Reap \/ Finish \/ TakeResult

WorkerNext == CallWorker \/ ParentSteps \/ Unwind \/ SenderEnds \/ ChildSteps \/ WallPasses

WorkerSpec == WorkerInit /\ [][WorkerNext]_workerVars

\* the parent is scheduled and time passes; the child owes nothing
WorkerFairness == WF_workerVars(ParentSteps) /\ WF_workerVars(WallPasses)

FairWorkerSpec == WorkerSpec /\ WorkerFairness

-----------------------------------------------------------------------------
(* Properties *)

WorkerTypeOK ==
    /\ phase \in Phase /\ child \in Child /\ code \in {"none", "0", "nonzero", "killed"}
    /\ closed \subseteq Stream /\ watched \subseteq Stream /\ ready \subseteq watched
    /\ written \in [Stream -> 0..MaxWrite] /\ pipe \in [Stream -> 0..PipeCap]
    /\ kept \in [Stream -> 0..OutputBytes] /\ text \in Text
    /\ writer \in {"none", "writing", "done"} /\ fits \in BOOLEAN /\ late \in BOOLEAN
    /\ failure \in {"none", "raised", "timeout", "output_limit"} /\ result \in Result

\* However the call ends, on every path through the try block, its child is dead and has
\* been waited for, and what it holds of the output is within one limit for both streams.
NothingLeftRunning ==
    /\ phase = "returned" /\ result # "leaked" => child \in {"none", "reaped"}
    /\ kept["stdout"] + kept["stderr"] <= OutputBytes

\* An answer is read from the whole output of a child that exited by itself: no reader
\* that stopped early, no limit, no kill and no wall limit may pass for a result.
AnswerIsWhole ==
    result \in {"ok", "program_error", "invalid_output"} =>
       /\ code = "0" /\ failure = "none"
       /\ kept = written
       /\ result = "ok" <=> text = "value"

\* Whatever the child does, the call returns: no pipe fills up for ever, and no wait is
\* without a limit.
WorkerEnds == phase # "idle" ~> phase = "idle"
=============================================================================
