---------------------------- MODULE BesideProofs ----------------------------
(***************************************************************************)
(* What the parts beside the journal guarantee, each for every value of    *)
(* its constants: the program worker, the fetch, an inference and what a   *)
(* step makes of it, and the context compiler.                             *)
(***************************************************************************)
EXTENDS MCBeside, FoldProofs

-----------------------------------------------------------------------------
(* ProgramWorker: every size of pipe, read and limit, and every child      *)
-----------------------------------------------------------------------------
(* The inductive invariant *)

Unstarted == {"idle", "launching"}
Trying    == {"starting", "selecting", "reading", "waiting"}
Closing   == {"cleanup", "killing", "reaping", "joining"}

\* unless the call has failed, nothing of the output is lost between child and parent, and
\* what is kept never exceeds the limit
Books ==
    /\ failure = "none" => \A s \in Stream : kept[s] + pipe[s] = written[s]
    /\ kept["stdout"] + kept["stderr"] <= OutputBytes

\* a stream is read when there is something to read or it has ended, and left when it has
\* ended and is empty
Watching ==
    /\ \A s \in ready : pipe[s] > 0 \/ s \in closed
    /\ phase \in {"selecting", "reading", "waiting"} \cup Closing /\ failure = "none" =>
          \A s \in Stream \ watched : s \in closed /\ pipe[s] = 0
    /\ phase = "waiting" \/ (phase \in Closing /\ failure = "none") => watched = {}

\* where the child may be, seen from run()
Lifetime ==
    /\ phase \in Unstarted => child = "none"
    /\ phase \in Trying => child # "none"
    /\ phase \in Unstarted \cup Trying => failure = "none"
    /\ phase = "killing" => failure # "none"
    /\ phase \in Closing => child # "none"
    /\ phase \in Closing /\ failure = "none" => child = "reaped"
    /\ phase = "joining" => child = "reaped"
    /\ phase = "returned" /\ result # "leaked" => child \in {"none", "reaped"}

WorkerInv == WorkerTypeOK /\ Books /\ Watching /\ Lifetime /\ AnswerIsWhole
             /\ (phase # "returned" => result = "none")

-----------------------------------------------------------------------------
(* Each step preserves it *)

\* The first state satisfies the invariant.
LEMMA InitWorker == WorkerInit => WorkerInv
  <1> SUFFICES ASSUME WorkerInit PROVE WorkerInv
    OBVIOUS
  <1>0. 0 \in 0..MaxWrite /\ 0 \in 0..PipeCap /\ 0 \in 0..OutputBytes
    BY WriteAssumption, PipeAssumption
  <1>1. WorkerTypeOK
    BY <1>0 DEF WorkerInit, WorkerTypeOK, Phase, Child, Text, Result
  <1>2. Books
    BY WriteAssumption DEF WorkerInit, Books, Stream
  <1>3. Watching /\ Lifetime /\ AnswerIsWhole
    BY DEF WorkerInit, Watching, Lifetime, AnswerIsWhole, Unstarted, Trying, Closing
  <1> QED
    BY <1>1, <1>2, <1>3 DEF WorkerInv, WorkerInit

\* The child changes only its own state, and what it writes is in the pipe.
LEMMA StepChild ==
  ASSUME WorkerInv, ChildSteps
  PROVE  WorkerInv'
  <1> USE DEF WorkerInv
  <1>1. /\ Alive /\ UNCHANGED <<phase, writer, fits, watched, ready, kept, late, failure, result>>
        /\ child' # "none" /\ child' \in Child
    BY DEF ChildSteps, ChildSetup, ChildLoads, ChildRuns, ChildPrints, ChildExits, ChildKilled,
       ChildGoes, ChildDies, Writes, Alive, Child, sender, reading
  <1>2. \/ /\ closed \subseteq closed' /\ closed' \subseteq Stream
           /\ code' \in {code, "0", "nonzero", "killed"} /\ UNCHANGED <<written, pipe, text>>
        \/ \E s \in Stream, t \in Text : Writes(s, t)
    BY DEF ChildSteps, ChildSetup, ChildLoads, ChildRuns, ChildPrints, ChildExits, ChildKilled,
       ChildGoes, ChildDies, Text, Stream, WorkerTypeOK
  <1>3. Lifetime' /\ (phase' # "returned" => result' = "none")
    BY <1>1 DEF Lifetime, Alive, Closing, Unstarted, Trying
  <1>4. AnswerIsWhole'
    BY <1>1 DEF Lifetime, AnswerIsWhole, Alive
  <1>5. CASE /\ closed \subseteq closed' /\ closed' \subseteq Stream
             /\ code' \in {code, "0", "nonzero", "killed"} /\ UNCHANGED <<written, pipe, text>>
    <2>1. WorkerTypeOK'
      BY <1>1, <1>5 DEF WorkerTypeOK
    <2>2. Books' /\ Watching'
      BY <1>1, <1>5 DEF Books, Watching
    <2> QED
      BY <1>3, <1>4, <2>1, <2>2
  <1>6. ASSUME NEW s \in Stream, NEW t \in Text, Writes(s, t) PROVE WorkerInv'
    <2>1. WorkerTypeOK'
      BY <1>1, <1>6, PipeAssumption, WriteAssumption DEF WorkerTypeOK, Writes
    <2>2. Books' /\ Watching'
      BY <1>1, <1>6 DEF Books, Watching, Writes, WorkerTypeOK
    <2> QED
      BY <1>3, <1>4, <2>1, <2>2
  <1> QED
    BY <1>2, <1>5, <1>6

\* One read: what fits is kept, what does not fails the call, and an end is believed only
\* of a stream that has ended.
LEMMA StepRead ==
  ASSUME WorkerInv, NEW s \in Stream, ReadReady(s)
  PROVE  WorkerInv'
  <1> USE DEF WorkerInv
  <1>1. /\ phase = "reading" /\ failure = "none" /\ s \in ready /\ s \in watched
        /\ UNCHANGED <<child, code, closed, written, text, writer, fits, late, result>>
    BY DEF ReadReady, Lifetime, Trying, Unstarted, WorkerTypeOK, sender
  <1>2. CASE pipe[s] > 0
    <2> DEFINE n == Least(pipe[s], ReadSize)
    <2>1. /\ pipe' = [pipe EXCEPT ![s] = @ - n]
          /\ kept' = [kept EXCEPT ![s] = @ + Least(n, Room)] /\ watched' = watched
          /\ \/ n > Room /\ failure' = "output_limit" /\ phase' = "cleanup" /\ ready' = {}
             \/ /\ n <= Room /\ failure' = failure /\ ready' = ready \ {s}
                /\ phase' \in {"selecting", "reading"}
      <3>1. n \in Nat /\ Room \in Int
        BY PipeAssumption, WriteAssumption DEF Least, Room, WorkerTypeOK, Stream
      <3> QED
        BY <1>2, <3>1 DEF ReadReady, ReadData, Fails
    <2>2. n \in 1..pipe[s] /\ pipe[s] \in Nat /\ Room \in Nat /\ Least(n, Room) \in 0..Room
      BY <1>2, PipeAssumption, WriteAssumption DEF Least, Room, Books, WorkerTypeOK, Stream
    <2>3. /\ kept["stdout"] \in Nat /\ kept["stderr"] \in Nat
          /\ Room = OutputBytes - kept["stdout"] - kept["stderr"] /\ OutputBytes \in Nat
          /\ s \in {"stdout", "stderr"} /\ kept \in [Stream -> 0..OutputBytes]
          /\ pipe \in [Stream -> 0..PipeCap] /\ written \in [Stream -> 0..MaxWrite]
          /\ PipeCap \in Nat
      BY PipeAssumption, WriteAssumption DEF Room, WorkerTypeOK, Stream
    <2> HIDE DEF n
    <2>4. kept'["stdout"] + kept'["stderr"] <= OutputBytes /\ kept' \in [Stream -> 0..OutputBytes]
      BY <2>1, <2>2, <2>3 DEF Stream
    <2>5. pipe' \in [Stream -> 0..PipeCap]
      BY <2>1, <2>2, <2>3
    <2>6. Books'
      <3>1. CASE n > Room
        BY <2>1, <2>2, <2>4, <3>1 DEF Books
      <3>2. CASE n <= Room
        <4>1. Least(n, Room) = n
          BY <2>2, <3>2 DEF Least
        <4>2. \A x \in Stream : kept'[x] + pipe'[x] = kept[x] + pipe[x]
          BY <2>1, <2>2, <2>3, <4>1
        <4> QED
          BY <1>1, <2>4, <4>2 DEF Books
      <3> QED
        BY <2>2, <3>1, <3>2
    <2>7. Watching'
      <3>1. CASE failure' = "output_limit"
        BY <1>1, <2>1, <3>1 DEF Watching, Closing
      <3>2. CASE failure' = failure /\ ready' = ready \ {s} /\ phase' \in {"selecting", "reading"}
        <4>1. \A x \in Stream \ {s} : pipe'[x] = pipe[x]
          BY <2>1, <2>3
        <4>2. ready' \subseteq Stream \ {s} /\ Stream \ watched \subseteq Stream \ {s}
          BY <1>1, <3>2 DEF WorkerTypeOK
        <4> QED
          BY <1>1, <2>1, <3>2, <4>1, <4>2 DEF Watching, Closing
      <3> QED
        BY <2>1, <3>1, <3>2
    <2>8. WorkerTypeOK'
      BY <1>1, <2>1, <2>4, <2>5 DEF WorkerTypeOK, Phase
    <2>9. Lifetime' /\ AnswerIsWhole' /\ result' = "none" /\ phase' # "returned"
      BY <1>1, <2>1 DEF Lifetime, AnswerIsWhole, Unstarted, Trying, Closing
    <2> QED
      BY <2>6, <2>7, <2>8, <2>9
  <1>3. CASE ~(pipe[s] > 0)
    <2>1. /\ watched' = watched \ {s} /\ ready' = ready \ {s} /\ UNCHANGED <<pipe, kept, failure>>
          /\ phase' \in {"selecting", "reading"}
      BY <1>3 DEF ReadReady, ReadEnd
    <2>2. s \in closed /\ pipe[s] = 0
      BY <1>1, <1>3, PipeAssumption DEF Watching, WorkerTypeOK
    <2>3. Books' /\ Watching'
      BY <1>1, <2>1, <2>2 DEF Books, Watching, Closing
    <2>4. WorkerTypeOK'
      BY <1>1, <2>1 DEF WorkerTypeOK, Phase
    <2>5. Lifetime' /\ AnswerIsWhole' /\ result' = "none" /\ phase' # "returned"
      BY <1>1, <2>1 DEF Lifetime, AnswerIsWhole, Unstarted, Trying, Closing
    <2> QED
      BY <2>3, <2>4, <2>5
  <1> QED
    BY <1>2, <1>3

\* The steps that move phase without touching the output.
LEMMA StepParent ==
  ASSUME WorkerInv, CallWorker \/ Launch \/ StartSender \/ Select \/ AwaitExit \/ Unwind
  PROVE  WorkerInv'
  <1> USE DEF WorkerInv
  <1>1. CASE CallWorker \/ Launch
    <2>1. /\ phase \in Unstarted /\ phase' \in Unstarted \cup {"starting", "returned"}
          /\ UNCHANGED <<code, closed, written, pipe, text, writer, watched, ready, kept, late, failure>>
          /\ fits' \in BOOLEAN /\ result' \in {result, "refused", "unavailable"}
          /\ phase' # "returned" => result' = result
          /\ \/ child' = child /\ phase' # "starting"
             \/ child' = "setup" /\ phase' = "starting"
      BY <1>1 DEF CallWorker, Launch, WorkerReturns, Unstarted, process, sender, reading,
         WorkerTypeOK
    <2>2. WorkerTypeOK'
      BY <2>1 DEF WorkerTypeOK, Phase, Child, Result, Unstarted
    <2>3. Books' /\ Watching'
      BY <2>1 DEF Books, Watching, Closing, Unstarted
    <2>4. Lifetime' /\ AnswerIsWhole' /\ (phase' # "returned" => result' = "none")
      BY <2>1 DEF Lifetime, AnswerIsWhole, Unstarted, Trying, Closing
    <2> QED
      BY <2>2, <2>3, <2>4
  <1>2. CASE StartSender
    <2>1. /\ phase = "starting" /\ failure = "none"
          /\ UNCHANGED <<child, code, closed, written, pipe, text, fits, ready, kept, late, failure>>
          /\ \/ /\ phase' = "selecting" /\ writer' = "writing" /\ watched' = Stream
                /\ result' = result
             \/ /\ phase' = "returned" /\ result' = "leaked" /\ UNCHANGED <<writer, watched>>
      BY <1>2 DEF StartSender, WorkerReturns, process, Lifetime, Trying
    <2>2. WorkerTypeOK'
      BY <2>1 DEF WorkerTypeOK, Phase, Result
    <2>3. Books' /\ Watching'
      BY <2>1 DEF Books, Watching, Closing
    <2>4. Lifetime' /\ AnswerIsWhole' /\ (phase' # "returned" => result' = "none")
      BY <2>1 DEF Lifetime, AnswerIsWhole, Unstarted, Trying, Closing
    <2> QED
      BY <2>2, <2>3, <2>4
  <1>3. CASE Select \/ Unwind
    <2>1. /\ phase \in {"selecting", "reading", "waiting"} /\ failure = "none"
          /\ UNCHANGED <<child, code, closed, written, pipe, text, writer, fits, watched, kept, late, result>>
          /\ \/ phase' = "waiting" /\ watched = {} /\ UNCHANGED <<ready, failure>>
             \/ phase' = "cleanup" /\ failure' \in {"timeout", "raised"} /\ ready' \in {ready, {}}
             \/ phase' = "reading" /\ ready' = Readable /\ UNCHANGED failure
      BY <1>3 DEF Select, Unwind, LoopEnds, Fails, process, sender, Lifetime, Trying
    <2>2. Readable \subseteq watched /\ \A s \in Readable : pipe[s] > 0 \/ s \in closed
      BY DEF Readable
    <2>3. WorkerTypeOK'
      BY <2>1, <2>2 DEF WorkerTypeOK, Phase
    <2>4. Books' /\ Watching'
      BY <2>1, <2>2 DEF Books, Watching, Closing
    <2>5. Lifetime' /\ AnswerIsWhole' /\ (phase' # "returned" => result' = "none")
      BY <2>1 DEF Lifetime, AnswerIsWhole, Unstarted, Trying, Closing
    <2> QED
      BY <2>3, <2>4, <2>5
  <1>4. CASE AwaitExit
    <2>1. /\ phase = "waiting" /\ phase' = "cleanup" /\ failure = "none"
          /\ UNCHANGED <<code, closed, written, pipe, text, writer, fits, watched, ready, kept, late, result>>
          /\ \/ child' = "reaped" /\ failure' = failure
             \/ child' = child /\ failure' = "timeout"
      BY <1>4 DEF AwaitExit, Fails, sender, reading, Lifetime, Trying
    <2>2. WorkerTypeOK'
      BY <2>1 DEF WorkerTypeOK, Phase, Child
    <2>3. Books' /\ Watching'
      BY <2>1 DEF Books, Watching, Closing
    <2>4. Lifetime' /\ AnswerIsWhole' /\ (phase' # "returned" => result' = "none")
      BY <2>1 DEF Lifetime, AnswerIsWhole, Unstarted, Trying, Closing
    <2> QED
      BY <2>2, <2>3, <2>4
  <1> QED
    BY <1>1, <1>2, <1>3, <1>4

\* The finally clause, on every path into it, and the result.
LEMMA StepFinally ==
  ASSUME WorkerInv, Cleanup \/ Kill \/ Reap \/ Finish
  PROVE  WorkerInv'
  <1> USE DEF WorkerInv
  <1>1. CASE Cleanup \/ Kill \/ Reap
    <2>1. /\ phase \in Closing /\ phase' \in {"killing", "reaping", "joining"}
          /\ UNCHANGED <<written, pipe, text, writer, fits, watched, ready, kept, late, failure, result>>
          /\ closed \subseteq closed' /\ closed' \subseteq Stream /\ code' \in {code, "killed"}
          /\ child' \in {child, "zombie", "reaped"}
          /\ child' = "zombie" => child = "zombie" \/ phase = "killing"
          /\ phase' = "killing" => Alive /\ child' = child
          /\ phase' = "joining" => child' = "reaped"
      BY <1>1 DEF Cleanup, Kill, Reap, Closing, sender, reading, WorkerTypeOK
    <2>2. WorkerTypeOK'
      BY <2>1 DEF WorkerTypeOK, Phase, Child
    <2>3. Books' /\ Watching'
      BY <2>1 DEF Books, Watching, Closing
    <2>4. Lifetime' /\ AnswerIsWhole' /\ (phase' # "returned" => result' = "none")
      BY <2>1 DEF Lifetime, AnswerIsWhole, Unstarted, Trying, Closing, Alive
    <2> QED
      BY <2>2, <2>3, <2>4
  <1>2. CASE Finish
    <2>1. /\ phase = "joining" /\ phase' = "returned" /\ child = "reaped"
          /\ UNCHANGED <<child, code, closed, written, pipe, text, writer, fits, watched, ready, kept, late, failure>>
      BY <1>2 DEF Finish, WorkerReturns, process, sender, reading, Lifetime
    <2>2. failure = "none" => kept = written
      <3>1. failure = "none" => \A s \in Stream : kept[s] = written[s]
        <4>1. failure = "none" => \A s \in Stream : pipe[s] = 0 /\ kept[s] + pipe[s] = written[s]
          BY <2>1 DEF Watching, Books, Closing
        <4>2. \A s \in Stream : kept[s] \in Nat /\ written[s] \in Nat
          BY WriteAssumption DEF WorkerTypeOK
        <4> QED
          BY <4>1, <4>2
      <3> QED
        BY <3>1 DEF WorkerTypeOK
    <2>3. /\ result' \in Result
          /\ result' \in {"ok", "program_error", "invalid_output"} =>
                /\ failure = "none" /\ code = "0"
                /\ result' = "ok" <=> text = "value"
      <3>1. CASE failure # "none"
        BY <1>2, <3>1 DEF Finish, WorkerReturns, WorkerTypeOK, Result
      <3>2. CASE failure = "none" /\ code # "0"
        BY <1>2, <3>2 DEF Finish, WorkerReturns, Result
      <3>3. CASE failure = "none" /\ code = "0"
        <4>1. Parsed = {text}
          BY <2>2, <3>3 DEF Parsed
        <4>2. result' = CASE text = "value" -> "ok" [] text = "error" -> "program_error"
                          [] OTHER -> "invalid_output"
          BY <1>2, <3>3, <4>1 DEF Finish, WorkerReturns
        <4> QED
          BY <3>3, <4>2 DEF Result
      <3> QED
        BY <3>1, <3>2, <3>3
    <2>4. WorkerTypeOK'
      BY <2>1, <2>3 DEF WorkerTypeOK, Phase
    <2>5. Books' /\ Watching' /\ Lifetime'
      BY <2>1 DEF Books, Watching, Lifetime, Unstarted, Trying, Closing
    <2>6. AnswerIsWhole'
      BY <2>1, <2>2, <2>3 DEF AnswerIsWhole
    <2> QED
      BY <2>1, <2>4, <2>5, <2>6
  <1> QED
    BY <1>1, <1>2

\* Every step of the child and of the parent preserves it.
LEMMA StepWorker == WorkerInv /\ [WorkerNext]_workerVars => WorkerInv'
  <1> SUFFICES ASSUME WorkerInv, [WorkerNext]_workerVars PROVE WorkerInv'
    OBVIOUS
  <1>1. CASE TakeResult
    <2>1. WorkerInit'
      BY <1>1 DEF TakeResult, WorkerInit
    <2> QED
      BY <2>1, InitWorker, PTL
  <1>2. CASE SenderEnds \/ WallPasses \/ UNCHANGED workerVars
    <2>1. /\ UNCHANGED <<phase, child, code, closed, written, pipe, text, fits, watched, ready, kept, failure, result>>
          /\ writer' \in {"none", "writing", "done"} /\ late' \in BOOLEAN
      BY <1>2 DEF SenderEnds, WallPasses, workerVars, process, sender, reading, WorkerInv,
         WorkerTypeOK
    <2>2. WorkerTypeOK'
      BY <2>1 DEF WorkerInv, WorkerTypeOK
    <2> QED
      BY <2>1, <2>2 DEF WorkerInv, Books, Watching, Lifetime, AnswerIsWhole
  <1> QED
    BY <1>1, <1>2, StepChild, StepRead, StepParent, StepFinally DEF WorkerNext, ParentSteps

\* The invariant holds in every behaviour.
LEMMA WorkerInvariant == WorkerSpec => []WorkerInv
  BY InitWorker, StepWorker, PTL DEF WorkerSpec

-----------------------------------------------------------------------------
(* Theorems *)

\* For every child and every limit: when run() has returned, its child has been reaped, unless
\* the sender could not be started, and what it kept is within the limit of both streams.
THEOREM Reaped == WorkerSpec => []NothingLeftRunning
  <1>1. WorkerInv => NothingLeftRunning
    BY DEF WorkerInv, Lifetime, Books, NothingLeftRunning
  <1> QED
    BY <1>1, WorkerInvariant, PTL

\* For every child and every limit: a result is read from the whole output of a child that
\* exited by itself, and a value is returned exactly when that output is one.
THEOREM Whole == WorkerSpec => []AnswerIsWhole
  <1>1. WorkerInv => AnswerIsWhole
    BY DEF WorkerInv
  <1> QED
    BY <1>1, WorkerInvariant, PTL
-----------------------------------------------------------------------------
(* Fetch: every policy, every chain of redirects and any body of a server  *)
USE DEF Absent, NoInteger

\* what the call knows of its requests while it waits: the one that is out is the last of
\* a chain of permitted origins, and the others are redirects
Chain ==
    /\ requests \in Seq(Permitted)
    /\ Len(requests) <= MaxRedirects + 1
    /\ fetching = "idle" => requests = <<>> /\ redirects = <<>>
    /\ Waiting => requests # <<>> /\ redirects = Tail(requests) /\ target = Last(requests)

\* every unit that arrived is kept until one is too many, and the cap is never passed
Received ==
    /\ body <= MaxBytes
    /\ fetching \notin {"closing", "returned"} => body = sent /\ fetched = "none"
    /\ fetching \in {"idle", "head"} => body = 0

FetchInv == FetchTypeOK /\ Chain /\ Received /\ ResponseIsWhole

-----------------------------------------------------------------------------
(* The chain of requests *)

\* Tail and Last follow Append: what the redirects list and the target rest on.
LEMMA AppendLast ==
  ASSUME NEW S, NEW s \in Seq(S), NEW e \in S
  PROVE  /\ Append(s, e) \in Seq(S) /\ Append(s, e) # <<>>
         /\ Len(Append(s, e)) = Len(s) + 1 /\ Last(Append(s, e)) = e
         /\ s # <<>> => Tail(Append(s, e)) = Append(Tail(s), e)
         /\ s = <<>> => Tail(Append(s, e)) = <<>>
  BY DEF Last

\* Nothing requested yet is a chain.
LEMMA EmptyChain ==
    /\ <<>> \in Seq(Origin) /\ <<>> \in Seq(Permitted)
    /\ Len(<<>>) <= MaxRedirects + 1 /\ 0 <= MaxBytes
  <1>1. Len(<<>>) = 0
    OBVIOUS
  <1> QED
    BY <1>1, PolicyAssumption

\* The first state satisfies the invariant.
LEMMA InitFetch == FetchInit => FetchInv
  <1> SUFFICES ASSUME FetchInit PROVE FetchInv
    OBVIOUS
  <1>1. FetchTypeOK
    BY EmptyChain DEF FetchInit, FetchTypeOK, Fetched, Length
  <1>2. Chain
    BY EmptyChain DEF FetchInit, Chain, Waiting
  <1>3. Received /\ ResponseIsWhole
    BY EmptyChain DEF FetchInit, Received, ResponseIsWhole
  <1> QED
    BY <1>1, <1>2, <1>3 DEF FetchInv


\* Every step of the call and of the server preserves it.
LEMMA StepFetch == FetchInv /\ [FetchNext]_fetchVars => FetchInv'
  <1> SUFFICES ASSUME FetchInv, [FetchNext]_fetchVars PROVE FetchInv'
    OBVIOUS
  <1> USE PolicyAssumption, ChunkAssumption
      DEF FetchInv, FetchTypeOK, Chain, Received, ResponseIsWhole, Waiting, Fetched,
          FetchReturns
  <1>1. ASSUME NEW url \in Origin, CallFetch(url) PROVE FetchInv'
    <2>1. CASE url \in Permitted
      <3>1. requests = <<>> /\ redirects = <<>> /\ requests' = Append(requests, url)
        BY <1>1, <2>1 DEF CallFetch, Requests
      <3>2. /\ Append(requests, url) \in Seq(Permitted) /\ Append(requests, url) # <<>>
            /\ Len(Append(requests, url)) = Len(requests) + 1
            /\ Last(Append(requests, url)) = url
            /\ requests = <<>> => Tail(Append(requests, url)) = <<>>
        BY <2>1, AppendLast
      <3>3. /\ requests' \in Seq(Permitted) /\ requests' \in Seq(Origin) /\ requests' # <<>>
            /\ Len(requests') = 1 /\ Last(requests') = url /\ Tail(requests') = <<>>
        BY <3>1, <3>2
      <3>4. fetching' = "head" /\ target' = url /\ redirects' = <<>> /\ fetched' = "none"
        BY <1>1, <2>1, <3>1 DEF CallFetch, Requests
      <3>5. Chain'
        BY <3>3, <3>4
      <3>6. (FetchTypeOK /\ Received /\ ResponseIsWhole)'
        BY <1>1, <3>3, <3>4, EmptyChain DEF CallFetch
      <3> QED
        BY <3>5, <3>6
    <2>2. CASE url \notin Permitted
      BY <1>1, <2>2 DEF CallFetch
    <2> QED
      BY <2>1, <2>2
  <1>2. ASSUME NEW location \in Location, Redirect(location) PROVE FetchInv'
    <2>1. CASE Len(redirects) < MaxRedirects /\ location \in Permitted
      <3>1. /\ fetching = "head" /\ requests \in Seq(Permitted) /\ requests # <<>>
            /\ redirects = Tail(requests)
            /\ requests' = Append(requests, location) /\ redirects' = Append(redirects, location)
        BY <1>2, <2>1 DEF Redirect, Requests
      <3>2. Len(redirects) = Len(requests) - 1
        BY <3>1
      <3>3. /\ requests' \in Seq(Permitted) /\ requests' # <<>>
            /\ Len(requests') = Len(requests) + 1 /\ Last(requests') = location
            /\ Tail(requests') = redirects'
        BY <2>1, <3>1, AppendLast
      <3>4. requests' \in Seq(Origin) /\ redirects' \in Seq(Origin)
        BY <2>1, <3>1
      <3> QED
        BY <1>2, <2>1, <3>1, <3>2, <3>3, <3>4 DEF Redirect, Requests
    <2>2. CASE ~(Len(redirects) < MaxRedirects /\ location \in Permitted)
      BY <1>2, <2>2 DEF Redirect
    <2> QED
      BY <2>1, <2>2
  <1>3. ASSUME NEW identity \in BOOLEAN, NEW length \in Length, ResponseHead(identity, length)
        PROVE  FetchInv'
    BY <1>3 DEF ResponseHead
  <1>4. ASSUME NEW n \in 1..MaxChunk, Chunk(n) PROVE FetchInv'
    BY <1>4 DEF Chunk
  <1>5. CASE BodyEnds
    BY <1>5 DEF BodyEnds, Length
  <1>6. CASE Expires \/ Breaks
    BY <1>6 DEF Expires, Breaks, Leaves
  <1>7. CASE DeadlinePasses \/ FetchCloses
    BY <1>7 DEF DeadlinePasses, FetchCloses
  <1>8. CASE TakeResponse
    BY <1>8, EmptyChain DEF TakeResponse, Length
  <1>9. CASE UNCHANGED fetchVars
    BY <1>9 DEF fetchVars
  <1> QED
    BY <1>1, <1>2, <1>3, <1>4, <1>5, <1>6, <1>7, <1>8, <1>9 DEF FetchNext

\* The invariant holds in every behaviour.
LEMMA FetchInvariant == FetchSpec => []FetchInv
  BY InitFetch, StepFetch, PTL DEF FetchSpec

-----------------------------------------------------------------------------
(* Theorems *)

\* The fetch loop is type correct for every policy.
THEOREM FetchTyping == FetchSpec => []FetchTypeOK
  <1>1. FetchInv => FetchTypeOK
    BY DEF FetchInv
  <1> QED
    BY <1>1, FetchInvariant, PTL

\* Whatever redirects a server answers with, fetch_https() contacts permitted origins only,
\* and no more of them than the policy says.
THEOREM Contacts == FetchSpec => []OnlyPermittedContacted
  <1>1. FetchInv => OnlyPermittedContacted
    BY DEF FetchInv, Chain, OnlyPermittedContacted, ToSet
  <1> QED
    BY <1>1, FetchInvariant, PTL

\* Whatever a server declares and sends, a FetchResponse is all that arrived, within the cap,
\* and tells the chain of requests that led to it.
THEOREM Responses == FetchSpec => []ResponseIsWhole
  <1>1. FetchInv => ResponseIsWhole
    BY DEF FetchInv
  <1> QED
    BY <1>1, FetchInvariant, PTL
-----------------------------------------------------------------------------
(* Proposal: every grant and hook, every budget and answer of a provider   *)
USE DEF Unknown

-----------------------------------------------------------------------------
(* The inductive invariant *)

\* authority has only narrowed, and a step that went on did so with a call
Authority ==
    /\ effective = prepared.allowed /\ effective \subseteq asked
    /\ step \in {"validation", "dispatched"} => generating = "returned" /\ outcome_of = "call"
    /\ step = "dispatched" => executed = named /\ named \in effective \cap registered

\* the plan still fits the request, and only a payable request of DeepSeek is under way
Planning ==
    /\ adapter # "none" => Plannable(adapter, prepared, available, planned)
    /\ generating = "posting" =>
          adapter = "deepseek" /\ Payable(Request(prepared, planned))
    /\ CeilingRespected

\* an adapter that was not called holds nothing, and a new step finds it so
Untouched ==
    /\ generating = "idle" => AdapterInit
    /\ step = "idle" => generating = "idle"

\* the report and the exceptions that lose it, from the moment generate() ends
Reported ==
    /\ generating = "returned" =>
          /\ outcome_of = "RuntimeError" => ~wire
          /\ outcome_of = "RecursionError" => response.body \in {"deep_body", "deep_arguments"}
          /\ wire => report.started
          /\ report.output # Unknown =>
                report.output = IF report.started THEN response.output ELSE 0
    /\ step \in {"validation", "dispatched", "failed"} /\ generating = "returned" =>
          recorded = report \/ outcome_of \in {"RuntimeError", "RecursionError"}

\* a call of DeepSeek is one of a tool that was offered
Offered ==
    generating = "returned" /\ outcome_of = "call" /\ adapter = "deepseek" =>
       named \in Request(prepared, planned).tools

ProposalInv ==
    /\ ProposalTypeOK /\ Authority /\ Planning /\ Untouched /\ Reported /\ Offered
    /\ OutcomeIsTrue

-----------------------------------------------------------------------------
(* The ceiling *)

\* OutputLimit() is within the limit of the adapter and the ceiling of the request.
LEMMA LimitBounded ==
  ASSUME NEW r \in InferenceRequest, r.ceiling # 0
  PROVE  /\ OutputLimit(r) \in 1..MaxTokens
         /\ r.ceiling # Unknown => OutputLimit(r) <= r.ceiling
  BY CountAssumption DEF OutputLimit, Smaller, InferenceRequest

\* The request that is sent keeps the fields of the prepared one but its tools and ceiling.
LEMMA RequestFields ==
  ASSUME NEW r \in InferenceRequest, NEW plan \in Nat \cup {Unknown}
  PROVE  /\ Request(r, plan) \in InferenceRequest
         /\ Request(r, plan).allowed = r.allowed
         /\ Request(r, plan).ceiling = IF plan = Unknown THEN r.ceiling ELSE plan
  BY DEF Request, InferenceRequest

\* What goes out under a plan respects the three ceilings.
LEMMA PlannedCeiling ==
  ASSUME NEW r \in InferenceRequest, NEW budget \in Nat \cup {Unknown},
         NEW plan \in Nat \cup {Unknown},
         Plannable("deepseek", r, budget, plan), Request(r, plan).ceiling # 0
  PROVE  LET limit == OutputLimit(Request(r, plan)) IN
         /\ limit \in 1..MaxTokens
         /\ r.ceiling # Unknown => limit <= r.ceiling
         /\ budget # Unknown => limit <= budget /\ limit <= plan
  <1>1. /\ OutputLimit(Request(r, plan)) \in 1..MaxTokens
        /\ Request(r, plan).ceiling # Unknown =>
              OutputLimit(Request(r, plan)) <= Request(r, plan).ceiling
    BY RequestFields, LimitBounded
  <1>2. CASE budget = Unknown
    BY <1>1, <1>2, RequestFields DEF Plannable
  <1>3. CASE budget # Unknown
    <2>1. /\ plan = Smaller(budget, OutputLimit(r)) /\ budget > 0 /\ r.ceiling # 0
          /\ r.ceiling # Unknown => plan <= r.ceiling
      BY <1>3 DEF Plannable, CanPlan, PlanOutput
    <2>2. plan # Unknown /\ plan <= budget
      BY <1>3, <2>1, LimitBounded, CountAssumption DEF Smaller
    <2>3. OutputLimit(Request(r, plan)) <= plan
      BY <1>1, <2>2, RequestFields
    <2>4. r.ceiling \in Nat \cup {Unknown}
      BY DEF InferenceRequest
    <2> QED
      BY <1>1, <1>3, <2>1, <2>2, <2>3, <2>4, CountAssumption
  <1> QED
    BY <1>2, <1>3

-----------------------------------------------------------------------------
(* The initial state, and the adapter *)

\* The first state satisfies the invariant.
LEMMA InitProposal == ProposalInit => ProposalInv
  <1> SUFFICES ASSUME ProposalInit PROVE ProposalInv
    OBVIOUS
  <1>1. ProposalTypeOK
    BY DEF ProposalInit, AdapterInit, ProposalTypeOK, NoRequest, InferenceRequest, NoReport,
       InferenceUsage
  <1>2. Authority /\ Planning /\ Untouched /\ Reported /\ Offered /\ OutcomeIsTrue
    BY DEF ProposalInit, AdapterInit, Authority, Planning, Untouched, Reported, Offered,
       OutcomeIsTrue, CeilingRespected, NoRequest
  <1> QED
    BY <1>1, <1>2 DEF ProposalInv

\* An end of generate() with a report keeps the types.
LEMMA ReportsTyped ==
  ASSUME ProposalTypeOK, NEW started \in BOOLEAN, NEW output \in Counts \cup {0, Unknown},
         NEW how \in Raised \cup {"call"}, NEW name \in Name \cup {NoName},
         Reports(started, output, how, name), max_tokens' \in Nat \cup {Unknown},
         UNCHANGED <<stepVars, wire, response, pending>>
  PROVE  ProposalTypeOK'
  BY DEF ProposalTypeOK, Reports, stepVars, InferenceUsage, Raised, Response, InferenceRequest

\* A step of the adapter or of the provider, while the step of the runtime waits for it.
LEMMA StepAdapter ==
  ASSUME ProposalInv, Infer \/ Provide
  PROVE  ProposalInv'
  <1> USE DEF ProposalInv
  <1> DEFINE request == Request(prepared, planned)
  <1>0. /\ step = "inference" /\ UNCHANGED stepVars
        /\ UNCHANGED <<step, adapter, registered, asked, prepared, effective, available, planned,
                       recorded, executed>>
    BY DEF Infer, Provide, stepVars
  <1>r. /\ request \in InferenceRequest /\ request.allowed = prepared.allowed
        /\ request.ceiling = IF planned = Unknown THEN prepared.ceiling ELSE planned
        /\ prepared \in InferenceRequest /\ planned \in Nat \cup {Unknown}
        /\ available \in Nat \cup {Unknown}
    BY RequestFields DEF ProposalTypeOK
  <1>n. prepared.allowed \subseteq Name
    BY <1>r DEF InferenceRequest
  <1> HIDE DEF request
  <1>1. CASE adapter = "scripted" /\ GenerateScripted
    <2>1. ProposalTypeOK'
      BY <1>0, <1>1 DEF GenerateScripted, ProposalTypeOK, InferenceUsage, Raised
    <2>2. (Authority /\ Planning /\ Untouched /\ Reported /\ Offered /\ OutcomeIsTrue)'
      BY <1>0, <1>1 DEF GenerateScripted, Authority, Planning, Untouched, Reported, Offered,
         OutcomeIsTrue, CeilingRespected, AdapterInit
    <2> QED
      BY <2>1, <2>2
  <1>2. CASE adapter = "deepseek" /\ Generate(request)
    <2>i. /\ generating = "idle" /\ wire = FALSE /\ response = NoResponse /\ pending = {}
          /\ report = NoReport /\ outcome_of = "none" /\ named = NoName /\ max_tokens = Unknown
          /\ UNCHANGED <<wire, response, pending>>
      BY <1>2 DEF Generate, Untouched, AdapterInit
    <2>1. CASE ~Payable(request)
      <3>1. Reports(FALSE, 0, "ProviderError", NoName) /\ UNCHANGED max_tokens
        BY <1>2, <2>1 DEF Generate
      <3>2. ProposalTypeOK'
        BY <1>0, <2>i, <3>1, ReportsTyped DEF Raised, ProposalTypeOK
      <3>3. (Authority /\ Planning /\ Untouched /\ Reported /\ Offered /\ OutcomeIsTrue)'
        BY <1>0, <2>i, <3>1 DEF Reports, Authority, Planning, Untouched, Reported, Offered,
           OutcomeIsTrue, CeilingRespected
      <3> QED
        BY <3>2, <3>3
    <2>2. CASE Payable(request)
      <3>1. /\ max_tokens' = OutputLimit(request)
            /\ \/ Reports(TRUE, Unknown, "RuntimeError", NoName)
               \/ generating' = "posting" /\ UNCHANGED <<report, outcome_of, named>>
        BY <1>2, <2>2 DEF Generate
      <3>2. CeilingRespected' /\ max_tokens' \in Nat
        <4>1. Plannable("deepseek", prepared, available, planned) /\ request.ceiling # 0
          BY <1>2, <2>2 DEF Planning, Payable
        <4>2. /\ max_tokens' \in 1..MaxTokens
              /\ prepared.ceiling # Unknown => max_tokens' <= prepared.ceiling
              /\ available # Unknown => max_tokens' <= available /\ max_tokens' <= planned
          BY <1>r, <3>1, <4>1, PlannedCeiling DEF request
        <4> QED
          BY <1>0, <4>2, CountAssumption DEF CeilingRespected
      <3>3. CASE Reports(TRUE, Unknown, "RuntimeError", NoName)
        <4>1. ProposalTypeOK'
          BY <1>0, <2>i, <3>2, <3>3, ReportsTyped DEF Raised
        <4>2. (Authority /\ Planning /\ Untouched /\ Reported /\ Offered /\ OutcomeIsTrue)'
          BY <1>0, <2>i, <3>2, <3>3 DEF Reports, Authority, Planning, Untouched, Reported,
             Offered, OutcomeIsTrue
        <4> QED
          BY <4>1, <4>2
      <3>4. CASE generating' = "posting" /\ UNCHANGED <<report, outcome_of, named>>
        <4>1. ProposalTypeOK'
          BY <1>0, <2>i, <3>2, <3>4 DEF ProposalTypeOK
        <4>2. Payable(Request(prepared', planned'))
          BY <1>0, <2>2 DEF request
        <4>3. Planning'
          BY <1>0, <1>2, <3>2, <3>4, <4>2 DEF Planning
        <4>4. (Authority /\ Untouched /\ Reported /\ Offered /\ OutcomeIsTrue)'
          BY <1>0, <2>i, <3>4 DEF Authority, Untouched, Reported, Offered, OutcomeIsTrue
        <4> QED
          BY <4>1, <4>3, <4>4
      <3> QED
        BY <3>1, <3>3, <3>4
    <2> QED
      BY <2>1, <2>2
  <1>3. CASE ResumeAnswered(request)
    <2> DEFINE Ends(output, how, name) ==
             /\ Reports(TRUE, output, how, name)
             /\ output # Unknown => output = response.output
             /\ how \in {"ProviderError", "RecursionError", "ProviderResponseRejected", "call"}
             /\ how = "call" => name = response.body /\ name \in prepared.allowed
             /\ how = "RecursionError" => response.body \in {"deep_body", "deep_arguments"}
             /\ how = "ProviderResponseRejected" =>
                   response.body \in {"not_object", "no_contract"} \cup (Name \ prepared.allowed)
    <2>1. PICK output \in {Unknown, ResponseUsage}, how \in Raised \cup {"call"},
               name \in Name \cup {NoName} : Ends(output, how, name)
      <3>1. ResponseUsage \in {Unknown, response.output}
        BY DEF ResponseUsage
      <3>2. \/ Ends(Unknown, "ProviderError", NoName)
            \/ Ends(ResponseUsage, "RecursionError", NoName)
            \/ Ends(ResponseUsage, "ProviderResponseRejected", NoName)
            \/ response.body \in prepared.allowed /\ Ends(ResponseUsage, "call", response.body)
        BY <1>3, <1>r, <3>1 DEF ResumeAnswered
      <3>3. /\ {"ProviderError", "RecursionError", "ProviderResponseRejected", "call"}
                  \subseteq Raised \cup {"call"}
            /\ prepared.allowed \subseteq Name \cup {NoName} /\ NoName \in Name \cup {NoName}
        BY <1>n DEF Raised
      <3> HIDE DEF Ends
      <3> QED
        BY <3>2, <3>3
    <2>2. /\ generating = "posting" /\ pending = {} /\ response # NoResponse
          /\ UNCHANGED <<max_tokens, wire, response, pending>>
      BY <1>3 DEF ResumeAnswered, Interrupted
    <2>3. response \in Response /\ output \in Counts \cup {0, Unknown}
      <3>1. response \in Response
        BY <2>2 DEF ProposalTypeOK
      <3> QED
        BY <2>1, <3>1 DEF ResponseUsage, Response
    <2>4. ProposalTypeOK'
      BY <1>0, <2>1, <2>2, <2>3, ReportsTyped DEF ProposalTypeOK
    <2>5. Payable(request) /\ request.allowed \subseteq request.tools
      BY <2>2 DEF Planning, Payable, request
    <2>6. Offered'
      BY <1>0, <1>r, <2>1, <2>5 DEF Reports, Offered, request
    <2>7. OutcomeIsTrue'
      <3>1. Name \cap {"none", "http_error", "not_object", "no_contract"} = {}
        BY NameAssumption DEF Flaw, Unread
      <3> QED
        BY <1>0, <1>n, <2>1, <2>2, <3>1 DEF Reports, OutcomeIsTrue
    <2>8. (Authority /\ Planning /\ Untouched /\ Reported)'
      BY <1>0, <2>1, <2>2 DEF Reports, Authority, Planning, Untouched, Reported, CeilingRespected
    <2> QED
      BY <2>4, <2>6, <2>7, <2>8
  <1>4. CASE ResumeInterrupted \/ TransportFails
    <2>1. /\ generating = "posting" /\ UNCHANGED <<max_tokens, wire, response, pending>>
          /\ \E how \in {"InferenceCancelled", "ProviderError"} :
                /\ Reports(TRUE, Unknown, how, NoName)
                /\ how = "InferenceCancelled" <=> "cancel" \in pending
      BY <1>4 DEF ResumeInterrupted, TransportFails
    <2>2. ProposalTypeOK'
      BY <1>0, <2>1, ReportsTyped DEF Raised, ProposalTypeOK
    <2>3. (Authority /\ Planning /\ Untouched /\ Reported /\ Offered /\ OutcomeIsTrue)'
      BY <1>0, <2>1 DEF Reports, Authority, Planning, Untouched, Reported, Offered,
         OutcomeIsTrue, CeilingRespected
    <2> QED
      BY <2>2, <2>3
  <1>5. CASE Sends \/ (\E how \in {"timeout", "cancel"} : Interrupts(how))
             \/ (\E r \in Response : Answers(r))
    <2>1. /\ generating = "posting"
          /\ UNCHANGED <<generating, max_tokens, report, outcome_of, named>>
      BY <1>5 DEF Sends, Interrupts, Answers
    <2> DEFINE Arrivals == /\ wire \in BOOLEAN /\ response \in Response \cup {NoResponse}
                           /\ pending \subseteq {"timeout", "cancel"}
    <2>2. Arrivals'
      <3>1. CASE Sends
        BY <3>1 DEF Sends, ProposalTypeOK
      <3>2. ASSUME NEW how \in {"timeout", "cancel"}, Interrupts(how) PROVE Arrivals'
        BY <3>2 DEF Interrupts, ProposalTypeOK
      <3>3. ASSUME NEW r \in Response, Answers(r) PROVE Arrivals'
        BY <3>3 DEF Answers, ProposalTypeOK
      <3> QED
        BY <1>5, <3>1, <3>2, <3>3
    <2>4. ProposalTypeOK'
      <3>1. /\ registered \subseteq Name /\ asked \subseteq Grants /\ effective \subseteq asked
            /\ prepared \in InferenceRequest /\ recorded \in InferenceUsage
            /\ report \in InferenceUsage
        BY DEF ProposalTypeOK
      <3> QED
        BY <1>0, <2>1, <2>2, <3>1 DEF ProposalTypeOK
    <2>3. (Authority /\ Planning /\ Untouched /\ Reported /\ Offered /\ OutcomeIsTrue)'
      BY <1>0, <2>1 DEF Authority, Planning, Untouched, Reported, Offered, OutcomeIsTrue,
         CeilingRespected
    <2> QED
      BY <2>3, <2>4
  <1> QED
    BY <1>1, <1>2, <1>3, <1>4, <1>5 DEF Infer, Provide, request

-----------------------------------------------------------------------------
(* The step of the runtime *)

\* The step of the runtime up to the request that leaves.
LEMMA StepPrepare ==
  ASSUME ProposalInv, Begin
  PROVE  ProposalInv'
  <1> USE DEF ProposalInv
  <1>1. PICK which \in {"deepseek", "scripted"}, known \in SUBSET Name, granted \in SUBSET Name,
             budget \in Availables, plan \in 0..MaxTokens \cup {Unknown} :
             \E request \in Hooked(known, granted) :
                Prepare(which, known, granted, request, budget, plan)
    BY DEF Begin
  <1>2. PICK request \in Hooked(known, granted) :
             Prepare(which, known, granted, request, budget, plan)
    BY <1>1
  <1>3. /\ step' = "inference" /\ adapter' = which /\ registered' = known /\ asked' = granted
        /\ prepared' = request /\ effective' = request.allowed
        /\ available' = budget /\ planned' = plan
        /\ granted \subseteq Grants /\ request.allowed \subseteq granted
        /\ Plannable(which, request, budget, plan)
        /\ UNCHANGED <<recorded, executed>> /\ UNCHANGED adapterVars
    BY <1>2 DEF Prepare, Effective
  <1>4. UNCHANGED <<generating, max_tokens, wire, response, pending, report, outcome_of, named>>
    BY <1>3 DEF adapterVars
  <1>5. step = "idle" /\ generating = "idle" /\ AdapterInit
    BY DEF Begin, Untouched
  <1>6. request \in InferenceRequest
    <2>1. Specifications(known, granted) \subseteq Name
      BY DEF Specifications
    <2> QED
      BY <2>1, CeilingAssumption DEF Hooked, InferenceRequest
  <1>7. budget \in Nat \cup {Unknown} /\ plan \in Nat \cup {Unknown}
    BY CeilingAssumption, CountAssumption
  <1>8. ProposalTypeOK'
    <2>1. /\ recorded' \in InferenceUsage /\ executed' \in Name \cup {NoName}
          /\ adapter' \in {"none", "deepseek", "scripted"}
          /\ asked' \subseteq Grants /\ effective' \subseteq asked' /\ registered' \subseteq Name
      BY <1>3 DEF ProposalTypeOK
    <2> QED
      BY <1>3, <1>4, <1>6, <1>7, <2>1 DEF ProposalTypeOK
  <1>9. (Authority /\ Planning /\ Untouched /\ Reported /\ Offered /\ OutcomeIsTrue)'
    BY <1>3, <1>4, <1>5 DEF Authority, Planning, Untouched, Reported, Offered, OutcomeIsTrue,
       CeilingRespected, AdapterInit
  <1> QED
    BY <1>8, <1>9

\* Every step of the runtime, the adapter and the provider preserves the invariant.
LEMMA StepProposal == ProposalInv /\ [ProposalNext]_proposalVars => ProposalInv'
  <1> SUFFICES ASSUME ProposalInv, [ProposalNext]_proposalVars PROVE ProposalInv'
    OBVIOUS
  <1> USE DEF ProposalInv
  <1>1. CASE Begin
    BY <1>1, StepPrepare
  <1>2. CASE Infer \/ Provide
    BY <1>2, StepAdapter
  <1>3. CASE PrepareRefused
    <2>1. /\ step = "idle" /\ step' = "failed" /\ generating = "idle"
          /\ UNCHANGED <<adapter, registered, asked, prepared, effective, available, planned,
                         recorded, executed>>
          /\ UNCHANGED <<generating, max_tokens, wire, response, pending, report, outcome_of, named>>
      BY <1>3 DEF PrepareRefused, adapterVars, Untouched
    <2>2. ProposalTypeOK'
      BY <2>1 DEF ProposalTypeOK
    <2>3. (Authority /\ Planning /\ Untouched /\ Reported /\ Offered /\ OutcomeIsTrue)'
      BY <2>1 DEF Authority, Planning, Untouched, Reported, Offered, OutcomeIsTrue,
         CeilingRespected, AdapterInit
    <2> QED
      BY <2>2, <2>3
  <1>4. CASE Return
    <2>1. /\ step = "inference" /\ generating = "returned"
          /\ recorded' = (IF outcome_of \notin {"RuntimeError", "RecursionError"}
                          THEN report ELSE NoReport)
          /\ step' = (IF outcome_of = "call" THEN "validation" ELSE "failed")
          /\ UNCHANGED <<adapter, registered, asked, prepared, effective, available, planned,
                         executed>>
          /\ UNCHANGED <<generating, max_tokens, wire, response, pending, report, outcome_of, named>>
      BY <1>4 DEF Return, CarriesReport, adapterVars
    <2>2. recorded' \in InferenceUsage
      BY <2>1 DEF ProposalTypeOK, NoReport, InferenceUsage
    <2>3. ProposalTypeOK'
      BY <2>1, <2>2 DEF ProposalTypeOK
    <2>4. (Authority /\ Planning /\ Untouched /\ Reported /\ Offered /\ OutcomeIsTrue)'
      BY <2>1 DEF Authority, Planning, Untouched, Reported, Offered, OutcomeIsTrue,
         CeilingRespected
    <2> QED
      BY <2>3, <2>4
  <1>5. CASE Validate
    <2>1. /\ step = "validation"
          /\ \/ named \in effective \cap registered /\ step' = "dispatched" /\ executed' = named
             \/ step' = "failed" /\ executed' = executed
          /\ UNCHANGED <<adapter, registered, asked, prepared, effective, available, planned,
                         recorded>>
          /\ UNCHANGED <<generating, max_tokens, wire, response, pending, report, outcome_of, named>>
      BY <1>5 DEF Validate, adapterVars
    <2>2. ProposalTypeOK'
      BY <2>1 DEF ProposalTypeOK
    <2>3. (Authority /\ Planning /\ Untouched /\ Reported /\ Offered /\ OutcomeIsTrue)'
      BY <2>1 DEF Authority, Planning, Untouched, Reported, Offered, OutcomeIsTrue,
         CeilingRespected
    <2> QED
      BY <2>2, <2>3
  <1>6. CASE Forget
    <2>1. ProposalInit'
      BY <1>6 DEF Forget, ProposalInit, AdapterInit
    <2>2. ProposalInv'
      BY <2>1, InitProposal, PTL
    <2> QED
      BY <2>2
  <1>7. CASE UNCHANGED proposalVars
    <2>1. /\ UNCHANGED <<step, adapter, registered, asked, prepared, effective, available, planned,
                         recorded, executed>>
          /\ UNCHANGED <<generating, max_tokens, wire, response, pending, report, outcome_of, named>>
      BY <1>7 DEF proposalVars, stepVars, adapterVars
    <2>2. ProposalTypeOK'
      BY <2>1 DEF ProposalTypeOK
    <2>3. (Authority /\ Planning /\ Untouched /\ Reported /\ Offered /\ OutcomeIsTrue)'
      BY <2>1 DEF Authority, Planning, Untouched, Reported, Offered, OutcomeIsTrue,
         CeilingRespected, AdapterInit
    <2> QED
      BY <2>2, <2>3
  <1> QED
    BY <1>1, <1>2, <1>3, <1>4, <1>5, <1>6, <1>7 DEF ProposalNext

\* The invariant holds in every behaviour.
LEMMA ProposalInvariant == ProposalSpec => []ProposalInv
  BY InitProposal, StepProposal, PTL DEF ProposalSpec

-----------------------------------------------------------------------------
(* Theorems *)

\* Whatever a hook makes of the request and whatever an adapter returns, a tool that is
\* dispatched is within every grant, and DeepSeek was offered it.
THEOREM Dispatches == ProposalSpec => []DispatchAuthorised
  <1>1. ProposalInv => DispatchAuthorised
    BY DEF ProposalInv, ProposalTypeOK, Authority, Offered, DispatchAuthorised
  <1> QED
    BY <1>1, ProposalInvariant, PTL

\* Under every budget the ceiling that goes out is positive, within the limits of the
\* adapter, the hook and the budget, and within what was reserved.
THEOREM Ceiling == ProposalSpec => []CeilingRespected
  <1>1. ProposalInv => CeilingRespected
    BY DEF ProposalInv, Planning
  <1> QED
    BY <1>1, ProposalInvariant, PTL

\* In every order of answer, timeout and cancellation, and on every way out, the usage of a
\* request is recorded once and never as free.
THEOREM Usage == ProposalSpec => []UsageAccounted
  <1>1. ProposalInv => UsageAccounted
    BY DEF ProposalInv, Reported, UsageAccounted
  <1> QED
    BY <1>1, ProposalInvariant, PTL

\* A call is the provider's own and one that was allowed; a rejection and a cancellation are
\* what they are called.
THEOREM Outcomes == ProposalSpec => []OutcomeIsTrue
  <1>1. ProposalInv => OutcomeIsTrue
    BY DEF ProposalInv
  <1> QED
    BY <1>1, ProposalInvariant, PTL
-----------------------------------------------------------------------------
(* ContextCompiler: every context, size and limit                          *)
\* A context is made of finitely many items.
LEMMA ItemTypes ==
  ASSUME NEW given \in Seq(ContextItem)
  PROVE  /\ IsFiniteSet(DOMAIN given) /\ DOMAIN given \subseteq Nat
         /\ \A i \in DOMAIN given :
               /\ given[i].size \in Nat /\ given[i].priority \in Int
               /\ given[i].required \in BOOLEAN
  <1>1. DOMAIN given = 1..Len(given) /\ Len(given) \in Nat
    OBVIOUS
  <1>2. \A i \in 1..Len(given) : given[i] \in ContextItem
    OBVIOUS
  <1>3. IsFiniteSet(1..Len(given))
    BY <1>1, FS_Interval
  <1>4. \A item \in ContextItem :
           item.size \in Nat /\ item.priority \in Int /\ item.required \in BOOLEAN
    BY ContextAssumption DEF ContextItem
  <1>5. IsFiniteSet(DOMAIN given) /\ DOMAIN given \subseteq Nat
    BY <1>1, <1>3
  <1> QED
    BY <1>1, <1>2, <1>4, <1>5

\* The pass takes items in a strict total order.
LEMMA BeforeOrders ==
  ASSUME NEW given \in Seq(ContextItem),
         NEW i \in DOMAIN given, NEW j \in DOMAIN given, NEW k \in DOMAIN given
  PROVE  /\ i # j => Before(given, i, j) \/ Before(given, j, i)
         /\ Before(given, i, j) /\ Before(given, j, k) => Before(given, i, k)
  BY ItemTypes DEF Before

\* Of any items one comes last.
LEMMA LastExists ==
  ASSUME NEW given \in Seq(ContextItem), NEW s \in SUBSET DOMAIN given, s # {}
  PROVE  LastOf(given, s) \in s /\ \A j \in s \ {LastOf(given, s)} : Before(given, j, LastOf(given, s))
  <1> DEFINE D == DOMAIN given
             Final(T, i) == \A j \in T \ {i} : Before(given, j, i)
             Q == {T \in SUBSET D : T # {} => \E i \in T : Final(T, i)}
  <1>1. ASSUME NEW T \in SUBSET D, \A U \in SUBSET T : U # T => U \in Q PROVE T \in Q
    <2> SUFFICES ASSUME NEW x \in T PROVE \E i \in T : Final(T, i)
      OBVIOUS
    <2>1. CASE T \ {x} = {}
      BY <2>1
    <2>2. CASE T \ {x} # {}
      <3>0. T \ {x} \in Q
        BY <1>1
      <3>1. PICK m \in T \ {x} : Final(T \ {x}, m)
        BY <2>2, <3>0
      <3>2. CASE Before(given, m, x)
        <4>1. ASSUME NEW j \in T \ {x} PROVE Before(given, j, x)
          BY <3>1, <3>2, BeforeOrders
        <4> QED
          BY <4>1
      <3>3. CASE Before(given, x, m)
        BY <3>1, <3>3
      <3> QED
        BY <3>1, <3>2, <3>3, BeforeOrders
    <2> QED
      BY <2>1, <2>2
  <1>2. \A T \in SUBSET D : T \in Q
    <2>1. IsFiniteSet(D)
      BY ItemTypes
    <2> HIDE DEF Q, D
    <2> QED
      BY <1>1, <2>1, SubsetInduction
  <1> QED
    BY <1>2 DEF LastOf

-----------------------------------------------------------------------------

\* The characters of a context, and what one more item adds.
LEMMA CharactersOf ==
  ASSUME NEW given \in Seq(ContextItem), NEW s \in SUBSET DOMAIN given
  PROVE  /\ Characters(given, s) \in Nat
         /\ \A x \in DOMAIN given \ s :
               Characters(given, s \cup {x}) =
                  Characters(given, s) + given[x].size + (IF s = {} THEN 0 ELSE Separator)
  <1> DEFINE size == [i \in DOMAIN given |-> given[i].size]
             gaps(n) == Separator * n
  <1>1. /\ IsFiniteSet(s) /\ \A i \in DOMAIN given : size[i] \in Nat /\ size[i] = given[i].size
        /\ Separator \in Nat
    BY ItemTypes, FS_Subset, ContextAssumption
  <1>2. \A T : Characters(given, T) =
                  SumFunctionOnSet(size, T) + (IF T = {} THEN 0 ELSE gaps(Cardinality(T) - 1))
    BY DEF Characters
  <1>3. \A n \in Nat : gaps(n) \in Nat /\ gaps(n + 1) = gaps(n) + Separator
    BY <1>1
  <1>4. gaps(0) = 0
    BY <1>1
  <1> HIDE DEF size, gaps
  <1>5. /\ Cardinality(s) \in Nat /\ (s # {} => Cardinality(s) \in Nat \ {0})
        /\ \A x : x \notin s => Cardinality(s \cup {x}) = Cardinality(s) + 1
        /\ Cardinality({}) = 0
    BY <1>1, FS_EmptySet, FS_CardinalityType, FS_AddElement
  <1>6. SumFunctionOnSet(size, s) \in Nat
    BY <1>1, SumGrows
  <1>7. Characters(given, s) \in Nat
    <2>1. CASE s = {}
      BY <1>2, <1>6, <2>1
    <2>2. CASE s # {}
      <3>1. Cardinality(s) - 1 \in Nat
        BY <1>5, <2>2
      <3>2. gaps(Cardinality(s) - 1) \in Nat
        BY <1>3, <3>1
      <3>3. Characters(given, s) = SumFunctionOnSet(size, s) + gaps(Cardinality(s) - 1)
        BY <1>2, <2>2
      <3> QED
        BY <1>6, <3>2, <3>3
    <2> QED
      BY <2>1, <2>2
  <1>8. ASSUME NEW x \in DOMAIN given \ s
        PROVE  Characters(given, s \cup {x}) =
                  Characters(given, s) + given[x].size + (IF s = {} THEN 0 ELSE Separator)
    <2>1. SumFunctionOnSet(size, s \cup {x}) = size[x] + SumFunctionOnSet(size, s)
      <3>1. x \notin s /\ \A y \in s \cup {x} : size[y] \in Int
        BY <1>1
      <3> QED
        BY <1>1, <3>1, SumAdds
    <2>2. Characters(given, s \cup {x}) =
             size[x] + SumFunctionOnSet(size, s) + gaps(Cardinality(s))
      <3>1. s \cup {x} # {} /\ Cardinality(s \cup {x}) - 1 = Cardinality(s)
        BY <1>5
      <3> QED
        BY <1>2, <2>1, <3>1
    <2>3. CASE s = {}
      <3>1. gaps(Cardinality(s)) = 0
        BY <1>5, <1>4, <2>3
      <3>2. Characters(given, s) = SumFunctionOnSet(size, s)
        BY <1>2, <1>6, <2>3
      <3> QED
        BY <1>1, <1>6, <2>2, <2>3, <3>1, <3>2
    <2>4. CASE s # {}
      <3> DEFINE n == Cardinality(s) - 1
      <3>1. n \in Nat /\ Cardinality(s) = n + 1
        BY <1>5, <2>4
      <3>2. Characters(given, s) = SumFunctionOnSet(size, s) + gaps(n)
        BY <1>2, <2>4
      <3> HIDE DEF n
      <3>3. gaps(Cardinality(s)) = gaps(n) + Separator /\ gaps(n) \in Nat
        BY <1>3, <3>1
      <3> QED
        BY <1>1, <1>6, <2>2, <2>4, <3>2, <3>3
    <2> QED
      BY <2>3, <2>4
  <1> QED
    BY <1>7, <1>8

\* A part of a context has no more characters than the whole.
LEMMA CharactersGrow ==
  ASSUME NEW given \in Seq(ContextItem), NEW B \in SUBSET DOMAIN given, NEW A \in SUBSET B
  PROVE  Characters(given, A) <= Characters(given, B)
  <1> DEFINE D == DOMAIN given
             Q == {T \in SUBSET D : \A U \in SUBSET T : Characters(given, U) <= Characters(given, T)}
  <1>1. ASSUME NEW T \in SUBSET D, \A U \in SUBSET T : U # T => U \in Q PROVE T \in Q
    <2> SUFFICES ASSUME NEW U \in SUBSET T PROVE Characters(given, U) <= Characters(given, T)
      OBVIOUS
    <2>1. CASE U = T
      BY <2>1, CharactersOf
    <2>2. ASSUME NEW x \in T \ U PROVE Characters(given, U) <= Characters(given, T)
      <3> DEFINE R == T \ {x}
      <3>1. R \in Q /\ U \in SUBSET R /\ x \in D \ R /\ R \in SUBSET D /\ T = R \cup {x}
        BY <1>1
      <3>2. Characters(given, U) <= Characters(given, R)
        BY <3>1
      <3>3. /\ Characters(given, R) \in Nat /\ Characters(given, U) \in Nat
            /\ Characters(given, R \cup {x}) =
                  Characters(given, R) + given[x].size + (IF R = {} THEN 0 ELSE Separator)
        BY <3>1, CharactersOf
      <3>4. given[x].size \in Nat /\ Separator \in Nat
        BY ItemTypes, ContextAssumption
      <3> HIDE DEF R
      <3> QED
        BY <3>1, <3>2, <3>3, <3>4
    <2> QED
      BY <2>1, <2>2
  <1>2. \A T \in SUBSET D : T \in Q
    <2>1. IsFiniteSet(D)
      BY ItemTypes
    <2> HIDE DEF Q, D
    <2> QED
      BY <1>1, <2>1, SubsetInduction
  <1> QED
    BY <1>2
-----------------------------------------------------------------------------

\* what the pass has made of the items it has been over
Pass(given) == [included : Seq(DOMAIN given), omitted : Seq(DOMAIN given), size : Nat,
                refused : BOOLEAN]

\* p[s] is where the pass is when it has been over s
Passes(p, given) ==
    p = [s \in SUBSET DOMAIN given |->
            IF s = {} THEN Empty
            ELSE Consider(given, p[s \ {LastOf(given, s)}], LastOf(given, s))]

\* characters that item i would bring the context to
SizeWith(given, sofar, i) ==
    sofar.size + given[i].size + (IF sofar.included = <<>> THEN 0 ELSE Separator)

\* The four outcomes for an item.
LEMMA Considered ==
  ASSUME NEW given \in Seq(ContextItem), NEW sofar \in Pass(given), NEW i \in DOMAIN given,
         NEW next, next = Consider(given, sofar, i)
  PROVE  /\ next \in Pass(given)
         /\ \/ sofar.refused /\ next = sofar
            \/ /\ ~sofar.refused /\ ~next.refused /\ SizeWith(given, sofar, i) <= MaxCharacters
               /\ next.included = Append(sofar.included, i) /\ next.omitted = sofar.omitted
               /\ next.size = SizeWith(given, sofar, i)
            \/ /\ ~sofar.refused /\ next.refused /\ SizeWith(given, sofar, i) > MaxCharacters
               /\ given[i].required /\ next.included = <<>> /\ next.omitted = <<>> /\ next.size = 0
            \/ /\ ~sofar.refused /\ ~next.refused /\ SizeWith(given, sofar, i) > MaxCharacters
               /\ ~given[i].required
               /\ next.included = sofar.included /\ next.omitted = Append(sofar.omitted, i)
               /\ next.size = sofar.size
  <1>1. /\ Append(sofar.included, i) \in Seq(DOMAIN given)
        /\ Append(sofar.omitted, i) \in Seq(DOMAIN given)
    <2> DEFINE D == DOMAIN given
    <2>1. sofar.included \in Seq(D) /\ sofar.omitted \in Seq(D) /\ i \in D
      BY DEF Pass
    <2> HIDE DEF D
    <2>2. Append(sofar.included, i) \in Seq(D) /\ Append(sofar.omitted, i) \in Seq(D)
      BY <2>1
    <2> QED
      BY <2>2 DEF D
  <1> DEFINE more  == Append(sofar.included, i)
             fewer == Append(sofar.omitted, i)
             cost  == given[i].size + (IF sofar.included = <<>> THEN 0 ELSE Separator)
             size  == SizeWith(given, sofar, i)
  <1>2. size \in Nat /\ sofar.size + cost = size /\ MaxCharacters \in Nat
    BY ItemTypes, ContextAssumption DEF Pass, SizeWith
  <1>3. \/ sofar.refused /\ next = sofar
        \/ /\ ~sofar.refused /\ sofar.size + cost <= MaxCharacters
           /\ next = [sofar EXCEPT !.included = more, !.size = sofar.size + cost]
        \/ /\ ~sofar.refused /\ ~(sofar.size + cost <= MaxCharacters) /\ given[i].required
           /\ next = [Empty EXCEPT !.refused = TRUE]
        \/ /\ ~sofar.refused /\ ~(sofar.size + cost <= MaxCharacters) /\ ~given[i].required
           /\ next = [sofar EXCEPT !.omitted = fewer]
    BY Zenon DEF Consider
  <1> HIDE DEF more, fewer, cost, size
  <1>4. CASE sofar.refused /\ next = sofar
    BY <1>4
  <1>5. CASE /\ ~sofar.refused /\ sofar.size + cost <= MaxCharacters
             /\ next = [sofar EXCEPT !.included = more, !.size = sofar.size + cost]
    <2>1. next = [included |-> more, omitted |-> sofar.omitted, size |-> size, refused |-> FALSE]
      BY <1>2, <1>5 DEF Pass
    <2> QED
      BY <1>1, <1>2, <1>5, <2>1 DEF Pass, more, size
  <1>6. CASE /\ ~sofar.refused /\ ~(sofar.size + cost <= MaxCharacters) /\ given[i].required
             /\ next = [Empty EXCEPT !.refused = TRUE]
    <2>1. next = [included |-> <<>>, omitted |-> <<>>, size |-> 0, refused |-> TRUE]
      BY <1>6 DEF Empty
    <2>2. next \in Pass(given)
      BY <2>1 DEF Pass
    <2>3. SizeWith(given, sofar, i) > MaxCharacters
      BY <1>2, <1>6 DEF size
    <2> QED
      BY <1>6, <2>1, <2>2, <2>3
  <1>7. CASE /\ ~sofar.refused /\ ~(sofar.size + cost <= MaxCharacters) /\ ~given[i].required
             /\ next = [sofar EXCEPT !.omitted = fewer]
    <2>1. next = [included |-> sofar.included, omitted |-> fewer, size |-> sofar.size,
                  refused |-> FALSE]
      BY <1>7 DEF Pass
    <2>2. next \in Pass(given)
      BY <1>1, <2>1 DEF Pass, fewer
    <2>3. SizeWith(given, sofar, i) > MaxCharacters
      BY <1>2, <1>7 DEF size
    <2> QED
      BY <1>7, <2>1, <2>2, <2>3 DEF fewer
  <1> QED
    BY <1>3, <1>4, <1>5, <1>6, <1>7

\* The result of compile() is that of the pass over all items.
LEMMA PassExists ==
  ASSUME NEW given \in Seq(ContextItem)
  PROVE  \E p : Passes(p, given) /\ Compiled(given) = p[DOMAIN given]
  <1> DEFINE D    == DOMAIN given
             last == [s \in SUBSET D |-> LastOf(given, s)]
             move == [x \in D \X Pass(given) |-> Consider(given, x[2], x[1])]
  <1>1. IsFiniteSet(D)
    BY ItemTypes
  <1>2. \A s \in SUBSET D : s # {} => LastOf(given, s) \in s /\ last[s] = LastOf(given, s)
    BY LastExists
  <1>3. move \in [D \X Pass(given) -> Pass(given)]
    BY Considered
  <1>4. \A i \in D, sofar \in Pass(given) : move[<<i, sofar>>] = Consider(given, sofar, i)
    OBVIOUS
  <1>5. Empty \in Pass(given)
    BY DEF Empty, Pass
  <1> HIDE DEF last, move, D
  <1>6. PICK g : Folds(g, D, Empty, last, move)
    BY <1>1, <1>2, FoldExists
  <1>7. g \in [SUBSET D -> Pass(given)]
    <2>1. \A s \in SUBSET D : s # {} => last[s] \in s
      BY <1>2
    <2> QED
      BY <1>1, <1>3, <1>5, <1>6, <2>1, FoldTyped, Zenon
  <1>8. Passes(g, given)
    <2>1. \A s \in SUBSET D :
             g[s] = IF s = {} THEN Empty
                    ELSE Consider(given, g[s \ {LastOf(given, s)}], LastOf(given, s))
      <3> TAKE s \in SUBSET D
      <3>1. g[s] = IF s = {} THEN Empty ELSE move[<<last[s], g[s \ {last[s]}]>>]
        BY <1>6 DEF Folds
      <3>2. s # {} => LastOf(given, s) \in D /\ g[s \ {LastOf(given, s)}] \in Pass(given)
        BY <1>2, <1>7
      <3> QED
        BY <1>2, <1>4, <3>1, <3>2
    <2> QED
      BY <1>7, <2>1 DEF Passes, D
  <1> DEFINE p == CHOOSE f : Passes(f, given)
  <1>9. Passes(p, given)
    BY <1>8
  <1>10. Compiled(given) = p[DOMAIN given]
    BY DEF Compiled, MapThenFoldSet, Passes
  <1> QED
    BY <1>9, <1>10

\* The items of a sequence that grows.
LEMMA ToSetAppend ==
  ASSUME NEW S, NEW seq \in Seq(S), NEW x \in S
  PROVE  /\ ToSet(Append(seq, x)) = ToSet(seq) \cup {x} /\ ToSet(seq) \subseteq S
         /\ Append(seq, x) # <<>> /\ (seq = <<>> <=> ToSet(seq) = {})
  <1>1. /\ DOMAIN seq = 1..Len(seq) /\ Len(seq) \in Nat /\ DOMAIN Append(seq, x) = 1..(Len(seq) + 1)
        /\ Append(seq, x)[Len(seq) + 1] = x /\ \A i \in 1..Len(seq) : Append(seq, x)[i] = seq[i]
    OBVIOUS
  <1>2. ToSet(Append(seq, x)) = ToSet(seq) \cup {x}
    BY <1>1 DEF ToSet
  <1>3. ToSet(seq) \subseteq S
    BY DEF ToSet
  <1>4. seq = <<>> <=> ToSet(seq) = {}
    <2>1. Len(seq) # 0 => seq[1] \in ToSet(seq)
      BY <1>1 DEF ToSet
    <2>2. Len(seq) = 0 <=> seq = <<>>
      OBVIOUS
    <2>3. Len(seq) = 0 => ToSet(seq) = {}
      BY <1>1 DEF ToSet
    <2> QED
      BY <2>1, <2>2, <2>3
  <1> QED
    BY <1>2, <1>3, <1>4

Needed(given, s) == {i \in s : given[i].required}

\* items of a context that may not make way for item i
Above(given, context, i) ==
    {j \in context : given[j].required \/ given[j].priority >= given[i].priority}

\* What the pass guarantees of the items it has been over.
Selects(given, s, p) ==
    LET included == ToSet(p.included)
        omitted  == ToSet(p.omitted)
    IN /\ p \in Pass(given)
       /\ p.refused <=> Characters(given, Needed(given, s)) > MaxCharacters
       /\ p.size = Characters(given, included) /\ p.size <= MaxCharacters
       /\ p.refused => included = {} /\ omitted = {}
       /\ ~p.refused =>
             /\ Needed(given, s) \subseteq included
             /\ included \cup omitted = s /\ included \cap omitted = {}
             /\ \A i \in omitted :
                   Characters(given, {i} \cup Above(given, included, i)) > MaxCharacters

\* The start of the pass.
LEMMA SelectsNothing ==
  ASSUME NEW given \in Seq(ContextItem)
  PROVE  Selects(given, {}, Empty)
  <1>1. Empty \in Pass(given) /\ ToSet(Empty.included) = {} /\ ToSet(Empty.omitted) = {}
    BY DEF Empty, Pass, ToSet
  <1>2. Needed(given, {}) = {} /\ Characters(given, {}) = 0
    BY FS_EmptySet, SumOf DEF Needed, Characters
  <1>3. Empty.size = 0 /\ ~Empty.refused
    BY DEF Empty
  <1>4. 0 <= MaxCharacters /\ ~(0 > MaxCharacters)
    BY ContextAssumption
  <1> QED
    BY <1>1, <1>2, <1>3, <1>4 DEF Selects

\* One more item, taken after all those it comes after.
LEMMA SelectsOneMore ==
  ASSUME NEW given \in Seq(ContextItem), NEW s \in SUBSET DOMAIN given, NEW x \in DOMAIN given \ s,
         \A j \in s : Before(given, j, x),
         NEW sofar, Selects(given, s, sofar), NEW next, next = Consider(given, sofar, x)
  PROVE  Selects(given, s \cup {x}, next)
  <1> DEFINE D == DOMAIN given
             I == ToSet(sofar.included)
             O == ToSet(sofar.omitted)
             T == s \cup {x}
             N == Needed(given, s)
             M == Needed(given, T)
             Ch(U) == Characters(given, U)
             size == SizeWith(given, sofar, x)
  <1>1. /\ sofar \in Pass(given)
        /\ sofar.refused <=> Ch(N) > MaxCharacters
        /\ sofar.size = Ch(I) /\ sofar.size <= MaxCharacters
        /\ sofar.refused => I = {} /\ O = {}
        /\ ~sofar.refused =>
              /\ N \subseteq I /\ I \cup O = s /\ I \cap O = {}
              /\ \A i \in O : Ch({i} \cup Above(given, I, i)) > MaxCharacters
    BY DEF Selects
  <1>2. next \in Pass(given)
    BY <1>1, Considered
  <1>3. /\ \A U \in SUBSET D : Ch(U) \in Nat
        /\ \A U \in SUBSET D : \A V \in SUBSET U : Ch(V) <= Ch(U)
        /\ MaxCharacters \in Nat
    BY CharactersOf, CharactersGrow, ContextAssumption
  <1>4. /\ I \in SUBSET D /\ O \in SUBSET D /\ x \notin I /\ x \notin O
        /\ N \in SUBSET D /\ M \in SUBSET D /\ N \subseteq M
        /\ M = IF given[x].required THEN N \cup {x} ELSE N
    <2>1. I \subseteq s /\ O \subseteq s
      BY <1>1
    <2> QED
      BY <2>1 DEF Needed
  <1>5. size = Ch(I \cup {x})
    <2>1. sofar.included = <<>> <=> I = {}
      BY <1>1, ToSetAppend DEF Pass
    <2>2. Ch(I \cup {x}) = Ch(I) + given[x].size + (IF I = {} THEN 0 ELSE Separator)
      BY <1>4, CharactersOf
    <2> QED
      BY <1>1, <2>1, <2>2 DEF SizeWith
  <1>6. /\ ToSet(Append(sofar.included, x)) = I \cup {x}
        /\ ToSet(Append(sofar.omitted, x)) = O \cup {x}
    BY <1>1, ToSetAppend DEF Pass
  <1>7. CASE sofar.refused /\ next = sofar
    <2>1. Ch(M) > MaxCharacters
      <3>1. Ch(N) <= Ch(M) /\ Ch(N) \in Nat /\ Ch(M) \in Nat /\ Ch(N) > MaxCharacters
        BY <1>1, <1>3, <1>4, <1>7
      <3> HIDE DEF Ch, N, M
      <3> QED
        BY <1>3, <3>1
    <2> QED
      BY <1>1, <1>2, <1>7, <2>1 DEF Selects
  <1>8. CASE /\ ~sofar.refused /\ ~next.refused /\ size <= MaxCharacters
             /\ next.included = Append(sofar.included, x) /\ next.omitted = sofar.omitted
             /\ next.size = size
    <2>1. ToSet(next.included) = I \cup {x} /\ ToSet(next.omitted) = O
      BY <1>6, <1>8
    <2>2. M \subseteq I \cup {x} /\ ~(Ch(M) > MaxCharacters)
      <3>1. M \subseteq I \cup {x} /\ I \cup {x} \in SUBSET D
        BY <1>1, <1>4, <1>8
      <3>2. Ch(M) <= Ch(I \cup {x}) /\ Ch(M) \in Nat /\ Ch(I \cup {x}) \in Nat
        BY <1>3, <1>4, <3>1
      <3> HIDE DEF Ch, M, size
      <3> QED
        BY <1>3, <1>5, <1>8, <3>1, <3>2
    <2>3. ASSUME NEW i \in O
          PROVE  Ch({i} \cup Above(given, I \cup {x}, i)) > MaxCharacters
      <3> DEFINE A == {i} \cup Above(given, I, i)
                 B == {i} \cup Above(given, I \cup {x}, i)
      <3>1. A \subseteq B /\ B \in SUBSET D
        BY <1>4 DEF Above
      <3>2. Ch(A) > MaxCharacters
        BY <1>1, <1>8
      <3> HIDE DEF A, B
      <3>3. Ch(A) <= Ch(B) /\ Ch(A) \in Nat /\ Ch(B) \in Nat
        BY <1>3, <3>1
      <3> HIDE DEF Ch
      <3>4. Ch(B) > MaxCharacters
        BY <1>3, <3>2, <3>3
      <3> QED
        BY <3>4 DEF B
    <2>4. next.size = Ch(I \cup {x}) /\ next.size <= MaxCharacters
      BY <1>5, <1>8
    <2>5. (I \cup {x}) \cup O = T /\ (I \cup {x}) \cap O = {}
      BY <1>1, <1>4, <1>8
    <2> QED
      BY <1>2, <1>8, <2>1, <2>2, <2>3, <2>4, <2>5 DEF Selects
  <1>9. CASE /\ ~sofar.refused /\ next.refused /\ size > MaxCharacters
             /\ given[x].required /\ next.included = <<>> /\ next.omitted = <<>> /\ next.size = 0
    <2>1. ToSet(next.included) = {} /\ ToSet(next.omitted) = {}
      BY <1>9 DEF ToSet
    \* only required items come before a required one, and they are all in
    <2>2. M = I \cup {x}
      <3>1. \A j \in s : given[j].required
        BY <1>9, ItemTypes DEF Before
      <3>2. N = s /\ I = s
        BY <1>1, <1>9, <3>1 DEF Needed
      <3> QED
        BY <1>4, <1>9, <3>2
    <2>3. Ch({}) = 0
      BY FS_EmptySet, SumOf DEF Characters
    <2>4. Ch(M) > MaxCharacters
      BY <1>5, <1>9, <2>2
    <2>5. next.size = Ch({}) /\ next.size <= MaxCharacters
      BY <1>3, <1>9, <2>3
    <2> QED
      BY <1>2, <1>9, <2>1, <2>4, <2>5 DEF Selects
  <1>10. CASE /\ ~sofar.refused /\ ~next.refused /\ size > MaxCharacters
              /\ ~given[x].required
              /\ next.included = sofar.included /\ next.omitted = Append(sofar.omitted, x)
              /\ next.size = sofar.size
    <2>1. ToSet(next.included) = I /\ ToSet(next.omitted) = O \cup {x}
      BY <1>6, <1>10
    <2>2. M = N
      BY <1>4, <1>10
    \* nothing that is in comes after x
    <2>3. Above(given, I, x) = I
      <3>1. \A j \in s : given[j].required \/ given[j].priority >= given[x].priority
        BY <1>10, ItemTypes DEF Before
      <3> QED
        BY <1>1, <1>10, <3>1 DEF Above
    <2>4. ASSUME NEW i \in O \cup {x}
          PROVE  Ch({i} \cup Above(given, I, i)) > MaxCharacters
      <3>1. CASE i = x
        <4>1. {x} \cup I = I \cup {x}
          OBVIOUS
        <4> QED
          BY <1>5, <1>10, <2>3, <3>1, <4>1
      <3>2. CASE i \in O
        BY <1>1, <1>10, <3>2
      <3> QED
        BY <3>1, <3>2
    <2>5. I \cup (O \cup {x}) = T /\ I \cap (O \cup {x}) = {}
      BY <1>1, <1>4, <1>10
    <2> QED
      BY <1>1, <1>2, <1>10, <2>1, <2>2, <2>4, <2>5 DEF Selects
  <1> QED
    BY <1>1, <1>7, <1>8, <1>9, <1>10, Considered

\* The pass over all items.
LEMMA CompiledSelects ==
  ASSUME NEW given \in Seq(ContextItem)
  PROVE  Selects(given, DOMAIN given, Compiled(given))
  <1> DEFINE D == DOMAIN given
  <1>1. PICK p : Passes(p, given) /\ Compiled(given) = p[D]
    BY PassExists
  <1> DEFINE Q == {s \in SUBSET D : Selects(given, s, p[s])}
  <1>2. ASSUME NEW s \in SUBSET D, \A U \in SUBSET s : U # s => U \in Q PROVE s \in Q
    <2> DEFINE x == LastOf(given, s)
    <2>1. p[s] = IF s = {} THEN Empty ELSE Consider(given, p[s \ {x}], x)
      BY <1>1 DEF Passes
    <2>2. CASE s = {}
      BY <2>1, <2>2, SelectsNothing
    <2>3. CASE s # {}
      <3>1. x \in s /\ \A j \in s \ {x} : Before(given, j, x)
        BY <2>3, LastExists
      <3>2. Selects(given, s \ {x}, p[s \ {x}])
        BY <1>2, <3>1
      <3> DEFINE r == s \ {x}
      <3>3. /\ r \in SUBSET D /\ x \in D \ r /\ s = r \cup {x}
            /\ p[s] = Consider(given, p[r], x) /\ Selects(given, r, p[r])
            /\ \A j \in r : Before(given, j, x)
        BY <2>1, <2>3, <3>1, <3>2
      <3> HIDE DEF x, r, Q, D
      <3>4. Selects(given, r \cup {x}, p[s])
        BY <3>3, SelectsOneMore DEF D
      <3> QED
        BY <3>3, <3>4 DEF Q
    <2> QED
      BY <2>2, <2>3
  <1>3. \A s \in SUBSET D : s \in Q
    <2>1. IsFiniteSet(D)
      BY ItemTypes
    <2> HIDE DEF Q, D
    <2> QED
      BY <1>2, <2>1, SubsetInduction
  <1> QED
    BY <1>1, <1>3

ContextInv ==
    /\ items \in Seq(ContextItem)
    /\ packet = IF items = <<>> THEN Empty ELSE Compiled(items)

\* The invariant holds in every behaviour.
LEMMA ContextInvariant == ContextSpec => []ContextInv
  <1>1. ContextInit => ContextInv
    BY DEF ContextInit, ContextInv
  <1>2. ContextInv /\ [ContextNext]_contextVars => ContextInv'
    <2> SUFFICES ASSUME ContextInv, [ContextNext]_contextVars PROVE ContextInv'
      OBVIOUS
    <2>1. ASSUME NEW given \in BoundedSeq(ContextItem, MaxItems), Compile(given) PROVE ContextInv'
      <3>1. given \in Seq(ContextItem)
        BY ContextAssumption DEF BoundedSeq, SeqOf
      <3> QED
        BY <2>1, <3>1 DEF Compile, ContextInv
    <2>2. CASE TakePacket
      BY <2>2 DEF TakePacket, ContextInv
    <2>3. CASE UNCHANGED contextVars
      BY <2>3 DEF contextVars, ContextInv
    <2> QED
      BY <2>1, <2>2, <2>3 DEF ContextNext
  <1> QED
    BY <1>1, <1>2, PTL DEF ContextSpec

\* What the packet says of the items of a call.
LEMMA PacketSelects ==
  ASSUME ContextInv
  PROVE  Selects(items, DOMAIN items, packet)
  <1>1. CASE items = <<>>
    <2>1. DOMAIN items = {}
      BY <1>1
    <2> QED
      BY <1>1, <2>1, SelectsNothing DEF ContextInv
  <1>2. CASE items # <<>>
    BY <1>2, CompiledSelects DEF ContextInv
  <1> QED
    BY <1>1, <1>2

\* For every list of items: compile() refuses only what cannot be done, keeps all that is
\* required, and omits an item only when it has no room beside those that rank with it.
THEOREM Selection == ContextSpec => []ContextSelection
  <1>1. ContextInv => ContextSelection
    <2> SUFFICES ASSUME ContextInv PROVE ContextSelection
      OBVIOUS
    <2>1. Needed(items, DOMAIN items) = {i \in DOMAIN items : items[i].required}
      BY DEF Needed
    <2> QED
      BY <2>1, PacketSelects DEF Selects, ContextSelection, Above
  <1> QED
    BY <1>1, ContextInvariant, PTL

\* The packet is made of the items of the call, and within the limit.
THEOREM ContextTyping == ContextSpec => []ContextTypeOK
  <1>1. ContextInv => ContextTypeOK
    <2> SUFFICES ASSUME ContextInv PROVE ContextTypeOK
      OBVIOUS
    <2>1. Selects(items, DOMAIN items, packet)
      BY PacketSelects
    <2>2. packet \in Pass(items) /\ packet.size <= MaxCharacters
      BY <2>1 DEF Selects
    <2>3. ToSet(packet.included) \cup ToSet(packet.omitted) \subseteq DOMAIN items
      BY <2>2 DEF Pass, ToSet
    <2>4. packet.size \in 0..MaxCharacters
      BY <2>2, ContextAssumption DEF Pass
    <2> QED
      BY <2>2, <2>3, <2>4 DEF ContextInv, ContextTypeOK, Pass
  <1> QED
    BY <1>1, ContextInvariant, PTL
-----------------------------------------------------------------------------
(* The parts side by side                                                  *)

\* Exploring the parts side by side shows nothing but the behaviours of each.
THEOREM Parts == BesideSpec => WorkerSpec /\ FetchSpec /\ ProposalSpec /\ ContextSpec
  <1>1. BesideInit => WorkerInit /\ FetchInit /\ ProposalInit /\ ContextInit
    BY DEF BesideInit
  <1>2. [BesideNext]_besideVars => [WorkerNext]_workerVars
    BY DEF BesideNext, besideVars
  <1>3. [BesideNext]_besideVars => [FetchNext]_fetchVars
    BY DEF BesideNext, besideVars
  <1>4. [BesideNext]_besideVars => [ProposalNext]_proposalVars
    BY DEF BesideNext, besideVars
  <1>5. [BesideNext]_besideVars => [ContextNext]_contextVars
    BY DEF BesideNext, besideVars
  <1> QED
    BY <1>1, <1>2, <1>3, <1>4, <1>5, PTL
       DEF BesideSpec, WorkerSpec, FetchSpec, ProposalSpec, ContextSpec

\* Every part is type correct.
THEOREM BesideTyping == BesideSpec => []BesideTypeOK
  <1>1. WorkerSpec => []WorkerTypeOK
    BY WorkerInvariant, PTL DEF WorkerInv
  <1>2. FetchSpec => []FetchTypeOK
    BY FetchInvariant, PTL DEF FetchInv
  <1>3. ProposalSpec => []ProposalTypeOK
    BY ProposalInvariant, PTL DEF ProposalInv
  <1> QED
    BY <1>1, <1>2, <1>3, ContextTyping, Parts, PTL DEF BesideTypeOK
=============================================================================
