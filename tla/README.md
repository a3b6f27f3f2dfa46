# flynn-agents-sdk: specification, model checking and proofs

The SDK drives a model one bounded step at a time: ask for one tool call, authorise it, run
the tool, evaluate what came back, and publish an accepted state or keep the observation.
Everything it promises (no effect twice, no budget exceeded, no state published without its
evaluation) rests on one SQLite journal and on the order in which a few coroutines write it.
This directory specifies that core in TLA+, and the parts beside it that a step calls (the
adapter of the model, the HTTP fetch, the confined program, the context compiler), checks them
with TLC, and proves the safety of the journal, of the runtimes and sessions that share it, of its
ownership and of the parts beside it for every value of their parameters with TLAPS: every
invariant and action property that a passing run checks is also a theorem.

## Inventory

All source paths are under `src/flynn_agents_sdk/`.

| Component | State | Operations | Interaction | What is hard |
|---|---|---|---|---|
| Journal, `sqlite_run.py` (`SQLiteRun`) | eleven tables: run, operations, reservations, guard requirements and decisions, output reservations, usage, evaluations, commits, events | `start`, `record_usage`, `proposed`, `record_guard`, `record_event`, `dispatch`, `returned`, `complete`, `failed`, `abandon_undispatched`, `finish`, and the reads | called by any number of runtimes, sessions and by the application | a crash between two transactions; several clients; budgets across restarts |
| Ownership and clocks, same file | file, flock, owner pid, `last_clock`, `deadline`, monotonic deadline | constructor, `create`, `open`, `_bind_clock`, `close`, fork | several processes and one path | races of two system calls, forks, deaths, a wall clock that is set |
| Output admission, `output_budget.py` | none (a fold of the tables) | `output_budget` | read by `start` and `Runtime._step` | missing, partial, mismatched and over-plan reports |
| `runtime.py` | lock, local variables of a step, `rejected_proposal` | `step`, `recover` | awaits adapter, guards, tool and evaluator; calls the journal and `on_event` | interleaving at every await; cancellation; failure inside the failure handler |
| `session.py` | lock, count, baseline, correction | `execute` | drives a private Runtime, calls policy callbacks, ends the run | rivals on the same run; termination of every kind |
| `contracts.py` | none | record validation, `check_evaluation` | used everywhere | binding of evaluation and candidate |
| `accounting.py` | none | `summarize_usage` | reads records | classification of missing reports |
| `deepseek.py`, `inference.py`, `configuration.py` | HTTP client, traces; queue of calls | `generate`, `plan_output` | called by Runtime | one usage report on every failure path |
| `http.py` | none | `fetch_https` | used inside tools | redirects, limits, streaming |
| `program_worker.py`, `_program_bootstrap.py` | child process, pipes, thread | `run` | used inside tools | timeouts, limits, kill and reap |
| `tools.py`, `results.py`, `context.py` | none | grants, structured arguments, records, context selection | called by Runtime and applications | narrowing of grants; selection order |

What makes each correct: the journal must serialise operations, publish one chain of accepted
states, keep reservations for ever and never forget an authorised effect; ownership must leave
one writer and count downtime; a runtime must run a tool at most once and tell the truth in
its events; a session must end, stop only on a settled run, and count its own steps; the
adapter must report each request once; the worker must always kill and reap.
`PROJECT.json` lists every hazard at its line with the properties that would catch it.

## Modules

| Module | Models | Notes |
|---|---|---|
| `AbstractRun` | the promise of a run, without journal or operations | phases idle, attempt, unknown, evidence |
| `AbstractLease` | what ownership promises a run, without file, lock or objects | the path is claimed once, for a run or for none; one writer after the other, one deadline |
| `RunStore` | `SQLiteRun` transactions and `output_budget()` | one variable per table, one action per transaction |
| `Runtime` | `Runtime.step()`, `Runtime.recover()` | EXTENDS `RunStore`; its actions call the store's |
| `Session` | `Session.execute()` | EXTENDS `Runtime`; rivals on the same run are other runtimes |
| `RunOwnership` | files, flock, fork, clocks of `SQLiteRun` | independent of the tables |
| `FoldProofs` | nothing: lemmas about folds and sums over finite sets | induction over the subsets of a set |
| `RunStoreProofs`, `RunStepProofs` | theorems about `RunStore` | invariants; action properties and refinement |
| `RuntimeProofs`, `SessionProofs` | theorems about `Runtime`, `Session` | each refines the one below it |
| `OwnershipProofs` | theorems about `RunOwnership` | one inductive invariant |
| `Accounting` | `summarize_usage()` | EXTENDS `RunStore`; expressions over its tables |
| `AccountingProofs` | theorems about output admission and `Accounting` | on top of `RunStoreProofs` and `FoldProofs` |
| `DeepSeek` | one inference: `DeepSeekAdapter`, `ScriptedAdapter` | no specification of its own |
| `Proposal` | what `Runtime._step()` asks for and may execute; `ToolBroker` | EXTENDS `DeepSeek` |
| `ProgramWorker` | `ProgramWorker.run()` and the bootstrap in its child | four parties: parent, sender thread, child, clock |
| `Fetch` | `fetch_https()`, `FetchPolicy` | the server is arbitrary |
| `ContextCompiler` | `ContextCompiler.compile()` | a fold, checked against its reference |
| `BesideProofs` | theorems about `ProgramWorker`, `Fetch`, `Proposal`, `ContextCompiler` and their composition | one inductive invariant each; EXTENDS `MCBeside` |
| `MCRunStore`, `MCRuntime`, `MCSession`, `MCRunOwnership`, `MCBeside` | constants of the TLC runs | no behaviour of their own |

**RunStore.** Each public method runs in `BEGIN IMMEDIATE .. COMMIT` and rolls back on any
exception, so a call is an action whose guard is the conjunction of all the checks the method
makes, wherever in the method they stand; a call that raises changes nothing (except
`record_usage`, which stores first and raises after its transaction: `BreachesPlan`). The
checks common to several methods are operators named after the methods (`RequireOpen`,
`RequireTime`, `CheckReady`, `Remaining`). Operations are row numbers; a state is its revision;
a candidate is the base and output of its operation. The client is arbitrary: any method may
be called with any operation at any time. `Reopen` is a close or a death followed by `open()`:
committed tables survive. The clock is two booleans here; `RunOwnership` has the real one.
`AdmitOutput` takes the plan alone: the request's own ceiling, which `start()` compares with it,
is data of `Proposal`, where `CeilingRespected` says that the two are equal. The mutant
`DispatchTorn` is what `dispatch()` would be without the rollback of its first reservation.

**Runtime.** `pc[r]` is the point a task has reached, `running` the task that holds the event
loop: between two awaits a task runs alone, but every transaction is a step of its own because
the process may die after it (`Crash`). At an await any other task, `finish()` by the
application, a cancellation, a recovery of the same operation through another runtime, or the
clock may come first. `Raise` is the way into the except clause, with the value the local
variable `stage` has there (`StageAt`); `RecordFailure` and `NotifyFailed` are the clause.
Exceptions that no caller distinguishes are one value, `"Failure"`. `finish()` may also be
called by the callback of an event; the points after an event with no await in between are
`validating` and `dispatching`.

**Session.** `driver[s]` is where `execute()` is. It does not await between two steps of its
runtime, so it keeps the event loop there (`Keeps`, `Alone`). The decisions of `policy` and
`on_rejection` are choices; both are followed by the same readiness check. `Close` is the
except clause; it finds the run open, or already ended by somebody else. A `TimeoutError`
may also come from application code, so a failure may be recorded as `timed_out`.

**RunOwnership.** An object is identified with the open file description of its `_fd`, because
the flock belongs to it and is shared by forks. Opening and locking are two steps; a creation
is four. A fork may come between any two of them: the child then only holds the description
(`held`), because the thread that was making the object is not in it. `now` is the monotonic
clock, `wall` the settable one. `Path` is what a path is worth: free, claimed by a creation under
way, made, or void when its creator lost the lock to an opener or died before its schema.

**Accounting.** `inspect()` hands the tables to `summarize_usage()`; here the summary is set
expressions over the variables of `RunStore`, evaluated in every state. A report is its kind
and its output tokens, as in `RunStore`; input tokens are not counted, so `UnknownUsage` holds
the reports without an output count and not those that lack only the input count.

**DeepSeek and Proposal.** `Runtime` says when a step is where; `Proposal` says with which data.
`Prepare` is `_step()` up to its first await: the grants of the step, the hook (any request over
the tools, with specifications of its own), the plan and the ceiling; a refusal on the way is
`PrepareRefused`. `Infer` is the adapter. For DeepSeek the request is posted, leaves (`Sends`),
and may be answered (`Answers`); `pending` holds the adapter's own timeout and the caller's
cancellation once they are on their way, since all three may be there before the task runs
again. Python then throws at the await even when the answer is there (`Interrupted`), and
`asyncio.timeout()` turns only its own cancellation into `TimeoutError`. `Reports` is the
finally clause with the trace sink, whose exception replaces the outcome. A response is what
the checks of `_generate()` leave of it. `Return` and `Validate` are the step after the await.
`Return` records what the adapter hands over; that the journal may refuse a report belongs to
`Runtime` (finding 1).

**ProgramWorker.** `phase` is where `run()` is. `Select` is the head of the loop with its look
at the clock and the snapshot of `select()`, `ready`, that the body then uses up one stream at a
time, while the child goes on. A `select()` that times out changes nothing. `ReadData` counts
what `os.read()` gives against the room that is left for both streams. `Cleanup`, `Kill` and
`Reap` are the finally clause in its order, with the child free to end in between. The sender
thread ends when the request fits the pipe, the child reads, or the pipe breaks. The child is
the bootstrap and then generated code that may do anything its confinement leaves: write to
either stream, close it, exit, be killed, or do nothing. What it printed is known as a document:
empty, an envelope with a value or an error, or anything else. Bwrap and its child count as one.

**Fetch.** One action per decision of the loop between two waits: `CallFetch`, `Redirect`,
`ResponseHead`, `Chunk`, `BodyEnds`. `Expires` and `Breaks` end a wait. A response or an exception
closes the response and the client on its way out (`closing`, `FetchCloses`), under the same
deadline, so that it may still be lost to a timeout or a cancellation. A URL is its origin and
a Location also one that is missing, that `_url()` refuses, or that `join()` cannot parse.

**ContextCompiler.** `Before` is the order of the sort, `LastOf` the item of a set that the pass comes
to last, and `Compiled` folds `Consider` over the items in that order. `ContextSelection` says
what a selection must be without any pass: nothing required is left out, what is in fits, and
what is out has no room beside the required items and those that rank with it or above.

## Runs

| Run | Instance | Shows |
|---|---|---|
| `store_journal` | 3 inferences allowed of 4 rows, 2 tools, 1 external action, 1 guard, 2 outputs | the journal's twelve properties, among them that it implements `AbstractRun` |
| `store_output` | 4 operations, cap of 3 tokens, 4 plans, 5 kinds of report | output admission; the usage summary agrees with it |
| `runtime_shared` | 2 runtimes, 2 operations, 1 guard, all events; symmetric in the runtimes | effects, events, rejections under sharing, recovery, cancellation and crash |
| `runtime_usage_lost` | 1 runtime | **violation**: a usage report after `finish()` is lost |
| `runtime_cancel_masked` | 1 runtime | **violation**: a cancellation is replaced by `ContractError` |
| `session_shared` | a session and a rival runtime, 2 operations, 1 tool call | the policy sees a settled run, stops are exact |
| `session_deadline` | a session and a rival, 2 guards, 1 operation, wall and output limits, fairness | `execute()`, `step()` and `recover()` end; reports precede use |
| `session_foreign_step` | as `session_shared` | **violation**: a failed session counts a rival's step |
| `ownership_fork` | 2 processes, 2 objects at a time, a wall time of 1, clocks up to 2 | one writer, downtime counted; implements `AbstractLease`, so that a path given up stays void |
| `ownership_backward` | a wall time of 2, clocks up to 3 | **violation**: a clock set back authorises work |
| `beside` | see below | the worker, the fetch, an inference and the context compiler: each safe, each ends |
| `fetch_invalid_url` | as `beside` | **violation**: a redirect ends a fetch with a foreign exception |

Bounds. Every defect of serialisation or publication needs at most two operations that
overlap; three operations allow one to fail, one to be recovered and one to publish on top of
the other, and the fourth row of `store_journal` is there so that an exceeded inference
budget would show. Four operations in `store_output` allow an unreported, an over-plan and a
mismatched report before one more request. Two runtimes suffice for a takeover, because the
journal admits one pending operation; the second operation is the one that follows it. `AppErrors` bounds what callbacks may
raise: one ordinary failure in the `Runtime` runs, where every such error is treated alike,
and `BudgetExhausted` besides in the session runs, where it is told apart. `runtime_shared`
keeps two tool calls, so that the budget never hides a second effect of one operation. In the
session runs one tool call is enough: the scenarios are an own step that is evaluated, or a
rival's. The wall limit is on only where it matters for the property: in the other runs the
deadline would only close guards. Two processes cover owner and rival, parent and child. The
clocks reach one unit beyond the wall time, and descriptions are reused, so a run is opened
any number of times. `CHECK_DEADLOCK` is left on everywhere: the clocks keep running.

`beside` explores the parts that share no variable with the journal or with each other. A part
moves only while the others are in their initial state, so their states add up instead of
multiplying, and every part returns to its initial state. Pipes of two units and reads of two
against a limit of three units and writes of four let either stream alone, or both together,
exceed the limit, block the child, and be cut in the middle of a read. Three origins, one of
them not permitted, and two redirects allow a chain that comes back, leaves, or is too long; a
cap of three with chunks of two is missed by one in both directions. Two tool names, one of them
granted, and output ceilings and budgets below, at and above the adapter's limit of two make every
narrowing differ from its neighbour. Three items of three sizes fill nine characters exactly, just
not, and with a smaller item fitting behind one that did not.

Fairness. `FairSpec` of `Runtime` asks three things. A ready task goes on: asyncio runs the
ready queue. Time passes the deadline. After it, a task that awaits is interrupted:
`asyncio.timeout()` cancels it, and what it awaits is taken to be cooperative, as the class
comment of `Runtime` and `docs/guides/runtime.md` require. Nothing is assumed of an adapter,
guard, tool or evaluator before the deadline. `FairSessionSpec` asks the same and that
`execute()` itself goes on, since its callbacks must not block; it asks all of this of the
rivals too. In `beside` the parent of a program, the clocks and the event loop go on;
nothing is asked of the child, of the sender thread, of a server or of the provider, and a
connection is closed without waiting for the server (`FetchCloses`), so a
child that never ends and a server that never answers are among the behaviours.

## Findings

1. `record_usage()` refuses a report once the run is finished or its operation was abandoned,
   against its docstring and `docs/guides/runtime.md` (`runtime_usage_lost`).
2. `Runtime._step()` loses a cancellation when the run was finished meanwhile: the event in
   the except clause is refused (`runtime_cancel_masked`).
3. A failed session's `completed_steps` is a difference of run-wide counts and includes the
   steps another runtime completed while it waited (`session_foreign_step`).
4. `_bind_clock()` compares the wall clock with `last_clock` and does not store it, so a clock
   set back behind the time of the opening, but not behind the last authorised work, is
   accepted, and a reopened run has more time than it had (`ownership_backward`).
5. `fetch_https()` evaluates `selected.join(location)` outside of the `try` that turns
   `httpx.InvalidURL` into `FetchRefused`, so a redirect whose Location is no URL raises the
   former, against `docs/http.md` (`fetch_invalid_url`).

Noted and not findings. When the sender thread of a program cannot be started, `run()` raises
ahead of its `try` and leaves the child running (`StartSender`; `NothingLeftRunning` excepts it
by name). `json.loads()` raises `RecursionError` for a response, or for arguments, nested too
deeply, and `generate()` then loses the report its finally clause made (`UsageAccounted` names
the exception). A literal such as `1e999` in a program's output becomes an infinite number
without `parse_constant` being called. A process that dies between the creation of the file and the commit
of its schema leaves a path that neither `create()` nor `open()` accepts (`Void`).

## Proofs

`RunStoreProofs` and `RunStepProofs`: the theorems hold for every value of the constants of
`RunStore`, from its named assumptions only: `MaxOps` and the limits are natural numbers (`OutputTokens` may be absent), plans and
reports are well formed, and NULL is no output and no outcome. `MaxOps` stands for the number
of rows of the table, which nothing in a proof bounds.

* `Typing`: `[]TypeOK`.
* `Serialised`: `[]OneAtATime`, `BaseKept`: `[]PendingBaseCurrent`. The invariant adds that
  operations are allotted in order and that fresh rows are empty: then `check_ready()` leaves at
  most the newest row unfinished, so nothing can move the revision between the `start()` and the
  `complete()` of an operation. The stale-base refusal in `complete()` is never reached.
* `Published`: `[]CommitChain`, from the former, since the base of what is completed is the
  current revision and evaluations are only written there.
* `Reserving`: `[]ReservationsFollowStage`, `WithinLimits`: `[]BudgetRespected`, `Authorised`:
  `[]GuardedDispatch`, from one invariant. The count needs that a reservation is new when it is
  inserted, which is what `ReservationsFollowStage` says of the stage; guard decisions need that
  there is one for a guard.
* `Contained`: `[]NoModelRequestAfterExposure`. The exposure of an operation can only change
  while it is unfinished, hence never after a later one began.
* `NeverForgotten`, `UnknownBlocks`, `Terminal`, `Observes`: the action properties, one lemma
  per action that writes a stage.
* `Implements`: `Spec => ImplementsPromise`. Under the mapping of `RunStore` (the phase is
  what the one unfinished operation waits for, counters are cardinalities) every transaction
  is a step of `AbstractRun` or a stutter.

`FoldProofs`: what the sums over operations and the fold over context items are, for every finite
set. `SubsetInduction` comes from the library's well-founded ordering of strict subsets; a property
is given to it as the set of those that have it, so that no operator has to be instantiated.
`FoldUnique` and `FoldExists` turn a recursive definition into an equation, `SumAdds`, `SumSame`
and `SumGrows` are what the proofs then use of a sum.

`AccountingProofs`, with the assumptions of `RunStore`.

* `Bounded`: `[]OutputBounded`. While nothing is breached, a request is admitted only when nothing
  is unresolved, and then with what is left of the cap (`StartBounded`). A report moves what was held
  for its request to what is spent, and no more of it, or else the plan is breached. All other
  transactions leave both sums alone. That the row of a new operation is empty (`ExposureInv`) is
  what keeps it out of the sums until then.
* `Summarised`: `[]UsageSummary`. The invocations are the inference reservations, one for each
  operation, because a reservation follows the stage; under a budget each of them has a plan
  (`PlansFollowRows`), so that the rows admission adds up and the rows the summary adds up differ
  only in rows without tokens.

`RuntimeProofs`: any number of runtimes that share a run, any guards, limits and operations
(`EventAssumption`, `AppAssumption`, `GuardAssumption`: the events of `step()` are stages of the
table, application code raises what callers tell apart, and each guard is asked once). `RuntimeInv`
adds to the invariant of the journal where a task can be: `Place` ties the control point of a
task to the few stages its operation may have, since only a recovery moves somebody else's
operation, `Apart` says that two steps never share one, and `Accounted` counts an effect
against its reservation and a proposal against its report.

* `UsesJournal`: `RuntimeSpec => Spec`. Every step is a transaction of `RunStore` or a stutter,
  so that all of the journal's theorems hold of the runtimes. It needs that there are no more
  revisions than operations (`Numbered`), because `step()` starts from the revision it reads.
* `EffectOnce`: `[]EffectAtMostOnce`, `Rejections`: `[]RejectionHadNoEffect`, `Reported`:
  `[]ReportedBeforeUse`, from the invariant; `Closed`: `ClosedOperationStaysClosed`, from the
  journal's steps (`ClosedStore`) and from where an effect can begin (`EffectsBegin`).
* `Truthful`: `[]EventsTellTruth`. `EventsInv` adds what each event says of the tables (`Holds`)
  and what a task is about to tell (`Telling`). An effect stays unknown because whoever could
  still return it has left: `effect_unknown` includes that no runtime acts for the operation.

`SessionProofs`: any number of sessions, and of rivals of theirs on the same run. While a session
decides, or its step has just ended, no other task runs (`Keeps`); while its step waits, what
rivals do leaves the other operations of the session closed (`UnderWay`), and between the last
transaction of a step and its return nobody else gets a turn.

* `UsesRuntime`: `SessionSpec => RuntimeSpec`, hence the theorems of `RuntimeProofs` and of the
  journal. Without the invariant a session could record a count that is no termination.
* `KeepPromise`: `SessionSpec => ImplementsPromise`, so that `AbstractRun` is what an application
  gets that drives a run with sessions. `KeepJournal` and `KeepRuntimes` carry all theorems about
  the journal, its output budget and the runtimes up to the sessions.
* `SettledRun`: `[]PolicySeesSettledRun`, `ExactStop`: `[]StopIsExact`. A step that returns
  has completed exactly one operation of its own, and a certified rejection none.

`OwnershipProofs`: any number of processes and descriptions of the file.

* `Exclusive`: `[]OneWriter`. The lock is a resource of the description (`LockHeld`), and the
  race of two creators has one winner (`OneCreator`).
* `Downtime`: `[]DeadlineCountsDowntime`, with `Clocks`: clocks that nobody sets agree.
* `KeepsLease`: `Spec => ImplementsLease`. The writers are the processes that own a bound object.
  Opening, closing, forking and dying only take writers away or only add one, so that by `Exclusive`
  the lease is given up, taken up when nobody has it, or stays (`LeaseChanges`): it never passes from one
  process to another in one step, also when a child outlives the owner and keeps the lock. The path
  is claimed by the one creator (`OneCreator`), and no other step makes a new claim (`NoNewClaim`).
* `Fixed`: `DeadlineFixed`, and `Void`: `VoidForEver`, a path that was given up never holds a run:
  both follow from the lease and therefore have no place in the run.

`BesideProofs` is one section for each part, and one for their composition.

`Proposal`: any names, grants, ceilings, budgets and counts (`CountAssumption`,
`GrantAssumption`, `CeilingAssumption`; `NameAssumption` keeps the names of tools apart from the
marks of the model). `ProposalInv` adds to the
properties what holds between the preparation of a request and the dispatch.

* `Dispatches`: `[]DispatchAuthorised`. `Authority` carries the narrowing of grants to the end of
  the step, and `Offered` what DeepSeek was sent to the call it returns.
* `Ceiling`: `[]CeilingRespected`. `Planning` says that the plan still fits the prepared request
  when it leaves; `PlannedCeiling` is the arithmetic of the three limits.
* `Usage`: `[]UsageAccounted`. `Reported` relates the report to what left the process, from the
  end of `generate()` until the step records it.
* `Outcomes`: `[]OutcomeIsTrue`, a part of the invariant.

`ProgramWorker`: any capacity of the pipes, read size, limit and size of writes.

* `Reaped`: `[]NothingLeftRunning`. `Lifetime` ties the child to every phase of `run()`; the
  child may also end by itself between any two of them.
* `Whole`: `[]AnswerIsWhole`. `Books` says that until a failure every unit written is either kept
  or in the pipe, and `Watching` that a stream is given up only once it is closed and empty: what
  was kept when the loop ends is then all that was written.

`Fetch`: any policy with at least one permitted origin and a positive cap, any server.

* `Contacts`: `[]OnlyPermittedContacted`. `Chain` says that the redirects are the tail of the
  requests and the target their last.
* `Responses`: `[]ResponseIsWhole`, with `Received`: what is held is what was sent.

`ContextCompiler`: any contexts, sizes, priorities and limit, and any length of the list.

* `Selection`: `[]ContextSelection`. `Before` is a strict total order (`BeforeOrders`), so that of any
  items one comes last (`LastExists`) and the pass is one fold. `Selects` is the invariant of the
  pass: of the items seen so far the required ones are in or it has refused, the size it keeps is
  the characters of what is in, and what it omitted had no room. It needs that the pass comes to the
  required items first, and that adding an item never makes a selection shorter.

The composition.

* `Parts`: `BesideSpec` implies the specification of each part, so that what `beside` shows and
  what is proved of a part are about the same behaviours; `BesideTyping`: `[]BesideTypeOK`.

Only model-checked: the liveness properties (`CallsEnd`, `SessionEnds`, `CallsReturn`), which with
their fairness are beyond the prover. The property of each run that expects a violation is refuted by
TLC and states what the repository says of the code.

## Plan

Done: the core, the parts beside it, and the safety proofs of both. What is left is to relate the
data of `Proposal` to the control of `Runtime` in one specification.

## Not modelled

Formatting and parsing of records (`results.py`, `configuration.py`, JSON columns), digests,
the read-only `inspect()`, and the kernel configuration of the program bootstrap: they keep no
state that the properties read. Wording, the content of traces, the redaction of error bodies
and process-local presentation events are left out, and so are evidence identities of context
items. Not in `ProgramWorker`: a second interrupt inside the finally clause, and the process tree
below bwrap. Not in `Fetch` and `DeepSeek`: the HTTP library's own timeouts, which end in the same
exceptions as a failing transport. SQLite itself is taken to be atomic and durable, as `docs/guides/runtime.md` states.
Blocking application code is outside of the liveness claims. The difference between Python
versions in the treatment of `InferenceCancelled` by `asyncio.timeout()` is a choice of `Kinds`.
