# Verification of the move-datatype saga

The repository is a proof of concept for a control plane of Flink job families.
Its one operation moves a datatype from one job family to another: pause both
jobs, patch the routing of both, resume both, or put everything back. It is
written three times, over the same mock cluster, to compare execution engines:
in bare Python, on Restate and on Temporal.

This directory holds TLA+ models of all three, of the files of the mock cluster,
of the way a verdict takes to its caller and of the registry of the Temporal
engine; an abstract contract of what a move promises and one of what a cluster
operation promises; TLC configurations; and TLAPS proofs about the bare-Python
saga, the fault rules, the way of the verdict, the files, Restate, Temporal and
the registry.

## 1. The system

### Parts

| Part (source) | State it keeps | Operations |
|---|---|---|
| Domain model, saga plan (`poc/common/domain.py`, `saga` modules) | none | request, validation, plan of six steps, new routing, rollback intents |
| Mock cluster (`poc/common/cluster.py`) | per family: RUNNING/SUSPENDED, datatypes, generation, last savepoint, in a JSON file; an audit log | seed, read, `trigger_savepoint`, `suspend_job`, `resume_job`, `patch_configmap` |
| Chaos injection (`cluster.py`) | rules and hit counters, in two JSON files | `set_chaos`; decides the outcome of every mutation attempt |
| Baseline actor and saga (`poc/baseline/`) | in memory: snapshot, stack of rollback intents | four commands with an in-place retry; `run`, `_compensate` |
| Restate actor (`poc/restate/actor.py`) | K/V store of a Virtual Object: cached runtime state | exclusive handlers pause, patch, resume, restore, reset |
| Restate saga (`poc/restate/saga.py`) | workflow journal | `run`: snapshot, validation, six calls, unwind |
| Temporal actor (`poc/temporal/actor.py`) | entity workflow: cached state, lock; the server's memory of accepted updates | updates pause, patch, resume, restore; seeding; continue-as-new |
| Temporal actor proxy (`poc/temporal/actor_proxy.py`) | the activity's attempts | get-or-create an actor, send one update with an id, wait |
| Temporal saga (`poc/temporal/saga.py`) | workflow history | `run`: snapshot, validation, six proxy activities, unwind |
| Verdict transport (`restate/errors.py`, `poc/cli.py`) | none | a saga's error, its wrapping by the engine, the search for the verdict in what the caller catches |
| Scenarios (`common/scenarios.py`), CLIs | none | install rules, make one move, compare the result with the expectation |
| Registry (`temporal_app.py`) | per kind, a table by Temporal name and one by object; the workers | decorators that define and register, `create_workers`, routing by object or name |

### Interaction

The saga reads both families from the cluster, validates, and then sends one
command at a time to the actor of the family the command is about, waiting for
each answer; before each command it pushes the intent that undoes it. The actor
turns a command into one or two mutations of the cluster (a pause is a
savepoint followed by a suspend) and retries each on a transient fault. If a
command fails, the saga pops its intents and has each one *reconciled* by the
actor: read the cluster afresh, do nothing if the intent is met, otherwise make
the operations that meet it. A failing restore is recorded and does not stop
the others. The verdict is COMPLETED, REJECTED, COMPENSATED or
COMPENSATION_INCOMPLETE.

The engines differ in what surrounds this. In Python everything is one
synchronous thread, and dies with it. On Restate the workflow and the handlers
are replayed from journals, one handler per object runs at a time, and *calls
of several moves interleave in an object's queue*. On Temporal a command
travels as an activity with its own timeout and retries, which sends an update
that waits for the actor's lock; actors outlive moves, roll over and can be
terminated.

### What is hard, and what makes each part correct

| Part | Hard behaviour | Correctness |
|---|---|---|
| Saga plan | phases are barriers, in both directions | no routing is written, and on the way back no job started, at the wrong phase |
| Cluster, chaos | a mutation commits and its response is lost; counters outlast a move | faults within the budget are invisible; a longer one gives the verdict it implies, whatever earlier moves counted |
| Cluster files | reads and writes of several files without a lock, by operations on several families; a process dies between two of them | an operation is one change of its family or none, as its answer says; the log has a line for each change |
| Baseline | retries, half applied commands, failing restores, process death | all or nothing, or every deviation named |
| Restate actor | stale cache after a failure, effect before journal entry, cache cleared at any time | a wrong cache is always about to be refreshed, or reported |
| Restate saga | moves that overlap | ends without deadlock, and leaves no job suspended without a reason; alone, a move implements the contract |
| Temporal actor | lock queue, rollover, termination, aborted updates | a wrong cache is owed a refresh or reported; savepoint before suspend whatever happens to the run |
| Temporal proxy | timeouts while the update is in line, running or done | a command is carried out once per run of its actor |
| Temporal saga | actors and remembered ids of earlier moves | verdicts stay true; moves end |
| Verdict transport | three ways of wrapping an error, one that keeps only text | the caller sees the verdict the saga reached, or none |
| Registry | imports in any order, the same module executed again in a sandbox, methods offered by several instances | work is routed to the worker that hosts it, for good |

`PROJECT.json` lists each hazard at its line of the source.

## 2. The modules

```
SagaPlan ── Cluster ──┬─ BaselineSaga ──┬─ BaselineInvariants ── ChaosBaseline ──┬─ Scenarios
    │                 │                 │                                        └─ BaselineProofs
    │                 │                 └─ VerdictTransport ── (BaselineProofs)
    │                 ├─ ChaosRules ──┬─ (ChaosBaseline)
    │                 │               └─ ClusterFiles ── ClusterFilesProofs
    │                 ├─ AtomicCluster   (implemented by ClusterFiles)
    │                 ├─ RestateActor ─── RestateSaga ──┬─ RestateInvariants ── RestateProofs ──┐
    │                 │                                 └─ RestateContract ── RestateContractProofs
    │                 └─ TemporalActor ── TemporalProxy ── TemporalSaga ── TemporalInvariants ──┬─ TemporalProofs ──────┐
    │                                                                                          └─ TemporalIsolation ─ TemporalIsolationProofs
    ├─ MoveContract   (implemented by BaselineSaga and RestateContract)
    └─ PlanProofs ── (BaselineProofs, RestateProofs, TemporalProofs)

AppRegistry ── AppRegistryProofs
```

**SagaPlan** is the plan as data: `Rejected` (the three validations), `Plan`
(the six steps), `Intents` (what is registered before each) and `NewConfig`.
The three `saga.py` files contain the same plan. A family's list of datatypes
is a set here: its order is never looked at, and no duplicate can be put in.

**Cluster** has one variable per field of the persisted record, and one action
per mutation. `Outcome` is what a caller may see of one attempt: `ok`,
`transient`, `permanent`, or `lost` (committed, but the caller got an error).
Which one happens is left open, because the rules file is read again on each
attempt and may be rewritten in between. A savepoint is named by the generation
that took it, which is what its path contains.

**BaselineSaga** is `baseline/saga.py` with `baseline/actor.py`. A step is one
attempt of one cluster operation, or the saga's own code between two. `stack`
is the list of intents, `todo` what the actor command in progress still has to
do, `attempt` the loop variable of the retry wrapper. `Die` is the process
ending in between; `NextSaga` is the next invocation of the command-line
program, over the cluster the last one left.

**ChaosRules** is the table of fault rules and the condition under which one
strikes. **ChaosBaseline** adds the rules and the hit counters to the baseline
saga, and with them decides each attempt's outcome as `_maybe_fail` and
`_maybe_lose_response` do. Its steps are by construction steps of BaselineSaga
(the lemma `SagaUnderRules`), so BaselineSaga's theorems hold for it too.
`installed` is a history variable, the moves made when the rules were installed:
`SingleFaultVerdict` speaks of the first move after that. **Scenarios** has the
ten scenarios as data: their rules, whether they are expected to fail, and what
their descriptions say is undone. `times` is given there for a budget of four;
the model writes it in terms of the budget.

**ClusterFiles** is `cluster.py` one file access at a time. `frame` holds the
local variables of each family's operation in progress, its `pc` the next access:
the rules, the counters, the family's record, the savepoint's file, the log. A
file that is replaced is first truncated (`torn`, `hitsTorn`) and then written,
since that is what `write_text` does; a line is appended at once. `Crash` lets a
process die with any of the operations under way: threads of one process or
several processes. Each family has one caller with one attempt at a time, as its
actor provides. **AtomicCluster** is what the other models assume instead of all
this: call, one change of one family, truthful answer.

**VerdictTransport** follows the verdict of `BaselineSaga` (all three sagas
build the same one) through each engine: raised with its cause (`SagaRaises`),
wrapped by Temporal or flattened to an HTTP answer by Restate (`Delivered`), and
searched for by the command line (`extract_saga_failure`). An error is a record
of its class, its type, its details and, for Restate, the two parts of its text
that are read back.

**AppRegistry** is the state of a `TemporalApp`: the native definition of each
object, the two tables (`byName`, `byRef`; both kinds in one, told apart by the
key) and the workers once built. Any decorator may be applied to any object at
any time, an object that has a definition already included: a module that is
executed again in Temporal's sandbox brings a new class of the same name.
`Route` is `workflow_registration` and `activity_registration`, which all the
calling methods use.

**MoveContract** is the abstract specification: an observer sees the two jobs'
state and routing, a phase and a verdict. The cluster changes only between
snapshot and verdict, in the two families of the move, one at a time, to the old
or the new routing; the verdict is true of the cluster when it is given, and an
incomplete rollback names everything it left different.

**RestateActor** is one Virtual Object per family. `inbox` is the engine's
queue of an exclusive handler, its head the invocation that runs; `cache` is
the K/V entry. A handler's decision is taken when it starts (`Enter`), its
durable steps follow one attempt at a time. `Crash` is a crash after the effect
of a step and before its journal entry, after which the step is executed again.
Reads are folded into the start: while the handler runs nothing else mutates
its family, so the reads it makes later return what they would have at the start,
apart from its own changes. `Reset` is the handler the CLI uses.

**RestateSaga** is the workflow, one per member of `Sagas`, all concurrent.
Replay is folded into exactly-once calls: that is what the journal gives, and
the model relies on Restate for it. The two reads of the snapshot are separate
steps, with other moves' commands between them. **RestateContract** is the
refinement of MoveContract for moves that are made one after the other, as the
command line makes them: the contract's move is the one that was started last.

**TemporalActor** is the entity workflow. `queue` holds accepted updates in the
order of the lock, `finished` what the server remembers of this run's updates,
`Adopt` the seeding from the cluster, `Rollover` the continue-as-new of `run`
(which waits for the lock itself and hands the cached state on), `Stop` the
CLI's termination. `ran` and `twice` are history variables: the ids that were
carried out, and more than once.

**TemporalProxy** is the activity between saga and actor. `Send`, `TryAgain`
and `GiveUp` are its attempts; a request is on the `wire` until `Deliver`.
`Deliver` is the server's part: it starts the actor if there is none, and gives
an id that this run knows the earlier answer.

**TemporalSaga** is the workflow. Its snapshot read has no action for a family
that does not exist: the activity there is retried without limit.
**TemporalInvariants** and **TemporalIsolation** have no code of their own: they are
the inductive invariants, for moves that overlap in any way and for moves that
follow one another.

Two pieces of external behaviour are modelled from how the code uses them:
Restate's journal, queue and per-object exclusion; Temporal's deduplication of
update ids *per run*, its abortion of unfinished updates when a run ends, and
its default retry policy, which is unlimited.

### Abstractions shared by the models

* Datatypes, families and moves are model values; wording, logging and printing
  are left out, and audit records outside ClusterFiles.
* An optional field (`desired_state`, `datatypes` of a restore request) is a set
  of at most one value.
* An activity attempt (a cluster operation) that times out has taken effect or
  never will. The proxy's attempts are *not* so restricted: see `late_command`.
* Outside ClusterFiles one cluster operation is one atomic step, which is what
  its `ImplementsAtomicCluster` justifies. What it does not cover is two
  attempts on one family at once, and a reader that is not the family's actor.

## 3. What is checked

Every passing property has a mutant in `PROJECT.json`: a plausible fault,
written next to the definition it replaces and marked `Fault:`, under which TLC
finds that property violated in the same run.

| Run | Instance | What it shows |
|---|---|---|
| `one_move` | 2 families and an unknown name, 2 datatypes, 2 attempts, 1 move, any outcome of any attempt | the move ends; COMPLETED is the whole move; a rolled-back move names every deviation and files each intent once; a suspend follows its savepoint; each verdict reaches its caller through every engine |
| `chaos` | 2 families, an unknown name, 3 attempts, one rule of up to 7 strikes, 2 moves, deaths | the phase barriers, the contract and the proofs' invariant hold over whatever an earlier move left; faults shorter than the budget are absorbed; each longer one leads to the verdict its mode and operation imply, also in a second move after the rules were changed, whose counters must be fresh; the scenarios end as described |
| `restate` | 2 families and an unknown name, 2 moves one after the other, 2 attempts, 2 mishaps, 1 crash, 1 reset | the workflow and objects implement MoveContract; verdicts are true; no job is left suspended unless an operator is asked |
| `restate_overlap` | 2 moves at once in opposite directions, 1 mishap | both end; a cache that is wrong about its job is owed a refresh or reported; with no operator asked, a job stays suspended only on behalf of a rolled-back move that had read it so |
| `temporal_move` | 1 move, 1 mishap, 1 ended run, 2 timeouts, 1 try of the proxy | the move ends; its report stays true after the verdict although commands were given up while in line; the cache as above |
| `temporal_two_moves` | 2 moves that do not overlap, 2 attempts, 2 mishaps, 1 ended run, 2 tries, 1 timeout | a command sent again is not carried out again; the second move completes properly over the first one's actors and ids |
| `cluster_files` | 2 families, one being paused while the other is patched and resumed, 3 attempts in all, rules on up to 2 operations, 1 crash | interleaved file accesses amount to atomic operations; the log accounts for each change and numbers a family's lines in order; a record names a savepoint that exists; only a crash makes a family unreadable; rules of one family strike exactly as often as they say |
| `app_registry` | a workflow, its copy in a sandbox, a function and a method, 2 type names, 2 queues, 2 instances, any registrations in any order | work whose name had a worker built for it is routed to that worker's queue; a route never changes; a method is bound to one instance |

Four more runs are counterexamples, one for each disagreement between the code
and what the repository says of it:

| Run | Finding |
|---|---|
| `overlapping_moves_lose_routing` | Two overlapping moves, without any fault, each write routing derived from their own snapshot; a datatype ends up with no owner or two, although both moves are COMPLETED (`domain.py:103-106`). |
| `stale_cache_skips_pause` | A restore on Restate writes SUSPENDED to the cache from its fresh read; if its `resume_job` commits and its answer is lost, the cache stays. The next move's pause believes it, and its patch rewrites the routing of a running job (`POC_SCOPE.md:162-163`). |
| `late_command` | On Temporal, a command all of whose proxy attempts time out before they deliver it can arrive after its restore, which found nothing to do: COMPENSATED, and then the job is suspended (`README.md:91`). |
| `unknown_family_hangs` | On Temporal, a move that names an unknown family never ends: `_read_all` has no retry policy, so a permanent error is retried for ever (`temporal/actor.py:42`). |

### Bounds, and why they are enough

* `MaxAttempts` is 4 in the code and 3 in `chaos`: what matters there is the
  length of a fault relative to the budget, and 3 has a length of 2 that is
  absorbed after more than one retry. Elsewhere an attempt's outcome is open, and
  one attempt that may be retried (2) shows every combination of commits and
  errors a longer run of attempts shows: a committed operation that is repeated
  changes only the generation. `OnlyLongFaultsUnwind` is proved for every budget.
* `MaxTimes` 7 in `chaos` is past twice the budget: a rule can outlast the
  forward command *and* the restore that needs the same operation. In
  `cluster_files` it is 1: a rule strikes, is counted and passes. That it strikes
  exactly `times` times is proved for every bound (`RulesStrikeExactly`).
* `MaxFaults` 1 in `chaos` (each scenario has one rule) and 2 in `cluster_files`,
  where two rules share the counters' file.
* `MaxCalls` 3 in `cluster_files`: two operations of one family, which is what an
  order and a later read need, around one of the other; `MaxCrashes` 1.
* `MaxSagas` 2, and two members of `Sagas`: a hazard between moves needs what
  the first left and what the second does with it.
* `MaxMishaps`, `MaxCrashes`, `MaxResets`, `MaxEndedRuns`, `MaxTimeouts`:
  how many faults one behaviour may contain. Two faults are needed for a
  rollback that fails in part, and the bounds of a run name at least as many as
  its properties need to be broken by its mutants.
* `MaxTries` is 3 in the code; 2 shows an attempt that is repeated, 1 an
  activity that gives up while its update is in line. In `late_command` two
  timeouts with two tries stand for three with three.
* Two families are the smallest move, and a second move in the opposite
  direction or the same. A second datatype is the one that must *not* move.
* In `app_registry` two objects of a kind may claim one name, two instances one
  method, and each object either of two queues: the smallest instance in which a
  registration, a binding or a route can be ambiguous.
* Initial routings are arbitrary in the baseline runs and assign each datatype
  to one family in the Restate and Temporal runs.

`CHECK_DEADLOCK FALSE` is set throughout: a system that has made its last move
stops.

### Fairness

* Baseline: weak fairness of `SagaStep`, the disjunction of what the single
  thread does by itself. Neither death nor the next move is fair. Every retry
  loop is bounded by the code, so no fairness about outcomes is needed.
* Restate: weak fairness of each workflow's steps and of each object's
  handler. The engine keeps invoking what has not finished. Starting moves,
  crashes and resets are not fair.
* Temporal: weak fairness of each workflow's steps, of each actor's handler, of
  the delivery of a call in progress and of the failure of a call whose update
  was aborted: the server keeps dispatching workflow and activity tasks.
  Starting moves, timeouts and the ends of runs are not fair. The liveness and
  most safety runs use `PromptSpec`, in which a proxy attempt that has timed
  out has sent its request or never will; `late_command` drops that assumption.

Properties are stated under `Isolated` where the code leaves it to its callers
that moves of one family do not overlap (the lock of the failure-scenarios
document is not implemented): overlapping moves are the subject of
`restate_overlap` and `overlapping_moves_lose_routing`.

## 4. What is proved

For `BaselineSaga` and `ChaosBaseline`, with any families, names, datatypes,
number of attempts and number of moves, and any rules; for `VerdictTransport`,
with any report; for `ClusterFiles`, with any families, requests, rules, calls
and crashes; for `RestateSaga`, with any set of moves, families, names and
datatypes, any number of attempts, mishaps, crashes and resets, and moves that
overlap in any way unless the statement says otherwise; for `TemporalSaga`, with
any moves, families, names and datatypes, any attempts, tries, timeouts, mishaps
and ended runs, for moves that overlap in any way and requests that are delivered
late or never, unless the statement says otherwise; for `AppRegistry`, with
any classes, functions, names, queues and instances. Assumptions:
`NamesAssumption` (the families are among the names a request can carry),
`BaselineAssumption` (at least one attempt and one move), `RestateAssumption` and
`TemporalAssumption` (at least one attempt, the bounds are numbers),
`ProxyAssumption` (at least one try, the bound is a number), `ChaosAssumption` (the
bounds are numbers), `FilesAssumption` (calls are requests, the bounds are
numbers), `OrderAssumption` (the callers of a sequence of moves start each move
of a non-empty finite set once) and `RegistryAssumption` (classes and functions
are told apart, and the markers for absent names are not names).

| Theorem | Statement |
|---|---|
| `SagaIsTyped` | `Spec => []TypeOK` |
| `RollbackIsAccountedFor` | a rolled-back move has put back or named every difference |
| `CompletedMoveIsWhole` | a completed move is exactly the move |
| `RoutingIsPatchedSuspended` | routing is only written while both families are suspended |
| `ResumesFollowReverts` | the unwind starts no job before both routings are back |
| `SuspendsHaveSavepoints` | a running job is suspended only right after its own savepoint |
| `ReportIsComplete` | each registered intent is reported once |
| `SagaImplementsContract` | the saga implements MoveContract |
| `SagaKeepsInvariant` | `Spec => []IInv`, the invariant the others rest on |
| `VerdictsReachCallers` | through every engine's wrapping the caller gets the saga's verdict and report |
| `OnlyLongFaultsUnwind` | a move unwinds only because of a rule that is permanent or as long as the budget |
| `FilesAreTyped` | the files and an operation's locals keep their types |
| `FilesImplementAtomicCluster` | the accesses of an operation implement AtomicCluster |
| `SavepointsAreStored` | the savepoint a record names has a file |
| `FamiliesStayReadable` | only a process that died makes a family unreadable |
| `LinesAreOrdered` | a family's lines are numbered in the order of its operations |
| `LogIsComplete` | the log misses at most one change for every process that died |
| `RulesStrikeExactly` | rules of one family strike exactly as often as they say, and as often again per crash |
| `RestateIsTyped` | workflows, queues, handlers and caches keep their types |
| `SuspendsHaveSavepoints` (Restate) | a running job is suspended only right after its own savepoint, whoever commands it and wherever a handler is replayed |
| `StaleCachesHaveOwners` | a cache that is wrong about its job is owed a refresh or reported, for moves that overlap |
| `SuspensionsHaveReasons` | when overlapping moves are over and no operator is asked, a job is suspended only on behalf of a rolled-back move that had read it so |
| `NoJobStaysSuspended` | isolated moves leave no job suspended unless one of them reports an incomplete rollback |
| `CompletedMovesAreWhole` | an isolated move that completes is exactly the move |
| `RollbacksNameDeviations` | an isolated move that is rolled back names every difference it leaves |
| `MovesImplementContract` | moves made one after the other implement MoveContract |
| `TemporalIsTyped` | workflows, proxies, actors and the requests under way keep their types |
| `SuspendsHaveSavepoints` (Temporal) | a running job is suspended only right after its own savepoint, whichever runs of actors end |
| `CommandsRunOnce` | while no run of an actor has ended no command is carried out twice, however often it is sent |
| `StaleCachesAreOwed` | isolated moves: an actor's cache that is wrong about its job is owed a restore or reported |
| `ReportsStayTrue` | isolated moves: the report of a rolled-back move names every difference, from its verdict until another move begins |
| `CompletedMovesAreWhole` (Temporal) | an isolated move that completes is exactly the move |
| `IsolatedMovesStayApart` | `IsolatedSpec => []IsolatedInv`, the invariant these three rest on |
| `OneMoveIsIsolated` | a single move needs no care of its callers |
| `RegistryIsTyped` | the registry keeps its types |
| `RoutedWorkHasItsWorker` | work is routed to the one queue whose worker hosts its name |
| `BoundMethodsHaveOneInstance` | a hosted method is bound to one instance |
| `RegistrationIsFinal` | a route never changes |

**Baseline.** None of the properties is inductive: each speaks of a verdict
or of one step, and nothing in it says how that state was reached.
`BaselineInvariants` adds what is true in between, in five layers that each
rest on those before:

1. `Control`: where the saga is in its plan. The
   stack is always a prefix of the intents of the plan, its length is tied to
   `done` and `pc`, and the operations left belong to the top intent. From
   here on the plan position replaces the stack's contents.
2. `DeviationsPending`: a family that differs from its
   snapshot has its undoing intent on the stack (the stack reaches up to its
   position) or among the errors. When the stack is empty this is
   `ErrorsNameEveryDeviation`. It holds because the intent is registered before
   the call: an attempt may commit at any time after that.
3. `Barriers`: who is suspended and what is patched at
   each position, forward and on the way back. It gives the two barrier
   properties and the completed move.
4. `SavepointFresh`: when only the suspend of a pause is left and
   the job runs, its last savepoint is its last mutation. A suspend that
   committed and lost its answer is why the job has to be running.
5. `ReportSoFar`: what has left the stack is in
   exactly one of the report's lists.

The proofs are in `BaselineProofs`, over the lemmas about the plan that every
engine's saga shares (`PlanProofs`). The refinement maps each action to an action of MoveContract or a
stutter; the verdict steps use layers 2 and 3. `chaos` also model-checks the
conjunction of the layers, `IInv`.

**Fault rules** (end of `BaselineProofs`). Each attempt under rules is one of the saga's
own actions, with an outcome among the four, so every theorem above carries
over (`SagaUnderRules`). For `OnlyLongFaultsUnwind` the
saga's invariant is joined by one about the counters: while an operation with a
counted rule is being retried, the rule has struck at least once for each attempt
before this one. When the last attempt of the budget fails too, the rule is as
long as the budget.

**Files** (`ClusterFilesProofs`). `FInv` says of every family which outcome its
operation has set at each access (`Consistent`), and that from the read of a
record to its write the file still holds what was read (`UpToDate`). The second
is inductive because a step of one family leaves the frame, the answer and the
record of every other alone (`OthersUntouched`), which is what one file per
family and one caller per family give. With it, writing the record is the
abstract change and every other access a call, an answer or a stutter. The
safety theorems add what each needs: the savepoint's file exists once the record
is about to be written (`Backed`), a truncated file is being written or was left
by a dead process (`Whole`), and a number that has been counted is past its
family's lines (`Numbered`). For the counters, `Exact` follows the *tally* of a
key, the hits in the file or, while the file is truncated, those about to be
written: the tally is what callers have seen plus the one hit that is counted and
not yet reported, and never more than `times`; a crash may set it back to
zero, once. It is inductive while the counted rules are all of one family because
an operation on a family without one never writes the counters
(`OthersCountNothing`); with rules of two families it is false.

**Verdict** (in `BaselineProofs`). That the search finds the outermost error
with a verdict (`OutermostVerdict`) is a fact about the smallest index of a
sequence; the rest is a case for each engine. The statement holds in every state.

**Restate** (`RestateInvariants`, `RestateProofs`, `RestateContractProofs`). Four
layers:

1. `Control`: each workflow's stack is a prefix of its plan, tied to `done`
   and to whether an answer is awaited; each queued call is the one its caller
   waits for and has the command of the intent on top of that stack; the steps
   left to a handler are a suffix of its command's. So every family has at most
   one call of a move, and no handler works for a move that has given up. It
   needs no isolation: object queues and the journal give it.
2. `CacheOK` and `SavepointFresh`: between handlers the cache is `unset`, right,
   or owed or reported; while a handler runs, when only the suspend of a pause
   is left and the job runs, the last mutation was the savepoint. Nobody else
   mutates a family while its handler runs, so these hold however moves overlap.
3. `SuspensionsExplained`: a suspended job has a move that answers for it. That
   move has paused it and not yet resumed it (`HoldsSuspended`), goes or went back
   to a snapshot that has it suspended (`GoesBackToSuspended`), or owes or failed a
   restore of the family (`HasOwner`). Whoever has a job suspended answers for it
   before the call takes effect (`SuspendingExplained`). The delicate case is a
   resume that is left out: the cache says RUNNING and the job is suspended, so
   layer 2 names another move that answers. It needs no isolation, and when all
   moves are over it is `SuspensionsWereThereBefore`.
4. `IsolatedInv`: no two active moves share a family (`MovesAreApart`), so the
   snapshot is still current where the move has not been (`SnapshotCurrent`), a
   difference from it is on the stack or among the errors (`DeviationsPending`),
   and the plan's position tells what the command of each step has left behind
   (`ForwardProgress`). A suspended job belongs to a move under way, unless a
   move has asked for an operator (`SuspensionsOwned`). It is inductive under
   `Isolated` and false without: `restate_lost_update` is its counterexample. The
   stale cache of an earlier move is a case of `ForwardProgress`: a pause that
   believes it leaves the job running, so the layer says of a paused family
   only that its cache reads SUSPENDED or nothing, which is what keeps the
   resume from being skipped.

`MovesImplementContract` adds `OneAtATime`: the moves that have been started are
the first of `Order`, and all but the last have ended. That makes `SequentialSpec`
a special case of `IsolatedSpec` (`SequentialIsSpec`), so the theorems about
isolated moves, which the run `restate` checks for moves in a sequence, are proved
for any that do not share a family.

**Temporal** (`TemporalInvariants`, `TemporalProofs`, and for the last layer
`TemporalIsolation`, `TemporalIsolationProofs`). On Restate a queued call is
the one its caller waits for; here it need not be: a proxy that has run out of
tries leaves its update in line or on the wire, and the workflow goes on. What
survives is the update's *number*:

1. `Control` says where each workflow is in its plan, as on Restate, and that
   every update on the wire, in line or remembered is `Genuine`: its number has
   been given out (`Sent`), and it is the update that this number stands for
   (`Numbered`): the forward step of that place in the plan, or the restore of
   that place on the stack. It is inductive because a number that has been given
   out stays given out and means the same for ever (`SentKept`), which each step
   proves along with `Control`: `done` stands still during the unwind, and the
   snapshot after validation. So commands that were given up, sent again or
   delivered after their move has ended are covered without a word about time.
2. `SavepointFresh` is the fact of the other engines; new is that a run may end
   between the savepoint and the suspend, which takes the suspend with it unless
   it is being executed at that moment.
3. `RunsRemembered`: while no run has ended, each command that has been carried
   out is remembered by, or in the hands of, one actor. A number leads to one
   family (`OneActorPerNumber`), an actor never has in line what it remembers, and
   no number twice in line, so what takes the lock has never run.
4. `IsolatedInv` is for moves that follow one another (`IsolatedSpec`): a move is
   started when no other is under way or waits for an operator, and no request
   outlives its call. The difficulty is the *echo*. A run of an actor forgets
   what earlier runs have done, so a proxy that tries again after a timeout may
   have a command carried out long after the first execution answered, with the
   workflow already further on. The layer calls an update `Settled` when its
   workflow knows, or is about to hear, that it went well, and says:
   * a settled update that is in line finds its own effect (`EchoesHold`), hence
     changes nothing: it asks for a state that is the case;
   * that is inductive because a line is in the order of the numbers
     (`InOrder`), and nothing is in line when a later update of its move to the
     same family is settled (`NoneOvertaken`): what could undo the effect comes
     after the echo, never before it;
   * what is in line and *not* settled is the step its move waits for, the
     forward step it has given up, or a restore that has failed; its move is open,
     so it may change the family, and the restores that are owed say how
     (`DeviationsOwned`, which is `DeviationsPending` with `Settled` for "has left
     the stack without an error");
   * an actor's cache is right or its family is `Owed` a restore by an open move
     (`CacheOK`); a patch leaves it behind only if it was left behind before;
   * the snapshot is current until the plan begins, and from then on `Advanced`
     gives state and routing by position, as on Restate.

   `MovesAreApart` counts a move that waits for an operator as open: the caches and
   updates it leaves behind are what its report answers for. The layer is
   inductive relative to `Control`, under `NoneLate` and `Isolated`, and false
   without them: `late_command` is an update that arrives after the restore that
   should have come behind it, against `NoneOvertaken`.

**Registry** (`AppRegistryProofs`). `RInv` adds two facts to the properties.
`TablesAgree`: the row of an object in one table is the row, in the other, of
the name Temporal knows the object by. `WorkersAgree`: what the workers host are
objects with a row, each at its row's queue. They are inductive because a
decorator adds at most one row to each table, under a name that had none
(`DecorateAddsOneRow`), and because an object that has a name keeps it
(`NamesStay`).

**Only model-checked:** liveness (its proofs need `ENABLED`, which the prover
does not support), and the verdicts of single faults and of the scenarios (a table
of cases over concrete rules). Every other safety property of a passing run is
stated by a theorem.

## 5. Observations without a run

* In the bare-Python and Restate sagas an unknown family ends the move with an
  untyped error, outside the code that produces verdicts: the models' `RAISED`.
* Of two overlapping moves on Restate, one may read its snapshot while the other
  has the job suspended. If it is then rolled back, it restores SUSPENDED and
  reports COMPENSATED. `SuspensionsWereThereBefore` says that overlapping moves
  leave a job suspended, with no operator asked, in no other way.
* Temporal's update ids are remembered per run, so a retry that arrives after
  a rollover or a termination carries the command out again, whatever
  `actor_proxy.py:14-21` says; that is why `NoCommandRunsTwice` speaks of one
  run. The commands are written so that this does no harm to the outcome.
* A rule may strike more often than its `times`, against `cluster.py:68-71`: all
  counters are one file that is written back as a whole, so an operation on
  another family that has read it earlier takes a count back, and one that reads
  it while it is truncated takes all of them as zero. It needs rules of two
  families (no scenario has them) or a crash, which is what
  `RulesOfOneFamilyAreExact` says.
* Sequence numbers of the audit log may repeat: two operations on different
  families count the same lines. Those of one family do not.
* A definition registered after `create_workers` has a queue and a route, and no
  worker; nothing reports it. `RoutedWorkIsHosted` speaks of what was registered
  by then.
* The exit status of a failure scenario is 0 for any error (`cli.py:153-164`),
  one without a verdict included.

## 6. What is not modelled

* **Two attempts on one family at once** in the files. Temporal's activities are
  `async def` bodies without an `await`, so one that has begun runs to its end
  before its worker does anything else; it would take a second worker process
  that takes over from one that has stalled. Nor a reader of a family's file
  other than its actor's operation; the engines retry such a read.
* **Seeding again under a move**: the CLI seeds the cluster before it clears
  the actors of an earlier run.
* **`temporal_app.py`**: the merging of worker options, the refusal of blank
  queue names, and generics. None changes a registration.
* **Wording**: messages, HTTP status codes and tracebacks of a verdict, which
  nothing reads back.
* **CLIs, workers, `run_poc_scenarios.py`**: printing, wiring and a report over
  finished runs, apart from starting moves, clearing caches and terminating
  actors, which are actions, and the exit status, which is in Scenarios.

## 7. Plan

Modules were written in the order of section 2: the baseline with its proofs
first, because its plan is every engine's plan. What is left:

1. For Temporal the refinement of MoveContract, from `IsolatedInv`, for moves made
   one after the other.

New models replace or share runs with those of section 3 where the question is
the same, so that the set stays small.
