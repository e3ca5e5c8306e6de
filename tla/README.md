# TLA+ models of AgenticDef

AgenticDef investigates one kind of security event, an RBAC change, with a
language model that is not trusted: the model proposes reads and a verdict, and
a deterministic runtime decides what is permitted, counts what is spent, stores
what was read, and refuses a verdict that the stored evidence does not bear out.
This directory models that runtime, checks it with TLC and proves part of it
with TLAPS. Paths below are relative to the repository.

## 1. Inventory

| Component | State | Operations | Interacts with |
|---|---|---|---|
| Runtime rules, `src/agenticdef/domain/runtime.py`, `capabilities.py` | none | `transition`, `Policy.admits_event`, `Policy.authorize`, `Budget.check`/`reserve` | called by the investigator |
| Evidence ledger, `domain/evidence.py` | items and bodies by SHA-256 identity | `Ledger.add`, `required_requests`, `validate_grounding` | called by the investigator |
| Investigator, `application/investigate.py` | local state, budget, ledger, missing list, and the program counter across `await`s | `run` | all ports: repository, model, tools, clock |
| JSON repository, `adapters/repository.py` | one directory per key, one `record.json`, a temporary file per write | claim by `mkdir`, audit, evidence, result, terminal mark, look-up; each write is filled, synchronised, renamed, and its directory synchronised | shared by every process on the host |
| Replay adapters, `adapters/replay_model.py`, `fixture_tools.py` | call counters | next required read, verdict, exact look-up | called through the ports |
| Anthropic adapter, clock | none | one HTTP request; time | called through the ports |
| Command line, `cli.py`, `replay.py` | none | one run, exit code, scenario checks | investigator |
| Metered transport, `evals/metering.py` | spend, calls, stop latch | one exchange | the Anthropic adapter, cancelled by the investigator's deadline |
| Live runs, `evals/live.py` | none; reads HEAD, working tree, loaded modules | opt-in checks, `run_live` | git, harness, metered transport |
| Harness and runner, `evals/harness.py`, `runner.py` | a private copy of the set, observations, output directories | `evaluate`, `execute_case`, `grade_case`, `build_report` | investigator, oracle, generator, metrics, the caller's factories |
| Oracle, `evals/oracle.py` | none | `evaluate`, `judge`, `newly_granted`, `covers`, `atoms_of` | generator, harness, the reference baseline |
| Generator, `evals/generate.py`, `cases.py` | none | `generate`: families, variants, labels, relations, splits | oracle; called again by the harness to compare |
| Metrics, `evals/metrics.py` | none | `clustered_rate`, `pass_hat_k`, `summarize` | harness |
| Baselines, `evals/baselines.py` | none | five reads, then a verdict | investigator, oracle |
| Release guard, `tools/release.py` | none; a remote it shares | look-ups, then `gh release create` | GitHub |

What is hard, and where:

* **Concurrency.** Several processes may submit one event; they share nothing but
  the claim directory. Between `mkdir` and the first write there is a claim
  without a record.
* **Crashes and partial writes.** Each audit entry, evidence item and result is a
  write of its own. A process may die between any two; a write may fail before
  or *after* it took effect.
* **Deadlines.** The deadline may pass before a call, during it, or after the
  answer and before it is used.
* **Budgets.** Three counters, any of which stops every later call; one of them
  is counted after the call it limits.
* **An adversarial peer.** The model may send any action or draft its schema
  allows.
* **Power losses.** What was not synchronised may be gone or cut short, and the
  entry of a claim directory in its parent never is.
* **Labels by computation.** Whether an evaluation means anything rests on the
  oracle: a coverage rule too wide calls an escalation benign, and every family,
  variant, split and rate is derived from its labels.
* **Data that changes hands.** The caller's set may be stale, edited or changed by
  a factory while the runs are made.

What makes each component correct: one investigation per key and no replacement
for a crashed one (repository, investigator); write-ahead accounting, spending
within the policy, reads within the policy, verdicts grounded in the stored
evidence, no verdict after a failure (investigator, ledger, rules); an answer
for every submission (investigator); charging each sent call exactly once and
nothing after a stop (metered transport); completed only if nothing stopped
(live run); no mutation of a remote that was not confirmed absent (release
guard); whole records or none, and no write that returned taken back (repository
files); no dangerous new permission labelled benign without its approval (oracle);
variants that keep their relation to their base, and every category in both splits
(generator); runs of one model over the set that was checked, each counted once
(harness, metrics). Every hazard is listed in `PROJECT.json` at its line, with the
properties that cover it, or why none does.

## 2. Modules

| Module | Models |
|---|---|
| `Runtime` | the transition table, the failure classification, the catalog, authorization, the budget check |
| `Evidence` | required reads and grounding; an item is the pair of its request and its content |
| `Investigator` | `Investigator.run` and the repository under one key: the state machine |
| `InvestigatorProperties` | type invariant, safety, action and liveness properties |
| `InvestigationRegister` | what a key promises its callers: claimed, resolved and closed once |
| `InvestigatorRefinement` | the mapping under which `Investigator` implements the register |
| `Cli` | the exit code as a function of what `run` returned or raised |
| `ReplayModel` | `Investigator` composed with the replay model and the fixture tools |
| `PrepaidAccount` | what the meter promises: reserve what fits, charge once, close on an overrun |
| `Metering` | `MeteredTransport`: the checks, the charges, the latch, one exchange under the deadline |
| `MeteringProperties` | its properties, and the mapping under which it implements the account |
| `LiveRun` | `run_live` and the loop of `evaluate` over `Metering` |
| `LivePin` | the checks of `evals.live.main` against a checkout that somebody changes |
| `ReleaseGuard` | the release helper, run after run, against GitHub and everybody else |
| `DurableStore` | what one key of the store promises: a claim, whole records one after another, and what a power loss may take |
| `RecordFile` | `JsonRepository` at the level of its files, its properties, and the mapping under which it implements the store |
| `Oracle` | `evals/oracle.py`: atoms, coverage, categories, required reads, approval, label |
| `OracleReference` | what Kubernetes allows, rule by rule and request by request: the definition the oracle is compared with |
| `Generator` | `generate`: the catalogue, the variants, the labels and the splits |
| `Metrics` | the counts, the design effect, pass^k |
| `Evaluation` | `evaluate` over a generated set: checks, runs, grading, summaries |
| `EvaluationProperties` | the properties of the generated set, of the runs and of the report |
| `MCInvestigator`, `MCReplay`, `MCMetering`, `MCLiveRun`, `MCLivePin`, `MCReleaseGuard`, `MCEvaluation` | the instances TLC checks |
| `InvestigatorProofs`, `VerdictProofs` | the proofs about `Investigator`, `Cli` and the register, each on top of the one before |
| `MeteringProofs` | those about `Metering`, the prepaid account and `LiveRun` |
| `LivePinProofs`, `ReleaseGuardProofs`, `RecordFileProofs` | those about the module of that name, and the durable store |
| `EvaluationProofs` | those about the oracle, the splits, the metrics and `Evaluation` |
| `CatalogueProofs` | on top of them, those about every case that is generated: the relations, the labels, the replay model |

### State and actions of `Investigator`

`dir` is the claim directory and `record` the stored `record.json`; `NoRecord`
is the placeholder a reader is given while there is none. For each submission
`s`, `pc[s]` is its place in `run`, `config[s]` the event, policy, provider and
adapter it brought, `work[s]` the local variables (state, usage, ledger, current
operation, request, answer, reason, missing, result), `expired[s]` whether the
remaining time is zero, and `outcome[s]` what `run` returned or raised. `claims`
and `invoked` are history: whose `mkdir` succeeded, and how often an adapter was
really entered.

A step is the code between two effects that another process, an adapter or a
crash can observe. So one call of `call(...)` is `Reserve` (count, then the
`budget_reserved` write), `StartCall` (deadline check, `call_started` write),
`Invoke` (`wait_for` enters the adapter), an answer or an error or `Timeout`, and
`CompleteCall` (deadline check, `call_completed` write). Each names the write it
performs, and every write is `Persist`: refused unless the record is running,
else it succeeds, or fails leaving the old record, or fails after `os.replace`
leaving the new one. A `PersistenceError` leaves `run` at once, as `except
PersistenceError: raise` does; every other `InvestigationError` goes through
`RecordFailure`, `Save` and `MarkTerminal`.

`_running` reads the record and `_write` replaces it; the model takes both in one
step. That is exact as long as one process writes, which is what
`OneInvestigator` says, and as long as a write is atomic for whoever reads, which
is what `RecordFile` shows.

An answer that is JSON but that UTF-8 cannot encode (a lone surrogate) is
`Unencodable`. `validate` and `Ledger.add` encode what they measure, and what they
then raise is no `InvestigationError`: `EncodingFails` leaves `run` and the record as
it is. An event may hold such a value too (`RefuseEvent`).

### State and actions of `RecordFile`

`claim` is the directory of one key, `rooted` whether its entry is known to be on
the disk, `file` what `record.json` holds, `durable` the set of what it may hold
after a power loss, and `temp[p]` the temporary file of `p`'s write. An inode is a
record with two marks: whether all of it is written, and whether that is
synchronised. `OpenTemp`, `Fill`, `SyncFile`, `Replace` and `SyncDirectory` are
the system calls of `_write` in their order; `Fail` is an exception in any of them
with the `finally` that follows, `FailToRemove` an exception in the `finally`
itself, `Kill` the end of the process between two of them. A reader is two steps,
`Exists` and `Read`, because `get_by_idempotency_key` is.

`PowerLoss` keeps one member of `durable`, and of an inode that was not
synchronised possibly a part; the claim itself survives or, unless an earlier loss
showed it on the disk, does not. It is the strictest disk POSIX allows: a real one
may keep more. A record is only its number here, the last being terminal; what it
says is `Investigator`'s business.

### State and actions of `Generator` and `Evaluation`

`Produce` is one turn of `generate`'s inner loop: build a variant of a family,
have the oracle judge it, compare with the base, keep it if its family is among
those that will be `wanted`. `AssignSplits` is everything after the loops. Where
the code orders by a hash, the model takes any of `Orders`. `raised` is the
GeneratorError.

`Begin` is `evaluate` up to its loops: a private copy (`snapshot`) of the set that
was `given`, then the three checks, that of an output directory which exists included.
Providers stand in the order of their names, in which the code runs them. `RunCase` is one call of `execute_case` with
its factory, which may change the caller's set and return any model it has for the trial;
its result is drawn from what the
model it builds can end with (`Results`): for the baselines and the replay model
what their code computes, for a scripted transport whatever the instance lets it.
`Summarize` closes a provider. That the Investigator ends with a terminal record,
or raises (`Escape`), is what the runs of `Investigator` show. Of the eight checks of
`assert_expected` the model computes four: status, risk, termination reason and
required methods. The other four (terminal state, forbidden tools, grounding,
forbidden claims) read what such a result does not hold, and the "error" outcome of a
record that cannot be graded does not occur.

### State and actions of `Metering`

`stop` is the latch and `calls`, `cost`, `tokens`, `worst_case_charged`,
`http_statuses` the ledger, as in `MeteredTransport`. `at` is where the request
in hand is (`opening`, `sending`, `closing`) and `exchange` what is known of it:
its size, its reply, whether the inner transport failed, and whether the deadline
has cancelled it, `early` (before the close) or `late` (in the close). `returned`
is how the last request ended for the adapter. `overran` is history: whether a
close overran its bound. `Absorbs` says whether a close may swallow a cancellation
and return: then neither the deadline nor the bound is heard of again
(`CloseReturns`, `BoundMayPass`), and the request goes on with its reply.

The code between two awaits is one step. `Refuse` and `Accept` are
`handle_async_request` up to its first await; `Connected`, `Replied`,
`InnerRaises`, `DeadlineWhileSending` the exchange up to the close;
`CloseReturns`, `CloseRaises`, `CancelledWhileClosing` and `CloseExpires` the
ways the close ends, each with everything the code does from there to the end of
the request (`CheckReply` or `Abandon`, with the charge of the `finally`).

### State and actions of `LiveRun` and `LivePin`

`LiveRun` adds to the meter where `run_live` is (`driver`), how many cases are
graded, the calls of the case in hand, and the report. A case is any number of
requests that ends at the latest with the first that fails, because the
investigator makes no call after a failed one (`Investigator`, where that is
`FailureNeverBenign` and the shape of `RecordFailure`). At the end `Conclude` writes
the report, or its write fails and the exception leaves `run_live`.

`LivePin` has `head` and `disk` (a content for every file), `written` (the files
whose mtime is at or after `IMPORTED_NS`), what is `loaded` of each module, and
the program's place. `python -m evals.live` reads the package `evals` and then
`evals.live` before that time is taken (`LoadPackage`, `LoadMain`), every other module
after it. Anybody may move `HEAD`, check a revision out, edit a file, or put an older
one in its place, which keeps its mtime (`Replace`), between any two steps of the
program. `unseen` is history: the modules whose file was changed behind its mtime
between their load and their check, by a write before the stamp or by an older file.
What is loaded is the source, never a stale `.pyc`, and `evals` is a package with an
`__init__.py`, as it is shipped.

### State and actions of `ReleaseGuard`

`tag` and `release` are the remote's, for one version; `pc` and `job` each run's
place, tested commit and built files; `inflight` and `created` the requests that
GitHub has not handled, and has fulfilled. Each look-up is a step, because the
remote may change between any two; `Create` sends the request, `GitHubCreates` or
`GitHubRefuses` handles it, also after `Kill` has ended the job that sent it. The
second call for an annotated tag reads an immutable object, so what it will say
is fixed by the first. The workflow's concurrency group is the guard of `Start`.

### Abstractions

* SHA-256 is injective: an identity is the content it hashes.
* The audit log is a count per kind of entry, because the properties ask how
  many reservations, starts, completions, failures and evidence entries there
  are and not for their wording.
* The clock is one monotone flag per submission: the code asks only whether the
  remaining time is zero.
* An argument object is the set of its names, whether its values are sound, and
  the identifier they form. Schema violations are the answer `Garbage`, envelope
  violations `BadBody`, what cannot be encoded `Unencodable`; size limits are the
  faults `context` and `oversize`.
* `generate` reorders each list of rules by a hash of its own; the model takes one
  order for all the lists of a case.
* The identifiers of a case and its notes are strings that only tell apart what the
  code tells apart; a resource is the pair of its name and its subresource.
* The case digests are the cases: `StoredEntriesOk` compares the oracle's output and
  `Reproducible` everything else.
* Rates are pairs of integers. Rounding and the Wilson intervals are left out. The
  spread of the hits over the families is counted over pairs of runs, which expands
  the square the code takes per family; pass^k, a mean of `C(c, k) / C(n, k)` with one
  `n` for all cases, is the share of the draws of `k` trials of one case that are all
  correct.
* A draft has findings exactly when it cites something, because the draft schema
  gives each finding at least one identity.

## 3. Runs

All instances fit in two to three minutes with two workers. Deadlock checking is
off where the system ends: every submission does (`Settles`), so does a live run
(`RunEnds`), so do the writers of `record_file`, the checks of `pin` and an
evaluation. It is on in `release` and in `close_overrun`, whose surroundings go on
for ever.

| Run | Instance | States | Shows |
|---|---|---|---|
| `any_model` | one submission, six configurations, nine possible requests, every fault, two contents for a read in the four short configurations | 2.4 M | `TypeOK`, `NoCallAfterExhaustion`, `UsageIsAudited`, `OnlyPermittedReads`, `VerdictIsGrounded`, `FailureNeverBenign` |
| `shared_key` | two processes, two events under one key, two fixtures, crashes and failing writes | 2.9 M | `WriteAhead`, `ExitsNeverContradict`, `ImplementsRegister` |
| `callers` | two processes with different providers, fair scheduling, silent adapters, crashes, failing writes, unreadable records | 395 k | `OneInvestigator`, `AnswersAgree`, `AnswersAreDurable`, `Settles`, `ReachesVerdict` |
| `record_file` | three submissions, a reader, three records, two power losses | 42 k | `NeverTorn`, `CrashedClaimStaysBlocked`, `ReadsNeverGoBack`, `ImplementsStore` |
| `live` | three cases of at most two calls, two sizes of requests, a cap of four calls and one of cost, a reply for each check, closes that absorb a cancellation | 57 k | `SpendWithinCap`, `LedgerReconciles`, `FailureNeverHidden`, `ImplementsAccount`, `OutcomeIsGenuine`, `NoCaseAfterStop`, `RunEnds` |
| `pin` | three revisions, three modules and the protocol, of which one module and the protocol may be replaced by older files | 1.2 M | `RuntimeIsPinned`, `ChecksDoNotAge` |
| `release` | two runs, two commits, a build for each way the files can be wrong | 121 k | `CreatedWhereTested`, `PublishedIsVerified`, `UncertaintyFailsClosed`, `SuccessMeansReleased` |
| `evaluation` | the whole catalogue (72 families, 552 cases) under two orders; then two sets of two and three families, fourteen kinds of request, five edits of the set | 82 k | `CatalogueHolds`, `NoDangerousBenign`, `ReplayErrsOnlyAsDocumented`, `SplitsCoverCategories`, `RunsMatchSet`, `OracleIsCeiling`, `ViolationMeansAWrongRun`, `ReportAddsUp` |
| `collision_window` | two processes, no fault at all | violated | finding 1 |
| `exit_before_terminal` | two runs of the command, failing writes | violated | finding 2 |
| `close_overrun` | the meter alone, with any number of requests and a close that lets its cancellation through | violated | finding 3 |
| `pin_main` | the instance of `pin` without replacements | violated | finding 4 |

Some properties are conjunctions of named parts: `OutcomeIsGenuine` of
`CompletedMeansMeasured`, `StopIsReported` and `RefusalIsGenuine`; `ReportAddsUp`
of `EveryRunCounted`, `EffectiveSize`, `PassHatBelowAccuracy` and
`ReportedRanOneModel`. The type invariants of the meter, of the opt-in, of the
release guard and of the files, and `BoundedReplyIsCovered`, `StopIsFinal`,
`AcknowledgedIsDurable` and `LeftoversAreExplained`, are not checked by a run any
more: they are proved for every instance.

Bounds, and why they are enough:

* *Limits.* `Trusted` has the smallest limits under which a verdict can be
  reached (seven model calls, six reads, six items: the five required reads leave
  no counter exhausted before the draft), so both a verdict and each kind of
  exhaustion occur; `SameVersion` needs one read less, and so has a call to
  spare and may repeat a read; `NoApproval`, `NoModelCalls` and `TwoCalls`
  exhaust each counter before the others.
* *Requests.* The five required reads, and one request for each way to be
  refused: an unknown tool, a wrong set of arguments, an unsound value, a value
  out of scope. A permitted request for a tool the policy does not allow is the
  approval read under `NoApproval`.
* *Citations.* Of the subsets a draft can cite, grounding distinguishes whether
  they are empty, collected and fabricated: `FewCitations` keeps none, all, all
  but one and all with a fabricated one.
* *Processes.* One claims and one does not; a third that does not would take the
  steps of the second, from the same record. Which of two submissions claims, and
  the configuration each brings, is free.
* *Replay adapters* in the runs with several processes: the model is
  deterministic there, so the states are those of the interleavings and faults.
* *Meter and live run.* Of the prices, reading the cache is free and writing it the
  dearest input. The cost cap fits three worst cases and not a fourth, and the cap
  of four calls can be reached before it; either may strike in the first, an inner
  and the last case, and a case may end with no call at all. There is one reply
  within its bounds for each way the input may split, one for each bound it may
  break and one for each check it may fail.
* *Files.* Three writes: the first, one that reads and adds, and the terminal one,
  after which none follows. Two power losses, because the first settles whether the
  claim is on the disk; three submissions, because each loss of the claim lets one
  more investigate.
* *Evaluation.* Every family and variant is generated, so what is said of the
  catalogue is exhaustive up to the orders: the identity, which exercises the
  rotation that `_permute` falls back to, and its reverse. Ten percent rounds the
  share of a small stratum to none, thirty does not. The sets that are evaluated
  have a suspicious, a harmless, an approved, a stale and an incomplete family; two
  trials are enough for a trial to differ from the other.
* *Checkout.* Two revisions that differ in every module tell an old file from a
  new one; the third lacks a module and holds another protocol. There is one module
  of each kind: the package, the main module, and one imported after the stamp, which
  with the protocol is what may be replaced. A second imported one would be checked
  like the first.
* *Release.* Two runs, because a killed run's request can meet one later run; the
  tag may stand at either commit, at none, plain or annotated, and a file may be
  absent, of another version, unnamed, or differ from its digest.
* Symmetry over the submissions is used only in runs without liveness.

Fairness (`Fairness`): the event loop runs a coroutine that is ready, `WF(Run)`,
and monotonic time passes, `WF(Expire)`. Of an adapter one thing is assumed, which
is `WF` of `Timeout`: once the deadline has cancelled it, it finishes.
`asyncio.wait_for` returns no sooner, and `docs/architecture.md:26` says that adapters
are trusted to cooperate with cancellation. Nothing is assumed of when or what an
adapter answers, of the model, or of a crash: `Settles` holds even if no adapter ever
answers of its own accord. The meter's fairness (`ExchangeFairness`) is that an
exchange that can open does, that the deadline passes while it waits for a reply, and
that the bound of its close passes, in each case with the inner transport ending the
await that was cancelled; nothing is assumed of the provider. `LiveFairness` asks the same of a case's
exchanges and adds that the loop over the cases
goes on and that every case ends, which is `Settles`.

Every property is known to be falsifiable: for each there is a mutant of a
modelled definition (a dropped guard, an off-by-one, a swapped order, a retry)
under which TLC finds it violated; they stand before the definition they mutate
and are listed in `PROJECT.json`.

### Findings

1. *Collision window.* A changed submission that looks up the key between the
   `mkdir` and the first write is handed the `RUNNING` placeholder, which has no
   metadata to compare (`repository.py:54-56`, `investigate.py:26`), although
   `docs/adr-0001.md:16` says it is refused. Its caller learns nothing false
   about a verdict: the placeholder has none.
2. *Success before the terminal mark.* If `save_result` took effect and
   `mark_terminal` failed, a second run of the command is given the record with
   its result and exits 0 (`cli.py:62-63` looks only at `result`), although
   `docs/architecture.md:20` ties success to persistence. `ExitsNeverContradict`
   shows that no other run reports the opposite.
3. *An overrun nobody hears of.* If the deadline strikes while the inner
   transport is closing and the close goes on past its bound of 1 s,
   `asyncio.timeout` leaves the cancellation as it is, because the deadline's is
   outstanding too. `except Exception` (`metering.py:142`) does not catch it and
   nothing is latched, where `evals/SPEC.md:691` says that such a close stops the
   run. The call is charged and the case fails closed all the same
   (`LedgerReconciles`, `RunEnds`).
4. *The module that checks is not checked.* The interpreter reads
   `evals/live.py` before `IMPORTED_NS` is taken (`live.py:27`), with the
   standard library's imports in between. A checkout in that window is not seen:
   the run records the new revision and is driven by the old `evals.live`,
   where `evals/SPEC.md:665-669` includes that module.

Passing properties state four more as their exceptions. Each is a behaviour of the
model: TLC reaches it when the exception is taken out.

* *An answer that cannot be encoded.* A lone surrogate in an action, a draft or an
  evidence item passes `json.dumps` and then makes `canonical(value).encode()` raise
  UnicodeEncodeError (`domain/contracts.py:23`, `domain/evidence.py:17`). It is no
  `InvestigationError`, so it leaves `run` and the record stays `INVESTIGATING` for
  good, where `docs/architecture.md:38` has invalid contracts end as
  `investigation_failed` and names only persistence errors that escape. `AnthropicModel`
  and `FixtureTools` meet it inside the call, where it is a failure like any other, but
  for the `observed_at` of a fixture, which is only measured by the ledger.
  `ReachesVerdict` excepts a claimer that was told so; no verdict follows from it.
* *The exit code of an uncaught exception.* `main` catches InvestigationError, KeyError
  and TypeError (`cli.py:67`). An `event.json` with a lone surrogate ends the command
  with a traceback and exit code 1, which `README.md:102` gives to a confirmed
  suspicion. `ExitsNeverContradict` shows that such a code never stands against an
  exit 0 of a run that reached the same key.
* *The package is read before the stamp too.* `python -m evals.live` imports
  `evals/__init__.py` before `evals.live`, where the comment at `live.py:26` says that it
  imports nothing earlier. As shipped the package is one docstring. `RuntimeIsPinned`
  excepts it only if somebody changes it between its load and the stamp.
* *A file with an older mtime.* A module's file that is replaced after its import by
  one written before `IMPORTED_NS` (`mv`, `cp -p`) passes `live.py:232` although other
  code is loaded, where the docstring at `live.py:214-216` infers from the mtime that
  it is the same. `git checkout` and editors leave the present time: against those
  `RuntimeIsPinned` has no exception for a module that is imported after the stamp.

A weakness that is not a contradiction: `asyncio.TimeoutError` is the builtin
`TimeoutError`, so one that an adapter raises by itself is recorded as an
exhausted budget (`investigate.py:74`). `any_model` and `callers` include it;
no verdict follows from it either. A close that absorbs the cancellation by its bound
and returns raises nothing, so its overrun is not latched either (`Absorbs`); its
reply is then checked and charged like any other. And nothing synchronises the parent of a claim
directory (`repository.py:61`), so after a power loss a key may be investigated
again: `CrashedClaimStaysBlocked` counts exactly those losses as the exception. On
a system without `os.O_DIRECTORY` no directory is synchronised at all
(`repository.py:40`), and `AcknowledgedIsDurable` does not hold; the model is of one
that has it.

## 4. Proofs

`tlapm` proves what follows for every value of the constants that the named
assumptions allow; a run that extends the module evaluates them on its instance.

### The investigator

For every set of submissions, configurations, requests, contents and faults, from
`FaultsAssumption` (the faults are among those modelled), `ConfigsAssumption` (a
policy's limits are natural numbers, which its schema requires, and `None` is not
a configuration) and, for the verdicts, `InvestigatorProperties!NoneAssumption`
(`None` is neither the metadata nor the result of a record). The invariant is `Inv`,
of four parts, each inductive given those before it:

* `TypeInv`, for `TypeCorrect`, `Spec => []TypeOK`. `TypeOK` is not inductive: that a
  running submission has a configuration, that a read has its request, and that a
  step which uses an answer or a result finds one depend on where `run` is.
* `ClaimInv`, for `OneInvestigatorHolds`, adds that a claimed key has its directory;
  `mkdir` is the only step that adds a claimer, and it does so only when there is no
  directory.
* `AheadInv`, for `WriteAheadHolds`, says by how much the stored entries are ahead of
  the invocations at each place in a call: one reservation before `StartCall`, one
  start before `Invoke`, one permission from the authorization of a read until it is
  made. Since one submission writes (`ClaimInv`), a crash or a failed write can only
  leave the record further ahead.
* `RecordInv`, for all the rest. It says of the record alone what must be true of it
  (`RecordOK`: evidence within the policy, a result that the rest of the record bears
  out, a terminal state only with its result), of the claimer how its local counters
  and ledger agree with the record at each place (`LinkOf`), and of every submission
  that was answered that it was told what the record still says (`ToldOf`). A failed
  write leaves the old record or the new one, so a step is shown good for both.

From `Inv` follow `UsageIsAuditedHolds`, `OnlyPermittedReadsHolds`,
`VerdictIsGroundedHolds`, `FailureNeverBenignHolds`, `AnswersAgreeHolds`,
`AnswersAreDurableHolds`, `ExitsNeverContradictHolds` (an exit code is a function of
what was told), and the action property `NoCallAfterExhaustionHolds`: the reservation
checked all three counters, and none is counted between it and the invocation.

`RunImplementsRegister` is the refinement. Under the mapping of
`InvestigatorRefinement` a step of `run`, of an adapter, of the clock or of a crash is
a claim, the write of the result, the terminal mark, an answer or a refusal of the
register, or a stutter; `Inv` shows that a result is only written once and that an
answer is what the register holds.

### The meter and the live run

For the meter, from `PriceAssumption`, `ProtocolAssumption`, `TrafficAssumption`,
`AbsorbsAssumption` and `NoneAssumption` (prices, caps and sizes are natural numbers,
requests exist, replies have the shape of `Reply`, and a close may absorb a
cancellation or not), for every price table, cap, set of requests
and set of replies:

* `MeterTypeCorrect` and `BoundedReplies`: the second is arithmetic, that a reply
  within its token bounds costs at most the worst case at the highest input price.
* `SpendCapHolds`, `Spec => []SpendWithinCap`. Its invariant keeps the worst case
  of the call in hand reserved from `Accept` to the charge; only a reply that
  broke a bound can be charged more, and it latches in the same step.
* `LedgerHolds`, `Spec => []LedgerReconciles`. Each of its two parts is kept by
  splitting the end of a request into a worst case and a metered usage; the cost
  of the tokens is additive in them, and the worst cases lie between those of two
  requests.
* `FailuresStop`, `StopHolds` (an action property), and
  `MeterImplementsAccount`: each step of the meter reserves, charges, shuts the
  account or leaves it alone.

For the live run, for any number of cases and of calls in a case, from
`CasesAssumption` and `ReportAssumption` (`None` is neither a report nor a condition)
as well: a step of the live run is a step of the meter or leaves it alone, so
`LiveRunIsMetered` carries over that the spend keeps to the cap, that the ledger
reconciles, and that failures are never hidden. `OutcomeHolds` and
`NoCaseAfterStopHolds` add `DriverInv`: a request is in hand only within a case, and
nothing is reported before the end. That a completed run was measured within the cap
is `LedgerReconciles` and `SpendWithinCap` at the moment of `WriteReport`
(`ReportIsGenuine`).

### The opt-in, the release guard and the files

For the opt-in, from `ModulesAssumption`, `ReplaceableAssumption`, `BlobAssumption`
and `NoneAssumption`, for any modules, revisions and changes to the checkout:
`PinTypeCorrect`, `ChecksDoNotAgeHolds` and `RuntimeIsPinnedHolds`. The strengthening
is that a loaded module that was neither written since the stamp, nor changed unseen,
nor checked yet is what its file holds; at its check the file is the blob. It covers
the package and the main module, unless somebody changed them between their load and
the stamp.

For the release guard, from `NoneAssumption`, for any runs, commits and builds:
`GuardTypeCorrect`, `CreatedWhereTestedHolds`, `UncertaintyHolds`,
`SuccessHolds`, `PublishedIsVerifiedHolds`. The strengthening says of every run past its look-up of the tag,
its request on the way included, that the tag is still absent or at its commit,
or is known to have changed; for the last, `BuiltInv` says that a run past its assets,
and whatever it has asked for, holds files that were verified.

For the files of the repository, from `RecordFileAssumption` (there is a terminal
record, and the values that stand for nothing are no records), for any processes,
readers, length of a record and number of power losses:

* `NeverTornHolds`, `AcknowledgedHolds`, `LeftoversHold`, `FileTypeCorrect`. The
  invariant `FileInv` says at each place of a write what its temporary file is, that
  whatever a power loss can leave of `record.json` is whole and synchronised, and
  that all of it belongs to one owner and lies between the last record that was
  acknowledged and the one that stands. That nothing is torn needs the
  synchronisation before the rename; that nothing acknowledged is lost, the one
  after it.
* `ClaimStaysHolds` and `ReadsNeverGoBackHolds`, with the history of the claim and
  what each reader was given added to the invariant.
* `FilesImplementStore`: every system call is a claim, the next record, its
  acknowledgement, a power loss or a stutter of `DurableStore`. The rename is the
  step that puts a record, the return the one that acknowledges it.

### The oracle, the generator and the evaluation

For the oracle, for all rules, requests and versions, from no assumption:

* `CoversIsAPreorder`: coverage is reflexive and transitive.
* `AtomsGrantWhatRulesAllow`: the atoms of a rule list grant a group, resource and
  verb exactly if one of its rules allows it.
* `BenignAllowsNothingNew`: if a case with its reads is labelled benign without an
  approval of that very version, every dangerous request that the after version allows
  was allowed before. The run `evaluation` shows it of the catalogue.
* `EscalationIsMonotone`: more rules in the after version never remove a category,
  which is what the monotonic relation of the generator rests on.

For the set and the runs over it, for any orders that are permutations
(`OrdersAssumption`), percentages from 1 to 99 (`HoldoutAssumption`), sets wanted
(`SelectionsAssumption`), calls (`CallsAssumption`: `k` is a number and `providers` a
list, as their types say), edits, transports and factories, with
`Generator!NoneAssumption` (`None` is no category):

* `EveryStratumInBothSplits` and `SplitsCoverHolds`. The first is about `SplitOf`
  alone: the rank in a stratum is a bijection onto `1 .. n`, an order permutes it, and
  the clamp of `Holdout` leaves one place on either side. The second shows that each
  stratum in question has two families: `StrataInv` keeps the stratum of every family
  generated, each of the twelve categories has one injection, and its unapproved and its
  stale family are both suspicious of it, because `generate` raises when the oracle does
  not find the category it was made for, and neither approval record approves.
* `RunsMatchSetHolds`, `ViolationHolds`, `CeilingHolds`, `OneModelReported`, from
  `EvalInv`. Its part about the set (`EntriesInv`) says that no case occurs twice, that
  every family has its base, that what is stored is what the oracle says, and that the
  relations hold; its part about the position (`RunningInv`), that every chosen case
  before it has been run, in the trials before as well; its part about the runs
  (`GoodRun`), that each was counted as generated. So when a relation is violated in a
  trial, both of its cases have been run there, and had both been right, the stored
  labels would violate it. The ceiling holds because the reference baseline's verdict
  is the oracle's label of the very case, and a missing read ends it as the label
  `unresolved` expects.
* `EveryRunCountedHolds`, from `CountInv` on top of both invariants: no two runs are of
  one provider, trial and case, since those of the provider in hand all lie before the
  position; the list names no case twice; and the runs of a family are all in one split.
  The runs of a reported provider are then in bijection with trials and chosen cases, and
  each count over all of them is the sum of the two splits'. It is the first part of
  `ReportAddsUp`, and `OneModelReported` the last.
* `ReportAddsUpHolds` adds the two in between. `SpreadIsBounded`: the spread over the
  families is at most what one family of all runs would give, so the design effect is
  at most the number of runs. `PassHatBound`: every case has `k` trials, so pass^k asks
  for all of them, and a case that passes brings `k` correct runs. Both are about
  cardinalities of sets of pairs and of subsets, so they need neither sums nor
  binomial coefficients.

### The catalogue

`CatalogueHoldsAlways`, `NoDangerousBenignHolds` and `ReplayErrsHolds` hold under the
same assumptions, so for any set of orders that permute their lists, where the run has
two. They are about the shipped catalogue, which is a constant of `Generator`, and not
about any catalogue. The argument has four steps.

* *Operators on rules.* Permuting and splitting rules keeps their atoms and adding a
  rule adds its own (`ReorderedRules`, `SplitCatalogueRules`, `AppendedRules`); rules of
  the catalogue's size are within the limit on atoms (`SmallRulesAreWellFormed`).
* *Shape.* `Shaped` says of a case that its entries answer the reads of its event that
  its family keeps, each once and in any order, that the policy covers them, and that
  the approval is that of the family's mode. The base case has it (`BaseShape`), each
  variant and the renaming keep it (`ShapeReordered`, `ShapeWithSplitRules`,
  `ShapeWithNote`, `ShapeWithGrant`, `ShapeRenamed`), and what the oracle makes of a
  case of this shape is a function of the two lists of rules and the mode
  (`ShapeIsJudged`).
* *Catalogue.* `InjectionFacts` says of each of the 22 injections which atoms it adds,
  that it newly grants its category if it has one and none otherwise, that it leaves one
  of the monotonic grants new (`SomeGrantIsNew`), and that a privileged permission is
  never added beside another. So `VariantIsMade`: each variant of each family is
  `MadeFrom` it, with the atoms of a grant in addition if it is the monotonic one.
* *Invariant.* `CatInv` says that what was produced last is made from its family, that
  the stored base output is the family's, that every stored entry agrees with it as its
  relation asks, and that nothing was raised. That nothing was raised is not inductive
  without the base output, nor the check of the relations without the stored entries.

From `CatInv` the three follow: the first is a part of it; for the second an
unapproved case that is not suspicious has no category, and a newly allowed dangerous
request has one (`NewRequestHasCategory`); for the third `ReplayConcludes` says what
the replay model concludes in terms of the same atoms, and `KnownIsPrivileged` that
each category it has a verb of needs a new privileged atom.

### Model-checked only

* Liveness: `Settles`, `ReachesVerdict`, `RunEnds`.

Every safety invariant, action property and refinement that a passing run checks is
also proved; what is left is liveness, which is out of the provers' reach. What the
proofs say of the two judges holds for the shipped catalogue; for any rules there are
`AtomsGrantWhatRulesAllow`, `BenignAllowsNothingNew` and `EscalationIsMonotone`.

The violated properties are violated.

## 5. What is not modelled, and the plan

Left out on purpose: JSON schema validation, file loading, HTTP framing, the
wording of entries and results, digests and the checks for their collisions, the
scripted faults of the replay model (the model of `any_model` may do worse), the
scenario checks of `run_scenario`, the checks of the protocol's own numbers, the key
and the environment before `run_live`, `build_report`, the F2 variants of `cases.py`,
tests, workflow and site. Of the statistics: the Wilson intervals, which take square
roots, the means of the usage, the histogram of reasons, and `run_error`, which is
always none because a record that cannot be graded never comes out of `run`. Of
`_check_request`: the checks of `repo_sha`, the clock and the names. Of `generate`:
`_check_case` and the collisions of `_rename`. Of the oracle: events and evidence
entries without the shape their schema gives them. A
directory entry is lost or kept as a whole; a disk that reorders synchronised writes
is not considered.

What could follow, in this order:

1. Proofs about `ReplayModel`: that a run of it only asks for the required reads.
2. `LivePin` and `LiveRun` composed into the whole of `main`.
