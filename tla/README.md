# sigma-glue in TLA+

sigma-glue moves a mutation from a request to a reconciled fact about a
provider. It promises little and promises it strictly: a mutation is *approved*
before it is sent, sent *at most once* per idempotency key, *recorded* before
and after, and called done only when an observation of the provider matches what
was confirmed; whatever cannot be known is kept as uncertain and waits for
recovery. This directory holds TLA+ modules of the parts that keep this promise,
TLC configurations that check them on small instances, and TLAPS proofs of what
matters most for every instance.

Paths below are relative to the repository, whose root is `src/` here, so its
`src/orchestrator/` is `src/src/orchestrator/`.

## The system

| component | state it keeps | operations | what makes it correct |
|---|---|---|---|
| Orchestrator (`orchestrator/orchestrator.mjs`) | locals of a call: job, `freshClaimPlan`, `providerBoundaryEntered` | `move`, `dispatch` with its catch block, `compensate` | one mutation per key; a claim is given back only if nothing was sent; an uncertain call asks for recovery |
| Idempotency claim files (`persistence/idempotency-ledger.mjs`) | one file per key | `claim`, `release`, `complete`, each several file operations | a key has one owner; a completed claim stands |
| Job state machine and store (`state/`, `persistence/durable-store.mjs`) | one record per job, an audit log | `transition`, `saveJob` + `appendAudit` | the dispatch is on record before the provider is reached |
| Signed approval / permit ledger (`ledger/sqlite-claim-ledger.mjs`, `approval/`) | SQLite tables `approvals`, `approval_authenticity`, `idempotency_claims`, `dispatch_permits`; a trust store per process | `registerApproval`, `claimDispatchPermit` | an approval pays for one permit, inside its window |
| Fenced attempts (`ledger/fenced-sqlite-claim-ledger.mjs`) | table `permit_dispatch_attempts` | constructor with migration, `beginDispatchAttempt`, `completeDispatchAttempt` | a permit has one attempt, never taken over, never rewritten |
| Dispatch adapter (`dispatch/`) | locals of a call | `dispatch`, `dispatchOnce` with its timer | the transport is entered only past the fence, once |
| Verified gateway (`runtime/verified-colossus-gateway.mjs`, `execution/durable-dispatch-coordinator.mjs`) | locals of a call | `dispatch`, `reconcile`, `classifyDispatchFailure` | what it returns is durable; "nothing was sent" is proven |
| Execution ledger and facade (`ledger/sqlite-execution-ledger.mjs`, `execution/verified-execution-ledger.mjs`) | tables `execution_operations`, `execution_events` | five recording methods | the chain of events is whole and append-only; only a matching observation reconciles |
| Provider recovery (`recovery/`) | table `provider_recovery_records`; locals of a `recover` | `recover` with its observation and deadline, `record` | a conclusion is drawn only from proof, and the first one stands |
| GitHub contents provider (`examples/colossus/github-contents-provider-v2.mjs` with its observer) | locals of a call; the file and its history at GitHub | reads, conditional PUT, read after a conflict | a write replaces only what its plan was approved over; a receipt tells the truth |
| Test Root runtime (`runtime/test-root-commander.mjs` behind `TestRootColossusGateway`) | the files below a root; receipts and reconciliations in memory | `execute`, `compensate`, `reconcile`, each several file operations | all or nothing, no file replaced, reconciled only what is so |
| Opaque broker transport (`transport/`) | none | one HTTP call and checks of its answer | it answers or throws (not modelled) |
| Plan protocol, fingerprints, component registry | none | pure functions, fixed tables | (partly: see *Not modelled*) |

They interact by calls and by shared files. The orchestrator awaits the
Gatekeeper, the gateway, the claim files and the job store; the gateway runs
synchronous SQLite transactions and awaits the dispatch authority, the transport
and the evidence bridge. When an outcome is uncertain, recovery observes the provider
the transport wrote to and alone decides whether a new request may be approved.
The Test Root runtime is a gateway of its own, for file moves inside one process.
Several processes share the claim directory and the
database files; nothing else orders them. Within one process Node runs one
synchronous stretch at a time, so steps are what lies between two awaits, or
one transaction, whichever is smaller: another *process* may act between two
transactions of the same synchronous stretch.

What is hard here: two processes on one key; a process that dies between
reserving and recording, or between two file operations; an answer after the
timeout; a clock read before a lock was waited for; a provider with another
clock; checks made outside the transaction that writes; a failure at any of a
dozen awaits, after which one catch block decides what is safe to undo; a
mutation that arrives after everyone has given it up; a file that has returned to
its earlier content; a rename one operation after its destination was found free.
`PROJECT.json` lists each hazard at its line with the properties that would
notice it.

## Modules

Six groups; the first three are each a data layer (the tables or files, one
operator or action per transaction or file operation) under a module of callers,
with a small module that says what the component promises. The fourth puts them
together.

**Permits and the fence.**

- `ClaimLedger`: the tables of the two claim-ledger files. `approvals` joins
  `approvals` and `approval_authenticity`; `permits` joins `idempotency_claims`
  and `dispatch_permits`; `attempts` is `permit_dispatch_attempts`, its absent
  row written `NoAttempt`; `schema` is that table's layout. Each ledger method is
  one BEGIN IMMEDIATE transaction and one action. The seven fields a permit
  binds are its approval, its key and a `plan` that stands for the other five.
  Fingerprints and signatures are abstracted to equality and the flag `genuine`.
  Callers are arbitrary: every time and every trust store may come with every
  call, which covers stale clock readings and rotated keys.
- `ColossusDispatch`: calls of the gateway's `dispatch` up to the stored
  transport outcome, the adapter's `dispatch` inside it. `pc` is where the call
  stands, `call` its locals, `trust` the trust store its process was built with,
  `deliveries` counts calls of `transport.dispatch`. `Register`, `Claim`, `Begin`
  and `Complete` are the ledger's actions with the times the code passes;
  `Refuse` is any of them throwing; `Classify` is `classifyDispatchFailure`.
- `OneShot`: the abstract promise: reserve once, enter at most once and only
  after reserving, record at most once and only after entering.
  `ColossusDispatch!Fence` is the refinement mapping.

**The orchestrator.**

- `IdempotencyLedger`: `claims` is the file of each key: `absent`, `torn`
  (created and not yet written, which `read()` cannot parse), `claimed` or
  `completed`. One operator per file operation.
- `JobStore`: the transition graph, the durable record (`jobs`) and the two
  audit lines a property tells apart (`audit`). A recording is save then append;
  `RecordingFails` leaves nothing, or the record alone.
- `Orchestrator`: calls of `move`, `compensate` and `dispatch` at every await.
  `at` names the await or advance a call is at, `fresh` is `freshClaimPlan`,
  `boundary` is `providerBoundaryEntered`, `job` the local job's state. The
  gateway is the environment and protects nothing: `ReachProvider` may happen at
  any time while the call waits for it. It gives the proof "nothing was sent"
  only if that is so, which is what `PreBoundaryIsProven` shows of the real one.
  Any other step may throw (`Throw`), and files may fail (`StoreFails`). A move
  that was completed leaves a result (`Results`), which nothing uses up: it may be
  compensated again, by several calls at a time, or after a compensation that
  failed, so the key of a compensation is contended like that of a move.
- `KeyClaim`: the abstract promise per key: claimed for one plan, given back only
  while nothing was sent, one mutation, finished after it and for good.
  `Orchestrator!Claiming` is the refinement mapping: the claim's plan is
  read off the file, and, while the file is torn, off the one call that owns it;
  the mutations are counted where the provider is reached.

**Execution and reconciliation.**

- `ExecutionLedger`: `operations` and `events`, one action per recording method;
  a transition key is a pair of a method and a label. `Expected` and
  `TargetState` are the states each method asks for and leads to.
- `VerifiedExecution`: the facade. A call is a read of the operation, for two
  methods a read of the events, and the transaction; other reporters act in
  between. `seen` is what the call holds of the operation.
- `ExecutionGateway`: the second half of the gateway's `dispatch` (record the
  receipt, the attempt, the confirmation) and `reconcile`, each record a call of
  the facade. The receipt's `receivedAt` is the time the coordinator gives the
  ledger. It takes for granted that a key is answered with one receipt
  (`answered`), which is the fence's part.
- `ReconciledExecution`: the abstract promise per request: dispatched once under a
  key and an envelope of its own, then attempted, confirmed, started, and
  reconciled only if what was observed is what was confirmed. The mapping reads
  all of it off the chain of events (`VerifiedExecution!Protocol`).

**Compositions.**

- `VerifiedGateway`: the whole gateway over both database files. It extends
  `ExecutionGateway` and takes `ColossusDispatch` as `D`, with the same processes
  and the same clock. `Accepted` is where the two meet: the outcome is stored in
  the fence's file and the receipt, bound to request, key and envelope as
  `validateReceipt` demands (`Answers`), goes to the execution ledger. The record
  itself is a later step, in another file. `EndProcess` loses whichever
  half a call is in.
- `VerticalSlice`: the orchestrator over the first half of that gateway
  (`ColossusDispatch` as `G`, entries of the transport counted apart from the
  mutations the orchestrator counts). A call of the orchestrator at `gateway` awaits
  the gateway call of the same process: `Dispatch` submits it with the approval
  that was given, `Deliver` is the one step that enters the transport, and
  `Resolved` and `RejectedWithProof` hand its end back; a rejection without proof is
  `Throw`. The claim file binds the plan, the permit also the job (`Bindings`).

**The provider and recovery.**

- `GitHubContents`: `history` is every state of the one target file with its
  author, the current one last; `semantics` says what its version token
  identifies, the content (a blob sha, as GitHub's) or the revision. `stage`,
  `intent`, `sha` and `put` are a request's call, its approved plan, the version
  its PUT is conditional on and where the PUT is. Reads are steps and may be stale,
  though not older than the read the plan was made from; a PUT may be applied
  after its caller gave up, and its answer may be lost. `SubmitPut`, `Respond` and
  `Converge` are the stretches of the transport's `dispatch` between two requests;
  `Edit`, `ApplyPut` and `RefusePut` are GitHub and everyone else, external.
- `ProviderRecovery`: `job` is a `recover()` under way, its observer reading up to
  `Attempts` times; `Classify` is `classifyObservation`; `record` is the table and
  `Store`, `Replay`, `Abandon` the three ways `record()` ends; `answers` is what
  callers were told. `Retry` is the operator's part, allowed only by
  `requires_new_authorization`: a new request for the same mutation, approved over
  the observation on record. `family` ties a retry to what it retries.

**Test Root.**

- `TestRoot`: `where` is the file at each path; `call` is a call at one of its file
  operations (`inspect`, `check` for the stat of a destination, `move` for the
  rename, `undo` for the rollback in `catch`, `sourceGone` and `arrived` for
  reconciliation) with its position in the plan. `receipts` is the map of that
  name, by key; a key may be used for several requests, and a receipt answers only
  for the plan it was given for (`SameSubject`). `confirmed` and `reconciled` are
  the plans whose receipts and results callers hold. Ghosts: `before` is the tree at
  a call's start, `alone` whether any call sharing a path overlapped it, `stuck`
  whether a rollback rename failed, `raced` whether calls sharing a path ever
  overlapped. Any operation may fail, the failure of a rollback is swallowed, and
  `Restart` loses calls and receipts, not files.

Operators under the heading *Mutants*, or introduced as a mutant, are slips the
code might have had. No specification uses them: a mutation run puts one in the
place of the definition it imitates, and the named property must then fail.

## Runs

| run | question | bounds |
|---|---|---|
| `ClaimLedger` | do the tables keep their relations under arbitrary callers? | 2 keys, 2 plans, 4 approval ids, 6 documents (two with one id; an unsigned row; a v1 attempt; a forged one), 3 trust stores, times 0..3, ttl 2 |
| `ColossusDispatch` | is the transport entered once, by an authorized call, does the fence refine `OneShot`, and does a call with its authority end? | 2 workers, 1 key, 2 approvals of different signers in force at 0 and expired at 1, one signer revoked in the later key records, times 0..1, no symmetry |
| `Orchestrator` | do the claim files refine `KeyClaim`, is every mutation on record and every completion evidenced, is the graph never in the way, does an uncertain call ask for recovery and a failing one report? | 2 calls; 2 moves of one key with different payloads, their retries, their compensations repeated and at once; files may fail; no symmetry; a VIEW leaves out the job records and the verdict, which are written and never read |
| `VerticalSlice` | do claim files and permits agree about every key, and is the real gateway what `Orchestrator` assumes of its own? | the same 2 calls and requests; files do not fail (the run above does that); an approval for each move and for one compensation, in force at 0 and expired at 1, times 0..1; symmetry of calls; a VIEW forgets calls that have ended |
| `VerifiedExecution` | are the chains whole under any reports, and do they follow `ReconciledExecution`? | 2 reporters, 2 requests with one idempotency key, a second dispatch key, times 0..1; a VIEW forgets the locals of a call that has ended |
| `VerifiedGateway` | is on record only what went through the fence, once per key; is evidence in its window, does only a match reconcile, is what is returned durable, is the interrupted left alone? | 2 gateway processes, 1 request with 1 approval in force at 0 and expired at 1, 2 provider states, times 0..1, receipts dated at either; a VIEW forgets the locals of a call that has ended, but for what its caller was told |
| `ProviderRecovery` | are receipts and conclusions true, and does a retry mutate once? | 1 planned request and 1 retry, 2 contents or none, 2 edits by others, 2 recoveries with 2 reads each, 1 stamp, both version semantics; symmetry of recoveries and contents |
| `TestRoot` | are moves all or nothing, is no file lost, is what is reconciled so? | 2 calls, a request of 3 items, one of 2 that wants one of its destinations and one of its sources, one of another file under the key of the first, their compensations, 8 paths; symmetry of calls; a VIEW forgets ghosts that no property reads any more |
| `Orchestrator_mismatch`, `Orchestrator_overwrite`, `VerifiedExecution_stale`, `ExecutionGateway_clock` | violations, see below | the instance above each |

Why these are enough to be worth running: every hazard needs two actors on one
key, so two calls and one contested key meet them all; a third call adds no new
pair. The times of `ClaimLedger` give a window with a before, an inside and an
end at which a half-open comparison shows. The `ClaimLedger` run has the
documents that differ in exactly one of the fields a check compares. A property
that counts (`AtMostOneEntry`, `ImplementsKeyClaim`) counts without a cap. Two edits let a file leave its baseline and return to it, the case that
misleads a content-addressed version. Three items give a rollback a first, a
middle and a last step, and the second request competes for a path on either
side of a move. In `VerifiedGateway` a second request would be one whose key and
envelope differ, which the fence keeps apart row by row and the `VerifiedExecution`
run brings together at the ledger. What the small numbers cannot show (a key
wanted by another plan or another request behind the fence, three calls at once)
is what the proofs are for.

Symmetry is declared where processes are interchangeable and
no liveness property is checked. Deadlock is checked everywhere but in two
runs. In `VerifiedGateway` the system may stop: what a run ends in is not a property
of it. In
`ProviderRecovery` it may stop when all requests are settled and the edits used up.

**Bounds in guards.** Clocks run inside the constant `Times`; `MaxEdits` caps the
edits of others; `Fresh` is the set of requests that are planned from a read, the
others being retries. `Attempts` is the code's own bound on reads (20 there).
Nothing else is capped: requests, receipts and transition keys are finite sets.

**Fairness.** `FairSpec` of `ColossusDispatch` asks weak fairness of each
worker's own steps: synchronous code runs on, and the timer of `dispatchOnce`
fires, which is `TransportFails`. It asks nothing of the transport (`Receive`)
or of the dispatch authority (`Authorize`), whose await has no timer in the
code; the liveness property therefore starts at `authorized`. `FairSpec` of
`Orchestrator` asks it of a call's file operations and synchronous steps, not of
the Gatekeeper or the gateway: their awaits have no timer there either, so a
call may wait for them for ever, and `FailuresAreReported` starts at the catch
block.

## What the code does not do as documented

1. **The provider's clock dates a local transition**
   (`ExecutionGateway_clock`). `docs/CLAIM_LEDGER.md:68` and
   `docs/COLOSSUS_ADAPTER.md:58` say it never does; the coordinator passes
   `receipt.receivedAt` as `now`. With a provider ahead of the local clock the
   evidence check then refuses the attempt, and an accepted dispatch is stranded.
2. **A mismatching approval leaves the job `awaiting_approval`**
   (`Orchestrator_mismatch`), neither `blocked` nor `expired`
   (`docs/STATE_MACHINE.md:49`). It is never approved, though.
3. **The stored job may leave the graph** (`Orchestrator_overwrite`): the
   in-memory job obeys it, but a second submission starts from `received` and
   `saveJob` replaces what is there (`docs/STATE_MACHINE.md:44`).
4. **Evidence may predate the state it follows** (`VerifiedExecution_stale`) when
   another process writes between the facade's read and its transaction
   (`docs/EXECUTION_LEDGER.md:37`). `EvidenceInsideWindow`, checked in
   `VerifiedGateway`, shows that the gateway's own order of calls avoids it.

More observations, without a sentence to hold them against:

- A call released before the boundary and retried with a fresh approval is refused
  by the claim ledger, whose key names the first approval for ever.
- A claim file torn by a crash blocks its key until someone removes it.
- A recovery record is final: one stored as `still_unknown` conflicts with every
  later observation of another time or provider request id, so the request can
  never be upgraded to an answer (`provider-outcome-recovery.mjs`,
  `sqlite-provider-recovery-ledger.mjs`).
- `confirmed_not_applied` may be recorded while the PUT is still on its way. It is
  safe (`NoDoubleMutation`) only because writes are conditional and the version is
  a monotonic revision: the retry's own write, or anyone else's, makes the late PUT
  fail. GitHub's own versions are content-addressed, so for it recovery never
  reaches that conclusion.
- Overlapping Test Root calls that share a path can replace each other's files: the
  rename comes one operation after the stat (`test-root-commander.mjs:77` to `83`),
  and the rollback checks nothing. Upstream they are kept apart per idempotency key
  only, so `NothingIsLost` is stated for behaviours in which none have overlapped,
  and `AllOrNothing` and `ReconciledIsSo` for calls that were alone.
- Test Root does not make a key move once by itself. A receipt is looked up before the
  first await and set after the last (`test-root-commander.mjs:64` and `100`), and
  nothing marks the key in between. So two overlapping calls of one key can both
  move: with different payloads on disjoint paths, which the check for a reused key
  then does not see (`docs/VERTICAL_SLICE.md:42`: "idempotency payload reuse" fails
  closed), or with one payload, when a compensation puts the files back between
  them. `TestRoot` has these behaviours. What keeps the calls of a key apart is the
  claim file in front of it, which `ImplementsKeyClaim` is about.
- `normalizeMoveRequest` compares paths as strings, so two spellings of one path
  (`x`, `./x`) pass as different; `TestRoot` takes paths to be canonical.

## Proofs

All proofs are checked by TLAPS from the named assumptions on the constants
(`TimesAssumption`, `TtlAssumption`, `DocsAssumption`, ...), which TLC evaluates
on every run. They hold for any finite or infinite set of keys, processes,
documents, times, requests and paths.

- `ClaimLedger_proofs`. The invariant `IInv` joins `TypeOK` with the four
  relations between tables, and is inductive: a permit stays inside its approval
  only because the approval it names is consumed, so never rewritten; an attempt
  stays inside its permit because permits are never rewritten. From it:
  `TypeCorrect`, `SpentOnce`, `PermitsInside`, `AttemptsInside`, `RowsMatch`, and
  the action properties `HistoryImmutable` and `LegacyNeverReopens`.
- `ColossusDispatch_proofs`. `WorkersKeepTheLedger` shows that every step of the
  workers is a step of the ledger or a stutter, so the theorems above hold of the
  whole system. At-most-once entry needs more than the ledger: `DInv` adds what
  each call has in hand (`CallsInOrder`), that a call past the fence owns the
  open row (`ReservationIsExclusive`), and that entries follow reservations
  (`EntriesFollowReservations`): none at `begun`, one from `waiting` on. From it
  `OneEntry`, `ExclusiveReservation`, `StrandedStayOpen`, `PreBoundaryProven`, and
  `FenceImplemented`: each step of the system is a step of `OneShot` or leaves its
  variables alone. `LedgerKeepsItsPromises` collects what the ledger's theorems say
  under these workers. `EntriesAreAuthorized` adds that the approval a call registered
  and the permit it holds never change under it, and `SuccessIsDurable` that a
  stored outcome does not.
- `Orchestrator_proofs`. A claim has at most one owner: the call that created
  its file and has not finished with it (`OwnersHold`, `OwnersDiffer`). Only the
  owner can reach the provider, and until it has, nothing has been sent under
  its key (`OpenKeysAreUnused`). So giving a claim back is safe although
  `release()` checks one operation before it unlinks. From it `OneEntry` (one
  mutation per key, `OneEntryPerKey`), `EntryStaysClaimed` (a key mutated under is
  never released, `NoUnclaimedEntry`), the action property `CompletedStand`, and
  `ClaimsImplemented`: each step of the files and calls is a step of `KeyClaim` or
  none. For the last, `RInv` adds that a claim of a call names that call's plan, so
  that writing the torn file later does not change what the key is claimed for.

  The second invariant, `OInv`, follows a call through its stages: what its local
  job and the stored job say (`InTurn`), which of dispatch and outcome is on record
  (`InRecord`), and that a call that reached the provider holds its claim or has
  completed it (`InClaim`). It gives `EntriesAreOnRecord`, `CompletionsAreEvidenced`,
  `GraphAdmits` and `FailuresAskForRecovery`.
- `VerifiedExecution_proofs`. The invariant says that the chain of each operation
  is linear: event `n` is of the `n`th method, the operation stands where its last
  event leads, and every transition key is used once. A step
  appends one event to one chain or changes nothing, so what a reporter has read
  stays a prefix of what is there. From it, for arbitrary reporters:
  `ChainsAreWhole`, `IdentitiesStaySingle`, `ChainsAreAppendOnly`,
  `ReconciliationIsProven`. The last needs that a state names the methods its chain
  has gone through. `ProtocolImplemented` is the refinement of
  `ReconciledExecution`: an appended event is the abstract step of its position, a
  replay or a refusal is none. So nothing a reporter read too early, which finding 4
  is about, can take a request off its path.
- `ExecutionGateway_proofs`. On top of it, the gateway's order of calls: a call at
  method `n` finds a chain at least as long as the path behind it, so the row it
  read is the row its transaction meets unless its key is already there. That is
  why a check made outside the transaction is good enough here
  (`EvidenceStaysInside`) although it is not for arbitrary reporters (finding 4).
  Also `GatewayReconcilesProven`, `ReturnsStayDurable`, `StrandedStayOpen`, and what
  was proved of arbitrary reporters: `GatewayFollowsTheProtocol`,
  `GatewayKeepsTheChains`.

  The second part of the module is about `VerifiedGateway`. Each of its steps is a
  step of the fence (`VerifiedIsDispatch`, by the actions alone). That it is a step
  of the records needs an invariant, because `ExecutionGateway` allows a receipt
  only for a key that was not answered yet: `VInv` says that an answered key has an
  accepted attempt, that a call is in one half at a time, and that every receipt
  recorded or about to be is `Vouched`, the answer to the one accepted attempt of
  its key. An attempt is completed only from `started`, so no answered key can be
  answered again, and settled rows, permits and counts of entries never change, so
  what is vouched for stays so, however late the record in the other file is written
  or if it never is. From it `VerifiedIsGateway` (`ImplementsGateway`),
  `RecordsAlwaysFollow`, and `VerifiedKeepsItsRecords`, which carries the theorems
  above over.
- `VerticalSlice_proofs`. `SliceInv` joins the invariants of both layers with a
  link per call: what the awaited gateway call has done (`Served`), that a claim of
  one's own with an attempt under it is past the boundary, and what has been heard
  is accepted inside (`Linked`). `LayersAlwaysAgree` is a conjunct of it.
  `SliceIsOrchestrator` shows that the gateway keeps what `Orchestrator` assumes: it
  resolves only after the mutation, and gives its proof only before it. A gateway
  call that finds its key's attempt already made is the delicate case: it proves
  nothing, because its permit is then known. `SliceMutatesOnce` and
  `SliceSendsOnceWhatIsApproved` carry the theorems of both layers over to the
  composed system.
- `ProviderRecovery_proofs`. A version identifies the content (or the revision), so
  a conditional write lands only on its baseline; once a revision has been passed,
  a PUT conditional on it can no longer be applied; requests of one family that
  could write name one revision, which one write uses up. From it the five
  properties of the run, for any number of requests, retries, edits and recoveries.
- `TestRoot_proofs`. A call that is alone finds the files of its plan where it left
  them: what it has moved is at its destination with the source free, the rest as
  it was (`InHand`). So a destination found free one operation ago is still free
  and the way back is free too. Calls that share a path with a call that is alone
  do not exist (`Apart`). From it `FilesSurvive` and the action property
  `MovesAreWhole`. A reconciliation that is alone knows of each item it has passed
  that it is in its place, because nobody has touched its paths since
  (`Observed`), and its last step then knows it of all: `ReconciliationIsTrue`. All
  for plans of any length and any number of requests per key.

What the proofs assume beyond the code is in the models: reads of the provider may
be stale but not older than the plan's; SQLite transactions are atomic; a signature
that verifies is genuine.

Only model-checked: the two liveness properties, `AuthorizedCallsSettle` and
`FailuresAreReported`, which are out of the prover's reach, as are `ENABLED` and
induction over data. Every safety and action property and every refinement of a
passing run is proved, for the same specification the run checks or for one it is
shown to implement. Type invariants (`TypeOK`, `WorkersTypeOK`, `ReportersTypeOK`,
`GatewayTypeOK` and those of the other modules) are proved and not spent a run
on. The four violations are refuted on their instances.

## Not modelled

- The component registry, the adapter contract and most of request normalisation
  and plan fingerprints: pure functions and fixed configuration. A plan is a value,
  equal to another only if it is the same; a method that is not supported is a step
  that throws. What is modelled of the plan protocol is the item rules of a move
  request and its compensation (`TestRoot`), and that a compensation has a job, key
  and plan of its own (`Orchestrator`).
- The compensation of a compensation: `compensate` takes any reconciled result, and
  the chain `key:compensate:compensate` could go on; the models end it after one
  link. The next link runs the same code under one more key of its own.
- The opaque broker transport: it keeps no state, has one await for the call and
  one for the body, and returns or throws; both are what `Receive` and
  `TransportFails` of `ColossusDispatch` let a transport do, at any time after it
  was entered. That a request refused before it was sent counts as entered is on
  the safe side.
- Text, redaction, the history list of a job, receipts' diagnostics; HTTP details,
  URLs and payload encoding of the GitHub provider; symbolic links and paths outside
  the Test Root, which are among the failures of an operation.
- GitHub itself is external. A 4xx answer is taken to mean that nothing was
  written; a 5xx, or a success that names no commit, may mean either. A provider with monotonic revisions
  is what the recovery code provides for; the example's is not one.
- File-system loss after a completed write, and SQLite's own recovery: a
  transaction is taken to be atomic and durable, as BEGIN IMMEDIATE with
  rollback gives it. So no property would notice a rollback that the code leaves
  out.

## Plan

1. Permits, fence, dispatch: modelled, checked, proved.
2. Claim files, job store, orchestrator: modelled, checked, proved.
3. Execution ledger, facade, gateway: modelled, checked, proved.
4. Provider recovery over the GitHub provider: modelled, checked, proved.
5. Test Root runtime: modelled, checked, proved.
6. The fence and the records as one gateway, the orchestrator over the fence:
   modelled, checked, proved.
7. Left: the orchestrator over both halves of the gateway at once, with its
   `reconcile`; the interface is then that a job completes only if its operation is
   reconciled on record, of which `CompletionIsEvidenced` holds the outer half and
   `ReconciledIsProven` the inner. And recovery over the fence: that a request newly
   approved after `confirmed_not_applied` has a key, and so a permit, of its own.
