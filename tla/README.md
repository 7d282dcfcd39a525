# TontineChain: a TLA+ model of the backend

TontineChain is a NestJS service for *tontines*, savings groups whose members pay
a contribution in every cycle, one of them collecting the whole of it in turn. The
service keeps its data in PostgreSQL (TypeORM), its idempotence keys, OTPs and
sessions in Redis, and its background jobs in two Bull queues; FedaPay takes the
payments (Mobile Money) and calls a webhook back; contracts on Polygon are to hold
a proof of each contribution.

This directory holds TLA+ modules that model the service's own logic, the TLC
configurations that check them on small instances, and proofs checked by TLAPS.
Source paths below are relative to the repository; `modules/` stands for
`src/modules/`. `PROJECT.json` maps every definition to the lines it models and
lists the hazards, the runs, the findings and the theorems.

## 1. Inventory

Everything runs in one Node process: code between two awaits is atomic, and at
every await any other request, webhook or job may run. No handler uses a database
transaction, a row lock or an update with a condition on the row's present status.
The unique indexes on `users.phone`, `wallets.user_id`, `tontines.invitation_code`,
`tontine_members(tontine_id, user_id)` and `contributions.payment_ref` are all the
database adds. This is where most of the hazards come from.

| component | state it keeps | operations | talks to | what makes it correct |
|---|---|---|---|---|
| Contributions (`modules/contributions`) | `contributions` rows, key `webhook:fedapay:*` in Redis | initiate, FedaPay webhook, two lists | Cycles (reads the cycle), FedaPay, both queues | the ledger agrees with the provider; an event is processed once; an approved payment is not lost; a member pays once per cycle |
| Payments (`modules/payments`) | none (FedaPay's transactions) | create a transaction, verify a signature, name the events, poll a status (never called) | FedaPay | every outcome gets through |
| Blockchain worker (`modules/blockchain/workers`) | jobs of `blockchain-queue` | deploy a vault (never enqueued), record a contribution | Contributions' rows, the contracts | jobs end; a job's proof is the row's |
| Blockchain service and contracts (`modules/blockchain`, `contracts/`) | vaults and registry on chain, `tontines.contract_address` | deploy + register, record (three minutes at most), reads | Polygon, Tontines' rows | a proof is recorded once and never replaced; the row shows the registered vault; a hash is returned for what is recorded |
| Cycles (`modules/cycles`) | `cycles` rows | createCycles, checkCycleCompletion (no caller), reads | Contributions' rows, sms queue | one cycle open at a time, in order, closed only when full, and each payout announced once |
| Tontines (`modules/tontines`) | `tontines`, `tontine_members` rows | create, update, open, join, updateMemberStatus, start, reads | Cycles (createCycles) | DRAFT, OPEN, ACTIVE in this order; terms fixed once open; no more than `max_members`; one cycle per confirmed member, the organizer first |
| Auth (`modules/auth`) | OTPs, attempts, refresh tokens, blacklist, registration lock in Redis | register, verify-otp, resend-otp, login, refresh, logout, JWT validation | Users, Wallets, sms queue | one account per phone; three attempts; a session ends with its logout |
| Wallets (`modules/wallets`) | `wallets` rows, `users.wallet_address` | create (two ways), balance | Users | the two agree |
| Users, Admin | `users` rows | single updates | - | - |
| Score, Sanctions | `users.credit_score` | +5, -20, loop over late payers (no callers) | Users, push queue | a score is what the rules make of it, 0..1000; a late user is told once per run |
| Notifications | jobs of `notifications-queue` | send an sms or a push | Twilio, Firebase | the last code to arrive is the one stored |

What is hard here: webhooks that are repeated, concurrent and of several kinds;
handlers that check in one await and write in a later one; a crash between two of
them; Redis keys that are taken early, expire, or are lost (Redis saves a snapshot
every 60 s, `docker-compose.yml:31`); jobs that are retried, that stall or run after
the row has moved on.

## 2. Plan

In this order, the most important behaviour first.

1. `Contributions`, done: the payment pipeline.
2. `Rotation`, abstract, and `Cycles`, done: the completion of cycles, shown to
   implement `Rotation`.
3. `Contributions_proofs` and `Cycles_proofs`, done for the properties of section 5.
4. `Tontines`, done: enrolment, up to the creation of cycles.
5. `Accounts` and `Sessions` with their proofs, done: registration, codes,
   activation and the wallet; login, refresh, logout and validation.
6. `Tontines_proofs`, and the rest of `Accounts_proofs` and `Cycles_proofs`, done.
7. `ProofBook`, abstract, and `Vault` with its proofs, done: deployment and
   registration with retries and the save of the address, recording with the
   three-minute race, the contracts. In this commit nothing enqueues a deployment and
   `handleRecord` throws on its constant address `''`, so that this is the code as it
   would run once those two lines are filled in.
8. The queue of sms, as part of `Accounts`, done: it is where codes overtake each other.
9. `Score` with its proofs, done: scores and sanctions (no callers in this commit).
10. `Ledger`, abstract, and `Ledger_proofs`, done: that `Contributions` implements it,
    whatever overlaps and fails.
11. The safety halves of the liveness properties, done: what is under way is in somebody's
    hands as long as nothing fails (`NothingStranded`, `HandedOver`, `HalfDoneIsInHand`,
    `AttemptsCounted`), proved for every value of the constants.

A composition of the worker, the webhook and `checkCycleCompletion` was planned and is
not written: the check has no caller and every chain job fails in this commit, so that
there is no code that composes them. `Cycles` takes away confirmed contributions at any
time instead, which includes whatever such a composition would do.

## 3. Modules

### Ledger and Contributions

`Ledger` is what members are promised about their payments: a contribution is entered
as paid only once its payment is, written off only once its payment can never be,
neither is taken back, and the member is told once. The memory of what was handled
lasts 24 hours in the code, so that the promise counts `lapses`: each one allows a
payment to be entered and told once more. `Contributions` maps the outcome of FedaPay's
transaction, the row's status, the number of sms and the lapses of the key to it.

State: `row` is the contributions table by `payment_ref` (status, cycle, member,
whether the FedaPay id was stored, and which processing's `proof_hash` it shows);
`req` and `hook` are the HTTP requests and webhook deliveries in progress, each
with the step (`pc`) of the next await; `keys` are the idempotence keys in Redis;
`jobs` the record jobs, `sms` the confirmations enqueued; `tx` and `owed` are
FedaPay's side, the transactions and the events it has not seen acknowledged.
`expired` and `faults` are history.

One action is the code from one await to the next:

| action | code |
|---|---|
| `ReadCycle`, `CheckAlready`, `SaveIntent`, `InitiatePayment`, `RecordTransaction` | the controller's and the service's `initiate` |
| `Deliver`, `ClaimKey`, `FindContribution`, `Confirm`, `StoreProof`, `EnqueueRecord`, `EnqueueSms`, `MarkFailed`, `Answer` | the webhook endpoint and `handleFedaPayWebhook` |
| `TakeJob`, `AttemptThrows`, `MarkBlockchainFailed`, `MarkError` | `handleRecord` under Bull |
| `InitiateError`, `HookError`, `Crash`, `KeyLapses` | failures, each bounded by `MaxFaults` |
| `CustomerPays`, `TransactionDeclined` | FedaPay, external |
| `CycleCloses` | `CyclesService` completes the cycle |

As in the code: the key is `SET ... NX` before anything else and never given back;
the amount is examined before the kind of event; the updates are unconditional; a
`where` with an undefined member matches any member; the worker's contract address
is the constant `''`, so that every attempt throws, and what follows in
`handleRecord` is not reached. Abstracted: amounts are right, wrong or missing in
the event; a proof hash is the number of the processing that made it (it covers the
time); a delivery is one that bears FedaPay's signature, any other changes nothing,
and it carries our reference, as `FedaPayWebhookPayload` says
(`modules/payments/fedapay.adapter.ts:20`). Redis' expiry is a fault that may come
at any time, which includes 24 hours.

### Rotation and Cycles

`Rotation` is what members are promised: cycles open in order and one at a time,
none closes before it is full, none opens again. `Cycles` is `CyclesService`:
`createCycles` is its initial state, and each `check` in progress is a
`checkCycleCompletion` going through `LoadCycle`, `SumConfirmed`, `StoreTotal`,
`MarkCompleted`, `AnnouncePayout`, `FindNext`, `ActivateNext`, `AnnounceStart`, or
cut off at any of them (`Abandon`). Contributions are confirmed, and taken away by
`BLOCKCHAIN_FAILED`, at any time, and more than N of them may be confirmed for one
cycle, since a member can pay twice. Amounts are counted in contributions, as all
of a tontine's are `contribution_amount` (an `update` that overlaps the start can
break this, see the hazard at `tontines.service.ts:95`). The comment at
`cycles.service.ts:110` says who calls the check; nothing does in this commit, and
`Cycles` models the calls the comment describes.

### Tontines

One tontine: its row, its members, and what `createCycles` saved for it, once per
call (`rotations`). A request in a slot of `call` reads and checks in its first
step (`SaveTontine`, `LoadForUpdate`, `LoadForOpen`, `LoadForJoin`,
`LoadForStatus`, `LoadForStart`) and writes in later ones. A request refused by a
check changes nothing and is not modelled. `overlapped` records whether two
requests were ever in progress at once: several properties hold only as long as
none were, and say so. Members with no `payout_order` tie, and the order in which
the join returns them is left open. The fields `update` may change are represented
by `max_members`, the one the service itself reads.

### Accounts

One phone number: the row of `users` (`user`, `address`), the row of `wallets`, the
keys `lock:register:*`, `otp:*` and `otp_attempts:*`, the sms jobs (`outbox`) and the
code of the last sms to arrive (`sms`).
A call in a slot of `call` is a `register`, a `resendOtp` or a `verifyOtp`, with the
step of its next await.

| action | code |
|---|---|
| `TakeLock`, `FindPhone`, `CreateUser`, `ReleaseLock` | `register`, its `finally` included |
| `LoadForResend`, `StoreOtp`, `SendOtp` | `resendOtp`, and the end of `register` |
| `CountAttempt`, `ExpireAttempts`, `CompareOtp`, `DeleteOtp`, `DeleteAttempts`, `Activate` | `verifyOtp` |
| `FindWallet`, `SaveWallet`, `SetAddress` | `createWalletForUser`, which goes on behind the answer |
| `HandleSendSms`, `SendSmsFails` | `NotificationsProcessor.handleSendSms`: jobs run in any order, for Bull adds the concurrency of the queue's two handlers up; none has a second attempt |
| `BlockUser` | `AdminService.blockUser` |
| `LockLapses`, `OtpLapses`, `AttemptsLapse`, `CallFails`, `Crash` | expiry of keys, failed awaits, a restart |

`INCR` and `EXPIRE` are two awaits: the counter has no time to live in between, which
is why `attempts` and `ttl` are two variables. The counter is counted up to 4, since
the code only asks whether it is past 3. A wrong code is a choice of `CompareOtp`: it
is refused like a missing one. A new address is any that is nowhere else. The lock is
deleted by whoever leaves, even if it is another's by then; `lapsed` remembers when
that may be. `POST /wallets/create` passes `user.sub`, which is undefined, and changes
nothing: it is left out. `lapsed`, `crossed` and `tries` are history. After
a restart Bull runs a job that was in progress again, so that `Crash` may deliver an sms
whose job stays in the queue.

### Sessions

One user: `refresh` is the key `refresh_token:<user>`, of which there is one however
many devices there are, `black` the keys `blacklist:*`. A token is the second it is
signed in, because it holds nothing else that varies; the access and the refresh token
signed together are one number, in `refresh` or `black` according to use. `LoadForLogin`
and `LoadForRefresh` check, `SignTokens` and `StoreToken` go on.

| a logout | code |
|---|---|
| `VerifyToken`, `ReadBlacklist`, `FindUser` | the guard: passport looks at the date, then `JwtStrategy.validate` at the blacklist and the user |
| `DeleteRefresh` | Redis handles the DEL |
| `ComputeLife` | the DEL is answered: `decoded.exp - Math.floor(Date.now() / 1000)` |
| `Blacklist` | Redis handles the SET, and counts `EX` from there |
| `LogoutErrorSwallowed` | the `catch`: the DEL fails, before or after Redis handles it, or the SET does, and the answer is `LOGGED_OUT_SUCCESSFULLY` |

Nothing makes a token expire but the clock: `now` is its second and `part` the part of a
second. A token is `Dated` from a whole second on, as jsonwebtoken has it; a key lapses a
whole number of seconds after the instant it was set, to the part (`Listed`). Time may
pass between computing the number and setting the key. `CallFails` is a failed await of
which the client is told, `Restart` ends all requests, and `RedisRestored` is a Redis that
comes back with its last snapshot (`--save 60 1`): keys set since are gone, and an earlier
refresh token may be back. A refresh token's seven days are much longer than an access
token's minutes: `RefreshExpires` may come any time after the latter.

History: `ended` is set when a logout has deleted the key or returned, `revoked` holds the
tokens whose logout returned, by the `catch` or not; `outlived` and `unlisted` say what
excuses either: a refresh in progress, a failed DEL, a restored snapshot; a key that
failed to be set or was lost. `overlapped`: two requests that issue tokens were in
progress at once.

### ProofBook and Vault

`ProofBook` is what the contract promises: one proof per member and cycle, never
replaced, and a recording is acknowledged only if its proof is in the book. `Vault` is
one tontine's side of the chain.

| action | code |
|---|---|
| `TakeDeploy`, `SendDeployment`, `Register`, `RegisterReverted`, `SaveAddress` | `handleDeploy`, `deployTontineVault`, `registerInRegistry` |
| `BeginRecord`, `EstimateGas`, `SendRecord`, `ReturnHash`, `RecordReverted`, `Timeout` | `recordContributionOnChain`, gas estimation and the race of `tx.wait(1)` with its timer |
| `MineDeployment`, `MineRegistration`, `MineRecord` | `TontineVault.sol`, `TontineRegistry.sol` |
| `Enqueue`, `DeployError`, `RecordError`, `Drop`, `Crash` | Bull, failed awaits, the network, a restart |

A transaction in `pool` is mined in any order, whether or not its sender still waits
(`by`): this is how a call that timed out meets its own transaction when it is
repeated. A vault is the run of the job that deployed it. `configured` is whether
`REGISTRY_CONTRACT_ADDRESS` is set; the code goes on without it, and then every
deployment may replace the address. `Found` looks proofs up at the address the row
shows, as `BlockchainController.getTontineState` does. Bull's attempts for a deployment
are a constant, as nothing enqueues one. `expired` is history.

### Score

`score` is `users.credit_score`; a slot of `call` is an `addPositiveScore` or the loop
of `processLatePayments` with the user it is at (`who`) and the ones left (`late`).
`FindUser` reads, `UpdateScore` writes what was computed from the value read, and
`QueuePush` tells the user and goes on. `ScoreError` is swallowed by `ScoreService`;
`PushError` is caught by nobody and ends the loop. `due`, the score by the rules,
`mixed`, the users for whom two changes crossed or whose score was 0 (which the code
reads as 500), and `asked` are history.

## 4. Runs

| run | question | result |
|---|---|---|
| `contributions_safety` | two deliveries, a request, a job, one fault of each kind, an earlier event: `Ledger`, and what it rests on | holds |
| `contributions_liveness` | is every event acknowledged, does every job end, is every approved payment recorded if nothing fails, and who carries it until then | holds |
| `contributions_lost` | ... and if the process crashes once | violated: payment lost |
| `contributions_double` | does a member pay once per cycle | violated: two links, both paid |
| `cycles_serial` | one check at a time, cut off once: `Rotation`, payouts once, progress | holds |
| `cycles_concurrent` | two checks overlapping, one cut off: what is left | holds |
| `tontines_requests` | two requests overlapping, one cut off | holds |
| `tontines_twice` | one cycle per member | violated: two starts |
| `accounts_calls` | two calls for one phone overlapping, sms overtaking each other, one of them failing, keys lapsing | holds |
| `sessions_calls` | two requests of one user overlapping, one failed await, swallowed error, restart or restored snapshot, half-seconds up to the third second | holds |
| `vault` | two deployments and two records of one place, retried, timed out, dropped, cut off: `ProofBook`, what is under way while nothing fails, and what happens in the end | holds |
| `score` | four calls, two at a time, one failing: scores by the rules, users told once | holds |

What the properties say, and why they could fail:

- `LedgerAgreesWithProvider`: a row counts as paid only if FedaPay approved the
  transaction for the amount due, and is never FAILED if so. Every write is
  unconditional, so it depends on the key, on the order of the checks, and on
  FedaPay settling a transaction once. `StatusMovesForward` says the same of steps.
- `ImplementsLedger`: the same seen from outside, as a refinement of `Ledger`: no row
  moves and no sms is enqueued but as the ledger allows.
- `ProcessedOnce`: one job and one sms per transaction, with any number of deliveries,
  and one more of each at most every time the key lapses, even while the delivery that
  took it before is still on its way. `JobCarriesRowProof`: the proof
  that will be written on chain is the one the contribution shows.
- `EventsAcknowledged`, `JobsSettle`, `RecordedUnlessFault`: liveness, below.
  `NothingStranded` says why: as long as nothing failed, a settled payment whose
  contribution is PENDING has an event whose key is free or a delivery about to write
  the outcome, and a job that ended has marked its contribution. It holds of each step,
  needs no fairness, and is proved for any number of deliveries.
- `ClosedOnlyWhenFull` and `OpensAfterPayout` hold even when checks overlap;
  `ReopenedByStaleCheckOnly` says exactly how a cycle can be reopened then.
  `PayoutOnce`, `ImplementsRotation` and `CompletionAdvances` are about one check at
  a time.
- `RotationOfApproved`: whatever overlaps, a rotation is of approved members, each
  once, the organizer first. `EnrolmentMatches`, `OpenedOnItsTerms`: as long as nothing
  overlaps, members fit, cycles are one per confirmed member, and what was opened does
  not change. `StartedRotates`: a started tontine gets its cycles, unless a request is
  cut off.
- `LockGuardsPhone`: registrations exclude each other between the look-up and the
  insert, as long as no lock of 10 s lapsed under one. `LastSmsWorks`: the code in the
  last sms to arrive is the one compared with, unless two calls crossed, two sms were on
  their way at once, or something failed. `AttemptsExpire`: the counter does not lock
  a phone for good. `ThreeAttempts`: no more than three codes are compared between two
  clearings of the counter. `AddressMatches`: two verifications may both succeed, and
  both create a wallet; the user's row shows the one whose key was kept.
- `SessionEnds`: after a logout no refresh token is stored until the next login, but for a
  refresh that was past its check, a DEL that failed and was swallowed, and a restored
  snapshot (`outlived`). `RevokedIsRefused`: an access token stays refused as long as it
  lives, unless its logout swallowed an error or Redis lost the key (`unlisted`): the
  time to live, rounded to seconds before the SET is sent, must not end before the token's
  date; rounded up instead of down, the clock would make it (the mutant). A request whose
  date was checked just before the token's date and whose look at the blacklist comes just
  after may pass: by then the token is no longer good for another.
  `LatestIsStored`: a refresh token that was exchanged is not the one stored, but for
  overlapping requests and a restored snapshot. Each names what would break it, since the
  code has no lock and no check there.
- `ImplementsProofBook`: no proof is ever replaced or lost from sight, because the
  address of the row, once there, is the registered vault's (with a registry).
  `DeployedUnlessFault`: an enqueued deployment ends with an address.
  `RecordedIsAnswered`: a proof gets on chain without its caller knowing only by a
  timeout or a failure. `NothingStranded` is what both rest on: until the row has its
  address some job waits for something that was sent and not mined, or can go on, and
  the vault the registry took is the one about to be saved.
- `ScoreIsDue`: a score is what the rules make of it, but for changes that cross and for
  0. `ToldOncePerRun`: no late user is told twice for one run, and none is left out
  unless something failed.

### Bounds

- Contributions: one member, cycle and reference (references do not interact except
  through `CheckAlready`, which `contributions_double` explores with two), two
  concurrent deliveries, one fault of each kind. A lapse is needed to process an
  event twice, two deliveries to race for a key, one crash to strand either; three
  attempts and one stall are the code's and Bull's own numbers.
- Cycles: with N = 3 there is a first, a middle and a last cycle; overlapping checks
  need two, and N = 2 cycles to reopen one. `MaxPaid` lets all the contributions
  arrive, `MaxLost` is the number of calls cut off.
- Tontines: an organizer and two users, `max_members` of 2 or 3, so that a tontine
  can be full, and is changed; two requests, which is what overlapping takes.
- Accounts: two calls are what it takes to cross (two registrations, two resends, two
  verifications, or one of each); two codes tell the last from another; a wallet in
  place and one being created are two addresses; one job of each code in the queue, so
  that two sms race; one failed await, failed sms or restart.
- Sessions: two requests; two parts to the second, which is what rounding takes; tokens of
  three seconds, so that one may be older than, as old as and younger than another, good
  for two, so that the first reaches its date (the clock stops there) with a key set in
  any half-second before; one fault of any kind.
- Vault: two jobs deploy for one tontine, two calls record two proofs of one place
  (equal places are what conflicts), two attempts, so that one is a retry, two calls ever
  begun, so that a call that timed out is repeated, and one fault.
- Score: two users, one near 0 and one near 1000 (15 and 997, so that two changes reach
  the ends), two calls in progress, four ever, one fault.
- Deadlock is not checked: every component may rightly come to rest (all paid, all
  closed, all bounds used).
- Symmetry is used in runs without liveness only, on references, slots and users
  other than the organizer.

### Fairness

`FairSpec` of `Contributions`: a request or webhook that can continue does (Node
runs every continuation; an awaited call that hangs is the `error` fault); Bull's
worker takes and finishes jobs; FedaPay repeats an event until it gets a 200 and a
handler is sometimes free (strong fairness per event: slots come and go). No
fairness for members, for closing cycles or for faults. In `Cycles` and `Tontines`,
weak fairness of each call's continuation only. In `Vault`, weak fairness of each job
(Bull polls its queue), of each call (its receipt or its timer comes), and of mining as a
whole: the network mines what was sent, though not a given transaction before another.
`Accounts`, `Sessions` and `Score` state safety only: keys lapse and calls end without
any fairness.

## 5. Proofs

`Contributions_proofs`, for every value of the constants:

- `TypeCorrect`: `Spec => []TypeOK`. Inductive with `Named`: a slot past its first
  step names what it works on, a job its reference.
- `LedgerCorrect`: `Spec => []LedgerAgreesWithProvider`. The property speaks of
  rows; a webhook that is about to write one, an event that has not arrived, and a
  job that has not run must be known to be backed by the provider too. `LedgerInv`
  says this: `RowsBacked`, `EventsBacked` (every event owed or being handled is one
  its transaction has settled), `VerdictsBacked` (a handler past its verdict only
  confirms what is paid and only fails what cannot be), `JobsBacked`, and
  `FreshTransactions` (a request about to create a transaction does so on a new
  reference, so that it resets none). The lemma on transactions says that a settled
  one never changes.
- `JobProofCorrect`: as long as the key of a transaction has not lapsed, at most one
  handler is past it; `OnceInv` relates that handler's step to the jobs and sms there
  are.
- `StatusMovesForwardCorrect`: `WorkInv` adds that a handler past its confirmation, and every
  job, is about a row that is recorded as paid, and that a row that is BLOCKCHAIN_FAILED
  had its job; with `OnceInv`, a handler about to confirm has no job
  yet while the key has not lapsed, so that it finds its row PENDING.

`Ledger_proofs`, for every value of the constants:

- `ProcessedOnceCorrect`. Once keys lapse, several handlers of one transaction may be
  past it, so that the proof has to count: `CountInv` says that the jobs there are, the
  handlers still to enqueue one (`Ahead`), and one more if the key is free, are no more
  than the lapses plus one, and likewise for the sms (`Due`). The sets are finite
  whatever `Hooks` is, because a handler gets past the key only by taking it.
- `LedgerImplemented`: `Spec => ImplementsLedger`. Each step of the code maps to one step
  of the ledger or to none; `PipelineInv`, the conjunction of the invariants above, is
  what makes each unconditional update one that the ledger allows: `LedgerInv` that the
  outcome is the provider's, `WorkInv` and `OnceInv` that the row is where it should be,
  `CountInv` that the member may be told.
- `NothingStrandedCorrect`: `CalmInv` adds, while nothing has failed, that no key has
  lapsed and every handler past it holds it (`KeysHeld`), and that a key is taken only
  by the outcome (`Carried`). The last is where an earlier event of the transaction
  would break it: the property assumes that FedaPay sends none.
- `AttemptsCountedCorrect`: a job ends, and ends only, by its third attempt or its second
  stall. The invariant adds that a job about to mark its contribution is in its last.

`Cycles_proofs`, for any number of members:

- `CyclesTypeCorrect`, `ClosedWhenFullCorrect`, `OpensAfterPayoutCorrect`, for any
  number of overlapping checks. The inductive invariant `OrderInv` adds what a check
  has seen by its step (`CheckKnows`): a check that will complete a cycle knows it
  to have been full, one that will open the next has announced the payout. None of
  this is invalidated by another check, which is why these survive overlapping.
- `ReopenedCorrect`, from the same invariant: only a check at its last step takes a
  cycle out of COMPLETED, however many overlap.
- `RotationImplemented`: if there is one check (`Checks = {one}`), `Spec` implements
  `Rotation`. `SerialInv` adds that whatever precedes a cycle that has opened is
  COMPLETED, and that the check's cycle has the status its step expects.
- `PayoutOnceCorrect`, with one check: `PaidInv` adds that a cycle that is not COMPLETED
  has no payout yet, and that the one the check is about to announce has none.
- `OneOpenCorrect`, with one check, from `SerialInv`: before an open cycle all are over,
  after it all are to come.
- `HandedOverCorrect`, for any number of overlapping checks: as long as none is cut off, a
  completed cycle is in the hands of a check until the next is open, and the next
  beneficiary is told or about to be. It is inductive given `OrderInv`: a check lets go of
  a cycle only when it finds the next one no longer PENDING.

`Tontines_proofs`, for any number of users and requests: `TontinesTypeCorrect` and
`RotationOfApprovedCorrect`. `TontineInv` adds that there is one organizer, who stays
CONFIRMED (`OneOrganizer`: without it a rotation read later would not begin with them),
that who is confirmed was approved (`ConfirmedIsApproved`), and what a request read by
its step (`CallKnows`: `start` holds a set of approved members with the organizer in it,
long after it read it). That sorting by `payout_order` puts the organizer first is a
lemma on `Orders`.

`EnrolmentMatchesCorrect` and `OpenedOnItsTermsCorrect` are about requests that do not
overlap, each possibly cut off at any await. `AloneInv` says that then one at most is in
progress (`Others`), that what it read when it passed its checks still holds when it
writes (`Reads`: the stage, the room, the member, the confirmed members), and what the
rows are at each stage (`Stage`). The first is exactly what an overlap breaks.

`HalfDoneCorrect`, for any number of overlapping requests: as long as none is cut off, a
tontine without its organizer, a started one without cycles and a rotation that was not
announced are each in the hands of a request. It needs that a request past its checks
knows the organizer (`CallKnows`), and `RotationOfApproved` for who is announced.

`Accounts_proofs`, for any number of calls, codes and addresses: `AccountsTypeCorrect`,
`LockGuardsPhoneCorrect`, `AddressMatchesCorrect`, `AttemptsExpireCorrect`,
`LastSmsWorksCorrect`, `ThreeAttemptsCorrect`. `AccountInv`
adds to the properties what a call knows by its step (`CallKnows`: its operation, that
there is an account, the address it drew and, before `SetAddress`, saved), that there is
one registration at a time and the lock is set while there is (`OneRegistration`), and
that there is a code only for an account. Most steps change nothing but the call: the
lemmas `CallOnly`, `CallEnds` and `Moved` say once what such a step preserves.
`SmsInv` adds, for the sms, that as long as none crossed at most one code is on its way,
and whatever is stored is in a call, in the queue or in the last sms. `TriesInv` counts:
the comparisons made and those still to come are no more than the counter, the calls let
through being the finite set of slots that are before their comparison.

`Sessions_proofs`, for any number of requests, seconds and faults, any life of a token and
any resolution of the clock: `SessionsTypeCorrect`, `SessionEndsCorrect`,
`RevokedIsRefusedCorrect`, `LatestIsStoredCorrect`. `SessionInv` adds what a request knows
by its step (`CallKnows`; of a logout about to set its key, that the time it has computed
reaches the token's date when counted from now, which passing time only makes truer), that
a key lapses in the second of its token's date or later (`KeyReachesDate`), that a token
logged out without excuse has had a key or needs none (`KeyWasSet`), that no token is
signed later than now (`IssuedByNow`), that without excuse no refresh is in progress once a
session has ended (`EndedForGood`) and that one request issues tokens at a time as long as
none overlapped (`OneIssuer`). `RevokedIsRefused` follows from `KeyWasSet` and
`KeyReachesDate`, and is not inductive without them: it says nothing of a key not yet set.

`Vault_proofs`, for any number of jobs, calls, proofs and faults, first `VaultTyping`;
`AddressCorrect`, that with a registry the row's address is the registered vault's; and
`ProofBookImplemented`, the refinement. `VaultInv` adds that a job about to save holds
the registered vault (`SavesRegistered`: the registry takes one only), that calls and
transactions in progress go to the row's address and belong to who waits for them
(`CallKnows`, `TxKnows`), and that nothing is recorded elsewhere (`RecordedAtAddress`).
Each is needed: a proof recorded in another vault would leave the book when the address
is written. `BookInOrderCorrect` spells out what the refinement is good for: one proof per
place, and whoever was answered with a hash finds the proof.

`VaultNothingStranded` has two invariants more. `Known`, which holds with faults too: a
transaction is known to its job for exactly as long as the job waits for it. Without it an
attempt that fails would leave behind a transaction nobody waits for, though nothing
failed; with it a job has one such transaction at most. `Calm`, while nothing has failed:
without a registry no job deals with one (`Unset`), somebody waits for every transaction
but those of calls that timed out (`Awaited`), the vault the registry took is the one a job
is about to save (`Chosen`), until then every job enqueued is on its way (`Coming`), and a
proof on chain was reported or is about to be (`Reported`).

`Score_proofs`, for any number of users, calls and faults: `ScoreTypeCorrect`,
`ScoreIsDueCorrect`, `ToldOnceCorrect`. `ScoreInv` adds that a call about to write read
the score as it is, unless the user is in `mixed`; `ToldInv`, that the user a loop is at
is not among those it has left, so that the calls still to tell a user are a set of
slots that can be counted.

Assumptions: the named ASSUMEs of the modules (types of the constants, finiteness of the
sets that are counted), which TLC evaluates in every run of the module.

Every safety property of a passing run, the refinements included, is proved. Only
model-checked are the seven liveness properties (`EventsAcknowledged`, `JobsSettle`,
`RecordedUnlessFault`, `CompletionAdvances`, `StartedRotates`, `DeployedUnlessFault`,
`RecordedIsAnswered`), as liveness under fairness (and ENABLED) is out of TLAPS' reach. Of
all but the first the safety half is proved: that what must happen is still in the hands of
somebody who can go on. What TLC adds is that they do: `NothingStranded` for
`RecordedUnlessFault`, `DeployedUnlessFault` and `RecordedIsAnswered`, `HandedOver` for
`CompletionAdvances`, `HalfDoneIsInHand` for `StartedRotates`, `AttemptsCounted` for
`JobsSettle`. The last three are stated in the components' modules and listed by no run:
they are proved for every instance, and the runs check the liveness they are half of.

Induction over data is out of reach as well, which is why the modules count and quantify
instead of recursing; no module declares a RECURSIVE operator.

## 6. Findings

Each of the first three has a run whose counterexample shows it.

1. A crash, or a failed query, after the idempotence key is taken loses an approved
   payment (`contributions_lost`).
2. Two payment links for one cycle can both be paid (`contributions_double`).
3. Two starts create the cycles twice (`tontines_twice`).

The following were met while modelling, and show without a run:

- `user.sub` (`modules/contributions/contributions.controller.ts:43`) is undefined: the
  insert fails, and no payment can be initiated as it stands. The runs and proofs of
  `Contributions` take what the controller reads as a constant, `SubOf`; the runs give it
  the id the service expects, the proofs hold for any.
- A stale activation reopens a completed cycle (`modules/cycles/cycles.service.ts:180`)
  if two checks overlap; `ReopenedByStaleCheckOnly` says that nothing else does.
- `logout` swallows every error, where its comment speaks of an invalid token
  (`modules/auth/auth.service.ts:283`): one failed command of Redis and the client is told
  `LOGGED_OUT_SUCCESSFULLY` (`modules/auth/auth.controller.ts:72`) while the refresh token
  is still stored, or the access token not in the blacklist. `SessionEnds` and
  `RevokedIsRefused` carry it as a named excuse.
- The comments of `modules/notifications/workers/notifications.processor.ts` (lines 44
  and 70) count on Bull to try again; the jobs are enqueued with one attempt.
- The sms jobs of contributions and cycles carry no payload, which `handleSendSms` reads.
- A user whose score has come down to 0 has 505 or 480 points after the next change
  (`modules/score/score.service.ts:20` and `:38`).

## 7. Not modelled

Nothing that keeps state and is reached is left. Left out for good: `advanceCycle`,
`checkPaymentStatus` and `updatePayoutTxHash`, which have no callers; updates of columns
no handler reads (profile, KYC); sending of pushes (I/O, no state, no answer);
which kind a token is, access or refresh: both hold the same claims and `JwtStrategy`
does not tell them apart, so that a refresh token also passes as a bearer token until its own
date, whatever became of its key (the properties of `Sessions` about the blacklist are
about access tokens); a clock of Redis that differs from the service's;
Twilio's, Firebase's, FedaPay's and Polygon's own workings; validation and guards,
encryption, gas and RPC failover, health and configuration,
the CinetPay adapter (unused), and `dist/` (compiled output). Reads that change
nothing are left out of each component.
