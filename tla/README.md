# PayGam backend in TLA+

PayGam (`src/`) is a FastAPI back end for an e-wallet: payments guarded by a
fingerprint match (TapSign) and a risk model, identity and phone checks against
remote registries, PIN and device authentication, an event feed from partners
and a citizen risk score. Handlers declared with `def` run in a thread pool,
each with a database session of its own (`app/db/database.py:23-28`), so the
only state that calls share is the database; the interesting behaviour is what
their transactions do to one another. This directory holds models of that
behaviour, the TLC configurations that check them and proofs that TLAPS checks.

## 1. Inventory

| Part | State it keeps | Operations | Interacts with | What is hard | What makes it correct |
|---|---|---|---|---|---|
| Payments `endpoints/payments.py` | `transactions`, `wallets.balance`, row locks | `send_money`, in about eight round trips | TapSign, risk model, monitoring, wallets | concurrent calls, retries under one key, crashes between two commits, lock order, SQLite without locks | money moves once, only through both gates, and the two tables agree |
| Payment risk model `risk_service.py` | none | `score_transaction`, `decision_for_score` | payments | band edges, additive weights | riskier is never treated more mildly |
| Wallets, registration, login `auth.py`, `models/user.py` | `users`, `wallets` | `register`, `login` | everything | check-then-insert on the phone number, user and wallet inserted by two flushes | a user and its wallet exist together, and its phone number finds it |
| TapSign `tapsign.py`, `biometric_matching.py` | `biometric_templates`, `users.tapsign_enrolled` | `enroll`, `verify` | payments, member authentication | re-enrolment during a payment, check-then-insert | the flag stands for exactly one template |
| Face `face.py` | `face_templates`, `users.face_enrolled` | `enroll`, `verify` | member authentication | as TapSign | as TapSign |
| PIN `pin_service.py`, `pin.py` | `users.pin_hash`, `pin_failed_attempts`, `pin_locked_until` | `set_pin`, `verify_pin` | member authentication, partner features | read, slow bcrypt, write: lost updates; lock and counter written separately | attempts are counted, a lock holds, no lock without cause |
| Device keys `device_auth_service.py`, `device.py` | `device_keys`, `auth_challenges` | `register`, `challenge`, `verify` | users | check, verify, set; expiry | a challenge is used once, by the user it was issued to |
| EGOV identity `egov.py` | `users.egov_verified`, `national_id_number` | `verify` | payments | awaits a remote service between read and write; unique id | verified only on a positive answer |
| Phone/SIM `phone.py` | `users.phone_*` | `verify` | partner features | same; an outage looks like a negative answer | a late answer must not undo other columns |
| Risk monitoring `risk_monitoring_service.py` | `risk_events`, `risk_alerts` | `ingest_event`, monitors, aggregation | payments emit events | monitors run after the commit of the event they judge | alerts only, never a block; alerts are raised when they should be |
| Partner feed `partners.py`, `partner_feature_builder.py` | `partner_risk_events` | `ingest_event`, `build_features` | PIN counter, SIM swap, citizen risk | duplicated, late and concurrent deliveries | each event counts once |
| Citizen risk `citizen_risk_*.py` | `citizen_risk_predictions`, the model registry, artifact files | `decide`, `score_and_persist`, load, train on boot | partner features, member authentication | failure of the model, roll-out modes, files written in place, a registry created without a lock | rules stay authoritative unless a healthy model is allowed to decide; an installed registry is complete |
| Member authentication `main.py:119-189` | none of its own | `evaluate_member_authentication` | PIN, TapSign, phone, citizen risk | mixes one user row read early with a commit in the middle | as PIN |
| Tokens, dependencies `deps.py`, `security.py` | none | token check | everything | - | stateless, library code |
| Configuration, start-up `config.py`, `main.py` | settings | validation | everything | - | a list of independent checks |

`PROJECT.json` lists every part with its status and, under `hazards`, each place
where something can go wrong that a test would hardly reach.

## 2. Modules

| Module | What it is |
|---|---|
| `RiskScore` | the arithmetic of `risk_service.py`, in hundredths (every weight and threshold of the code has two decimals, so sums and comparisons are exact; the float sums round to four places before they are compared, `risk_service.py:50`) |
| `Ledger` | abstract: wallets and an append-only journal; a completed entry and its transfer are one step |
| `Payments` | `POST /payments/send`, one action per database round trip; refines `Ledger` |
| `Account` | the row of a user under the handlers that write it: PIN, phone, EGOV, fingerprint and face enrolment |
| `Device` | device keys and one-time challenges under concurrent calls |
| `Registration` | `POST /auth/register` by overlapping applicants: look-up, insert, commit, the two unique indexes |
| `EventLog` | abstract: a log of partner events in which no two bear one id, and acknowledgements of what is in it |
| `PartnerFeed` | partner deliveries, repeated and lost, and the builds of features from them, one action per round trip; refines `EventLog` |
| `CitizenRules` | the arithmetic of `citizen_risk_rules.py` and the combination of rules and model in `citizen_risk_policy.py`, in hundredths |
| `Scoring` | citizen scoring by threads that share one lazily built model registry, the artifact files and the offline trainer; extends `CitizenRules` |
| `Monitoring` | `POST /risk-insights/events`, the monitors it runs and the aggregation |
| `PaymentsProofs`, `RiskScoreProofs`, `AccountProofs`, `DeviceProofs`, `RegistrationProofs`, `PartnerFeedProofs`, `ScoringProofs`, `MonitoringProofs` | theorems and proofs |
| `MCPayments`, `MCAccount`, `MCDevice`, `MCRegistration`, `MCPartnerFeed`, `MCScoring`, `MCMonitoring` | instances for TLC |

How they meet: `Payments` starts from what `Account` keeps true (enrolled, EGOV
verified), `PartnerFeed` reads the two columns of a user's row that `Account`
changes (the environment actions `PinChanges` and `SwapIsStored` are what
`WrongPin`, `RightPin` and `TelcoAnswers` do to them), `Scoring` is asked about
the features that `PartnerFeed` built or that `MemberFeatures` takes from the
row, and `Registration` justifies that every user has one wallet.

### Payments and the code

A call of `send_money` is a program counter `pc[r]` with the locals that live
across a round trip (`recent`, `decision`, `snap`).

| Actions | Lines of `payments.py` |
|---|---|
| `Admit`, `RefuseUnverified` | 33-34, identity gate |
| `Replay`, `NoReplay` | 36-39, idempotency lookup |
| `RefuseUnenrolled`, `Approve`, `Deny` | 41-63, template, match, event (commits) |
| `RecordFailed` | 65-67, 149-167 |
| `RefuseReceiver`, `FindReceiver` | 69-75 |
| `CountRecent`, `Score` | 76-93 |
| `LockWallet` (PostgreSQL), `ReadWallets` (SQLite) | 95-105 |
| `RefuseInsufficient` | 106-109 |
| `RecordBlocked`, `RecordReview`, `Transfer`, `FailOverflow`, `LoseKeyRace` | 111-146 |
| `Respond` | 145-146, the reply leaves after the commit |
| `Fail` | any exception or restart (`main.py:85-92`): the session rolls back |
| `AbortDeadlock` | PostgreSQL's deadlock detector (external) |
| `HourPasses` | a row leaves the one-hour window of line 76 |

What is abstracted, and why nothing is lost by it:

- A row of `transactions` is written by at most one call and holds that call's
  body, so the table is a status per call (`tx`), and `risk_events` an event
  type per call. `RowInv` shows a call writes its row at most once.
- Registration creates a user and its wallet in one commit
  (`auth.py:20-28`), so every user has a wallet and the 404 of line 107 cannot
  be reached; it is folded into `RefuseInsufficient`'s line range.
- The match of line 45 is a free choice between `Approve` and `Deny`: the
  outcome depends on a vector computed on the client.
- A stored template that does not decrypt raises: `Fail`.
- An INSERT that meets an uncommitted row with its key waits for it. The holder
  of that row needs nothing the waiter has once it has inserted, so insert,
  wait and commit are one action.
- Rows leave the one-hour window in any order: more behaviours than a clock has.
- HTTP replies are reduced to: a row, a 4xx refusal, a 500.
- The ORM opens a transaction per session and PostgreSQL runs READ COMMITTED:
  each SELECT sees what is committed when it runs, which is what one action per
  round trip says. A row that `FOR UPDATE` waited for is re-read when the lock
  is granted: `LockWallet` reads the balance when it takes the lock.
- SQLite's dialect drops `FOR UPDATE`; a SELECT does not start a transaction in
  its driver, so only the writes serialise: `ReadWallets` holds nothing.

`Serial` names the only thing that the row locks are needed for: no two calls are
between their SELECT and their commit with a wallet in common.

### Account and the code

A session serves one request after another: `Load` is `get_current_user`
(`deps.py:18-33`), which reads the row; the handler works on that copy (`seen`)
and `Commit` writes back the columns it changed. `Merge` is what SQLAlchemy's
unit of work sends: an UPDATE of the attributes whose value differs from the one
read, as absolute values. So a column that another request changed meanwhile
survives unless this one changed it too, and a counter loses an update.

| Actions | Code |
|---|---|
| `Load`, `Fail` | `deps.py:18-33`; any exception or restart |
| `SetPin` | `pin.py:13-23`; a bcrypt hash is salted, so it is written even for the same PIN |
| `RefuseLocked`, `RefuseUnset`, `AdmitGuess` | `pin_service.py:41-48`, before bcrypt |
| `RightPin`, `WrongPin` | `pin_service.py:48-62` and the commit of the caller (`pin.py:26-40`, `main.py:149-152`) |
| `RefuseOther`, `TelcoAnswers` | `phone.py:16-31`, `phone_service.py:40-76` |
| `RefuseOther`, `EgovDenies`, `EgovConfirms`, `EgovConflicts` | `egov.py:13-27`, the unique index of `user.py:38` |
| `FindTemplate`, `SaveTemplate`, `EnrolmentConflicts` | `tapsign.py:14-34`, `face.py:13-29`; `TemplateTaken` is the unique `user_id` of the template tables (`user.py:75`, `87`) |

Time is in minutes and is all the module needs of it: a lock ends when the clock
passes it. `wrong` is a history variable: wrong PINs compared so far. What a
registry answers is a free choice. `templates` counts the rows a user has in each
template table, so a second one could be seen. `phone_last_verified_at` is never read and is
left out; `phone_last_sim_swap_at` is reduced to whether it is set.

### Device and the code

| Actions | Code |
|---|---|
| `LookUpDevice`, `RegisterDevice`, `LoseDeviceRace` | `device.py:20-38`, unique `device_id` (`user.py:100`) |
| `IssueChallenge`, `RefuseDevice` | `device.py:41-76`; no endpoint ever sets `revoked` or changes a key, so look-up and insert are one step |
| `CheckChallenge` | `device.py:85-93`: known, unused, not expired, for this device |
| `RefuseStranger` | `device.py:95-105`: the device is not this user's |
| `CompareSignature` | `device.py:107-111`, `device_auth_service.py:52-65`: the flag is set and committed whatever the signature is |
| `Reply` | `device.py:112`, and the other answers that follow a commit |
| `Fail` | an exception or a restart, before the commit or between it and the reply |

`answer` is what the server decided and committed, `told` what reached the client:
they differ when a call fails after its commit, which uses up a challenge without
anybody being told. A signature is abstracted to who signed the challenge's nonce (`NoKey`: it is no
signature of it at all). `issuedTo`, `late` and `overlapped` are history: who
asked for a challenge, which calls began when theirs was already expired or used,
and which challenges a call found unused while another was still judging a
signature of theirs (`Judging`). A challenge's `action` is stored and never read again.

### Registration and the code

| Actions | Code |
|---|---|
| `Apply`, `LookUp` | `auth.py:14-18`; a phone number on file is refused with 400 |
| `InsertPhone`, `InsertEmail` | the flush of `auth.py:27`: the INSERT enters the two unique indexes one after the other, in the order in which they were created (`0001_initial_schema.py:43-44`) |
| `LoseRace` | a row committed meanwhile has the phone number or the email: 500, and the transaction is rolled back |
| `Commit` | `auth.py:28-29`: the wallet is inserted by the flush before the commit, in the same transaction |
| `Reply` | `auth.py:31`, or the 400 or 500 |
| `Fault` | an exception, a restart or a lost reply; the session rolls back |

PostgreSQL makes an INSERT wait at an index for an open transaction that holds an
equal entry (`PhoneFree`, `EmailFree`) and fails it when that commits; if it rolls
back, the waiter goes on. Who waits for an email already holds a phone number, so
a third applicant may wait for one who waits (`HoldsPhone`, `HoldsEmail`). Primary
keys are drawn (`FreeIds`), never reused. `created` is history: who was told 201.
Login and the look-up of a receiver in a payment take the first user with a phone
number, so `PhoneFindsOwner` is what both rest on.

### PartnerFeed and the code

| Actions | Code |
|---|---|
| `Deliver`, `LookUp(w, "check", ...)` | `partners.py:22-25`, the endpoint's own look-up |
| `LookUp(w, "recheck", ...)`, `Insert`, `LoseIdRace` | `partner_feature_builder.py:31-45`, unique `event_id` (`citizen_risk.py:52`) |
| `Reply` | `partners.py:25`, `35`: "recorded", as a duplicate or not; the partner knows |
| `Build`, `ReadEvents`, `ReadUser`, `Answer` | `partners.py:42-52`, `partner_feature_builder.py:54-89` |
| `PinChanges`, `SwapIsStored` | what other handlers do to the row meanwhile (`pin_service.py`, `phone_service.py`) |
| `Fault` | an exception, a restart or a lost reply |

An event is its id, its subject, the feature its type counts for, the place its
payload names and when it happened; payloads are otherwise never read. A visit
without a place counts as a place of its own, as the row id does in the code.
`acknowledged` and `owed` are history: whose partner was told, and which
acknowledged events a build that began afterwards must count. `since` is the start
of a build's window, computed once before the events are read
(`partner_feature_builder.py:54`). `SoleId` excepts
events whose id another event bears as well: of these only one is ever stored.

### Scoring and the code

| Actions | Code |
|---|---|
| `Starts`, `Init` | `config.py:107-136`, `main.py:39-40`: a production process that may train does not start |
| `Ask` | `citizen_risk_policy.py:77-79`, `config.py:93-105`: the rollout mode of the organisation |
| `OpenRegistry`, `Install`, `LoadSegment`, `SkipSegment`, `LoadFails` | `citizen_risk_model.py:138-174`, `195-199` |
| `TrainSegment`, `OpenFile`, `SaveSegment` | `citizen_risk_model.py:86-121`, `172-174`: `joblib.dump` opens the file in place |
| `OpenFails`, `SaveFails` | training raises or the file cannot be opened, and it is what it was; writing it stops half way, or the description beside it cannot be written |
| `Gate` | `citizen_risk_policy.py:79-86`, outside the `try` |
| `Predict`, `Combine` | `citizen_risk_policy.py:60-73`, `88-188` |
| `Persist`, `Reply` | `citizen_risk_service.py:21-47` and the endpoints |
| `PersistFails` | the audit row cannot be committed: a 500, although a score was decided |
| `TrainerOpens`, `TrainerSaves`, `TrainerStops` | `scripts/train_citizen_risk.py:12-27`, a second process |
| `Restart` | the server process stops; its registry and its half-written files are what they are |

A file is missing, whole, torn (a writer stopped half way), or named after who
writes it now. Training is seeded and takes its data from the code, so all
writers write the same bytes; what a model answers is any of `Probabilities`.
The mode of a call is read once; the registry is read twice, by the gate and by
the prediction; `model` is where the model that answered came from, read from an
artifact or trained by the server.

### Monitoring and the code

| Actions | Code |
|---|---|
| `Emit`, `Commit` | `risk_monitoring_service.py:26-38`: stamped, then committed |
| `Since`, `Count`, `Warn` | `monitor_excessive_attempts`, 67-83: the start of the window is computed, then the query is sent |
| `LookForDevice`, `Inform` | `monitor_unusual_device`, 86-102 |
| `Reply`, `Fault` | `risk_insights.py:14-28`; what is committed stays |
| `AggregateForDevice` | `risk_insights.py`, 43-62 |

An alert carries three fields of history: the event whose request raised it, when
that request fixed its window and when it counted. Alerts are a set; two requests that raise the same
alert write two rows, which nothing in the code tells apart.

## 3. Runs

| Run | Shows |
|---|---|
| `payments_postgres` | three concurrent calls between two wallets, with crashes, lost replies, retries with a key, duplicates, an empty key and no key: the ledger is implemented (`ImplementsLedger`), balances equal what the journal says (`BalancesMatchLedger`), one row per key, both gates, true answers, no lock cycle, and the inductive invariant `IInv` that the proofs use |
| `payments_unordered` | a ring of three wallets locked in whatever order the scan yields: PostgreSQL breaks every cycle, money is safe and every call is answered (`EveryCallAnswered`, liveness) |
| `payments_sqlite` | the default database, where `FOR UPDATE` does nothing, with the identity gate on: the books can go wrong only by two settling calls with a wallet in common; in every behaviour without such an overlap balances match the journal throughout (`SafeIfSerial`) |
| `account` | two sessions that serve PIN, phone, identity and enrolment requests of two users: an account is locked only after enough wrong PINs although updates are lost (`LocksHaveCause`), nobody starts guessing under a lock (`GuessersPredateLock`), a lock in force outlives every stale commit but that of a PIN request which read an older lock (`LockLifters`), ids are not shared, an enrolled flag stands for one template (`EnrolledHasTemplate`) |
| `device` | registration, challenges and verification by four overlapping calls: who may answer a challenge (`IssuedToVerifier`), until when (`OverIsOver`), who uses it up (`OnlyOwnerConsumes`), and that only calls which judge it at once can both be verified (`TwiceOnlyByOverlap`), whether or not their clients are told |
| `registration` | three overlapping applicants, two for one phone number and two for one email: who was told 201 has a whole account that the number finds (`PhoneFindsOwner`), every request ends unless it is overtaken at the index of the phone numbers again and again (`EveryRegistrationEnds`, liveness) |
| `partner_feed` | two threads that handle deliveries and builds, with a fault, a day that passes and two partners that use one event id: the event log is implemented (`ImplementsEventLog`), and every event is acknowledged in the end (`EveryEventAcknowledged`, liveness) |
| `feature_build` | one thread delivers five events (late payments, a swap, two visits), one of them before the window and one under a used id, the other builds features, while a PIN, a stored swap and the day change: a build counts everything acknowledged before it and nothing that is not on file in its window, once (`FeaturesMatchFeed`) |
| `scoring` | two threads, the offline trainer and a fault, in four deployments and from any missing artifacts: the rules decide unless a model may (`RulesUnlessTrusted`), production trains nothing (`NoSilentTraining`), a request fails only at the gate of an assisted decision in production or because its audit row cannot be stored (`ScoringSurvives`), a registry is complete (`RegistryIsComplete`) and comes up (`RegistryComesUp`, liveness), riskier citizens never score lower (`RiskierNeverScoresLower`) |
| `monitoring` | two overlapping reports about a device that two subjects share, with the clock and a fault: alerts tell the truth (`AlertsJustified`), too many attempts and new devices do not pass unnoticed (`AttemptsNoticed`, `NewDeviceFlagged`) |
| `finding_*` | one statement of a doc or a comment each that the code does not keep; see section 6 |

Bounds. Two or three users and three calls: a lost update, a lock cycle and a
key race each need two calls, a cycle without a common pair needs three, and the
third call lets a retry follow a race. One non-empty key that all senders share
(keys are not scoped to a user), plus the empty and the absent key. Amounts are
1000, 40000 and 60000. On PostgreSQL the wallets start at 61000 and 500 with
61000 as the column's limit: one wallet is exhausted by one payment, the other
can pay only after it was paid, and after a payment of 60000 one more overflows
the column. The ring and the SQLite runs add a wallet of 39000 and a limit of
99500. In `payments_sqlite` the first call is a payment that passes and the other
two are any, those included that the gates stop. Hours 3 and 12 stand for both sides of the only comparison of the hour.
`BlockThreshold` is
a deployment setting (`config.py:64`); 70 instead of the default 85 makes the
blocked branch reachable with two amounts. Calls are interchangeable, so runs without liveness use
symmetry. `CHECK_DEADLOCK` stays on, except in
`monitoring`: where payments end, `Finished` names the state, and the other
modules can always take another request.

`account` has two sessions, the least that interleave, and they serve any number
of requests one after another. `MaxAttempts` is 2 (5 in the code) and
`MaxWrong` 3: a lock needs a counted attempt before it, a lost update needs a
third wrong PIN, and a lock can follow a lock. `Lockout` and `MaxClock` are two
minutes: a lock is in force, is prolonged by a late wrong PIN, runs out, and is
followed by another that a request which read the first one may lift. Ann makes every kind of request, bob competes for her id
only: rows of different users meet in the unique id alone. Face enrolment is the
same code as fingerprint enrolment on another table and column, so the instance
has one of them. `device` needs four calls for its longest story: register, ask,
answer, answer again, or two registrations of one device id, ask, answer. `TTL`
is 1 and `MaxClock` 2, so a challenge is answered in time, at its last moment and
too late.

`registration` has three threads: two race, the third takes what a loser frees or
waits for who waits; three ids, so every form can become an account, and one fault. `partner_feed` has
three events: one that leaves the window as the day passes, a swap of the member
and, with the swap's id, a visit of another citizen; two workers suffice for two
deliveries of one event and for a delivery in the middle of a build. `MaxClock` 1
lets the day pass once; the PIN counter does not change there. `feature_build` has
five events of three kinds, a late payment standing for the other counts that are
the same expression in the code; they are delivered by one thread and without
faults, since what repeated and failing deliveries do is what `partner_feed`
shows; the counter changes once. `scoring` has two
segments, so a registry can be half loaded, one run of the offline trainer and
one fault, so a torn file can be left by any of its writers; 45 and 90 are a
model that is unsure and one that is not. `monitoring` stores three events
against a threshold of 2, so the threshold is reached, exceeded and not reached;
the clock moves twice, past `Window` and up to `LongWindow`. There the bound on
events and on the clock stops the model, so `CHECK_DEADLOCK` is off: the server
would take another request.

Fairness. In `Payments`, `WF(Handle(r))` for each call the server has accepted: the threads of
the pool keep running, PostgreSQL grants a free lock and its detector runs after
`deadlock_timeout`. Nothing makes a client call, a crash or the passing of an
hour happen. Weak fairness is enough because a call that waits for a lock waits
for one whose holder is itself weakly fair. `Registration`, `PartnerFeed` and
`Scoring` assume the same of their threads, `Scoring` of the trainer once it has
opened a file. Weak fairness of an applicant does not promise that it enters the
index of the phone numbers: PostgreSQL wakes every waiter when an entry goes away,
and any of them, or a newcomer, may enter first. `EveryRegistrationEnds` therefore
excepts an applicant who waits for a number while, again and again, somebody who
held it fails at the email (`Overtaken`); every other wait ends.
`EveryEventAcknowledged` needs more: `SF` of delivering an event
while it is not acknowledged. It says that a partner repeats a delivery until it
is answered, which is what the duplicate answer of `partners.py:23-25` is for,
and that a request which waits for a thread gets one in the end; strong, because
threads are busy again and again. Faults are bounded, as always in a liveness
check: after the last one the system must recover. `RegistryComesUp` assumes in
its premise that requests keep coming.

## 4. Proofs

`PaymentsProofs` proves, for any finite set of calls and any users, bodies, keys
and settings that satisfy `BodyAssumption` and `ConstantAssumption`:

- `TypeCorrect`: `Spec => []TypeOK`; balances are naturals, so no wallet is ever
  overdrawn.
- `Inductive`: `Spec => []IInv`. The properties are not inductive alone: that a
  transfer writes from a current balance depends on who holds which lock
  (`LockInv`, `SettleInv`), that a key race is lost by all but one depends on a
  row existing only after its commit (`RowInv`), and that both gates were passed
  depends on what the control point implies (`ApprovedInv`, `PayableInv`).
  `FinishInv`, `CommitInv`, `AdvanceInv` are the three shapes of a step: the
  call ends without a commit, commits, or moves on.
- `KeysAreUnique`, `BothGates`, `Answers`: from `IInv`.
- `Snapshots`: with row locks, what a call is about to write rests on current
  balances. It assumes PostgreSQL, as it must.
- `StableOrderAvoidsCycles`: if the scan follows one order of the wallets, no
  set of calls waits in a cycle: among the wallets that members of a cycle wait
  for, one has the lowest rank, but the call that waits for it holds one of lower
  rank, for which another member waits.
- `SerialLedgerBalances` (`SafeIfSerial`) and `LedgerBalances`
  (`BalancesMatchLedger`, with row locks): every wallet equals its funding and the
  rows. `BalancesMatchLedger` adds amounts up with `MapThenSumSet`, whose order is
  fixed by CHOOSE, so the section on sums shows first that the order does not
  matter. Induction is not available; smallest counterexamples are: a nonempty
  family of finite sets has a member from which nothing can be removed within the
  family (`LeastSet`), and a smallest set on which two sums differ cannot exist
  (`SumExists`, `SumRemove`, `SumAgrees`). Then each `Transfer` adds one row to
  each side of the equation (`TransferMatches`), and no other step changes either
  (`OthersMatch`). What a transfer needs is only that its snapshot is current
  (`FreshInv`): row locks give it (`LocksKeepFresh`), and without them `Serial`
  does (`SerialKeepsFresh`).
- `MoneyConserved`: under the same condition the sum of all balances never
  changes, for any finite set of users.
- `RowsAreFinal`, an action property: a committed row and the event of its call
  never change again.
- `SerialRefinement` and `Refinement`: while settling calls share no wallet, and
  with row locks always, `Payments` implements `Ledger`; each `Commit` is a
  `Hold` or a `Transfer` of the abstract journal and everything else stutters.
- `StepsAreProgress` and `SomeCallIsReady`: what can be proved of
  `EveryCallAnswered` without ENABLED. `Distance`, at most eleven, falls with every
  step of a call's handler and is raised by no other step; and as long as a call is
  in flight the guard of some call's step holds (`Ready` lists the guards). If
  all calls in flight waited, those that hold a lock would wait for one another;
  a smallest set of these in which each waits for a member is a cycle
  (`WaitersCycle`), which the database breaks. It assumes `ClockHours` nonempty: a
  call is scored at some hour. That fairness turns the two into
  `EveryCallAnswered` is left to TLC.

`AccountProofs` proves `Inductive`: `Spec => []IInv`, and from it `LockCause`,
`Guessers`, `Identities` and `Enrolment`, for any users, sessions, requests,
number of attempts and cooldown. A row that a session read may be out of date,
so `LocksHaveCause` needs to know that even a stale counter never exceeds the
wrong PINs there were (`CounterInv`) and that a lock once read had its cause
(`ReadLocksInv`); identities and flags need that what was read and only ever
grows still holds (`ReadFlagsInv`); one template per flag needs that the row an
enrolment found is still there when it updates it (`StepInv`). Every step is a commit or leaves the table
alone; `CommitInv` says once what a merged row must satisfy. `LocksSurvive`
proves the action property `LockLifters`: a commit changes a lock only if its
handler did (`CommitLock`); a right PIN was admitted because the lock it read was
over (`GuessInv`), so if it lifts one in force it had read another; and a wrong PIN
cannot shorten a lock, since none lasts longer than the cooldown (`CooldownInv`). `EveryWrongPinCounts` and `LocksHold` say
what the accounting is worth when no two PIN requests of one user overlap
(`PinsAlone`): what such a request read is then still current when it commits
(`ReadIsCurrent`), although phone, identity and enrolment requests of the same
user come between, so each wrong PIN is counted, the limit locks, and nothing is
compared under a lock. Without `PinsAlone` neither holds (section 6).

`DeviceProofs` proves `Inductive`, `Issuing`, `Over`, `Consuming`, `Twice` and
`OnceIfAlone` for any number of overlapping calls. That only the user a challenge was issued to can
answer it rests on a device having one key (`KeysInv`) and on the challenge
having been issued to its owner (`IssueInv`); that a late call never succeeds
rests on a used challenge being marked (`ConsumedInv`) and on what a call knows
when it is about to compare a signature (`StepInv`). `Twice` says exactly
when the check-then-set of the used flag goes wrong: a call that judges a
challenge either has company, now or before, or finds it unused and is alone
(`OverlapInv`).

`RegistrationProofs` proves `Inductive` and `Owner` for any number of applicants,
forms and faults. `PhoneFindsOwner` is not inductive: a row that is not yet
committed must already be compatible with the committed ones and with every
other open one in each index it has entered (`PendingInv`), which is what the
waiting INSERT buys. `WaitsEnd` is what can be proved of the waits without
fairness: whoever waits at an index waits for exactly one other, and if that one
waits too, then for one that has only to commit. So chains have at most two links
and no cycle; it rests on both indexes being entered in one order.

`PartnerFeedProofs` proves `Inductive`, `Refinement` (`Spec` implements
`EventLog!Spec`: an `Insert` is a `Record`, a `Reply` an `Acknowledge`, all else
stutters) and `FeaturesMatch`. The last follows the debt of a build through its
two reads: `OwesPast` (what it owes was acknowledged, so it is on file),
`SeenPast` (what it owes is among the rows it read) and `Counted` (its numbers
are those of these rows), and then compares cardinalities: rows with different
ids count at least the events owed and at most the events of the subject that are
on file in the window when the build is done. Where the two agree a count is exact;
between them it depends on when a delivery came, and no more can be said.

`ScoringProofs` proves `Inductive`, and from it `Trusted`, `Training`, `Survives`
and `Complete`, for any segments, deployments, requests and threads; `Monotone`
proves `RiskierNeverScoresLower` for all features. The strengthening says what a
thread that builds a registry keeps true of it before it installs it
(`BuildInv`), which mode a request may still have in each place of the code
(`ModeInv`), and that files do not go missing (`MissingInv`). `Survives` leaves the
two kinds of 500 of section 6 and excludes every other; it says nothing of how
often they happen.

`MonitoringProofs` proves `Inductive`, and from it `Justification`, `Noticed` and
`NewDevice`, for any windows, threshold and number of overlapping requests. That
an alert stays justified rests on a table that only grows and a clock that does
not run backwards (`Grew`); that too many attempts are noticed on no event being
stamped in the future (`StampInv`) and on a request counting at least the events
up to its own in the window it fixed before (`WarnInv`, `CountInv`); that aggregations agree (`Shown`) on an
attempt being a login or a requested approval and never both.

The proofs assume of the constants only what `BodyAssumption`, `JobAssumption`
and their like name; TLC evaluates these in every run.

`RiskScoreProofs!Monotone` proves, for all amounts, counts, hours and thresholds,
that a payment which is at least as risky in every respect is never treated more
mildly: a lemma on each weight, one on their capped sum. The score keeps no state,
so it has no run of its own.

Only model-checked: `EveryCallAnswered`, `EveryRegistrationEnds`,
`EveryEventAcknowledged` and `RegistryComesUp`: liveness under fairness is out of
the prover's reach. Every invariant and every action property that a passing run
checks is stated by a theorem.

## 5. Plan

Done: payments, ledger and risk score; the users table; device challenges;
registration; the partner feed and its abstract log; rules, roll-out policy and
model registry; risk monitoring. Every safety property of a passing run is
proved. Left, in this order:

1. Measures of progress like `StepsAreProgress` for registration, the partner feed
   and the building of a registry.
2. A composition of `Account` and `PartnerFeed` over one users table, in place of
   the environment actions of the latter.
3. Refreshing a token and the dependence of a session on its user's row, should
   tokens ever be revoked.

## 6. Where documentation and code disagree

With a run:

- `finding_lock_order`: `payments.py:95` announces a stable lock order; the
  locking SELECT has no ORDER BY. Money stays safe (`payments_unordered`), one of
  two payments between the same two wallets, in either direction (the ids are
  sorted before the SELECT), may fail with a 500. `StableOrderAvoidsCycles` shows
  that the announced order would be enough.
- `finding_verified_twice`: `device_auth_service.py:17-19` has a challenge
  consumed at once so that it is never accepted again; two overlapping calls are
  both verified, and this is the only way (`TwiceOnlyByOverlap`, proved);
  calls that do not overlap are not (`OverIsOver`, `OnceIfAlone`).

Observed while modelling, each visible in the actions of a model:

- `README.md:79-80` has every attempt recorded in `transactions`; five early
  returns leave no row (the `Refuse...` actions of `Payments`).
- The first-time-payee weight of `risk_service.py:42` is lost after any failed,
  blocked or held attempt (`IsNewReceiver`).
- `pin_service.py:4-6` has every verification attempt counted; of two that
  overlap one is not (`Merge`). An account is still never locked without cause,
  and an attempt begun after a lock is refused, but a right or a new PIN whose
  request read an older lock lifts one set meanwhile (`LockLifters`); when PIN
  requests of a user do not overlap, every one is counted (`EveryWrongPinCounts`).
- On the default database "Lock wallets" locks nothing, and two payments at once
  can lose an update (`ReadWallets`); nothing else can make a balance wrong
  (`SafeIfSerial`).
- `risk_monitoring_service.py:87` flags approvals from a device not seen before
  with the subject; the event is committed before the monitors run, so an
  `approval_consumed` or `device_bind` event vouches for itself
  (`NewDeviceFlagged` excepts it).
- `internal_risk.py:30` says that the endpoint always returns a score; in
  production the gate opens the registry outside the `try`
  (`citizen_risk_policy.py:80`), and a torn artifact is a 500; so is a score whose
  audit row cannot be committed (`citizen_risk_service.py:46`). `ScoringSurvives`
  excepts these two.
- `PARTNER_CITIZEN_RISK_DATA.txt:115` builds features from a window; a SIM swap on
  file in the users table is never out of it (`FeaturesOf`).
- Idempotency keys are looked up without their sender, and a second user's call
  under a used key is answered with the first user's row (`Replay`,
  `payments.py:38`).
- An artifact trained offline from synthetic data is loaded in production like any
  other; only what the server trains itself is kept out (`NoSilentTraining`).
- Event ids are unique across partners, and a second partner's event under a
  used id is acknowledged and never stored (`SoleId`).
- In member authentication the telco's answer replaces the swap on file, and an
  outage is an answer that there was none (`MemberFeatures`, `main.py:166-167`).

## 7. Not modelled

- Authentication dependencies and tokens: JWT, bcrypt and Fernet are libraries;
  what is left is a check of a request against one row, and keeps no state.
- Matching of biometric vectors, training and prediction: numeric functions in
  floating point; their results are free choices of the models.
- `monitor_tapsign_bypass` has no caller; no endpoint acknowledges an alert.
- Settings other than those `Scoring` uses: independent checks at start-up, one
  boolean (`otherChecks`) in `Starts`.
- Request schemas beyond the bounds they put on inputs, response formats,
  middleware, the health probe.
- Migrations: they run once before a server starts; their tables and unique
  indexes are the initial states and index guards of the modules.
- Synthetic data, the order of the feature vector and the metrics of the training
  script.
