------------------------------ MODULE Payments ------------------------------
(***************************************************************************)
(* POST /payments/send (app/api/v1/endpoints/payments.py) as it runs: many *)
(* calls at once, each in a thread and a database session of its own, and  *)
(* one action per round trip to the database.  Between two round trips a   *)
(* call keeps only its locals, and other calls run.                        *)
(*                                                                         *)
(* A row of the transactions table is written by at most one call and      *)
(* holds that call's body, so the table is a status per call.  The same    *)
(* holds of risk_events: a call emits at most one event.                   *)
(***************************************************************************)
EXTENDS RiskScore, FiniteSets, FiniteSetsExt

CONSTANTS
  Users,           \* registered users; registration gives each one a wallet
  Requests,        \* calls of POST /payments/send
  Bodies,          \* what a call may carry (see BodyAssumption)
  Keys,            \* non-empty Idempotency-Key values
  EmptyKey,        \* the header is present and empty
  NoKey,           \* the header is absent
  NoUser,          \* the receiver's phone number belongs to nobody
  NoRequest,       \* the owner of a row nobody has locked
  Enrolled,        \* users with a TapSign template
  EgovVerified,    \* users whose national id was verified
  RequireEgov,     \* settings.PAYMENTS_REQUIRE_EGOV_VERIFIED
  InitialBalance,  \* funding: no endpoint adds money to the system
  MaxBalance,      \* the largest value of a NUMERIC(18, 2) column
  Postgres,        \* TRUE: PostgreSQL; FALSE: SQLite, the default database
  StableOrder,     \* TRUE: the scan of the two wallets follows Rank
  Rank,            \* the order of wallets in an index scan
  ClockHours       \* hours of the day at which calls are scored

ASSUME BodyAssumption ==
  Bodies \subseteq [sender : Users, receiver : Users \cup {NoUser},
                    amount : Nat \ {0}, key : Keys \cup {EmptyKey, NoKey}]

ASSUME ConstantAssumption ==
  /\ IsFiniteSet(Requests)
  /\ NoUser \notin Users
  /\ NoRequest \notin Requests
  /\ NoKey \notin Keys \cup {EmptyKey}
  /\ EmptyKey \notin Keys
  /\ {RequireEgov, Postgres, StableOrder} \subseteq BOOLEAN
  /\ MaxBalance \in Nat
  /\ InitialBalance \in [Users -> 0..MaxBalance]
  /\ ClockHours \subseteq Hours
  /\ Rank \in [Users -> Nat]
  /\ \A u, v \in Users : Rank[u] = Rank[v] => u = v

VARIABLES
  balance,   \* wallets.balance
  tx,        \* transactions.status of the row a call wrote, "none" before
  old,       \* rows of transactions written more than an hour ago
  events,    \* risk_events.event_type of the event a call emitted
  lock,      \* the call that holds the row lock of a wallet
  pc,        \* where a call is in send_money
  pay,       \* its body and header
  recent,    \* recent_tx_count
  decision,  \* what the risk model decided
  snap,      \* the balances its SELECT returned, 0 where not read
  reply,     \* what the client received or is about to receive
  answer     \* the row a successful reply shows

tables == <<balance, tx, events>>
locals == <<recent, decision, snap>>
vars   == <<balance, tx, old, events, lock, pc, pay, recent, decision, snap,
            reply, answer>>

RowStatuses == {"failed", "blocked", "requires_review", "completed"}
EventTypes  == {"approval_consumed", "approval_denied"}
Replies     == {"row", "refused", "error"}
Steps       == {"idle", "lookup", "verify", "denied", "receiver", "count",
                "score", "wallets", "settle", "respond", "done"}

TypeOK ==
  /\ balance  \in [Users -> Nat]
  /\ tx       \in [Requests -> RowStatuses \cup {"none"}]
  /\ old      \subseteq Requests
  /\ events   \in [Requests -> EventTypes \cup {"none"}]
  /\ lock     \in [Users -> Requests \cup {NoRequest}]
  /\ pc       \in [Requests -> Steps]
  /\ pay      \in [Requests -> Bodies]
  /\ recent   \in [Requests -> Nat]
  /\ decision \in [Requests -> Decisions \cup {"none"}]
  /\ snap     \in [Requests -> [Users -> Nat]]
  /\ reply    \in [Requests -> Replies \cup {"none"}]
  /\ answer   \in [Requests -> Requests \cup {NoRequest}]

-----------------------------------------------------------------------------
Nothing == [u \in Users |-> 0]

Init ==
  /\ balance  = InitialBalance
  /\ tx       = [r \in Requests |-> "none"]
  /\ old      = {}
  /\ events   = [r \in Requests |-> "none"]
  /\ lock     = [u \in Users |-> NoRequest]
  /\ pc       = [r \in Requests |-> "idle"]
  /\ pay      \in [Requests -> Bodies]
  /\ recent   = [r \in Requests |-> 0]
  /\ decision = [r \in Requests |-> "none"]
  /\ snap     = [r \in Requests |-> Nothing]
  /\ reply    = [r \in Requests |-> "none"]
  /\ answer   = [r \in Requests |-> NoRequest]

Sender(r)   == pay[r].sender
Receiver(r) == pay[r].receiver
Amount(r)   == pay[r].amount
Parties(r)  == {Sender(r), Receiver(r)}

\* The committed rows of the transactions table.
Rows == {q \in Requests : tx[q] # "none"}

\* Mutant: the unique index is missing.
KeyTakenUnindexed(r) == FALSE

\* transactions.idempotency_key is unique, and NULLs never collide.
KeyTaken(r) == /\ pay[r].key # NoKey
               /\ \E q \in Rows : pay[q].key = pay[r].key

Goto(r, step) == pc' = [pc EXCEPT ![r] = step]

\* Mutant: a session that is never closed.
ReleaseNothing(r) == UNCHANGED lock

\* Closing a session rolls back what it has not committed: its locks go.
ReleaseLocks(r) ==
  lock' = [u \in Users |-> IF lock[u] = r THEN NoRequest ELSE lock[u]]

\* The locals of a call die with it.
Forget(r) ==
  /\ recent' = [recent EXCEPT ![r] = 0]
  /\ snap'   = [snap EXCEPT ![r] = Nothing]

\* The handler is over: the session is closed and the reply is out.
Finish(r, kind, row) ==
  /\ Goto(r, "done")
  /\ reply'  = [reply EXCEPT ![r] = kind]
  /\ answer' = [answer EXCEPT ![r] = row]
  /\ ReleaseLocks(r)
  /\ Forget(r)
  /\ UNCHANGED <<old, pay, decision>>

\* A 4xx the handler raises with nothing left to commit.
Refuse(r) == Finish(r, "refused", NoRequest) /\ UNCHANGED tables

-----------------------------------------------------------------------------
(* Lines 33-67: the identity gate, the idempotency lookup and TapSign.      *)

EgovGate(r) == RequireEgov => Sender(r) \in EgovVerified

Admit(r) ==
  /\ pc[r] = "idle"
  /\ EgovGate(r)
  /\ Goto(r, "lookup")
  /\ UNCHANGED <<tables, locals, old, lock, pay, reply, answer>>

RefuseUnverified(r) ==
  /\ pc[r] = "idle"
  /\ ~EgovGate(r)
  /\ Refuse(r)

\* The stored row is returned whoever wrote it and whatever its status.
Replay(r) ==
  /\ pc[r] = "lookup"
  /\ pay[r].key \in Keys
  /\ \E q \in Rows : /\ pay[q].key = pay[r].key
                     /\ Finish(r, "row", q)
  /\ UNCHANGED tables

\* An empty key is falsy, so it is never looked up, yet it is stored.
NoReplay(r) ==
  /\ pc[r] = "lookup"
  /\ pay[r].key \in Keys => ~KeyTaken(r)
  /\ Goto(r, "verify")
  /\ UNCHANGED <<tables, locals, old, lock, pay, reply, answer>>

RefuseUnenrolled(r) ==
  /\ pc[r] = "verify"
  /\ Sender(r) \notin Enrolled
  /\ Refuse(r)

\* The outcome of the match and the event, committed before the payment.
TapSign(r, event, step) ==
  /\ pc[r] = "verify"
  /\ Sender(r) \in Enrolled
  /\ events' = [events EXCEPT ![r] = event]
  /\ Goto(r, step)
  /\ UNCHANGED <<balance, tx, old, lock, pay, locals, reply, answer>>

\* Mutants: a denial that does not stop the payment; an approval not on record.
DenyIgnored(r) == TapSign(r, "approval_denied", "receiver")
ApproveUnrecorded(r) == TapSign(r, "approval_denied", "receiver")

Approve(r) == TapSign(r, "approval_consumed", "receiver")
Deny(r)    == TapSign(r, "approval_denied", "denied")

-----------------------------------------------------------------------------
(* Commits.  A row and the balances it goes with are one transaction; the   *)
(* reply is built after the commit and can still be lost.                   *)

Commit(r, status, newBalance, kind) ==
  /\ ~KeyTaken(r)
  /\ tx' = [tx EXCEPT ![r] = status]
  /\ balance' = newBalance
  /\ Goto(r, "respond")
  /\ reply'  = [reply EXCEPT ![r] = kind]
  /\ answer' = [answer EXCEPT ![r] = IF kind = "row" THEN r ELSE NoRequest]
  /\ ReleaseLocks(r)
  /\ Forget(r)
  /\ UNCHANGED <<old, events, pay, decision>>

\* An exception before the commit: 500, and the session rolls back.
RollBack(r) == Finish(r, "error", NoRequest) /\ UNCHANGED tables

\* Lines 65-67 and 149-167: the denied attempt is recorded with its key.
RecordFailed(r) ==
  /\ pc[r] = "denied"
  /\ Commit(r, "failed", balance, "refused")

-----------------------------------------------------------------------------
(* Lines 69-93: the receiver and the risk decision, read with no lock held. *)

ReceiverUsable(r) == Receiver(r) \in Users \ {Sender(r)}

RefuseReceiver(r) ==
  /\ pc[r] = "receiver"
  /\ ~ReceiverUsable(r)
  /\ Refuse(r)

FindReceiver(r) ==
  /\ pc[r] = "receiver"
  /\ ReceiverUsable(r)
  /\ Goto(r, "count")
  /\ UNCHANGED <<tables, locals, old, lock, pay, reply, answer>>

\* Rows of every status count, the failed and the blocked ones too.
CountRecent(r) ==
  /\ pc[r] = "count"
  /\ recent' = [recent EXCEPT ![r] =
                  Cardinality({q \in Rows \ old : Sender(q) = Sender(r)})]
  /\ Goto(r, "score")
  /\ UNCHANGED <<tables, old, lock, pay, decision, snap, reply, answer>>

IsNewReceiver(r) == ~\E q \in Rows : /\ Sender(q) = Sender(r)
                                     /\ Receiver(q) = Receiver(r)

Score(r, hour) ==
  /\ pc[r] = "score"
  /\ decision' = [decision EXCEPT ![r] =
                    Decision(Amount(r), recent[r], IsNewReceiver(r), hour)]
  /\ recent' = [recent EXCEPT ![r] = 0]
  /\ Goto(r, "wallets")
  /\ UNCHANGED <<tables, old, lock, pay, snap, reply, answer>>

-----------------------------------------------------------------------------
(* Lines 95-105: SELECT ... WHERE user_id IN (...) FOR UPDATE.  It sorts    *)
(* the ids but has no ORDER BY, so the rows are locked in the order of the  *)
(* scan, one at a time, and each is read when its lock is granted.          *)

\* Mutant: the rows come in any order even from the index.
NextWalletsUnordered(r) == {u \in Parties(r) : lock[u] # r}

\* The wallets r may ask for next.
NextWallets(r) ==
  {u \in Parties(r) : /\ lock[u] # r
                      /\ StableOrder => \A v \in Parties(r) :
                                          Rank[v] < Rank[u] => lock[v] = r}

\* Mutant: the SELECT without FOR UPDATE.
LockWalletUnlocked(r, u) ==
  /\ pc[r] = "wallets"
  /\ Postgres
  /\ u = Sender(r)
  /\ snap' = [snap EXCEPT ![r] =
                [v \in Users |-> IF v \in Parties(r) THEN balance[v] ELSE 0]]
  /\ Goto(r, "settle")
  /\ UNCHANGED <<tables, old, lock, pay, recent, decision, reply, answer>>

LockWallet(r, u) ==
  /\ pc[r] = "wallets"
  /\ Postgres
  /\ u \in NextWallets(r)
  /\ lock[u] = NoRequest
  /\ lock' = [lock EXCEPT ![u] = r]
  /\ snap' = [snap EXCEPT ![r][u] = balance[u]]
  /\ Goto(r, IF \A v \in Parties(r) \ {u} : lock[v] = r
             THEN "settle" ELSE "wallets")
  /\ UNCHANGED <<tables, old, pay, recent, decision, reply, answer>>

\* SQLite has no FOR UPDATE: the dialect drops it and one SELECT reads both.
ReadWallets(r) ==
  /\ pc[r] = "wallets"
  /\ ~Postgres
  /\ snap' = [snap EXCEPT ![r] =
                [u \in Users |-> IF u \in Parties(r) THEN balance[u] ELSE 0]]
  /\ Goto(r, "settle")
  /\ UNCHANGED <<tables, old, lock, pay, recent, decision, reply, answer>>

\* r has one of its locks and waits for the other, which q holds.
WaitsFor(r, q) ==
  /\ pc[r] = "wallets"
  /\ \E u \in Parties(r) : lock[u] = r
  /\ \E u \in NextWallets(r) : lock[u] = q

InWaitCycle(r) ==
  \E S \in SUBSET {q \in Requests : pc[q] = "wallets"} :
    /\ r \in S
    /\ \A p \in S : /\ \E q \in S : WaitsFor(p, q)
                    /\ \E q \in S : WaitsFor(q, p)

\* PostgreSQL finds the cycle and aborts one of its members.
AbortDeadlock(r) == InWaitCycle(r) /\ RollBack(r)

-----------------------------------------------------------------------------
(* Lines 106-146: the outcome, from the balances the SELECT returned.       *)

Solvent(r) == snap[r][Sender(r)] >= Amount(r)

\* A balance that the column cannot hold; SQLite stores it all the same.
Overflows(r) == Postgres /\ snap[r][Receiver(r)] + Amount(r) > MaxBalance

RefuseInsufficient(r) ==
  /\ pc[r] = "settle"
  /\ ~Solvent(r)
  /\ Refuse(r)

RecordBlocked(r) ==
  /\ pc[r] = "settle"
  /\ Solvent(r)
  /\ decision[r] = "blocked"
  /\ Commit(r, "blocked", balance, "refused")

\* Mutant: a payment held for review debits its sender.
RecordReviewDebited(r) ==
  /\ pc[r] = "settle"
  /\ Solvent(r)
  /\ decision[r] = "requires_review"
  /\ Commit(r, "requires_review",
            [balance EXCEPT ![Sender(r)] = snap[r][Sender(r)] - Amount(r)], "row")

RecordReview(r) ==
  /\ pc[r] = "settle"
  /\ Solvent(r)
  /\ decision[r] = "requires_review"
  /\ Commit(r, "requires_review", balance, "row")

Transfer(r) ==
  /\ pc[r] = "settle"
  /\ Solvent(r)
  /\ decision[r] = "authorized"
  /\ ~Overflows(r)
  /\ Commit(r, "completed",
            [balance EXCEPT ![Sender(r)]   = snap[r][Sender(r)] - Amount(r),
                            ![Receiver(r)] = snap[r][Receiver(r)] + Amount(r)],
            "row")

FailOverflow(r) ==
  /\ pc[r] = "settle"
  /\ Solvent(r)
  /\ decision[r] = "authorized"
  /\ Overflows(r)
  /\ RollBack(r)

\* Mutant: the conflict is swallowed and the row answered.
LoseKeyRaceSwallowed(r) ==
  /\ pc[r] = "denied" \/ (pc[r] = "settle" /\ Solvent(r))
  /\ KeyTaken(r)
  /\ Finish(r, "row", r)
  /\ UNCHANGED tables

\* Mutant: the debit is committed before the row.
LoseKeyRaceDebited(r) ==
  /\ pc[r] = "settle"
  /\ Solvent(r)
  /\ KeyTaken(r)
  /\ balance' = [balance EXCEPT ![Sender(r)] = snap[r][Sender(r)] - Amount(r)]
  /\ Finish(r, "error", NoRequest)
  /\ UNCHANGED <<tx, events>>

\* The INSERT meets the unique index: another call stored the key first.
LoseKeyRace(r) ==
  /\ pc[r] = "denied" \/ (pc[r] = "settle" /\ Solvent(r))
  /\ KeyTaken(r)
  /\ RollBack(r)

Respond(r) ==
  /\ pc[r] = "respond"
  /\ Goto(r, "done")
  /\ UNCHANGED <<tables, locals, old, lock, pay, reply, answer>>

-----------------------------------------------------------------------------
InFlight(r) == pc[r] \notin {"idle", "done"}

\* A restart of the server, a lost connection, a template that does not
\* decrypt: the call ends where it is, and what it committed stays.
Fail(r) == InFlight(r) /\ RollBack(r)

\* The clock passes the hour of one row.
HourPasses(q) ==
  /\ q \in Rows \ old
  /\ old' = old \cup {q}
  /\ UNCHANGED <<tables, locals, lock, pc, pay, reply, answer>>

\* What the server does about a call it has accepted.
Handle(r) ==
  \/ Replay(r) \/ NoReplay(r)
  \/ RefuseUnenrolled(r) \/ Approve(r) \/ Deny(r) \/ RecordFailed(r)
  \/ RefuseReceiver(r) \/ FindReceiver(r) \/ CountRecent(r)
  \/ \E hour \in ClockHours : Score(r, hour)
  \/ \E u \in Users : LockWallet(r, u)
  \/ ReadWallets(r) \/ AbortDeadlock(r)
  \/ RefuseInsufficient(r) \/ RecordBlocked(r) \/ RecordReview(r)
  \/ Transfer(r) \/ FailOverflow(r) \/ LoseKeyRace(r) \/ Respond(r)

Finished == (\A r \in Requests : pc[r] = "done") /\ UNCHANGED vars

Next ==
  \/ \E r \in Requests : Admit(r) \/ RefuseUnverified(r) \/ Handle(r) \/ Fail(r)
  \/ \E q \in Requests : HourPasses(q)
  \/ Finished

Spec == Init /\ [][Next]_vars

\* The threads of the pool keep running and the database grants a free lock;
\* nothing makes a client call, a crash or the passing of an hour happen.
Fairness == \A r \in Requests : WF_vars(Handle(r))

FairSpec == Spec /\ Fairness

-----------------------------------------------------------------------------
(* Properties.                                                              *)

Completed(q) == tx[q] = "completed"

\* Two calls never both store a row under one Idempotency-Key, whatever mix of
\* retries, lost replies and concurrent duplicates the clients produce
\* (payments.py:36-39 with the unique index of transaction.py:49).
AtMostOneRowPerKey ==
  \A q, r \in Rows : q # r /\ pay[q].key = pay[r].key => pay[r].key = NoKey

\* README.md:79: funds move only after both gates pass.  A completed row has
\* its committed TapSign approval in risk_events and an "authorized" decision,
\* although approval, decision and transfer are separate transactions.
MoneyNeedsBothGates ==
  \A r \in Requests : Completed(r) => /\ events[r] = "approval_consumed"
                                      /\ decision[r] = "authorized"

\* Every wallet holds its funding, less what the completed rows of the
\* transactions table say it sent, plus what they say it received
\* (payments.py:136-144): no lost update, no transfer without its row, no row
\* without its transfer.
BalancesMatchLedger ==
  LET Sum(S) == MapThenSumSet(Amount, S)
  IN  \A u \in Users :
        balance[u] + Sum({q \in Rows : Completed(q) /\ Sender(q) = u})
          = InitialBalance[u] + Sum({q \in Rows : Completed(q) /\ Receiver(q) = u})

\* No two calls are between their SELECT and their commit with a wallet in
\* common.
Serial ==
  \A q, r \in Requests :
    q # r /\ pc[q] = "settle" /\ pc[r] = "settle" => Parties(q) \cap Parties(r) = {}

\* payments.py:101: FOR UPDATE does nothing on SQLite, so the books can go wrong
\* there; but only by two such calls at once.  Retries, failures between any two
\* statements and all other overlaps leave every wallet right without locks.
SafeIfSerial == []Serial => []BalancesMatchLedger

\* A call that was answered 4xx moved no money, and one that was answered with
\* a row was shown one the table really has, its own or one that carries its
\* key (payments.py:38-39, 121-146).
AnswerIsTrue(r) ==
  /\ reply[r] = "refused" => ~Completed(r)
  /\ reply[r] = "row" => /\ answer[r] \in Rows
                         /\ answer[r] # r => pay[answer[r]].key = pay[r].key

AnswersAreTrue == \A r \in Requests : pc[r] = "done" => AnswerIsTrue(r)

\* Between the SELECT ... FOR UPDATE and the commit nobody changes the wallets
\* a call has read: its decision about the balance (payments.py:108) and the
\* values it writes (payments.py:136-137) rest on current balances.
SnapshotsCurrent ==
  \A r \in Requests : pc[r] = "settle" =>
    \A u \in Parties(r) : lock[u] = r /\ snap[r][u] = balance[u]

\* payments.py:95: "Lock wallets in stable order to avoid deadlocks."  No set
\* of payments waits for one another's wallet locks.
NoLockCycle == \A r \in Requests : ~InWaitCycle(r)

\* Every payment the server accepts is answered, however wallets are contended
\* and in whatever order they are locked.
EveryCallAnswered ==
  \A r \in Requests : pc[r] = "lookup" ~> pc[r] = "done"

\* The inductive invariant.  A call has a row only once it has committed; it is
\* past TapSign only with its approval on record, and past the receiver's
\* lookup only with a receiver to pay; a locked wallet is a wallet of its
\* holder, who has read its current balance; on PostgreSQL whoever is about to
\* settle holds both locks; and when the scan follows Rank, a call that holds a
\* lock holds all its locks of lower rank.
Approved == {"receiver", "count", "score", "wallets", "settle"}
Payable  == {"count", "score", "wallets", "settle"}
Locking  == {"wallets", "settle"}
Over     == {"respond", "done"}

RowInv      == \A r \in Rows : pc[r] \in Over
ApprovedInv == \A r \in Requests :
                 pc[r] \in Approved => events[r] = "approval_consumed"
PayableInv  == \A r \in Requests :
                 pc[r] \in Payable \/ Completed(r) => ReceiverUsable(r)
LockInv     == \A u \in Users, r \in Requests :
                 lock[u] = r => /\ Postgres
                                /\ pc[r] \in Locking
                                /\ u \in Parties(r)
                                /\ snap[r][u] = balance[u]
SettleInv   == Postgres => \A r \in Requests : pc[r] = "settle" =>
                             \A u \in Parties(r) : lock[u] = r
OrderInv    == StableOrder => \A u \in Users, r \in Requests :
                 lock[u] = r => \A v \in Parties(r) :
                                  Rank[v] < Rank[u] => lock[v] = r
AnswerInv   == \A r \in Requests : pc[r] \in Over => AnswerIsTrue(r)

IInv ==
  /\ TypeOK
  /\ RowInv /\ ApprovedInv /\ PayableInv
  /\ LockInv /\ SettleInv /\ OrderInv
  /\ AnswerInv
  /\ MoneyNeedsBothGates
  /\ AtMostOneRowPerKey

\* The service implements the abstract ledger: behind all the interleavings,
\* every step is one entry of the journal with its transfer, or no change.
journal == {[id |-> r, body |-> pay[r], status |-> tx[r]] : r \in Rows}

L == INSTANCE Ledger WITH Ids <- Requests, entries <- journal

ImplementsLedger == L!Spec

=============================================================================
