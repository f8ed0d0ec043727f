--------------------------- MODULE PaymentsProofs ---------------------------
(***************************************************************************)
(* Proofs about Payments, for any number of users, wallets and calls and   *)
(* any amounts.                                                            *)
(***************************************************************************)
EXTENDS Payments, TLAPS, FiniteSetTheorems, WellFoundedInduction

\* What a body holds, one fact per field.
LEMMA BodyFields ==
  ASSUME NEW b \in Bodies
  PROVE  /\ b.sender \in Users
         /\ b.receiver \in Users \cup {NoUser}
         /\ b.amount \in Nat /\ b.amount > 0
  BY BodyAssumption

\* The number of a call's recent payments is a natural number.
LEMMA RecentCount ==
  \A r \in Requests :
    Cardinality({q \in Rows \ old : Sender(q) = Sender(r)}) \in Nat
<1>1. SUFFICES ASSUME NEW r \in Requests
               PROVE  Cardinality({q \in Rows \ old : Sender(q) = Sender(r)}) \in Nat
      OBVIOUS
<1>2. {q \in Rows \ old : Sender(q) = Sender(r)} \subseteq Requests
      BY DEF Rows
<1>3. IsFiniteSet({q \in Rows \ old : Sender(q) = Sender(r)})
      BY <1>2, ConstantAssumption, FS_Subset
<1>4. QED  BY <1>3, FS_CardinalityType

\* Whatever the inputs, the risk model answers one of three decisions.
LEMMA DecisionType ==
  ASSUME NEW a, NEW n, NEW new, NEW h
  PROVE  Decision(a, n, new, h) \in Decisions
  BY DEF Decision, DecisionForScore, Decisions

\* The balances a call starts from are all zero.
LEMMA NothingType == Nothing \in [Users -> Nat]
  BY DEF Nothing

-----------------------------------------------------------------------------
(* Sums over finite sets.  MapThenSumSet adds the elements up in an order    *)
(* that CHOOSE fixes; what follows shows that the order does not matter, by  *)
(* smallest counterexamples.                                                *)

Pick(s) == CHOOSE x \in s : TRUE

\* g gives every subset of U the sum of f over its elements.
IsSum(g, f, U) ==
  g = [s \in SUBSET U |-> IF s = {} THEN 0 ELSE f[Pick(s)] + g[s \ {Pick(s)}]]

\* A nonempty set of natural numbers has a least element.
LEMMA LeastNatural ==
  ASSUME NEW S, S \subseteq Nat, S # {}
  PROVE  \E n \in S : \A m \in S : ~(m < n)
<1> DEFINE below == {p \in Nat \X Nat : p[1] < p[2]}
<1>1. IsWellFoundedOn(below, Nat)
      BY NatLessThanWellFounded DEF OpToRel
<1>2. \E n \in S : \A m \in S : <<m, n>> \notin below
  <2> HIDE DEF below
  <2>1. QED  BY <1>1, WFMin
<1>3. QED  BY <1>2

\* A nonempty family of finite sets has a member none of whose elements can be
\* taken away within the family.
LEMMA LeastSet ==
  ASSUME NEW U, IsFiniteSet(U), NEW P, P \subseteq SUBSET U, P # {}
  PROVE  \E s \in P : \A x \in s : s \ {x} \notin P
<1>1. \E s \in P : \A t \in P : <<t, s>> \notin StrictSubsetOrdering(U)
  <2>1. P \subseteq FiniteSubsetsOf(U)
        BY FS_FiniteSubsetsOfFinite
  <2>2. QED
        BY <2>1, FS_StrictSubsetOrderingWellFounded, WFMin
<1>2. PICK s \in P : \A t \in P : <<t, s>> \notin StrictSubsetOrdering(U)
      BY <1>1
<1>3. ASSUME NEW x \in s PROVE <<s \ {x}, s>> \in StrictSubsetOrdering(U)
      BY DEF StrictSubsetOrdering
<1>4. QED  BY <1>2, <1>3

\* A nonempty set holds the element chosen from it.
LEMMA PickIn == ASSUME NEW s, s # {} PROVE Pick(s) \in s
  BY DEF Pick

\* Such a g exists: up to each cardinality, hence for all of U.
LEMMA SumExists ==
  ASSUME NEW f, NEW U, IsFiniteSet(U)
  PROVE  \E g : IsSum(g, f, U)
<1> DEFINE Upto(g, n) ==
      /\ DOMAIN g = SUBSET U
      /\ g = [s \in SUBSET U |-> g[s]]
      /\ \A s \in SUBSET U : Cardinality(s) <= n =>
           g[s] = IF s = {} THEN 0 ELSE f[Pick(s)] + g[s \ {Pick(s)}]
    bad == {n \in Nat : ~\E g : Upto(g, n)}
<1>1. \A s \in SUBSET U : IsFiniteSet(s) /\ Cardinality(s) \in Nat
      BY FS_Subset, FS_CardinalityType
<1>2. 0 \notin bad
  <2> DEFINE z == [s \in SUBSET U |-> 0]
  <2>1. \A s \in SUBSET U : Cardinality(s) <= 0 => s = {}
        BY <1>1, FS_EmptySet
  <2>2. Upto(z, 0)
        BY <2>1
  <2>3. QED  BY <2>2
<1>3. ASSUME NEW n \in Nat, NEW g, Upto(g, n)
      PROVE  \E h : Upto(h, n + 1)
  <2> DEFINE h == [s \in SUBSET U |->
                     IF s = {} THEN 0 ELSE f[Pick(s)] + g[s \ {Pick(s)}]]
  <2>1. ASSUME NEW s \in SUBSET U, Cardinality(s) <= n + 1, s # {}
        PROVE  h[s \ {Pick(s)}] = g[s \ {Pick(s)}]
    <3> DEFINE t == s \ {Pick(s)}
    <3>1. Cardinality(t) = Cardinality(s) - 1 /\ t \in SUBSET U
          BY <1>1, <2>1, PickIn, FS_RemoveElement
    <3>2. Cardinality(t) <= n
          BY <1>1, <2>1, <3>1
    <3>3. h[t] = IF t = {} THEN 0 ELSE f[Pick(t)] + g[t \ {Pick(t)}]
          BY <3>1
    <3>4. g[t] = IF t = {} THEN 0 ELSE f[Pick(t)] + g[t \ {Pick(t)}]
          BY <1>3, <3>1, <3>2
    <3>5. QED  BY <3>3, <3>4
  <2>2. \A s \in SUBSET U : Cardinality(s) <= n + 1 =>
           h[s] = IF s = {} THEN 0 ELSE f[Pick(s)] + h[s \ {Pick(s)}]
        BY <2>1
  <2>3. Upto(h, n + 1)
        BY <2>2
  <2> HIDE DEF h, Upto
  <2>4. QED  BY <2>3
<1>4. bad = {}
  <2> HIDE DEF Upto
  <2>1. SUFFICES ASSUME bad # {} PROVE FALSE
        OBVIOUS
  <2>2. PICK n \in bad : \A m \in bad : ~(m < n)
    <3>1. bad \subseteq Nat
          OBVIOUS
    <3> HIDE DEF bad
    <3>2. QED  BY <2>1, <3>1, LeastNatural
  <2>3. n \in Nat \ {0}
        BY <1>2
  <2>4. n - 1 \in Nat /\ n - 1 \notin bad
        BY <2>2, <2>3
  <2>5. PICK g : Upto(g, n - 1)
        BY <2>4
  <2>6. \E h : Upto(h, (n - 1) + 1)
        BY <1>3, <2>4, <2>5
  <2>7. (n - 1) + 1 = n
        BY <2>3
  <2>8. QED  BY <2>6, <2>7
<1>5. PICK g : Upto(g, Cardinality(U))
  <2> HIDE DEF Upto
  <2>1. Cardinality(U) \in Nat
        BY <1>1
  <2>2. QED  BY <1>4, <2>1
<1>6. \A s \in SUBSET U : Cardinality(s) <= Cardinality(U)
      BY FS_Subset
<1>7. IsSum(g, f, U)
      BY <1>5, <1>6 DEF IsSum
<1>8. QED  BY <1>7

\* What g is on one subset.
LEMMA SumUnfold ==
  ASSUME NEW f, NEW U, NEW g, IsSum(g, f, U), NEW s \in SUBSET U
  PROVE  g[s] = IF s = {} THEN 0 ELSE f[Pick(s)] + g[s \ {Pick(s)}]
  BY DEF IsSum

\* A sum of natural numbers is a natural number.
LEMMA SumType ==
  ASSUME NEW U, IsFiniteSet(U), NEW f \in [U -> Nat], NEW g, IsSum(g, f, U)
  PROVE  \A s \in SUBSET U : g[s] \in Nat
<1> DEFINE bad == {s \in SUBSET U : g[s] \notin Nat}
<1>1. SUFFICES ASSUME bad # {} PROVE FALSE
      OBVIOUS
<1>2. PICK s \in bad : \A x \in s : s \ {x} \notin bad
      BY <1>1, LeastSet
<1>3. g[s] = IF s = {} THEN 0 ELSE f[Pick(s)] + g[s \ {Pick(s)}]
      BY SumUnfold
<1>4. s # {} => f[Pick(s)] \in Nat /\ g[s \ {Pick(s)}] \in Nat
      BY <1>2, PickIn
<1>5. QED  BY <1>3, <1>4

\* Any element may be added last, not only the chosen one.
LEMMA SumRemove ==
  ASSUME NEW U, IsFiniteSet(U), NEW f \in [U -> Nat], NEW g, IsSum(g, f, U)
  PROVE  \A s \in SUBSET U : \A x \in s : g[s] = f[x] + g[s \ {x}]
<1> DEFINE bad == {s \in SUBSET U : \E x \in s : g[s] # f[x] + g[s \ {x}]}
<1>1. SUFFICES ASSUME bad # {} PROVE FALSE
      OBVIOUS
<1>2. PICK s \in bad : \A x \in s : s \ {x} \notin bad
      BY <1>1, LeastSet
<1>3. PICK x \in s : g[s] # f[x] + g[s \ {x}]
      OBVIOUS
<1>4. PICK c : c = Pick(s)
      OBVIOUS
<1>5. c \in s /\ g[s] = f[c] + g[s \ {c}]
      BY <1>3, <1>4, SumUnfold, PickIn
<1>6. c # x
      BY <1>3, <1>5
<1>7. g[s \ {c}] = f[x] + g[(s \ {c}) \ {x}]
      BY <1>2, <1>5, <1>6
<1>8. g[s \ {x}] = f[c] + g[(s \ {x}) \ {c}]
      BY <1>2, <1>5, <1>6
<1>9. (s \ {c}) \ {x} = (s \ {x}) \ {c}
      OBVIOUS
<1>10. f[c] \in Nat /\ f[x] \in Nat /\ g[(s \ {x}) \ {c}] \in Nat
      BY <1>5, SumType
<1>11. \A a, b, n \in Nat : a + (b + n) = b + (a + n)
      OBVIOUS
<1>12. g[s] = f[c] + (f[x] + g[(s \ {x}) \ {c}])
      BY <1>5, <1>7, <1>9
<1>13. f[x] + g[s \ {x}] = f[x] + (f[c] + g[(s \ {x}) \ {c}])
      BY <1>8
<1>14. QED  BY <1>3, <1>10, <1>11, <1>12, <1>13, ZenonT(30)

\* A sum over a subset does not depend on the set it is a subset of.
LEMMA SumAgrees ==
  ASSUME NEW U, IsFiniteSet(U), NEW f, NEW g, IsSum(g, f, U),
         NEW V \in SUBSET U, NEW h, IsSum(h, f, V)
  PROVE  h[V] = g[V]
<1> DEFINE bad == {s \in SUBSET V : h[s] # g[s]}
<1>1. SUFFICES ASSUME bad # {} PROVE FALSE
      OBVIOUS
<1>2. PICK s \in bad : \A x \in s : s \ {x} \notin bad
      BY <1>1, FS_Subset, LeastSet
<1>3. h[s] = IF s = {} THEN 0 ELSE f[Pick(s)] + h[s \ {Pick(s)}]
      BY SumUnfold
<1>4. g[s] = IF s = {} THEN 0 ELSE f[Pick(s)] + g[s \ {Pick(s)}]
      BY SumUnfold
<1>5. QED  BY <1>2, <1>3, <1>4, PickIn

-----------------------------------------------------------------------------
(* Type correctness.                                                        *)

\* A call that ends without a commit leaves every variable in its type.
LEMMA FinishType ==
  ASSUME TypeOK, NEW r \in Requests, NEW kind \in Replies,
         NEW row \in Requests \cup {NoRequest},
         Finish(r, kind, row), UNCHANGED tables
  PROVE  TypeOK'
<1>1. lock' \in [Users -> Requests \cup {NoRequest}]
      BY DEF TypeOK, Finish, ReleaseLocks
<1>2. pc' \in [Requests -> Steps]
      BY DEF TypeOK, Finish, Goto, Steps
<1>3. recent' \in [Requests -> Nat] /\ snap' \in [Requests -> [Users -> Nat]]
      BY NothingType DEF TypeOK, Finish, Forget
<1>4. /\ reply' \in [Requests -> Replies \cup {"none"}]
      /\ answer' \in [Requests -> Requests \cup {NoRequest}]
      BY DEF TypeOK, Finish
<1>5. QED  BY <1>1, <1>2, <1>3, <1>4 DEF TypeOK, Finish, tables

\* So does a commit, provided the new balances are natural numbers.
LEMMA CommitType ==
  ASSUME TypeOK, NEW r \in Requests, NEW status \in RowStatuses,
         NEW kind \in Replies, NEW newBalance \in [Users -> Nat],
         Commit(r, status, newBalance, kind)
  PROVE  TypeOK'
<1>1. lock' \in [Users -> Requests \cup {NoRequest}]
      BY DEF TypeOK, Commit, ReleaseLocks
<1>2. pc' \in [Requests -> Steps]
      BY DEF TypeOK, Commit, Goto, Steps
<1>3. recent' \in [Requests -> Nat] /\ snap' \in [Requests -> [Users -> Nat]]
      BY NothingType DEF TypeOK, Commit, Forget
<1>4. /\ reply' \in [Requests -> Replies \cup {"none"}]
      /\ answer' \in [Requests -> Requests \cup {NoRequest}]
      BY DEF TypeOK, Commit
<1>5. tx' \in [Requests -> RowStatuses \cup {"none"}] /\ balance' \in [Users -> Nat]
      BY DEF TypeOK, Commit
<1>6. QED  BY <1>1, <1>2, <1>3, <1>4, <1>5 DEF TypeOK, Commit

\* The balances a transfer writes are natural numbers.
LEMMA TransferBalances ==
  ASSUME TypeOK, NEW r \in Requests, Solvent(r)
  PROVE  [balance EXCEPT
            ![Sender(r)]   = snap[r][Sender(r)] - Amount(r),
            ![Receiver(r)] = snap[r][Receiver(r)] + Amount(r)] \in [Users -> Nat]
<1>1. /\ Sender(r) \in Users /\ Receiver(r) \in Users \cup {NoUser}
      /\ Amount(r) \in Nat
      BY BodyFields DEF TypeOK, Sender, Receiver, Amount
<1>2. snap[r] \in [Users -> Nat] /\ balance \in [Users -> Nat]
      BY DEF TypeOK
<1>3. snap[r][Sender(r)] - Amount(r) \in Nat
      BY <1>1, <1>2 DEF Solvent
<1>4. Receiver(r) \in Users => snap[r][Receiver(r)] + Amount(r) \in Nat
      BY <1>1, <1>2
<1>5. QED  BY <1>1, <1>2, <1>3, <1>4

\* Every step of a call keeps the types.
LEMMA HandleType ==
  ASSUME TypeOK, NEW r \in Requests,
         Admit(r) \/ RefuseUnverified(r) \/ Handle(r) \/ Fail(r)
  PROVE  TypeOK'
<1>1. CASE Admit(r)
      BY <1>1 DEF Admit, Goto, TypeOK, Steps, tables, locals
<1>2. CASE RefuseUnverified(r)
      BY <1>2, FinishType DEF RefuseUnverified, Refuse, Replies
<1>3. CASE Replay(r)
  <2>1. PICK q \in Rows : Finish(r, "row", q)
        BY <1>3 DEF Replay
  <2>2. q \in Requests
        BY DEF Rows
  <2>3. QED  BY <1>3, <2>1, <2>2, FinishType DEF Replay, Replies
<1>4. CASE NoReplay(r)
      BY <1>4 DEF NoReplay, Goto, TypeOK, Steps, tables, locals
<1>5. CASE RefuseUnenrolled(r)
      BY <1>5, FinishType DEF RefuseUnenrolled, Refuse, Replies
<1>6. CASE Approve(r) \/ Deny(r)
      BY <1>6 DEF Approve, Deny, TapSign, Goto, TypeOK, Steps, EventTypes, locals
<1>7. CASE RecordFailed(r)
      BY <1>7, CommitType DEF RecordFailed, TypeOK, RowStatuses, Replies
<1>8. CASE RefuseReceiver(r)
      BY <1>8, FinishType DEF RefuseReceiver, Refuse, Replies
<1>9. CASE FindReceiver(r)
      BY <1>9 DEF FindReceiver, Goto, TypeOK, Steps, tables, locals
<1>10. CASE CountRecent(r)
      BY <1>10, RecentCount DEF CountRecent, Goto, TypeOK, Steps, tables
<1>11. CASE \E hour \in ClockHours : Score(r, hour)
  <2>1. PICK hour \in ClockHours : Score(r, hour)
        BY <1>11
  <2>2. Decision(Amount(r), recent[r], IsNewReceiver(r), hour) \in Decisions
        BY DecisionType
  <2>3. QED  BY <2>1, <2>2 DEF Score, Goto, TypeOK, Steps, tables
<1>12. CASE \E u \in Users : LockWallet(r, u)
      BY <1>12 DEF LockWallet, Goto, TypeOK, Steps, tables
<1>13. CASE ReadWallets(r)
      BY <1>13 DEF ReadWallets, Goto, TypeOK, Steps, tables
<1>14. CASE AbortDeadlock(r) \/ FailOverflow(r) \/ LoseKeyRace(r) \/ Fail(r)
      BY <1>14, FinishType
         DEF AbortDeadlock, FailOverflow, LoseKeyRace, Fail, RollBack, Replies
<1>15. CASE RefuseInsufficient(r)
      BY <1>15, FinishType DEF RefuseInsufficient, Refuse, Replies
<1>16. CASE RecordBlocked(r) \/ RecordReview(r)
      BY <1>16, CommitType
         DEF RecordBlocked, RecordReview, TypeOK, RowStatuses, Replies
<1>17. CASE Transfer(r)
      BY <1>17, CommitType, TransferBalances DEF Transfer, RowStatuses, Replies
<1>18. CASE Respond(r)
      BY <1>18 DEF Respond, Goto, TypeOK, Steps, tables, locals
<1>19. QED
      BY <1>1, <1>2, <1>3, <1>4, <1>5, <1>6, <1>7, <1>8, <1>9, <1>10, <1>11,
         <1>12, <1>13, <1>14, <1>15, <1>16, <1>17, <1>18 DEF Handle

\* Every reachable state is well typed; in particular no balance, nor any
\* balance a call has read, is ever negative (payments.py:108-109, 136-137).
THEOREM TypeCorrect == Spec => []TypeOK
<1>1. Init => TypeOK
      BY NothingType, ConstantAssumption DEF Init, TypeOK, Steps
<1>2. TypeOK /\ [Next]_vars => TypeOK'
  <2>1. SUFFICES ASSUME TypeOK, [Next]_vars PROVE TypeOK'
        OBVIOUS
  <2>2. CASE \E r \in Requests :
               Admit(r) \/ RefuseUnverified(r) \/ Handle(r) \/ Fail(r)
        BY <2>1, <2>2, HandleType
  <2>3. CASE \E q \in Requests : HourPasses(q)
        BY <2>1, <2>3 DEF HourPasses, TypeOK, tables, locals
  <2>4. CASE Finished \/ UNCHANGED vars
        BY <2>1, <2>4 DEF Finished, vars, TypeOK
  <2>5. QED  BY <2>1, <2>2, <2>3, <2>4 DEF Next
<1>3. QED  BY <1>1, <1>2, PTL DEF Spec

-----------------------------------------------------------------------------
(* The inductive invariant.                                                 *)

\* Once the receiver is known, both parties own wallets.
LEMMA PartiesAreUsers ==
  ASSUME TypeOK, PayableInv, NEW r \in Requests, pc[r] \in Payable
  PROVE  Parties(r) \subseteq Users
  BY BodyFields DEF TypeOK, PayableInv, Parties, ReceiverUsable, Sender, Receiver

\* So they do when one of them is locked.
LEMMA LockedPartiesAreUsers ==
  ASSUME IInv, NEW r \in Requests, NEW u \in Users, lock[u] = r
  PROVE  Parties(r) \subseteq Users
<1>1. pc[r] \in Payable
      BY DEF IInv, LockInv, Locking, Payable
<1>2. QED  BY <1>1, PartiesAreUsers DEF IInv

\* Ending a call without a commit keeps it, if the reply tells the truth.
LEMMA FinishInv ==
  ASSUME IInv, NEW r \in Requests, NEW kind \in Replies,
         NEW row \in Requests \cup {NoRequest},
         Finish(r, kind, row), UNCHANGED tables,
         kind = "refused" => tx[r] = "none",
         kind = "row" => row \in Rows /\ pay[row].key = pay[r].key
  PROVE  IInv'
<1>1. TypeOK /\ TypeOK'
      BY FinishType DEF IInv
<1>2. /\ balance' = balance /\ tx' = tx /\ events' = events
      /\ pay' = pay /\ decision' = decision
      BY DEF Finish, tables
<1>3. /\ pc'[r] = "done" /\ reply'[r] = kind /\ answer'[r] = row
      /\ \A q \in Requests \ {r} : /\ pc'[q] = pc[q] /\ snap'[q] = snap[q]
                                   /\ reply'[q] = reply[q]
                                   /\ answer'[q] = answer[q]
      BY <1>1 DEF TypeOK, Finish, Goto, Forget
<1>4. \A u \in Users : lock'[u] = IF lock[u] = r THEN NoRequest ELSE lock[u]
      BY DEF Finish, ReleaseLocks
<1>5. Rows' = Rows
      BY <1>2 DEF Rows
<1>6. RowInv'
      BY <1>3, <1>5 DEF IInv, RowInv, Over, Rows
<1>7. ApprovedInv'
      BY <1>2, <1>3 DEF IInv, ApprovedInv, Approved
<1>8. PayableInv'
      BY <1>2, <1>3 DEF IInv, PayableInv, Payable, Completed, ReceiverUsable,
                        Sender, Receiver
<1>9. LockInv'
      BY <1>2, <1>3, <1>4, ConstantAssumption
         DEF IInv, LockInv, Parties, Sender, Receiver
<1>10. SettleInv'
  <2>1. SUFFICES ASSUME Postgres, NEW q \in Requests, pc'[q] = "settle",
                        NEW u \in Parties(q)'
                 PROVE  lock'[u] = q
        BY DEF SettleInv
  <2>2. q # r /\ pc[q] = "settle" /\ u \in Parties(q)
        BY <1>2, <1>3, <2>1 DEF Parties, Sender, Receiver
  <2>3. u \in Users
        BY <2>2, PartiesAreUsers DEF IInv, Payable
  <2>4. QED  BY <1>4, <2>1, <2>2, <2>3 DEF IInv, SettleInv
<1>11. AnswerInv'
      BY <1>2, <1>3, <1>5 DEF IInv, AnswerInv, AnswerIsTrue, Completed
<1>12. MoneyNeedsBothGates' /\ AtMostOneRowPerKey'
      BY <1>2, <1>5
         DEF IInv, MoneyNeedsBothGates, AtMostOneRowPerKey, Completed
<1>13. OrderInv'
  <2>1. SUFFICES ASSUME StableOrder, NEW u \in Users, NEW q \in Requests,
                        lock'[u] = q, NEW v \in Parties(q), Rank[v] < Rank[u]
                 PROVE  lock'[v] = q
        BY <1>2 DEF OrderInv, Parties, Sender, Receiver
  <2>2. q # r /\ lock[u] = q
        BY <1>4, <2>1, ConstantAssumption
  <2>3. v \in Users
        BY <2>1, <2>2, LockedPartiesAreUsers
  <2>4. QED  BY <1>4, <2>1, <2>2, <2>3 DEF IInv, OrderInv
<1>14. QED
      BY <1>1, <1>6, <1>7, <1>8, <1>9, <1>10, <1>11, <1>12, <1>13 DEF IInv

\* A commit keeps it, if money moves only for an approved and authorized call
\* and every wallet somebody else has locked keeps its balance.
LEMMA CommitInv ==
  ASSUME IInv, NEW r \in Requests, NEW status \in RowStatuses,
         NEW kind \in Replies, NEW newBalance \in [Users -> Nat],
         Commit(r, status, newBalance, kind), pc[r] \notin Over,
         status = "completed" => /\ kind # "refused"
                                 /\ events[r] = "approval_consumed"
                                 /\ decision[r] = "authorized"
                                 /\ ReceiverUsable(r),
         \A u \in Users, q \in Requests \ {r} :
           lock[u] = q => newBalance[u] = balance[u]
  PROVE  IInv'
<1>1. TypeOK /\ TypeOK'
      BY CommitType DEF IInv
<1>2. /\ balance' = newBalance /\ events' = events
      /\ pay' = pay /\ decision' = decision
      BY DEF Commit
<1>3. /\ pc'[r] = "respond" /\ reply'[r] = kind /\ tx'[r] = status
      /\ kind = "row" => answer'[r] = r
      /\ \A q \in Requests \ {r} : /\ pc'[q] = pc[q] /\ snap'[q] = snap[q]
                                   /\ reply'[q] = reply[q]
                                   /\ answer'[q] = answer[q]
                                   /\ tx'[q] = tx[q]
      BY <1>1 DEF TypeOK, Commit, Goto, Forget
<1>4. \A u \in Users : lock'[u] = IF lock[u] = r THEN NoRequest ELSE lock[u]
      BY DEF Commit, ReleaseLocks
<1>5. Rows' = Rows \cup {r} /\ r \notin Rows
      BY <1>3 DEF Rows, RowStatuses, IInv, RowInv
<1>6. RowInv'
      BY <1>3, <1>5 DEF IInv, RowInv, Over, Rows
<1>7. ApprovedInv'
      BY <1>2, <1>3 DEF IInv, ApprovedInv, Approved
<1>8. PayableInv'
      BY <1>2, <1>3 DEF IInv, PayableInv, Payable, Completed, ReceiverUsable,
                        Sender, Receiver
<1>9. LockInv'
      BY <1>2, <1>3, <1>4, ConstantAssumption
         DEF IInv, LockInv, Parties, Sender, Receiver
<1>10. SettleInv'
  <2>1. SUFFICES ASSUME Postgres, NEW q \in Requests, pc'[q] = "settle",
                        NEW u \in Parties(q)'
                 PROVE  lock'[u] = q
        BY DEF SettleInv
  <2>2. q # r /\ pc[q] = "settle" /\ u \in Parties(q)
        BY <1>2, <1>3, <2>1 DEF Parties, Sender, Receiver
  <2>3. u \in Users
        BY <2>2, PartiesAreUsers DEF IInv, Payable
  <2>4. QED  BY <1>4, <2>1, <2>2, <2>3 DEF IInv, SettleInv
<1>11. AnswerInv'
      BY <1>2, <1>3, <1>5
         DEF IInv, AnswerInv, AnswerIsTrue, Completed, Over, Rows
<1>12. MoneyNeedsBothGates'
      BY <1>2, <1>3 DEF IInv, MoneyNeedsBothGates, Completed
<1>13. AtMostOneRowPerKey'
      BY <1>2, <1>5 DEF IInv, AtMostOneRowPerKey, Commit, KeyTaken
<1>14. OrderInv'
  <2>1. SUFFICES ASSUME StableOrder, NEW u \in Users, NEW q \in Requests,
                        lock'[u] = q, NEW v \in Parties(q), Rank[v] < Rank[u]
                 PROVE  lock'[v] = q
        BY <1>2 DEF OrderInv, Parties, Sender, Receiver
  <2>2. q # r /\ lock[u] = q
        BY <1>4, <2>1, ConstantAssumption
  <2>3. v \in Users
        BY <2>1, <2>2, LockedPartiesAreUsers
  <2>4. QED  BY <1>4, <2>1, <2>2, <2>3 DEF IInv, OrderInv
<1>15. QED
      BY <1>1, <1>6, <1>7, <1>8, <1>9, <1>10, <1>11, <1>12, <1>13, <1>14 DEF IInv

\* A step that only moves a call ahead, writing at most locals that nothing
\* else reads, keeps it.
LEMMA AdvanceInv ==
  ASSUME IInv, TypeOK', NEW r \in Requests, NEW step \in Steps \ Over,
         Goto(r, step), pc[r] \notin Locking \cup Over, step # "settle",
         UNCHANGED <<balance, tx, lock, pay, snap, reply, answer>>,
         \A q \in Requests \ {r} : events'[q] = events[q] /\ decision'[q] = decision[q],
         step \in Approved => events'[r] = "approval_consumed",
         step \in Payable => ReceiverUsable(r)
  PROVE  IInv'
<1>1. /\ pc'[r] = step /\ tx[r] = "none"
      /\ \A q \in Requests \ {r} : pc'[q] = pc[q]
      BY DEF Goto, IInv, TypeOK, RowInv, Rows
<1>2. Rows' = Rows
      BY DEF Rows
<1>3. RowInv'
      BY <1>1, <1>2 DEF IInv, RowInv, Rows
<1>4. ApprovedInv'
      BY <1>1 DEF IInv, ApprovedInv
<1>5. PayableInv'
      BY <1>1 DEF IInv, PayableInv, Completed, ReceiverUsable, Sender, Receiver
<1>6. LockInv' /\ SettleInv' /\ OrderInv'
      BY <1>1 DEF IInv, LockInv, SettleInv, OrderInv, Parties, Sender, Receiver
<1>7. AnswerInv'
      BY <1>1, <1>2 DEF IInv, AnswerInv, AnswerIsTrue, Completed
<1>8. MoneyNeedsBothGates' /\ AtMostOneRowPerKey'
      BY <1>1, <1>2
         DEF IInv, MoneyNeedsBothGates, AtMostOneRowPerKey, Completed
<1>9. QED  BY <1>3, <1>4, <1>5, <1>6, <1>7, <1>8 DEF IInv

\* Granting a row lock keeps it: the lock was free and the balance is read now.
LEMMA LockWalletInv ==
  ASSUME IInv, TypeOK', NEW r \in Requests, NEW u \in Users, LockWallet(r, u)
  PROVE  IInv'
<1>1. /\ balance' = balance /\ tx' = tx /\ events' = events /\ pay' = pay
      /\ decision' = decision /\ reply' = reply /\ answer' = answer
      BY DEF LockWallet, tables
<1>2. pc[r] = "wallets" /\ pc'[r] \in Locking /\ tx[r] = "none"
      BY DEF LockWallet, Goto, Locking, IInv, TypeOK, RowInv, Rows, Over
<1>3. \A q \in Requests \ {r} : pc'[q] = pc[q] /\ snap'[q] = snap[q]
      BY DEF LockWallet, Goto, IInv, TypeOK
<1>4. /\ lock[u] = NoRequest /\ u \in Parties(r) /\ lock'[u] = r
      /\ \A v \in Users \ {u} : lock'[v] = lock[v] /\ snap'[r][v] = snap[r][v]
      /\ snap'[r][u] = balance[u]
      BY DEF LockWallet, NextWallets, IInv, TypeOK
<1>5. Rows' = Rows
      BY <1>1 DEF Rows
<1>6. RowInv'
      BY <1>2, <1>3, <1>5 DEF IInv, RowInv, Rows
<1>7. ApprovedInv'
      BY <1>1, <1>2, <1>3 DEF IInv, ApprovedInv, Approved, Locking
<1>8. PayableInv'
      BY <1>1, <1>2, <1>3
         DEF IInv, PayableInv, Payable, Locking, Completed, ReceiverUsable,
             Sender, Receiver
<1>9. LockInv'
  <2>1. SUFFICES ASSUME NEW v \in Users, NEW q \in Requests, lock'[v] = q
                 PROVE  /\ Postgres /\ pc'[q] \in Locking
                        /\ v \in Parties(q)' /\ snap'[q][v] = balance'[v]
        BY DEF LockInv
  <2>2. CASE v = u
        BY <1>1, <1>2, <1>4, <2>1, <2>2
           DEF LockWallet, Parties, Sender, Receiver
  <2>3. CASE v # u
        BY <1>1, <1>2, <1>3, <1>4, <2>1, <2>3
           DEF IInv, LockInv, Parties, Sender, Receiver
  <2>4. QED  BY <2>2, <2>3
<1>10. SettleInv'
  <2>1. SUFFICES ASSUME NEW q \in Requests, pc'[q] = "settle", Postgres,
                        NEW v \in Parties(q)
                 PROVE  lock'[v] = q
        BY <1>1 DEF SettleInv, Parties, Sender, Receiver
  <2>2. pc[q] \in Payable
        BY <1>2, <1>3, <2>1 DEF Payable
  <2>3. v \in Users
        BY <2>2, BodyFields
           DEF IInv, TypeOK, PayableInv, Parties, ReceiverUsable, Sender, Receiver
  <2>4. CASE q = r
        BY <1>4, <2>1, <2>3, <2>4 DEF LockWallet, Goto, IInv, TypeOK
  <2>5. CASE q # r
        BY <1>3, <1>4, <2>1, <2>3, <2>5, ConstantAssumption DEF IInv, SettleInv
  <2>6. QED  BY <2>4, <2>5
<1>11. AnswerInv'
      BY <1>1, <1>2, <1>3, <1>5
         DEF IInv, AnswerInv, AnswerIsTrue, Completed, Over, Locking
<1>12. MoneyNeedsBothGates' /\ AtMostOneRowPerKey'
      BY <1>1, <1>5
         DEF IInv, MoneyNeedsBothGates, AtMostOneRowPerKey, Completed
<1>13. OrderInv'
  <2>1. SUFFICES ASSUME StableOrder, NEW w \in Users, NEW q \in Requests,
                        lock'[w] = q, NEW v \in Parties(q), Rank[v] < Rank[w]
                 PROVE  lock'[v] = q
        BY <1>1 DEF OrderInv, Parties, Sender, Receiver
  <2>2. pc[q] \in Payable
        BY <1>2, <1>4, <2>1 DEF IInv, LockInv, Locking, Payable
  <2>3. v \in Users
        BY <2>2, PartiesAreUsers DEF IInv
  <2>4. CASE w = u
    <3>1. q = r /\ lock[v] = r
          BY <1>4, <2>1, <2>4 DEF LockWallet, NextWallets
    <3>2. QED  BY <1>4, <2>3, <3>1
  <2>5. CASE w # u
    <3>1. lock[v] = q
          BY <1>4, <2>1, <2>5 DEF IInv, OrderInv
    <3>2. QED  BY <1>4, <2>3, <3>1, ConstantAssumption
  <2>6. QED  BY <2>4, <2>5
<1>14. QED  BY <1>6, <1>7, <1>8, <1>9, <1>10, <1>11, <1>12, <1>13 DEF IInv

\* Reading both wallets without a lock keeps it: no wallet is ever locked.
LEMMA ReadWalletsInv ==
  ASSUME IInv, TypeOK', NEW r \in Requests, ReadWallets(r)
  PROVE  IInv'
<1>1. /\ balance' = balance /\ tx' = tx /\ events' = events /\ pay' = pay
      /\ decision' = decision /\ reply' = reply /\ answer' = answer
      /\ lock' = lock
      BY DEF ReadWallets, tables
<1>2. ~Postgres /\ pc[r] = "wallets" /\ pc'[r] = "settle" /\ tx[r] = "none"
      BY DEF ReadWallets, Goto, IInv, TypeOK, RowInv, Rows, Over
<1>3. \A q \in Requests \ {r} : pc'[q] = pc[q]
      BY DEF ReadWallets, Goto, IInv, TypeOK
<1>4. Rows' = Rows
      BY <1>1 DEF Rows
<1>5. RowInv'
      BY <1>2, <1>3, <1>4 DEF IInv, RowInv, Rows
<1>6. ApprovedInv'
      BY <1>1, <1>2, <1>3 DEF IInv, ApprovedInv, Approved
<1>7. PayableInv'
      BY <1>1, <1>2, <1>3
         DEF IInv, PayableInv, Payable, Completed, ReceiverUsable, Sender, Receiver
<1>8. LockInv' /\ SettleInv' /\ OrderInv'
      BY <1>1, <1>2
         DEF IInv, LockInv, SettleInv, OrderInv, Parties, Sender, Receiver
<1>9. AnswerInv'
      BY <1>1, <1>2, <1>3, <1>4 DEF IInv, AnswerInv, AnswerIsTrue, Completed, Over
<1>10. MoneyNeedsBothGates' /\ AtMostOneRowPerKey'
      BY <1>1, <1>4
         DEF IInv, MoneyNeedsBothGates, AtMostOneRowPerKey, Completed
<1>11. QED  BY <1>5, <1>6, <1>7, <1>8, <1>9, <1>10 DEF IInv

\* The transfer's own wallets are locked by nobody else, so the balances it
\* writes disturb no other call's snapshot.
LEMMA TransferInv ==
  ASSUME IInv, NEW r \in Requests, Transfer(r)
  PROVE  IInv'
<1> DEFINE new == [balance EXCEPT
                     ![Sender(r)]   = snap[r][Sender(r)] - Amount(r),
                     ![Receiver(r)] = snap[r][Receiver(r)] + Amount(r)]
<1>1. new \in [Users -> Nat]
      BY TransferBalances DEF IInv, Transfer
<1>2. /\ pc[r] = "settle" /\ decision[r] = "authorized"
      /\ Commit(r, "completed", new, "row")
      BY DEF Transfer
<1>3. ReceiverUsable(r) /\ events[r] = "approval_consumed"
      BY <1>2 DEF IInv, PayableInv, ApprovedInv, Payable, Approved
<1>4. \A u \in Users, q \in Requests \ {r} : lock[u] = q => new[u] = balance[u]
  <2>1. SUFFICES ASSUME NEW u \in Users, NEW q \in Requests \ {r}, lock[u] = q
                 PROVE  u \notin Parties(r)
        BY DEF Parties, IInv, TypeOK
  <2>2. QED  BY <1>2, <2>1 DEF IInv, LockInv, SettleInv
<1>5. pc[r] \notin Over /\ "completed" \in RowStatuses /\ "row" \in Replies
      BY <1>2 DEF Over, RowStatuses, Replies
<1> HIDE DEF new
<1>6. QED  BY <1>1, <1>2, <1>3, <1>4, <1>5, CommitInv

\* Every step of a call keeps the inductive invariant.
LEMMA HandleInv ==
  ASSUME IInv, NEW r \in Requests,
         Admit(r) \/ RefuseUnverified(r) \/ Handle(r) \/ Fail(r)
  PROVE  IInv'
<1>0. TypeOK /\ TypeOK'
      BY HandleType DEF IInv
<1>a. pc[r] \notin Over => tx[r] = "none"
      BY DEF IInv, TypeOK, RowInv, Rows
<1>1. CASE Admit(r) \/ NoReplay(r)
      BY <1>0, <1>1, AdvanceInv
         DEF Admit, NoReplay, tables, locals, Steps, Over, Locking, Approved, Payable
<1>2. CASE RefuseUnverified(r) \/ RefuseUnenrolled(r) \/ RefuseReceiver(r)
           \/ RefuseInsufficient(r)
      BY <1>a, <1>2, FinishInv
         DEF RefuseUnverified, RefuseUnenrolled, RefuseReceiver,
             RefuseInsufficient, Refuse, Replies, Over
<1>3. CASE Replay(r)
  <2>1. PICK q \in Rows : pay[q].key = pay[r].key /\ Finish(r, "row", q)
        BY <1>3 DEF Replay
  <2>2. q \in Requests
        BY DEF Rows
  <2>3. QED  BY <1>3, <2>1, <2>2, FinishInv DEF Replay, Replies
<1>4. CASE Approve(r) \/ Deny(r)
  <2>1. UNCHANGED <<balance, tx, lock, pay, snap, reply, answer, decision>>
        BY <1>4 DEF Approve, Deny, TapSign, locals
  <2>2. \A q \in Requests \ {r} : events'[q] = events[q]
        BY <1>0, <1>4 DEF Approve, Deny, TapSign, TypeOK
  <2>3. pc[r] = "verify"
        BY <1>4 DEF Approve, Deny, TapSign
  <2>4. CASE Approve(r)
        BY <1>0, <2>1, <2>2, <2>3, <2>4, AdvanceInv
           DEF Approve, TapSign, TypeOK, Steps, Over, Locking, Approved, Payable
  <2>5. CASE Deny(r)
        BY <1>0, <2>1, <2>2, <2>3, <2>5, AdvanceInv
           DEF Deny, TapSign, Steps, Over, Locking, Approved, Payable
  <2>6. QED  BY <1>4, <2>4, <2>5
<1>5. CASE RecordFailed(r)
      BY <1>0, <1>5, CommitInv
         DEF RecordFailed, TypeOK, Over, RowStatuses, Replies
<1>6. CASE FindReceiver(r)
      BY <1>0, <1>6, AdvanceInv
         DEF FindReceiver, tables, locals, Steps, Over, Locking, Approved, Payable,
             IInv, ApprovedInv
<1>7. CASE CountRecent(r)
      BY <1>0, <1>7, AdvanceInv
         DEF CountRecent, tables, Steps, Over, Locking, Approved, Payable,
             IInv, ApprovedInv, PayableInv
<1>8. CASE \E hour \in ClockHours : Score(r, hour)
  <2>1. PICK hour \in ClockHours : Score(r, hour)
        BY <1>8
  <2>2. \A q \in Requests \ {r} : decision'[q] = decision[q] /\ events'[q] = events[q]
        BY <1>0, <2>1 DEF Score, TypeOK, tables
  <2>3. QED
        BY <1>0, <2>1, <2>2, AdvanceInv
           DEF Score, tables, Steps, Over, Locking, Approved, Payable,
               IInv, ApprovedInv, PayableInv
<1>9. CASE \E u \in Users : LockWallet(r, u)
      BY <1>0, <1>9, LockWalletInv
<1>10. CASE ReadWallets(r)
      BY <1>0, <1>10, ReadWalletsInv
<1>11. CASE AbortDeadlock(r) \/ FailOverflow(r) \/ LoseKeyRace(r) \/ Fail(r)
      BY <1>11, FinishInv
         DEF AbortDeadlock, FailOverflow, LoseKeyRace, Fail, RollBack, Replies
<1>12. CASE RecordBlocked(r) \/ RecordReview(r)
      BY <1>0, <1>12, CommitInv
         DEF RecordBlocked, RecordReview, TypeOK, Over, RowStatuses, Replies
<1>13. CASE Transfer(r)
      BY <1>13, TransferInv
<1>14. CASE Respond(r)
  <2>1. /\ pc[r] = "respond" /\ pc'[r] = "done"
        /\ \A q \in Requests \ {r} : pc'[q] = pc[q]
        /\ UNCHANGED <<tables, locals, lock, pay, reply, answer>>
        BY <1>0, <1>14 DEF Respond, Goto, TypeOK
  <2>2. Rows' = Rows
        BY <2>1 DEF Rows, tables
  <2>3. RowInv' /\ AnswerInv'
        BY <2>1, <2>2 DEF IInv, RowInv, AnswerInv, AnswerIsTrue, Over, Rows,
                          Completed, tables
  <2>4. ApprovedInv' /\ PayableInv'
        BY <2>1 DEF IInv, ApprovedInv, Approved, PayableInv, Payable, Completed,
                    ReceiverUsable, Sender, Receiver, tables
  <2>5. LockInv' /\ SettleInv' /\ OrderInv'
        BY <2>1 DEF IInv, LockInv, SettleInv, OrderInv, Locking, Parties, Sender,
                    Receiver, tables, locals
  <2>6. MoneyNeedsBothGates' /\ AtMostOneRowPerKey'
        BY <2>1, <2>2 DEF IInv, MoneyNeedsBothGates, AtMostOneRowPerKey,
                          Completed, tables, locals
  <2>7. QED  BY <1>0, <2>3, <2>4, <2>5, <2>6 DEF IInv
<1>15. QED
      BY <1>1, <1>2, <1>3, <1>4, <1>5, <1>6, <1>7, <1>8, <1>9, <1>10, <1>11,
         <1>12, <1>13, <1>14 DEF Handle

\* Neither the clock nor the end of all calls disturbs it.
LEMMA IdleInv ==
  ASSUME IInv, (\E q \in Requests : HourPasses(q)) \/ Finished \/ UNCHANGED vars
  PROVE  IInv'
<1>1. UNCHANGED <<tables, locals, lock, pc, pay, reply, answer>>
      BY DEF HourPasses, Finished, vars, tables, locals
<1>2. TypeOK'
      BY <1>1 DEF HourPasses, Finished, vars, IInv, TypeOK, tables, locals
<1>3. Rows' = Rows
      BY <1>1 DEF Rows, tables
<1>4. RowInv' /\ ApprovedInv' /\ PayableInv'
      BY <1>1, <1>3 DEF IInv, RowInv, ApprovedInv, PayableInv, Completed,
                        ReceiverUsable, Sender, Receiver, tables
<1>5. LockInv' /\ SettleInv' /\ OrderInv'
      BY <1>1 DEF IInv, LockInv, SettleInv, OrderInv, Parties, Sender, Receiver,
                  tables, locals
<1>6. AnswerInv' /\ MoneyNeedsBothGates' /\ AtMostOneRowPerKey'
      BY <1>1, <1>3 DEF IInv, AnswerInv, AnswerIsTrue, MoneyNeedsBothGates,
                        AtMostOneRowPerKey, Completed, tables, locals
<1>7. QED  BY <1>2, <1>4, <1>5, <1>6 DEF IInv

\* The inductive invariant holds of every reachable state, on both databases
\* (payments.py:26-167).
THEOREM Inductive == Spec => []IInv
<1>1. Init => IInv
  <2>1. Init => TypeOK
        BY NothingType, ConstantAssumption DEF Init, TypeOK, Steps
  <2>2. Init => Rows = {}
        BY DEF Init, Rows
  <2>3. QED
        BY <2>1, <2>2, ConstantAssumption
           DEF Init, IInv, RowInv, ApprovedInv, Approved, PayableInv, Payable,
               Completed, LockInv, SettleInv, OrderInv, AnswerInv, Over,
               MoneyNeedsBothGates, AtMostOneRowPerKey
<1>2. IInv /\ [Next]_vars => IInv'
      BY HandleInv, IdleInv DEF Next
<1>3. QED  BY <1>1, <1>2, PTL DEF Spec

\* No two rows share an Idempotency-Key (payments.py:36-39, transaction.py:49).
THEOREM KeysAreUnique == Spec => []AtMostOneRowPerKey
<1>1. IInv => AtMostOneRowPerKey
      BY DEF IInv
<1>2. QED  BY <1>1, Inductive, PTL

\* Money moves only for a call that TapSign approved and the risk model
\* authorized (payments.py:58-67, 122-141).
THEOREM BothGates == Spec => []MoneyNeedsBothGates
<1>1. IInv => MoneyNeedsBothGates
      BY DEF IInv
<1>2. QED  BY <1>1, Inductive, PTL

\* A refusal moved no money and a shown row exists (payments.py:38-39, 121-146).
THEOREM Answers == Spec => []AnswersAreTrue
<1>1. IInv => AnswersAreTrue
      BY DEF IInv, AnswerInv, AnswersAreTrue, Over
<1>2. QED  BY <1>1, Inductive, PTL

\* With row locks, what a call is about to write rests on current balances,
\* whatever the number of calls and the order of the scan (payments.py:95-108).
THEOREM Snapshots == ASSUME Postgres PROVE Spec => []SnapshotsCurrent
<1>1. IInv => SnapshotsCurrent
  <2>1. SUFFICES ASSUME IInv, NEW r \in Requests, pc[r] = "settle",
                        NEW u \in Parties(r)
                 PROVE  lock[u] = r /\ snap[r][u] = balance[u]
        BY DEF SnapshotsCurrent
  <2>2. u \in Users
        BY <2>1, BodyFields
           DEF IInv, TypeOK, PayableInv, Payable, Parties, ReceiverUsable,
               Sender, Receiver
  <2>3. QED  BY <2>1, <2>2 DEF IInv, SettleInv, LockInv
<1>2. QED  BY <1>1, Inductive, PTL

\* If the scan follows one order of the wallets, no set of payments waits for
\* one another's locks (payments.py:95): a call that waits holds only wallets
\* of lower rank than the one it waits for, so on a cycle of waiting calls
\* these ranks would descend for ever.
THEOREM StableOrderAvoidsCycles == ASSUME StableOrder PROVE Spec => []NoLockCycle
<1>1. ASSUME IInv, NEW p \in Requests, NEW q \in Requests, WaitsFor(q, p),
             NEW w \in NextWallets(p), pc[p] = "wallets"
      PROVE  \E u \in NextWallets(q) : Rank[u] < Rank[w]
  <2>1. PICK u \in NextWallets(q) : lock[u] = p
        BY <1>1 DEF WaitsFor
  <2>2. pc[q] \in Payable /\ pc[p] \in Payable
        BY <1>1 DEF WaitsFor, Payable
  <2>3. Parties(q) \subseteq Users /\ Parties(p) \subseteq Users
        BY <1>1, <2>2, PartiesAreUsers DEF IInv
  <2>4. u \in Users /\ w \in Users /\ w \in Parties(p) /\ lock[w] # p
        BY <2>3, <1>1 DEF NextWallets
  <2>5. ~(Rank[w] < Rank[u])
        BY <1>1, <2>1, <2>4 DEF IInv, OrderInv
  <2>6. Rank[u] \in Nat /\ Rank[w] \in Nat /\ Rank[u] # Rank[w]
        BY <2>1, <2>4, ConstantAssumption
  <2>7. QED  BY <2>5, <2>6
<1>2. IInv => NoLockCycle
  <2>1. SUFFICES ASSUME IInv, NEW r \in Requests, InWaitCycle(r) PROVE FALSE
        BY DEF NoLockCycle
  <2>2. PICK S \in SUBSET {q \in Requests : pc[q] = "wallets"} :
          /\ r \in S
          /\ \A p \in S : /\ \E q \in S : WaitsFor(p, q)
                          /\ \E q \in S : WaitsFor(q, p)
        BY <2>1 DEF InWaitCycle
  <2> DEFINE wanted == UNION {NextWallets(p) : p \in S}
             ranks  == {Rank[u] : u \in wanted}
  <2>3. wanted \subseteq Users
    <3>1. \A p \in S : p \in Requests /\ pc[p] \in Payable
          BY <2>2 DEF Payable
    <3>2. \A p \in S : Parties(p) \subseteq Users
          BY <2>1, <3>1, PartiesAreUsers DEF IInv
    <3>3. QED  BY <3>2 DEF NextWallets
  <2>4. ranks \subseteq Nat /\ ranks # {}
    <3>1. ranks \subseteq Nat
          BY <2>3, ConstantAssumption
    <3>2. PICK u : u \in NextWallets(r)
          BY <2>2 DEF WaitsFor
    <3>3. QED  BY <2>2, <3>1, <3>2
  <2>5. PICK n \in ranks : \A m \in ranks : ~(m < n)
    <3> HIDE DEF ranks
    <3>1. QED  BY <2>4, LeastNatural
  <2>6. PICK p \in S : \E w \in NextWallets(p) : n = Rank[w]
        OBVIOUS
  <2>6a. PICK w \in NextWallets(p) : n = Rank[w]
        BY <2>6
  <2>7. PICK q \in S : WaitsFor(q, p)
        BY <2>2, <2>6
  <2>8. PICK u \in NextWallets(q) : Rank[u] < Rank[w]
        BY <1>1, <2>1, <2>2, <2>7
  <2>9. Rank[u] \in ranks
        BY <2>7, <2>8
  <2>10. QED  BY <2>5, <2>6a, <2>8, <2>9
<1>3. QED  BY <1>2, Inductive, PTL

-----------------------------------------------------------------------------
(* The balances and the journal.  What the two databases must provide is    *)
(* that no two calls are between their SELECT and their commit with a       *)
(* wallet in common; row locks provide it.                                  *)

\* What a call is about to write rests on current balances.
FreshInv ==
  \A r \in Requests : pc[r] = "settle" =>
    \A u \in Parties(r) : snap[r][u] = balance[u]

\* With row locks what the SELECT returned stays current (payments.py:97-102).
LEMMA LocksKeepFresh ==
  ASSUME Postgres
  PROVE  IInv => FreshInv
<1>1. SUFFICES ASSUME IInv, NEW r \in Requests, pc[r] = "settle", NEW u \in Parties(r)
               PROVE  snap[r][u] = balance[u]
      BY DEF FreshInv
<1>2. u \in Users
      BY <1>1, PartiesAreUsers DEF IInv, Payable
<1>3. QED  BY <1>1, <1>2 DEF IInv, SettleInv, LockInv

\* Only a transfer changes a balance.
LEMMA OnlyTransferMoves ==
  ASSUME IInv, NEW r \in Requests,
         Admit(r) \/ RefuseUnverified(r) \/ Handle(r) \/ Fail(r), ~Transfer(r)
  PROVE  /\ balance' = balance /\ pay' = pay
         /\ \A q \in Requests : Completed(q)' <=> Completed(q)
<1>1. CASE RecordFailed(r) \/ RecordBlocked(r) \/ RecordReview(r)
  <2>1. PICK status \in {"failed", "blocked", "requires_review"} :
          /\ tx' = [tx EXCEPT ![r] = status]
          /\ balance' = balance /\ pay' = pay
        BY <1>1 DEF RecordFailed, RecordBlocked, RecordReview, Commit
  <2>2. tx[r] = "none"
        BY <1>1 DEF RecordFailed, RecordBlocked, RecordReview, IInv, RowInv, Rows, Over
  <2>3. QED  BY <2>1, <2>2 DEF Completed, IInv, TypeOK
<1>2. CASE ~RecordFailed(r) /\ ~RecordBlocked(r) /\ ~RecordReview(r)
  <2>1. UNCHANGED <<balance, tx, pay>>
        BY <1>2
           DEF Handle, Admit, RefuseUnverified, Fail, Replay, NoReplay,
               RefuseUnenrolled, Approve, Deny, TapSign, RefuseReceiver,
               FindReceiver, CountRecent, Score, LockWallet, ReadWallets,
               AbortDeadlock, RefuseInsufficient, FailOverflow, LoseKeyRace,
               Respond, Refuse, RollBack, Finish, tables, locals
  <2>2. QED  BY <2>1 DEF Completed
<1>3. QED  BY <1>1, <1>2

\* What a transfer does to the balances and the rows, if they rest on current
\* balances.
LEMMA TransferEffect ==
  ASSUME IInv, FreshInv, NEW r \in Requests, Transfer(r)
  PROVE  /\ ReceiverUsable(r) /\ Sender(r) \in Users
         /\ Amount(r) \in Nat /\ Amount(r) <= balance[Sender(r)]
         /\ balance' = [balance EXCEPT ![Sender(r)]   = @ - Amount(r),
                                       ![Receiver(r)] = @ + Amount(r)]
         /\ pay' = pay
         /\ r \notin Rows /\ Rows' = Rows \cup {r}
         /\ Completed(r)'
         /\ \A q \in Requests \ {r} : Completed(q)' <=> Completed(q)
<1> DEFINE new == [balance EXCEPT
                     ![Sender(r)]   = snap[r][Sender(r)] - Amount(r),
                     ![Receiver(r)] = snap[r][Receiver(r)] + Amount(r)]
<1>1. /\ pc[r] = "settle" /\ Solvent(r)
      /\ Commit(r, "completed", new, "row")
      BY DEF Transfer
<1>2. ReceiverUsable(r) /\ Sender(r) \in Users
      BY <1>1, BodyFields DEF IInv, TypeOK, PayableInv, Payable, Sender
<1>3. /\ snap[r][Sender(r)] = balance[Sender(r)]
      /\ snap[r][Receiver(r)] = balance[Receiver(r)]
      BY <1>1 DEF FreshInv, Parties
<1>4. /\ Amount(r) \in Nat
      /\ balance \in [Users -> Nat]
      BY BodyFields DEF IInv, TypeOK, Amount
<1>5. Amount(r) <= balance[Sender(r)]
      BY <1>1, <1>2, <1>3, <1>4 DEF Solvent
<1>6. balance' = [balance EXCEPT ![Sender(r)]   = @ - Amount(r),
                                 ![Receiver(r)] = @ + Amount(r)]
      BY <1>1, <1>2, <1>3, <1>4 DEF Commit, ReceiverUsable
<1>7. /\ tx'[r] = "completed" /\ pay' = pay
      /\ \A q \in Requests \ {r} : tx'[q] = tx[q]
      BY <1>1 DEF Commit, IInv, TypeOK
<1>8. r \notin Rows /\ Rows' = Rows \cup {r}
      BY <1>1, <1>7 DEF Rows, IInv, RowInv, Over
<1>9. QED
      BY <1>2, <1>4, <1>5, <1>6, <1>7, <1>8 DEF Completed

\* A step of a call leaves the others where they are, with what they have read,
\* and only the end of its SELECT brings it to "settle".
LEMMA StepIsLocal ==
  ASSUME TypeOK, NEW q \in Requests,
         Admit(q) \/ RefuseUnverified(q) \/ Handle(q) \/ Fail(q)
  PROVE  /\ \A r \in Requests \ {q} : pc'[r] = pc[r] /\ snap'[r] = snap[r]
         /\ pc'[q] = "settle" => ReadWallets(q) \/ \E u \in Users : LockWallet(q, u)
<1>1. CASE ReadWallets(q) \/ \E u \in Users : LockWallet(q, u)
      BY <1>1 DEF TypeOK, ReadWallets, LockWallet, Goto
<1>2. CASE RecordFailed(q) \/ RecordBlocked(q) \/ RecordReview(q) \/ Transfer(q)
      BY <1>2 DEF TypeOK, RecordFailed, RecordBlocked, RecordReview, Transfer,
                  Commit, Goto, Forget
<1>3. CASE RefuseUnverified(q) \/ Replay(q) \/ RefuseUnenrolled(q)
           \/ RefuseReceiver(q) \/ RefuseInsufficient(q)
      BY <1>3 DEF TypeOK, RefuseUnverified, Replay, RefuseUnenrolled, RefuseReceiver,
                  RefuseInsufficient, Refuse, Finish, Goto, Forget
<1>4. CASE AbortDeadlock(q) \/ FailOverflow(q) \/ LoseKeyRace(q) \/ Fail(q)
      BY <1>4 DEF TypeOK, AbortDeadlock, FailOverflow, LoseKeyRace, Fail, RollBack,
                  Finish, Goto, Forget
<1>5. CASE Admit(q) \/ NoReplay(q) \/ Approve(q) \/ Deny(q) \/ FindReceiver(q)
           \/ Respond(q)
      BY <1>5 DEF TypeOK, Admit, NoReplay, Approve, Deny, TapSign, FindReceiver,
                  Respond, Goto, locals
<1>6. CASE CountRecent(q) \/ \E hour \in ClockHours : Score(q, hour)
      BY <1>6 DEF TypeOK, CountRecent, Score, Goto
<1>7. QED  BY <1>1, <1>2, <1>3, <1>4, <1>5, <1>6 DEF Handle

\* If settling calls never share a wallet, nobody makes a snapshot stale on
\* SQLite either, where the SELECT takes no lock.
LEMMA SerialKeepsFresh ==
  ASSUME ~Postgres, IInv, Serial, FreshInv, [Next]_vars
  PROVE  FreshInv'
<1>1. CASE \E q \in Requests :
             Admit(q) \/ RefuseUnverified(q) \/ Handle(q) \/ Fail(q)
  <2>1. PICK q \in Requests :
          Admit(q) \/ RefuseUnverified(q) \/ Handle(q) \/ Fail(q)
        BY <1>1
  <2>2. pay' = pay
        BY <2>1, OnlyTransferMoves, TransferEffect
  <2>3. SUFFICES ASSUME NEW r \in Requests, pc'[r] = "settle", NEW u \in Parties(r)
                 PROVE  snap'[r][u] = balance'[u]
        BY <2>2 DEF FreshInv, Parties, Sender, Receiver
  <2>4. CASE r = q
    <3>1. ReadWallets(q)
          BY <2>1, <2>3, <2>4, StepIsLocal DEF IInv, LockWallet
    <3>2. pc[q] = "wallets"
          BY <3>1 DEF ReadWallets
    <3>3. u \in Users
          BY <2>4, <3>2, PartiesAreUsers DEF IInv, Payable
    <3>4. QED  BY <2>4, <3>1, <3>3 DEF ReadWallets, tables, IInv, TypeOK
  <2>5. CASE r # q
    <3>1. pc[r] = "settle" /\ snap'[r] = snap[r]
          BY <2>1, <2>3, <2>5, StepIsLocal DEF IInv
    <3>2. snap[r][u] = balance[u]
          BY <3>1 DEF FreshInv
    <3>3. balance'[u] = balance[u]
      <4>1. CASE Transfer(q)
        <5>1. pc[q] = "settle"
              BY <4>1 DEF Transfer
        <5>2. u # Sender(q) /\ u # Receiver(q)
              BY <2>5, <3>1, <5>1 DEF Serial, Parties
        <5>3. u \in Users
              BY <3>1, PartiesAreUsers DEF IInv, Payable
        <5>4. QED
              BY <4>1, <5>2, <5>3, TransferEffect DEF IInv, TypeOK
      <4>2. CASE ~Transfer(q)
            BY <2>1, <4>2, OnlyTransferMoves
      <4>3. QED  BY <4>1, <4>2
    <3>4. QED  BY <3>1, <3>2, <3>3
  <2>6. QED  BY <2>4, <2>5
<1>2. CASE (\E q \in Requests : HourPasses(q)) \/ Finished \/ UNCHANGED vars
  <2>1. UNCHANGED <<balance, pc, pay, snap>>
        BY <1>2 DEF HourPasses, Finished, vars, tables, locals
  <2>2. QED  BY <2>1 DEF FreshInv, Parties, Sender, Receiver
<1>3. QED  BY <1>1, <1>2 DEF Next

\* What every call settles on is current, on both databases (payments.py:97-106).
LEMMA FreshAlways == Spec /\ []Serial => []FreshInv
<1>1. Init => FreshInv
      BY DEF Init, FreshInv
<1>2. CASE Postgres
  <2>1. IInv => FreshInv
        BY <1>2, LocksKeepFresh
  <2>2. QED  BY <2>1, Inductive, PTL
<1>3. CASE ~Postgres
  <2>1. IInv /\ Serial /\ FreshInv /\ [Next]_vars => FreshInv'
        BY <1>3, SerialKeepsFresh
  <2>2. QED  BY <1>1, <2>1, Inductive, PTL DEF Spec
<1>4. QED  BY <1>2, <1>3

\* Two calls that both hold the locks of their wallets share no wallet.
LEMMA LocksSerialize ==
  ASSUME Postgres
  PROVE  IInv => Serial
<1>1. SUFFICES ASSUME IInv, NEW q \in Requests, NEW r \in Requests, q # r,
                      pc[q] = "settle", pc[r] = "settle",
                      NEW u \in Parties(q), u \in Parties(r)
               PROVE  FALSE
      BY DEF Serial
<1>2. QED  BY <1>1 DEF IInv, SettleInv

\* What the rows S say was paid, by the bodies p.
Paid(p, S) == MapThenSumSet(LAMBDA q : p[q].amount, S)

Sent(u) == {q \in Rows : Completed(q) /\ Sender(q) = u}
Got(u)  == {q \in Rows : Completed(q) /\ Receiver(q) = u}

\* A payment counts once among the rows it joins.
LEMMA PaidAdds ==
  ASSUME NEW p \in [Requests -> Bodies], NEW S \in SUBSET Requests,
         NEW r \in Requests \ S
  PROVE  /\ Paid(p, S) \in Nat
         /\ Paid(p, S \cup {r}) = p[r].amount + Paid(p, S)
<1>1. PICK f : f = [q \in Requests |-> p[q].amount]
      OBVIOUS
<1>2. f \in [Requests -> Nat] /\ IsFiniteSet(Requests)
      BY <1>1, BodyFields, ConstantAssumption
<1>3. PICK g : IsSum(g, f, Requests)
      BY <1>2, SumExists
<1>4. ASSUME NEW V \in SUBSET Requests PROVE Paid(p, V) = g[V]
  <2> DEFINE Sums(h) ==
        h = [s \in SUBSET V |-> IF s = {} THEN 0
                                ELSE p[CHOOSE x \in s : TRUE].amount
                                       + h[s \ {CHOOSE x \in s : TRUE}]]
  <2>1. Paid(p, V) = (CHOOSE h : Sums(h))[V]
        BY DEF Paid, MapThenSumSet, MapThenFoldSet
  <2>2. \A h : IsSum(h, f, V) <=> Sums(h)
    <3>1. \A s \in SUBSET V : s # {} => f[Pick(s)] = p[Pick(s)].amount
          BY <1>1, PickIn
    <3>2. QED  BY <3>1 DEF IsSum, Pick
  <2> HIDE DEF Sums
  <2>3. PICK h : IsSum(h, f, V)
        BY <1>2, FS_Subset, SumExists
  <2>4. Sums(CHOOSE i : Sums(i))
        BY <2>2, <2>3
  <2>5. PICK i : i = CHOOSE j : Sums(j)
        OBVIOUS
  <2>6. i[V] = g[V]
        BY <1>2, <1>3, <2>2, <2>4, <2>5, SumAgrees
  <2>7. QED  BY <2>1, <2>5, <2>6
<1>5. g[S] \in Nat
      BY <1>2, <1>3, SumType
<1>6. g[S \cup {r}] = f[r] + g[S]
  <2>1. (S \cup {r}) \ {r} = S /\ S \cup {r} \in SUBSET Requests
        OBVIOUS
  <2>2. QED  BY <1>2, <1>3, <2>1, SumRemove
<1>7. QED  BY <1>1, <1>4, <1>5, <1>6

\* The property in terms of these sums.
LEMMA Matches ==
  BalancesMatchLedger <=>
    \A u \in Users :
      balance[u] + Paid(pay, Sent(u)) = InitialBalance[u] + Paid(pay, Got(u))
  BY DEF BalancesMatchLedger, Paid, Sent, Got, Amount, MapThenSumSet, MapThenFoldSet

\* A transfer adds its amount to both sides of the books.
LEMMA TransferMatches ==
  ASSUME IInv, FreshInv, NEW r \in Requests, Transfer(r), NEW u \in Users,
         balance[u] + Paid(pay, Sent(u)) = InitialBalance[u] + Paid(pay, Got(u))
  PROVE  balance'[u] + Paid(pay', Sent(u)')
           = InitialBalance[u] + Paid(pay', Got(u)')
<1>1. /\ ReceiverUsable(r) /\ Sender(r) \in Users
      /\ Amount(r) \in Nat /\ Amount(r) <= balance[Sender(r)]
      /\ balance' = [balance EXCEPT ![Sender(r)]   = @ - Amount(r),
                                    ![Receiver(r)] = @ + Amount(r)]
      /\ pay' = pay
      /\ r \notin Rows /\ Rows' = Rows \cup {r}
      /\ Completed(r)'
      /\ \A q \in Requests \ {r} : Completed(q)' <=> Completed(q)
      BY TransferEffect
<1>2. /\ Sent(u)' = IF u = Sender(r) THEN Sent(u) \cup {r} ELSE Sent(u)
      /\ Got(u)' = IF u = Receiver(r) THEN Got(u) \cup {r} ELSE Got(u)
      BY <1>1 DEF Sent, Got, Rows, Sender, Receiver
<1>3. PICK p, S, G, a, b : /\ p = pay /\ S = Sent(u) /\ G = Got(u)
                           /\ a = Amount(r) /\ b = balance[u]
      OBVIOUS
<1>4. /\ p \in [Requests -> Bodies]
      /\ S \in SUBSET Requests /\ G \in SUBSET Requests
      /\ r \notin S /\ r \notin G
      /\ a \in Nat /\ b \in Nat /\ InitialBalance[u] \in Nat
  <2>1. p \in [Requests -> Bodies] /\ a \in Nat /\ b \in Nat
        BY <1>1, <1>3 DEF IInv, TypeOK
  <2>2. /\ S \in SUBSET Requests /\ G \in SUBSET Requests
        /\ r \notin S /\ r \notin G
        BY <1>1, <1>3 DEF Sent, Got, Rows
  <2>3. InitialBalance[u] \in Nat
        BY ConstantAssumption
  <2>4. QED  BY <2>1, <2>2, <2>3
<1>5. /\ Paid(p, S) \in Nat /\ Paid(p, S \cup {r}) = a + Paid(p, S)
      /\ Paid(p, G) \in Nat /\ Paid(p, G \cup {r}) = a + Paid(p, G)
      BY <1>3, <1>4, PaidAdds DEF Amount
<1>6. b + Paid(p, S) = InitialBalance[u] + Paid(p, G)
      BY <1>3
<1>7. CASE u = Sender(r)
  <2>1. balance'[u] = b - a /\ a <= b /\ u # Receiver(r)
        BY <1>1, <1>3, <1>7 DEF ReceiverUsable, IInv, TypeOK
  <2>2. (b - a) + (a + Paid(p, S)) = InitialBalance[u] + Paid(p, G)
        BY <1>4, <1>5, <1>6
  <2>3. QED  BY <1>1, <1>2, <1>3, <1>5, <1>7, <2>1, <2>2
<1>8. CASE u = Receiver(r)
  <2>1. balance'[u] = b + a /\ u # Sender(r)
        BY <1>1, <1>3, <1>8 DEF ReceiverUsable, IInv, TypeOK
  <2>2. (b + a) + Paid(p, S) = InitialBalance[u] + (a + Paid(p, G))
        BY <1>4, <1>5, <1>6
  <2>3. QED  BY <1>1, <1>2, <1>3, <1>5, <1>8, <2>1, <2>2
<1>9. CASE u # Sender(r) /\ u # Receiver(r)
  <2>1. balance'[u] = b
        BY <1>1, <1>3, <1>9 DEF IInv, TypeOK
  <2>2. QED  BY <1>1, <1>2, <1>3, <1>6, <1>9, <2>1
<1>10. QED  BY <1>7, <1>8, <1>9

\* Whatever moves no money changes neither side.
LEMMA OthersMatch ==
  ASSUME BalancesMatchLedger, balance' = balance, pay' = pay, IInv, IInv',
         \A q \in Requests : Completed(q)' <=> Completed(q)
  PROVE  BalancesMatchLedger'
<1>1. \A u \in Users : Sent(u)' = Sent(u) /\ Got(u)' = Got(u)
  <2>1. \A q \in Requests : /\ Completed(q) => q \in Rows
                            /\ Completed(q)' => q \in Rows'
        BY DEF Completed, Rows
  <2>2. QED  BY <2>1 DEF Sent, Got, Rows, Sender, Receiver
<1>2. \A u \in Users :
        balance[u] + Paid(pay, Sent(u)) = InitialBalance[u] + Paid(pay, Got(u))
      BY Matches
<1>3. \A u \in Users :
        balance'[u] + Paid(pay', Sent(u)') = InitialBalance[u] + Paid(pay', Got(u)')
      BY <1>1, <1>2
<1>4. QED
      BY <1>3 DEF BalancesMatchLedger, Paid, Sent, Got, Amount, MapThenSumSet,
                  MapThenFoldSet

\* Every step keeps the books.
LEMMA StepMatches ==
  ASSUME IInv, IInv', FreshInv, BalancesMatchLedger, [Next]_vars
  PROVE  BalancesMatchLedger'
<1>1. CASE \E r \in Requests :
             Admit(r) \/ RefuseUnverified(r) \/ Handle(r) \/ Fail(r)
  <2>1. PICK r \in Requests :
          Admit(r) \/ RefuseUnverified(r) \/ Handle(r) \/ Fail(r)
        BY <1>1
  <2>2. CASE Transfer(r)
    <3>1. \A u \in Users :
            balance'[u] + Paid(pay', Sent(u)') = InitialBalance[u] + Paid(pay', Got(u)')
          BY <2>2, Matches, TransferMatches
    <3>2. QED
          BY <3>1 DEF BalancesMatchLedger, Paid, Sent, Got, Amount, MapThenSumSet,
                      MapThenFoldSet
  <2>3. CASE ~Transfer(r)
        BY <2>1, <2>3, OnlyTransferMoves, OthersMatch
  <2>4. QED  BY <2>2, <2>3
<1>2. CASE (\E q \in Requests : HourPasses(q)) \/ Finished \/ UNCHANGED vars
  <2>1. UNCHANGED <<balance, tx, pay>>
        BY <1>2 DEF HourPasses, Finished, vars, tables
  <2>2. QED  BY <2>1, OthersMatch DEF Completed
<1>3. QED  BY <1>1, <1>2 DEF Next

\* On any database, the books are right as long as settling calls share no
\* wallet: all that SQLite lacks is the serialization of those calls
\* (payments.py:97-141).
THEOREM SerialLedgerBalances == Spec => SafeIfSerial
<1>1. Init => BalancesMatchLedger
  <2>1. SUFFICES ASSUME Init PROVE BalancesMatchLedger
        OBVIOUS
  <2>2. \A u \in Users : Sent(u) = {} /\ Got(u) = {} /\ balance[u] = InitialBalance[u]
        BY <2>1 DEF Init, Sent, Got, Rows
  <2>3. QED  BY <2>2, Matches
<1>2. IInv /\ IInv' /\ FreshInv /\ BalancesMatchLedger /\ [Next]_vars
        => BalancesMatchLedger'
      BY StepMatches
<1>3. QED  BY <1>1, <1>2, Inductive, FreshAlways, PTL DEF Spec, SafeIfSerial

\* With row locks every wallet holds its funding, less what the completed rows
\* say it sent, plus what they say it received, whatever the number of calls,
\* their interleaving and where they fail (payments.py:97-144).
THEOREM LedgerBalances == ASSUME Postgres PROVE Spec => []BalancesMatchLedger
<1>1. IInv => Serial
      BY LocksSerialize
<1>2. QED  BY <1>1, Inductive, SerialLedgerBalances, PTL DEF SafeIfSerial

\* The money in the system.
Total(b) == MapThenSumSet(LAMBDA u : b[u], Users)

\* It is the sum of a function of the wallets.
LEMMA TotalIsSum ==
  ASSUME IsFiniteSet(Users), NEW b \in [Users -> Nat], NEW g, IsSum(g, b, Users)
  PROVE  Total(b) = g[Users]
<1>1. IsSum(CHOOSE h : IsSum(h, b, Users), b, Users)
      OBVIOUS
<1>2. Total(b) = (CHOOSE h : IsSum(h, b, Users))[Users]
      BY DEF Total, MapThenSumSet, MapThenFoldSet, IsSum, Pick
<1>3. QED  BY <1>1, <1>2, SumAgrees

\* Moving an amount from one wallet to another does not change it.
LEMMA MovingKeepsTotal ==
  ASSUME IsFiniteSet(Users), NEW b \in [Users -> Nat], NEW c \in [Users -> Nat],
         NEW s \in Users, NEW t \in Users \ {s}, NEW a \in Nat, a <= b[s],
         c[s] = b[s] - a, c[t] = b[t] + a,
         \A u \in Users \ {s, t} : c[u] = b[u]
  PROVE  Total(c) = Total(b)
<1>1. PICK g, h : IsSum(g, b, Users) /\ IsSum(h, c, Users)
      BY SumExists
<1> DEFINE U1 == Users \ {s}
           V  == U1 \ {t}
<1>2. V \in SUBSET Users /\ IsFiniteSet(V)
      BY FS_Subset
<1>3. g[V] = h[V]
  <2>1. PICK k : IsSum(k, b, V)
        BY <1>2, SumExists
  <2>2. IsSum(k, c, V)
    <3>1. \A w \in SUBSET V : w # {} => c[Pick(w)] = b[Pick(w)]
          BY PickIn
    <3>2. QED  BY <2>1, <3>1 DEF IsSum
  <2> HIDE DEF V
  <2>3. k[V] = g[V] /\ k[V] = h[V]
        BY <1>1, <1>2, <2>1, <2>2, SumAgrees
  <2>4. QED  BY <2>3
<1>4. /\ g[Users] = b[s] + g[U1] /\ g[U1] = b[t] + g[V]
      /\ h[Users] = c[s] + h[U1] /\ h[U1] = c[t] + h[V]
  <2>1. Users \in SUBSET Users /\ U1 \in SUBSET Users /\ t \in U1
        OBVIOUS
  <2> HIDE DEF U1
  <2>2. g[Users] = b[s] + g[Users \ {s}] /\ g[U1] = b[t] + g[U1 \ {t}]
        BY <1>1, <2>1, SumRemove
  <2>3. h[Users] = c[s] + h[Users \ {s}] /\ h[U1] = c[t] + h[U1 \ {t}]
        BY <1>1, <2>1, SumRemove
  <2>4. QED  BY <2>2, <2>3 DEF U1
<1>5. PICK n, x, y : n = g[V] /\ x = b[s] /\ y = b[t]
      OBVIOUS
<1>6. n \in Nat /\ x \in Nat /\ y \in Nat
      BY <1>1, <1>2, <1>5, SumType
<1>7. (x - a) + ((y + a) + n) = x + (y + n)
      BY <1>6
<1>8. g[Users] = x + (y + n) /\ h[Users] = (x - a) + ((y + a) + n)
      BY <1>3, <1>4, <1>5
<1>9. QED  BY <1>1, <1>7, <1>8, TotalIsSum

\* No interleaving and no failure creates or destroys money, if row locks (or
\* the absence of overlapping payments) keep what calls settle on current
\* (payments.py:97-141).
THEOREM MoneyConserved ==
  ASSUME IsFiniteSet(Users)
  PROVE  Spec /\ []Serial => [](Total(balance) = Total(InitialBalance))
<1>1. ASSUME IInv, IInv', FreshInv, [Next]_vars
      PROVE  Total(balance') = Total(balance)
  <2>1. CASE \E r \in Requests : Transfer(r)
    <3>1. PICK r \in Requests : Transfer(r)
          BY <2>1
    <3>2. PICK b, c, s, t, a : /\ b = balance /\ c = balance'
                               /\ s = Sender(r) /\ t = Receiver(r) /\ a = Amount(r)
          OBVIOUS
    <3>3. b \in [Users -> Nat] /\ c \in [Users -> Nat]
          BY <1>1, <3>2 DEF IInv, TypeOK
    <3>4. /\ s \in Users /\ t \in Users \ {s} /\ a \in Nat /\ a <= b[s]
          /\ c = [b EXCEPT ![s] = @ - a, ![t] = @ + a]
          BY <1>1, <3>1, <3>2, TransferEffect DEF ReceiverUsable
    <3>5. /\ c[s] = b[s] - a /\ c[t] = b[t] + a
          /\ \A u \in Users \ {s, t} : c[u] = b[u]
          BY <3>3, <3>4
    <3>6. Total(c) = Total(b)
          BY <3>3, <3>4, <3>5, MovingKeepsTotal
    <3>7. QED  BY <3>2, <3>6
  <2>2. CASE ~\E r \in Requests : Transfer(r)
    <3>1. balance' = balance
          BY <1>1, <2>2, OnlyTransferMoves
             DEF Next, HourPasses, Finished, vars, tables
    <3>2. QED  BY <3>1
  <2>3. QED  BY <2>1, <2>2
<1>2. Init => Total(balance) = Total(InitialBalance)
      BY DEF Init
<1>3. IInv /\ IInv' /\ FreshInv /\ (Total(balance) = Total(InitialBalance))
        /\ [Next]_vars => (Total(balance) = Total(InitialBalance))'
  <2>1. SUFFICES ASSUME IInv, IInv', FreshInv, [Next]_vars,
                        Total(balance) = Total(InitialBalance)
                 PROVE  Total(balance') = Total(InitialBalance)
        OBVIOUS
  <2>2. QED  BY <1>1, <2>1
<1>4. QED  BY <1>2, <1>3, Inductive, FreshAlways, PTL DEF Spec

-----------------------------------------------------------------------------
(* Rows and progress.                                                       *)

\* What is on record stays as it was written: no retry, replay, failure or
\* concurrent call changes a committed row or the event of a call that has one
\* (payments.py:36-39, 149-167).
THEOREM RowsAreFinal ==
  Spec => [][\A q \in Rows : /\ q \in Rows' /\ tx'[q] = tx[q]
                             /\ pay'[q] = pay[q] /\ events'[q] = events[q]]_vars
<1>1. ASSUME IInv, [Next]_vars, NEW q \in Rows
      PROVE  /\ q \in Rows' /\ tx'[q] = tx[q]
             /\ pay'[q] = pay[q] /\ events'[q] = events[q]
  <2>1. pc[q] \in Over /\ q \in Requests
        BY <1>1 DEF IInv, RowInv, Rows
  <2>2. CASE \E r \in Requests :
               Admit(r) \/ RefuseUnverified(r) \/ Handle(r) \/ Fail(r)
    <3>1. PICK r \in Requests :
            Admit(r) \/ RefuseUnverified(r) \/ Handle(r) \/ Fail(r)
          BY <2>2
    <3>2. CASE RecordFailed(r) \/ RecordBlocked(r) \/ RecordReview(r) \/ Transfer(r)
      <4>1. q # r
            BY <2>1, <3>2 DEF RecordFailed, RecordBlocked, RecordReview, Transfer, Over
      <4>2. tx'[q] = tx[q] /\ pay' = pay /\ events' = events
            BY <1>1, <2>1, <3>2, <4>1
               DEF RecordFailed, RecordBlocked, RecordReview, Transfer, Commit, IInv,
                   TypeOK
      <4>3. QED  BY <1>1, <4>2 DEF Rows
    <3>3. CASE Approve(r) \/ Deny(r)
      <4>1. q # r
            BY <2>1, <3>3 DEF Approve, Deny, TapSign, Over
      <4>2. tx' = tx /\ pay' = pay /\ events'[q] = events[q]
            BY <1>1, <2>1, <3>3, <4>1 DEF Approve, Deny, TapSign, IInv, TypeOK
      <4>3. QED  BY <1>1, <4>2 DEF Rows
    <3>4. CASE ~( \/ RecordFailed(r) \/ RecordBlocked(r) \/ RecordReview(r)
                  \/ Transfer(r) \/ Approve(r) \/ Deny(r))
      <4>1. UNCHANGED <<tx, pay, events>>
            BY <3>1, <3>4
               DEF Handle, Admit, RefuseUnverified, Fail, Replay, NoReplay,
                   RefuseUnenrolled, RefuseReceiver, FindReceiver, CountRecent, Score,
                   LockWallet, ReadWallets, AbortDeadlock, RefuseInsufficient,
                   FailOverflow, LoseKeyRace, Respond, Refuse, RollBack, Finish,
                   tables, locals
      <4>2. QED  BY <1>1, <4>1 DEF Rows
    <3>5. QED  BY <3>2, <3>3, <3>4
  <2>3. CASE (\E r \in Requests : HourPasses(r)) \/ Finished \/ UNCHANGED vars
    <3>1. UNCHANGED <<tx, pay, events>>
          BY <2>3 DEF HourPasses, Finished, vars, tables
    <3>2. QED  BY <1>1, <3>1 DEF Rows
  <2>4. QED  BY <1>1, <2>2, <2>3 DEF Next
<1>2. IInv /\ [Next]_vars =>
        [\A q \in Rows : /\ q \in Rows' /\ tx'[q] = tx[q]
                         /\ pay'[q] = pay[q] /\ events'[q] = events[q]]_vars
      BY <1>1
<1>3. QED  BY <1>2, Inductive, PTL DEF Spec

-----------------------------------------------------------------------------
(* Progress: what can be proved of EveryCallAnswered without ENABLED.  Every *)
(* step of a call's handler brings the call nearer to its answer, no other   *)
(* step takes it back, and as long as a call is in flight some call can move.*)

LocksToGo(r) == (IF lock[Sender(r)]   = r THEN 0 ELSE 1)
              + (IF lock[Receiver(r)] = r THEN 0 ELSE 1)

StepsLeft == [idle |-> 11, lookup |-> 10, verify |-> 9, denied |-> 8, receiver |-> 8,
              count |-> 7, score |-> 6, wallets |-> 3, settle |-> 2, respond |-> 1,
              done |-> 0]

\* No call makes more steps than this before it is over.
Distance(r) == StepsLeft[pc[r]] + (IF pc[r] = "wallets" THEN LocksToGo(r) ELSE 0)

\* A call takes no lock from another and gives it none.
LEMMA OthersLocks ==
  ASSUME IInv, NEW q \in Requests,
         Admit(q) \/ RefuseUnverified(q) \/ Handle(q) \/ Fail(q),
         NEW r \in Requests \ {q}, NEW u \in Users
  PROVE  lock'[u] = r <=> lock[u] = r
<1>1. CASE ReleaseLocks(q)
      BY <1>1, ConstantAssumption DEF ReleaseLocks
<1>2. CASE \E v \in Users : LockWallet(q, v)
  <2>1. PICK v \in Users : LockWallet(q, v)
        BY <1>2
  <2>2. lock[v] = NoRequest /\ lock' = [lock EXCEPT ![v] = q]
        BY <2>1 DEF LockWallet
  <2>3. QED  BY <2>2, ConstantAssumption DEF IInv, TypeOK
<1>3. CASE ~ReleaseLocks(q) /\ ~\E v \in Users : LockWallet(q, v)
  <2>1. lock' = lock
        BY <1>3
           DEF Handle, Admit, RefuseUnverified, Fail, Replay, NoReplay,
               RefuseUnenrolled, Approve, Deny, TapSign, RecordFailed,
               RefuseReceiver, FindReceiver, CountRecent, Score, ReadWallets,
               AbortDeadlock, RefuseInsufficient, RecordBlocked, RecordReview,
               Transfer, FailOverflow, LoseKeyRace, Respond, Refuse, RollBack,
               Commit, Finish
  <2>2. QED  BY <2>1
<1>4. QED  BY <1>1, <1>2, <1>3

\* How far a call is follows from where it is, but for the locks it waits for.
LEMMA DistanceIs ==
  ASSUME TypeOK, NEW r \in Requests
  PROVE  /\ Distance(r) \in Nat
         /\ pc[r] = "done"     => Distance(r) = 0
         /\ pc[r] = "respond"  => Distance(r) = 1
         /\ pc[r] = "settle"   => Distance(r) = 2
         /\ pc[r] = "wallets"  => /\ Distance(r) = 3 + LocksToGo(r)
                                  /\ Distance(r) \in 3..5
         /\ pc[r] = "score"    => Distance(r) = 6
         /\ pc[r] = "count"    => Distance(r) = 7
         /\ pc[r] = "receiver" => Distance(r) = 8
         /\ pc[r] = "denied"   => Distance(r) = 8
         /\ pc[r] = "verify"   => Distance(r) = 9
         /\ pc[r] = "lookup"   => Distance(r) = 10
         /\ pc[r] = "idle"     => Distance(r) = 11
<1>1. pc[r] \in Steps
      BY DEF TypeOK
<1>2. LocksToGo(r) \in 0..2
      BY DEF LocksToGo
<1>3. pc[r] = "wallets" => Distance(r) = 3 + LocksToGo(r)
      BY DEF Distance, StepsLeft
<1> HIDE DEF LocksToGo
<1>4. QED  BY <1>1, <1>2, <1>3 DEF Distance, StepsLeft, Steps

\* A lock that is granted is one less to wait for.
LEMMA LockNearer ==
  ASSUME IInv, TypeOK', NEW r \in Requests, NEW u \in Users, LockWallet(r, u)
  PROVE  Distance(r)' < Distance(r)
<1>1. /\ pc[r] = "wallets" /\ u \in Parties(r) /\ lock[u] = NoRequest
      /\ lock' = [lock EXCEPT ![u] = r] /\ pay' = pay
      /\ pc'[r] \in {"settle", "wallets"}
      BY DEF LockWallet, Goto, NextWallets, IInv, TypeOK
<1>2. Sender(r) \in Users /\ Receiver(r) \in Users /\ Sender(r) # Receiver(r)
      BY <1>1, BodyFields
         DEF IInv, TypeOK, PayableInv, Payable, ReceiverUsable, Sender
<1>3. Sender(r)' = Sender(r) /\ Receiver(r)' = Receiver(r)
      BY <1>1 DEF Sender, Receiver
<1>4. /\ lock'[u] = r /\ lock[u] # r
      /\ \A v \in Users \ {u} : lock'[v] = lock[v]
      BY <1>1, ConstantAssumption DEF IInv, TypeOK
<1>5. LocksToGo(r)' < LocksToGo(r)
  <2>1. CASE u = Sender(r)
    <3>1. lock'[Receiver(r)] = lock[Receiver(r)]
          BY <1>2, <1>4, <2>1
    <3>2. QED  BY <1>3, <1>4, <2>1, <3>1 DEF LocksToGo
  <2>2. CASE u = Receiver(r)
    <3>1. lock'[Sender(r)] = lock[Sender(r)]
          BY <1>2, <1>4, <2>2
    <3>2. QED  BY <1>3, <1>4, <2>2, <3>1 DEF LocksToGo
  <2>3. QED  BY <1>1, <2>1, <2>2 DEF Parties
<1>6. LocksToGo(r) \in Nat /\ LocksToGo(r)' \in Nat
      BY DEF LocksToGo
<1>7. /\ Distance(r) = 3 + LocksToGo(r)
      /\ pc'[r] = "settle" => Distance(r)' = 2
      /\ pc'[r] = "wallets" => Distance(r)' = 3 + LocksToGo(r)'
      BY <1>1 DEF Distance, StepsLeft
<1>8. QED  BY <1>1, <1>5, <1>6, <1>7

\* Every step of a call brings it nearer to its end.
LEMMA StepNearer ==
  ASSUME IInv, TypeOK', NEW r \in Requests,
         Admit(r) \/ RefuseUnverified(r) \/ Handle(r) \/ Fail(r)
  PROVE  Distance(r)' \in Nat /\ Distance(r)' < Distance(r)
<1>1. /\ pc \in [Requests -> Steps] /\ pc'[r] \in Steps
      /\ Distance(r) \in Nat
      BY DistanceIs DEF IInv, TypeOK
<1>1a. Distance(r)' \in Nat
  <2>1. LocksToGo(r)' \in Nat
        BY DEF LocksToGo
  <2>2. QED  BY <1>1, <2>1 DEF Distance, StepsLeft, Steps
<1>2. /\ pc'[r] # "wallets" => Distance(r)' = StepsLeft[pc'[r]]
      /\ pc'[r] = "wallets" => Distance(r)' <= 5
  <2>1. pc'[r] # "wallets" => Distance(r)' = StepsLeft[pc'[r]]
        BY <1>1 DEF Distance, StepsLeft, Steps
  <2>2. pc'[r] = "wallets" => Distance(r)' <= 5
        BY DEF Distance, StepsLeft, LocksToGo
  <2>3. QED  BY <2>1, <2>2
<1>3. CASE \E u \in Users : LockWallet(r, u)
      BY <1>1a, <1>3, LockNearer
<1>4. CASE pc'[r] = "done" /\ pc[r] # "done"
  <2>1. Distance(r)' = 0
        BY <1>2, <1>4 DEF StepsLeft
  <2>2. Distance(r) # 0
        BY <1>1, <1>4, DistanceIs DEF IInv, Steps
  <2>3. QED  BY <1>1, <1>1a, <2>1, <2>2
<1>5. CASE \/ Replay(r) \/ RefuseUnenrolled(r) \/ RefuseReceiver(r) \/ AbortDeadlock(r)
           \/ RefuseInsufficient(r) \/ FailOverflow(r) \/ LoseKeyRace(r) \/ Respond(r)
           \/ RefuseUnverified(r) \/ Fail(r)
  <2>1. pc'[r] = "done" /\ pc[r] # "done"
        BY <1>1, <1>5
           DEF Replay, RefuseUnenrolled, RefuseReceiver, AbortDeadlock,
               RefuseInsufficient, FailOverflow, LoseKeyRace, Respond,
               RefuseUnverified, Fail, InFlight, Refuse, RollBack, Finish, Goto,
               InWaitCycle, WaitsFor
  <2>2. QED  BY <2>1, <1>4
<1>6. CASE RecordFailed(r) \/ RecordBlocked(r) \/ RecordReview(r) \/ Transfer(r)
  <2>1. pc'[r] = "respond" /\ pc[r] \in {"denied", "settle"}
        BY <1>1, <1>6 DEF RecordFailed, RecordBlocked, RecordReview, Transfer, Commit, Goto
  <2>2. Distance(r)' = 1
        BY <1>2, <2>1 DEF StepsLeft
  <2>3. QED  BY <1>1a, <2>1, <2>2, DistanceIs DEF IInv
<1>7. CASE \/ Admit(r) \/ NoReplay(r) \/ Approve(r) \/ Deny(r) \/ FindReceiver(r)
           \/ CountRecent(r)
  <2>1. \/ pc[r] = "idle" /\ pc'[r] = "lookup"
        \/ pc[r] = "lookup" /\ pc'[r] = "verify"
        \/ pc[r] = "verify" /\ pc'[r] \in {"receiver", "denied"}
        \/ pc[r] = "receiver" /\ pc'[r] = "count"
        \/ pc[r] = "count" /\ pc'[r] = "score"
        BY <1>1, <1>7 DEF Admit, NoReplay, Approve, Deny, TapSign, FindReceiver,
                          CountRecent, Goto
  <2>2. QED  BY <1>1a, <1>2, <2>1, DistanceIs DEF IInv, StepsLeft
<1>8. CASE ReadWallets(r) \/ \E hour \in ClockHours : Score(r, hour)
  <2>1. \/ pc[r] = "score" /\ pc'[r] = "wallets"
        \/ pc[r] = "wallets" /\ pc'[r] = "settle"
        BY <1>1, <1>8 DEF ReadWallets, Score, Goto
  <2>2. CASE pc[r] = "score" /\ pc'[r] = "wallets"
    <3>1. Distance(r) = 6
          BY <2>2, DistanceIs DEF IInv
    <3>2. QED  BY <1>1a, <1>2, <2>2, <3>1
  <2>3. CASE pc[r] = "wallets" /\ pc'[r] = "settle"
    <3>1. Distance(r) \in 3..5
          BY <2>3, DistanceIs DEF IInv
    <3>2. Distance(r)' = 2
          BY <1>2, <2>3 DEF StepsLeft
    <3>3. QED  BY <1>1a, <3>1, <3>2
  <2>4. QED  BY <2>1, <2>2, <2>3
<1>9. QED  BY <1>1a, <1>3, <1>5, <1>6, <1>7, <1>8 DEF Handle

\* A step of another call does not take it back.
LEMMA OthersKeepDistance ==
  ASSUME IInv, NEW q \in Requests,
         Admit(q) \/ RefuseUnverified(q) \/ Handle(q) \/ Fail(q),
         pay' = pay, NEW r \in Requests \ {q}
  PROVE  Distance(r)' = Distance(r)
<1>1. pc'[r] = pc[r]
      BY StepIsLocal DEF IInv
<1>2. CASE pc[r] # "wallets"
      BY <1>1, <1>2 DEF Distance
<1>3. CASE pc[r] = "wallets"
  <2>1. Sender(r) \in Users /\ Receiver(r) \in Users
        BY <1>3, BodyFields
           DEF IInv, TypeOK, PayableInv, Payable, ReceiverUsable, Sender
  <2>2. /\ lock'[Sender(r)] = r <=> lock[Sender(r)] = r
        /\ lock'[Receiver(r)] = r <=> lock[Receiver(r)] = r
        BY <2>1, OthersLocks
  <2>3. Sender(r)' = Sender(r) /\ Receiver(r)' = Receiver(r)
        BY DEF Sender, Receiver
  <2>4. LocksToGo(r)' = LocksToGo(r)
        BY <2>2, <2>3 DEF LocksToGo
  <2>5. QED  BY <1>1, <2>4 DEF Distance
<1>4. QED  BY <1>2, <1>3

\* Whatever a call's handler does brings the call nearer to its answer, and
\* nothing that other calls or the clock do takes it back: no call is answered
\* later than after Distance(r) <= 11 steps of its own (payments.py:26-146).
THEOREM StepsAreProgress ==
  Spec => [][\A r \in Requests : /\ Distance(r)' <= Distance(r)
                                 /\ Handle(r) => Distance(r)' < Distance(r)]_vars
<1>1. ASSUME IInv, IInv', [Next]_vars, NEW r \in Requests
      PROVE  Distance(r)' <= Distance(r) /\ (Handle(r) => Distance(r)' < Distance(r))
  <2>1. Distance(r) \in Nat /\ TypeOK'
        BY <1>1, DistanceIs DEF IInv
  <2>2. Handle(r) => Distance(r)' < Distance(r)
        BY <1>1, <2>1, StepNearer
  <2>3. CASE \E q \in Requests : Admit(q) \/ RefuseUnverified(q) \/ Handle(q) \/ Fail(q)
    <3>1. PICK q \in Requests : Admit(q) \/ RefuseUnverified(q) \/ Handle(q) \/ Fail(q)
          BY <2>3
    <3>2. CASE q = r
      <4>1. Distance(r)' \in Nat /\ Distance(r)' < Distance(r)
            BY <1>1, <2>1, <3>1, <3>2, StepNearer
      <4>2. QED  BY <2>1, <2>2, <4>1
    <3>3. CASE q # r
      <4>1. pay' = pay
            BY <3>1
               DEF Handle, Admit, RefuseUnverified, Fail, Replay, NoReplay,
                   RefuseUnenrolled, Approve, Deny, TapSign, RecordFailed,
                   RefuseReceiver, FindReceiver, CountRecent, Score, LockWallet,
                   ReadWallets, AbortDeadlock, RefuseInsufficient, RecordBlocked,
                   RecordReview, Transfer, FailOverflow, LoseKeyRace, Respond,
                   Refuse, RollBack, Commit, Finish
      <4>2. Distance(r)' = Distance(r)
            BY <1>1, <3>1, <3>3, <4>1, OthersKeepDistance
      <4>3. QED  BY <2>1, <2>2, <4>2
    <3>4. QED  BY <3>2, <3>3
  <2>4. CASE (\E q \in Requests : HourPasses(q)) \/ Finished \/ UNCHANGED vars
    <3>1. UNCHANGED <<pc, lock, pay>>
          BY <2>4 DEF HourPasses, Finished, vars
    <3>2. Distance(r)' = Distance(r)
          BY <3>1 DEF Distance, LocksToGo, Sender, Receiver
    <3>3. QED  BY <2>1, <2>2, <3>2
  <2>5. QED  BY <1>1, <2>3, <2>4 DEF Next
<1>2. IInv /\ IInv' /\ [Next]_vars =>
        [\A r \in Requests : /\ Distance(r)' <= Distance(r)
                             /\ Handle(r) => Distance(r)' < Distance(r)]_vars
      BY <1>1
<1>3. QED  BY <1>2, Inductive, PTL DEF Spec

\* A call that waits for its wallets still lacks one, and it was scored.
WaitInv ==
  \A r \in Requests :
    /\ pc[r] = "wallets" => \E u \in Parties(r) : lock[u] # r
    /\ pc[r] \in Locking => decision[r] \in Decisions

\* The guards of a call's handler, step by step.
Ready(r) ==
  \/ pc[r] = "lookup"   /\ ((pay[r].key \in Keys /\ KeyTaken(r))        \* Replay
                            \/ (pay[r].key \in Keys => ~KeyTaken(r)))   \* NoReplay
  \/ pc[r] = "verify"   /\ (Sender(r) \in Enrolled                      \* Approve, Deny
                            \/ Sender(r) \notin Enrolled)     \* RefuseUnenrolled
  \/ pc[r] = "denied"   /\ (KeyTaken(r) \/ ~KeyTaken(r))      \* LoseKeyRace, RecordFailed
  \/ pc[r] = "receiver" /\ (ReceiverUsable(r) \/ ~ReceiverUsable(r))    \* Find-, RefuseReceiver
  \/ pc[r] \in {"count", "respond"}                           \* CountRecent, Respond
  \/ pc[r] = "score"    /\ ClockHours # {}                    \* Score
  \/ pc[r] = "wallets"  /\ \/ ~Postgres                       \* ReadWallets
                           \/ InWaitCycle(r)                  \* AbortDeadlock
                           \/ \E u \in NextWallets(r) : lock[u] = NoRequest  \* LockWallet
  \/ pc[r] = "settle"   /\ \/ ~Solvent(r)                     \* RefuseInsufficient
                           \/ KeyTaken(r)                     \* LoseKeyRace
                           \/ decision[r] \in Decisions  \* Transfer, Record-, FailOverflow

\* It is an invariant.
LEMMA WaitAlways == Spec => []WaitInv
<1>1. Init => WaitInv
      BY DEF Init, WaitInv, Locking
<1>2. ASSUME IInv, IInv', WaitInv, [Next]_vars, NEW r \in Requests
      PROVE  /\ pc'[r] = "wallets" => \E u \in Parties(r)' : lock'[u] # r
             /\ pc'[r] \in Locking => decision'[r] \in Decisions
  <2>1. CASE \E q \in Requests : Admit(q) \/ RefuseUnverified(q) \/ Handle(q) \/ Fail(q)
    <3>1. PICK q \in Requests : Admit(q) \/ RefuseUnverified(q) \/ Handle(q) \/ Fail(q)
          BY <2>1
    <3>2. CASE q # r
      <4>1. pc'[r] = pc[r]
            BY <1>2, <3>1, <3>2, StepIsLocal DEF IInv
      <4>2. pay' = pay
            BY <3>1
               DEF Handle, Admit, RefuseUnverified, Fail, Replay, NoReplay,
                   RefuseUnenrolled, Approve, Deny, TapSign, RecordFailed,
                   RefuseReceiver, FindReceiver, CountRecent, Score, LockWallet,
                   ReadWallets, AbortDeadlock, RefuseInsufficient, RecordBlocked,
                   RecordReview, Transfer, FailOverflow, LoseKeyRace, Respond,
                   Refuse, RollBack, Commit, Finish
      <4>3. decision'[r] = decision[r]
        <5>1. CASE \E hour \in ClockHours : Score(q, hour)
              BY <1>2, <3>2, <5>1 DEF Score, IInv, TypeOK
        <5>2. CASE ~\E hour \in ClockHours : Score(q, hour)
          <6>1. decision' = decision
                BY <3>1, <5>2
                   DEF Handle, Admit, RefuseUnverified, Fail, Replay, NoReplay,
                       RefuseUnenrolled, Approve, Deny, TapSign, RecordFailed,
                       RefuseReceiver, FindReceiver, CountRecent, LockWallet,
                       ReadWallets, AbortDeadlock, RefuseInsufficient, RecordBlocked,
                       RecordReview, Transfer, FailOverflow, LoseKeyRace, Respond,
                       Refuse, RollBack, Commit, Finish, locals
          <6>2. QED  BY <6>1
        <5>3. QED  BY <5>1, <5>2
      <4>4. CASE pc[r] = "wallets"
        <5>1. PICK u \in Parties(r) : lock[u] # r
              BY <1>2, <4>4 DEF WaitInv
        <5>2. u \in Users
              BY <1>2, <4>4, PartiesAreUsers DEF IInv, Payable
        <5>3. lock'[u] # r
              BY <1>2, <3>1, <3>2, <5>1, <5>2, OthersLocks
        <5>4. u \in Parties(r)'
              BY <4>2, <5>1 DEF Parties, Sender, Receiver
        <5>5. QED  BY <1>2, <4>1, <4>3, <5>3, <5>4 DEF WaitInv
      <4>5. CASE pc[r] # "wallets"
            BY <1>2, <4>1, <4>3, <4>5 DEF WaitInv
      <4>6. QED  BY <4>4, <4>5
    <3>3. CASE q = r /\ \E u \in Users : LockWallet(r, u)
      <4>1. PICK u \in Users : LockWallet(r, u)
            BY <3>3
      <4>2. /\ pc[r] = "wallets" /\ pay' = pay /\ decision' = decision
            /\ lock' = [lock EXCEPT ![u] = r]
            /\ pc'[r] = IF \A v \in Parties(r) \ {u} : lock[v] = r
                        THEN "settle" ELSE "wallets"
            BY <1>2, <4>1 DEF LockWallet, Goto, IInv, TypeOK
      <4>3. Parties(r)' = Parties(r) /\ Parties(r) \subseteq Users
            BY <1>2, <4>2, PartiesAreUsers
               DEF IInv, Payable, Parties, Sender, Receiver
      <4>4. pc'[r] = "wallets" => \E v \in Parties(r)' : lock'[v] # r
        <5>1. SUFFICES ASSUME pc'[r] = "wallets" PROVE \E v \in Parties(r)' : lock'[v] # r
              OBVIOUS
        <5>2. PICK v \in Parties(r) \ {u} : lock[v] # r
              BY <4>2, <5>1
        <5>3. lock'[v] = lock[v]
              BY <1>2, <4>2, <4>3, <5>2 DEF IInv, TypeOK
        <5>4. QED  BY <4>3, <5>2, <5>3
      <4>5. QED  BY <1>2, <4>2, <4>4 DEF WaitInv, Locking
    <3>4. CASE q = r /\ \E hour \in ClockHours : Score(r, hour)
      <4>1. /\ pc[r] = "score" /\ pay' = pay /\ lock' = lock /\ pc'[r] = "wallets"
            /\ decision'[r] \in Decisions
            BY <1>2, <3>4, DecisionType DEF Score, Goto, IInv, TypeOK
      <4>2. Sender(r) \in Users /\ Sender(r)' = Sender(r)
            BY <1>2, <4>1, BodyFields DEF Sender, IInv, TypeOK
      <4>3. lock[Sender(r)] # r
            BY <1>2, <4>1, <4>2 DEF IInv, LockInv, Locking
      <4>4. QED  BY <4>1, <4>2, <4>3 DEF Parties
    <3>5. CASE q = r /\ ~(\E u \in Users : LockWallet(r, u))
                     /\ ~(\E hour \in ClockHours : Score(r, hour))
      <4>1. pc'[r] # "wallets"
            BY <1>2, <3>1, <3>5
               DEF Handle, Admit, RefuseUnverified, Fail, Replay, NoReplay,
                   RefuseUnenrolled, Approve, Deny, TapSign, RecordFailed,
                   RefuseReceiver, FindReceiver, CountRecent,
                   ReadWallets, AbortDeadlock, RefuseInsufficient, RecordBlocked,
                   RecordReview, Transfer, FailOverflow, LoseKeyRace, Respond,
                   Refuse, RollBack, Commit, Finish, Goto, IInv, TypeOK
      <4>2. pc'[r] = "settle" => ReadWallets(r)
            BY <1>2, <3>1, <3>5, StepIsLocal DEF IInv
      <4>3. ReadWallets(r) => pc[r] = "wallets" /\ decision' = decision
            BY DEF ReadWallets
      <4>4. QED  BY <1>2, <4>1, <4>2, <4>3 DEF WaitInv, Locking
    <3>6. QED  BY <3>2, <3>3, <3>4, <3>5
  <2>2. CASE (\E q \in Requests : HourPasses(q)) \/ Finished \/ UNCHANGED vars
    <3>1. UNCHANGED <<pc, lock, pay, decision>>
          BY <2>2 DEF HourPasses, Finished, vars, locals
    <3>2. QED  BY <1>2, <3>1 DEF WaitInv, Parties, Sender, Receiver
  <2>3. QED  BY <1>2, <2>1, <2>2 DEF Next
<1>3. IInv /\ IInv' /\ WaitInv /\ [Next]_vars => WaitInv'
      BY <1>2 DEF WaitInv
<1>4. QED  BY <1>1, <1>3, Inductive, PTL DEF Spec

\* A call that waits has a wallet to ask for next.
LEMMA WantsSome ==
  ASSUME IInv, WaitInv, NEW r \in Requests, pc[r] = "wallets"
  PROVE  NextWallets(r) # {} /\ NextWallets(r) \subseteq Users
<1> DEFINE ranks == {Rank[u] : u \in {v \in Parties(r) : lock[v] # r}}
<1>1. Parties(r) \subseteq Users
      BY PartiesAreUsers DEF IInv, Payable
<1>2. ranks \subseteq Nat /\ ranks # {}
  <2>1. \E u \in Parties(r) : lock[u] # r
        BY DEF WaitInv
  <2>2. QED  BY <1>1, <2>1, ConstantAssumption
<1>3. PICK n \in ranks : \A m \in ranks : ~(m < n)
  <2> HIDE DEF ranks
  <2>1. QED  BY <1>2, LeastNatural
<1>4. PICK u \in Parties(r) : lock[u] # r /\ n = Rank[u]
      OBVIOUS
<1>5. \A v \in Parties(r) : Rank[v] < Rank[u] => lock[v] = r
      BY <1>3, <1>4
<1>6. QED  BY <1>1, <1>4, <1>5 DEF NextWallets

\* If every call that holds a lock waits for one that does, some wait in a cycle:
\* the smallest set of them in which each waits for a member has no member that
\* none of them waits for.
LEMMA WaitersCycle ==
  ASSUME NEW H, H \subseteq {q \in Requests : pc[q] = "wallets"}, H # {},
         \A p \in H : \E q \in H : WaitsFor(p, q)
  PROVE  \E p \in H : InWaitCycle(p)
<1> DEFINE P == {S \in SUBSET H : S # {} /\ \A p \in S : \E q \in S : WaitsFor(p, q)}
<1>1. IsFiniteSet(H)
      BY ConstantAssumption, FS_Subset
<1>2. P \subseteq SUBSET H /\ H \in P
      OBVIOUS
<1>3. PICK S \in P : \A p \in S : S \ {p} \notin P
  <2> HIDE DEF P
  <2>1. QED  BY <1>1, <1>2, LeastSet
<1>4. ASSUME NEW p \in S PROVE \E q \in S : WaitsFor(q, p)
  <2>1. SUFFICES ASSUME \A q \in S : ~WaitsFor(q, p) PROVE FALSE
        OBVIOUS
  <2>2. \A t \in S \ {p} : \E q \in S \ {p} : WaitsFor(t, q)
        BY <2>1
  <2>3. PICK q \in S : WaitsFor(p, q)
        BY <1>4
  <2>4. q \in S \ {p}
        BY <2>1, <1>4, <2>3
  <2>5. S \ {p} \in P
        BY <2>2, <2>4
  <2>6. QED  BY <1>3, <1>4, <2>5
<1>5. PICK p : p \in S
      OBVIOUS
<1>6. InWaitCycle(p)
      BY <1>4, <1>5 DEF InWaitCycle
<1>7. QED  BY <1>5, <1>6

\* As long as a call is in flight, the handler of some call has a step to make:
\* however many payments contend for however many wallets, in whatever order
\* they lock them, a lock is free or the database has a cycle to break
\* (payments.py:95-103).
THEOREM SomeCallIsReady ==
  ASSUME ClockHours # {}
  PROVE  Spec => []((\E r \in Requests : InFlight(r)) =>
                      \E r \in Requests : InFlight(r) /\ Ready(r))
<1>1. IInv /\ WaitInv => ((\E r \in Requests : InFlight(r)) =>
                            \E r \in Requests : InFlight(r) /\ Ready(r))
  <2>1. SUFFICES ASSUME IInv, WaitInv, NEW r \in Requests, InFlight(r),
                        \A q \in Requests : InFlight(q) => ~Ready(q)
                 PROVE  FALSE
        OBVIOUS
  <2>2. \A q \in Requests : InFlight(q) => pc[q] = "wallets"
    <3>1. SUFFICES ASSUME NEW q \in Requests, InFlight(q), ~Ready(q)
                   PROVE  pc[q] = "wallets"
          BY <2>1
    <3>2. pc[q] \in Steps
          BY <2>1 DEF IInv, TypeOK
    <3>3. pc[q] = "settle" => Ready(q)
          BY <2>1 DEF Ready, WaitInv, Locking
    <3>4. QED  BY <3>1, <3>2, <3>3 DEF Ready, InFlight, Steps
  <2>3. \A q \in Requests : pc[q] = "wallets" => InFlight(q)
        BY DEF InFlight
  <2> DEFINE H == {q \in Requests : pc[q] = "wallets" /\ \E u \in Parties(q) : lock[u] = q}
  <2>4. ASSUME NEW p \in Requests, pc[p] = "wallets"
        PROVE  \E q \in H : \E u \in NextWallets(p) : lock[u] = q
    <3>1. ~Ready(p)
          BY <2>1, <2>3, <2>4
    <3>2. \A u \in NextWallets(p) : lock[u] # NoRequest
          BY <2>4, <3>1 DEF Ready
    <3>3. PICK u \in NextWallets(p) : u \in Users
          BY <2>1, <2>4, WantsSome
    <3>4. lock[u] \in Requests
          BY <2>1, <3>2, <3>3 DEF IInv, TypeOK
    <3>5. pc[lock[u]] \in Locking /\ u \in Parties(lock[u])
          BY <2>1, <3>3, <3>4 DEF IInv, LockInv
    <3>6. pc[lock[u]] = "wallets"
          BY <2>2, <3>4, <3>5 DEF Locking, InFlight
    <3>7. lock[u] \in H
          BY <3>4, <3>5, <3>6
    <3>8. QED  BY <3>3, <3>7
  <2>5. H # {}
        BY <2>1, <2>2, <2>4
  <2>6. \A p \in H : \E q \in H : WaitsFor(p, q)
        BY <2>4 DEF WaitsFor
  <2>7. PICK p \in H : InWaitCycle(p)
    <3>1. H \subseteq {q \in Requests : pc[q] = "wallets"}
          OBVIOUS
    <3> HIDE DEF H
    <3>2. QED  BY <2>5, <2>6, <3>1, WaitersCycle
  <2>8. pc[p] = "wallets" /\ p \in Requests
        OBVIOUS
  <2>9. QED  BY <2>1, <2>3, <2>7, <2>8 DEF Ready
<1>2. QED  BY <1>1, Inductive, WaitAlways, PTL

-----------------------------------------------------------------------------
(* The refinement of the abstract ledger.                                   *)

Entry(r, status) == [id |-> r, body |-> pay[r], status |-> status]

\* A step that writes neither table is a stutter of the ledger.
LEMMA Stutter ==
  ASSUME UNCHANGED <<balance, tx, pay>>
  PROVE  UNCHANGED <<balance, journal>>
  BY DEF journal, Rows

\* A commit appends the call's own entry, new in identity and in key.
LEMMA CommitAppends ==
  ASSUME IInv, NEW r \in Requests, NEW status \in RowStatuses, NEW kind,
         NEW newBalance, Commit(r, status, newBalance, kind), pc[r] \notin Over
  PROVE  L!Append(Entry(r, status))
<1>1. /\ pay' = pay /\ tx'[r] = status
      /\ \A q \in Requests \ {r} : tx'[q] = tx[q]
      BY DEF Commit, IInv, TypeOK
<1>2. r \notin Rows /\ Rows' = Rows \cup {r}
      BY <1>1 DEF Rows, RowStatuses, IInv, RowInv
<1>3. journal' = journal \cup {Entry(r, status)}
  <2>1. journal' = {[id |-> q, body |-> pay[q], status |-> tx'[q]] : q \in Rows \cup {r}}
        BY <1>1, <1>2 DEF journal
  <2>2. \A q \in Rows : q \in Requests \ {r}
        BY <1>2 DEF Rows
  <2>3. QED  BY <1>1, <2>1, <2>2 DEF journal, Entry
<1>4. L!Appendable(Entry(r, status))
  <2>1. SUFFICES ASSUME NEW q \in Rows
                 PROVE  q # r /\ (pay[r].key # NoKey => pay[q].key # pay[r].key)
        BY DEF L!Appendable, Entry, journal
  <2>2. QED  BY <1>2 DEF Commit, KeyTaken
<1>5. QED  BY <1>3, <1>4 DEF L!Append

\* A commit that leaves the balances alone is a held entry of the ledger.
LEMMA CommitHolds ==
  ASSUME IInv, NEW r \in Requests, NEW status \in RowStatuses \ {"completed"},
         NEW kind, Commit(r, status, balance, kind), pc[r] \notin Over
  PROVE  L!Next
<1>1. L!Append(Entry(r, status))
      BY CommitAppends
<1>2. L!Hold(Entry(r, status))
      BY <1>1 DEF L!Hold, Commit, Entry
<1>3. pay[r] \in Bodies /\ status \in L!Statuses
      BY DEF IInv, TypeOK, RowStatuses, L!Statuses
<1>4. QED  BY <1>2, <1>3 DEF L!Next, Entry

\* A transfer that rests on current balances is the ledger's transfer.
LEMMA TransferMoves ==
  ASSUME IInv, FreshInv, NEW r \in Requests, Transfer(r)
  PROVE  L!Next
<1> DEFINE e == Entry(r, "completed")
<1>1. L!Append(e)
      BY CommitAppends DEF Transfer, Over, RowStatuses
<1>2. /\ ReceiverUsable(r)
      /\ Amount(r) <= balance[Sender(r)]
      /\ balance' = [balance EXCEPT ![Sender(r)]   = @ - Amount(r),
                                    ![Receiver(r)] = @ + Amount(r)]
      BY TransferEffect
<1>3. L!Transfer(e)
      BY <1>1, <1>2
         DEF L!Transfer, Entry, ReceiverUsable, Sender, Receiver, Amount
<1>4. pay[r] \in Bodies /\ "completed" \in L!Statuses
      BY DEF IInv, TypeOK, L!Statuses
<1>5. QED  BY <1>3, <1>4 DEF L!Next, Entry

\* Every step of a call is a step of the ledger or none.
LEMMA HandleRefines ==
  ASSUME IInv, FreshInv, NEW r \in Requests,
         Admit(r) \/ RefuseUnverified(r) \/ Handle(r) \/ Fail(r)
  PROVE  L!Next \/ UNCHANGED <<balance, journal>>
<1>1. CASE RecordFailed(r)
      BY <1>1, CommitHolds DEF RecordFailed, Over, RowStatuses
<1>2. CASE RecordBlocked(r) \/ RecordReview(r)
      BY <1>2, CommitHolds DEF RecordBlocked, RecordReview, Over, RowStatuses
<1>3. CASE Transfer(r)
      BY <1>3, TransferMoves
<1>4. CASE ~RecordFailed(r) /\ ~RecordBlocked(r) /\ ~RecordReview(r) /\ ~Transfer(r)
  <2>1. UNCHANGED <<balance, tx, pay>>
        BY <1>4
           DEF Handle, Admit, RefuseUnverified, Fail, Replay, NoReplay,
               RefuseUnenrolled, Approve, Deny, TapSign, RefuseReceiver,
               FindReceiver, CountRecent, Score, LockWallet, ReadWallets,
               AbortDeadlock, RefuseInsufficient, FailOverflow, LoseKeyRace,
               Respond, Refuse, RollBack, Finish, tables, locals
  <2>2. QED  BY <2>1, Stutter
<1>5. QED  BY <1>1, <1>2, <1>3, <1>4

\* On any database the service implements the atomic ledger as long as settling
\* calls share no wallet (payments.py:97-141).
THEOREM SerialRefinement == Spec /\ []Serial => ImplementsLedger
<1>1. Init => L!Init
      BY DEF Init, L!Init, journal, Rows
<1>2. IInv /\ FreshInv /\ [Next]_vars => [L!Next]_<<balance, journal>>
  <2>1. SUFFICES ASSUME IInv, FreshInv, [Next]_vars
                 PROVE  L!Next \/ UNCHANGED <<balance, journal>>
        OBVIOUS
  <2>2. CASE \E r \in Requests :
               Admit(r) \/ RefuseUnverified(r) \/ Handle(r) \/ Fail(r)
        BY <2>1, <2>2, HandleRefines
  <2>3. CASE (\E q \in Requests : HourPasses(q)) \/ Finished \/ UNCHANGED vars
        BY <2>3, Stutter DEF HourPasses, Finished, vars, tables
  <2>4. QED  BY <2>1, <2>2, <2>3 DEF Next
<1>3. QED
      BY <1>1, <1>2, Inductive, FreshAlways, PTL DEF Spec, ImplementsLedger, L!Spec

\* On PostgreSQL it implements it, for any number of concurrent calls, whatever
\* fails and whenever (payments.py:26-167).
THEOREM Refinement == ASSUME Postgres PROVE Spec => ImplementsLedger
<1>1. IInv => Serial
      BY LocksSerialize
<1>2. QED  BY <1>1, Inductive, SerialRefinement, PTL

=============================================================================
