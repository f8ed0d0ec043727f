------------------------------- MODULE Ledger -------------------------------
(***************************************************************************)
(* What the payment service promises of its two tables, with no request,   *)
(* lock or session in sight: wallets and an append-only journal in which   *)
(* each idempotency key appears at most once.  A completed entry and the   *)
(* movement of its amount are one indivisible step; any other entry moves  *)
(* nothing.                                                                *)
(***************************************************************************)
EXTENDS Integers

CONSTANTS
  Users,          \* owners of wallets
  Ids,            \* identities of journal entries
  Bodies,         \* records with fields sender, receiver, amount, key
  NoKey,          \* the key of a call that carries none
  InitialBalance  \* what each wallet was funded with

VARIABLES balance, entries

Statuses == {"completed", "requires_review", "blocked", "failed"}

Entries == [id : Ids, body : Bodies, status : Statuses]

Init ==
  /\ balance = InitialBalance
  /\ entries = {}

\* An entry may be appended when its id and its key are new to the journal.
Appendable(e) ==
  \A f \in entries : /\ f.id # e.id
                     /\ e.body.key # NoKey => f.body.key # e.body.key

Append(e) ==
  /\ Appendable(e)
  /\ entries' = entries \cup {e}

Hold(e) ==
  /\ e.status # "completed"
  /\ Append(e)
  /\ UNCHANGED balance

Transfer(e) ==
  /\ e.status = "completed"
  /\ e.body.receiver \in Users \ {e.body.sender}
  /\ e.body.amount <= balance[e.body.sender]
  /\ Append(e)
  /\ balance' = [balance EXCEPT ![e.body.sender] = @ - e.body.amount,
                                ![e.body.receiver] = @ + e.body.amount]

Next == \E i \in Ids, b \in Bodies, s \in Statuses :
          LET e == [id |-> i, body |-> b, status |-> s]
          IN  Hold(e) \/ Transfer(e)

Spec == Init /\ [][Next]_<<balance, entries>>

=============================================================================
