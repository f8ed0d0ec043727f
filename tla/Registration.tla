---------------------------- MODULE Registration ----------------------------
(***************************************************************************)
(* POST /auth/register: look the phone number up, insert the user, insert  *)
(* a wallet, commit.  Requests overlap; the row of an INSERT enters the    *)
(* unique indexes one after the other, phone_number before email, and at   *)
(* each of them waits for the open transaction that holds its value there  *)
(* and fails if that commits.  While it waits for the second it holds its  *)
(* entry in the first.  A request may fail at any point.                   *)
(***************************************************************************)
EXTENDS Naturals, FiniteSets

CONSTANTS
  Calls,       \* threads of the server
  Forms,       \* what applicants send
  Phones,
  Emails, NoEmail,
  Passwords,
  Ids,         \* bound: the primary keys that may be drawn
  NoForm, NoRow,
  MaxFaults    \* bound: exceptions and lost replies

Form == [phone : Phones, email : Emails \cup {NoEmail}, password : Passwords]
Row  == [id : Ids, form : Form]

ASSUME FormAssumption ==
  /\ Forms \subseteq Form
  /\ NoForm \notin Form /\ NoRow \notin Row
  /\ NoEmail \notin Emails
  /\ MaxFaults \in Nat

VARIABLES
  users,       \* committed rows of table users
  wallets,     \* owners of the committed rows of table wallets
  pc,          \* where each thread is
  form,        \* the form it works on
  pending,     \* the row its open transaction has inserted
  created,     \* history: the rows whose applicants were told 201
  faults

vars == <<users, wallets, pc, form, pending, created, faults>>

TypeOK ==
  /\ users \subseteq Row
  /\ wallets \subseteq Ids
  /\ pc \in [Calls -> {"idle", "check", "insert", "email", "commit", "created",
                   "refused", "failed"}]
  /\ form \in [Calls -> Form \cup {NoForm}]
  /\ pending \in [Calls -> Row \cup {NoRow}]
  /\ created \subseteq Row
  /\ faults \in Nat

Init ==
  /\ users = {} /\ wallets = {}
  /\ pc = [c \in Calls |-> "idle"]
  /\ form = [c \in Calls |-> NoForm]
  /\ pending = [c \in Calls |-> NoRow]
  /\ created = {}
  /\ faults = 0

-----------------------------------------------------------------------------

\* Mutant: the phone number is not unique.
SamePhoneUnindexed(f, g) == FALSE

SamePhone(f, g) == f.phone = g.phone

\* A unique index holds any number of NULLs.
SameEmail(f, g) == f.email = g.email /\ f.email # NoEmail

PhoneTaken(f) == \E u \in users : SamePhone(u.form, f)
EmailTaken(f) == \E u \in users : SameEmail(u.form, f)

\* Whose open row is in an index: in that of the phone numbers from its
\* insertion, in that of the emails once it has passed both.
HoldsPhone(d, f) == pc[d] \in {"email", "commit"} /\ SamePhone(pending[d].form, f)
HoldsEmail(d, f) == pc[d] = "commit" /\ SameEmail(pending[d].form, f)

Held    == { pending[c] : c \in Calls } \ {NoRow}
FreeIds == Ids \ { u.id : u \in users \cup Held }

Goto(c, step) == pc' = [pc EXCEPT ![c] = step]

\* The session is closed: an open transaction is rolled back.
End(c) ==
  /\ Goto(c, "idle")
  /\ form' = [form EXCEPT ![c] = NoForm]
  /\ pending' = [pending EXCEPT ![c] = NoRow]

Apply(c, f) ==
  /\ pc[c] = "idle"
  /\ FreeIds # {}
  /\ Goto(c, "check")
  /\ form' = [form EXCEPT ![c] = f]
  /\ UNCHANGED <<users, wallets, pending, created, faults>>

LookUp(c) ==
  /\ pc[c] = "check"
  /\ Goto(c, IF \E u \in users : u.form.phone = form[c].phone THEN "refused" ELSE "insert")
  /\ UNCHANGED <<users, wallets, form, pending, created, faults>>

PhoneFree(c) == ~PhoneTaken(form[c]) /\ \A d \in Calls : ~HoldsPhone(d, form[c])
EmailFree(c) == ~EmailTaken(form[c]) /\ \A d \in Calls : ~HoldsEmail(d, form[c])

InsertPhone(c) ==
  /\ pc[c] = "insert" /\ PhoneFree(c)
  /\ \E i \in FreeIds :
       pending' = [pending EXCEPT ![c] = [id |-> i, form |-> form[c]]]
  /\ Goto(c, "email")
  /\ UNCHANGED <<users, wallets, form, created, faults>>

\* Mutant: the user is committed before there is a wallet.
InsertEmailCommitted(c) ==
  /\ pc[c] = "email" /\ EmailFree(c)
  /\ users' = users \cup {pending[c]}
  /\ Goto(c, "commit")
  /\ UNCHANGED <<wallets, form, pending, created, faults>>

InsertEmail(c) ==
  /\ pc[c] = "email" /\ EmailFree(c)
  /\ Goto(c, "commit")
  /\ UNCHANGED <<users, wallets, form, pending, created, faults>>

\* A row committed meanwhile bears the phone number or the email.
RaceLost(c) ==
  \/ pc[c] = "insert" /\ PhoneTaken(form[c])
  \/ pc[c] = "email" /\ EmailTaken(form[c])

\* Mutant: the loser tries again.
LoseRaceRetrying(c) == RaceLost(c) /\ UNCHANGED vars

\* The INSERT fails, and what it entered is rolled back: 500.
LoseRace(c) ==
  /\ RaceLost(c)
  /\ Goto(c, "failed")
  /\ pending' = [pending EXCEPT ![c] = NoRow]
  /\ UNCHANGED <<users, wallets, form, created, faults>>

\* The wallet is inserted by the flush that precedes the commit.
Commit(c) ==
  /\ pc[c] = "commit"
  /\ users' = users \cup {pending[c]}
  /\ wallets' = wallets \cup {pending[c].id}
  /\ Goto(c, "created")
  /\ UNCHANGED <<form, pending, created, faults>>

Reply(c) ==
  /\ pc[c] \in {"created", "refused", "failed"}
  /\ created' = IF pc[c] = "created" THEN created \cup {pending[c]} ELSE created
  /\ End(c)
  /\ UNCHANGED <<users, wallets, faults>>

Fault(c) ==
  /\ pc[c] # "idle"
  /\ faults < MaxFaults
  /\ faults' = faults + 1
  /\ End(c)
  /\ UNCHANGED <<users, wallets, created>>

Handle(c) ==
  \/ LookUp(c) \/ InsertPhone(c) \/ InsertEmail(c) \/ LoseRace(c)
  \/ Commit(c) \/ Reply(c)

Next == \E c \in Calls : Handle(c) \/ Fault(c) \/ \E f \in Forms : Apply(c, f)

Spec == Init /\ [][Next]_vars

\* The threads keep running.
Fairness == \A c \in Calls : WF_vars(Handle(c))

FairSpec == Spec /\ Fairness

-----------------------------------------------------------------------------
(* Properties.                                                              *)

\* Who was told 201 has a whole account: the row is there with a wallet, and it
\* is the only one that a look-up of the phone number can find, so login and
\* payments to that number reach its owner (auth.py:16-36, payments.py:69).
PhoneFindsOwner ==
  \A r \in created :
    /\ r \in users /\ r.id \in wallets
    /\ \A u \in users : u.form.phone = r.form.phone => u = r

\* Waiting for a phone number while somebody who held it fails.
Overtaken(c) ==
  pc[c] = "insert" /\ \E d \in Calls : pc[d] = "failed" /\ SamePhone(form[d], form[c])

\* At the unique indexes applicants wait for one another in chains, since who
\* waits for an email holds a phone number.  Every chain comes undone: only who
\* is overtaken again and again, by others who enter the same number and then
\* fail at the email, may wait for ever (auth.py:26-29).
EveryRegistrationEnds == \A c \in Calls : []<>(pc[c] = "idle") \/ []<>Overtaken(c)

\* The inductive invariant: rows on file have their wallets and agree in no
\* unique column; an open row agrees with them and with other open rows in no
\* index it has entered; who is refused is refused because the phone or the
\* email is taken.
AccountInv ==
  /\ wallets = { u.id : u \in users }
  /\ \A u, v \in users : u # v =>
       u.id # v.id /\ ~SamePhone(u.form, v.form) /\ ~SameEmail(u.form, v.form)
  /\ created \subseteq users

CallInv ==
  \A c \in Calls :
    /\ pc[c] # "idle" => form[c] \in Form
    /\ pc[c] \in {"email", "commit"} => pending[c] # NoRow /\ pending[c].form = form[c]
    /\ pc[c] = "created" => pending[c] \in users
    /\ pc[c] \notin {"email", "commit", "created"} => pending[c] = NoRow
    /\ pc[c] \in {"refused", "failed"} => PhoneTaken(form[c]) \/ EmailTaken(form[c])

PendingInv ==
  \A c \in Calls : pc[c] \in {"email", "commit"} =>
    /\ \A u \in users :
         /\ u.id # pending[c].id /\ ~SamePhone(u.form, pending[c].form)
         /\ pc[c] = "commit" => ~SameEmail(u.form, pending[c].form)
    /\ \A d \in Calls \ {c} : pc[d] \in {"email", "commit"} =>
         /\ pending[c].id # pending[d].id
         /\ ~SamePhone(pending[c].form, pending[d].form)
         /\ pc[c] = "commit" /\ pc[d] = "commit" =>
              ~SameEmail(pending[c].form, pending[d].form)

IInv == TypeOK /\ AccountInv /\ CallInv /\ PendingInv

=============================================================================
