------------------------------ MODULE Account ------------------------------
(***************************************************************************)
(* The row of a user under the handlers that write it: /pin/set,           *)
(* /pin/verify (and the PIN factor of member authentication), /phone/verify*)
(* /egov/verify, /tapsign/enroll and /face/enroll.  Each one reads the row *)
(* in get_current_user, does something slow (bcrypt, a remote registry, an *)
(* encryption) and commits.  The commit writes only the columns the        *)
(* handler changed, with values computed from the row it read.             *)
(*                                                                         *)
(* A session serves one request after another.  Time is in minutes.        *)
(***************************************************************************)
EXTENDS Integers

CONSTANTS
  Users,           \* users of the accounts
  Sessions,        \* database sessions that may be open at once
  Jobs,            \* what clients ask for (see JobAssumption)
  Pins,            \* PINs
  NationalIds,     \* national id numbers
  NoPin, NoId,     \* a NULL pin_hash, a NULL national_id_number
  NoLock,          \* a NULL pin_locked_until
  MaxAttempts,     \* MAX_PIN_ATTEMPTS
  Lockout,         \* LOCKOUT_MINUTES
  MaxClock,        \* bound: the clock stops here
  MaxWrong         \* bound: no PIN is tried after so many wrong ones

Factors  == {"tapsign", "face"}
PinKinds == {"set_pin", "verify_pin"}

ASSUME JobAssumption ==
  /\ Jobs # {}
  /\ Jobs \subseteq
       [kind : PinKinds, user : Users, arg : Pins]
         \cup [kind : {"egov"}, user : Users, arg : NationalIds]
         \cup [kind : {"phone"} \cup Factors, user : Users]

ASSUME ParameterAssumption ==
  /\ MaxAttempts \in Nat \ {0}
  /\ Lockout \in Nat \ {0}
  /\ MaxClock \in Nat /\ MaxWrong \in Nat
  /\ NoPin \notin Pins /\ NoId \notin NationalIds /\ NoLock \notin Nat

VARIABLES
  row,        \* the users table
  templates,  \* how many rows biometric_templates and face_templates have for a user
  now,        \* the clock
  pc,         \* where a session is
  job,        \* what it was asked
  seen,       \* the row it read
  wrong       \* history: wrong PINs compared so far, for each user

vars == <<row, templates, now, pc, job, seen, wrong>>

\* The columns of users that a handler writes.  Two are abstracted:
\* phone_last_sim_swap_at to whether it is set, and phone_last_verified_at,
\* which nothing reads, is left out.
Row == [pin     : Pins \cup {NoPin},
        failed  : Nat,
        until   : Nat \cup {NoLock},
        phone   : BOOLEAN,
        swapped : BOOLEAN,
        egov    : BOOLEAN,
        id      : NationalIds \cup {NoId},
        tapsign : BOOLEAN,
        face    : BOOLEAN]

Columns == {"pin", "failed", "until", "phone", "swapped", "egov", "id",
            "tapsign", "face"}

Steps == {"idle", "loaded", "compare", "insert", "update"}

TypeOK ==
  /\ row \in [Users -> Row]
  /\ templates \in [Factors -> [Users -> Nat]]
  /\ now \in Nat
  /\ pc \in [Sessions -> Steps]
  /\ job \in [Sessions -> Jobs]
  /\ seen \in [Sessions -> Row]
  /\ wrong \in [Users -> Nat]

NewRow == [pin |-> NoPin, failed |-> 0, until |-> NoLock, phone |-> FALSE,
           swapped |-> FALSE, egov |-> FALSE, id |-> NoId,
           tapsign |-> FALSE, face |-> FALSE]

\* What an idle session's job is does not matter.
AnyJob == CHOOSE j \in Jobs : TRUE

Init ==
  /\ row = [u \in Users |-> NewRow]
  /\ templates = [f \in Factors |-> [u \in Users |-> 0]]
  /\ now = 0
  /\ pc = [s \in Sessions |-> "idle"]
  /\ job = [s \in Sessions |-> AnyJob]
  /\ seen = [s \in Sessions |-> NewRow]
  /\ wrong = [u \in Users |-> 0]

-----------------------------------------------------------------------------
(* Sessions.                                                                *)

User(s) == job[s].user
Kind(s) == job[s].kind

\* Mutant: the UPDATE writes the whole row, as it was read.
MergeWholeRow(old, read, new, always) == new

\* The UPDATE of the unit of work: the columns whose value differs from the one
\* read, and those that differ even if they stand for the same (a salted hash).
Merge(old, read, new, always) ==
  [c \in Columns |-> IF c \in always \/ new[c] # read[c] THEN new[c] ELSE old[c]]

Goto(s, step) ==
  /\ pc' = [pc EXCEPT ![s] = step]
  /\ UNCHANGED <<row, templates, now, job, seen, wrong>>

\* The session closes; what it read is gone.
Close(s) ==
  /\ pc'   = [pc EXCEPT ![s] = "idle"]
  /\ seen' = [seen EXCEPT ![s] = NewRow]
  /\ job'  = [job EXCEPT ![s] = AnyJob]
  /\ UNCHANGED now

Leave(s) == Close(s) /\ UNCHANGED <<row, templates, wrong>>

Commit(s, new, always) ==
  /\ row' = [row EXCEPT ![User(s)] = Merge(@, seen[s], new, always)]
  /\ Close(s)

\* get_current_user reads the row; the handler works with this copy.
Load(s, j) ==
  /\ pc[s] = "idle"
  /\ j.kind = "verify_pin" => wrong[j.user] < MaxWrong
  /\ pc'   = [pc EXCEPT ![s] = "loaded"]
  /\ job'  = [job EXCEPT ![s] = j]
  /\ seen' = [seen EXCEPT ![s] = row[j.user]]
  /\ UNCHANGED <<row, templates, now, wrong>>

\* An exception or a restart: nothing of the request is committed.
Fail(s) == pc[s] # "idle" /\ Leave(s)

-----------------------------------------------------------------------------
(* PINs.                                                                    *)

SetPin(s) ==
  /\ pc[s] = "loaded"
  /\ Kind(s) = "set_pin"
  /\ Commit(s, [seen[s] EXCEPT !.pin = job[s].arg, !.failed = 0, !.until = NoLock],
            {"pin"})
  /\ UNCHANGED <<templates, wrong>>

InForce(until) == until # NoLock /\ until > now

\* Mutant: the lock ends a minute early.
LockedEarly(s) == InForce(seen[s].until) /\ seen[s].until > now + 1

Locked(s) == InForce(seen[s].until)

Verifying(s) == pc[s] = "loaded" /\ Kind(s) = "verify_pin"

RefuseLocked(s) == Verifying(s) /\ Locked(s) /\ Leave(s)

RefuseUnset(s) == Verifying(s) /\ ~Locked(s) /\ seen[s].pin = NoPin /\ Leave(s)

\* Mutant: is_locked is not asked.
AdmitGuessLocked(s) == Verifying(s) /\ seen[s].pin # NoPin /\ Goto(s, "compare")

\* bcrypt takes its time; the counter is written when it is done.
AdmitGuess(s) ==
  /\ Verifying(s)
  /\ ~Locked(s)
  /\ seen[s].pin # NoPin
  /\ Goto(s, "compare")

RightPin(s) ==
  /\ pc[s] = "compare"
  /\ job[s].arg = seen[s].pin
  /\ Commit(s, [seen[s] EXCEPT !.failed = 0, !.until = NoLock], {})
  /\ UNCHANGED <<templates, wrong>>

\* Mutant: an off-by-one in the number of attempts.
LockedUntilEarly(failed, until) ==
  IF failed >= MaxAttempts - 1 THEN now + Lockout ELSE until

LockedUntil(failed, until) ==
  IF failed >= MaxAttempts THEN now + Lockout ELSE until

WrongPin(s) ==
  /\ pc[s] = "compare"
  /\ job[s].arg # seen[s].pin
  /\ LET failed == seen[s].failed + 1
     IN  Commit(s, [seen[s] EXCEPT !.failed = failed,
                                   !.until = LockedUntil(failed, @)], {})
  /\ wrong' = [wrong EXCEPT ![User(s)] = @ + 1]
  /\ UNCHANGED templates

-----------------------------------------------------------------------------
(* Remote registries: the row was read before the call and is written after *)

\* The payload names another phone number or another person: 4xx.
RefuseOther(s) == pc[s] = "loaded" /\ Kind(s) \in {"phone", "egov"} /\ Leave(s)

\* What a look-up may find.  An outage is a negative answer; only a registered
\* number can have had a recent swap.
TelcoResults == { a \in [verified : BOOLEAN, simSwap : BOOLEAN] : a.simSwap => a.verified }

TelcoAnswers(s, a) ==
  /\ pc[s] = "loaded"
  /\ Kind(s) = "phone"
  /\ Commit(s, [seen[s] EXCEPT !.phone = a.verified, !.swapped = @ \/ a.simSwap], {})
  /\ UNCHANGED <<templates, wrong>>

EgovDenies(s) == pc[s] = "loaded" /\ Kind(s) = "egov" /\ Leave(s)

\* Mutant: national_id_number has no unique index.
IdTakenUnindexed(s) == FALSE

\* The UPDATE would give the id to a second user.
IdTaken(s) == /\ job[s].arg # seen[s].id
              /\ \E v \in Users \ {User(s)} : row[v].id = job[s].arg

EgovConfirms(s) ==
  /\ pc[s] = "loaded"
  /\ Kind(s) = "egov"
  /\ ~IdTaken(s)
  /\ Commit(s, [seen[s] EXCEPT !.egov = TRUE, !.id = job[s].arg], {})
  /\ UNCHANGED <<templates, wrong>>

EgovConflicts(s) ==
  pc[s] = "loaded" /\ Kind(s) = "egov" /\ IdTaken(s) /\ Leave(s)

-----------------------------------------------------------------------------
(* Enrolment of a fingerprint or a face.                                    *)

HasTemplate(s) == templates[Kind(s)][User(s)] > 0

FindTemplate(s) ==
  /\ pc[s] = "loaded"
  /\ Kind(s) \in Factors
  /\ Goto(s, IF HasTemplate(s) THEN "update" ELSE "insert")

\* Mutant: user_id of the templates has no unique index.
TemplateTakenUnindexed(s) == FALSE

\* The INSERT would give the user a second row.
TemplateTaken(s) == HasTemplate(s)

\* The template and the flag are one transaction.
SaveTemplate(s) ==
  /\ \/ pc[s] = "update" /\ UNCHANGED templates
     \/ /\ pc[s] = "insert"
        /\ ~TemplateTaken(s)
        /\ templates' = [templates EXCEPT ![Kind(s)][User(s)] = @ + 1]
  /\ Commit(s, [seen[s] EXCEPT ![Kind(s)] = TRUE], {})
  /\ UNCHANGED wrong

\* A second first enrolment meets the unique user_id.
EnrolmentConflicts(s) == pc[s] = "insert" /\ TemplateTaken(s) /\ Leave(s)

-----------------------------------------------------------------------------
Tick ==
  /\ now < MaxClock
  /\ now' = now + 1
  /\ UNCHANGED <<row, templates, pc, job, seen, wrong>>

Handle(s) ==
  \/ SetPin(s) \/ RefuseLocked(s) \/ RefuseUnset(s) \/ AdmitGuess(s)
  \/ RightPin(s) \/ WrongPin(s)
  \/ RefuseOther(s)
  \/ \E a \in TelcoResults : TelcoAnswers(s, a)
  \/ EgovDenies(s) \/ EgovConfirms(s) \/ EgovConflicts(s)
  \/ FindTemplate(s) \/ SaveTemplate(s) \/ EnrolmentConflicts(s)

Next ==
  \/ \E s \in Sessions : Handle(s) \/ Fail(s) \/ \E j \in Jobs : Load(s, j)
  \/ Tick

Spec == Init /\ [][Next]_vars

-----------------------------------------------------------------------------
(* Properties.                                                              *)

\* pin_service.py:5-7: repeated failures lock the account.  However wrong, right
\* and set requests overlap and lose one another's updates, an account is
\* locked only after MAX_PIN_ATTEMPTS wrong PINs.
LocksHaveCause ==
  \A u \in Users : row[u].until # NoLock => wrong[u] >= MaxAttempts

\* While a lock is in force (pin_service.py:23-32, 41-43) the only PINs still
\* being compared belong to requests that read the row before it was locked.
GuessersPredateLock ==
  \A s \in Sessions :
    pc[s] = "compare" /\ InForce(row[User(s)].until) =>
      seen[s].until # row[User(s)].until

\* Who may change a lock in force, on a row that may be stale: a wrong PIN, which
\* prolongs it; a new PIN; and a right PIN only if its request read an older
\* lock, expired by then (pin_service.py:50-53).  A PIN request that read no lock
\* cannot lift one, nor can a phone, identity or enrolment request, which commits
\* a row it read a remote call ago (phone.py:25-30, egov.py:22-26,
\* tapsign.py:25-33).
LockLifters ==
  [][\A u \in Users :
       InForce(row[u].until) /\ row'[u].until # row[u].until =>
         \E s \in Sessions :
           /\ User(s) = u /\ pc[s] # "idle" /\ pc'[s] = "idle"
           /\ \/ /\ Kind(s) = "verify_pin"
                 /\ row'[u].until # NoLock /\ row'[u].until > row[u].until
              \/ Kind(s) = "verify_pin" /\ seen[s].until \notin {NoLock, row[u].until}
              \/ Kind(s) = "set_pin" /\ seen[s].until # NoLock]_vars

\* A verified user has an id number and no two users have the same, although
\* the handler never looks for another holder (egov.py:22-26, user.py:38-39).
IdentitiesAreOwn ==
  \A u \in Users :
    /\ row[u].egov <=> row[u].id # NoId
    /\ \A v \in Users \ {u} : row[u].egov => row[v].id # row[u].id

\* The flag that payments and clients rely on stands for one template, never for
\* none or two, whatever enrolments overlap: each looks for a template, encrypts
\* its own and only then updates or inserts (tapsign.py:24-33, face.py:20-28).
EnrolledHasTemplate ==
  \A u \in Users, f \in Factors : templates[f][u] = IF row[u][f] THEN 1 ELSE 0

\* The inductive invariant.  What a session has read was true once and the
\* columns that only grow still bear it out; a PIN is being compared only if
\* the lock that was read had expired; no lock lasts longer than the cooldown.
CounterInv == /\ \A u \in Users : row[u].failed <= wrong[u]
              /\ \A s \in Sessions : seen[s].failed <= wrong[User(s)]
ReadLocksInv == \A s \in Sessions :
                  seen[s].until # NoLock => wrong[User(s)] >= MaxAttempts
GuessInv == \A s \in Sessions : pc[s] = "compare" => ~InForce(seen[s].until)
CooldownInv == \A u \in Users : row[u].until # NoLock => row[u].until <= now + Lockout
StepInv == \A s \in Sessions :
             /\ pc[s] = "compare" => Kind(s) = "verify_pin"
             /\ pc[s] \in {"insert", "update"} => Kind(s) \in Factors
             /\ pc[s] = "update" => HasTemplate(s)
ReadFlagsInv == \A s \in Sessions :
                  /\ seen[s].egov <=> seen[s].id # NoId
                  /\ seen[s].egov => row[User(s)].egov
                  /\ \A f \in Factors : seen[s][f] => row[User(s)][f]

IInv ==
  /\ TypeOK
  /\ CounterInv /\ ReadLocksInv /\ GuessInv /\ CooldownInv
  /\ StepInv /\ ReadFlagsInv
  /\ LocksHaveCause /\ IdentitiesAreOwn /\ EnrolledHasTemplate

=============================================================================
