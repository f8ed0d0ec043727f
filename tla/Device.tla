------------------------------- MODULE Device -------------------------------
(***************************************************************************)
(* Device keys and challenges: /device/register, /device/challenge and     *)
(* /device/verify.  A device registers a public key; the server issues a   *)
(* nonce that expires; the device signs it; a signature that was compared, *)
(* right or wrong, uses the challenge up.  Calls run concurrently, each    *)
(* with a session of its own, and nothing is locked: what one call has     *)
(* read, another may have changed before it commits.                       *)
(*                                                                         *)
(* Time is in units of which TTL are CHALLENGE_TTL_SECONDS.                *)
(***************************************************************************)
EXTENDS Integers, FiniteSets

CONSTANTS
  Users, Devices, Keys,
  Challenges,      \* ids of challenges
  Calls,           \* calls of the three handlers
  Jobs,            \* what a call may ask
  NoUser,          \* nobody
  NotIssued,       \* no row for this id
  NoKey,           \* who signed what is no signature of the nonce
  TTL,             \* how long a challenge can be answered
  MaxClock         \* bound: the clock stops here

\* A verify call carries a signature of the challenge's nonce: by whom.
ASSUME JobAssumption ==
  Jobs \subseteq
    [kind : {"register"}, user : Users, device : Devices, key : Keys]
      \cup [kind : {"challenge"}, user : Users, device : Devices]
      \cup [kind : {"verify"}, user : Users, device : Devices,
            challenge : Challenges, signer : Keys \cup {NoKey}]

ASSUME ParameterAssumption ==
  /\ TTL \in Nat /\ MaxClock \in Nat
  /\ NoUser \notin Users /\ NoKey \notin Keys
  /\ NotIssued \notin [device : Devices, expires : Nat, consumed : BOOLEAN]

VARIABLES
  keys,        \* table device_keys
  challenges,  \* table auth_challenges
  now,         \* the clock
  job,         \* what each call asks
  pc,          \* where each call is
  answer,      \* the answer it has come to
  told,        \* the answer that reached its client
  issuedTo,    \* history: who asked for a challenge
  late,        \* history: calls begun when their challenge was expired or used
  overlapped   \* history: challenges that two calls were judging at once

vars == <<keys, challenges, now, job, pc, answer, told, issuedTo, late,
          overlapped>>

DeviceKey == [device : Devices, owner : Users, key : Keys]
AuthChallenge == [device : Devices, expires : Nat, consumed : BOOLEAN]

Steps   == {"idle", "begun", "insert", "sign", "reply", "done"}
Answers == {"none", "registered", "issued", "verified", "rejected", "refused",
            "error"}

TypeOK ==
  /\ keys \subseteq DeviceKey
  /\ challenges \in [Challenges -> AuthChallenge \cup {NotIssued}]
  /\ now \in Nat
  /\ job \in [Calls -> Jobs]
  /\ pc \in [Calls -> Steps]
  /\ answer \in [Calls -> Answers]
  /\ told \in [Calls -> Answers]
  /\ issuedTo \in [Challenges -> Users \cup {NoUser}]
  /\ late \subseteq Calls
  /\ overlapped \subseteq Challenges

Init ==
  /\ keys = {}
  /\ challenges = [c \in Challenges |-> NotIssued]
  /\ now = 0
  /\ job \in [Calls -> Jobs]
  /\ pc = [r \in Calls |-> "idle"]
  /\ answer = [r \in Calls |-> "none"]
  /\ told = [r \in Calls |-> "none"]
  /\ issuedTo = [c \in Challenges |-> NoUser]
  /\ late = {}
  /\ overlapped = {}

-----------------------------------------------------------------------------
(* Calls.                                                                   *)

At(r, kind, step) == job[r].kind = kind /\ pc[r] = step

Goto(r, step) == pc' = [pc EXCEPT ![r] = step] /\ UNCHANGED <<answer, told>>

\* What the call wrote is committed and its answer is there; the reply is next.
Commit(r, a) ==
  /\ pc' = [pc EXCEPT ![r] = "reply"]
  /\ answer' = [answer EXCEPT ![r] = a]
  /\ UNCHANGED told

\* A call that wrote nothing ends with its answer.
Finish(r, a) ==
  /\ pc' = [pc EXCEPT ![r] = "done"]
  /\ answer' = [answer EXCEPT ![r] = a]
  /\ told' = [told EXCEPT ![r] = a]

tables == <<keys, challenges, issuedTo>>
rest   == <<now, job, late, overlapped>>

Refuse(r) == Finish(r, "refused") /\ UNCHANGED <<tables, rest>>

Issued(c) == challenges[c] # NotIssued

Expired(c) == now > challenges[c].expires

\* A signature for c has been compared and the outcome committed.
Used(c) == \E q \in Calls : /\ job[q].kind = "verify" /\ job[q].challenge = c
                            /\ answer[q] \in {"verified", "rejected"}

Begin(r) ==
  /\ pc[r] = "idle"
  /\ Goto(r, "begun")
  /\ late' = late \cup
       { q \in {r} : /\ job[q].kind = "verify"
                     /\ Issued(job[q].challenge)
                     /\ Expired(job[q].challenge) \/ Used(job[q].challenge) }
  /\ UNCHANGED <<tables, now, job, overlapped>>

Tell(r, a) ==
  /\ pc' = [pc EXCEPT ![r] = "done"]
  /\ told' = [told EXCEPT ![r] = a]
  /\ UNCHANGED <<answer, tables, rest>>

Reply(r) == pc[r] = "reply" /\ Tell(r, answer[r])

\* An exception or a restart: what is not committed rolls back, what is stays
\* although the client does not hear of it.
Fail(r) == pc[r] \notin {"idle", "done"} /\ Tell(r, "error")

-----------------------------------------------------------------------------
(* POST /device/register.                                                   *)

\* Mutant: device_id is not unique.
TakenUnindexed(d) == FALSE

Taken(d) == \E k \in keys : k.device = d

LookUpDevice(r) ==
  /\ At(r, "register", "begun")
  /\ \/ Taken(job[r].device) /\ Refuse(r)
     \/ ~Taken(job[r].device) /\ Goto(r, "insert") /\ UNCHANGED <<tables, rest>>

RegisterDevice(r) ==
  /\ At(r, "register", "insert")
  /\ ~Taken(job[r].device)
  /\ keys' = keys \cup
       {[device |-> job[r].device, owner |-> job[r].user, key |-> job[r].key]}
  /\ Commit(r, "registered")
  /\ UNCHANGED <<challenges, issuedTo, rest>>

\* The unique index meets the row another call has committed since: 500.
LoseDeviceRace(r) ==
  /\ At(r, "register", "insert")
  /\ Taken(job[r].device)
  /\ Finish(r, "error")
  /\ UNCHANGED <<tables, rest>>

-----------------------------------------------------------------------------
(* POST /device/challenge.  No endpoint revokes or changes a key, so finding *)
(* it and inserting the challenge are one step.                             *)

KeysOf(u, d) == { k \in keys : k.device = d /\ k.owner = u }

IssueChallenge(r, c) ==
  /\ At(r, "challenge", "begun")
  /\ KeysOf(job[r].user, job[r].device) # {}
  /\ ~Issued(c)
  /\ challenges' = [challenges EXCEPT ![c] =
       [device |-> job[r].device, expires |-> now + TTL, consumed |-> FALSE]]
  /\ issuedTo' = [issuedTo EXCEPT ![c] = job[r].user]
  /\ Commit(r, "issued")
  /\ UNCHANGED <<keys, rest>>

RefuseDevice(r) ==
  /\ At(r, "challenge", "begun")
  /\ KeysOf(job[r].user, job[r].device) = {}
  /\ Refuse(r)

-----------------------------------------------------------------------------
(* POST /device/verify: the challenge is read and judged in one step; the    *)
(* flag that uses it up is committed in another.                            *)

\* Mutant: the flag is not looked at.
AnswerableUnchecked(r, c) ==
  Issued(c) /\ ~Expired(c) /\ challenges[c].device = job[r].device

Answerable(r, c) ==
  /\ Issued(c)
  /\ ~challenges[c].consumed
  /\ ~Expired(c)
  /\ challenges[c].device = job[r].device

\* A call has found c answerable and has not compared a signature yet.
Judging(r, c) == At(r, "verify", "sign") /\ job[r].challenge = c

CheckChallenge(r) ==
  /\ At(r, "verify", "begun")
  /\ \/ /\ Answerable(r, job[r].challenge)
        /\ Goto(r, "sign")
        /\ overlapped' = overlapped \cup
             { c \in {job[r].challenge} : \E q \in Calls : Judging(q, c) }
        /\ UNCHANGED <<tables, now, job, late>>
     \/ ~Answerable(r, job[r].challenge) /\ Refuse(r)

\* Mutant: the flag is not set.
ConsumeNothing(c) == UNCHANGED challenges

Consume(c) == challenges' = [challenges EXCEPT ![c].consumed = TRUE]

\* Mutant: a stranger's call uses the challenge up too.
RefuseStrangerConsuming(r) ==
  /\ At(r, "verify", "sign")
  /\ KeysOf(job[r].user, job[r].device) = {}
  /\ Consume(job[r].challenge)
  /\ Commit(r, "refused")
  /\ UNCHANGED <<keys, issuedTo, rest>>

RefuseStranger(r) ==
  /\ At(r, "verify", "sign")
  /\ KeysOf(job[r].user, job[r].device) = {}
  /\ Refuse(r)

\* Mutant: only a right signature uses the challenge up.
CompareSignatureLenient(r) ==
  /\ At(r, "verify", "sign")
  /\ \E k \in KeysOf(job[r].user, job[r].device) :
       \/ /\ job[r].signer = k.key
          /\ Consume(job[r].challenge)
          /\ Commit(r, "verified")
       \/ /\ job[r].signer # k.key
          /\ UNCHANGED challenges
          /\ Commit(r, "rejected")
  /\ UNCHANGED <<keys, issuedTo, rest>>

CompareSignature(r) ==
  /\ At(r, "verify", "sign")
  /\ \E k \in KeysOf(job[r].user, job[r].device) :
       Commit(r, IF job[r].signer = k.key THEN "verified" ELSE "rejected")
  /\ Consume(job[r].challenge)
  /\ UNCHANGED <<keys, issuedTo, rest>>

-----------------------------------------------------------------------------
Tick ==
  /\ now < MaxClock
  /\ now' = now + 1
  /\ UNCHANGED <<tables, job, pc, answer, told, late, overlapped>>

Finished == (\A r \in Calls : pc[r] = "done") /\ UNCHANGED vars

Handle(r) ==
  \/ LookUpDevice(r) \/ RegisterDevice(r) \/ LoseDeviceRace(r)
  \/ RefuseDevice(r) \/ \E c \in Challenges : IssueChallenge(r, c)
  \/ CheckChallenge(r) \/ RefuseStranger(r) \/ CompareSignature(r) \/ Reply(r)

Next ==
  \/ \E r \in Calls : Begin(r) \/ Handle(r) \/ Fail(r)
  \/ Tick
  \/ Finished

Spec == Init /\ [][Next]_vars

-----------------------------------------------------------------------------
(* Properties.                                                              *)

Verified(r) == job[r].kind = "verify" /\ answer[r] = "verified"

\* What is said of a verified call holds whether or not its client is told.

\* A challenge is answered by the user it was issued to, with the key that is
\* registered for its device, although the challenge row names no user
\* (device.py:47-66, 95-105; user.py:100, 108-117).
IssuedToVerifier ==
  \A r \in Calls : Verified(r) =>
    /\ issuedTo[job[r].challenge] = job[r].user
    /\ \E k \in keys : /\ k.device = challenges[job[r].challenge].device
                       /\ k.owner = job[r].user
                       /\ k.key = job[r].signer

\* A challenge that is over, because it expired or because a signature for it
\* was compared, right or wrong, verifies no call that begins later
\* (device.py:88-91, 110-111).
OverIsOver == \A r \in late : ~Verified(r)

\* Only a signature compared on behalf of its owner uses a challenge up: no call
\* that was refused does, nor one that failed before its commit (device.py:86-105
\* return before line 110).
OnlyOwnerConsumes ==
  \A c \in Challenges : Issued(c) /\ challenges[c].consumed =>
    \E r \in Calls : /\ job[r].kind = "verify" /\ job[r].challenge = c
                     /\ job[r].user = issuedTo[c]
                     /\ answer[r] \in {"verified", "rejected"}

\* device_auth_service.py:17-19: the back end "immediately consumes
\* (invalidates) the challenge so it can never be replayed".
VerifiedOnce ==
  \A r, q \in Calls :
    /\ job[r].kind = "verify" /\ told[r] = "verified"
    /\ job[q].kind = "verify" /\ told[q] = "verified"
    /\ job[r].challenge = job[q].challenge
    => r = q

\* The flag that uses a challenge up is neither read under a lock nor set under
\* a condition, yet that is the only gap: two calls are verified by one challenge
\* only if both had found it unused before either had set the flag
\* (device.py:88-93, 110-111).
TwiceOnlyByOverlap ==
  \A r, q \in Calls :
    Verified(r) /\ Verified(q) /\ r # q /\ job[r].challenge = job[q].challenge
      => job[r].challenge \in overlapped

\* The inductive invariant: one key per device; a challenge was issued to the
\* owner of its device's key; what each step of a call has established; a call
\* that judges a challenge another call judges or has used up overlaps with it.
KeysInv == \A k, l \in keys : k.device = l.device => k = l
IssueInv ==
  \A c \in Challenges : Issued(c) =>
    /\ issuedTo[c] \in Users
    /\ KeysOf(issuedTo[c], challenges[c].device) # {}
ConsumedInv == \A c \in Challenges : Used(c) => Issued(c) /\ challenges[c].consumed
StepInv ==
  \A r \in Calls :
    /\ pc[r] \notin {"reply", "done"} => answer[r] = "none"
    /\ told[r] \in {"none", "error", answer[r]}
    /\ pc[r] = "idle" => r \notin late
    /\ job[r].kind = "verify" =>
         LET c == job[r].challenge IN
         /\ pc[r] = "sign" =>
              r \notin late /\ Issued(c) /\ challenges[c].device = job[r].device
         /\ r \in late => Issued(c) /\ (Expired(c) \/ Used(c))

OverlapInv ==
  \A r \in Calls, c \in Challenges : Judging(r, c) =>
    \/ c \in overlapped
    \/ ~challenges[c].consumed /\ \A q \in Calls \ {r} : ~Judging(q, c)

CoreInv ==
  /\ TypeOK
  /\ KeysInv /\ IssueInv /\ ConsumedInv /\ StepInv
  /\ IssuedToVerifier /\ OverIsOver /\ OnlyOwnerConsumes

IInv == CoreInv /\ OverlapInv /\ TwiceOnlyByOverlap

=============================================================================
