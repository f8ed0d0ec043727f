---------------------------- MODULE DeviceProofs ----------------------------
(***************************************************************************)
(* Proofs about device keys and challenges, for any number of users,       *)
(* devices, challenges and overlapping calls.                              *)
(***************************************************************************)
EXTENDS Device, TLAPS

\* What a job carries, by kind.
LEMMA JobFields ==
  ASSUME NEW j \in Jobs
  PROVE  /\ j.user \in Users /\ j.device \in Devices
         /\ j.kind = "register" => j.key \in Keys
         /\ j.kind = "verify" => j.challenge \in Challenges
<1>1. CASE j \in [kind : {"register"}, user : Users, device : Devices, key : Keys]
      BY <1>1
<1>2. CASE j \in [kind : {"challenge"}, user : Users, device : Devices]
      BY <1>2
<1>3. CASE j \in [kind : {"verify"}, user : Users, device : Devices,
                  challenge : Challenges, signer : Keys \cup {NoKey}]
      BY <1>3
<1>4. QED  BY <1>1, <1>2, <1>3, JobAssumption

\* An issued challenge is a row.
LEMMA IssuedIsRow ==
  ASSUME TypeOK, NEW c \in Challenges
  PROVE  Issued(c) <=> challenges[c] \in AuthChallenge
  BY ParameterAssumption DEF TypeOK, Issued, AuthChallenge

-----------------------------------------------------------------------------
(* The inductive invariant.                                                 *)

\* It holds before anything is registered.
LEMMA InitInv == Init => CoreInv
<1>1. SUFFICES ASSUME Init PROVE CoreInv
      OBVIOUS
<1>2. TypeOK
      BY <1>1, ParameterAssumption DEF Init, TypeOK, Steps, Answers
<1>3. KeysInv /\ IssueInv /\ ConsumedInv /\ StepInv
      BY <1>1 DEF Init, KeysInv, IssueInv, ConsumedInv, StepInv, Issued, Used
<1>4. IssuedToVerifier /\ OverIsOver /\ OnlyOwnerConsumes
      BY <1>1 DEF Init, IssuedToVerifier, OverIsOver, OnlyOwnerConsumes, Verified,
                  Issued
<1>5. QED  BY <1>2, <1>3, <1>4 DEF CoreInv

\* A call that moves on, ends or is cut off without having compared a signature
\* in this step keeps it.
LEMMA MoveInv ==
  ASSUME CoreInv, NEW r \in Calls, pc[r] \notin {"idle", "done"},
         UNCHANGED <<tables, now, job, late>>,
         overlapped' \subseteq Challenges,
         NEW step \in Steps \ {"idle"}, NEW a \in Answers, NEW t \in Answers,
         pc' = [pc EXCEPT ![r] = step],
         answer' = [answer EXCEPT ![r] = a],
         told' = [told EXCEPT ![r] = t],
         a = answer[r] \/ (answer[r] = "none" /\ a \notin {"verified", "rejected"}),
         step \notin {"reply", "done"} => a = "none",
         t \in {"none", "error", a},
         step = "sign" /\ job[r].kind = "verify" =>
           /\ r \notin late /\ Issued(job[r].challenge)
           /\ challenges[job[r].challenge].device = job[r].device
  PROVE  CoreInv'
<1>1. /\ keys' = keys /\ challenges' = challenges /\ issuedTo' = issuedTo
      /\ now' = now /\ job' = job /\ late' = late
      BY DEF tables
<1>2. TypeOK'
      BY <1>1 DEF CoreInv, TypeOK
<1>3. /\ pc'[r] = step /\ answer'[r] = a /\ told'[r] = t
      /\ \A q \in Calls \ {r} :
           pc'[q] = pc[q] /\ answer'[q] = answer[q] /\ told'[q] = told[q]
      BY DEF CoreInv, TypeOK
<1>5. /\ \A q \in Calls : answer'[q] \in {"verified", "rejected"} <=>
                            answer[q] \in {"verified", "rejected"}
      /\ \A q \in Calls : answer'[q] = "verified" <=> answer[q] = "verified"
      BY <1>3
<1>6. \A c \in Challenges : (Used(c)' <=> Used(c)) /\ (Issued(c)' <=> Issued(c))
      BY <1>1, <1>5 DEF Used, Issued
<1>8. KeysInv' /\ IssueInv' /\ ConsumedInv'
      BY <1>1, <1>6 DEF CoreInv, KeysInv, IssueInv, ConsumedInv, KeysOf
<1>9. StepInv'
  <2>1. SUFFICES ASSUME NEW q \in Calls
                 PROVE  /\ pc'[q] \notin {"reply", "done"} => answer'[q] = "none"
                        /\ told'[q] \in {"none", "error", answer'[q]}
                        /\ pc'[q] = "idle" => q \notin late
                        /\ job[q].kind = "verify" =>
                             /\ pc'[q] = "sign" =>
                                  /\ q \notin late /\ Issued(job[q].challenge)
                                  /\ challenges[job[q].challenge].device = job[q].device
                             /\ q \in late =>
                                  /\ Issued(job[q].challenge)
                                  /\ Expired(job[q].challenge) \/ Used(job[q].challenge)
    <3>1. \A q \in Calls : job[q].kind = "verify" => job[q].challenge \in Challenges
          BY JobFields DEF CoreInv, TypeOK
    <3>2. QED  BY <1>1, <1>6, <3>1 DEF StepInv, Expired, Issued
  <2>2. QED  BY <1>3 DEF CoreInv, StepInv
<1>10. IssuedToVerifier' /\ OverIsOver'
  <2>1. IssuedToVerifier'
        BY <1>1, <1>5 DEF CoreInv, IssuedToVerifier, Verified
  <2>2. OverIsOver'
        BY <1>1, <1>5 DEF CoreInv, OverIsOver, Verified, TypeOK
  <2>3. QED  BY <2>1, <2>2
<1>11. OnlyOwnerConsumes'
       BY <1>1, <1>5, <1>6 DEF CoreInv, OnlyOwnerConsumes
<1>12. QED  BY <1>2, <1>8, <1>9, <1>10, <1>11 DEF CoreInv

\* A call that begins is late exactly when its challenge is over.
LEMMA BeginInv ==
  ASSUME CoreInv, NEW r \in Calls, Begin(r)
  PROVE  CoreInv'
<1>1. /\ keys' = keys /\ challenges' = challenges /\ issuedTo' = issuedTo
      /\ now' = now /\ job' = job /\ answer' = answer /\ told' = told
      /\ overlapped' = overlapped
      /\ pc' = [pc EXCEPT ![r] = "begun"] /\ pc[r] = "idle"
      BY DEF Begin, Goto, tables
<1>2. /\ late' \subseteq late \cup {r}
      /\ late \subseteq late'
      /\ r \in late' => \/ r \in late
                        \/ /\ job[r].kind = "verify" /\ Issued(job[r].challenge)
                           /\ Expired(job[r].challenge) \/ Used(job[r].challenge)
      BY DEF Begin
<1>3. TypeOK'
      BY <1>1, <1>2 DEF CoreInv, TypeOK, Steps
<1>4. /\ pc'[r] = "begun" /\ answer[r] = "none"
      /\ \A q \in Calls \ {r} : pc'[q] = pc[q]
      BY <1>1 DEF CoreInv, TypeOK, StepInv
<1>5. KeysInv' /\ IssueInv' /\ ConsumedInv'
      BY <1>1 DEF CoreInv, KeysInv, IssueInv, ConsumedInv, KeysOf, Issued, Used
<1>6. \A c : /\ Issued(c)' <=> Issued(c)
             /\ Expired(c)' <=> Expired(c)
             /\ Used(c)' <=> Used(c)
      BY <1>1 DEF Issued, Expired, Used
<1>7. StepInv'
      BY <1>1, <1>2, <1>4, <1>6 DEF CoreInv, StepInv
<1>8. IssuedToVerifier' /\ OnlyOwnerConsumes'
      BY <1>1 DEF CoreInv, IssuedToVerifier, OnlyOwnerConsumes, Verified, Issued
<1>9. OverIsOver'
      BY <1>1, <1>2, <1>4 DEF CoreInv, OverIsOver, Verified
<1>10. QED  BY <1>3, <1>5, <1>7, <1>8, <1>9 DEF CoreInv

\* A device is registered once: the row it adds is its only one.
LEMMA RegisterInv ==
  ASSUME CoreInv, NEW r \in Calls, RegisterDevice(r)
  PROVE  CoreInv'
<1> DEFINE k == [device |-> job[r].device, owner |-> job[r].user, key |-> job[r].key]
<1>1. /\ job[r].kind = "register" /\ pc[r] = "insert"
      /\ \A l \in keys : l.device # job[r].device
      /\ keys' = keys \cup {k}
      /\ challenges' = challenges /\ issuedTo' = issuedTo /\ now' = now
      /\ job' = job /\ late' = late /\ overlapped' = overlapped
      /\ pc' = [pc EXCEPT ![r] = "reply"]
      /\ answer' = [answer EXCEPT ![r] = "registered"] /\ told' = told
      BY DEF RegisterDevice, At, Taken, Commit, rest
<1>2. k \in DeviceKey
      BY <1>1, JobFields DEF CoreInv, TypeOK, DeviceKey
<1>3. TypeOK'
      BY <1>1, <1>2 DEF CoreInv, TypeOK, Steps, Answers
<1>4. /\ pc'[r] = "reply" /\ answer'[r] = "registered" /\ answer[r] = "none"
      /\ \A q \in Calls \ {r} : pc'[q] = pc[q] /\ answer'[q] = answer[q]
      BY <1>1 DEF CoreInv, TypeOK, StepInv
<1>5. KeysInv'
      BY <1>1 DEF CoreInv, KeysInv
<1>6. IssueInv'
      BY <1>1 DEF CoreInv, IssueInv, KeysOf, Issued
<1>7. \A c : (Issued(c)' <=> Issued(c)) /\ (Expired(c)' <=> Expired(c))
      BY <1>1 DEF Issued, Expired
<1>8. \A c : Used(c)' <=> Used(c)
      BY <1>1, <1>4 DEF Used
<1>9. ConsumedInv' /\ StepInv'
      BY <1>1, <1>4, <1>7, <1>8 DEF CoreInv, ConsumedInv, StepInv
<1>10. IssuedToVerifier'
       BY <1>1, <1>4 DEF CoreInv, IssuedToVerifier, Verified
<1>11. OverIsOver'
       BY <1>1, <1>4 DEF CoreInv, OverIsOver, Verified, TypeOK
<1>12. OnlyOwnerConsumes'
       BY <1>1, <1>4, <1>7 DEF CoreInv, OnlyOwnerConsumes
<1>13. QED  BY <1>3, <1>5, <1>6, <1>9, <1>10, <1>11, <1>12 DEF CoreInv

\* A new challenge goes to the owner of its device's key, under an id that no
\* call has answered.
LEMMA ChallengeInv ==
  ASSUME CoreInv, NEW r \in Calls, NEW c \in Challenges, IssueChallenge(r, c)
  PROVE  CoreInv'
<1> DEFINE new == [device |-> job[r].device, expires |-> now + TTL,
                   consumed |-> FALSE]
<1>1. /\ job[r].kind = "challenge" /\ pc[r] = "begun"
      /\ KeysOf(job[r].user, job[r].device) # {}
      /\ ~Issued(c)
      /\ challenges' = [challenges EXCEPT ![c] = new]
      /\ issuedTo' = [issuedTo EXCEPT ![c] = job[r].user]
      /\ keys' = keys /\ now' = now /\ job' = job /\ late' = late /\ overlapped' = overlapped
      /\ pc' = [pc EXCEPT ![r] = "reply"]
      /\ answer' = [answer EXCEPT ![r] = "issued"] /\ told' = told
      BY DEF IssueChallenge, At, Commit, rest
<1>2. job[r].user \in Users /\ new \in AuthChallenge
      BY JobFields, ParameterAssumption DEF CoreInv, TypeOK, AuthChallenge
<1>3. TypeOK'
      BY <1>1, <1>2 DEF CoreInv, TypeOK, Steps, Answers
<1>4. /\ pc'[r] = "reply" /\ answer'[r] = "issued" /\ answer[r] = "none"
      /\ \A q \in Calls \ {r} : pc'[q] = pc[q] /\ answer'[q] = answer[q]
      BY <1>1 DEF CoreInv, TypeOK, StepInv
<1>5. /\ challenges'[c] = new /\ issuedTo'[c] = job[r].user
      /\ new.device = job[r].device /\ ~new.consumed
      /\ \A d \in Challenges \ {c} :
           challenges'[d] = challenges[d] /\ issuedTo'[d] = issuedTo[d]
      BY <1>1 DEF CoreInv, TypeOK
<1>6. \A d : Used(d)' <=> Used(d)
      BY <1>1, <1>4 DEF Used
<1>7. ~Used(c)
      BY <1>1 DEF CoreInv, ConsumedInv
<1>8. \A d \in Challenges \ {c} : /\ Issued(d)' <=> Issued(d)
                                  /\ Expired(d)' <=> Expired(d)
      BY <1>1, <1>5 DEF Issued, Expired
<1>9. KeysInv'
      BY <1>1 DEF CoreInv, KeysInv
<1> HIDE DEF new
<1>10. IssueInv'
       BY <1>1, <1>2, <1>5, <1>8 DEF CoreInv, IssueInv, KeysOf
<1>11. ConsumedInv'
       BY <1>5, <1>6, <1>7, <1>8 DEF CoreInv, ConsumedInv
<1>12. \A q \in Calls : job[q].kind = "verify" => job[q].challenge \in Challenges
       BY JobFields DEF CoreInv, TypeOK
<1>13. StepInv'
       BY <1>1, <1>4, <1>5, <1>6, <1>8, <1>12 DEF CoreInv, StepInv
<1>15. IssuedToVerifier' /\ OverIsOver'
  <2>1. ASSUME NEW q \in Calls, job[q].kind = "verify", answer'[q] = "verified"
        PROVE  /\ answer[q] = "verified"
               /\ challenges'[job[q].challenge] = challenges[job[q].challenge]
               /\ issuedTo'[job[q].challenge] = issuedTo[job[q].challenge]
        BY <2>1, <1>1, <1>4, <1>5, <1>7, <1>12 DEF Used
  <2>2. IssuedToVerifier'
        BY <2>1, <1>1 DEF CoreInv, IssuedToVerifier, Verified
  <2>3. OverIsOver'
        BY <2>1, <1>1 DEF CoreInv, OverIsOver, Verified, TypeOK
  <2>4. QED  BY <2>2, <2>3
<1>16. OnlyOwnerConsumes'
  <2>1. SUFFICES ASSUME NEW d \in Challenges \ {c}, Issued(d), challenges[d].consumed
                 PROVE  \E q \in Calls :
                          /\ job[q].kind = "verify" /\ job[q].challenge = d
                          /\ job[q].user = issuedTo[d]
                          /\ answer'[q] \in {"verified", "rejected"}
        BY <1>1, <1>5, <1>8 DEF OnlyOwnerConsumes
  <2>2. QED  BY <2>1, <1>1, <1>4 DEF CoreInv, OnlyOwnerConsumes
<1>17. QED  BY <1>3, <1>9, <1>10, <1>11, <1>13, <1>15, <1>16 DEF CoreInv

\* A signature is compared with the key of the user the challenge was issued to:
\* a device has one key, and it belonged to that user when the challenge was
\* issued.
LEMMA CompareInv ==
  ASSUME CoreInv, NEW r \in Calls, CompareSignature(r)
  PROVE  CoreInv'
<1> DEFINE c == job[r].challenge
<1>1. PICK k \in KeysOf(job[r].user, job[r].device) :
             Commit(r, IF job[r].signer = k.key THEN "verified" ELSE "rejected")
      BY DEF CompareSignature
<1> DEFINE a == IF job[r].signer = k.key THEN "verified" ELSE "rejected"
<1>2. /\ job[r].kind = "verify" /\ pc[r] = "sign"
      /\ challenges' = [challenges EXCEPT ![c].consumed = TRUE]
      /\ keys' = keys /\ issuedTo' = issuedTo /\ now' = now
      /\ job' = job /\ late' = late /\ overlapped' = overlapped
      /\ pc' = [pc EXCEPT ![r] = "reply"]
      /\ answer' = [answer EXCEPT ![r] = a] /\ told' = told
      BY <1>1 DEF CompareSignature, At, Consume, Commit, rest
<1>3. /\ c \in Challenges /\ job[r].user \in Users
      /\ Issued(c) /\ challenges[c].device = job[r].device /\ r \notin late
      BY <1>2, JobFields DEF CoreInv, TypeOK, StepInv
<1>4. challenges[c] \in AuthChallenge
      BY <1>3, IssuedIsRow DEF CoreInv
<1>5. /\ challenges'[c] \in AuthChallenge
      /\ challenges'[c].device = challenges[c].device
      /\ challenges'[c].expires = challenges[c].expires
      /\ challenges'[c].consumed
      /\ \A d \in Challenges \ {c} : challenges'[d] = challenges[d]
      BY <1>2, <1>3, <1>4 DEF CoreInv, TypeOK, AuthChallenge
<1>6. a \in {"verified", "rejected"} /\ (a = "verified" => job[r].signer = k.key)
      OBVIOUS
<1> HIDE DEF a
<1>7. TypeOK'
      BY <1>2, <1>3, <1>5, <1>6 DEF CoreInv, TypeOK, Steps, Answers
<1>8. /\ pc'[r] = "reply" /\ answer'[r] = a /\ answer[r] = "none"
      /\ \A q \in Calls \ {r} : pc'[q] = pc[q] /\ answer'[q] = answer[q]
      BY <1>2 DEF CoreInv, TypeOK, StepInv
<1>9. k \in keys /\ k.device = job[r].device /\ k.owner = job[r].user
      BY DEF KeysOf
<1>10. issuedTo[c] = job[r].user
  <2>1. PICK l \in keys : l.device = challenges[c].device /\ l.owner = issuedTo[c]
        BY <1>3 DEF CoreInv, IssueInv, KeysOf
  <2>2. QED  BY <2>1, <1>3, <1>9 DEF CoreInv, KeysInv
<1>11. \A d \in Challenges : Issued(d)' <=> Issued(d)
       BY <1>3, <1>5, <1>7, IssuedIsRow, ParameterAssumption
          DEF Issued, AuthChallenge
<1>12. \A d \in Challenges : /\ Expired(d)' <=> Expired(d)
                             /\ challenges'[d].device = challenges[d].device
       BY <1>2, <1>5 DEF Expired
<1>13. /\ \A d : Used(d) => Used(d)'
       /\ \A d : Used(d)' => Used(d) \/ d = c
       BY <1>2, <1>6, <1>8 DEF Used
<1>14. KeysInv' /\ IssueInv'
       BY <1>2, <1>11, <1>12 DEF CoreInv, KeysInv, IssueInv, KeysOf
<1>15. ConsumedInv'
       BY <1>3, <1>5, <1>11, <1>13 DEF CoreInv, ConsumedInv
<1>16. \A q \in Calls : job[q].kind = "verify" => job[q].challenge \in Challenges
       BY JobFields DEF CoreInv, TypeOK
<1>17. StepInv'
  <2>1. \A q \in Calls : /\ pc'[q] \notin {"reply", "done"} => answer'[q] = "none"
                         /\ told'[q] \in {"none", "error", answer'[q]}
                         /\ pc'[q] = "idle" => q \notin late'
        BY <1>2, <1>6, <1>8 DEF CoreInv, StepInv
  <2>2. ASSUME NEW q \in Calls, job[q].kind = "verify"
        PROVE  /\ pc'[q] = "sign" =>
                    /\ q \notin late' /\ Issued(job[q].challenge)'
                    /\ challenges'[job[q].challenge].device = job[q].device
               /\ q \in late' =>
                    /\ Issued(job[q].challenge)'
                    /\ Expired(job[q].challenge)' \/ Used(job[q].challenge)'
    <3>1. /\ job' = job /\ late' = late /\ overlapped' = overlapped
          /\ Issued(job[q].challenge)' <=> Issued(job[q].challenge)
          /\ Expired(job[q].challenge)' <=> Expired(job[q].challenge)
          /\ Used(job[q].challenge) => Used(job[q].challenge)'
          /\ challenges'[job[q].challenge].device = challenges[job[q].challenge].device
          BY <1>2, <1>11, <1>12, <1>13, <1>16, <2>2
    <3>2. pc'[q] = "sign" => pc[q] = "sign"
          BY <1>8
    <3>3. QED  BY <2>2, <3>1, <3>2 DEF CoreInv, StepInv
  <2>3. QED  BY <1>2, <2>1, <2>2 DEF StepInv
<1>18. IssuedToVerifier'
  <2>1. ASSUME NEW q \in Calls, job[q].kind = "verify", answer'[q] = "verified"
        PROVE  /\ issuedTo[job[q].challenge] = job[q].user
               /\ \E l \in keys : /\ l.device = challenges[job[q].challenge].device
                                  /\ l.owner = job[q].user
                                  /\ l.key = job[q].signer
    <3>1. CASE q = r
          BY <3>1, <2>1, <1>3, <1>6, <1>8, <1>9, <1>10
    <3>2. CASE q # r
          BY <3>2, <2>1, <1>8 DEF CoreInv, IssuedToVerifier, Verified
    <3>3. QED  BY <3>1, <3>2
  <2>2. QED  BY <2>1, <1>2, <1>12, <1>16 DEF IssuedToVerifier, Verified
<1>19. OverIsOver'
       BY <1>2, <1>3, <1>8 DEF CoreInv, OverIsOver, Verified
<1>20. OnlyOwnerConsumes'
  <2>1. ASSUME NEW d \in Challenges, Issued(d)', challenges'[d].consumed
        PROVE  \E q \in Calls : /\ job[q].kind = "verify" /\ job[q].challenge = d
                                /\ job[q].user = issuedTo[d]
                                /\ answer'[q] \in {"verified", "rejected"}
    <3>1. CASE d = c
          BY <3>1, <1>2, <1>6, <1>8, <1>10
    <3>2. CASE d # c
      <4>1. Issued(d) /\ challenges[d].consumed
            BY <2>1, <3>2, <1>5, <1>11
      <4>2. PICK q \in Calls : /\ job[q].kind = "verify" /\ job[q].challenge = d
                               /\ job[q].user = issuedTo[d]
                               /\ answer[q] \in {"verified", "rejected"}
            BY <4>1 DEF CoreInv, OnlyOwnerConsumes
      <4>3. q # r
            BY <4>2, <3>2
      <4>4. QED  BY <4>2, <4>3, <1>8
    <3>3. QED  BY <3>1, <3>2
  <2>2. QED  BY <2>1, <1>2 DEF OnlyOwnerConsumes
<1>21. QED  BY <1>7, <1>14, <1>15, <1>17, <1>18, <1>19, <1>20 DEF CoreInv

\* What is expired stays expired.
LEMMA TickInv ==
  ASSUME CoreInv, Tick
  PROVE  CoreInv'
<1>1. /\ keys' = keys /\ challenges' = challenges /\ issuedTo' = issuedTo
      /\ job' = job /\ pc' = pc /\ answer' = answer /\ told' = told
      /\ late' = late
      /\ overlapped' = overlapped
      /\ now' = now + 1
      BY DEF Tick, tables
<1>2. TypeOK'
      BY <1>1 DEF CoreInv, TypeOK
<1>3. \A c \in Challenges : Issued(c) /\ Expired(c) => Expired(c)'
  <2>1. SUFFICES ASSUME NEW c \in Challenges, Issued(c), now > challenges[c].expires
                 PROVE  now + 1 > challenges[c].expires
        BY <1>1 DEF Expired
  <2>2. challenges[c].expires \in Nat /\ now \in Nat
        BY <2>1, IssuedIsRow DEF CoreInv, TypeOK, AuthChallenge
  <2>3. QED  BY <2>1, <2>2
<1>4. \A q \in Calls : job[q].kind = "verify" => job[q].challenge \in Challenges
      BY JobFields DEF CoreInv, TypeOK
<1>5. \A c : (Issued(c)' <=> Issued(c)) /\ (Used(c)' <=> Used(c))
      BY <1>1 DEF Issued, Used
<1>6. StepInv'
      BY <1>1, <1>3, <1>4, <1>5 DEF CoreInv, StepInv
<1>7. KeysInv' /\ IssueInv' /\ ConsumedInv'
      BY <1>1, <1>5 DEF CoreInv, KeysInv, IssueInv, ConsumedInv, KeysOf
<1>8. IssuedToVerifier' /\ OverIsOver' /\ OnlyOwnerConsumes'
      BY <1>1, <1>5 DEF CoreInv, IssuedToVerifier, OverIsOver, OnlyOwnerConsumes,
                        Verified
<1>9. QED  BY <1>2, <1>6, <1>7, <1>8 DEF CoreInv

\* What is answerable is not over, so the call that checks it is not late.
LEMMA CheckInv ==
  ASSUME CoreInv, NEW r \in Calls, CheckChallenge(r)
  PROVE  CoreInv'
<1> DEFINE c == job[r].challenge
<1>1. /\ job[r].kind = "verify" /\ pc[r] = "begun" /\ c \in Challenges
      /\ answer[r] = "none" /\ answer \in [Calls -> Answers]
      /\ told[r] \in {"none", "error"} /\ told \in [Calls -> Answers]
      BY JobFields DEF CheckChallenge, At, CoreInv, TypeOK, StepInv
<1>2. CASE Refuse(r)
  <2>1. /\ UNCHANGED <<tables, rest>>
        /\ pc' = [pc EXCEPT ![r] = "done"]
        /\ answer' = [answer EXCEPT ![r] = "refused"]
        /\ told' = [told EXCEPT ![r] = "refused"]
        BY <1>2 DEF Refuse, Finish
  <2>2. "done" \in Steps \ {"idle"} /\ "refused" \in Answers
        BY DEF Steps, Answers
  <2>3. UNCHANGED <<tables, now, job, late>> /\ overlapped' \subseteq Challenges
        BY <2>1 DEF rest, CoreInv, TypeOK
  <2>4. QED  BY <1>1, <2>1, <2>2, <2>3, MoveInv
<1>3. CASE /\ Answerable(r, c) /\ Goto(r, "sign")
           /\ UNCHANGED <<tables, now, job, late>>
           /\ overlapped' = overlapped \cup
                { d \in {c} : \E q \in Calls : Judging(q, d) }
  <2>1. /\ pc' = [pc EXCEPT ![r] = "sign"]
        /\ answer' = [answer EXCEPT ![r] = "none"]
        /\ told' = [told EXCEPT ![r] = told[r]]
        BY <1>1, <1>3 DEF Goto
  <2>2. "sign" \in Steps \ {"idle"} /\ "none" \in Answers /\ told[r] \in Answers
        BY <1>1 DEF Steps, Answers
  <2>3. Issued(c) /\ challenges[c].device = job[r].device /\ r \notin late
        BY <1>1, <1>3 DEF Answerable, CoreInv, StepInv, ConsumedInv
  <2>4. overlapped' \subseteq Challenges
        BY <1>1, <1>3 DEF CoreInv, TypeOK
  <2>5. QED  BY <1>1, <1>3, <2>1, <2>2, <2>3, <2>4, MoveInv
<1>4. QED  BY <1>2, <1>3 DEF CheckChallenge

\* Every call keeps it, whatever it does.
LEMMA CallInv ==
  ASSUME CoreInv, NEW r \in Calls, Begin(r) \/ Handle(r) \/ Fail(r)
  PROVE  CoreInv'
<1>1. /\ {"insert", "done"} \subseteq Steps \ {"idle"}
      /\ {"none", "refused", "error"} \subseteq Answers
      BY DEF Steps, Answers
<1>2. CASE /\ pc[r] \notin {"idle", "reply", "done"}
           /\ UNCHANGED <<tables, rest>>
           /\ Finish(r, "refused") \/ Finish(r, "error")
  <2>1. UNCHANGED <<tables, now, job, late>> /\ overlapped' \subseteq Challenges
        BY <1>2 DEF rest, CoreInv, TypeOK
  <2>2. answer[r] = "none"
        BY <1>2 DEF CoreInv, StepInv
  <2>3. QED  BY <1>1, <1>2, <2>1, <2>2, MoveInv DEF Finish
<1>3. CASE \/ RefuseDevice(r) \/ RefuseStranger(r) \/ LoseDeviceRace(r)
      BY <1>2, <1>3 DEF RefuseDevice, RefuseStranger, LoseDeviceRace, Refuse, At
<1>8. CASE Reply(r) \/ Fail(r)
  <2>1. PICK a \in Answers : a = answer[r]
        BY DEF CoreInv, TypeOK
  <2>2. PICK t \in {"error", a} : Tell(r, t)
        BY <1>8, <2>1 DEF Reply, Fail
  <2>3. pc[r] \notin {"idle", "done"}
        BY <1>8 DEF Reply, Fail
  <2>4. /\ answer' = [answer EXCEPT ![r] = a] /\ told' = [told EXCEPT ![r] = t]
        /\ pc' = [pc EXCEPT ![r] = "done"]
        /\ UNCHANGED <<tables, now, job, late>> /\ overlapped' \subseteq Challenges
        BY <2>1, <2>2 DEF Tell, rest, CoreInv, TypeOK
  <2>5. t \in Answers /\ t \in {"none", "error", a}
        BY <1>1, <2>1, <2>2
  <2>6. "done" \in Steps \ {"idle"}
        BY <1>1
  <2>7. QED  BY <2>1, <2>3, <2>4, <2>5, <2>6, MoveInv
<1>4. CASE LookUpDevice(r)
  <2>1. CASE Refuse(r)
        BY <1>2, <1>4, <2>1 DEF LookUpDevice, Refuse, At
  <2>2. CASE Goto(r, "insert") /\ UNCHANGED <<tables, rest>>
    <3>1. /\ pc[r] = "begun" /\ answer[r] = "none" /\ answer \in [Calls -> Answers]
          /\ told[r] \in {"none", "error"} /\ told \in [Calls -> Answers]
          BY <1>4 DEF LookUpDevice, At, CoreInv, StepInv, TypeOK
    <3>2. /\ pc' = [pc EXCEPT ![r] = "insert"]
          /\ answer' = [answer EXCEPT ![r] = "none"]
          /\ told' = [told EXCEPT ![r] = told[r]]
          BY <2>2, <3>1 DEF Goto
    <3>3. UNCHANGED <<tables, now, job, late>> /\ overlapped' \subseteq Challenges
          BY <2>2 DEF rest, CoreInv, TypeOK
    <3>4. QED  BY <1>1, <3>1, <3>2, <3>3, MoveInv
  <2>3. QED  BY <1>4, <2>1, <2>2 DEF LookUpDevice
<1>5. CASE Begin(r) \/ RegisterDevice(r) \/ CheckChallenge(r) \/ CompareSignature(r)
      BY <1>5, BeginInv, RegisterInv, CheckInv, CompareInv
<1>6. CASE \E c \in Challenges : IssueChallenge(r, c)
      BY <1>6, ChallengeInv
<1>7. QED  BY <1>3, <1>4, <1>5, <1>6, <1>8 DEF Handle

\* The part of it that says who may answer a challenge and until when.
LEMMA CoreAlways == Spec => []CoreInv
<1>1. CoreInv /\ [Next]_vars => CoreInv'
  <2>1. SUFFICES ASSUME CoreInv, [Next]_vars PROVE CoreInv'
        OBVIOUS
  <2>2. CASE \E r \in Calls : Begin(r) \/ Handle(r) \/ Fail(r)
        BY <2>1, <2>2, CallInv
  <2>3. CASE Tick
        BY <2>1, <2>3, TickInv
  <2>4. CASE UNCHANGED vars
        BY <2>1, <2>4
           DEF vars, CoreInv, TypeOK, KeysInv, IssueInv, ConsumedInv, StepInv,
               IssuedToVerifier, OverIsOver, OnlyOwnerConsumes, Issued, Expired,
               Used, Verified, KeysOf
  <2>5. QED  BY <2>1, <2>2, <2>3, <2>4 DEF Next, Finished
<1>2. QED  BY <1>1, InitInv, PTL DEF Spec

\* A call that does not start to judge a challenge or use one up disturbs no
\* overlap, and nobody is verified.
LEMMA QuietOverlap ==
  ASSUME CoreInv, OverlapInv, TwiceOnlyByOverlap,
         job' = job, overlapped' = overlapped,
         \A c \in Challenges : challenges'[c].consumed => challenges[c].consumed
                                                        \/ ~Issued(c),
         \A r \in Calls : pc'[r] = "sign" /\ job[r].kind = "verify" => pc[r] = "sign",
         \A r \in Calls : answer'[r] = "verified" => answer[r] = "verified"
  PROVE  OverlapInv' /\ TwiceOnlyByOverlap'
<1>1. \A r \in Calls, c \in Challenges : Judging(r, c)' => Judging(r, c) /\ Issued(c)
      BY DEF Judging, At, CoreInv, StepInv
<1>2. OverlapInv'
      BY <1>1 DEF OverlapInv
<1>3. TwiceOnlyByOverlap'
      BY DEF TwiceOnlyByOverlap, Verified
<1>4. QED  BY <1>2, <1>3

\* A call that starts to judge a challenge records the overlap.
LEMMA CheckOverlap ==
  ASSUME CoreInv, OverlapInv, TwiceOnlyByOverlap, NEW r \in Calls,
         CheckChallenge(r), pc'[r] = "sign"
  PROVE  OverlapInv' /\ TwiceOnlyByOverlap'
<1> DEFINE c == job[r].challenge
<1>1. /\ job[r].kind = "verify" /\ pc[r] = "begun"
      /\ ~challenges[c].consumed
      /\ overlapped' = overlapped \cup {d \in {c} : \E q \in Calls : Judging(q, d)}
      /\ challenges' = challenges /\ job' = job /\ answer' = answer
      /\ \A q \in Calls \ {r} : pc'[q] = pc[q]
  <2>1. Answerable(r, c) /\ Goto(r, "sign")
        BY DEF CheckChallenge, Refuse, Finish, CoreInv, TypeOK
  <2>2. ~Refuse(r)
        BY DEF Refuse, Finish, CoreInv, TypeOK
  <2>3. QED
        BY <2>1, <2>2 DEF CheckChallenge, At, Answerable, Goto, tables, CoreInv, TypeOK
<1>2. \A q \in Calls \ {r}, d \in Challenges : Judging(q, d)' <=> Judging(q, d)
      BY <1>1 DEF Judging, At
<1>3. \A d \in Challenges : Judging(r, d)' => d = c
      BY <1>1 DEF Judging
<1>4. \A d \in Challenges : ~Judging(r, d)
      BY <1>1 DEF Judging, At
<1>5. (\E q \in Calls : Judging(q, c)) => c \in overlapped'
      BY <1>1
<1>6. overlapped \subseteq overlapped'
      BY <1>1
<1>7. OverlapInv'
  <2>1. SUFFICES ASSUME NEW q \in Calls, NEW d \in Challenges, Judging(q, d)',
                        d \notin overlapped'
                 PROVE  /\ ~challenges'[d].consumed
                        /\ \A p \in Calls \ {q} : ~Judging(p, d)'
        BY DEF OverlapInv
  <2>2. CASE q = r
    <3>1. d = c
          BY <1>3, <2>1, <2>2
    <3>2. \A p \in Calls : ~Judging(p, d)
          BY <1>5, <2>1, <3>1
    <3>3. QED  BY <1>1, <1>2, <2>1, <2>2, <3>1, <3>2
  <2>3. CASE q # r
    <3>1. Judging(q, d)
          BY <1>2, <2>1, <2>3
    <3>2. d # c
          BY <1>5, <2>1, <3>1
    <3>3. ~challenges[d].consumed /\ \A p \in Calls \ {q} : ~Judging(p, d)
          BY <1>6, <2>1, <3>1 DEF OverlapInv
    <3>4. QED  BY <1>1, <1>2, <1>3, <3>2, <3>3
  <2>4. QED  BY <2>2, <2>3
<1>8. TwiceOnlyByOverlap'
      BY <1>1, <1>6 DEF TwiceOnlyByOverlap, Verified
<1>9. QED  BY <1>7, <1>8

\* A call that is verified by a challenge which another call has used up, or
\* which another call will yet judge used, overlaps with that call.
LEMMA CompareOverlap ==
  ASSUME CoreInv, OverlapInv, TwiceOnlyByOverlap, NEW r \in Calls, CompareSignature(r)
  PROVE  OverlapInv' /\ TwiceOnlyByOverlap'
<1> DEFINE c == job[r].challenge
<1>1. /\ job[r].kind = "verify" /\ pc[r] = "sign" /\ pc'[r] = "reply"
      /\ challenges' = [challenges EXCEPT ![c].consumed = TRUE]
      /\ job' = job /\ overlapped' = overlapped
      /\ \A q \in Calls \ {r} : pc'[q] = pc[q] /\ answer'[q] = answer[q]
      BY DEF CompareSignature, At, Consume, Commit, rest, CoreInv, TypeOK
<1>2. c \in Challenges
      BY <1>1, JobFields DEF CoreInv, TypeOK
<1>3. Judging(r, c)
      BY <1>1 DEF Judging, At
<1>4. \A q \in Calls, d \in Challenges : Judging(q, d)' <=> Judging(q, d) /\ q # r
      BY <1>1 DEF Judging, At
<1>5. \A d \in Challenges \ {c} : challenges'[d] = challenges[d]
      BY <1>1 DEF CoreInv, TypeOK
<1>6. OverlapInv'
  <2>1. SUFFICES ASSUME NEW q \in Calls, NEW d \in Challenges, Judging(q, d)',
                        d \notin overlapped
                 PROVE  /\ ~challenges'[d].consumed
                        /\ \A p \in Calls \ {q} : ~Judging(p, d)'
        BY <1>1 DEF OverlapInv
  <2>2. Judging(q, d) /\ q # r
        BY <1>4, <2>1
  <2>3. ~challenges[d].consumed /\ \A p \in Calls \ {q} : ~Judging(p, d)
        BY <2>1, <2>2 DEF OverlapInv
  <2>4. d # c
        BY <1>3, <2>2, <2>3
  <2>5. QED  BY <1>4, <1>5, <2>3, <2>4
<1>7. c \notin overlapped => ~Used(c)
      BY <1>2, <1>3 DEF OverlapInv, CoreInv, ConsumedInv
<1>8. TwiceOnlyByOverlap'
  <2>1. ASSUME NEW q \in Calls, q # r, job[q].kind = "verify", job[q].challenge = c,
               answer'[q] = "verified"
        PROVE  c \in overlapped
    <3>1. answer[q] = "verified"
          BY <1>1, <2>1
    <3>2. QED  BY <1>7, <2>1, <3>1 DEF Used
  <2>2. QED  BY <1>1, <2>1 DEF TwiceOnlyByOverlap, Verified
<1>9. QED  BY <1>6, <1>8

\* The inductive invariant of device keys and challenges (device.py:20-112).
THEOREM Inductive == Spec => []IInv
<1>1. Init => OverlapInv /\ TwiceOnlyByOverlap
      BY DEF Init, OverlapInv, TwiceOnlyByOverlap, Judging, At, Verified
<1>2. CoreInv /\ OverlapInv /\ TwiceOnlyByOverlap /\ [Next]_vars
        => OverlapInv' /\ TwiceOnlyByOverlap'
  <2>1. SUFFICES ASSUME CoreInv, OverlapInv, TwiceOnlyByOverlap, [Next]_vars
                 PROVE  OverlapInv' /\ TwiceOnlyByOverlap'
        OBVIOUS
  <2>2. CASE \E r \in Calls : CompareSignature(r)
        BY <2>1, <2>2, CompareOverlap
  <2>3. CASE \E r \in Calls : CheckChallenge(r) /\ pc'[r] = "sign"
        BY <2>1, <2>3, CheckOverlap
  <2>4. ASSUME NEW r \in Calls,
               \/ Begin(r) \/ Fail(r) \/ Reply(r) \/ LookUpDevice(r) \/ RegisterDevice(r)
               \/ LoseDeviceRace(r) \/ RefuseDevice(r) \/ RefuseStranger(r)
               \/ CheckChallenge(r) /\ pc'[r] # "sign"
        PROVE  /\ job' = job /\ overlapped' = overlapped /\ challenges' = challenges
               /\ \A q \in Calls :
                    /\ pc'[q] = "sign" /\ job[q].kind = "verify" => pc[q] = "sign"
                    /\ answer'[q] = "verified" => answer[q] = "verified"
        BY <2>1, <2>4
           DEF Begin, Fail, Reply, Tell, LookUpDevice, RegisterDevice, LoseDeviceRace, RefuseDevice,
               RefuseStranger, CheckChallenge, Refuse, Finish, Commit, Goto, At, tables, rest,
               CoreInv, TypeOK
  <2>5. ASSUME NEW r \in Calls, NEW d \in Challenges, IssueChallenge(r, d)
        PROVE  /\ job' = job /\ overlapped' = overlapped
               /\ \A c \in Challenges :
                    challenges'[c].consumed => challenges[c].consumed \/ ~Issued(c)
               /\ \A q \in Calls :
                    /\ pc'[q] = "sign" => pc[q] = "sign"
                    /\ answer'[q] = "verified" => answer[q] = "verified"
        BY <2>1, <2>5 DEF IssueChallenge, Commit, rest, CoreInv, TypeOK
  <2>6. CASE Tick \/ UNCHANGED vars
        BY <2>1, <2>6, QuietOverlap DEF Tick, vars, tables
  <2>7. QED
        BY <2>1, <2>2, <2>3, <2>4, <2>5, <2>6, QuietOverlap DEF Next, Handle, Finished
<1>3. QED  BY <1>1, <1>2, CoreAlways, PTL DEF Spec, IInv

-----------------------------------------------------------------------------
(* What follows from it.                                                    *)

\* Only the user a challenge was issued to is verified by it (device.py:95-112).
THEOREM Issuing == Spec => []IssuedToVerifier
<1>1. IInv => IssuedToVerifier
      BY DEF IInv, CoreInv
<1>2. QED  BY <1>1, Inductive, PTL

\* A challenge verifies no call that begins after it expired or was used
\* (device.py:88-91, 110-111).
THEOREM Over == Spec => []OverIsOver
<1>1. IInv => OverIsOver
      BY DEF IInv, CoreInv
<1>2. QED  BY <1>1, Inductive, PTL

\* Only its owner uses a challenge up (device.py:86-111).
THEOREM Consuming == Spec => []OnlyOwnerConsumes
<1>1. IInv => OnlyOwnerConsumes
      BY DEF IInv, CoreInv
<1>2. QED  BY <1>1, Inductive, PTL

\* Two calls are verified by one challenge only if both had found it unused
\* before either used it up: the promise of device_auth_service.py:17-19 fails
\* in no other way (device.py:88-93, 110-111).
THEOREM Twice == Spec => []TwiceOnlyByOverlap
<1>1. IInv => TwiceOnlyByOverlap
      BY DEF IInv
<1>2. QED  BY <1>1, Inductive, PTL

\* So it holds as long as no two calls judge a challenge at once.
THEOREM OnceIfAlone == Spec /\ [](overlapped = {}) => []VerifiedOnce
<1>1. IInv /\ overlapped = {} => VerifiedOnce
      BY DEF IInv, CoreInv, StepInv, TwiceOnlyByOverlap, VerifiedOnce, Verified
<1>2. QED  BY <1>1, Inductive, PTL

=============================================================================
