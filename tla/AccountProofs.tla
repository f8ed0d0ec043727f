--------------------------- MODULE AccountProofs ---------------------------
(***************************************************************************)
(* Proofs about the row of a user.  Every step either leaves the users     *)
(* table alone or is one Commit, so the work is in lemma CommitInv: what   *)
(* the merged row must satisfy for the invariant to survive a commit.      *)
(***************************************************************************)
EXTENDS Account, TLAPS

\* What a job carries, by kind.
LEMMA JobFields ==
  ASSUME NEW j \in Jobs
  PROVE  /\ j.user \in Users
         /\ j.kind \in PinKinds => j.arg \in Pins
         /\ j.kind = "egov" => j.arg \in NationalIds
<1>1. CASE j \in [kind : PinKinds, user : Users, arg : Pins]
      BY <1>1 DEF PinKinds
<1>2. CASE j \in [kind : {"egov"}, user : Users, arg : NationalIds]
      BY <1>2 DEF PinKinds
<1>3. CASE j \in [kind : {"phone"} \cup Factors, user : Users]
      BY <1>3 DEF PinKinds, Factors
<1>4. QED  BY <1>1, <1>2, <1>3, JobAssumption

\* An idle session still has some job and some row.
LEMMA AnyJobType == AnyJob \in Jobs
  BY JobAssumption DEF AnyJob

LEMMA NewRowType == NewRow \in Row
  BY DEF NewRow, Row

\* The UPDATE column by column.
LEMMA MergeFields ==
  ASSUME NEW old, NEW read, NEW new, NEW always, NEW c \in Columns
  PROVE  Merge(old, read, new, always)[c] =
           IF c \in always \/ new[c] # read[c] THEN new[c] ELSE old[c]
  BY DEF Merge

\* Merging rows yields a row.
LEMMA MergeType ==
  ASSUME NEW old \in Row, NEW read \in Row, NEW new \in Row, NEW always
  PROVE  Merge(old, read, new, always) \in Row
  BY DEF Merge, Row, Columns

-----------------------------------------------------------------------------
(* The inductive invariant.                                                 *)

\* It holds of empty accounts and idle sessions.
LEMMA InitInv == Init => IInv
<1>1. SUFFICES ASSUME Init PROVE IInv
      OBVIOUS
<1>2. TypeOK
      BY <1>1, AnyJobType, NewRowType DEF Init, TypeOK, Steps
<1>3. \A s \in Sessions : User(s) \in Users
      BY <1>2, JobFields DEF TypeOK, User
<1>4. CounterInv
      BY <1>1, <1>3 DEF Init, CounterInv, NewRow
<1>5. ReadLocksInv /\ GuessInv /\ CooldownInv /\ StepInv /\ LocksHaveCause
      BY <1>1 DEF Init, ReadLocksInv, GuessInv, CooldownInv, StepInv,
                  LocksHaveCause, NewRow
<1>6. ReadFlagsInv /\ IdentitiesAreOwn /\ EnrolledHasTemplate
      BY <1>1, <1>3 DEF Init, ReadFlagsInv, IdentitiesAreOwn, EnrolledHasTemplate,
                        NewRow, Factors
<1>7. QED  BY <1>2, <1>4, <1>5, <1>6 DEF IInv

\* A session that ends without a commit keeps it.
LEMMA LeaveInv ==
  ASSUME IInv, NEW s \in Sessions, Leave(s)
  PROVE  IInv'
<1>1. /\ row' = row /\ templates' = templates /\ now' = now /\ wrong' = wrong
      /\ pc' = [pc EXCEPT ![s] = "idle"]
      /\ seen' = [seen EXCEPT ![s] = NewRow]
      /\ job' = [job EXCEPT ![s] = AnyJob]
      BY DEF Leave, Close
<1>2. TypeOK'
      BY <1>1, NewRowType, AnyJobType DEF IInv, TypeOK, Steps
<1>3. \A t \in Sessions : User(t)' \in Users
      BY <1>2, JobFields DEF TypeOK, User
<1>4. /\ seen'[s] = NewRow /\ pc'[s] = "idle"
      /\ \A t \in Sessions \ {s} : /\ seen'[t] = seen[t] /\ pc'[t] = pc[t]
                                   /\ User(t)' = User(t) /\ Kind(t)' = Kind(t)
      BY <1>1 DEF IInv, TypeOK, User, Kind
<1>5. CounterInv'
      BY <1>1, <1>2, <1>3, <1>4 DEF IInv, CounterInv, TypeOK, NewRow
<1>6. ReadLocksInv' /\ GuessInv' /\ CooldownInv' /\ StepInv'
      BY <1>1, <1>4 DEF IInv, ReadLocksInv, GuessInv, CooldownInv, StepInv,
                        HasTemplate, InForce, NewRow
<1>7. ReadFlagsInv'
      BY <1>1, <1>4 DEF IInv, ReadFlagsInv, NewRow, Factors
<1>8. LocksHaveCause' /\ IdentitiesAreOwn' /\ EnrolledHasTemplate'
      BY <1>1 DEF IInv, LocksHaveCause, IdentitiesAreOwn, EnrolledHasTemplate
<1>9. QED  BY <1>2, <1>5, <1>6, <1>7, <1>8 DEF IInv

\* A handler that moves on keeps it.
LEMMA GotoInv ==
  ASSUME IInv, NEW s \in Sessions, NEW step \in Steps, Goto(s, step),
         step = "compare" => Kind(s) = "verify_pin" /\ ~InForce(seen[s].until),
         step \in {"insert", "update"} => Kind(s) \in Factors,
         step = "update" => HasTemplate(s)
  PROVE  IInv'
<1>1. /\ row' = row /\ templates' = templates /\ now' = now /\ wrong' = wrong
      /\ pc' = [pc EXCEPT ![s] = step] /\ seen' = seen /\ job' = job
      BY DEF Goto
<1>2. TypeOK'
      BY <1>1 DEF IInv, TypeOK
<1>3. /\ pc'[s] = step
      /\ \A t \in Sessions \ {s} : pc'[t] = pc[t]
      BY <1>1 DEF IInv, TypeOK
<1>4. GuessInv' /\ StepInv'
      BY <1>1, <1>3 DEF IInv, GuessInv, StepInv, HasTemplate, InForce, User, Kind
<1>5. CounterInv' /\ ReadLocksInv' /\ CooldownInv' /\ ReadFlagsInv'
      BY <1>1 DEF IInv, CounterInv, ReadLocksInv, CooldownInv, ReadFlagsInv, User
<1>6. LocksHaveCause' /\ IdentitiesAreOwn' /\ EnrolledHasTemplate'
      BY <1>1 DEF IInv, LocksHaveCause, IdentitiesAreOwn, EnrolledHasTemplate
<1>7. QED  BY <1>2, <1>4, <1>5, <1>6 DEF IInv

\* What is read is true when it is read.
LEMMA LoadInv ==
  ASSUME IInv, NEW s \in Sessions, NEW j \in Jobs, Load(s, j)
  PROVE  IInv'
<1>1. /\ row' = row /\ templates' = templates /\ now' = now /\ wrong' = wrong
      /\ pc' = [pc EXCEPT ![s] = "loaded"]
      /\ seen' = [seen EXCEPT ![s] = row[j.user]]
      /\ job' = [job EXCEPT ![s] = j]
      BY DEF Load
<1>2. j.user \in Users
      BY JobFields
<1>3. TypeOK'
      BY <1>1, <1>2 DEF IInv, TypeOK, Steps
<1>4. /\ seen'[s] = row[j.user] /\ pc'[s] = "loaded" /\ User(s)' = j.user
      /\ \A t \in Sessions \ {s} : /\ seen'[t] = seen[t] /\ pc'[t] = pc[t]
                                   /\ User(t)' = User(t) /\ Kind(t)' = Kind(t)
      BY <1>1 DEF IInv, TypeOK, User, Kind
<1>5. CounterInv'
      BY <1>1, <1>2, <1>4 DEF IInv, CounterInv
<1>6. ReadLocksInv'
      BY <1>1, <1>2, <1>4 DEF IInv, ReadLocksInv, LocksHaveCause
<1>7. GuessInv' /\ CooldownInv' /\ StepInv'
      BY <1>1, <1>4 DEF IInv, GuessInv, CooldownInv, StepInv, HasTemplate, InForce
<1>8. ReadFlagsInv'
      BY <1>1, <1>2, <1>4 DEF IInv, ReadFlagsInv, IdentitiesAreOwn
<1>9. LocksHaveCause' /\ IdentitiesAreOwn' /\ EnrolledHasTemplate'
      BY <1>1 DEF IInv, LocksHaveCause, IdentitiesAreOwn, EnrolledHasTemplate
<1>10. QED  BY <1>3, <1>5, <1>6, <1>7, <1>8, <1>9 DEF IInv

\* Time only ends locks.
LEMMA TickInv ==
  ASSUME IInv, Tick
  PROVE  IInv'
<1>1. /\ row' = row /\ templates' = templates /\ wrong' = wrong
      /\ pc' = pc /\ seen' = seen /\ job' = job /\ now' = now + 1
      BY DEF Tick
<1>2. TypeOK'
      BY <1>1 DEF IInv, TypeOK
<1>3. GuessInv'
  <2>1. SUFFICES ASSUME NEW s \in Sessions, pc[s] = "compare",
                        seen[s].until # NoLock
                 PROVE  ~(seen[s].until > now + 1)
        BY <1>1 DEF GuessInv, InForce
  <2>2. seen[s].until \in Nat /\ now \in Nat /\ ~(seen[s].until > now)
        BY <2>1 DEF IInv, TypeOK, Row, GuessInv, InForce
  <2>3. QED  BY <2>2
<1>4. CooldownInv'
  <2>1. SUFFICES ASSUME NEW u \in Users, row[u].until # NoLock
                 PROVE  row[u].until <= (now + 1) + Lockout
        BY <1>1 DEF CooldownInv
  <2>2. row[u].until \in Nat /\ now \in Nat /\ row[u].until <= now + Lockout
        BY <2>1 DEF IInv, TypeOK, Row, CooldownInv
  <2>3. QED  BY <2>2, ParameterAssumption
<1>5. CounterInv' /\ ReadLocksInv' /\ StepInv' /\ ReadFlagsInv'
      BY <1>1 DEF IInv, CounterInv, ReadLocksInv, StepInv, HasTemplate, ReadFlagsInv,
                  User, Kind
<1>6. LocksHaveCause' /\ IdentitiesAreOwn' /\ EnrolledHasTemplate'
      BY <1>1 DEF IInv, LocksHaveCause, IdentitiesAreOwn, EnrolledHasTemplate
<1>7. QED  BY <1>2, <1>3, <1>4, <1>5, <1>6 DEF IInv

-----------------------------------------------------------------------------
(* Commits.                                                                 *)

Merged(s, new, always) == Merge(row[User(s)], seen[s], new, always)

\* A commit keeps it when the merged row does: its counter is covered by wrong
\* PINs, its lock has a cause and ends in time, its identity is its own, and
\* its flags go with the templates and are never taken back.
LEMMA CommitInv ==
  ASSUME IInv, NEW s \in Sessions, NEW new \in Row, NEW always,
         Commit(s, new, always),
         Merged(s, new, always).failed <= wrong'[User(s)],
         Merged(s, new, always).until # NoLock =>
           /\ wrong'[User(s)] >= MaxAttempts
           /\ Merged(s, new, always).until <= now + Lockout,
         Merged(s, new, always).egov <=> Merged(s, new, always).id # NoId,
         row[User(s)].egov => Merged(s, new, always).egov,
         \A v \in Users \ {User(s)} :
           Merged(s, new, always).id # NoId => row[v].id # Merged(s, new, always).id,
         \A f \in Factors :
           /\ templates'[f][User(s)] = IF Merged(s, new, always)[f] THEN 1 ELSE 0
           /\ row[User(s)][f] => Merged(s, new, always)[f],
         templates' \in [Factors -> [Users -> Nat]],
         \A f \in Factors : \A v \in Users :
           /\ templates[f][v] > 0 => templates'[f][v] > 0
           /\ v # User(s) => templates'[f][v] = templates[f][v],
         wrong' \in [Users -> Nat],
         \A v \in Users : wrong'[v] >= wrong[v]
  PROVE  IInv'
<1> DEFINE u == User(s)
           m == Merged(s, new, always)
<1>1. u \in Users
      BY JobFields DEF IInv, TypeOK, User
<1>2. m \in Row
      BY <1>1, MergeType DEF IInv, TypeOK, Merged
<1>3. /\ row' = [row EXCEPT ![u] = m]
      /\ pc' = [pc EXCEPT ![s] = "idle"]
      /\ seen' = [seen EXCEPT ![s] = NewRow]
      /\ job' = [job EXCEPT ![s] = AnyJob]
      /\ now' = now
      BY DEF Commit, Close, Merged
<1> HIDE DEF m
<1>4. TypeOK'
      BY <1>1, <1>2, <1>3, NewRowType, AnyJobType DEF IInv, TypeOK, Steps
<1>5. \A t \in Sessions : User(t)' \in Users /\ User(t) \in Users
      BY <1>4, JobFields DEF IInv, TypeOK, User
<1>6. /\ row'[u] = m
      /\ \A v \in Users \ {u} : row'[v] = row[v]
      /\ seen'[s] = NewRow /\ pc'[s] = "idle"
      /\ \A t \in Sessions \ {s} : /\ seen'[t] = seen[t] /\ pc'[t] = pc[t]
                                   /\ User(t)' = User(t) /\ Kind(t)' = Kind(t)
      BY <1>1, <1>3 DEF IInv, TypeOK, User, Kind
<1>7. CounterInv'
  <2>1. \A v \in Users : row'[v].failed <= wrong'[v]
    <3>1. SUFFICES ASSUME NEW v \in Users \ {u} PROVE row[v].failed <= wrong'[v]
          BY <1>1, <1>6 DEF m
    <3>2. /\ row[v].failed \in Nat /\ wrong[v] \in Nat /\ wrong'[v] \in Nat
          /\ row[v].failed <= wrong[v] /\ wrong'[v] >= wrong[v]
          BY <3>1 DEF IInv, TypeOK, Row, CounterInv
    <3>3. QED  BY <3>2
  <2>2. \A t \in Sessions : seen'[t].failed <= wrong'[User(t)']
    <3>2. seen'[s].failed <= wrong'[User(s)']
          BY <1>5, <1>6 DEF NewRow
    <3>3. SUFFICES ASSUME NEW t \in Sessions \ {s}
                   PROVE  seen[t].failed <= wrong'[User(t)]
          BY <1>6, <3>2
    <3>4. /\ seen[t].failed \in Nat /\ wrong[User(t)] \in Nat
          /\ wrong'[User(t)] \in Nat
          /\ seen[t].failed <= wrong[User(t)] /\ wrong'[User(t)] >= wrong[User(t)]
          BY <1>5 DEF IInv, TypeOK, Row, CounterInv
    <3>5. QED  BY <3>4
  <2>3. QED  BY <2>1, <2>2 DEF CounterInv
<1>8. ReadLocksInv'
  <2>1. SUFFICES ASSUME NEW t \in Sessions \ {s}, seen[t].until # NoLock
                 PROVE  wrong'[User(t)] >= MaxAttempts
        BY <1>6 DEF ReadLocksInv, NewRow
  <2>2. /\ wrong[User(t)] \in Nat /\ wrong'[User(t)] \in Nat
        /\ wrong[User(t)] >= MaxAttempts /\ wrong'[User(t)] >= wrong[User(t)]
        BY <1>5, <2>1 DEF IInv, TypeOK, ReadLocksInv
  <2>3. QED  BY <2>2, ParameterAssumption
<1>9. LocksHaveCause'
  <2>1. SUFFICES ASSUME NEW v \in Users \ {u}, row[v].until # NoLock
                 PROVE  wrong'[v] >= MaxAttempts
        BY <1>6 DEF LocksHaveCause, m
  <2>2. /\ wrong[v] \in Nat /\ wrong'[v] \in Nat
        /\ wrong[v] >= MaxAttempts /\ wrong'[v] >= wrong[v]
        BY <2>1 DEF IInv, TypeOK, LocksHaveCause
  <2>3. QED  BY <2>2, ParameterAssumption
<1>10. GuessInv' /\ StepInv'
  <2>1. GuessInv'
        BY <1>3, <1>6 DEF IInv, GuessInv, InForce
  <2>2. StepInv'
        BY <1>5, <1>6 DEF IInv, StepInv, HasTemplate
  <2>3. QED  BY <2>1, <2>2
<1>11. CooldownInv'
       BY <1>3, <1>6 DEF IInv, CooldownInv, m
<1>12. ReadFlagsInv'
  <2>1. /\ row[u].egov => row'[u].egov
        /\ \A f \in Factors : row[u][f] => row'[u][f]
        BY <1>6 DEF m
  <2>2. \A v \in Users : /\ row[v].egov => row'[v].egov
                         /\ \A f \in Factors : row[v][f] => row'[v][f]
        BY <1>6, <2>1
  <2>3. \A t \in Sessions \ {s} :
          /\ seen'[t].egov <=> seen'[t].id # NoId
          /\ seen'[t].egov => row'[User(t)'].egov
          /\ \A f \in Factors : seen'[t][f] => row'[User(t)'][f]
        BY <1>5, <1>6, <2>2 DEF IInv, ReadFlagsInv
  <2>4. /\ ~seen'[s].egov /\ seen'[s].id = NoId
        /\ \A f \in Factors : ~seen'[s][f]
        BY <1>6 DEF NewRow, Factors
  <2>5. QED  BY <2>3, <2>4 DEF ReadFlagsInv
<1>13. IdentitiesAreOwn'
  <2>1. \A v \in Users : row'[v].egov <=> row'[v].id # NoId
        BY <1>6 DEF IInv, IdentitiesAreOwn, m
  <2>2. \A v, w \in Users : v # w /\ row'[v].id # NoId => row'[w].id # row'[v].id
        BY <1>6 DEF IInv, IdentitiesAreOwn, m
  <2>3. QED  BY <2>1, <2>2 DEF IdentitiesAreOwn
<1>14. EnrolledHasTemplate'
       BY <1>6 DEF IInv, EnrolledHasTemplate, m
<1>15. QED  BY <1>4, <1>7, <1>8, <1>9, <1>10, <1>11, <1>12, <1>13, <1>14 DEF IInv

\* A column the handler did not change keeps its current value.
LEMMA Untouched ==
  ASSUME NEW s \in Sessions, NEW new, NEW always, NEW c \in Columns,
         c \notin always, new[c] = seen[s][c]
  PROVE  Merged(s, new, always)[c] = row[User(s)][c]
  BY MergeFields DEF Merged

\* A commit of PIN or phone columns only.
LEMMA PlainCommit ==
  ASSUME IInv, NEW s \in Sessions, NEW new \in Row, NEW always \in SUBSET {"pin"},
         Commit(s, new, always),
         new.egov = seen[s].egov, new.id = seen[s].id,
         new.tapsign = seen[s].tapsign, new.face = seen[s].face,
         new.failed <= wrong'[User(s)],
         new.until # NoLock => wrong'[User(s)] >= MaxAttempts,
         new.until # seen[s].until /\ new.until # NoLock => new.until <= now + Lockout,
         templates' = templates,
         wrong' \in [Users -> Nat],
         \A v \in Users : wrong'[v] >= wrong[v]
  PROVE  IInv'
<1> DEFINE u == User(s)
           m == Merged(s, new, always)
<1>1. u \in Users
      BY JobFields DEF IInv, TypeOK, User
<1>2. m.egov = row[u].egov /\ m.id = row[u].id
      BY Untouched DEF Columns
<1>3. m.tapsign = row[u].tapsign /\ m.face = row[u].face
      BY Untouched DEF Columns
<1>4. \A f \in Factors : m[f] = row[u][f]
      BY <1>3 DEF Factors
<1>5. /\ m.failed = IF new.failed # seen[s].failed THEN new.failed ELSE row[u].failed
      /\ m.until = IF new.until # seen[s].until THEN new.until ELSE row[u].until
      BY MergeFields DEF Columns, Merged
<1> HIDE DEF m
<1>6. /\ row[u].failed \in Nat /\ wrong[u] \in Nat /\ wrong'[u] \in Nat
      /\ row[u].failed <= wrong[u] /\ wrong'[u] >= wrong[u]
      BY <1>1 DEF IInv, TypeOK, Row, CounterInv
<1>7. m.failed <= wrong'[u]
      BY <1>5, <1>6
<1>8. row[u].until # NoLock => wrong'[u] >= MaxAttempts /\ row[u].until <= now + Lockout
      BY <1>1, <1>6, ParameterAssumption DEF IInv, LocksHaveCause, CooldownInv
<1>9. m.until # NoLock => wrong'[u] >= MaxAttempts /\ m.until <= now + Lockout
      BY <1>5, <1>8
<1>10. /\ m.egov <=> m.id # NoId
       /\ \A v \in Users \ {u} : m.id # NoId => row[v].id # m.id
       BY <1>1, <1>2 DEF IInv, IdentitiesAreOwn
<1>11. \A f \in Factors : templates[f][u] = IF m[f] THEN 1 ELSE 0
       BY <1>1, <1>4 DEF IInv, EnrolledHasTemplate
<1>12. templates \in [Factors -> [Users -> Nat]]
       BY DEF IInv, TypeOK
<1>13. QED  BY <1>2, <1>4, <1>7, <1>9, <1>10, <1>11, <1>12, CommitInv DEF m

\* A set PIN comes with no lock and no failed attempts.
LEMMA SetPinInv ==
  ASSUME IInv, NEW s \in Sessions, SetPin(s)
  PROVE  IInv'
<1> DEFINE new == [seen[s] EXCEPT !.pin = job[s].arg, !.failed = 0, !.until = NoLock]
<1>1. seen[s] \in Row /\ job[s].arg \in Pins /\ User(s) \in Users
      BY JobFields DEF IInv, TypeOK, SetPin, Kind, User, PinKinds
<1>2. new \in Row
      BY <1>1 DEF Row
<1>3. /\ new.egov = seen[s].egov /\ new.id = seen[s].id
      /\ new.tapsign = seen[s].tapsign /\ new.face = seen[s].face
      /\ new.failed = 0 /\ new.until = NoLock
      BY <1>1 DEF Row
<1>4. wrong' = wrong /\ templates' = templates /\ Commit(s, new, {"pin"})
      BY DEF SetPin
<1>5. wrong \in [Users -> Nat]
      BY DEF IInv, TypeOK
<1> HIDE DEF new
<1>6. QED  BY <1>1, <1>2, <1>3, <1>4, <1>5, PlainCommit

\* So does a right one.
LEMMA RightPinInv ==
  ASSUME IInv, NEW s \in Sessions, RightPin(s)
  PROVE  IInv'
<1> DEFINE new == [seen[s] EXCEPT !.failed = 0, !.until = NoLock]
<1>1. seen[s] \in Row /\ User(s) \in Users
      BY JobFields DEF IInv, TypeOK, User
<1>2. new \in Row
      BY <1>1 DEF Row
<1>3. /\ new.egov = seen[s].egov /\ new.id = seen[s].id
      /\ new.tapsign = seen[s].tapsign /\ new.face = seen[s].face
      /\ new.failed = 0 /\ new.until = NoLock
      BY <1>1 DEF Row
<1>4. wrong' = wrong /\ templates' = templates /\ Commit(s, new, {})
      BY DEF RightPin
<1>5. wrong \in [Users -> Nat]
      BY DEF IInv, TypeOK
<1> HIDE DEF new
<1>6. QED  BY <1>1, <1>2, <1>3, <1>4, <1>5, PlainCommit

\* A wrong PIN counts at most the wrong PINs there were, itself included.
LEMMA WrongPinInv ==
  ASSUME IInv, NEW s \in Sessions, WrongPin(s)
  PROVE  IInv'
<1> DEFINE failed == seen[s].failed + 1
           until  == LockedUntil(failed, seen[s].until)
           new    == [seen[s] EXCEPT !.failed = failed, !.until = until]
<1>1. seen[s] \in Row /\ User(s) \in Users /\ now \in Nat
      BY JobFields DEF IInv, TypeOK, User
<1>2. failed \in Nat /\ seen[s].failed \in Nat
      BY <1>1 DEF Row
<1>3. /\ until \in Nat \cup {NoLock}
      /\ until = IF failed >= MaxAttempts THEN now + Lockout ELSE seen[s].until
      BY <1>1, ParameterAssumption DEF Row, LockedUntil
<1>4. /\ templates' = templates /\ Commit(s, new, {})
      /\ wrong' = [wrong EXCEPT ![User(s)] = @ + 1]
      BY DEF WrongPin
<1> HIDE DEF failed, until
<1>5. new \in Row
      BY <1>1, <1>2, <1>3 DEF Row
<1>6. /\ new.egov = seen[s].egov /\ new.id = seen[s].id
      /\ new.tapsign = seen[s].tapsign /\ new.face = seen[s].face
      /\ new.failed = failed /\ new.until = until
      BY <1>1 DEF Row
<1>7. /\ wrong \in [Users -> Nat] /\ wrong' \in [Users -> Nat]
      /\ wrong'[User(s)] = wrong[User(s)] + 1
      /\ \A v \in Users : wrong'[v] >= wrong[v]
      BY <1>1, <1>4 DEF IInv, TypeOK
<1>8. seen[s].failed <= wrong[User(s)] /\ wrong[User(s)] \in Nat
      BY <1>1, <1>7 DEF IInv, CounterInv
<1>9. failed <= wrong'[User(s)]
      BY <1>2, <1>7, <1>8 DEF failed
<1>10. until # NoLock => wrong'[User(s)] >= MaxAttempts
  <2>1. CASE failed >= MaxAttempts
        BY <2>1, <1>2, <1>7, <1>8, <1>9, ParameterAssumption
  <2>2. CASE ~(failed >= MaxAttempts)
    <3>1. until # NoLock => wrong[User(s)] >= MaxAttempts
          BY <2>2, <1>3 DEF IInv, ReadLocksInv
    <3>2. QED  BY <3>1, <1>7, <1>8, ParameterAssumption
  <2>3. QED  BY <2>1, <2>2
<1>11. until # seen[s].until /\ until # NoLock => until <= now + Lockout
       BY <1>1, <1>3, ParameterAssumption
<1> HIDE DEF new
<1>12. QED  BY <1>4, <1>5, <1>6, <1>7, <1>9, <1>10, <1>11, PlainCommit

\* The telco's answer is no business of the lock's.
LEMMA TelcoInv ==
  ASSUME IInv, NEW s \in Sessions, NEW a \in TelcoResults, TelcoAnswers(s, a)
  PROVE  IInv'
<1> DEFINE new == [seen[s] EXCEPT !.phone = a.verified, !.swapped = @ \/ a.simSwap]
<1>1. seen[s] \in Row /\ User(s) \in Users
      BY JobFields DEF IInv, TypeOK, User
<1>2. new \in Row
      BY <1>1 DEF Row, TelcoResults
<1>3. /\ new.egov = seen[s].egov /\ new.id = seen[s].id
      /\ new.tapsign = seen[s].tapsign /\ new.face = seen[s].face
      /\ new.failed = seen[s].failed /\ new.until = seen[s].until
      BY <1>1 DEF Row
<1>4. wrong' = wrong /\ templates' = templates /\ Commit(s, new, {})
      BY DEF TelcoAnswers
<1>5. wrong \in [Users -> Nat]
      BY DEF IInv, TypeOK
<1>6. /\ seen[s].failed <= wrong[User(s)]
      /\ seen[s].until # NoLock => wrong[User(s)] >= MaxAttempts
      BY DEF IInv, CounterInv, ReadLocksInv
<1> HIDE DEF new
<1>7. QED  BY <1>1, <1>2, <1>3, <1>4, <1>5, <1>6, PlainCommit

\* The registry's answer makes the user verified under an id nobody else has: the
\* one in the payload, or a newer one that was committed meanwhile.
LEMMA EgovConfirmsInv ==
  ASSUME IInv, NEW s \in Sessions, EgovConfirms(s)
  PROVE  IInv'
<1> DEFINE u   == User(s)
           id  == job[s].arg
           new == [seen[s] EXCEPT !.egov = TRUE, !.id = id]
           m   == Merged(s, new, {})
<1>1. /\ seen[s] \in Row /\ u \in Users /\ row[u] \in Row
      /\ id \in NationalIds /\ id # NoId
      BY JobFields, ParameterAssumption
         DEF IInv, TypeOK, User, EgovConfirms, Kind
<1>2. /\ new \in Row /\ new.egov = TRUE /\ new.id = id
      /\ new.failed = seen[s].failed /\ new.until = seen[s].until
      /\ new.tapsign = seen[s].tapsign /\ new.face = seen[s].face
      BY <1>1 DEF Row
<1>3. /\ Commit(s, new, {}) /\ templates' = templates /\ wrong' = wrong
      /\ ~IdTaken(s)
      BY DEF EgovConfirms
<1> HIDE DEF new
<1>4. /\ m.egov = IF new.egov # seen[s].egov THEN new.egov ELSE row[u].egov
      /\ m.id = IF new.id # seen[s].id THEN new.id ELSE row[u].id
      BY MergeFields DEF Columns, Merged
<1>5. m.failed = row[u].failed /\ m.until = row[u].until
      BY <1>2, Untouched DEF Columns
<1>6. m.tapsign = row[u].tapsign /\ m.face = row[u].face
      BY <1>2, Untouched DEF Columns
<1> HIDE DEF m
<1>7. /\ seen[s].egov <=> seen[s].id # NoId
      /\ seen[s].egov => row[u].egov
      /\ row[u].egov <=> row[u].id # NoId
      BY <1>1 DEF IInv, ReadFlagsInv, IdentitiesAreOwn
<1>8. seen[s].egov \in BOOLEAN /\ row[u].egov \in BOOLEAN
      BY <1>1 DEF Row
<1>9. m.egov = TRUE /\ m.id # NoId
      BY <1>1, <1>2, <1>4, <1>7, <1>8
<1>10. \A v \in Users \ {u} : row[v].id # m.id
  <2>1. CASE id # seen[s].id
        BY <2>1, <1>2, <1>3, <1>4 DEF IdTaken
  <2>2. CASE id = seen[s].id
        BY <2>2, <1>1, <1>2, <1>4, <1>7 DEF IInv, IdentitiesAreOwn
  <2>3. QED  BY <2>1, <2>2
<1>11. /\ m.failed <= wrong'[u]
       /\ m.until # NoLock => wrong'[u] >= MaxAttempts /\ m.until <= now + Lockout
       BY <1>1, <1>3, <1>5 DEF IInv, CounterInv, LocksHaveCause, CooldownInv
<1>12. \A f \in Factors : /\ templates[f][u] = IF m[f] THEN 1 ELSE 0
                          /\ row[u][f] => m[f]
       BY <1>1, <1>6 DEF IInv, EnrolledHasTemplate, Factors
<1>13. /\ templates \in [Factors -> [Users -> Nat]]
       /\ wrong \in [Users -> Nat]
       BY DEF IInv, TypeOK
<1>14. QED  BY <1>2, <1>3, <1>9, <1>10, <1>11, <1>12, <1>13, CommitInv DEF m

\* A template is stored together with its flag.
LEMMA SaveTemplateInv ==
  ASSUME IInv, NEW s \in Sessions, SaveTemplate(s)
  PROVE  IInv'
<1> DEFINE u   == User(s)
           k   == Kind(s)
           new == [seen[s] EXCEPT ![k] = TRUE]
           m   == Merged(s, new, {})
<1>1. seen[s] \in Row /\ u \in Users /\ row[u] \in Row
      BY JobFields DEF IInv, TypeOK, User
<1>2. k \in Factors
      BY DEF SaveTemplate, IInv, StepInv
<1>3. /\ new \in Row /\ new[k] = TRUE
      /\ \A c \in Columns \ {k} : new[c] = seen[s][c]
  <2>1. CASE k = "tapsign"
        BY <2>1, <1>1 DEF Row, Columns
  <2>2. CASE k = "face"
        BY <2>2, <1>1 DEF Row, Columns
  <2>3. QED  BY <2>1, <2>2, <1>2 DEF Factors
<1>4. /\ Commit(s, new, {}) /\ wrong' = wrong
      /\ \/ HasTemplate(s) /\ templates' = templates
         \/ ~HasTemplate(s) /\ templates' = [templates EXCEPT ![k][u] = @ + 1]
      BY DEF SaveTemplate, TemplateTaken, IInv, StepInv
<1> HIDE DEF new
<1>5. m[k] = IF new[k] # seen[s][k] THEN new[k] ELSE row[u][k]
  <2>1. k \in Columns
        BY <1>2 DEF Columns, Factors
  <2>2. QED  BY <2>1, MergeFields DEF Merged
<1>6. \A c \in Columns \ {k} : m[c] = row[u][c]
      BY <1>3, Untouched
<1> HIDE DEF m
<1>7. m[k]
      BY <1>2, <1>3, <1>5 DEF IInv, ReadFlagsInv
<1>8. /\ m.failed = row[u].failed /\ m.until = row[u].until
      /\ m.egov = row[u].egov /\ m.id = row[u].id
      BY <1>2, <1>6 DEF Factors, Columns
<1>9. templates \in [Factors -> [Users -> Nat]]
      BY DEF IInv, TypeOK
<1>10. templates[k][u] \in {0, 1}
       BY <1>1, <1>2 DEF IInv, EnrolledHasTemplate
<1>11. /\ templates' \in [Factors -> [Users -> Nat]]
       /\ \A f \in Factors : \A v \in Users : templates'[f][v] =
            IF f = k /\ v = u THEN 1 ELSE templates[f][v]
  <2>1. CASE HasTemplate(s) /\ templates' = templates
        BY <2>1, <1>1, <1>2, <1>9, <1>10 DEF HasTemplate
  <2>2. CASE ~HasTemplate(s) /\ templates' = [templates EXCEPT ![k][u] = @ + 1]
        BY <2>2, <1>1, <1>2, <1>9, <1>10 DEF HasTemplate
  <2>3. QED  BY <2>1, <2>2, <1>4
<1>12. \A f \in Factors : /\ templates'[f][u] = IF m[f] THEN 1 ELSE 0
                          /\ row[u][f] => m[f]
  <2>1. \A f \in Factors \ {k} : m[f] = row[u][f]
        BY <1>6 DEF Factors, Columns
  <2>2. QED  BY <2>1, <1>1, <1>2, <1>7, <1>11 DEF IInv, EnrolledHasTemplate
<1>13. /\ m.failed <= wrong'[u]
       /\ m.until # NoLock => wrong'[u] >= MaxAttempts /\ m.until <= now + Lockout
       BY <1>1, <1>4, <1>8 DEF IInv, CounterInv, LocksHaveCause, CooldownInv
<1>14. /\ m.egov <=> m.id # NoId
       /\ \A v \in Users \ {u} : m.id # NoId => row[v].id # m.id
       BY <1>1, <1>8 DEF IInv, IdentitiesAreOwn
<1>15. wrong \in [Users -> Nat]
       BY DEF IInv, TypeOK
<1>16. \A f \in Factors : \A v \in Users :
         /\ templates[f][v] > 0 => templates'[f][v] > 0
         /\ v # u => templates'[f][v] = templates[f][v]
       BY <1>11
<1>17. QED  BY <1>3, <1>4, <1>8, <1>11, <1>12, <1>13, <1>14, <1>15, <1>16,
               CommitInv DEF m

\* Finding out whether there is a template.
LEMMA FindTemplateInv ==
  ASSUME IInv, NEW s \in Sessions, FindTemplate(s)
  PROVE  IInv'
<1> DEFINE step == IF HasTemplate(s) THEN "update" ELSE "insert"
<1>1. Goto(s, step) /\ Kind(s) \in Factors
      BY DEF FindTemplate
<1>2. step \in Steps /\ step # "compare"
      BY DEF Steps
<1>3. step = "update" => HasTemplate(s)
      OBVIOUS
<1> HIDE DEF step
<1>4. QED  BY <1>1, <1>2, <1>3, GotoInv

\* A PIN is compared only when the lock that was read is over.
LEMMA AdmitGuessInv ==
  ASSUME IInv, NEW s \in Sessions, AdmitGuess(s)
  PROVE  IInv'
<1>1. /\ Goto(s, "compare") /\ Kind(s) = "verify_pin" /\ ~InForce(seen[s].until)
      BY DEF AdmitGuess, Verifying, Locked
<1>2. "compare" \in Steps
      BY DEF Steps
<1>3. QED  BY <1>1, <1>2, GotoInv

\* Every request keeps it, whatever it does.
LEMMA SessionInv ==
  ASSUME IInv, NEW s \in Sessions,
         Handle(s) \/ Fail(s) \/ \E j \in Jobs : Load(s, j)
  PROVE  IInv'
<1>1. CASE \/ RefuseLocked(s) \/ RefuseUnset(s) \/ RefuseOther(s) \/ EgovDenies(s)
           \/ EgovConflicts(s) \/ EnrolmentConflicts(s) \/ Fail(s)
      BY <1>1, LeaveInv DEF RefuseLocked, RefuseUnset, RefuseOther, EgovDenies,
                            EgovConflicts, EnrolmentConflicts, Fail
<1>2. CASE \E j \in Jobs : Load(s, j)
      BY <1>2, LoadInv
<1>3. CASE SetPin(s) \/ RightPin(s) \/ WrongPin(s) \/ AdmitGuess(s)
      BY <1>3, SetPinInv, RightPinInv, WrongPinInv, AdmitGuessInv
<1>4. CASE \E a \in TelcoResults : TelcoAnswers(s, a)
      BY <1>4, TelcoInv
<1>5. CASE EgovConfirms(s) \/ FindTemplate(s) \/ SaveTemplate(s)
      BY <1>5, EgovConfirmsInv, FindTemplateInv, SaveTemplateInv
<1>6. QED  BY <1>1, <1>2, <1>3, <1>4, <1>5 DEF Handle

\* The inductive invariant of the accounts: for any users, sessions, jobs,
\* attempts and cooldown (pin_service.py, egov.py, phone.py, tapsign.py, face.py).
THEOREM Inductive == Spec => []IInv
<1>1. IInv /\ [Next]_vars => IInv'
  <2>1. SUFFICES ASSUME IInv, [Next]_vars PROVE IInv'
        OBVIOUS
  <2>2. CASE \E s \in Sessions : Handle(s) \/ Fail(s) \/ \E j \in Jobs : Load(s, j)
        BY <2>1, <2>2, SessionInv
  <2>3. CASE Tick
        BY <2>1, <2>3, TickInv
  <2>4. CASE UNCHANGED vars
        BY <2>1, <2>4
           DEF vars, IInv, TypeOK, CounterInv, ReadLocksInv, GuessInv, CooldownInv,
               StepInv, ReadFlagsInv, LocksHaveCause, IdentitiesAreOwn,
               EnrolledHasTemplate, HasTemplate, InForce, User, Kind
  <2>5. QED  BY <2>1, <2>2, <2>3, <2>4 DEF Next
<1>2. QED  BY <1>1, InitInv, PTL DEF Spec

-----------------------------------------------------------------------------
(* What follows from it.                                                    *)

\* However requests overlap, no account is locked before MAX_PIN_ATTEMPTS wrong
\* PINs were compared (pin_service.py:55-60).
THEOREM LockCause == Spec => []LocksHaveCause
<1>1. IInv => LocksHaveCause
      BY DEF IInv
<1>2. QED  BY <1>1, Inductive, PTL

\* Whoever still compares a PIN under a lock in force read the row before that
\* lock was set (pin_service.py:41-48).
THEOREM Guessers == Spec => []GuessersPredateLock
<1>1. IInv => GuessersPredateLock
      BY DEF IInv, GuessInv, GuessersPredateLock
<1>2. QED  BY <1>1, Inductive, PTL

\* No two users are verified under one national id (egov.py:22-26).
THEOREM Identities == Spec => []IdentitiesAreOwn
<1>1. IInv => IdentitiesAreOwn
      BY DEF IInv
<1>2. QED  BY <1>1, Inductive, PTL

\* Flags and templates agree (tapsign.py:25-33, face.py:20-28).
THEOREM Enrolment == Spec => []EnrolledHasTemplate
<1>1. IInv => EnrolledHasTemplate
      BY DEF IInv
<1>2. QED  BY <1>1, Inductive, PTL

\* A commit changes the lock of its own user only, and only if the handler did.
LEMMA CommitLock ==
  ASSUME IInv, NEW s \in Sessions, NEW new, NEW always,
         Commit(s, new, always), "until" \notin always,
         NEW u \in Users, row'[u].until # row[u].until
  PROVE  /\ User(s) = u
         /\ new.until # seen[s].until
<1>1. row' = [row EXCEPT ![User(s)] = Merged(s, new, always)]
      BY DEF Commit, Merged
<1>2. User(s) \in Users
      BY JobFields DEF IInv, TypeOK, User
<1>3. User(s) = u
      BY <1>1, <1>2 DEF IInv, TypeOK
<1>4. row'[u] = Merged(s, new, always)
      BY <1>1, <1>2, <1>3 DEF IInv, TypeOK
<1>5. "until" \in Columns
      BY DEF Columns
<1>6. new.until = seen[s].until => Merged(s, new, always).until = row[User(s)].until
      BY <1>5, Untouched
<1>7. QED  BY <1>3, <1>4, <1>6

\* What LockLifters says of the request that changes the lock of user u.
Lifts(s, u) ==
  /\ User(s) = u /\ pc[s] # "idle" /\ pc'[s] = "idle"
  /\ \/ /\ Kind(s) = "verify_pin"
        /\ row'[u].until # NoLock /\ row'[u].until > row[u].until
     \/ Kind(s) = "verify_pin" /\ seen[s].until \notin {NoLock, row[u].until}
     \/ Kind(s) = "set_pin" /\ seen[s].until # NoLock

\* Only a PIN request changes a lock in force, and only a wrong one unless it read
\* some lock before.
LEMMA LockStep ==
  ASSUME IInv, NEW s \in Sessions,
         Handle(s) \/ Fail(s) \/ \E j \in Jobs : Load(s, j),
         NEW u \in Users, InForce(row[u].until), row'[u].until # row[u].until
  PROVE  Lifts(s, u)
<1>1. seen[s] \in Row /\ pc \in [Sessions -> Steps]
      BY DEF IInv, TypeOK
<1>2. CASE SetPin(s)
  <2> DEFINE new == [seen[s] EXCEPT !.pin = job[s].arg, !.failed = 0, !.until = NoLock]
  <2>1. Commit(s, new, {"pin"}) /\ Kind(s) = "set_pin" /\ pc[s] = "loaded"
        BY <1>2 DEF SetPin
  <2>2. new.until = NoLock
        BY <1>1 DEF Row
  <2> HIDE DEF new
  <2>3. User(s) = u /\ new.until # seen[s].until
        BY <2>1, CommitLock
  <2>4. QED  BY <1>1, <2>1, <2>2, <2>3 DEF Commit, Close, Lifts
<1>3. CASE RightPin(s)
  <2> DEFINE new == [seen[s] EXCEPT !.failed = 0, !.until = NoLock]
  <2>1. Commit(s, new, {}) /\ Kind(s) = "verify_pin" /\ pc[s] = "compare"
        BY <1>3 DEF RightPin, IInv, StepInv
  <2>2. new.until = NoLock
        BY <1>1 DEF Row
  <2> HIDE DEF new
  <2>3. User(s) = u /\ new.until # seen[s].until
        BY <2>1, CommitLock
  <2>4. seen[s].until \notin {NoLock, row[u].until}
        BY <2>1, <2>2, <2>3 DEF IInv, GuessInv
  <2>5. QED  BY <1>1, <2>1, <2>3, <2>4 DEF Commit, Close, Lifts
<1>4. CASE WrongPin(s)
  <2> DEFINE failed == seen[s].failed + 1
             new == [seen[s] EXCEPT !.failed = failed,
                                    !.until = LockedUntil(failed, @)]
  <2>1. Commit(s, new, {}) /\ Kind(s) = "verify_pin" /\ pc[s] = "compare"
        BY <1>4 DEF WrongPin, IInv, StepInv
  <2>2. new.until = LockedUntil(failed, seen[s].until)
        BY <1>1 DEF Row
  <2>3. new.until \in {now + Lockout, seen[s].until}
        BY <2>2 DEF LockedUntil
  <2> HIDE DEF new
  <2>4. User(s) = u /\ new.until # seen[s].until
        BY <2>1, CommitLock
  <2>5. row'[u].until = now + Lockout
    <3>1. "until" \in Columns /\ "until" \notin {}
          BY DEF Columns
    <3>2. Merged(s, new, {}).until = new.until
          BY <2>4, <3>1, MergeFields DEF Merged
    <3>3. row' = [row EXCEPT ![u] = Merged(s, new, {})]
          BY <2>1, <2>4 DEF Commit, Merged
    <3>4. row'[u] = Merged(s, new, {})
          BY <3>3 DEF IInv, TypeOK
    <3>5. QED  BY <2>3, <2>4, <3>2, <3>4
  <2>6. /\ row[u].until \in Nat /\ now \in Nat /\ now + Lockout \in Nat
        /\ row[u].until <= now + Lockout
        BY ParameterAssumption DEF IInv, TypeOK, Row, InForce, CooldownInv
  <2>7. row'[u].until # NoLock /\ row'[u].until > row[u].until
        BY <2>5, <2>6, ParameterAssumption
  <2>8. QED  BY <1>1, <2>1, <2>4, <2>7 DEF Commit, Close, Lifts
<1>5. CASE \E a \in TelcoResults : TelcoAnswers(s, a)
  <2>1. PICK a \in TelcoResults : TelcoAnswers(s, a)
        BY <1>5
  <2> DEFINE new == [seen[s] EXCEPT !.phone = a.verified, !.swapped = @ \/ a.simSwap]
  <2>2. Commit(s, new, {})
        BY <2>1 DEF TelcoAnswers
  <2>3. new.until = seen[s].until
        BY <1>1 DEF Row
  <2> HIDE DEF new
  <2>4. QED  BY <2>2, <2>3, CommitLock
<1>6. CASE EgovConfirms(s)
  <2> DEFINE new == [seen[s] EXCEPT !.egov = TRUE, !.id = job[s].arg]
  <2>1. Commit(s, new, {})
        BY <1>6 DEF EgovConfirms
  <2>2. new.until = seen[s].until
        BY <1>1 DEF Row
  <2> HIDE DEF new
  <2>3. QED  BY <2>1, <2>2, CommitLock
<1>7. CASE SaveTemplate(s)
  <2> DEFINE new == [seen[s] EXCEPT ![Kind(s)] = TRUE]
  <2>1. Commit(s, new, {}) /\ Kind(s) \in Factors
        BY <1>7 DEF SaveTemplate, IInv, StepInv
  <2>2. new.until = seen[s].until
        BY <1>1, <2>1 DEF Row, Factors
  <2> HIDE DEF new
  <2>3. QED  BY <2>1, <2>2, CommitLock
<1>8. CASE \/ RefuseLocked(s) \/ RefuseUnset(s) \/ RefuseOther(s) \/ EgovDenies(s)
           \/ EgovConflicts(s) \/ EnrolmentConflicts(s) \/ Fail(s)
           \/ AdmitGuess(s) \/ FindTemplate(s) \/ \E j \in Jobs : Load(s, j)
  <2>1. row' = row
        BY <1>8 DEF RefuseLocked, RefuseUnset, RefuseOther, EgovDenies,
                    EgovConflicts, EnrolmentConflicts, Fail, AdmitGuess,
                    FindTemplate, Load, Leave, Goto
  <2>2. QED  BY <2>1
<1>9. QED  BY <1>2, <1>3, <1>4, <1>5, <1>6, <1>7, <1>8 DEF Handle

\* A lock in force is prolonged by a wrong PIN, replaced by a new PIN, and lifted
\* by a right PIN only if its request read an older lock.  Nobody else changes it,
\* however old the row is that he works on (pin_service.py:50-60, pin.py:19-22,
\* phone.py:25-30, egov.py:22-26, tapsign.py:25-33).
THEOREM LocksSurvive == Spec => LockLifters
<1>1. IInv /\ [Next]_vars =>
        [\A u \in Users :
           InForce(row[u].until) /\ row'[u].until # row[u].until =>
             \E s \in Sessions : Lifts(s, u)]_vars
  <2>1. SUFFICES ASSUME IInv, [Next]_vars, NEW u \in Users,
                        InForce(row[u].until), row'[u].until # row[u].until
                 PROVE  \E s \in Sessions : Lifts(s, u)
        OBVIOUS
  <2>2. CASE \E s \in Sessions : Handle(s) \/ Fail(s) \/ \E j \in Jobs : Load(s, j)
        BY <2>1, <2>2, LockStep
  <2>3. CASE Tick \/ UNCHANGED vars
        BY <2>1, <2>3 DEF Tick, vars
  <2>4. QED  BY <2>1, <2>2, <2>3 DEF Next
<1>2. QED  BY <1>1, Inductive, PTL DEF Spec, LockLifters, Lifts

-----------------------------------------------------------------------------
(* PIN requests of one user that do not overlap.  Overlapping ones may lose *)
(* one another's updates; these are counted to the last one.                *)

PinRequest(s) == pc[s] # "idle" /\ Kind(s) \in PinKinds

PinsAlone ==
  \A s, t \in Sessions :
    PinRequest(s) /\ PinRequest(t) /\ User(s) = User(t) => s = t

PinColumns == {"failed", "until"}

\* What such a request has read is still what is stored.
ReadIsCurrent ==
  \A s \in Sessions :
    PinRequest(s) => \A c \in PinColumns : seen[s][c] = row[User(s)][c]

\* An account that reached the limit has a lock, in force or expired.
LimitLocks == \A u \in Users : row[u].failed >= MaxAttempts => row[u].until # NoLock

\* No PIN is compared under a lock in force.
NoPinUnderLock ==
  \A s \in Sessions : pc[s] = "compare" => ~InForce(row[User(s)].until)

AloneInv == ReadIsCurrent /\ LimitLocks

\* A wrong PIN raises the counter by one, locking the account for the whole
\* cooldown when it reaches the limit; nothing lowers the counter but a right
\* or a newly set PIN.
WrongPinCounts ==
  \A u \in Users :
    /\ wrong'[u] # wrong[u] => row'[u].failed = row[u].failed + 1
    /\ row'[u].failed > row[u].failed /\ row'[u].failed >= MaxAttempts =>
         row'[u].until = now + Lockout
    /\ row'[u].failed < row[u].failed =>
         /\ row'[u].failed = 0
         /\ \E s \in Sessions : User(s) = u /\ (SetPin(s) \/ RightPin(s))

\* A commit changes only the row of its user.
LEMMA CommitRow ==
  ASSUME IInv, NEW s \in Sessions, NEW new, NEW always, Commit(s, new, always)
  PROVE  /\ User(s) \in Users
         /\ row'[User(s)] = Merged(s, new, always)
         /\ \A v \in Users \ {User(s)} : row'[v] = row[v]
<1>1. row' = [row EXCEPT ![User(s)] = Merged(s, new, always)]
      BY DEF Commit, Merged
<1>2. User(s) \in Users
      BY JobFields DEF IInv, TypeOK, User
<1>3. QED  BY <1>1, <1>2 DEF IInv, TypeOK

\* A handler that works on current PIN columns stores what it computed.
LEMMA CurrentCommit ==
  ASSUME IInv, ReadIsCurrent, NEW s \in Sessions, PinRequest(s),
         NEW new, NEW always, Commit(s, new, always)
  PROVE  row'[User(s)].failed = new.failed /\ row'[User(s)].until = new.until
<1>1. seen[s].failed = row[User(s)].failed /\ seen[s].until = row[User(s)].until
      BY DEF ReadIsCurrent, PinColumns
<1>2. "failed" \in Columns /\ "until" \in Columns
      BY DEF Columns
<1>3. /\ Merged(s, new, always).failed =
           IF "failed" \in always \/ new.failed # seen[s].failed
             THEN new.failed ELSE row[User(s)].failed
      /\ Merged(s, new, always).until =
           IF "until" \in always \/ new.until # seen[s].until
             THEN new.until ELSE row[User(s)].until
      BY <1>2, MergeFields DEF Merged
<1>4. row'[User(s)] = Merged(s, new, always)
      BY CommitRow
<1>5. QED  BY <1>1, <1>3, <1>4

\* A handler that computed no PIN column stores none.
LEMMA OtherCommit ==
  ASSUME IInv, NEW s \in Sessions, NEW new, Commit(s, new, {}),
         new.failed = seen[s].failed, new.until = seen[s].until
  PROVE  \A u \in Users : row'[u].failed = row[u].failed /\ row'[u].until = row[u].until
<1>1. "failed" \in Columns /\ "until" \in Columns
      BY DEF Columns
<1>2. /\ Merged(s, new, {}).failed = row[User(s)].failed
      /\ Merged(s, new, {}).until = row[User(s)].until
      BY <1>1, Untouched
<1>3. /\ row'[User(s)] = Merged(s, new, {})
      /\ \A v \in Users \ {User(s)} : row'[v] = row[v]
      BY CommitRow
<1>4. QED  BY <1>2, <1>3

\* No other handler touches the counter or the lock.
LEMMA OtherStep ==
  ASSUME IInv, NEW s \in Sessions,
         Handle(s) \/ Fail(s) \/ \E j \in Jobs : Load(s, j),
         ~SetPin(s), ~RightPin(s), ~WrongPin(s)
  PROVE  /\ wrong' = wrong
         /\ \A u \in Users :
              row'[u].failed = row[u].failed /\ row'[u].until = row[u].until
<1>1. seen[s] \in Row
      BY DEF IInv, TypeOK
<1>2. CASE \E a \in TelcoResults : TelcoAnswers(s, a)
  <2>1. PICK a \in TelcoResults : TelcoAnswers(s, a)
        BY <1>2
  <2> DEFINE new == [seen[s] EXCEPT !.phone = a.verified, !.swapped = @ \/ a.simSwap]
  <2>2. Commit(s, new, {}) /\ wrong' = wrong
        BY <2>1 DEF TelcoAnswers
  <2>3. new.failed = seen[s].failed /\ new.until = seen[s].until
        BY <1>1 DEF Row
  <2> HIDE DEF new
  <2>4. QED  BY <2>2, <2>3, OtherCommit
<1>3. CASE EgovConfirms(s)
  <2> DEFINE new == [seen[s] EXCEPT !.egov = TRUE, !.id = job[s].arg]
  <2>1. Commit(s, new, {}) /\ wrong' = wrong
        BY <1>3 DEF EgovConfirms
  <2>2. new.failed = seen[s].failed /\ new.until = seen[s].until
        BY <1>1 DEF Row
  <2> HIDE DEF new
  <2>3. QED  BY <2>1, <2>2, OtherCommit
<1>4. CASE SaveTemplate(s)
  <2> DEFINE new == [seen[s] EXCEPT ![Kind(s)] = TRUE]
  <2>1. Commit(s, new, {}) /\ Kind(s) \in Factors /\ wrong' = wrong
        BY <1>4 DEF SaveTemplate, IInv, StepInv
  <2>2. new.failed = seen[s].failed /\ new.until = seen[s].until
        BY <1>1, <2>1 DEF Row, Factors
  <2> HIDE DEF new
  <2>3. QED  BY <2>1, <2>2, OtherCommit
<1>5. CASE \/ RefuseLocked(s) \/ RefuseUnset(s) \/ RefuseOther(s) \/ EgovDenies(s)
           \/ EgovConflicts(s) \/ EnrolmentConflicts(s) \/ Fail(s)
           \/ AdmitGuess(s) \/ FindTemplate(s) \/ \E j \in Jobs : Load(s, j)
  <2>1. row' = row /\ wrong' = wrong
        BY <1>5 DEF RefuseLocked, RefuseUnset, RefuseOther, EgovDenies,
                    EgovConflicts, EnrolmentConflicts, Fail, AdmitGuess,
                    FindTemplate, Load, Leave, Goto
  <2>2. QED  BY <2>1
<1>6. QED  BY <1>2, <1>3, <1>4, <1>5 DEF Handle

\* What the three handlers that write the counter and the lock store.
LEMMA PinStep ==
  ASSUME IInv, ReadIsCurrent, NEW s \in Sessions,
         SetPin(s) \/ RightPin(s) \/ WrongPin(s)
  PROVE  /\ PinRequest(s) /\ User(s) \in Users /\ pc'[s] = "idle"
         /\ \A v \in Users \ {User(s)} : row'[v] = row[v] /\ wrong'[v] = wrong[v]
         /\ SetPin(s) \/ RightPin(s) =>
              /\ row'[User(s)].failed = 0 /\ row'[User(s)].until = NoLock
              /\ wrong' = wrong
         /\ WrongPin(s) =>
              /\ row'[User(s)].failed = row[User(s)].failed + 1
              /\ row'[User(s)].until =
                   LockedUntil(row[User(s)].failed + 1, row[User(s)].until)
<1>1. seen[s] \in Row /\ pc \in [Sessions -> Steps] /\ wrong \in [Users -> Nat]
      BY DEF IInv, TypeOK
<1>2. PinRequest(s)
      BY DEF IInv, StepInv, PinRequest, PinKinds, SetPin, RightPin, WrongPin
<1>3. seen[s].failed = row[User(s)].failed /\ seen[s].until = row[User(s)].until
      BY <1>2 DEF ReadIsCurrent, PinColumns
<1>4. CASE SetPin(s)
  <2> DEFINE new == [seen[s] EXCEPT !.pin = job[s].arg, !.failed = 0, !.until = NoLock]
  <2>1. Commit(s, new, {"pin"}) /\ wrong' = wrong /\ pc[s] = "loaded"
        BY <1>4 DEF SetPin
  <2>2. new.failed = 0 /\ new.until = NoLock
        BY <1>1 DEF Row
  <2> HIDE DEF new
  <2>3. ~RightPin(s) /\ ~WrongPin(s)
        BY <2>1 DEF RightPin, WrongPin
  <2>4. pc'[s] = "idle"
        BY <1>1, <2>1 DEF Commit, Close
  <2>5. QED  BY <1>2, <2>1, <2>2, <2>3, <2>4, CommitRow, CurrentCommit
<1>5. CASE RightPin(s)
  <2> DEFINE new == [seen[s] EXCEPT !.failed = 0, !.until = NoLock]
  <2>1. Commit(s, new, {}) /\ wrong' = wrong /\ ~WrongPin(s)
        BY <1>5 DEF RightPin, WrongPin
  <2>2. new.failed = 0 /\ new.until = NoLock
        BY <1>1 DEF Row
  <2> HIDE DEF new
  <2>3. pc'[s] = "idle"
        BY <1>1, <2>1 DEF Commit, Close
  <2>4. QED  BY <1>2, <2>1, <2>2, <2>3, CommitRow, CurrentCommit
<1>6. CASE WrongPin(s)
  <2> DEFINE failed == seen[s].failed + 1
             new    == [seen[s] EXCEPT !.failed = failed,
                                       !.until = LockedUntil(failed, @)]
  <2>1. /\ Commit(s, new, {}) /\ wrong' = [wrong EXCEPT ![User(s)] = @ + 1]
        /\ ~SetPin(s) /\ ~RightPin(s)
        BY <1>6 DEF WrongPin, SetPin, RightPin
  <2>2. /\ new.failed = row[User(s)].failed + 1
        /\ new.until = LockedUntil(row[User(s)].failed + 1, row[User(s)].until)
        BY <1>1, <1>3 DEF Row
  <2> HIDE DEF new
  <2>3. pc'[s] = "idle"
        BY <1>1, <2>1 DEF Commit, Close
  <2>4. User(s) \in Users /\ \A v \in Users \ {User(s)} : row'[v] = row[v]
        BY <2>1, CommitRow
  <2>5. \A v \in Users \ {User(s)} : wrong'[v] = wrong[v]
        BY <1>1, <2>1, <2>4
  <2>6. QED  BY <1>2, <2>1, <2>2, <2>3, <2>4, <2>5, CurrentCommit
<1>7. QED  BY <1>4, <1>5, <1>6

\* A session's step leaves what the other sessions hold alone, and what it
\* holds itself afterwards, if it goes on, is what was stored.
LEMMA SessionLocals ==
  ASSUME IInv, NEW s \in Sessions,
         Handle(s) \/ Fail(s) \/ \E j \in Jobs : Load(s, j)
  PROVE  /\ \A t \in Sessions \ {s} :
              pc'[t] = pc[t] /\ job'[t] = job[t] /\ seen'[t] = seen[t]
         /\ pc'[s] # "idle" =>
              /\ row' = row
              /\ \/ job'[s] = job[s] /\ seen'[s] = seen[s] /\ pc[s] # "idle"
                 \/ seen'[s] = row[job'[s].user]
<1>1. /\ pc \in [Sessions -> Steps] /\ job \in [Sessions -> Jobs]
      /\ seen \in [Sessions -> Row]
      BY DEF IInv, TypeOK
<1>2. CASE \E j \in Jobs : Load(s, j)
      BY <1>1, <1>2 DEF Load
<1>3. CASE \E step \in Steps : pc[s] # "idle" /\ Goto(s, step)
      BY <1>1, <1>3 DEF Goto
<1>4. CASE Close(s)
      BY <1>1, <1>4 DEF Close
<1>5. CASE AdmitGuess(s) \/ FindTemplate(s)
  <2>1. \E step \in Steps : pc[s] # "idle" /\ Goto(s, step)
        BY <1>5 DEF AdmitGuess, FindTemplate, Verifying, Steps
  <2>2. QED  BY <2>1, <1>3
<1>6. CASE Handle(s) /\ ~AdmitGuess(s) /\ ~FindTemplate(s)
  <2>1. Close(s)
        BY <1>6 DEF Handle, SetPin, RefuseLocked, RefuseUnset, RightPin, WrongPin,
                    RefuseOther, TelcoAnswers, EgovDenies, EgovConfirms,
                    EgovConflicts, SaveTemplate, EnrolmentConflicts, Commit, Leave
  <2>2. QED  BY <2>1, <1>4
<1>7. QED  BY <1>2, <1>4, <1>5, <1>6 DEF Fail, Leave

\* While PIN requests are alone, what they read stays current and the limit locks.
LEMMA AloneStep ==
  ASSUME IInv, AloneInv, PinsAlone, [Next]_vars
  PROVE  AloneInv'
<1>1. CASE \E s \in Sessions : Handle(s) \/ Fail(s) \/ \E j \in Jobs : Load(s, j)
  <2>1. PICK s \in Sessions : Handle(s) \/ Fail(s) \/ \E j \in Jobs : Load(s, j)
        BY <1>1
  <2>2. /\ \A t \in Sessions \ {s} :
             pc'[t] = pc[t] /\ job'[t] = job[t] /\ seen'[t] = seen[t]
        /\ pc'[s] # "idle" =>
             /\ row' = row
             /\ \/ job'[s] = job[s] /\ seen'[s] = seen[s] /\ pc[s] # "idle"
                \/ seen'[s] = row[job'[s].user]
        BY <2>1, SessionLocals
  <2>3. \A t \in Sessions : User(t) \in Users
        BY JobFields DEF IInv, TypeOK, User
  <2>4. CASE SetPin(s) \/ RightPin(s) \/ WrongPin(s)
    <3>1. /\ PinRequest(s) /\ User(s) \in Users /\ pc'[s] = "idle"
          /\ \A v \in Users \ {User(s)} : row'[v] = row[v]
          /\ SetPin(s) \/ RightPin(s) =>
               row'[User(s)].failed = 0 /\ row'[User(s)].until = NoLock
          /\ WrongPin(s) =>
               /\ row'[User(s)].failed = row[User(s)].failed + 1
               /\ row'[User(s)].until =
                    LockedUntil(row[User(s)].failed + 1, row[User(s)].until)
          BY <2>4, PinStep DEF AloneInv
    <3>2. ReadIsCurrent'
      <4>1. SUFFICES ASSUME NEW t \in Sessions, PinRequest(t)', NEW c \in PinColumns
                     PROVE  seen'[t][c] = row'[User(t)'][c]
            BY DEF ReadIsCurrent
      <4>2. t # s /\ PinRequest(t) /\ User(t)' = User(t) /\ seen'[t] = seen[t]
            BY <2>2, <3>1, <4>1 DEF PinRequest, User, Kind
      <4>3. User(t) # User(s)
            BY <3>1, <4>2 DEF PinsAlone
      <4>4. row'[User(t)] = row[User(t)]
            BY <2>3, <3>1, <4>3
      <4>5. QED  BY <4>2, <4>4 DEF AloneInv, ReadIsCurrent
    <3>3. LimitLocks'
      <4>1. SUFFICES ASSUME NEW u \in Users, row'[u].failed >= MaxAttempts
                     PROVE  row'[u].until # NoLock
            BY DEF LimitLocks
      <4>2. CASE u # User(s)
            BY <3>1, <4>1, <4>2 DEF AloneInv, LimitLocks
      <4>3. CASE u = User(s) /\ WrongPin(s)
        <5>1. row'[u].until = now + Lockout
              BY <3>1, <4>1, <4>3 DEF LockedUntil
        <5>2. now \in Nat
              BY DEF IInv, TypeOK
        <5>3. now + Lockout \in Nat
              BY <5>2, ParameterAssumption
        <5>4. QED  BY <5>1, <5>3, ParameterAssumption
      <4>4. CASE u = User(s) /\ ~WrongPin(s)
            BY <2>4, <3>1, <4>1, <4>4, ParameterAssumption
      <4>5. QED  BY <4>2, <4>3, <4>4
    <3>4. QED  BY <3>2, <3>3 DEF AloneInv
  <2>5. CASE ~SetPin(s) /\ ~RightPin(s) /\ ~WrongPin(s)
    <3>1. \A u \in Users : row'[u].failed = row[u].failed /\ row'[u].until = row[u].until
          BY <2>1, <2>5, OtherStep
    <3>2. ReadIsCurrent'
      <4>1. SUFFICES ASSUME NEW t \in Sessions, PinRequest(t)', NEW c \in PinColumns
                     PROVE  seen'[t][c] = row'[User(t)'][c]
            BY DEF ReadIsCurrent
      <4>2. CASE t # s
        <5>1. PinRequest(t) /\ User(t)' = User(t) /\ seen'[t] = seen[t]
              BY <2>2, <4>1, <4>2 DEF PinRequest, User, Kind
        <5>2. seen[t][c] = row[User(t)][c]
              BY <5>1 DEF AloneInv, ReadIsCurrent
        <5>3. row'[User(t)][c] = row[User(t)][c]
              BY <2>3, <3>1 DEF PinColumns
        <5>4. QED  BY <5>1, <5>2, <5>3
      <4>3. CASE t = s
        <5>1. pc'[s] # "idle"
              BY <4>1, <4>3 DEF PinRequest
        <5>2. CASE job'[s] = job[s] /\ seen'[s] = seen[s] /\ pc[s] # "idle"
              BY <2>2, <4>1, <4>3, <5>1, <5>2
                 DEF AloneInv, ReadIsCurrent, PinRequest, User, Kind
        <5>3. CASE seen'[s] = row[job'[s].user]
              BY <2>2, <4>3, <5>1, <5>3 DEF User
        <5>4. QED  BY <2>2, <5>1, <5>2, <5>3
      <4>4. QED  BY <4>2, <4>3
    <3>3. QED  BY <3>1, <3>2 DEF AloneInv, LimitLocks
  <2>6. QED  BY <2>4, <2>5
<1>2. CASE Tick \/ UNCHANGED vars
      BY <1>2 DEF Tick, vars, AloneInv, ReadIsCurrent, LimitLocks, PinRequest, User, Kind
<1>3. QED  BY <1>1, <1>2 DEF Next

\* It holds as long as no two PIN requests of a user overlap.
LEMMA AloneAlways == Spec /\ []PinsAlone => []AloneInv
<1>1. Init => AloneInv
      BY ParameterAssumption
         DEF Init, AloneInv, ReadIsCurrent, LimitLocks, PinRequest, NewRow
<1>2. IInv /\ PinsAlone /\ AloneInv /\ [Next]_vars => AloneInv'
      BY AloneStep
<1>3. QED  BY <1>1, <1>2, Inductive, PTL DEF Spec

\* pin_service.py:5-7, 53-60: as long as no two PIN requests of a user overlap,
\* every wrong PIN is counted, MAX_PIN_ATTEMPTS of them lock the account for the
\* whole cooldown, and only a right or a newly set PIN starts the count again.
THEOREM EveryWrongPinCounts == Spec /\ []PinsAlone => [][WrongPinCounts]_vars
<1>1. IInv /\ AloneInv /\ [Next]_vars => [WrongPinCounts]_vars
  <2>1. SUFFICES ASSUME IInv, AloneInv, [Next]_vars, NEW u \in Users
                 PROVE  /\ wrong'[u] # wrong[u] => row'[u].failed = row[u].failed + 1
                        /\ row'[u].failed > row[u].failed /\ row'[u].failed >= MaxAttempts =>
                             row'[u].until = now + Lockout
                        /\ row'[u].failed < row[u].failed =>
                             /\ row'[u].failed = 0
                             /\ \E s \in Sessions : User(s) = u /\ (SetPin(s) \/ RightPin(s))
        BY DEF WrongPinCounts
  <2>2. row[u].failed \in Nat
        BY <2>1 DEF IInv, TypeOK, Row
  <2>3. CASE \E s \in Sessions : SetPin(s) \/ RightPin(s) \/ WrongPin(s)
    <3>1. PICK s \in Sessions : SetPin(s) \/ RightPin(s) \/ WrongPin(s)
          BY <2>3
    <3>2. /\ \A v \in Users \ {User(s)} : row'[v] = row[v] /\ wrong'[v] = wrong[v]
          /\ SetPin(s) \/ RightPin(s) => row'[User(s)].failed = 0 /\ wrong' = wrong
          /\ WrongPin(s) =>
               /\ row'[User(s)].failed = row[User(s)].failed + 1
               /\ row'[User(s)].until =
                    LockedUntil(row[User(s)].failed + 1, row[User(s)].until)
          BY <2>1, <3>1, PinStep DEF AloneInv
    <3>3. CASE u # User(s)
          BY <2>2, <3>2, <3>3
    <3>4. CASE u = User(s) /\ WrongPin(s)
          BY <2>2, <3>2, <3>4 DEF LockedUntil
    <3>5. CASE u = User(s) /\ ~WrongPin(s)
          BY <2>2, <3>1, <3>2, <3>5
    <3>6. QED  BY <3>3, <3>4, <3>5
  <2>4. CASE ~\E s \in Sessions : SetPin(s) \/ RightPin(s) \/ WrongPin(s)
    <3>1. wrong' = wrong /\ row'[u].failed = row[u].failed
      <4>1. CASE \E s \in Sessions : Handle(s) \/ Fail(s) \/ \E j \in Jobs : Load(s, j)
            BY <2>1, <2>4, <4>1, OtherStep
      <4>2. CASE Tick \/ UNCHANGED vars
            BY <4>2 DEF Tick, vars
      <4>3. QED  BY <2>1, <4>1, <4>2 DEF Next
    <3>2. QED  BY <2>2, <3>1
  <2>5. QED  BY <2>3, <2>4
<1>2. QED  BY <1>1, AloneAlways, Inductive, PTL DEF Spec

\* Nor is any PIN compared while the account is locked, or without a lock once
\* the limit is reached (pin_service.py:41-48).
THEOREM LocksHold == Spec /\ []PinsAlone => [](LimitLocks /\ NoPinUnderLock)
<1>1. IInv /\ AloneInv => LimitLocks /\ NoPinUnderLock
  <2>1. SUFFICES ASSUME IInv, AloneInv, NEW s \in Sessions, pc[s] = "compare"
                 PROVE  ~InForce(row[User(s)].until)
        BY DEF AloneInv, NoPinUnderLock
  <2>2. PinRequest(s) /\ ~InForce(seen[s].until)
        BY <2>1 DEF IInv, StepInv, GuessInv, PinRequest, PinKinds
  <2>3. seen[s].until = row[User(s)].until
        BY <2>1, <2>2 DEF AloneInv, ReadIsCurrent, PinColumns
  <2>4. QED  BY <2>2, <2>3
<1>2. QED  BY <1>1, AloneAlways, Inductive, PTL

=============================================================================
