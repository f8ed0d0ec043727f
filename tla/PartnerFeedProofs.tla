-------------------------- MODULE PartnerFeedProofs --------------------------
(***************************************************************************)
(* Proofs about the partner feed, for any events, builds, threads, clock   *)
(* and faults.                                                             *)
(***************************************************************************)
EXTENDS PartnerFeed, FiniteSetTheorems, FunctionTheorems, TLAPS

-----------------------------------------------------------------------------
(* The log.                                                                 *)

\* Appending changes no entry there is.
LEMMA Grows ==
  ASSUME NEW s \in Seq(Events), NEW e \in Events
  PROVE  /\ Append(s, e) \in Seq(Events)
         /\ DOMAIN Append(s, e) = DOMAIN s \cup {Len(s) + 1}
         /\ Len(s) + 1 \notin DOMAIN s
         /\ Append(s, e)[Len(s) + 1] = e
         /\ \A i \in DOMAIN s : Append(s, e)[i] = s[i]
  OBVIOUS

\* What an event consists of.
LEMMA EventFields ==
  ASSUME NEW e \in Events
  PROVE  e.subject \in Subjects /\ e.kind \in Kinds /\ e.place \in Places \cup {NoPlace}
         /\ e.at \in Int
  BY EventAssumption

\* What a build reads is a finite part of the log.
LEMMA ReadIsFinite ==
  ASSUME NEW s \in Seq(Events), NEW S, S \subseteq DOMAIN s
  PROVE  IsFiniteSet(S) /\ Cardinality(S) \in Nat
<1>1. DOMAIN s = 1..Len(s) /\ Len(s) \in Nat
      OBVIOUS
<1>2. IsFiniteSet(DOMAIN s)
      BY <1>1, FS_Interval
<1>3. IsFiniteSet(S)
      BY <1>2, FS_Subset
<1>4. QED  BY <1>3, FS_CardinalityType

\* An acknowledged event whose id is its own is an entry of the log.
LEMMA SoleIsEntry ==
  ASSUME TypeOK, ToldInv, NEW e \in acknowledged, SoleId(e)
  PROVE  \E i \in DOMAIN rows : rows[i] = e
<1>1. PICK i \in DOMAIN rows : rows[i].id = e.id
      BY DEF ToldInv, Recorded
<1>2. rows[i] \in Events
      BY DEF TypeOK
<1>3. QED  BY <1>1, <1>2 DEF SoleId

-----------------------------------------------------------------------------
(* The inductive invariant.                                                 *)

\* It holds before anything is delivered.
LEMMA InitInv == Init => IInv
<1>1. SUFFICES ASSUME Init PROVE IInv
      OBVIOUS
<1>2. TypeOK
  <2>1. /\ rows \in Seq(Events) /\ now \in Nat /\ faults \in Nat
        /\ acknowledged \subseteq Events
        BY <1>1 DEF Init
  <2>2. users \in [Subjects -> UserRow \cup {NoUser}]
        BY <1>1, ParameterAssumption DEF Init, UserRow
  <2>3. /\ pc \in [Workers -> Steps]
        /\ ask \in [Workers -> Deliveries \cup Builds \cup {NoRequest}]
        /\ since \in [Workers -> Int] /\ seen \in [Workers -> SUBSET Nat]
        BY <1>1 DEF Init, Steps
  <2>4. features \in [Workers -> Features]
        BY <1>1 DEF Init, Features, NoFeatures
  <2>5. owed \in [Workers -> Debt]
        BY <1>1 DEF Init, Debt, NoDebt
  <2>6. QED  BY <2>1, <2>2, <2>3, <2>4, <2>5 DEF TypeOK
<1>3. UniqueInv /\ StepInv /\ ToldInv /\ BuildInv
      BY <1>1 DEF Init, UniqueInv, StepInv, ToldInv, BuildInv
<1>4. QED  BY <1>2, <1>3 DEF IInv

\* What is said of one thread by StepInv, and by BuildInv.
StepOf(w) ==
  /\ pc[w] \in {"check", "recheck", "insert", "reply"} => ask[w] \in Deliveries
  /\ pc[w] \in {"read", "user", "built"} => ask[w] \in Builds
  /\ pc[w] = "reply" => Recorded(ask[w].event)

BuildOf(w) ==
  /\ pc[w] \in {"read", "user", "built"} => OwesPast(w)
  /\ pc[w] \in {"user", "built"} => SeenPast(w)
  /\ pc[w] = "built" => Counted(w)

\* The tables only grow: rows are added at the end, the swap on file stays.
TablesGrow ==
  /\ \A i \in DOMAIN rows : i \in DOMAIN rows' /\ rows'[i] = rows[i]
  /\ acknowledged \subseteq acknowledged'
  /\ \A s \in Subjects : StoredSwap(s) => StoredSwap(s)'

\* The locals of a thread.
Same(w) ==
  /\ pc'[w] = pc[w] /\ ask'[w] = ask[w] /\ seen'[w] = seen[w]
  /\ since'[w] = since[w] /\ features'[w] = features[w] /\ owed'[w] = owed[w]

\* Growing tables make nothing false that a thread rests on.
LEMMA IdleThread ==
  ASSUME IInv, TablesGrow, NEW w \in Workers, Same(w)
  PROVE  StepOf(w)' /\ BuildOf(w)'
<1>1. \A e : Recorded(e) => Recorded(e)'
      BY DEF TablesGrow, Recorded
<1>2. StepOf(w)'
      BY <1>1 DEF IInv, StepInv, StepOf, Same
<1>3. BuildOf(w)'
  <2>1. ASSUME pc[w] \in {"read", "user", "built"} PROVE OwesPast(w)'
    <3>1. OwesPast(w) /\ ask[w].subject \in Subjects
          BY <2>1, ParameterAssumption DEF IInv, BuildInv, StepInv
    <3>2. acknowledged \subseteq acknowledged'
          BY DEF TablesGrow
    <3>3. StoredSwap(ask[w].subject) =>
            users'[ask[w].subject] # NoUser /\ users'[ask[w].subject].swap
          BY <3>1 DEF TablesGrow, StoredSwap
    <3>4. \A e : SoleId(e)' <=> SoleId(e)
          BY DEF SoleId
    <3>5. ask'[w] = ask[w] /\ owed'[w] = owed[w] /\ since'[w] = since[w]
          BY DEF Same
    <3>6. QED  BY <3>1, <3>2, <3>3, <3>4, <3>5 DEF OwesPast, StoredSwap
  <2>2. ASSUME pc[w] \in {"user", "built"} PROVE SeenPast(w)'
    <3>1. SeenPast(w)
          BY <2>2 DEF IInv, BuildInv
    <3>2. QED  BY <3>1 DEF SeenPast, Same, TablesGrow
  <2>3. ASSUME pc[w] = "built" PROVE Counted(w)'
    <3>1. Counted(w) /\ seen[w] \subseteq DOMAIN rows /\ ask[w].subject \in Subjects
          BY <2>3, ParameterAssumption DEF IInv, BuildInv, StepInv, SeenPast
    <3>2. /\ ask'[w] = ask[w] /\ owed'[w] = owed[w] /\ seen'[w] = seen[w]
          /\ features'[w] = features[w]
          BY DEF Same
    <3>3. \A i \in seen[w] : rows'[i] = rows[i]
          BY <3>1 DEF TablesGrow
    <3>4. ASSUME NEW k PROVE Count(w, k)' = Count(w, k)
      <4>1. { i \in seen'[w] : rows'[i].kind = k } = { i \in seen[w] : rows[i].kind = k }
            BY <3>2, <3>3
      <4>2. QED  BY <4>1 DEF Count
    <3>5. Visited(w)' = Visited(w)
      <4>1. { i \in seen'[w] : rows'[i].kind = "location" }
              = { i \in seen[w] : rows[i].kind = "location" }
            BY <3>2, <3>3
      <4>2. \A i \in { j \in seen[w] : rows[j].kind = "location" } : rows'[i] = rows[i]
            BY <3>3
      <4>3. QED  BY <4>1, <4>2 DEF Visited
    <3>6. StoredSwap(ask[w].subject) =>
            users'[ask[w].subject] # NoUser /\ users'[ask[w].subject].swap
          BY <3>1 DEF TablesGrow, StoredSwap
    <3>7. /\ Count(w, "late")' = Count(w, "late")
          /\ Count(w, "overdue")' = Count(w, "overdue")
          /\ Count(w, "service")' = Count(w, "service")
          /\ Count(w, "compliance")' = Count(w, "compliance")
          /\ Count(w, "swap")' = Count(w, "swap")
          BY <3>4
    <3>8. QED  BY <3>1, <3>2, <3>5, <3>6, <3>7 DEF Counted, StoredSwap
  <2>4. QED  BY <2>1, <2>2, <2>3 DEF BuildOf, Same
<1>4. QED  BY <1>2, <1>3

\* So a step need only be looked at where it acts.
LEMMA OneThread ==
  ASSUME IInv, TablesGrow, TypeOK', UniqueInv', ToldInv', NEW w \in Workers,
         \A v \in Workers \ {w} : Same(v),
         StepOf(w)', BuildOf(w)'
  PROVE  IInv'
<1>1. \A v \in Workers : StepOf(v)' /\ BuildOf(v)'
      BY IdleThread
<1>2. StepInv'
      BY <1>1 DEF StepInv, StepOf
<1>3. BuildInv'
      BY <1>1 DEF BuildInv, BuildOf
<1>4. QED  BY <1>2, <1>3 DEF IInv

\* A step that leaves the tables alone keeps what is said of them.
LEMMA SameTables ==
  ASSUME IInv, UNCHANGED <<rows, users, acknowledged>>
  PROVE  TablesGrow /\ UniqueInv' /\ ToldInv'
  BY DEF IInv, TablesGrow, UniqueInv, ToldInv, Recorded, StoredSwap

\* A request that ends, with or without a fault, keeps it; a partner that is
\* told something is told the truth.
LEMMA EndInv ==
  ASSUME IInv, NEW w \in Workers, End(w), UNCHANGED <<rows, users, now>>,
         faults' \in Nat, acknowledged \subseteq acknowledged',
         acknowledged' \subseteq Events, \A e \in acknowledged' : Recorded(e)
  PROVE  IInv'
<1>1. TablesGrow
      BY DEF TablesGrow, StoredSwap
<1>2. NoFeatures \in Features /\ NoDebt \in Debt
      BY DEF NoFeatures, Features, NoDebt, Debt
<1>3. TypeOK'
      BY <1>2 DEF IInv, TypeOK, End, Steps
<1>4. UniqueInv' /\ ToldInv'
      BY DEF IInv, UniqueInv, ToldInv, Recorded
<1>5. \A v \in Workers \ {w} : Same(v)
      BY DEF IInv, TypeOK, End, Same
<1>6. pc'[w] = "idle"
      BY DEF IInv, TypeOK, End
<1>7. StepOf(w)' /\ BuildOf(w)'
      BY <1>6 DEF StepOf, BuildOf
<1>8. QED  BY <1>1, <1>3, <1>4, <1>5, <1>7, OneThread

\* A delivery that begins knows nothing yet.
LEMMA DeliverInv ==
  ASSUME IInv, NEW w \in Workers, NEW e \in Events, Deliver(w, e)
  PROVE  IInv'
<1> DEFINE request == [kind |-> "event", event |-> e]
<1>1. /\ pc' = [pc EXCEPT ![w] = "check"] /\ ask' = [ask EXCEPT ![w] = request]
      /\ UNCHANGED <<rows, users, acknowledged, since, seen, features, owed, now, faults>>
      BY DEF Deliver, Begin, tables, clocks
<1>2. request \in Deliveries
      BY DEF Deliveries
<1> HIDE DEF request
<1>3. TypeOK'
      BY <1>1, <1>2 DEF IInv, TypeOK, Steps
<1>4. TablesGrow /\ UniqueInv' /\ ToldInv'
      BY <1>1, SameTables
<1>5. /\ pc'[w] = "check" /\ ask'[w] = request
      /\ \A v \in Workers \ {w} : Same(v)
      BY <1>1 DEF IInv, TypeOK, Same
<1>6. StepOf(w)' /\ BuildOf(w)'
      BY <1>2, <1>5 DEF StepOf, BuildOf
<1>7. QED  BY <1>3, <1>4, <1>5, <1>6, OneThread

\* A look-up that finds the id answers, one that does not goes on.
LEMMA LookUpInv ==
  ASSUME IInv, NEW w \in Workers,
         NEW step \in {"check", "recheck"}, NEW next \in {"recheck", "insert"},
         LookUp(w, step, next)
  PROVE  IInv'
<1> DEFINE to == IF Recorded(ask[w].event) THEN "reply" ELSE next
<1>1. /\ pc' = [pc EXCEPT ![w] = to]
      /\ UNCHANGED <<rows, users, acknowledged, ask, since, seen, features, owed, now, faults>>
      BY DEF LookUp, Goto, tables, locals, clocks
<1>2. ask[w] \in Deliveries
      BY DEF LookUp, IInv, StepInv
<1>3. to = "reply" => Recorded(ask[w].event)
      OBVIOUS
<1>4. to \in {"recheck", "insert", "reply"}
      OBVIOUS
<1> HIDE DEF to
<1>5. TypeOK'
      BY <1>1, <1>4 DEF IInv, TypeOK, Steps
<1>6. TablesGrow /\ UniqueInv' /\ ToldInv'
      BY <1>1, SameTables
<1>7. pc'[w] = to /\ ask'[w] = ask[w] /\ \A v \in Workers \ {w} : Same(v)
      BY <1>1 DEF IInv, TypeOK, Same
<1>8. StepOf(w)' /\ BuildOf(w)'
      BY <1>1, <1>2, <1>3, <1>4, <1>7 DEF StepOf, BuildOf, Recorded
<1>9. QED  BY <1>5, <1>6, <1>7, <1>8, OneThread

\* A row is added only while no other bears its id.
LEMMA InsertInv ==
  ASSUME IInv, NEW w \in Workers, Insert(w)
  PROVE  IInv'
<1> DEFINE e == ask[w].event
<1>1. /\ pc[w] = "insert" /\ ~Recorded(e)
      /\ rows' = Append(rows, e) /\ pc' = [pc EXCEPT ![w] = "reply"]
      /\ UNCHANGED <<users, acknowledged, ask, since, seen, features, owed, now, faults>>
      BY DEF Insert, Goto, IdTaken, Recorded, locals, clocks
<1>2. ask[w] \in Deliveries
      BY <1>1 DEF IInv, StepInv
<1>3. e \in Events
      BY <1>2 DEF Deliveries
<1> HIDE DEF e
<1>4. rows \in Seq(Events)
      BY DEF IInv, TypeOK
<1>5. /\ rows' \in Seq(Events)
      /\ DOMAIN rows' = DOMAIN rows \cup {Len(rows) + 1}
      /\ Len(rows) + 1 \notin DOMAIN rows
      /\ rows'[Len(rows) + 1] = e
      /\ \A i \in DOMAIN rows : rows'[i] = rows[i]
      BY <1>1, <1>3, <1>4, Grows
<1>6. TypeOK'
      BY <1>1, <1>5 DEF IInv, TypeOK, Steps
<1>7. TablesGrow
      BY <1>1, <1>5 DEF TablesGrow, StoredSwap
<1>8. UniqueInv'
      BY <1>1, <1>5 DEF IInv, UniqueInv, Recorded
<1>9. ToldInv'
      BY <1>1, <1>5 DEF IInv, ToldInv, Recorded
<1>10. /\ pc'[w] = "reply" /\ ask'[w] = ask[w]
       /\ \A v \in Workers \ {w} : Same(v)
       BY <1>1 DEF IInv, TypeOK, Same
<1>11. Recorded(ask[w].event)'
       BY <1>1, <1>5 DEF Recorded, e
<1>12. StepOf(w)' /\ BuildOf(w)'
       BY <1>1, <1>2, <1>10, <1>11 DEF StepOf, BuildOf, Recorded
<1>13. QED  BY <1>6, <1>7, <1>8, <1>9, <1>10, <1>12, OneThread

\* A partner is told what is on record.
LEMMA ReplyInv ==
  ASSUME IInv, NEW w \in Workers, Reply(w)
  PROVE  IInv'
<1>1. ask[w] \in Deliveries /\ Recorded(ask[w].event)
      BY DEF Reply, IInv, StepInv
<1>2. ask[w].event \in Events
      BY <1>1 DEF Deliveries
<1>3. /\ acknowledged' \subseteq Events /\ acknowledged \subseteq acknowledged'
      /\ \A e \in acknowledged' : Recorded(e)
      BY <1>1, <1>2 DEF Reply, IInv, TypeOK, ToldInv
<1>4. QED  BY <1>3, EndInv DEF Reply, clocks, IInv, TypeOK

\* A build that begins owes what was acknowledged, and the swap on file.
LEMMA BuildBegins ==
  ASSUME IInv, NEW w \in Workers, NEW b \in Builds, Build(w, b)
  PROVE  IInv'
<1> DEFINE due == { e \in acknowledged :
                      SoleId(e) /\ e.subject = b.subject /\ e.at >= now - b.window }
           debt == [events |-> due, swap |-> StoredSwap(b.subject)]
<1>1. /\ pc' = [pc EXCEPT ![w] = "read"] /\ ask' = [ask EXCEPT ![w] = b]
      /\ owed' = [owed EXCEPT ![w] = debt]
      /\ since' = [since EXCEPT ![w] = now - b.window]
      /\ UNCHANGED <<rows, users, acknowledged, seen, features, now, faults>>
      BY DEF Build, Begin, tables, clocks
<1>2. debt \in Debt
  <2>1. due \in SUBSET Events
        BY DEF IInv, TypeOK
  <2>2. StoredSwap(b.subject) \in BOOLEAN
    <3>1. b.subject \in Subjects
          BY ParameterAssumption
    <3>2. users[b.subject] \in UserRow \cup {NoUser}
          BY <3>1 DEF IInv, TypeOK
    <3>3. QED  BY <3>2 DEF StoredSwap, UserRow
  <2>3. QED  BY <2>1, <2>2 DEF Debt
<1>3. /\ debt.events = { e \in acknowledged :
                            SoleId(e) /\ e.subject = b.subject /\ e.at >= now - b.window }
      /\ debt.swap => StoredSwap(b.subject)
      OBVIOUS
<1> HIDE DEF debt
<1>4. TypeOK'
  <2>1. now - b.window \in Int
        BY ParameterAssumption DEF IInv, TypeOK
  <2>2. QED  BY <1>1, <1>2, <2>1 DEF IInv, TypeOK, Steps
<1>5. TablesGrow /\ UniqueInv' /\ ToldInv'
      BY <1>1, SameTables
<1>6. /\ pc'[w] = "read" /\ ask'[w] = b /\ owed'[w] = debt /\ since'[w] = now - b.window
      /\ \A v \in Workers \ {w} : Same(v)
      BY <1>1 DEF IInv, TypeOK, Same
<1>7. OwesPast(w)'
      BY <1>1, <1>3, <1>6 DEF OwesPast, StoredSwap, SoleId
<1>8. StepOf(w)' /\ BuildOf(w)'
      BY <1>6, <1>7 DEF StepOf, BuildOf
<1>9. QED  BY <1>4, <1>5, <1>6, <1>8, OneThread

\* What is owed and still in the window is among the rows that are read.
LEMMA ReadEventsInv ==
  ASSUME IInv, NEW w \in Workers, ReadEvents(w)
  PROVE  IInv'
<1> DEFINE hits == { i \in DOMAIN rows : /\ rows[i].subject = ask[w].subject
                                         /\ InWindow(rows[i], w) }
<1>1. /\ pc[w] = "read" /\ pc' = [pc EXCEPT ![w] = "user"]
      /\ seen' = [seen EXCEPT ![w] = hits]
      /\ UNCHANGED <<rows, users, acknowledged, ask, since, features, owed, now, faults>>
      BY DEF ReadEvents, Goto, tables, clocks
<1>2. ask[w] \in Builds /\ OwesPast(w)
      BY <1>1 DEF IInv, StepInv, BuildInv
<1>3. hits \subseteq { i \in DOMAIN rows : /\ rows[i].subject = ask[w].subject
                                          /\ rows[i].at >= since[w] }
      BY DEF InWindow
<1>4. hits \in SUBSET Nat
      BY DEF IInv, TypeOK
<1>5. owed[w].events \subseteq { rows[i] : i \in hits }
  <2>1. SUFFICES ASSUME NEW e \in owed[w].events PROVE \E i \in hits : rows[i] = e
        OBVIOUS
  <2>2. /\ e \in acknowledged /\ SoleId(e) /\ e.subject = ask[w].subject
        /\ e.at >= since[w]
        BY <1>2, <2>1 DEF OwesPast
  <2>3. PICK i \in DOMAIN rows : rows[i] = e
        BY <2>2, SoleIsEntry DEF IInv
  <2>4. QED  BY <2>2, <2>3 DEF InWindow
<1> HIDE DEF hits
<1>6. /\ pc'[w] = "user" /\ ask'[w] = ask[w] /\ seen'[w] = hits
      /\ owed'[w] = owed[w] /\ since'[w] = since[w]
      /\ \A v \in Workers \ {w} : Same(v)
      BY <1>1 DEF IInv, TypeOK, Same
<1>7. TypeOK'
      BY <1>1, <1>4 DEF IInv, TypeOK, Steps
<1>8. TablesGrow /\ UniqueInv' /\ ToldInv'
      BY <1>1, SameTables
<1>9. OwesPast(w)'
      BY <1>1, <1>2, <1>6 DEF OwesPast, StoredSwap, SoleId
<1>10. SeenPast(w)'
       BY <1>1, <1>3, <1>5, <1>6 DEF SeenPast
<1>11. StepOf(w)' /\ BuildOf(w)'
       BY <1>2, <1>6, <1>9, <1>10 DEF StepOf, BuildOf
<1>12. QED  BY <1>6, <1>7, <1>8, <1>11, OneThread

\* A build counts finitely many places.
LEMMA VisitedIsFinite ==
  ASSUME NEW w \in Workers, rows \in Seq(Events), seen[w] \subseteq DOMAIN rows
  PROVE  IsFiniteSet(Visited(w))
<1> DEFINE T == { j \in seen[w] : rows[j].kind = "location" }
           name == [i \in T |-> IF rows[i].place = NoPlace THEN i ELSE rows[i].place]
<1>1. IsFiniteSet(T)
      BY ReadIsFinite
<1>2. name \in Surjection(T, Visited(w))
  <2>1. Visited(w) = { name[i] : i \in T }
        BY DEF Visited
  <2>2. name \in [T -> Visited(w)] /\ \A t \in Visited(w) : \E i \in T : name[i] = t
        BY <2>1
  <2>3. QED  BY <2>2, Fun_IsSurj
<1>3. QED  BY <1>1, <1>2, FS_Surjection

\* The counts of a build are those of the rows it has read.
LEMMA ReadUserInv ==
  ASSUME IInv, NEW w \in Workers, ReadUser(w)
  PROVE  IInv'
<1> DEFINE f == FeaturesOf(w, ask[w].subject)
<1>1. /\ pc[w] = "user" /\ pc' = [pc EXCEPT ![w] = "built"]
      /\ features' = [features EXCEPT ![w] = f]
      /\ UNCHANGED <<rows, users, acknowledged, ask, since, seen, owed, now, faults>>
      BY DEF ReadUser, Goto, tables, clocks
<1>2. /\ ask[w] \in Builds /\ ask[w].subject \in Subjects
      /\ OwesPast(w) /\ SeenPast(w)
      BY <1>1, ParameterAssumption DEF IInv, StepInv, BuildInv
<1>3. seen[w] \subseteq DOMAIN rows /\ rows \in Seq(Events)
      BY <1>2 DEF SeenPast, IInv, TypeOK
<1>4. ASSUME NEW k PROVE Count(w, k) \in Nat
  <2>1. { i \in seen[w] : rows[i].kind = k } \subseteq DOMAIN rows
        BY <1>3
  <2>2. QED  BY <1>3, <2>1, ReadIsFinite DEF Count
<1>5. Cardinality(Visited(w)) \in Nat
      BY <1>3, VisitedIsFinite, FS_CardinalityType
<1>6. users[ask[w].subject] \in UserRow \cup {NoUser}
      BY <1>2 DEF IInv, TypeOK
<1>7. /\ f.late = Count(w, "late") /\ f.overdue = Count(w, "overdue")
      /\ f.service = Count(w, "service") /\ f.compliance = Count(w, "compliance")
      /\ f.location = IF Visited(w) = {} THEN 1 ELSE Cardinality(Visited(w))
      /\ f.swap <=> Count(w, "swap") > 0 \/ StoredSwap(ask[w].subject)
      BY DEF FeaturesOf
<1>8. f \in Features
  <2>1. (IF users[ask[w].subject] = NoUser THEN 0 ELSE users[ask[w].subject].pins) \in Nat
        BY <1>6, ParameterAssumption DEF UserRow
  <2>2. (Count(w, "swap") > 0 \/ StoredSwap(ask[w].subject)) \in BOOLEAN
        OBVIOUS
  <2>3. (IF Visited(w) = {} THEN 1 ELSE Cardinality(Visited(w))) \in Nat
        BY <1>5
  <2>4. /\ Count(w, "late") \in Nat /\ Count(w, "overdue") \in Nat
        /\ Count(w, "service") \in Nat /\ Count(w, "compliance") \in Nat
        BY <1>4
  <2>5. QED  BY <2>1, <2>2, <2>3, <2>4 DEF FeaturesOf, Features
<1> HIDE DEF f
<1>9. /\ pc'[w] = "built" /\ ask'[w] = ask[w] /\ features'[w] = f
      /\ seen'[w] = seen[w] /\ owed'[w] = owed[w] /\ since'[w] = since[w]
      /\ \A v \in Workers \ {w} : Same(v)
      BY <1>1 DEF IInv, TypeOK, Same
<1>10. TypeOK'
       BY <1>1, <1>8 DEF IInv, TypeOK, Steps
<1>11. TablesGrow /\ UniqueInv' /\ ToldInv'
       BY <1>1, SameTables
<1>12. OwesPast(w)' /\ SeenPast(w)'
       BY <1>1, <1>2, <1>9 DEF OwesPast, SeenPast, StoredSwap, SoleId
<1>13. Counted(w)'
  <2>1. owed[w].swap => StoredSwap(ask[w].subject)
        BY <1>2 DEF OwesPast
  <2>2. \A k : Count(w, k)' = Count(w, k)
        BY <1>1 DEF Count
  <2>3. Visited(w)' = Visited(w)
        BY <1>1 DEF Visited
  <2>4. StoredSwap(ask[w].subject)' <=> StoredSwap(ask[w].subject)
        BY <1>1 DEF StoredSwap
  <2>5. QED  BY <1>1, <1>7, <1>9, <2>1, <2>2, <2>3, <2>4 DEF Counted
<1>14. StepOf(w)' /\ BuildOf(w)'
       BY <1>2, <1>9, <1>12, <1>13 DEF StepOf, BuildOf
<1>15. QED  BY <1>9, <1>10, <1>11, <1>14, OneThread

\* What other handlers write to a user's row, and the clock, disturb nothing.
LEMMA OtherInv ==
  ASSUME IInv, UNCHANGED <<rows, acknowledged, pc, ask, since, seen, features, owed, faults>>,
         now' \in Nat, users' \in [Subjects -> UserRow \cup {NoUser}],
         \A s \in Subjects : StoredSwap(s) => StoredSwap(s)'
  PROVE  IInv'
<1>1. TablesGrow
      BY DEF TablesGrow
<1>2. TypeOK' /\ UniqueInv' /\ ToldInv'
      BY DEF IInv, TypeOK, UniqueInv, ToldInv, Recorded
<1>3. \A w \in Workers : Same(w)
      BY DEF Same
<1>4. \A w \in Workers : StepOf(w)' /\ BuildOf(w)'
      BY <1>1, <1>3, IdleThread
<1>5. StepInv'
      BY <1>4 DEF StepInv, StepOf
<1>6. BuildInv'
      BY <1>4 DEF BuildInv, BuildOf
<1>7. QED  BY <1>2, <1>5, <1>6 DEF IInv

\* Every step of the system keeps the inductive invariant.
LEMMA NextInv == IInv /\ [Next]_vars => IInv'
<1>1. SUFFICES ASSUME IInv, [Next]_vars PROVE IInv'
      OBVIOUS
<1>2. ASSUME UNCHANGED vars PROVE IInv'
      BY <1>1, <1>2, OtherInv DEF vars, IInv, TypeOK, StoredSwap
<1>3. ASSUME NEW w \in Workers, Handle(w) PROVE IInv'
  <2>1. ASSUME LoseIdRace(w) PROVE IInv'
        BY <1>1, <2>1, EndInv DEF LoseIdRace, tables, clocks, IInv, TypeOK, ToldInv
  <2>2. ASSUME Answer(w) PROVE IInv'
        BY <1>1, <2>2, EndInv DEF Answer, tables, clocks, IInv, TypeOK, ToldInv
  <2>3. QED  BY <1>1, <1>3, <2>1, <2>2, LookUpInv, InsertInv, ReplyInv,
                ReadEventsInv, ReadUserInv DEF Handle
<1>4. ASSUME NEW w \in Workers, Fault(w) PROVE IInv'
      BY <1>1, <1>4, EndInv DEF Fault, tables, IInv, TypeOK, ToldInv
<1>5. ASSUME NEW s \in Subjects, SwapIsStored(s) PROVE IInv'
  <2>1. /\ users[s] # NoUser /\ users' = [users EXCEPT ![s].swap = TRUE]
        /\ UNCHANGED <<rows, now, pc, ask, since, seen, features, owed, acknowledged, faults>>
        BY <1>5 DEF SwapIsStored, locals
  <2>2. users[s] \in UserRow /\ users[s].pins \in 0..MaxPins
        BY <1>1, <2>1 DEF IInv, TypeOK, UserRow
  <2>3. users'[s] \in UserRow /\ users'[s].swap
        BY <1>1, <2>1, <2>2 DEF IInv, TypeOK, UserRow
  <2>4. \A t \in Subjects \ {s} : users'[t] = users[t]
        BY <1>1, <2>1 DEF IInv, TypeOK
  <2>5. users' \in [Subjects -> UserRow \cup {NoUser}]
        BY <1>1, <2>1, <2>3, <2>4 DEF IInv, TypeOK
  <2>6. users'[s] # NoUser
        BY <2>3, ParameterAssumption DEF UserRow
  <2>7. \A t \in Subjects : StoredSwap(t) => StoredSwap(t)'
        BY <2>3, <2>4, <2>6 DEF StoredSwap
  <2>8. QED  BY <1>1, <2>1, <2>5, <2>7, OtherInv DEF IInv, TypeOK
<1>6. ASSUME NEW s \in Subjects, NEW n \in 0..MaxPins, PinChanges(s, n) PROVE IInv'
  <2>1. /\ users[s] # NoUser /\ users' = [users EXCEPT ![s].pins = n]
        /\ UNCHANGED <<rows, now, pc, ask, since, seen, features, owed, acknowledged, faults>>
        BY <1>6 DEF PinChanges, locals
  <2>2. users[s] \in UserRow
        BY <1>1, <2>1 DEF IInv, TypeOK
  <2>3. users'[s] \in UserRow /\ users'[s].swap = users[s].swap
        BY <1>1, <2>1, <2>2 DEF IInv, TypeOK, UserRow
  <2>4. \A t \in Subjects \ {s} : users'[t] = users[t]
        BY <1>1, <2>1 DEF IInv, TypeOK
  <2>5. users' \in [Subjects -> UserRow \cup {NoUser}]
        BY <1>1, <2>1, <2>3, <2>4 DEF IInv, TypeOK
  <2>6. users'[s] # NoUser
        BY <2>3, ParameterAssumption DEF UserRow
  <2>7. \A t \in Subjects : StoredSwap(t) => StoredSwap(t)'
        BY <2>3, <2>4, <2>6 DEF StoredSwap
  <2>8. QED  BY <1>1, <2>1, <2>5, <2>7, OtherInv DEF IInv, TypeOK
<1>7. ASSUME DayPasses PROVE IInv'
      BY <1>1, <1>7, OtherInv DEF DayPasses, tables, locals, IInv, TypeOK, StoredSwap
<1>8. QED  BY <1>1, <1>2, <1>3, <1>4, <1>5, <1>6, <1>7, DeliverInv, BuildBegins DEF Next

\* Ids on file are unique, partners are told the truth, and what a build has
\* read stays true, in every reachable state (partners.py:17-35,
\* partner_feature_builder.py:22-93).
THEOREM Inductive == Spec => []IInv
  BY InitInv, NextInv, PTL DEF Spec

-----------------------------------------------------------------------------
(* Refinement.                                                              *)

\* An INSERT is a Record of the log, a reply an Acknowledge, all else stutters.
LEMMA HandleRefines ==
  ASSUME IInv, NEW w \in Workers, Handle(w)
  PROVE  EventLog!Next \/ UNCHANGED <<rows, acknowledged>>
<1>1. ASSUME Insert(w) PROVE EventLog!Next
  <2>1. ask[w] \in Deliveries /\ ~Recorded(ask[w].event)
        BY <1>1 DEF Insert, IdTaken, Recorded, IInv, StepInv
  <2>2. ask[w].event \in Events
        BY <2>1 DEF Deliveries
  <2>3. EventLog!Record(ask[w].event)
        BY <1>1, <2>1 DEF EventLog!Record, EventLog!Logged, Recorded, Insert
  <2>4. QED  BY <2>2, <2>3 DEF EventLog!Next
<1>2. ASSUME Reply(w) PROVE EventLog!Next
  <2>1. ask[w] \in Deliveries /\ Recorded(ask[w].event)
        BY <1>2 DEF Reply, IInv, StepInv
  <2>2. ask[w].event \in Events
        BY <2>1 DEF Deliveries
  <2>3. EventLog!Acknowledge(ask[w].event)
        BY <1>2, <2>1 DEF EventLog!Acknowledge, EventLog!Logged, Recorded, Reply
  <2>4. QED  BY <2>2, <2>3 DEF EventLog!Next
<1>3. QED  BY <1>1, <1>2 DEF Handle, LookUp, LoseIdRace, ReadEvents, ReadUser, Answer, tables

\* The partner feed implements the event log: duplicated, overlapping and
\* failing deliveries record each id once (partners.py:17-35).
THEOREM Refinement == Spec => ImplementsEventLog
<1>1. Init => EventLog!Init
      BY DEF Init, EventLog!Init
<1>2. IInv /\ [Next]_vars => [EventLog!Next]_<<rows, acknowledged>>
  <2>1. SUFFICES ASSUME IInv, [Next]_vars
                 PROVE  EventLog!Next \/ UNCHANGED <<rows, acknowledged>>
        OBVIOUS
  <2>2. CASE \E w \in Workers : Handle(w)
        BY <2>1, <2>2, HandleRefines
  <2>3. CASE ~\E w \in Workers : Handle(w)
        BY <2>1, <2>3 DEF Next, vars, Fault, Deliver, Build, Begin, SwapIsStored,
                          PinChanges, DayPasses, tables
  <2>4. QED  BY <2>2, <2>3
<1>3. QED  BY <1>1, <1>2, Inductive, PTL DEF Spec, ImplementsEventLog, EventLog!Spec,
              EventLog!vars

-----------------------------------------------------------------------------
(* The features.                                                            *)

\* The rows of one kind that a build has read.
Hits(w, k) == { i \in seen[w] : rows[i].kind = k }

\* What a build has read lies between what it owes and what is on file.
LEMMA ReadBetween ==
  ASSUME IInv, NEW w \in Workers, pc[w] = "built"
  PROVE  /\ rows \in Seq(Events) /\ seen[w] \subseteq DOMAIN rows /\ Counted(w)
         /\ \A k : \A i \in Hits(w, k) : rows[i] \in OfKind(OnFile(w), k)
         /\ \A k : \A e \in OfKind(owed[w].events, k) : \E i \in Hits(w, k) : rows[i] = e
         /\ OnFile(w) \subseteq Events
<1>1. /\ SeenPast(w) /\ Counted(w) /\ rows \in Seq(Events)
      BY DEF IInv, BuildInv, TypeOK
<1>2. seen[w] \subseteq DOMAIN rows
      BY <1>1 DEF SeenPast
<1>3. \A i \in seen[w] : rows[i] \in OnFile(w)
      BY <1>1 DEF SeenPast, OnFile
<1>4. \A e \in owed[w].events : \E i \in seen[w] : rows[i] = e
      BY <1>1 DEF SeenPast
<1>5. OnFile(w) \subseteq Events
      BY <1>1 DEF OnFile
<1>6. QED  BY <1>1, <1>2, <1>3, <1>4, <1>5 DEF Hits, OfKind

\* What is on file of one kind is finite.
LEMMA OnFileIsFinite ==
  ASSUME NEW w \in Workers, NEW k, rows \in Seq(Events)
  PROVE  IsFiniteSet(OfKind(OnFile(w), k)) /\ Cardinality(OfKind(OnFile(w), k)) \in Nat
<1> DEFINE T == { i \in DOMAIN rows : rows[i] \in OfKind(OnFile(w), k) }
           entry == [i \in T |-> rows[i]]
<1>1. IsFiniteSet(T)
      BY ReadIsFinite
<1>2. entry \in Surjection(T, OfKind(OnFile(w), k))
  <2>1. \A e \in OfKind(OnFile(w), k) : \E i \in T : rows[i] = e
        BY DEF OfKind, OnFile
  <2>2. QED  BY <2>1, Fun_IsSurj
<1>3. QED  BY <1>1, <1>2, FS_Surjection, FS_CardinalityType

\* No event that is owed is missed.
LEMMA NoneMissed ==
  ASSUME IInv, NEW w \in Workers, pc[w] = "built", NEW k
  PROVE  Count(w, k) >= Cardinality(OfKind(owed[w].events, k))
<1> DEFINE O == OfKind(owed[w].events, k)
           T == { i \in Hits(w, k) : rows[i] \in O }
           entry == [i \in T |-> rows[i]]
<1>1. rows \in Seq(Events) /\ seen[w] \subseteq DOMAIN rows
      BY ReadBetween
<1>2. /\ IsFiniteSet(Hits(w, k)) /\ Count(w, k) = Cardinality(Hits(w, k))
      /\ Cardinality(Hits(w, k)) \in Nat
      BY <1>1, ReadIsFinite DEF Hits, Count
<1>3. IsFiniteSet(T) /\ Cardinality(T) <= Cardinality(Hits(w, k)) /\ Cardinality(T) \in Nat
      BY <1>2, FS_Subset, FS_CardinalityType
<1>4. entry \in Surjection(T, O)
  <2>1. \A e \in O : \E i \in T : rows[i] = e
        BY ReadBetween
  <2>2. QED  BY <2>1, Fun_IsSurj
<1>5. IsFiniteSet(O) /\ Cardinality(O) <= Cardinality(T)
      BY <1>3, <1>4, FS_Surjection
<1>6. Cardinality(O) \in Nat
      BY <1>5, FS_CardinalityType
<1>7. QED  BY <1>2, <1>3, <1>5, <1>6

\* No event is counted twice, and none that is not on file in the window.
LEMMA NoneTwice ==
  ASSUME IInv, NEW w \in Workers, pc[w] = "built", NEW k
  PROVE  Count(w, k) <= Cardinality(OfKind(OnFile(w), k))
<1> DEFINE O == OfKind(OnFile(w), k)
           entry == [i \in Hits(w, k) |-> rows[i]]
<1>1. rows \in Seq(Events) /\ seen[w] \subseteq DOMAIN rows
      BY ReadBetween
<1>2. IsFiniteSet(O)
      BY <1>1, OnFileIsFinite
<1>3. entry \in Injection(Hits(w, k), O)
  <2>1. \A i \in Hits(w, k) : rows[i] \in O
        BY ReadBetween
  <2>2. \A i, j \in Hits(w, k) : rows[i] = rows[j] => i = j
        BY <1>1 DEF IInv, UniqueInv, Hits
  <2> HIDE DEF O
  <2>3. QED  BY <2>1, <2>2, Fun_IsInj
<1>4. Cardinality(Hits(w, k)) <= Cardinality(O)
      BY <1>2, <1>3, FS_Injection
<1>5. QED  BY <1>4 DEF Count, Hits

\* The places a build has counted, by the rows it has read.
LEMMA VisitedRows ==
  ASSUME NEW w \in Workers
  PROVE  Visited(w) = { IF rows[i].place = NoPlace THEN i ELSE rows[i].place :
                          i \in Hits(w, "location") }
  BY DEF Visited, Hits

\* No place of an owed visit is missed.
LEMMA NoPlaceMissed ==
  ASSUME IInv, NEW w \in Workers, pc[w] = "built"
  PROVE  /\ Cardinality(Visited(w)) >= Cardinality(Spots(owed[w].events))
         /\ Cardinality(Spots(owed[w].events)) \in Nat
<1> DEFINE E == OfKind(owed[w].events, "location")
           P == Spots(owed[w].events)
           entry(e) == CHOOSE i \in Hits(w, "location") : rows[i] = e
           name == [p \in P |-> IF p \in E THEN entry(p) ELSE p]
<1>1. rows \in Seq(Events) /\ seen[w] \subseteq DOMAIN rows
      BY ReadBetween
<1>2. \A e \in E : entry(e) \in Hits(w, "location") /\ rows[entry(e)] = e
      BY ReadBetween
<1>3. Hits(w, "location") \subseteq Nat
      BY <1>1 DEF Hits
<1>4. E \subseteq Events
      BY <1>1, <1>2 DEF Hits
<1>5. \A p \in P : p \in Places \/ (p \in E /\ p.place = NoPlace)
      BY <1>4, EventFields DEF Spots
<1>6. \A p \in P : p \in Places => \E e \in E : e.place = p /\ e.place # NoPlace
  <2>1. ASSUME NEW p \in P, p \in Places PROVE \E e \in E : e.place = p /\ e.place # NoPlace
    <3>1. PICK e \in E : p = IF e.place = NoPlace THEN e ELSE e.place
          BY <2>1 DEF Spots
    <3>2. p # e
          BY <1>4, <2>1, ParameterAssumption
    <3>3. QED  BY <3>1, <3>2
  <2>2. QED  BY <2>1
<1> HIDE DEF E, P, entry
<1>7. name \in Injection(P, Visited(w))
  <2>1. ASSUME NEW p \in P PROVE name[p] \in Visited(w)
    <3>1. CASE p \in E
      <4>1. p \notin Places
            BY <1>4, <3>1, ParameterAssumption
      <4>2. name[p] = entry(p) /\ p.place = NoPlace
            BY <1>5, <2>1, <3>1, <4>1
      <4>3. QED  BY <1>2, <3>1, <4>2, VisitedRows
    <3>2. CASE p \notin E
      <4>1. PICK e \in E : e.place = p /\ e.place # NoPlace
            BY <1>5, <1>6, <2>1, <3>2
      <4>2. name[p] = p
            BY <2>1, <3>2
      <4>3. QED  BY <1>2, <4>1, <4>2, VisitedRows
    <3>3. QED  BY <3>1, <3>2
  <2>2. ASSUME NEW p \in P, NEW q \in P, name[p] = name[q] PROVE p = q
    <3>1. name[p] = (IF p \in E THEN entry(p) ELSE p) /\ name[q] = (IF q \in E THEN entry(q) ELSE q)
          BY <2>2
    <3>2. CASE p \in E /\ q \in E
          BY <1>2, <2>2, <3>1, <3>2
    <3>3. CASE p \notin E /\ q \notin E
          BY <2>2, <3>1, <3>3
    <3>4. CASE p \in E /\ q \notin E
      <4>1. entry(p) \in Nat /\ q \in Places
            BY <1>2, <1>3, <1>5, <3>4
      <4>2. QED  BY <2>2, <3>1, <3>4, <4>1, ParameterAssumption
    <3>5. CASE p \notin E /\ q \in E
      <4>1. entry(q) \in Nat /\ p \in Places
            BY <1>2, <1>3, <1>5, <3>5
      <4>2. QED  BY <2>2, <3>1, <3>5, <4>1, ParameterAssumption
    <3>6. QED  BY <3>2, <3>3, <3>4, <3>5
  <2>3. QED  BY <2>1, <2>2, Fun_IsInj
<1>8. IsFiniteSet(Visited(w))
      BY <1>1, VisitedIsFinite
<1>9. /\ IsFiniteSet(P) /\ Cardinality(P) <= Cardinality(Visited(w))
      /\ Cardinality(P) \in Nat /\ Cardinality(Visited(w)) \in Nat
      BY <1>7, <1>8, FS_Injection, FS_CardinalityType
<1>10. QED  BY <1>9 DEF P

\* No place is counted twice, and none that no visit on file in the window names.
LEMMA NoPlaceInvented ==
  ASSUME IInv, NEW w \in Workers, pc[w] = "built"
  PROVE  /\ Cardinality(Visited(w)) <= Cardinality(Spots(OnFile(w)))
         /\ Visited(w) # {} => Spots(OnFile(w)) # {}
         /\ Cardinality(Visited(w)) \in Nat /\ Cardinality(Spots(OnFile(w))) \in Nat
         /\ Spots(OnFile(w)) # {} => Cardinality(Spots(OnFile(w))) >= 1
<1> DEFINE E == OfKind(OnFile(w), "location")
           P == Spots(OnFile(w))
           H == Hits(w, "location")
           name == [v \in Visited(w) |-> IF v \in H THEN rows[v] ELSE v]
           spot == [e \in E |-> IF e.place = NoPlace THEN e ELSE e.place]
<1>1. /\ rows \in Seq(Events) /\ seen[w] \subseteq DOMAIN rows
      /\ \A i \in H : rows[i] \in E
      /\ E \subseteq Events
      BY ReadBetween DEF OfKind
<1>2. H \subseteq Nat /\ H \subseteq DOMAIN rows
      BY <1>1 DEF Hits
<1>3. P = { IF e.place = NoPlace THEN e ELSE e.place : e \in E }
      BY DEF Spots
<1>4. IsFiniteSet(P) /\ Cardinality(P) \in Nat
  <2>1. IsFiniteSet(E)
        BY <1>1, OnFileIsFinite
  <2>2. spot \in Surjection(E, P)
    <3>1. P = { spot[e] : e \in E }
          BY <1>3
    <3> HIDE DEF P, E
    <3>2. spot \in [E -> P] /\ \A p \in P : \E e \in E : spot[e] = p
          BY <3>1
    <3>3. QED  BY <3>2, Fun_IsSurj
  <2>3. QED  BY <2>1, <2>2, FS_Surjection, FS_CardinalityType
<1>5. Visited(w) = { IF rows[i].place = NoPlace THEN i ELSE rows[i].place : i \in H }
      BY VisitedRows
<1> HIDE DEF E, P, H
<1>6. ASSUME NEW v \in Visited(w)
      PROVE  \/ v \in H /\ rows[v].place = NoPlace
             \/ v \in Places /\ v \notin H /\ \E e \in E : e.place = v /\ e.place # NoPlace
  <2>1. PICK i \in H : v = IF rows[i].place = NoPlace THEN i ELSE rows[i].place
        BY <1>5, <1>6
  <2>2. CASE rows[i].place = NoPlace
        BY <2>1, <2>2
  <2>3. CASE rows[i].place # NoPlace
    <3>1. rows[i] \in E /\ rows[i] \in Events
          BY <1>1
    <3>2. v = rows[i].place /\ v \in Places
          BY <2>1, <2>3, <3>1, EventFields
    <3>3. v \notin H
          BY <1>2, <3>2, ParameterAssumption
    <3>4. QED  BY <2>3, <3>1, <3>2, <3>3
  <2>4. QED  BY <2>2, <2>3
<1>7. name \in Injection(Visited(w), P)
  <2>1. ASSUME NEW v \in Visited(w) PROVE name[v] \in P
    <3>1. CASE v \in H /\ rows[v].place = NoPlace
          BY <1>1, <1>3, <3>1
    <3>2. CASE v \notin H /\ \E e \in E : e.place = v /\ e.place # NoPlace
          BY <1>3, <3>2
    <3>3. QED  BY <1>6, <3>1, <3>2
  <2>2. ASSUME NEW v \in Visited(w), NEW u \in Visited(w), name[v] = name[u] PROVE v = u
    <3>1. name[v] = (IF v \in H THEN rows[v] ELSE v) /\ name[u] = (IF u \in H THEN rows[u] ELSE u)
          BY <2>2
    <3>2. CASE v \in H /\ u \in H
      <4>1. rows[v] = rows[u]
            BY <2>2, <3>1, <3>2
      <4>2. QED  BY <1>2, <3>2, <4>1 DEF IInv, UniqueInv
    <3>3. CASE v \notin H /\ u \notin H
          BY <2>2, <3>1, <3>3
    <3>4. CASE v \in H /\ u \notin H
      <4>1. rows[v] \in Events /\ u \in Places
            BY <1>1, <1>6, <3>4
      <4>2. QED  BY <2>2, <3>1, <3>4, <4>1, ParameterAssumption
    <3>5. CASE v \notin H /\ u \in H
      <4>1. rows[u] \in Events /\ v \in Places
            BY <1>1, <1>6, <3>5
      <4>2. QED  BY <2>2, <3>1, <3>5, <4>1, ParameterAssumption
    <3>6. QED  BY <3>2, <3>3, <3>4, <3>5
  <2>3. QED  BY <2>1, <2>2, Fun_IsInj
<1>8. /\ Cardinality(Visited(w)) <= Cardinality(P) /\ IsFiniteSet(Visited(w))
      /\ Cardinality(Visited(w)) \in Nat
      BY <1>4, <1>7, FS_Injection, FS_CardinalityType
<1>9. Visited(w) # {} => P # {}
  <2>1. \A v \in Visited(w) : name[v] \in P
        BY <1>7 DEF Injection
  <2>2. QED  BY <2>1
<1>10. P # {} => Cardinality(P) >= 1
  <2>1. Cardinality(P) = 0 <=> P = {}
        BY <1>4, FS_EmptySet
  <2>2. QED  BY <1>4, <2>1
<1>11. QED  BY <1>4, <1>8, <1>9, <1>10 DEF P

\* What a build answers lies between what was acknowledged before it began and
\* what is on file in its window when it is done, each event once, for any events
\* (partner_feature_builder.py:54-80).
THEOREM FeaturesMatch == Spec => []FeaturesMatchFeed
<1>1. IInv => FeaturesMatchFeed
  <2>1. SUFFICES ASSUME IInv, NEW w \in Workers, pc[w] = "built"
          PROVE  /\ \A kind \in {"late", "overdue", "service", "compliance"} :
                      /\ features[w][kind] >= Cardinality(OfKind(owed[w].events, kind))
                      /\ features[w][kind] <= Cardinality(OfKind(OnFile(w), kind))
                 /\ features[w].location >= Cardinality(Spots(owed[w].events))
                 /\ Spots(OnFile(w)) # {} =>
                      features[w].location <= Cardinality(Spots(OnFile(w)))
                 /\ Spots(OnFile(w)) = {} => features[w].location = 1
                 /\ owed[w].swap \/ OfKind(owed[w].events, "swap") # {} => features[w].swap
                 /\ features[w].swap =>
                      StoredSwap(ask[w].subject) \/ OfKind(OnFile(w), "swap") # {}
        BY DEF FeaturesMatchFeed
  <2>2. Counted(w) /\ rows \in Seq(Events) /\ seen[w] \subseteq DOMAIN rows
        BY <2>1, ReadBetween
  <2>3. ASSUME NEW kind \in {"late", "overdue", "service", "compliance"}
        PROVE  /\ features[w][kind] >= Cardinality(OfKind(owed[w].events, kind))
               /\ features[w][kind] <= Cardinality(OfKind(OnFile(w), kind))
    <3>1. features[w][kind] = Count(w, kind)
          BY <2>2 DEF Counted
    <3>2. QED  BY <2>1, <3>1, NoneMissed, NoneTwice
  <2>4. Count(w, "swap") > 0 <=> Hits(w, "swap") # {}
    <3>1. IsFiniteSet(Hits(w, "swap")) /\ Cardinality(Hits(w, "swap")) \in Nat
          BY <2>2, ReadIsFinite DEF Hits
    <3>2. Cardinality(Hits(w, "swap")) = 0 <=> Hits(w, "swap") = {}
          BY <3>1, FS_EmptySet
    <3>3. Count(w, "swap") = Cardinality(Hits(w, "swap"))
          BY DEF Count, Hits
    <3>4. QED  BY <3>1, <3>2, <3>3
  <2>5. /\ OfKind(owed[w].events, "swap") # {} => Hits(w, "swap") # {}
        /\ Hits(w, "swap") # {} => OfKind(OnFile(w), "swap") # {}
        BY <2>1, ReadBetween
  <2>6. /\ owed[w].swap \/ OfKind(owed[w].events, "swap") # {} => features[w].swap
        /\ features[w].swap => StoredSwap(ask[w].subject) \/ OfKind(OnFile(w), "swap") # {}
        BY <2>2, <2>4, <2>5 DEF Counted
  <2>7. /\ features[w].location >= Cardinality(Spots(owed[w].events))
        /\ Spots(OnFile(w)) # {} => features[w].location <= Cardinality(Spots(OnFile(w)))
        /\ Spots(OnFile(w)) = {} => features[w].location = 1
    <3>1. features[w].location = IF Visited(w) = {} THEN 1 ELSE Cardinality(Visited(w))
          BY <2>2 DEF Counted
    <3>2. Visited(w) = {} => Cardinality(Visited(w)) = 0
          BY FS_EmptySet
    <3>3. QED  BY <2>1, <3>1, <3>2, NoPlaceMissed, NoPlaceInvented
  <2>8. QED  BY <2>3, <2>6, <2>7
<1>2. QED  BY <1>1, Inductive, PTL

=============================================================================
