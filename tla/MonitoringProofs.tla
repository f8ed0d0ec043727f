-------------------------- MODULE MonitoringProofs --------------------------
(***************************************************************************)
(* Proofs about risk monitoring, for any number of overlapping requests,   *)
(* devices, subjects, events and faults, and any windows and threshold.    *)
(***************************************************************************)
EXTENDS Monitoring, FiniteSetTheorems, TLAPS

-----------------------------------------------------------------------------
(* Lemmas about the tables.                                                 *)

\* The positions of a table that a query selects are finitely many.
LEMMA FiniteSelection ==
  ASSUME NEW s \in Seq(Events), NEW T \in SUBSET (DOMAIN s)
  PROVE  IsFiniteSet(T) /\ Cardinality(T) \in Nat
<1>1. DOMAIN s = 1..Len(s) /\ Len(s) \in Nat
      OBVIOUS
<1>2. IsFiniteSet(DOMAIN s)
      BY <1>1, FS_Interval
<1>3. IsFiniteSet(T)
      BY <1>2, FS_Subset
<1>4. QED  BY <1>3, FS_CardinalityType

\* A query that selects more counts at least as many.
LEMMA MoreSelected ==
  ASSUME NEW s \in Seq(Events), NEW S \in SUBSET (DOMAIN s), NEW T \in SUBSET S
  PROVE  Cardinality(T) <= Cardinality(S)
<1>1. IsFiniteSet(S)
      BY FiniteSelection
<1>2. QED  BY <1>1, FS_Subset

\* Rows are only ever added to the table of events, and the clock does not run
\* backwards.
Grew ==
  /\ Len(events) <= Len(events')
  /\ \A i \in 1..Len(events) : events'[i] = events[i]
  /\ now <= now'

\* The positions on file stay on file.
LEMMA OnFile ==
  ASSUME TypeOK, TypeOK', Grew
  PROVE  /\ DOMAIN events = 1..Len(events) /\ Len(events) \in Nat
         /\ DOMAIN events' = 1..Len(events') /\ Len(events') \in Nat
         /\ DOMAIN events \subseteq DOMAIN events'
         /\ \A i \in DOMAIN events : events'[i] = events[i]
<1>1. /\ DOMAIN events = 1..Len(events) /\ Len(events) \in Nat
      /\ DOMAIN events' = 1..Len(events') /\ Len(events') \in Nat
      BY DEF TypeOK
<1>2. QED  BY <1>1 DEF Grew

\* Leaving the table alone, or appending a row to it, makes it grow.
LEMMA AppendGrows ==
  ASSUME TypeOK, now <= now',
         events' = events \/ \E r \in Events : events' = Append(events, r)
  PROVE  Grew
<1>1. CASE events' = events
      BY <1>1 DEF Grew, TypeOK
<1>2. CASE \E r \in Events : events' = Append(events, r)
      BY <1>2 DEF Grew, TypeOK
<1>3. QED  BY <1>1, <1>2

\* The attempts of a period stay attempts of that period.
LEMMA AttemptsStay ==
  ASSUME TypeOK, TypeOK', Grew, NEW d, NEW from, NEW to
  PROVE  Cardinality(AttemptsBetween(d, from, to))
           <= Cardinality(AttemptsBetween(d, from, to)')
<1>1. AttemptsBetween(d, from, to) \subseteq AttemptsBetween(d, from, to)'
      BY OnFile DEF AttemptsBetween
<1>2. AttemptsBetween(d, from, to)' \in SUBSET (DOMAIN events')
      BY DEF AttemptsBetween
<1>3. events' \in Seq(Events)
      BY DEF TypeOK
<1>4. QED  BY <1>1, <1>2, <1>3, MoreSelected

\* An aggregation that reaches back to the start of a period shows its attempts:
\* each is a login or a requested approval, and none is both.
LEMMA Shown ==
  ASSUME TypeOK', NEW d, NEW from \in Int, NEW to \in Int, NEW n \in Int,
         from >= now' - LongWindow,
         Cardinality(AttemptsBetween(d, from, to)') >= n
  PROVE  (LET shown == AggregateForDevice(d, LongWindow)
          IN shown.login_attempts + shown.approvals_requested >= n)'
<1> DEFINE Of(type) == { i \in DOMAIN events' :
      events'[i].device = d /\ events'[i].at >= now' - LongWindow /\ events'[i].type = type }
<1>1. events' \in Seq(Events) /\ now' \in Nat /\ LongWindow \in Nat
      BY NumberAssumption DEF TypeOK
<1>2. Of("login") \cap Of("approval_requested") = {}
      OBVIOUS
<1>3. AttemptsBetween(d, from, to)' \subseteq Of("login") \cup Of("approval_requested")
  <2>1. SUFFICES ASSUME NEW i \in AttemptsBetween(d, from, to)'
                 PROVE  i \in Of("login") \cup Of("approval_requested")
        OBVIOUS
  <2>2. /\ i \in DOMAIN events' /\ events'[i].device = d
        /\ events'[i].type \in {"login", "approval_requested"}
        /\ events'[i].at \in from..to
        BY <2>1 DEF AttemptsBetween
  <2> DEFINE since == now' - LongWindow
  <2>3. since \in Int
        BY <1>1
  <2>4. from >= since
        OBVIOUS
  <2> HIDE DEF since
  <2>5. \A t \in from..to : t >= since
        BY <2>3, <2>4
  <2>6. events'[i].at >= now' - LongWindow
        BY <2>2, <2>5 DEF since
  <2>7. QED  BY <2>2, <2>6
<1>4. \A type : Of(type) \in SUBSET (DOMAIN events')
      OBVIOUS
<1>5. (LET shown == AggregateForDevice(d, LongWindow)
       IN shown.login_attempts + shown.approvals_requested)'
      = Cardinality(Of("login")) + Cardinality(Of("approval_requested"))
      BY DEF AggregateForDevice
<1> HIDE DEF Of
<1>6. /\ IsFiniteSet(Of("login")) /\ Cardinality(Of("login")) \in Nat
      /\ IsFiniteSet(Of("approval_requested"))
      /\ Cardinality(Of("approval_requested")) \in Nat
      BY <1>1, <1>4, FiniteSelection
<1>7. Cardinality(Of("login") \cup Of("approval_requested"))
        = Cardinality(Of("login")) + Cardinality(Of("approval_requested"))
      BY <1>2, <1>6, FS_Union, FS_EmptySet
<1>8. Cardinality(AttemptsBetween(d, from, to)')
        <= Cardinality(Of("login") \cup Of("approval_requested"))
      BY <1>1, <1>3, <1>4, MoreSelected
<1>9. Cardinality(AttemptsBetween(d, from, to)') \in Nat
      BY <1>1, FiniteSelection DEF AttemptsBetween
<1>10. QED  BY <1>5, <1>6, <1>7, <1>8, <1>9

-----------------------------------------------------------------------------
(* What holds of one request, and of the alerts, as the tables grow.        *)

\* What the inductive invariant says of one request.
CallOK(c) ==
  /\ pc[c] = "commit" => ask[c] \in Events /\ ask[c].at <= now
  /\ pc[c] \in {"since", "count", "warn", "unusual", "inform", "reply"} =>
       mine[c] \in DOMAIN events
  /\ pc[c] \in {"since", "count", "warn", "unusual", "inform"} => Device(c) # NoDevice
  /\ pc[c] \in {"unusual", "inform"} => Subject(c) # NoSubject
  /\ pc[c] = "warn" =>
       /\ counted[c] >= Threshold
       /\ Cardinality(AttemptsBetween(Device(c), checked[c] - Window, looked[c])) >= counted[c]
       /\ counted[c] >= Cardinality(Known(c))
  /\ pc[c] = "inform" => \A i \in 1..mine[c] : ~Binds(i, Subject(c), Device(c))
  /\ pc[c] \in {"unusual", "inform", "reply"} /\ Device(c) # NoDevice
       /\ Cardinality(Known(c)) >= Threshold
     => \E a \in alerts : /\ a.monitor = "excessive_attempts" /\ a.device = Device(c)
                          /\ a.count >= Cardinality(Known(c))
  /\ pc[c] = "reply" /\ Device(c) # NoDevice /\ Subject(c) # NoSubject =>
       \/ \E i \in DOMAIN events : Binds(i, Subject(c), Device(c))
       \/ \E a \in alerts : /\ a.monitor = "unusual_device"
                            /\ a.device = Device(c) /\ a.subject = Subject(c)

\* The invariant holds of each request.
LEMMA OfEachCall == ASSUME IInv PROVE \A c \in Calls : CallOK(c)
  BY DEF IInv, StampInv, CallInv, WarnInv, InformInv, AttemptsNoticed,
         NewDeviceFlagged, CallOK

\* The invariant holds after a step if it does of each request, of the stamps
\* and of the alerts.
LEMMA Together ==
  ASSUME TypeOK', \A i \in DOMAIN events' : events'[i].at <= now',
         \A a \in alerts' : Justified(a)', \A c \in Calls : CallOK(c)'
  PROVE  IInv'
<1>1. StampInv' /\ CallInv' /\ InformInv'
      BY DEF StampInv, CallInv, InformInv, CallOK
<1>2. WarnInv'
      BY DEF WarnInv, CallOK
<1>3. AttemptsNoticed' /\ NewDeviceFlagged'
      BY DEF AttemptsNoticed, NewDeviceFlagged, CallOK
<1>4. AlertsJustified'
      BY DEF AlertsJustified
<1>5. QED  BY <1>1, <1>2, <1>3, <1>4 DEF IInv

\* A request's device, subject and known attempts do not change while it keeps
\* its event and the time of its check.
LEMMA SameEvent ==
  ASSUME TypeOK, TypeOK', Grew, NEW c \in Calls, mine[c] \in DOMAIN events,
         mine'[c] = mine[c]
  PROVE  /\ Device(c)' = Device(c) /\ Subject(c)' = Subject(c)
         /\ \A i \in 1..mine[c] : /\ i \in DOMAIN events /\ i \in DOMAIN events'
                                  /\ events'[i] = events[i]
         /\ checked'[c] = checked[c] => Known(c)' = Known(c)
<1>1. /\ mine[c] \in 1..Len(events) /\ Len(events) \in Nat
      /\ DOMAIN events = 1..Len(events)
      /\ DOMAIN events \subseteq DOMAIN events'
      /\ \A i \in DOMAIN events : events'[i] = events[i]
      BY OnFile
<1>2. Device(c)' = Device(c) /\ Subject(c)' = Subject(c)
      BY <1>1 DEF Device, Subject
<1>3. \A i \in 1..mine[c] : i \in 1..Len(events)
      BY <1>1
<1>4. ASSUME checked'[c] = checked[c] PROVE Known(c)' = Known(c)
      BY <1>1, <1>2, <1>3, <1>4 DEF Known
<1>5. QED  BY <1>1, <1>2, <1>3, <1>4

\* A request that does not move keeps its part of the invariant, whatever the
\* others add to the tables.
LEMMA OtherCall ==
  ASSUME TypeOK, TypeOK', Grew, alerts \subseteq alerts',
         NEW c \in Calls, CallOK(c),
         pc'[c] = pc[c], ask'[c] = ask[c], mine'[c] = mine[c],
         counted'[c] = counted[c], checked'[c] = checked[c], looked'[c] = looked[c]
  PROVE  CallOK(c)'
<1> DEFINE past == {"since", "count", "warn", "unusual", "inform", "reply"}
<1>1. CASE pc[c] \notin past
  <2>1. ASSUME pc[c] = "commit" PROVE ask[c] \in Events /\ ask[c].at <= now'
    <3>1. ask[c] \in Events /\ ask[c].at <= now
          BY <2>1 DEF CallOK
    <3>2. ask[c].at \in Nat /\ now \in Nat /\ now' \in Nat /\ now <= now'
          BY <3>1 DEF Events, TypeOK, Grew
    <3>3. QED  BY <3>1, <3>2
  <2>2. QED  BY <1>1, <2>1 DEF CallOK
<1>2. CASE pc[c] \in past
  <2>1. mine[c] \in DOMAIN events
        BY <1>2 DEF CallOK
  <2>2. /\ Device(c)' = Device(c) /\ Subject(c)' = Subject(c)
        /\ \A i \in 1..mine[c] : /\ i \in DOMAIN events /\ i \in DOMAIN events'
                                 /\ events'[i] = events[i]
        /\ Known(c)' = Known(c)
        BY <2>1, SameEvent
  <2>3. mine'[c] \in DOMAIN events'
        BY <2>1, OnFile
  <2>4. ASSUME pc[c] = "warn"
        PROVE  Cardinality(AttemptsBetween(Device(c), checked[c] - Window, looked[c])')
                 >= counted[c]
    <3> DEFINE S == AttemptsBetween(Device(c), checked[c] - Window, looked[c])
    <3>1. S \subseteq S'
          BY <2>2, OnFile DEF AttemptsBetween
    <3>2. S \in SUBSET (DOMAIN events) /\ S' \in SUBSET (DOMAIN events')
          BY DEF AttemptsBetween
    <3>3. Cardinality(S) >= counted[c]
          BY <2>4 DEF CallOK
    <3>4. events \in Seq(Events) /\ events' \in Seq(Events) /\ counted[c] \in Nat
          BY DEF TypeOK
    <3> HIDE DEF S
    <3>5. Cardinality(S) \in Nat /\ Cardinality(S') \in Nat
          BY <3>2, <3>4, FiniteSelection
    <3>6. Cardinality(S) <= Cardinality(S')
          BY <3>1, <3>2, <3>4, MoreSelected
    <3>7. Cardinality(S') >= counted[c]
          BY <3>3, <3>4, <3>5, <3>6
    <3>8. QED  BY <3>7 DEF S
  <2>5. \A i \in 1..mine[c] : Binds(i, Subject(c), Device(c))'
                                <=> Binds(i, Subject(c), Device(c))
        BY <2>2 DEF Binds
  <2>6. ASSUME NEW i \in DOMAIN events, Binds(i, Subject(c), Device(c))
        PROVE  i \in DOMAIN events' /\ Binds(i, Subject(c), Device(c))'
        BY <2>2, <2>6, OnFile DEF Binds
  <2>7. QED
        BY <1>2, <2>2, <2>3, <2>4, <2>5, <2>6 DEF CallOK
<1>3. QED  BY <1>1, <1>2

\* An alert that enough attempts justify is shown by the aggregations to come.
LEMMA AttemptsJustify ==
  ASSUME TypeOK', NEW a \in Alerts, a.monitor = "excessive_attempts",
         a.count >= Threshold,
         Cardinality(AttemptsBetween(a.device, a.checked - Window, a.looked)') >= a.count
  PROVE  Justified(a)'
<1>1. a.checked \in Nat /\ a.looked \in Nat /\ a.count \in Nat /\ Window \in Nat
      BY NumberAssumption DEF Alerts
<1>2. a.checked - Window \in Int /\ a.looked \in Int /\ a.count \in Int
      BY <1>1
<1>3. ASSUME a.checked - Window >= now' - LongWindow
      PROVE  (LET shown == AggregateForDevice(a.device, LongWindow)
              IN shown.login_attempts + shown.approvals_requested >= a.count)'
      BY <1>2, <1>3, Shown
<1>4. QED  BY <1>3 DEF Justified

\* What justified an alert is never taken back.
LEMMA StaysJustified ==
  ASSUME TypeOK, TypeOK', Grew, NEW a \in Alerts, Justified(a)
  PROVE  Justified(a)'
<1>1. CASE a.monitor = "excessive_attempts"
  <2> DEFINE S == AttemptsBetween(a.device, a.checked - Window, a.looked)
  <2>1. Cardinality(S) >= a.count /\ a.count >= Threshold
        BY <1>1 DEF Justified
  <2>2. Cardinality(S) <= Cardinality(S')
        BY AttemptsStay
  <2>3. S \in SUBSET (DOMAIN events) /\ S' \in SUBSET (DOMAIN events')
        BY DEF AttemptsBetween
  <2>4. /\ events \in Seq(Events) /\ events' \in Seq(Events) /\ a.count \in Nat
        BY DEF TypeOK, Alerts
  <2> HIDE DEF S
  <2>5. Cardinality(S) \in Nat /\ Cardinality(S') \in Nat
        BY <2>3, <2>4, FiniteSelection
  <2>6. Cardinality(S') >= a.count
        BY <2>1, <2>2, <2>4, <2>5
  <2>7. QED  BY <1>1, <2>1, <2>6, AttemptsJustify DEF S
<1>2. CASE a.monitor = "unusual_device"
  <2>1. /\ a.event \in DOMAIN events
        /\ events[a.event].device = a.device /\ events[a.event].subject = a.subject
        /\ \A i \in 1..a.event : ~Binds(i, a.subject, a.device)
        BY <1>2 DEF Justified
  <2>2. \A i \in 1..a.event : i \in DOMAIN events
        BY <2>1, OnFile
  <2>3. \A i \in 1..a.event : ~Binds(i, a.subject, a.device)'
        BY <2>1, <2>2, OnFile DEF Binds
  <2>4. QED  BY <1>2, <2>1, <2>3, OnFile DEF Justified
<1>3. QED  BY <1>1, <1>2 DEF Alerts

\* A step that only adds an event or an alert keeps the invariant if it leaves
\* the request that takes it, and the new alert, in order.
LEMMA OneCall ==
  ASSUME IInv, TypeOK', Grew, alerts \subseteq alerts', NEW c \in Calls,
         \A i \in DOMAIN events' \ DOMAIN events : events'[i].at <= now',
         \A a \in alerts' \ alerts : Justified(a)',
         \A d \in Calls \ {c} :
           /\ pc'[d] = pc[d] /\ ask'[d] = ask[d] /\ mine'[d] = mine[d]
           /\ counted'[d] = counted[d] /\ checked'[d] = checked[d]
           /\ looked'[d] = looked[d],
         CallOK(c)'
  PROVE  IInv'
<1>1. TypeOK
      BY DEF IInv
<1>2. ASSUME NEW d \in Calls PROVE CallOK(d)'
  <2>1. CASE d = c
        BY <2>1
  <2>2. CASE d # c
    <3>1. CallOK(d)
          BY OfEachCall
    <3>2. QED  BY <1>1, <2>2, <3>1, OtherCall
  <2>3. QED  BY <2>1, <2>2
<1>3. ASSUME NEW i \in DOMAIN events' PROVE events'[i].at <= now'
  <2>1. CASE i \in DOMAIN events
    <3>1. events[i].at <= now /\ events'[i] = events[i]
          BY <1>1, <2>1, OnFile DEF IInv, StampInv
    <3>2. events[i] \in Events
          BY <1>1, <2>1 DEF TypeOK
    <3>3. events[i].at \in Nat
          BY <3>2 DEF Events
    <3>4. now \in Nat /\ now' \in Nat /\ now <= now'
          BY <1>1 DEF TypeOK, Grew
    <3>5. QED  BY <3>1, <3>3, <3>4
  <2>2. QED  BY <1>3, <2>1
<1>4. ASSUME NEW a \in alerts' PROVE Justified(a)'
  <2>1. CASE a \in alerts
    <3>1. a \in Alerts /\ Justified(a)
          BY <1>1, <2>1 DEF TypeOK, IInv, AlertsJustified
    <3>2. QED  BY <1>1, <3>1, StaysJustified
  <2>2. QED  BY <1>4, <2>1
<1>5. QED  BY <1>2, <1>3, <1>4, Together

-----------------------------------------------------------------------------
(* One lemma per action.                                                    *)

\* What an action leaves to the other requests.
LEMMA Elsewhere ==
  ASSUME TypeOK, NEW c \in Calls, NEW step,
         pc' = [pc EXCEPT ![c] = step],
         ask' = ask \/ \E v : ask' = [ask EXCEPT ![c] = v],
         mine' = mine \/ \E v : mine' = [mine EXCEPT ![c] = v],
         counted' = counted \/ \E v : counted' = [counted EXCEPT ![c] = v],
         checked' = checked \/ \E v : checked' = [checked EXCEPT ![c] = v],
         looked' = looked \/ \E v : looked' = [looked EXCEPT ![c] = v]
  PROVE  /\ pc'[c] = step
         /\ \A d \in Calls \ {c} :
              /\ pc'[d] = pc[d] /\ ask'[d] = ask[d] /\ mine'[d] = mine[d]
              /\ counted'[d] = counted[d] /\ checked'[d] = checked[d]
              /\ looked'[d] = looked[d]
  BY DEF TypeOK

\* The row that will be stored is stamped with the time it is sent.
LEMMA EmitInv ==
  ASSUME IInv, NEW c \in Calls, NEW p \in Payloads, Emit(c, p)
  PROVE  IInv'
<1> DEFINE row == [type |-> p.type, device |-> p.device, subject |-> p.subject, at |-> now]
<1>1. TypeOK
      BY DEF IInv
<1>2. /\ pc' = [pc EXCEPT ![c] = "commit"] /\ ask' = [ask EXCEPT ![c] = row]
      /\ UNCHANGED <<events, alerts, now, mine, counted, checked, looked, faults>>
      BY DEF Emit, Goto
<1>3. row \in Events /\ row.at = now
      BY <1>1, PayloadAssumption DEF TypeOK, Events
<1> HIDE DEF row
<1>4. TypeOK'
      BY <1>1, <1>2, <1>3 DEF TypeOK, Steps
<1>5. Grew
      BY <1>1, <1>2, AppendGrows DEF TypeOK
<1>6. pc'[c] = "commit" /\ ask'[c] = row /\ now \in Nat
      BY <1>1, <1>2 DEF TypeOK
<1>7. CallOK(c)'
      BY <1>2, <1>3, <1>6 DEF CallOK
<1>8. \A d \in Calls \ {c} :
        /\ pc'[d] = pc[d] /\ ask'[d] = ask[d] /\ mine'[d] = mine[d]
        /\ counted'[d] = counted[d] /\ checked'[d] = checked[d]
        /\ looked'[d] = looked[d]
      BY <1>1, <1>2, Elsewhere
<1>9. QED  BY <1>2, <1>4, <1>5, <1>7, <1>8, OneCall

\* A committed event was stamped no later than now; its monitors come next.
LEMMA CommitInv ==
  ASSUME IInv, NEW c \in Calls, Commit(c)
  PROVE  IInv'
<1> DEFINE step == IF ask[c].device = NoDevice THEN "reply" ELSE "since"
<1>1. TypeOK /\ CallOK(c)
      BY OfEachCall DEF IInv
<1>2. /\ pc[c] = "commit" /\ pc' = [pc EXCEPT ![c] = step]
      /\ events' = Append(events, ask[c])
      /\ mine' = [mine EXCEPT ![c] = Len(events) + 1]
      /\ ask' = [ask EXCEPT ![c] = NoEvent]
      /\ UNCHANGED <<alerts, now, counted, checked, looked, faults>>
      BY DEF Commit, Goto
<1>3. ask[c] \in Events /\ ask[c].at <= now
      BY <1>1, <1>2 DEF CallOK
<1>4. /\ events \in Seq(Events) /\ Len(events) \in Nat
      /\ DOMAIN events = 1..Len(events)
      /\ events' \in Seq(Events) /\ DOMAIN events' = 1..(Len(events) + 1)
      /\ events'[Len(events) + 1] = ask[c]
      BY <1>1, <1>2, <1>3 DEF TypeOK
<1>5. TypeOK'
  <2>1. step \in Steps
        BY DEF Steps
  <2> HIDE DEF step
  <2>2. pc' \in [Calls -> Steps]
        BY <1>1, <1>2, <2>1 DEF TypeOK
  <2>3. mine' \in [Calls -> Nat] /\ ask' \in [Calls -> Events \cup {NoEvent}]
        BY <1>1, <1>2, <1>4 DEF TypeOK
  <2>4. QED  BY <1>1, <1>2, <1>4, <2>2, <2>3 DEF TypeOK
<1>6. Grew
  <2>1. now <= now'
        BY <1>1, <1>2 DEF TypeOK
  <2>2. QED  BY <1>1, <1>2, <1>3, <2>1, AppendGrows
<1>7. pc'[c] = step /\ mine'[c] = Len(events) + 1 /\ Device(c)' = ask[c].device
  <2> HIDE DEF step
  <2>1. QED  BY <1>1, <1>2, <1>4 DEF TypeOK, Device
<1>8. CallOK(c)'
  <2>1. mine'[c] \in DOMAIN events'
        BY <1>4, <1>7
  <2>2. CASE ask[c].device = NoDevice
        BY <1>7, <2>1, <2>2 DEF CallOK
  <2>3. CASE ask[c].device # NoDevice
        BY <1>7, <2>1, <2>3 DEF CallOK
  <2>4. QED  BY <2>2, <2>3
<1>9. \A d \in Calls \ {c} :
        /\ pc'[d] = pc[d] /\ ask'[d] = ask[d] /\ mine'[d] = mine[d]
        /\ counted'[d] = counted[d] /\ checked'[d] = checked[d]
        /\ looked'[d] = looked[d]
  <2> HIDE DEF step
  <2>1. QED  BY <1>1, <1>2, Elsewhere
<1>10. \A i \in DOMAIN events' \ DOMAIN events : events'[i].at <= now'
      BY <1>2, <1>3, <1>4
<1> HIDE DEF step
<1>11. QED  BY <1>2, <1>5, <1>6, <1>8, <1>9, <1>10, OneCall

\* The window of a request is fixed before it counts.
LEMMA SinceInv ==
  ASSUME IInv, NEW c \in Calls, Since(c)
  PROVE  IInv'
<1>1. TypeOK /\ CallOK(c)
      BY OfEachCall DEF IInv
<1>2. /\ pc[c] = "since" /\ pc' = [pc EXCEPT ![c] = "count"]
      /\ checked' = [checked EXCEPT ![c] = now]
      /\ UNCHANGED <<events, alerts, now, ask, mine, counted, looked, faults>>
      BY DEF Since, Goto
<1>3. mine[c] \in DOMAIN events /\ Device(c) # NoDevice /\ now \in Nat
      BY <1>1, <1>2 DEF CallOK, TypeOK
<1>4. TypeOK'
      BY <1>1, <1>2, <1>3 DEF TypeOK, Steps
<1>5. Grew
      BY <1>1, <1>2, <1>3, AppendGrows
<1>6. /\ pc'[c] = "count"
      /\ \A d \in Calls \ {c} :
           /\ pc'[d] = pc[d] /\ ask'[d] = ask[d] /\ mine'[d] = mine[d]
           /\ counted'[d] = counted[d] /\ checked'[d] = checked[d]
           /\ looked'[d] = looked[d]
      BY <1>1, <1>2, Elsewhere
<1>7. Device(c)' = Device(c) /\ mine'[c] \in DOMAIN events'
      BY <1>2, <1>3 DEF Device
<1>8. CallOK(c)'
      BY <1>3, <1>6, <1>7 DEF CallOK
<1>9. QED  BY <1>2, <1>4, <1>5, <1>6, <1>8, OneCall

\* A request that counts sees its own event and all that came before it: either
\* it will warn, or it knows of too few.
LEMMA CountInv ==
  ASSUME IInv, NEW c \in Calls, Count(c)
  PROVE  IInv'
<1> DEFINE n    == Cardinality(Attempts(Device(c), checked[c] - Window))
           step == IF n >= Threshold THEN "warn" ELSE SecondMonitor(c)
<1>1. TypeOK /\ CallOK(c) /\ StampInv
      BY OfEachCall DEF IInv
<1>2. /\ pc[c] = "count"
      /\ counted' = [counted EXCEPT ![c] = n]
      /\ looked' = [looked EXCEPT ![c] = now]
      /\ UNCHANGED <<events, alerts, now, ask, mine, checked, faults>>
      BY DEF Count
<1>3. /\ events \in Seq(Events) /\ now \in Nat /\ Window \in Nat
      /\ Threshold \in Nat /\ checked[c] \in Nat /\ mine[c] \in DOMAIN events /\ Device(c) # NoDevice
      BY <1>1, <1>2, NumberAssumption DEF TypeOK, CallOK
<1>4. n \in Nat
      BY <1>3, FiniteSelection DEF Attempts
<1> HIDE DEF n
<1>5. counted'[c] = n /\ looked'[c] = now /\ checked'[c] = checked[c]
      BY <1>1, <1>2 DEF TypeOK
<1>6. pc' = [pc EXCEPT ![c] = step]
      BY <1>5 DEF Count, Goto
<1>7. step \in {"warn", "unusual", "reply"}
      /\ (step = "warn" <=> n >= Threshold)
      /\ (step = "unusual" => Subject(c) # NoSubject)
      /\ (step = "reply" => Subject(c) = NoSubject)
      BY DEF SecondMonitor
<1> HIDE DEF step
<1>8. TypeOK'
      BY <1>1, <1>2, <1>3, <1>4, <1>6, <1>7 DEF TypeOK, Steps
<1>9. Grew
      BY <1>1, <1>2, <1>3, AppendGrows
<1>10. /\ pc'[c] = step
       /\ \A d \in Calls \ {c} :
            /\ pc'[d] = pc[d] /\ ask'[d] = ask[d] /\ mine'[d] = mine[d]
            /\ counted'[d] = counted[d] /\ checked'[d] = checked[d]
            /\ looked'[d] = looked[d]
      BY <1>1, <1>2, <1>6, Elsewhere
<1>11. /\ Device(c)' = Device(c) /\ Subject(c)' = Subject(c)
      BY <1>2 DEF Device, Subject
<1>12. Cardinality(Known(c)') <= n /\ Cardinality(Known(c)') \in Nat
  <2>1. Known(c)' = { i \in 1..mine[c] : /\ events[i].device = Device(c)
                                         /\ events[i].type \in {"login", "approval_requested"}
                                         /\ events[i].at >= checked[c] - Window }
        BY <1>2, <1>5, <1>11 DEF Known
  <2>2. 1..mine[c] \subseteq DOMAIN events
        BY <1>3
  <2>3. Known(c)' \subseteq Attempts(Device(c), checked[c] - Window)
        BY <2>1, <2>2 DEF Attempts
  <2>4. Attempts(Device(c), checked[c] - Window) \in SUBSET (DOMAIN events)
        BY DEF Attempts
  <2>5. Cardinality(Known(c)') \in Nat
        BY <1>3, <2>3, <2>4, FiniteSelection
  <2>6. QED  BY <1>3, <2>3, <2>4, <2>5, MoreSelected DEF n
<1>13. Cardinality(AttemptsBetween(Device(c), checked[c] - Window, looked[c])') = n
  <2>1. \A i \in DOMAIN events : events[i].at \in Nat /\ events[i].at <= now
    <3>1. \A i \in DOMAIN events : events[i] \in Events
          BY <1>3
    <3>2. QED  BY <1>1, <3>1 DEF StampInv, Events
  <2>2. \A i \in DOMAIN events :
          events[i].at \in (checked[c] - Window)..now <=> events[i].at >= checked[c] - Window
    <3> DEFINE since == checked[c] - Window
    <3>1. since \in Int /\ now \in Int
          BY <1>3
    <3> HIDE DEF since
    <3>2. \A t \in Nat : t <= now => (t \in since..now <=> t >= since)
          BY <3>1
    <3>3. QED  BY <2>1, <3>2 DEF since
  <2>3. AttemptsBetween(Device(c), checked[c] - Window, looked[c])'
          = Attempts(Device(c), checked[c] - Window)
        BY <1>2, <1>5, <1>11, <2>2 DEF AttemptsBetween, Attempts
  <2>4. QED  BY <2>3 DEF n
<1>14. mine'[c] \in DOMAIN events'
      BY <1>2, <1>3
<1>15. CallOK(c)'
  <2>1. CASE n >= Threshold
    <3>1. step = "warn"
          BY <1>7, <2>1
    <3>2. n >= n /\ n >= Cardinality(Known(c)')
          BY <1>4, <1>12
    <3>3. QED  BY <1>3, <1>5, <1>10, <1>11, <1>13, <1>14, <2>1, <3>1, <3>2 DEF CallOK
  <2>2. CASE ~(n >= Threshold)
    <3>1. step \in {"unusual", "reply"}
          BY <1>7, <2>2
    <3>2. ~(Cardinality(Known(c)') >= Threshold)
          BY <1>3, <1>4, <1>12, <2>2
    <3>3. QED  BY <1>3, <1>7, <1>10, <1>11, <1>14, <3>1, <3>2 DEF CallOK
  <2>3. QED  BY <2>1, <2>2
<1>16. QED  BY <1>2, <1>8, <1>9, <1>10, <1>15, OneCall

\* A request that warns leaves the alert that reports what it counted.
LEMMA WarnStepInv ==
  ASSUME IInv, NEW c \in Calls, Warn(c)
  PROVE  IInv'
<1> DEFINE a == [monitor |-> "excessive_attempts", device |-> Device(c),
                 subject |-> NoSubject, count |-> counted[c],
                 event |-> mine[c],
                 checked |-> checked[c], looked |-> looked[c]]
           step == SecondMonitor(c)
<1>1. TypeOK /\ CallOK(c)
      BY OfEachCall DEF IInv
<1>2. /\ pc[c] = "warn" /\ pc' = [pc EXCEPT ![c] = step]
      /\ alerts' = alerts \cup {a}
      /\ UNCHANGED <<events, now, ask, mine, counted, checked, looked, faults>>
      BY DEF Warn, Goto, Raise, locals
<1>3. /\ mine[c] \in DOMAIN events /\ Device(c) # NoDevice
      /\ counted[c] >= Threshold
      /\ Cardinality(AttemptsBetween(Device(c), checked[c] - Window, looked[c])) >= counted[c]
      /\ counted[c] >= Cardinality(Known(c))
      BY <1>1, <1>2 DEF CallOK
<1>4. a \in Alerts
  <2>1. events[mine[c]] \in Events
        BY <1>1, <1>3 DEF TypeOK
  <2>2. Device(c) \in Devices
        BY <1>3, <2>1 DEF Device, Events
  <2>3. QED  BY <1>1, <2>2 DEF TypeOK, Alerts
<1>5. PICK b \in Alerts :
        /\ b = a /\ b.monitor = "excessive_attempts" /\ b.device = Device(c)
        /\ b.count = counted[c] /\ b.checked = checked[c]
        /\ b.looked = looked[c]
      BY <1>4
<1>6. step \in {"unusual", "reply"}
      /\ (step = "unusual" => Subject(c) # NoSubject)
      /\ (step = "reply" => Subject(c) = NoSubject)
      BY DEF SecondMonitor
<1> HIDE DEF a, step
<1>7. TypeOK'
      BY <1>1, <1>2, <1>4, <1>6 DEF TypeOK, Steps
<1>8. Grew
  <2>1. now <= now'
        BY <1>1, <1>2 DEF TypeOK
  <2>2. QED  BY <1>1, <1>2, <2>1, AppendGrows
<1>9. /\ pc'[c] = step
      /\ \A d \in Calls \ {c} :
           /\ pc'[d] = pc[d] /\ ask'[d] = ask[d] /\ mine'[d] = mine[d]
           /\ counted'[d] = counted[d] /\ checked'[d] = checked[d]
           /\ looked'[d] = looked[d]
      BY <1>1, <1>2, Elsewhere
<1>10. /\ Device(c)' = Device(c) /\ Subject(c)' = Subject(c) /\ Known(c)' = Known(c)
       /\ mine'[c] = mine[c] /\ mine'[c] \in DOMAIN events'
      BY <1>2, <1>3 DEF Device, Subject, Known
<1>11. Justified(b)'
  <2>1. Cardinality(AttemptsBetween(b.device, b.checked - Window, b.looked)') >= b.count
        BY <1>2, <1>3, <1>5 DEF AttemptsBetween
  <2>2. b.count >= Threshold
        BY <1>3, <1>5
  <2>3. QED  BY <1>5, <1>7, <2>1, <2>2, AttemptsJustify
<1>12. CallOK(c)'
  <2>1. b \in alerts' /\ b.count >= Cardinality(Known(c)')
        BY <1>2, <1>3, <1>5, <1>10
  <2>2. QED  BY <1>3, <1>5, <1>6, <1>9, <1>10, <2>1 DEF CallOK
<1>13. alerts \subseteq alerts' /\ \A x \in alerts' \ alerts : Justified(x)'
      BY <1>2, <1>5, <1>11
<1>14. QED  BY <1>2, <1>7, <1>8, <1>9, <1>12, <1>13, OneCall

\* A request that looks for its device either finds what binds it to the subject
\* or knows that nothing up to its own event does.
LEMMA LookInv ==
  ASSUME IInv, NEW c \in Calls, LookForDevice(c)
  PROVE  IInv'
<1> DEFINE step == IF SeenBefore(Subject(c), Device(c)) THEN "reply" ELSE "inform"
<1>1. TypeOK /\ CallOK(c)
      BY OfEachCall DEF IInv
<1>2. /\ pc[c] = "unusual" /\ pc' = [pc EXCEPT ![c] = step]
      /\ UNCHANGED <<events, alerts, now, ask, mine, counted, checked, looked, faults>>
      BY DEF LookForDevice, Goto, locals
<1>3. /\ mine[c] \in DOMAIN events /\ Device(c) # NoDevice /\ Subject(c) # NoSubject
      /\ 1..mine[c] \subseteq DOMAIN events
  <2>1. mine[c] \in DOMAIN events /\ Device(c) # NoDevice /\ Subject(c) # NoSubject
        BY <1>1, <1>2 DEF CallOK
  <2>2. QED  BY <1>1, <2>1 DEF TypeOK
<1>4. step \in {"reply", "inform"}
      /\ (step = "reply" => \E i \in DOMAIN events : Binds(i, Subject(c), Device(c)))
      /\ (step = "inform" => \A i \in DOMAIN events : ~Binds(i, Subject(c), Device(c)))
      BY DEF SeenBefore, Binds
<1> HIDE DEF step
<1>5. TypeOK'
      BY <1>1, <1>2, <1>4 DEF TypeOK, Steps
<1>6. Grew
  <2>1. now <= now'
        BY <1>1, <1>2 DEF TypeOK
  <2>2. QED  BY <1>1, <1>2, <2>1, AppendGrows
<1>7. /\ pc'[c] = step
      /\ \A d \in Calls \ {c} :
           /\ pc'[d] = pc[d] /\ ask'[d] = ask[d] /\ mine'[d] = mine[d]
           /\ counted'[d] = counted[d] /\ checked'[d] = checked[d]
           /\ looked'[d] = looked[d]
      BY <1>1, <1>2, Elsewhere
<1>8. /\ Device(c)' = Device(c) /\ Subject(c)' = Subject(c) /\ Known(c)' = Known(c)
      /\ mine'[c] = mine[c] /\ mine'[c] \in DOMAIN events'
      /\ \A i : Binds(i, Subject(c), Device(c))' <=> Binds(i, Subject(c), Device(c))
      BY <1>2, <1>3 DEF Device, Subject, Known, Binds
<1>9. CallOK(c)'
  <2>1. Cardinality(Known(c)') >= Threshold =>
          \E a \in alerts' : /\ a.monitor = "excessive_attempts" /\ a.device = Device(c)'
                             /\ a.count >= Cardinality(Known(c)')
        BY <1>1, <1>2, <1>3, <1>8 DEF CallOK
  <2>2. CASE step = "reply"
        BY <1>2, <1>4, <1>7, <1>8, <2>1, <2>2 DEF CallOK
  <2>3. CASE step = "inform"
        BY <1>2, <1>3, <1>4, <1>7, <1>8, <2>1, <2>3 DEF CallOK
  <2>4. QED  BY <1>4, <2>2, <2>3
<1>10. QED  BY <1>2, <1>5, <1>6, <1>7, <1>9, OneCall

\* A request that informs leaves the alert that names its device and subject.
LEMMA InformStepInv ==
  ASSUME IInv, NEW c \in Calls, Inform(c)
  PROVE  IInv'
<1> DEFINE a == [monitor |-> "unusual_device", device |-> Device(c),
                 subject |-> Subject(c), count |-> 0,
                 event |-> mine[c],
                 checked |-> checked[c], looked |-> looked[c]]
<1>1. TypeOK /\ CallOK(c)
      BY OfEachCall DEF IInv
<1>2. /\ pc[c] = "inform" /\ pc' = [pc EXCEPT ![c] = "reply"]
      /\ alerts' = alerts \cup {a}
      /\ UNCHANGED <<events, now, ask, mine, counted, checked, looked, faults>>
      BY DEF Inform, Goto, Raise, locals
<1>3. /\ mine[c] \in DOMAIN events /\ Device(c) # NoDevice /\ Subject(c) # NoSubject
      /\ \A i \in 1..mine[c] : ~Binds(i, Subject(c), Device(c))
      BY <1>1, <1>2 DEF CallOK
<1>4. a \in Alerts
  <2>1. events[mine[c]] \in Events
        BY <1>1, <1>3 DEF TypeOK
  <2>2. Device(c) \in Devices /\ Subject(c) \in Subjects \cup {NoSubject}
        BY <1>3, <2>1 DEF Device, Subject, Events
  <2>3. QED  BY <1>1, <2>2 DEF TypeOK, Alerts
<1>5. PICK b \in Alerts :
        /\ b = a /\ b.monitor = "unusual_device" /\ b.device = Device(c)
        /\ b.subject = Subject(c) /\ b.event = mine[c]
      BY <1>4
<1> HIDE DEF a
<1>6. TypeOK'
      BY <1>1, <1>2, <1>4 DEF TypeOK, Steps
<1>7. Grew
  <2>1. now <= now'
        BY <1>1, <1>2 DEF TypeOK
  <2>2. QED  BY <1>1, <1>2, <2>1, AppendGrows
<1>8. /\ pc'[c] = "reply"
      /\ \A d \in Calls \ {c} :
           /\ pc'[d] = pc[d] /\ ask'[d] = ask[d] /\ mine'[d] = mine[d]
           /\ counted'[d] = counted[d] /\ checked'[d] = checked[d]
           /\ looked'[d] = looked[d]
      BY <1>1, <1>2, Elsewhere
<1>9. /\ Device(c)' = Device(c) /\ Subject(c)' = Subject(c) /\ Known(c)' = Known(c)
      /\ mine'[c] = mine[c] /\ mine'[c] \in DOMAIN events'
      BY <1>2, <1>3 DEF Device, Subject, Known
<1>10. Justified(b)'
  <2>1. b.event \in DOMAIN events' /\ b.event = mine[c]
        BY <1>2, <1>3, <1>5
  <2>2. events'[b.event].device = b.device /\ events'[b.event].subject = b.subject
        BY <1>2, <1>5 DEF Device, Subject
  <2>3. \A i \in 1..b.event : ~Binds(i, b.subject, b.device)'
        BY <1>2, <1>3, <1>5 DEF Binds
  <2>4. QED  BY <1>5, <2>1, <2>2, <2>3 DEF Justified
<1>11. CallOK(c)'
  <2>1. b \in alerts' /\ alerts \subseteq alerts'
        BY <1>2, <1>5
  <2>2. Cardinality(Known(c)') >= Threshold =>
          \E x \in alerts' : /\ x.monitor = "excessive_attempts" /\ x.device = Device(c)'
                             /\ x.count >= Cardinality(Known(c)')
        BY <1>1, <1>2, <1>3, <1>9, <2>1 DEF CallOK
  <2>3. QED  BY <1>5, <1>8, <1>9, <2>1, <2>2 DEF CallOK
<1>12. alerts \subseteq alerts' /\ \A x \in alerts' \ alerts : Justified(x)'
      BY <1>2, <1>5, <1>10
<1>13. QED  BY <1>2, <1>6, <1>7, <1>8, <1>11, <1>12, OneCall

\* A request that ends, with its answer or with a fault, leaves what it
\* committed.
LEMMA EndInv ==
  ASSUME IInv, NEW c \in Calls, End(c), UNCHANGED <<events, alerts, now>>,
         faults' \in Nat
  PROVE  IInv'
<1>1. TypeOK
      BY DEF IInv
<1>2. /\ pc' = [pc EXCEPT ![c] = "idle"] /\ ask' = [ask EXCEPT ![c] = NoEvent]
      /\ mine' = [mine EXCEPT ![c] = 0] /\ counted' = [counted EXCEPT ![c] = 0]
      /\ checked' = [checked EXCEPT ![c] = 0] /\ looked' = [looked EXCEPT ![c] = 0]
      BY DEF End, Goto
<1>3. TypeOK'
      BY <1>1, <1>2 DEF TypeOK, Steps
<1>4. Grew
  <2>1. now <= now'
        BY <1>1 DEF TypeOK
  <2>2. QED  BY <1>1, <2>1, AppendGrows
<1>5. /\ pc'[c] = "idle"
      /\ \A d \in Calls \ {c} :
           /\ pc'[d] = pc[d] /\ ask'[d] = ask[d] /\ mine'[d] = mine[d]
           /\ counted'[d] = counted[d] /\ checked'[d] = checked[d]
           /\ looked'[d] = looked[d]
      BY <1>1, <1>2, Elsewhere
<1>6. CallOK(c)'
      BY <1>5 DEF CallOK
<1>7. QED  BY <1>3, <1>4, <1>5, <1>6, OneCall

\* As time passes fewer attempts fall into a window, never more.
LEMMA TickInv ==
  ASSUME IInv, Tick
  PROVE  IInv'
<1>1. TypeOK
      BY DEF IInv
<1>2. /\ now' = now + 1
      /\ UNCHANGED <<events, alerts, pc, ask, mine, counted, checked, looked, faults>>
      BY DEF Tick, locals
<1>3. TypeOK'
      BY <1>1, <1>2 DEF TypeOK
<1>4. Grew
  <2>1. now <= now'
        BY <1>1, <1>2 DEF TypeOK
  <2>2. QED  BY <1>1, <1>2, <2>1, AppendGrows
<1>5. ASSUME NEW c \in Calls PROVE CallOK(c)'
  <2>1. CallOK(c)
        BY OfEachCall
  <2>2. QED  BY <1>1, <1>2, <1>3, <1>4, <2>1, OtherCall
<1>6. ASSUME NEW a \in alerts' PROVE Justified(a)'
  <2>1. a \in Alerts /\ Justified(a)
        BY <1>1, <1>2, <1>6 DEF TypeOK, IInv, AlertsJustified
  <2>2. QED  BY <1>1, <1>3, <1>4, <2>1, StaysJustified
<1>7. ASSUME NEW i \in DOMAIN events' PROVE events'[i].at <= now'
  <2>1. events'[i] = events[i] /\ events[i].at <= now /\ events[i] \in Events
        BY <1>1, <1>2, <1>7 DEF TypeOK, IInv, StampInv
  <2>2. events[i].at \in Nat
        BY <2>1 DEF Events
  <2>3. now \in Nat
        BY <1>1 DEF TypeOK
  <2>4. QED  BY <1>2, <2>1, <2>2, <2>3
<1>8. QED  BY <1>3, <1>5, <1>6, <1>7, Together

-----------------------------------------------------------------------------
(* The theorems.                                                            *)

\* The inductive invariant holds before anything is reported.
LEMMA InitInv == Init => IInv
<1>1. SUFFICES ASSUME Init PROVE IInv
      OBVIOUS
<1>2. TypeOK
      BY <1>1 DEF Init, TypeOK, Steps
<1>3. StampInv /\ CallInv /\ WarnInv /\ InformInv
      BY <1>1 DEF Init, StampInv, CallInv, WarnInv, InformInv
<1>4. AlertsJustified /\ AttemptsNoticed /\ NewDeviceFlagged
      BY <1>1 DEF Init, AlertsJustified, AttemptsNoticed, NewDeviceFlagged
<1>5. QED  BY <1>2, <1>3, <1>4 DEF IInv

\* Every step keeps the inductive invariant.
LEMMA NextInv == IInv /\ [Next]_vars => IInv'
<1>1. ASSUME IInv, UNCHANGED vars PROVE IInv'
  <2>1. TypeOK /\ TypeOK'
        BY <1>1 DEF IInv, TypeOK, vars
  <2>2. now \in Nat /\ now' = now
        BY <1>1, <2>1 DEF TypeOK, vars
  <2>3. now <= now'
        BY <2>2
  <2>4. Grew
        BY <1>1, <2>1, <2>3, AppendGrows DEF vars
  <2>5. ASSUME NEW c \in Calls PROVE CallOK(c)'
    <3>1. CallOK(c)
          BY <1>1, OfEachCall
    <3>2. QED  BY <1>1, <2>1, <2>4, <3>1, OtherCall DEF vars
  <2>6. ASSUME NEW a \in alerts' PROVE Justified(a)'
    <3>1. a \in Alerts /\ Justified(a)
          BY <1>1, <2>1, <2>6 DEF TypeOK, IInv, AlertsJustified, vars
    <3>2. QED  BY <2>1, <2>4, <3>1, StaysJustified
  <2>7. \A i \in DOMAIN events' : events'[i].at <= now'
        BY <1>1 DEF vars, IInv, StampInv
  <2>8. QED  BY <2>1, <2>5, <2>6, <2>7, Together
<1>2. ASSUME IInv, NEW c \in Calls, Reply(c) PROVE IInv'
      BY <1>2, EndInv DEF Reply, IInv, TypeOK
<1>3. ASSUME IInv, NEW c \in Calls, Fault(c) PROVE IInv'
  <2>1. faults' \in Nat
        BY <1>3 DEF Fault, IInv, TypeOK
  <2>2. QED  BY <1>3, <2>1, EndInv DEF Fault
<1>4. QED  BY <1>1, <1>2, <1>3, EmitInv, CommitInv, SinceInv, CountInv, WarnStepInv,
              LookInv, InformStepInv, TickInv DEF Next

\* Events, requests and alerts fit together in every reachable state
\* (risk_monitoring_service.py:26-158).
THEOREM Inductive == Spec => []IInv
  BY InitInv, NextInv, PTL DEF Spec

\* Every alert tells the truth, and aggregations agree with it
\* (risk_monitoring_service.py:43-102).
THEOREM Justification == Spec => []AlertsJustified
<1>1. IInv => AlertsJustified
      BY DEF IInv
<1>2. QED  BY <1>1, Inductive, PTL

\* However many requests overlap, too many attempts raise an alert
\* (risk_monitoring_service.py:67-83, 147-158).
THEOREM Noticed == Spec => []AttemptsNoticed
<1>1. IInv => AttemptsNoticed
      BY DEF IInv
<1>2. QED  BY <1>1, Inductive, PTL

\* A device that nothing binds to the subject who uses it is flagged
\* (risk_monitoring_service.py:86-102).
THEOREM NewDevice == Spec => []NewDeviceFlagged
<1>1. IInv => NewDeviceFlagged
      BY DEF IInv
<1>2. QED  BY <1>1, Inductive, PTL

=============================================================================
