---------------------------- MODULE PartnerFeed -----------------------------
(***************************************************************************)
(* POST /internal/partners/{code}/events and /internal/partners/features/  *)
(* build.  Partners deliver events at least once: they repeat a delivery   *)
(* until it is acknowledged, time out while it is still being handled, and *)
(* replay old ones.  Deliveries and builds run concurrently, each with a   *)
(* session of its own; one action is one round trip to the database.       *)
(*                                                                         *)
(* An event's type is reduced to the feature it counts for, its payload to *)
(* the place it names.  Days are the unit of time.                         *)
(***************************************************************************)
EXTENDS Integers, Sequences, FiniteSets

CONSTANTS
  Events,       \* what happens at the partners
  Subjects,     \* opaque references to citizens
  Members,      \* those that have a row in users
  Builds,       \* what the build requests ask
  Workers,      \* threads of the server
  Places, NoPlace,
  NoUser,       \* no row of users
  NoRequest,    \* what an idle thread works on
  MaxPins,      \* the PIN counter's limit (pin_service.py:25)
  MaxClock,     \* bound: the clock stops here
  MaxFaults     \* bound: exceptions, restarts and lost replies

Kinds == {"late", "overdue", "service", "location", "compliance", "swap", "other"}

ASSUME EventAssumption ==
  Events \subseteq [id : STRING, subject : Subjects, kind : Kinds,
                    place : Places \cup {NoPlace}, at : Int]

ASSUME ParameterAssumption ==
  /\ Builds \subseteq [kind : {"build"}, subject : Subjects, window : Nat]
  /\ Members \subseteq Subjects
  /\ {MaxPins, MaxClock, MaxFaults} \subseteq Nat
  /\ NoUser \notin [pins : Nat, swap : BOOLEAN]
  /\ Places \cap (Nat \cup Events) = {}   \* no place is named like a row

VARIABLES
  rows,          \* table partner_risk_events, in the order of the commits
  users,         \* the columns of users that features are built from
  now,           \* the clock
  pc,            \* where each thread is
  ask,           \* the request it works on
  since,         \* a build's local: where its window begins
  seen,          \* a build's local: the rows it has read
  features,      \* a build's result
  acknowledged,  \* the events whose partner has been told
  owed,          \* history: what a build must count
  faults         \* how many faults there were

vars == <<rows, users, now, pc, ask, since, seen, features, acknowledged, owed,
          faults>>

Deliveries == [kind : {"event"}, event : Events]
UserRow    == [pins : 0..MaxPins, swap : BOOLEAN]
Features   == [late : Nat, overdue : Nat, service : Nat, location : Nat,
               compliance : Nat, swap : BOOLEAN, pins : Nat]
NoFeatures == [late |-> 0, overdue |-> 0, service |-> 0, location |-> 0,
               compliance |-> 0, swap |-> FALSE, pins |-> 0]
Steps      == {"idle", "check", "recheck", "insert", "reply", "read", "user",
               "built"}
\* What a build owes to the past: acknowledged events, and a swap on file.
Debt       == [events : SUBSET Events, swap : BOOLEAN]
NoDebt     == [events |-> {}, swap |-> FALSE]

TypeOK ==
  /\ rows \in Seq(Events)
  /\ users \in [Subjects -> UserRow \cup {NoUser}]
  /\ now \in Nat
  /\ pc \in [Workers -> Steps]
  /\ ask \in [Workers -> Deliveries \cup Builds \cup {NoRequest}]
  /\ since \in [Workers -> Int]
  /\ seen \in [Workers -> SUBSET Nat]
  /\ features \in [Workers -> Features]
  /\ acknowledged \subseteq Events
  /\ owed \in [Workers -> Debt]
  /\ faults \in Nat

Init ==
  /\ rows = <<>>
  /\ users = [s \in Subjects |->
       IF s \in Members THEN [pins |-> 0, swap |-> FALSE] ELSE NoUser]
  /\ now = 0
  /\ pc = [w \in Workers |-> "idle"]
  /\ ask = [w \in Workers |-> NoRequest]
  /\ since = [w \in Workers |-> 0]
  /\ seen = [w \in Workers |-> {}]
  /\ features = [w \in Workers |-> NoFeatures]
  /\ acknowledged = {}
  /\ owed = [w \in Workers |-> NoDebt]
  /\ faults = 0

-----------------------------------------------------------------------------
(* Requests.                                                                *)

tables == <<rows, users, acknowledged>>
locals == <<since, seen, features, owed>>
clocks == <<now, faults>>

Begin(w, request, step) ==
  /\ pc[w] = "idle"
  /\ pc' = [pc EXCEPT ![w] = step]
  /\ ask' = [ask EXCEPT ![w] = request]
  /\ UNCHANGED <<tables, seen, features, clocks>>

Goto(w, step) == pc' = [pc EXCEPT ![w] = step] /\ UNCHANGED ask

\* The request is over; the thread forgets its locals.
End(w) ==
  /\ pc' = [pc EXCEPT ![w] = "idle"]
  /\ ask' = [ask EXCEPT ![w] = NoRequest]
  /\ since' = [since EXCEPT ![w] = 0]
  /\ seen' = [seen EXCEPT ![w] = {}]
  /\ features' = [features EXCEPT ![w] = NoFeatures]
  /\ owed' = [owed EXCEPT ![w] = NoDebt]

\* An exception, a restart, or a reply that is lost: what is committed stays,
\* and the partner learns nothing.
Fault(w) ==
  /\ pc[w] # "idle"
  /\ faults < MaxFaults
  /\ faults' = faults + 1
  /\ End(w)
  /\ UNCHANGED <<tables, now>>

-----------------------------------------------------------------------------
(* POST /internal/partners/{code}/events.                                   *)

\* Mutant: no look-up finds anything.
RecordedIgnored(e) == FALSE

Recorded(e) == \E i \in DOMAIN rows : rows[i].id = e.id

\* Mutant: event_id is not unique.
IdTakenUnindexed(e) == FALSE

IdTaken(e) == \E i \in DOMAIN rows : rows[i].id = e.id

\* Mutant: the partner is told before anything is stored.
DeliverUnstored(w, e) ==
  /\ e.at <= now
  /\ Begin(w, [kind |-> "event", event |-> e], "reply")
  /\ UNCHANGED <<since, owed>>

Deliver(w, e) ==
  /\ e.at <= now
  /\ Begin(w, [kind |-> "event", event |-> e], "check")
  /\ UNCHANGED <<since, owed>>

\* The endpoint looks the id up, and then ingest_partner_event does it again.
LookUp(w, step, next) ==
  /\ pc[w] = step
  /\ Goto(w, IF Recorded(ask[w].event) THEN "reply" ELSE next)
  /\ UNCHANGED <<tables, locals, clocks>>

Insert(w) ==
  /\ pc[w] = "insert"
  /\ ~IdTaken(ask[w].event)
  /\ rows' = Append(rows, ask[w].event)
  /\ Goto(w, "reply")
  /\ UNCHANGED <<users, acknowledged, locals, clocks>>

\* The unique index meets a row committed since the look-up: 500.
LoseIdRace(w) ==
  /\ pc[w] = "insert"
  /\ IdTaken(ask[w].event)
  /\ End(w)
  /\ UNCHANGED <<tables, clocks>>

Reply(w) ==
  /\ pc[w] = "reply"
  /\ acknowledged' = acknowledged \cup {ask[w].event}
  /\ End(w)
  /\ UNCHANGED <<rows, users, clocks>>

-----------------------------------------------------------------------------
(* POST /internal/partners/features/build.                                  *)

\* Mutant: the window excludes its first moment.
InWindowStrict(e, w) == e.at > since[w]

InWindow(e, w) == e.at >= since[w]

\* No other event bears its id.
SoleId(e) == \A f \in Events : f.id = e.id => f = e

StoredSwap(s) == users[s] # NoUser /\ users[s].swap

\* The window is fixed before the events are read.
Build(w, b) ==
  /\ Begin(w, b, "read")
  /\ since' = [since EXCEPT ![w] = now - b.window]
  /\ owed' = [owed EXCEPT ![w] =
       [events |-> { e \in acknowledged :
                       SoleId(e) /\ e.subject = b.subject /\ e.at >= now - b.window },
        swap |-> StoredSwap(b.subject)]]

ReadEvents(w) ==
  /\ pc[w] = "read"
  /\ seen' = [seen EXCEPT ![w] =
       { i \in DOMAIN rows : /\ rows[i].subject = ask[w].subject
                             /\ InWindow(rows[i], w) }]
  /\ Goto(w, "user")
  /\ UNCHANGED <<tables, since, features, owed, clocks>>

Count(w, kind) == Cardinality({ i \in seen[w] : rows[i].kind = kind })

\* A visit that names no place is a place of its own.
Visited(w) ==
  { IF rows[i].place = NoPlace THEN i ELSE rows[i].place :
      i \in { j \in seen[w] : rows[j].kind = "location" } }

FeaturesOf(w, s) ==
  [late       |-> Count(w, "late"),
   overdue    |-> Count(w, "overdue"),
   service    |-> Count(w, "service"),
   location   |-> IF Visited(w) = {} THEN 1 ELSE Cardinality(Visited(w)),
   compliance |-> Count(w, "compliance"),
   swap       |-> Count(w, "swap") > 0 \/ StoredSwap(s),
   pins       |-> IF users[s] = NoUser THEN 0 ELSE users[s].pins]

ReadUser(w) ==
  /\ pc[w] = "user"
  /\ features' = [features EXCEPT ![w] = FeaturesOf(w, ask[w].subject)]
  /\ Goto(w, "built")
  /\ UNCHANGED <<tables, since, seen, owed, clocks>>

Answer(w) ==
  /\ pc[w] = "built"
  /\ End(w)
  /\ UNCHANGED <<tables, clocks>>

-----------------------------------------------------------------------------
(* What the rest of the system does to a user's row meanwhile (Account): a   *)
(* wrong or a right PIN, and a swap the telco reported, which is never       *)
(* cleared.                                                                 *)

PinChanges(s, pins) ==
  /\ users[s] # NoUser
  /\ pins \in {0, users[s].pins + 1}
  /\ users' = [users EXCEPT ![s].pins = pins]
  /\ UNCHANGED <<rows, now, pc, ask, locals, acknowledged, faults>>

SwapIsStored(s) ==
  /\ users[s] # NoUser
  /\ users' = [users EXCEPT ![s].swap = TRUE]
  /\ UNCHANGED <<rows, now, pc, ask, locals, acknowledged, faults>>

DayPasses ==
  /\ now < MaxClock
  /\ now' = now + 1
  /\ UNCHANGED <<tables, pc, ask, locals, faults>>

Handle(w) ==
  \/ LookUp(w, "check", "recheck") \/ LookUp(w, "recheck", "insert")
  \/ Insert(w) \/ LoseIdRace(w) \/ Reply(w)
  \/ ReadEvents(w) \/ ReadUser(w) \/ Answer(w)

Next ==
  \/ \E w \in Workers :
       \/ Handle(w) \/ Fault(w)
       \/ \E e \in Events : Deliver(w, e)
       \/ \E b \in Builds : Build(w, b)
  \/ \E s \in Subjects : SwapIsStored(s) \/ \E n \in 0..MaxPins : PinChanges(s, n)
  \/ DayPasses

Spec == Init /\ [][Next]_vars

\* A partner repeats a delivery until it is acknowledged, and a request that
\* waits for a thread gets one in the end; the threads keep running.
Fairness ==
  /\ \A w \in Workers : WF_vars(Handle(w))
  /\ \A e \in Events : SF_vars(\E w \in Workers : e \notin acknowledged /\ Deliver(w, e))

FairSpec == Spec /\ Fairness

-----------------------------------------------------------------------------
(* Properties.                                                              *)

EventLog == INSTANCE EventLog WITH log <- rows

\* However deliveries are repeated, overlap and fail, each id is recorded at
\* most once, nothing recorded changes, and no partner is told an event is
\* recorded before its id is (partners.py:23-35, citizen_risk.py:52).
ImplementsEventLog == EventLog!Spec

\* What a build may count: the events of its subject on file in its window.
OnFile(w) ==
  { rows[i] : i \in { j \in DOMAIN rows : /\ rows[j].subject = ask[w].subject
                                          /\ rows[j].at >= since[w] } }

OfKind(S, kind) == { e \in S : e.kind = kind }

\* The places of some visits; one that names none is a place of its own.
Spots(S) ==
  { IF e.place = NoPlace THEN e ELSE e.place : e \in OfKind(S, "location") }

\* What a build answers lies between two sets of events: it counts every event
\* in its window that was acknowledged before it began, and nothing but events
\* of its subject, in its window and on file by now, each once.  So a count is
\* exact when the two sets agree on it.  The same holds of the places visited,
\* and a swap it reports was on file or in the window
\* (partner_feature_builder.py:54-80).
FeaturesMatchFeed ==
  \A w \in Workers : pc[w] = "built" =>
    LET f == features[w]
        least == owed[w].events
        most  == OnFile(w)
    IN
    /\ \A kind \in {"late", "overdue", "service", "compliance"} :
         /\ f[kind] >= Cardinality(OfKind(least, kind))
         /\ f[kind] <= Cardinality(OfKind(most, kind))
    /\ f.location >= Cardinality(Spots(least))
    /\ Spots(most) # {} => f.location <= Cardinality(Spots(most))
    /\ Spots(most) = {} => f.location = 1
    /\ owed[w].swap \/ OfKind(least, "swap") # {} => f.swap
    /\ f.swap => StoredSwap(ask[w].subject) \/ OfKind(most, "swap") # {}

\* An event that has happened is acknowledged in the end: a 500 from the unique
\* index costs a retry and no more (partners.py:23-25).
EveryEventAcknowledged ==
  []<>(\A e \in Events : e.at <= now => e \in acknowledged)

\* The inductive invariant: ids are unique; who is about to be told, or was
\* told, that an event is recorded is told the truth.
UniqueInv == \A i, j \in DOMAIN rows : rows[i].id = rows[j].id => i = j
StepInv ==
  \A w \in Workers :
    /\ pc[w] \in {"check", "recheck", "insert", "reply"} => ask[w] \in Deliveries
    /\ pc[w] \in {"read", "user", "built"} => ask[w] \in Builds
    /\ pc[w] = "reply" => Recorded(ask[w].event)
ToldInv == \A e \in acknowledged : Recorded(e)

\* What a build has read stays true: what it owes is among it, its counts are
\* of rows that never change, and a swap on file is never cleared.
OwesPast(w) ==
  /\ owed[w].events \subseteq
       { e \in acknowledged :
           SoleId(e) /\ e.subject = ask[w].subject /\ e.at >= since[w] }
  /\ owed[w].swap => StoredSwap(ask[w].subject)

SeenPast(w) ==
  /\ seen[w] \subseteq { i \in DOMAIN rows : /\ rows[i].subject = ask[w].subject
                                           /\ rows[i].at >= since[w] }
  /\ owed[w].events \subseteq { rows[i] : i \in seen[w] }

Counted(w) ==
  /\ features[w].late = Count(w, "late") /\ features[w].overdue = Count(w, "overdue")
  /\ features[w].service = Count(w, "service")
  /\ features[w].compliance = Count(w, "compliance")
  /\ features[w].location = IF Visited(w) = {} THEN 1 ELSE Cardinality(Visited(w))
  /\ Count(w, "swap") > 0 \/ owed[w].swap => features[w].swap
  /\ features[w].swap => Count(w, "swap") > 0 \/ StoredSwap(ask[w].subject)

BuildInv ==
  \A w \in Workers :
    /\ pc[w] \in {"read", "user", "built"} => OwesPast(w)
    /\ pc[w] \in {"user", "built"} => SeenPast(w)
    /\ pc[w] = "built" => Counted(w)

IInv == TypeOK /\ UniqueInv /\ StepInv /\ ToldInv /\ BuildInv

=============================================================================
