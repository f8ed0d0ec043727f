----------------------------- MODULE Monitoring -----------------------------
(***************************************************************************)
(* TapSign risk monitoring: POST /risk-insights/events appends an event    *)
(* and then runs the monitors over the events on file, which may raise     *)
(* alerts; GET /risk-insights/aggregations counts them.  Each commit and   *)
(* each query is an action of its own, requests overlap, and a request may *)
(* fail between any two of them.  Time is in units of the monitors' hour.  *)
(***************************************************************************)
EXTENDS Integers, Sequences, FiniteSets

CONSTANTS
  Calls,          \* threads of the server
  Payloads,       \* what callers report
  Devices, NoDevice,
  Subjects, NoSubject,
  NoEvent,        \* a thread has no event to store
  Threshold,      \* attempts that are too many
  Window,         \* window_hours of the monitor
  LongWindow,     \* window_hours of an aggregation
  MaxEvents,      \* bound: events stored
  MaxClock,       \* bound: the clock stops here
  MaxFaults       \* bound: exceptions and lost replies

Types == {"login", "approval_requested", "approval_consumed", "approval_denied",
          "device_bind", "recovery_attempt", "identity_verify_attempt", "other"}

ASSUME PayloadAssumption ==
  /\ Payloads \subseteq [type : Types, device : Devices \cup {NoDevice},
                         subject : Subjects \cup {NoSubject}]
  /\ NoDevice \notin Devices /\ NoSubject \notin Subjects

ASSUME NumberAssumption ==
  /\ {Window, LongWindow, MaxEvents, MaxClock, MaxFaults} \subseteq Nat
  /\ Threshold \in Nat \ {0}
  /\ LongWindow >= Window

Events == [type : Types, device : Devices \cup {NoDevice},
           subject : Subjects \cup {NoSubject}, at : Nat]

\* An alert, with three fields of history: the event whose request raised it, when
\* that request fixed its window and when it counted.
Alerts == [monitor : {"excessive_attempts", "unusual_device"}, device : Devices,
           subject : Subjects \cup {NoSubject}, count : Nat,
           event : Nat, checked : Nat, looked : Nat]

ASSUME NoEventAssumption == NoEvent \notin Events

VARIABLES
  events,    \* table risk_events, in the order of the commits
  alerts,    \* table risk_alerts
  now,       \* the clock
  pc,        \* where each thread is
  ask,       \* the event it is about to store
  mine,      \* the event it has stored
  counted,   \* the attempts it has counted
  checked,   \* the end of its window, fixed before it counts
  looked,    \* history: when it counted
  faults

vars   == <<events, alerts, now, pc, ask, mine, counted, checked, looked, faults>>
locals == <<ask, mine, counted, checked, looked>>

Steps == {"idle", "commit", "since", "count", "warn", "unusual", "inform", "reply"}

TypeOK ==
  /\ events \in Seq(Events)
  /\ alerts \subseteq Alerts
  /\ now \in Nat
  /\ pc \in [Calls -> Steps]
  /\ ask \in [Calls -> Events \cup {NoEvent}]
  /\ mine \in [Calls -> Nat]
  /\ counted \in [Calls -> Nat]
  /\ checked \in [Calls -> Nat]
  /\ looked \in [Calls -> Nat]
  /\ faults \in Nat

Init ==
  /\ events = <<>>
  /\ alerts = {}
  /\ now = 0
  /\ pc = [c \in Calls |-> "idle"]
  /\ ask = [c \in Calls |-> NoEvent]
  /\ mine = [c \in Calls |-> 0]
  /\ counted = [c \in Calls |-> 0]
  /\ checked = [c \in Calls |-> 0]
  /\ looked = [c \in Calls |-> 0]
  /\ faults = 0

-----------------------------------------------------------------------------
(* Queries.                                                                 *)

\* Mutant: whatever a device does counts as an attempt.
AttemptsOfAnyType(d, since) ==
  { i \in DOMAIN events : events[i].device = d /\ events[i].at >= since }

Attempts(d, since) ==
  { i \in DOMAIN events : /\ events[i].device = d
                          /\ events[i].type \in {"login", "approval_requested"}
                          /\ events[i].at >= since }

\* Mutant: another subject's approval vouches for the device.
SeenBeforeByAnyone(s, d) ==
  \E i \in DOMAIN events : /\ events[i].device = d
                           /\ events[i].type \in {"approval_consumed", "device_bind"}

SeenBefore(s, d) ==
  \E i \in DOMAIN events : /\ events[i].subject = s
                           /\ events[i].device = d
                           /\ events[i].type \in {"approval_consumed", "device_bind"}

\* The answer of GET /risk-insights/aggregations/{d}.
AggregateForDevice(d, hours) ==
  LET Of(type) == Cardinality({ i \in DOMAIN events :
        events[i].device = d /\ events[i].at >= now - hours /\ events[i].type = type })
  IN [login_attempts           |-> Of("login"),
      approvals_requested      |-> Of("approval_requested"),
      approvals_consumed       |-> Of("approval_consumed"),
      approvals_denied         |-> Of("approval_denied"),
      recovery_attempts        |-> Of("recovery_attempt"),
      identity_verify_attempts |-> Of("identity_verify_attempt")]

-----------------------------------------------------------------------------
(* POST /risk-insights/events.                                              *)

Goto(c, step) == pc' = [pc EXCEPT ![c] = step]

End(c) ==
  /\ Goto(c, "idle")
  /\ ask' = [ask EXCEPT ![c] = NoEvent]
  /\ mine' = [mine EXCEPT ![c] = 0]
  /\ counted' = [counted EXCEPT ![c] = 0]
  /\ checked' = [checked EXCEPT ![c] = 0]
  /\ looked' = [looked EXCEPT ![c] = 0]

\* The row is stamped when it is sent to the database, before the commit.
Emit(c, p) ==
  /\ pc[c] = "idle"
  /\ Len(events) + Cardinality({ d \in Calls : pc[d] = "commit" }) < MaxEvents
  /\ Goto(c, "commit")
  /\ ask' = [ask EXCEPT ![c] = [type |-> p.type, device |-> p.device,
                                subject |-> p.subject, at |-> now]]
  /\ UNCHANGED <<events, alerts, now, mine, counted, checked, looked, faults>>

Commit(c) ==
  /\ pc[c] = "commit"
  /\ events' = Append(events, ask[c])
  /\ mine' = [mine EXCEPT ![c] = Len(events) + 1]
  /\ ask' = [ask EXCEPT ![c] = NoEvent]
  /\ Goto(c, IF ask[c].device = NoDevice THEN "reply" ELSE "since")
  /\ UNCHANGED <<alerts, now, counted, checked, looked, faults>>

Device(c)  == events[mine[c]].device
Subject(c) == events[mine[c]].subject

\* The second monitor runs for events that name a subject.
SecondMonitor(c) == IF Subject(c) = NoSubject THEN "reply" ELSE "unusual"

\* The window is fixed before the query is sent.
Since(c) ==
  /\ pc[c] = "since"
  /\ checked' = [checked EXCEPT ![c] = now]
  /\ Goto(c, "count")
  /\ UNCHANGED <<events, alerts, now, ask, mine, counted, looked, faults>>

\* Mutant: the threshold itself is not too many.
CountAbove(c) ==
  /\ pc[c] = "count"
  /\ counted' = [counted EXCEPT ![c] = Cardinality(Attempts(Device(c), checked[c] - Window))]
  /\ looked' = [looked EXCEPT ![c] = now]
  /\ Goto(c, IF counted'[c] > Threshold THEN "warn" ELSE SecondMonitor(c))
  /\ UNCHANGED <<events, alerts, now, ask, mine, checked, faults>>

\* It counts what is committed by now.
Count(c) ==
  /\ pc[c] = "count"
  /\ counted' = [counted EXCEPT ![c] = Cardinality(Attempts(Device(c), checked[c] - Window))]
  /\ looked' = [looked EXCEPT ![c] = now]
  /\ Goto(c, IF counted'[c] >= Threshold THEN "warn" ELSE SecondMonitor(c))
  /\ UNCHANGED <<events, alerts, now, ask, mine, checked, faults>>

Raise(c, monitor, subject, count) ==
  alerts' = alerts \cup
    {[monitor |-> monitor, device |-> Device(c), subject |-> subject,
      count |-> count, event |-> mine[c],
      checked |-> checked[c], looked |-> looked[c]]}

Warn(c) ==
  /\ pc[c] = "warn"
  /\ Raise(c, "excessive_attempts", NoSubject, counted[c])
  /\ Goto(c, SecondMonitor(c))
  /\ UNCHANGED <<events, now, locals, faults>>

LookForDevice(c) ==
  /\ pc[c] = "unusual"
  /\ Goto(c, IF SeenBefore(Subject(c), Device(c)) THEN "reply" ELSE "inform")
  /\ UNCHANGED <<events, alerts, now, locals, faults>>

\* Mutant: the alert names no subject.
InformUnnamed(c) ==
  /\ pc[c] = "inform"
  /\ Raise(c, "unusual_device", NoSubject, 0)
  /\ Goto(c, "reply")
  /\ UNCHANGED <<events, now, locals, faults>>

Inform(c) ==
  /\ pc[c] = "inform"
  /\ Raise(c, "unusual_device", Subject(c), 0)
  /\ Goto(c, "reply")
  /\ UNCHANGED <<events, now, locals, faults>>

Reply(c) ==
  /\ pc[c] = "reply"
  /\ End(c)
  /\ UNCHANGED <<events, alerts, now, faults>>

\* An exception, a restart of the server, or a reply that is lost: what is
\* committed stays, the monitors that have not run never will.
Fault(c) ==
  /\ pc[c] # "idle"
  /\ faults < MaxFaults
  /\ faults' = faults + 1
  /\ End(c)
  /\ UNCHANGED <<events, alerts, now>>

Tick ==
  /\ now < MaxClock
  /\ now' = now + 1
  /\ UNCHANGED <<events, alerts, pc, locals, faults>>

Next ==
  \/ \E c \in Calls :
       \/ \E p \in Payloads : Emit(c, p)
       \/ Commit(c) \/ Since(c) \/ Count(c) \/ Warn(c) \/ LookForDevice(c) \/ Inform(c)
       \/ Reply(c) \/ Fault(c)
  \/ Tick

Spec == Init /\ [][Next]_vars

-----------------------------------------------------------------------------
(* Properties.                                                              *)

AttemptsBetween(d, from, to) ==
  { i \in DOMAIN events : /\ events[i].device = d
                          /\ events[i].type \in {"login", "approval_requested"}
                          /\ events[i].at \in from..to }

Binds(i, s, d) ==
  /\ events[i].subject = s /\ events[i].device = d
  /\ events[i].type \in {"approval_consumed", "device_bind"}

Justified(a) ==
  /\ a.monitor = "excessive_attempts" =>
       /\ a.count >= Threshold
       /\ Cardinality(AttemptsBetween(a.device, a.checked - Window, a.looked)) >= a.count
       /\ a.checked - Window >= now - LongWindow =>
            LET shown == AggregateForDevice(a.device, LongWindow)
            IN shown.login_attempts + shown.approvals_requested >= a.count
  /\ a.monitor = "unusual_device" =>
       /\ a.event \in DOMAIN events
       /\ events[a.event].device = a.device /\ events[a.event].subject = a.subject
       /\ \A i \in 1..a.event : ~Binds(i, a.subject, a.device)

\* An alert tells the truth: that many attempts were made from that device between
\* the start of the window and the count; the device was new to that subject when the
\* event came.  And an aggregation whose window reaches back far enough shows
\* at least the attempts of the alert (risk_monitoring_service.py:43-102).
AlertsJustified == \A a \in alerts : Justified(a)

\* The attempts from its device that a request must know of: those in its window
\* that were committed no later than its own event.
Known(c) ==
  { i \in 1..mine[c] : /\ events[i].device = Device(c)
                       /\ events[i].type \in {"login", "approval_requested"}
                       /\ events[i].at >= checked[c] - Window }

\* However requests overlap, too many attempts do not go unnoticed: a request
\* past the first monitor knows that if its event and those committed before it
\* make up Threshold attempts within the window, an alert on the device says so.
\* Of several that overlap, the last to commit sees them all; one that fails
\* between its commit and its count is the exception
\* (risk_monitoring_service.py:67-83, 147-158).
AttemptsNoticed ==
  \A c \in Calls :
    /\ pc[c] \in {"unusual", "inform", "reply"}
    /\ Device(c) # NoDevice
    /\ Cardinality(Known(c)) >= Threshold
    => \E a \in alerts : /\ a.monitor = "excessive_attempts" /\ a.device = Device(c)
                         /\ a.count >= Cardinality(Known(c))

\* A request that ends for a subject and a device that no approval and no
\* binding on file connects leaves an alert for them; another subject's use of
\* the device does not vouch for it (risk_monitoring_service.py:86-102).  An
\* approval_consumed event connects the two itself, before it is looked for.
NewDeviceFlagged ==
  \A c \in Calls :
    pc[c] = "reply" /\ Device(c) # NoDevice /\ Subject(c) # NoSubject =>
      \/ \E i \in DOMAIN events : Binds(i, Subject(c), Device(c))
      \/ \E a \in alerts : /\ a.monitor = "unusual_device"
                           /\ a.device = Device(c) /\ a.subject = Subject(c)

\* The inductive invariant: no event is stamped in the future; a request past
\* its commit has its event on file; what it is about to raise is justified.
StampInv ==
  /\ \A i \in DOMAIN events : events[i].at <= now
  /\ \A c \in Calls : pc[c] = "commit" => ask[c] \in Events /\ ask[c].at <= now

CallInv ==
  \A c \in Calls :
    /\ pc[c] \in {"since", "count", "warn", "unusual", "inform", "reply"} =>
         mine[c] \in DOMAIN events
    /\ pc[c] \in {"since", "count", "warn", "unusual", "inform"} => Device(c) # NoDevice
    /\ pc[c] \in {"unusual", "inform"} => Subject(c) # NoSubject

WarnInv ==
  \A c \in Calls : pc[c] = "warn" =>
    /\ counted[c] >= Threshold
    /\ Cardinality(AttemptsBetween(Device(c), checked[c] - Window, looked[c])) >= counted[c]
    /\ counted[c] >= Cardinality(Known(c))

InformInv ==
  \A c \in Calls : pc[c] = "inform" =>
    \A i \in 1..mine[c] : ~Binds(i, Subject(c), Device(c))

IInv ==
  /\ TypeOK /\ StampInv /\ CallInv /\ WarnInv /\ InformInv
  /\ AlertsJustified /\ AttemptsNoticed /\ NewDeviceFlagged

=============================================================================
