------------------------------ MODULE EventLog ------------------------------
(***************************************************************************)
(* What the partner feed promises: a log in which no two entries bear one  *)
(* id and nothing changes once written, and a partner that is told its     *)
(* event is recorded only when the id is in the log.                       *)
(***************************************************************************)
EXTENDS Naturals, Sequences

CONSTANT Events   \* records with a field id

VARIABLES
  log,            \* the entries, oldest first
  acknowledged    \* the events whose partner has been told

vars == <<log, acknowledged>>

Logged(e) == \E i \in DOMAIN log : log[i].id = e.id

Init == log = <<>> /\ acknowledged = {}

Record(e) ==
  /\ ~Logged(e)
  /\ log' = Append(log, e)
  /\ UNCHANGED acknowledged

Acknowledge(e) ==
  /\ Logged(e)
  /\ acknowledged' = acknowledged \cup {e}
  /\ UNCHANGED log

Next == \E e \in Events : Record(e) \/ Acknowledge(e)

Spec == Init /\ [][Next]_vars

=============================================================================
