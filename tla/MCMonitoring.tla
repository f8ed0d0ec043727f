---------------------------- MODULE MCMonitoring ----------------------------
(* Instance of Monitoring for TLC.                                         *)
EXTENDS Monitoring, TLC

CONSTANTS ann, zoe, d1, c1, c2

MCSubjects == {ann, zoe}
MCDevices  == {d1}
MCCalls    == {c1, c2}

\* Two subjects share one device; a payment's event names no device.
MCPayloads ==
  { [type |-> "login", device |-> d1, subject |-> ann],
    [type |-> "approval_requested", device |-> d1, subject |-> NoSubject],
    [type |-> "approval_consumed", device |-> d1, subject |-> zoe],
    [type |-> "approval_consumed", device |-> NoDevice, subject |-> ann] }

MCSymmetry == Permutations(MCCalls)

=============================================================================
