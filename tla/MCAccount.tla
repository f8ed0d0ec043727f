----------------------------- MODULE MCAccount -----------------------------
(* Instances of Account for TLC.                                           *)
EXTENDS Account, TLC

CONSTANTS ann, bob, s1, s2, p, q, i

MCUsers    == {ann, bob}
MCSessions == {s1, s2}
MCPins     == {p, q}
MCIds      == {i}

PinJob(kind, pin)  == [kind |-> kind, user |-> ann, arg |-> pin]
IdJob(user, id)    == [kind |-> "egov", user |-> user, arg |-> id]
PlainJob(kind)     == [kind |-> kind, user |-> ann]

\* All of ann's PIN traffic next to her identity, for which bob competes, and
\* her phone; and next to her enrolment.
MCPinJobs == { PinJob("set_pin", p), PinJob("verify_pin", p), PinJob("verify_pin", q) }
MCJobs ==
  MCPinJobs \cup { PlainJob("phone"), IdJob(ann, i), IdJob(bob, i), PlainJob("tapsign") }

MCSymmetry == Permutations(Sessions)

=============================================================================
