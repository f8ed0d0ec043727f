----------------------------- MODULE MCPayments -----------------------------
(***************************************************************************)
(* Instances of Payments for TLC.  Amounts and balances are chosen so that *)
(* small runs reach every branch: 60000 weighs 45 hundredths, so that with *)
(* a first-time payee it is held for review, and blocked at night if the   *)
(* deployment blocks from 70; it nearly exhausts ann's wallet and, with    *)
(* one more payment, overflows bob's if it holds 61000 at most; bob cannot *)
(* pay before he has been paid.                                            *)
(***************************************************************************)
EXTENDS Payments, TLC

CONSTANTS ann, bob, cid, r1, r2, r3, k1

MCTwoUsers   == {ann, bob}
MCThreeUsers == {ann, bob, cid}
MCTwo        == {r1, r2}
MCThree      == {r1, r2, r3}
MCKeys       == {k1}

MCRank == [u \in Users |-> CASE u = ann -> 0 [] u = bob -> 1 [] u = cid -> 2]

\* One hour of the night, one of the day.
MCClockHours == {3, 12}

MCInitialBalance ==
  [u \in Users |-> CASE u = ann -> 61000 [] u = bob -> 500 [] u = cid -> 39000]

Body(from, to, amount, key) ==
  [sender |-> from, receiver |-> to, amount |-> amount, key |-> key]

\* Two users who pay one another; a key that both use; retries with a key,
\* with an empty key and without one.
MCBodies ==
  { Body(ann, bob, 60000, k1), Body(ann, bob, 1000, NoKey),
    Body(bob, ann, 40000, k1), Body(bob, ann, 1000, EmptyKey) }

\* One payment from each wallet of a ring to the next; calls that differ only
\* in which of r1, r2, r3 makes which payment behave alike.
MCRing ==
  { Body(ann, bob, 1000, NoKey), Body(bob, cid, 1000, k1),
    Body(cid, ann, 1000, k1) }
MCRingPay ==
  [r \in Requests |-> CASE r = r1 -> Body(ann, bob, 1000, NoKey)
                       [] r = r2 -> Body(bob, cid, 1000, k1)
                       [] r = r3 -> Body(cid, ann, 1000, k1)]
MCRingInit == Init /\ pay = MCRingPay
MCRingSpec == MCRingInit /\ [][Next]_vars /\ Fairness

\* Callers that the identity gate and the enrolment check stop (bob has no
\* verified identity, cid no fingerprint), and payments to oneself and to
\* a number nobody has.  The first call is a payment that passes, the others
\* are any.
MCGated ==
  { Body(ann, bob, 1000, k1), Body(ann, cid, 40000, k1),
    Body(ann, bob, 1000, EmptyKey), Body(bob, ann, 1000, k1),
    Body(cid, ann, 1000, k1), Body(ann, ann, 1000, NoKey),
    Body(ann, NoUser, 1000, NoKey) }
MCGatedInit == Init /\ pay[r1] = Body(ann, bob, 1000, k1)
MCGatedSpec == MCGatedInit /\ [][Next]_vars
MCEnrolled == {ann, bob}
MCVerified == {ann, cid}

\* Calls are interchangeable: no definition tells one from another.
MCSymmetry == Permutations(Requests)

=============================================================================
