------------------------------ MODULE MCDevice ------------------------------
(* Instances of Device for TLC.                                            *)
EXTENDS Device, TLC

CONSTANTS ann, bob, d, e, ka, kb, c1, c2, r1, r2, r3, r4

MCUsers      == {ann, bob}
MCDevices    == {d, e}
MCKeys       == {ka, kb}
MCChallenges == {c1, c2}
MCCalls      == {r1, r2, r3, r4}

Verify(user, device, challenge, signer) ==
  [kind |-> "verify", user |-> user, device |-> device, challenge |-> challenge,
   signer |-> signer]

\* Both users want device d; each may ask for a challenge and answer one with
\* either key or for another device.
MCJobs ==
  { [kind |-> "register", user |-> ann, device |-> d, key |-> ka],
    [kind |-> "register", user |-> bob, device |-> d, key |-> kb],
    [kind |-> "challenge", user |-> ann, device |-> d],
    [kind |-> "challenge", user |-> bob, device |-> d],
    Verify(ann, d, c1, ka), Verify(ann, d, c1, kb), Verify(bob, d, c1, kb),
    Verify(ann, e, c1, ka), Verify(ann, d, c2, NoKey) }

MCSymmetry == Permutations(Calls)

=============================================================================
