--------------------------- MODULE MCRegistration ---------------------------
(* Instance of Registration for TLC.                                       *)
EXTENDS Registration

CONSTANTS p, q, x, a, b, c1, c2, c3

MCCalls     == {c1, c2, c3}
MCPhones    == {p, q}
MCEmails    == {x}
MCPasswords == {a, b}

\* Two people claim one phone number, and two claim one email address.
MCForms ==
  { [phone |-> p, email |-> NoEmail, password |-> a],
    [phone |-> p, email |-> x, password |-> b],
    [phone |-> q, email |-> x, password |-> b] }

=============================================================================
