------------------------- MODULE RegistrationProofs -------------------------
(***************************************************************************)
(* Proofs about registration, for any number of applicants, forms and      *)
(* faults.                                                                 *)
(***************************************************************************)
EXTENDS Registration, TLAPS

\* Agreeing in a unique column does not depend on the order of the forms.
LEMMA SameSymmetric ==
  ASSUME NEW f, NEW g
  PROVE  (SamePhone(f, g) <=> SamePhone(g, f)) /\ (SameEmail(f, g) <=> SameEmail(g, f))
  BY DEF SamePhone, SameEmail

\* The inductive invariant holds before anybody applies.
LEMMA InitInv == Init => IInv
<1>1. SUFFICES ASSUME Init PROVE IInv
      OBVIOUS
<1>2. TypeOK
      BY <1>1 DEF Init, TypeOK
<1>3. AccountInv /\ CallInv /\ PendingInv
      BY <1>1 DEF Init, AccountInv, CallInv, PendingInv
<1>4. QED  BY <1>2, <1>3 DEF IInv

\* A call that leaves the tables alone and neither holds a row nor has
\* committed one afterwards keeps it: a look-up, a lost race, the end of a call.
LEMMA MoveInv ==
  ASSUME IInv, NEW c \in Calls,
         NEW step \in {"idle", "check", "insert", "refused", "failed"},
         NEW f \in Form \cup {NoForm},
         UNCHANGED <<users, wallets>>,
         pc' = [pc EXCEPT ![c] = step],
         form' = [form EXCEPT ![c] = f],
         pending' = [pending EXCEPT ![c] = NoRow],
         created \subseteq created', created' \subseteq users,
         faults' \in Nat,
         step # "idle" => f \in Form,
         step \in {"refused", "failed"} => PhoneTaken(f) \/ EmailTaken(f)
  PROVE  IInv'
<1>1. TypeOK'
      BY DEF IInv, TypeOK
<1>2. /\ pc'[c] = step /\ form'[c] = f /\ pending'[c] = NoRow
      /\ \A d \in Calls \ {c} :
           pc'[d] = pc[d] /\ form'[d] = form[d] /\ pending'[d] = pending[d]
      BY DEF IInv, TypeOK
<1>3. \A g : (PhoneTaken(g)' <=> PhoneTaken(g)) /\ (EmailTaken(g)' <=> EmailTaken(g))
      BY DEF PhoneTaken, EmailTaken
<1>4. AccountInv'
      BY DEF IInv, AccountInv
<1>5. CallInv'
      BY <1>2, <1>3 DEF IInv, CallInv
<1>6. PendingInv'
      BY <1>2 DEF IInv, PendingInv
<1>7. QED  BY <1>1, <1>4, <1>5, <1>6 DEF IInv

\* A row enters the index of the phone numbers only when no committed and no
\* open row has its number, and it draws a fresh id.
LEMMA InsertPhoneInv ==
  ASSUME IInv, NEW c \in Calls, InsertPhone(c)
  PROVE  IInv'
<1>1. PICK i \in FreeIds :
        pending' = [pending EXCEPT ![c] = [id |-> i, form |-> form[c]]]
      BY DEF InsertPhone
<1>2. DEFINE row == [id |-> i, form |-> form[c]]
<1>3. /\ pc[c] = "insert" /\ pc' = [pc EXCEPT ![c] = "email"]
      /\ users' = users /\ wallets' = wallets /\ form' = form
      /\ created' = created /\ faults' = faults
      BY DEF InsertPhone, Goto
<1>4. i \in Ids /\ form[c] \in Form
      BY <1>3 DEF FreeIds, IInv, CallInv
<1>5. row \in Row /\ row # NoRow
      BY <1>4, FormAssumption DEF Row
<1>6. row.id = i /\ row.form = form[c]
      OBVIOUS
<1>7. \A u \in users : u.id # row.id /\ ~SamePhone(u.form, row.form)
  <2>1. ASSUME NEW u \in users PROVE u.id # i
        BY <2>1 DEF FreeIds
  <2>2. ASSUME NEW u \in users PROVE ~SamePhone(u.form, form[c])
        BY <2>2 DEF InsertPhone, PhoneFree, PhoneTaken
  <2>3. QED  BY <2>1, <2>2, <1>6
<1>8. \A d \in Calls \ {c} : pc[d] \in {"email", "commit"} =>
        /\ row.id # pending[d].id
        /\ ~SamePhone(row.form, pending[d].form) /\ ~SamePhone(pending[d].form, row.form)
  <2>1. SUFFICES ASSUME NEW d \in Calls \ {c}, pc[d] \in {"email", "commit"}
                 PROVE  /\ row.id # pending[d].id
                        /\ ~SamePhone(row.form, pending[d].form)
                        /\ ~SamePhone(pending[d].form, row.form)
        OBVIOUS
  <2>2. pending[d] \in Held
        BY <2>1 DEF Held, IInv, CallInv
  <2>3. pending[d].id # i
        BY <2>2 DEF FreeIds
  <2>4. ~SamePhone(pending[d].form, form[c])
        BY <2>1 DEF InsertPhone, PhoneFree, HoldsPhone
  <2>5. QED  BY <2>3, <2>4, <1>6, SameSymmetric
<1>9. /\ pc'[c] = "email" /\ pending'[c] = row
      /\ \A d \in Calls \ {c} : pc'[d] = pc[d] /\ pending'[d] = pending[d]
      BY <1>1, <1>3 DEF IInv, TypeOK
<1> HIDE DEF row
<1>10. TypeOK'
  <2>1. pending' = [pending EXCEPT ![c] = row]
        BY <1>1 DEF row
  <2>2. QED  BY <1>3, <1>5, <2>1 DEF IInv, TypeOK
<1>11. AccountInv'
       BY <1>3 DEF IInv, AccountInv
<1>12. CallInv'
  <2>1. \A g : (PhoneTaken(g)' <=> PhoneTaken(g)) /\ (EmailTaken(g)' <=> EmailTaken(g))
        BY <1>3 DEF PhoneTaken, EmailTaken
  <2>2. QED  BY <1>3, <1>4, <1>5, <1>6, <1>9, <2>1 DEF IInv, CallInv
<1>13. PendingInv'
       BY <1>3, <1>7, <1>8, <1>9 DEF IInv, PendingInv
<1>14. QED  BY <1>10, <1>11, <1>12, <1>13 DEF IInv

\* It enters the index of the emails only when neither a committed row nor one
\* that is about to commit has its email.
LEMMA InsertEmailInv ==
  ASSUME IInv, NEW c \in Calls, InsertEmail(c)
  PROVE  IInv'
<1>1. /\ pc[c] = "email" /\ pc' = [pc EXCEPT ![c] = "commit"]
      /\ users' = users /\ wallets' = wallets /\ form' = form
      /\ pending' = pending /\ created' = created /\ faults' = faults
      BY DEF InsertEmail, Goto
<1>2. pending[c].form = form[c]
      BY <1>1 DEF IInv, CallInv
<1>3. \A u \in users : ~SameEmail(u.form, pending[c].form)
      BY <1>2 DEF InsertEmail, EmailFree, EmailTaken
<1>4. \A d \in Calls \ {c} : pc[d] = "commit" =>
        /\ ~SameEmail(pending[d].form, pending[c].form)
        /\ ~SameEmail(pending[c].form, pending[d].form)
      BY <1>2, SameSymmetric DEF InsertEmail, EmailFree, HoldsEmail
<1>5. pc'[c] = "commit" /\ \A d \in Calls \ {c} : pc'[d] = pc[d]
      BY <1>1 DEF IInv, TypeOK
<1>6. TypeOK' /\ AccountInv'
      BY <1>1 DEF IInv, TypeOK, AccountInv
<1>7. CallInv'
  <2>1. \A g : (PhoneTaken(g)' <=> PhoneTaken(g)) /\ (EmailTaken(g)' <=> EmailTaken(g))
        BY <1>1 DEF PhoneTaken, EmailTaken
  <2>2. QED  BY <1>1, <1>5, <2>1 DEF IInv, CallInv
<1>8. PendingInv'
      BY <1>1, <1>3, <1>4, <1>5 DEF IInv, PendingInv
<1>9. QED  BY <1>6, <1>7, <1>8 DEF IInv

\* A commit adds a row that is compatible with all others, and its wallet.
LEMMA CommitInv ==
  ASSUME IInv, NEW c \in Calls, Commit(c)
  PROVE  IInv'
<1> DEFINE row == pending[c]
<1>1. /\ pc[c] = "commit" /\ pc' = [pc EXCEPT ![c] = "created"]
      /\ users' = users \cup {row} /\ wallets' = wallets \cup {row.id}
      /\ form' = form /\ pending' = pending /\ created' = created /\ faults' = faults
      BY DEF Commit, Goto
<1>2. row \in Row
      BY <1>1 DEF IInv, TypeOK, CallInv
<1>3. row.id \in Ids
      BY <1>2 DEF Row
<1>4. /\ \A u \in users :
           /\ u.id # row.id
           /\ ~SamePhone(u.form, row.form) /\ ~SamePhone(row.form, u.form)
           /\ ~SameEmail(u.form, row.form) /\ ~SameEmail(row.form, u.form)
      /\ \A d \in Calls \ {c} : pc[d] \in {"email", "commit"} =>
           /\ row.id # pending[d].id /\ ~SamePhone(row.form, pending[d].form)
           /\ pc[d] = "commit" => ~SameEmail(row.form, pending[d].form)
      BY <1>1, SameSymmetric DEF IInv, PendingInv
<1>5. /\ pc'[c] = "created"
      /\ \A d \in Calls \ {c} : pc'[d] = pc[d]
      BY <1>1 DEF IInv, TypeOK
<1> HIDE DEF row
<1>6. TypeOK'
      BY <1>1, <1>2, <1>3 DEF IInv, TypeOK
<1>7. AccountInv'
  <2>1. wallets' = { u.id : u \in users' }
        BY <1>1 DEF IInv, AccountInv
  <2>2. \A u, v \in users' : u # v =>
          u.id # v.id /\ ~SamePhone(u.form, v.form) /\ ~SameEmail(u.form, v.form)
        BY <1>1, <1>4 DEF IInv, AccountInv
  <2>3. created' \subseteq users'
        BY <1>1 DEF IInv, AccountInv
  <2>4. QED  BY <2>1, <2>2, <2>3 DEF AccountInv
<1>8. CallInv'
  <2>1. \A g : (PhoneTaken(g) => PhoneTaken(g)') /\ (EmailTaken(g) => EmailTaken(g)')
        BY <1>1 DEF PhoneTaken, EmailTaken
  <2>2. pending[c] \in users'
        BY <1>1 DEF row
  <2>3. QED  BY <1>1, <1>5, <2>1, <2>2 DEF IInv, CallInv
<1>9. PendingInv'
      BY <1>1, <1>4, <1>5 DEF IInv, PendingInv
<1>10. QED  BY <1>6, <1>7, <1>8, <1>9 DEF IInv

\* Every step keeps the inductive invariant.
LEMMA NextInv == IInv /\ [Next]_vars => IInv'
<1>1. SUFFICES ASSUME IInv, Next PROVE IInv'
  <2>1. ASSUME IInv, UNCHANGED vars PROVE IInv'
        BY <2>1 DEF vars, IInv, TypeOK, AccountInv, CallInv, PendingInv,
                      PhoneTaken, EmailTaken
  <2>2. QED  BY <2>1
<1>2. TypeOK
      BY <1>1 DEF IInv
<1>3. ASSUME NEW c \in Calls, NEW f \in Forms, Apply(c, f) PROVE IInv'
  <2>1. /\ pc[c] = "idle" /\ pending[c] = NoRow /\ f \in Form
        BY <1>1, <1>3, FormAssumption DEF Apply, IInv, CallInv
  <2>2. pending' = [pending EXCEPT ![c] = NoRow]
        BY <1>2, <1>3, <2>1 DEF Apply, TypeOK
  <2>3. QED  BY <1>1, <1>2, <1>3, <2>1, <2>2, MoveInv
             DEF Apply, Goto, IInv, TypeOK, AccountInv
<1>4. ASSUME NEW c \in Calls, LookUp(c) PROVE IInv'
  <2> DEFINE step == IF \E u \in users : u.form.phone = form[c].phone
                     THEN "refused" ELSE "insert"
  <2>1. /\ pc[c] = "check" /\ pending[c] = NoRow /\ form[c] \in Form
        BY <1>1, <1>4 DEF LookUp, IInv, CallInv
  <2>2. /\ pending' = [pending EXCEPT ![c] = NoRow]
        /\ form' = [form EXCEPT ![c] = form[c]]
        BY <1>2, <1>4, <2>1 DEF LookUp, TypeOK
  <2>3. step = "refused" => PhoneTaken(form[c])
        BY DEF PhoneTaken, SamePhone
  <2>4. /\ pc' = [pc EXCEPT ![c] = step] /\ step \in {"insert", "refused"}
        /\ UNCHANGED <<users, wallets, created, faults>>
        BY <1>4 DEF LookUp, Goto
  <2> HIDE DEF step
  <2>5. QED  BY <1>1, <1>2, <2>1, <2>2, <2>3, <2>4, MoveInv DEF IInv, TypeOK, AccountInv
<1>5. ASSUME NEW c \in Calls, LoseRace(c) PROVE IInv'
  <2>1. /\ form[c] \in Form
        /\ PhoneTaken(form[c]) \/ EmailTaken(form[c])
        BY <1>1, <1>5 DEF LoseRace, RaceLost, IInv, CallInv
  <2>2. /\ pending' = [pending EXCEPT ![c] = NoRow]
        /\ form' = [form EXCEPT ![c] = form[c]]
        /\ pc' = [pc EXCEPT ![c] = "failed"]
        /\ UNCHANGED <<users, wallets, created, faults>>
        BY <1>2, <1>5 DEF LoseRace, Goto, TypeOK
  <2>3. QED  BY <1>1, <1>2, <2>1, <2>2, MoveInv DEF IInv, TypeOK, AccountInv
<1>6. ASSUME NEW c \in Calls, Reply(c) PROVE IInv'
  <2>1. created \subseteq created' /\ created' \subseteq users
        BY <1>1, <1>6 DEF Reply, IInv, CallInv, AccountInv
  <2>2. QED  BY <1>1, <1>2, <1>6, <2>1, MoveInv DEF Reply, End, Goto, TypeOK
<1>7. ASSUME NEW c \in Calls, Fault(c) PROVE IInv'
  <2>1. created' = created /\ created \subseteq users /\ faults' \in Nat
        BY <1>1, <1>7 DEF Fault, IInv, TypeOK, AccountInv
  <2>2. /\ pc' = [pc EXCEPT ![c] = "idle"]
        /\ form' = [form EXCEPT ![c] = NoForm]
        /\ pending' = [pending EXCEPT ![c] = NoRow]
        /\ UNCHANGED <<users, wallets>>
        BY <1>7 DEF Fault, End, Goto
  <2>3. QED  BY <1>1, <2>1, <2>2, MoveInv
<1>8. QED  BY <1>1, <1>3, <1>4, <1>5, <1>6, <1>7, InsertPhoneInv, InsertEmailInv,
        CommitInv DEF Next, Handle

\* The users on file, their wallets and the rows of open transactions fit
\* together in every reachable state (auth.py:14-36).
THEOREM Inductive == Spec => []IInv
  BY InitInv, NextInv, PTL DEF Spec

\* Who was told 201 owns the phone number and a wallet (auth.py:14-36).
THEOREM Owner == Spec => []PhoneFindsOwner
<1>1. IInv => PhoneFindsOwner
  <2>1. SUFFICES ASSUME IInv, NEW r \in created
                 PROVE  /\ r \in users /\ r.id \in wallets
                        /\ \A u \in users : u.form.phone = r.form.phone => u = r
        BY DEF PhoneFindsOwner
  <2>2. r \in users /\ r.id \in wallets
        BY <2>1 DEF IInv, AccountInv
  <2>3. QED  BY <2>1, <2>2 DEF IInv, AccountInv, SamePhone
<1>2. QED  BY <1>1, Inductive, PTL

\* Who waits for whom at the unique indexes.
WaitsFor(c, d) ==
  \/ pc[c] = "insert" /\ ~PhoneTaken(form[c]) /\ HoldsPhone(d, form[c])
  \/ pc[c] = "email" /\ ~EmailTaken(form[c]) /\ HoldsEmail(d, form[c])

\* The guards of the steps that nobody's id is needed for.
CanStep(d) ==
  \/ pc[d] = "commit"
  \/ pc[d] = "email" /\ (EmailFree(d) \/ EmailTaken(form[d]))

\* An applicant whose INSERT can neither enter an index nor fail there waits for
\* exactly one other, and when that one waits itself, for an email, it is for one
\* that is about to commit: at the end of every chain is a call that can make a
\* step.  This needs the order of the indexes and that no two open rows share an
\* entry (auth.py:26-29).
THEOREM WaitsEnd ==
  Spec => [](\A c \in Calls :
               \/ pc[c] = "insert" /\ ~PhoneTaken(form[c]) /\ ~PhoneFree(c)
               \/ pc[c] = "email" /\ ~EmailTaken(form[c]) /\ ~EmailFree(c)
               => \E d \in Calls \ {c} :
                    /\ \A e \in Calls : WaitsFor(c, e) <=> e = d
                    /\ CanStep(d) \/ \E e \in Calls : WaitsFor(d, e) /\ CanStep(e))
<1>1. ASSUME IInv, NEW c \in Calls,
             pc[c] = "email" /\ ~EmailTaken(form[c]) /\ ~EmailFree(c)
      PROVE  \E d \in Calls \ {c} : pc[d] = "commit" /\ \A e \in Calls : WaitsFor(c, e) <=> e = d
  <2>1. PICK d \in Calls : HoldsEmail(d, form[c])
        BY <1>1 DEF EmailFree
  <2>2. pc[d] = "commit" /\ d # c
        BY <1>1, <2>1 DEF HoldsEmail
  <2>3. ASSUME NEW e \in Calls, HoldsEmail(e, form[c]) PROVE e = d
        BY <1>1, <2>1, <2>3 DEF HoldsEmail, SameEmail, IInv, PendingInv
  <2>4. \A e \in Calls : WaitsFor(c, e) <=> HoldsEmail(e, form[c])
        BY <1>1 DEF WaitsFor
  <2>5. QED  BY <2>1, <2>2, <2>3, <2>4
<1>2. ASSUME IInv, NEW c \in Calls,
             pc[c] = "insert" /\ ~PhoneTaken(form[c]) /\ ~PhoneFree(c)
      PROVE  \E d \in Calls \ {c} :
               /\ \A e \in Calls : WaitsFor(c, e) <=> e = d
               /\ CanStep(d) \/ \E e \in Calls : WaitsFor(d, e) /\ CanStep(e)
  <2>1. PICK d \in Calls : HoldsPhone(d, form[c])
        BY <1>2 DEF PhoneFree
  <2>2. pc[d] \in {"email", "commit"} /\ d # c
        BY <1>2, <2>1 DEF HoldsPhone
  <2>3. ASSUME NEW e \in Calls, HoldsPhone(e, form[c]) PROVE e = d
        BY <1>2, <2>1, <2>3 DEF HoldsPhone, SamePhone, IInv, PendingInv
  <2>4. \A e \in Calls : WaitsFor(c, e) <=> HoldsPhone(e, form[c])
        BY <1>2 DEF WaitsFor
  <2>5. CanStep(d) \/ \E e \in Calls : WaitsFor(d, e) /\ CanStep(e)
    <3>1. CASE pc[d] = "email" /\ ~EmailTaken(form[d]) /\ ~EmailFree(d)
      <4>1. PICK e \in Calls : pc[e] = "commit" /\ \A x \in Calls : WaitsFor(d, x) <=> x = e
            BY <1>1, <1>2, <3>1
      <4>2. QED  BY <4>1 DEF CanStep
    <3>2. CASE ~(pc[d] = "email" /\ ~EmailTaken(form[d]) /\ ~EmailFree(d))
          BY <2>2, <3>2 DEF CanStep
    <3>3. QED  BY <3>1, <3>2
  <2>6. QED  BY <2>1, <2>2, <2>3, <2>4, <2>5
<1>3. IInv => (\A c \in Calls :
               \/ pc[c] = "insert" /\ ~PhoneTaken(form[c]) /\ ~PhoneFree(c)
               \/ pc[c] = "email" /\ ~EmailTaken(form[c]) /\ ~EmailFree(c)
               => \E d \in Calls \ {c} :
                    /\ \A e \in Calls : WaitsFor(c, e) <=> e = d
                    /\ CanStep(d) \/ \E e \in Calls : WaitsFor(d, e) /\ CanStep(e))
  <2>1. SUFFICES ASSUME IInv, NEW c \in Calls,
                        \/ pc[c] = "insert" /\ ~PhoneTaken(form[c]) /\ ~PhoneFree(c)
                        \/ pc[c] = "email" /\ ~EmailTaken(form[c]) /\ ~EmailFree(c)
                 PROVE  \E d \in Calls \ {c} :
                          /\ \A e \in Calls : WaitsFor(c, e) <=> e = d
                          /\ CanStep(d) \/ \E e \in Calls : WaitsFor(d, e) /\ CanStep(e)
        OBVIOUS
  <2>2. CASE pc[c] = "insert" /\ ~PhoneTaken(form[c]) /\ ~PhoneFree(c)
        BY <1>2, <2>1, <2>2
  <2>3. CASE pc[c] = "email" /\ ~EmailTaken(form[c]) /\ ~EmailFree(c)
    <3>1. PICK d \in Calls \ {c} : pc[d] = "commit" /\ \A e \in Calls : WaitsFor(c, e) <=> e = d
          BY <1>1, <2>1, <2>3
    <3>2. QED  BY <3>1 DEF CanStep
  <2>4. QED  BY <2>1, <2>2, <2>3
<1>4. QED  BY <1>3, Inductive, PTL

=============================================================================
