\* Three applicants at a time, who claim a phone number or an email twice.
SPECIFICATION FairSpec
CONSTANTS
  p = p
  q = q
  x = x
  a = a
  b = b
  c1 = c1
  c2 = c2
  c3 = c3
  NoEmail = NoEmail
  NoForm = NoForm
  NoRow = NoRow
  Calls <- MCCalls
  Forms <- MCForms
  Phones <- MCPhones
  Emails <- MCEmails
  Passwords <- MCPasswords
  Ids = {1, 2, 3}
  MaxFaults = 1
INVARIANTS
  IInv
  PhoneFindsOwner
PROPERTIES
  EveryRegistrationEnds
