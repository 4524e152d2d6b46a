----------------------------- MODULE MCAccounts -----------------------------
EXTENDS Accounts, TLC

\* "Bob" and "bob" are two spellings of one address.
MCEmails == {"ann", "bob", "Bob"}
MCLower == [e \in MCEmails |-> IF e = "Bob" THEN "bob" ELSE e]

\* Requests, names and passwords are only compared.
Symmetry ==
  Permutations(Requests) \cup Permutations(Names) \cup Permutations(Passwords)

=============================================================================
