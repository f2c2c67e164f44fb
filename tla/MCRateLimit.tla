----------------------------- MODULE MCRateLimit -----------------------------
(* Instances of RateLimit for TLC: one network, and who attempts what.      *)
EXTENDS RateLimit, TLC

CONSTANTS net, home, cafe

OneNet == [i \in Ips |-> net]

Tries(doors, ips, names, secrets, cookies) ==
  [door : doors, ip : ips, name : names, pw : secrets, cookie : cookies]

OneGuess == CHOOSE p \in Guesses : TRUE

\* Clients at one address guess passwords of an account and waste the network's limit;
\* the owner, at another, uses mail and the login page, and mistypes a password there.
Neighbours ==
  Tries({"mail"}, {cafe}, Accounts, Guesses, {None})
  \cup Tries({"mail", "token", "web"}, {home}, Accounts, {Right}, {None})
  \cup Tries({"web"}, {cafe}, Accounts, {Right, OneGuess}, Cookies)
  \cup Tries({"web", "basic"}, {cafe}, Accounts, {OneGuess}, {None})
  \cup Tries({"mail", "webmail"}, {home}, Accounts, {OneGuess}, {None})
  \cup Tries({"port25", "api"}, {cafe}, {None}, {OneGuess}, {None})
  \cup Tries({"webmail"}, {home}, Unknown, {Right}, {None})

Symmetry == Permutations(Workers)
=============================================================================
