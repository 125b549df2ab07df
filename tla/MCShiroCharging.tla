-------------------------- MODULE MCShiroCharging --------------------------
EXTENDS ShiroCharging, TLC

AnyOrder == Permutations(Requests) \union Permutations(Accounts)
=============================================================================
