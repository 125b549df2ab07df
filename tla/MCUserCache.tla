----------------------------- MODULE MCUserCache -----------------------------
EXTENDS UserCache
=============================================================================
