---------------------------- MODULE MCLockGuard ----------------------------
EXTENDS LockGuard, TLC
=============================================================================
