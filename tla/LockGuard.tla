----------------------------- MODULE LockGuard -----------------------------
(***************************************************************************)
(* ywLockGuard (include/ywspinlock.h): a guard object collects the locks   *)
(* its thread takes and releases them together.  The locks are abstract    *)
(* reader/writer locks, which ywSpinLock implements (SpinLock.tla).        *)
(* Guards may ask for any locks in any order, so they also meet in         *)
(* circular waits, which only the timeout of the lock resolves.            *)
(***************************************************************************)
EXTENDS Naturals, Sequences, SequencesExt

CONSTANTS
    Guards,        \* guard objects, each in a thread of its own
    Locks,
    GUARD_SIZE,    \* capacity of each of the two arrays
    NoLock

ASSUME GuardSizeAssumption == GUARD_SIZE \in Nat \ {0}
ASSUME NoLockAssumption == NoLock \notin Locks

VARIABLES
    readers,       \* of each lock
    writers,       \* of each lock
    rlock, wlock,  \* the arrays of each guard; rlock_idx, wlock_idx are lengths
    pc,
    want,          \* the lock a guard is waiting for
    granted        \* what a guard's calls have returned true for

vars == <<readers, writers, rlock, wlock, pc, want, granted>>

(* The types of the guards' arrays, never beyond their capacity.           *)
TypeOK ==
    /\ readers \in [Locks -> SUBSET Guards]
    /\ writers \in [Locks -> SUBSET Guards]
    /\ rlock \in [Guards -> Seq(Locks)] /\ wlock \in [Guards -> Seq(Locks)]
    /\ \A g \in Guards : Len(rlock[g]) <= GUARD_SIZE /\ Len(wlock[g]) <= GUARD_SIZE
    /\ pc \in [Guards -> {"idle", "r_wait", "w_wait", "release"}]
    /\ want \in [Guards -> Locks \cup {NoLock}]
    /\ granted \in [Guards -> SUBSET ({"r", "w"} \X Locks)]

Init ==
    /\ readers = [l \in Locks |-> {}]
    /\ writers = [l \in Locks |-> {}]
    /\ rlock = [g \in Guards |-> <<>>]
    /\ wlock = [g \in Guards |-> <<>>]
    /\ pc = [g \in Guards |-> "idle"]
    /\ want = [g \in Guards |-> NoLock]
    /\ granted = [g \in Guards |-> {}]

Return(g, label) ==
    /\ pc' = [pc EXCEPT ![g] = label]
    /\ want' = [want EXCEPT ![g] = NoLock]

(* A call that passes the early returns waits for the lock.                *)
Wait(g, label, l) ==
    /\ pc' = [pc EXCEPT ![g] = label]
    /\ want' = [want EXCEPT ![g] = l]
    /\ UNCHANGED <<readers, writers, rlock, wlock, granted>>

Grant(g, mode, l) == granted' = [granted EXCEPT ![g] = @ \cup {<<mode, l>>}]

(* Fault: a lock the guard only reads counts as held for writing.          *)
WLockHeldForReading(g, l) ==
    /\ pc[g] = "idle" /\ Len(wlock[g]) < GUARD_SIZE
    /\ Contains(wlock[g], l) \/ Contains(rlock[g], l)
    /\ Grant(g, "w", l)
    /\ UNCHANGED <<readers, writers, rlock, wlock, pc, want>>

(* WLock(lock) of a lock already write-locked by the guard.                *)
WLockHeld(g, l) ==
    /\ pc[g] = "idle" /\ Len(wlock[g]) < GUARD_SIZE
    /\ Contains(wlock[g], l)
    /\ Grant(g, "w", l)
    /\ UNCHANGED <<readers, writers, rlock, wlock, pc, want>>

(* WLock(lock) of another lock.  A full guard returns false before it      *)
(* looks, and then nothing changes.                                        *)
WLock(g, l) ==
    /\ pc[g] = "idle" /\ Len(wlock[g]) < GUARD_SIZE
    /\ ~Contains(wlock[g], l)
    /\ Wait(g, "w_wait", l)

WGranted(g) ==
    /\ pc[g] = "w_wait"
    /\ readers[want[g]] = {} /\ writers[want[g]] = {}
    /\ writers' = [writers EXCEPT ![want[g]] = {g}]
    /\ wlock' = [wlock EXCEPT ![g] = Append(@, want[g])]
    /\ Grant(g, "w", want[g])
    /\ Return(g, "idle")
    /\ UNCHANGED <<readers, rlock>>

(* RLock(lock) of a lock the guard has in either mode.                     *)
RLockHeld(g, l) ==
    /\ pc[g] = "idle" /\ Len(rlock[g]) < GUARD_SIZE
    /\ Contains(wlock[g], l) \/ Contains(rlock[g], l)
    /\ Grant(g, "r", l)
    /\ UNCHANGED <<readers, writers, rlock, wlock, pc, want>>

(* Fault: locks the guard already reads are not looked for.                *)
RLockAgain(g, l) ==
    /\ pc[g] = "idle" /\ Len(rlock[g]) < GUARD_SIZE
    /\ ~Contains(wlock[g], l)
    /\ Wait(g, "r_wait", l)

(* RLock(lock) of another lock.                                            *)
RLock(g, l) ==
    /\ pc[g] = "idle" /\ Len(rlock[g]) < GUARD_SIZE
    /\ ~Contains(wlock[g], l) /\ ~Contains(rlock[g], l)
    /\ Wait(g, "r_wait", l)

RGranted(g) ==
    /\ pc[g] = "r_wait"
    /\ writers[want[g]] = {}
    /\ readers' = [readers EXCEPT ![want[g]] = @ \cup {g}]
    /\ rlock' = [rlock EXCEPT ![g] = Append(@, want[g])]
    /\ Grant(g, "r", want[g])
    /\ Return(g, "idle")
    /\ UNCHANGED <<writers, wlock>>

(* Fault: a writer begins to wait again.                                   *)
TimeoutRestarts(g) ==
    /\ pc[g] \in {"r_wait", "w_wait"}
    /\ IF pc[g] = "w_wait" THEN UNCHANGED <<pc, want>> ELSE Return(g, "idle")
    /\ UNCHANGED <<readers, writers, rlock, wlock, granted>>

(* The lock's own loop gives up: the call returns false.                   *)
Timeout(g) ==
    /\ pc[g] \in {"r_wait", "w_wait"}
    /\ Return(g, "idle")
    /\ UNCHANGED <<readers, writers, rlock, wlock, granted>>

(* release(), or the destructor: the read locks from the last one, ...     *)
Release(g) ==
    /\ pc[g] = "idle"
    /\ granted' = [granted EXCEPT ![g] = {}]
    /\ Return(g, "release")
    /\ UNCHANGED <<readers, writers, rlock, wlock>>

ReleaseR(g) ==
    /\ pc[g] = "release" /\ rlock[g] # <<>>
    /\ readers' = [readers EXCEPT ![Last(rlock[g])] = @ \ {g}]
    /\ rlock' = [rlock EXCEPT ![g] = Front(@)]
    /\ UNCHANGED <<writers, wlock, pc, want, granted>>

(* ... then the write locks, ...                                           *)
ReleaseW(g) ==
    /\ pc[g] = "release" /\ rlock[g] = <<>> /\ wlock[g] # <<>>
    /\ writers' = [writers EXCEPT ![Last(wlock[g])] = @ \ {g}]
    /\ wlock' = [wlock EXCEPT ![g] = Front(@)]
    /\ UNCHANGED <<readers, rlock, pc, want, granted>>

(* ... and it returns.                                                     *)
ReleaseEnd(g) ==
    /\ pc[g] = "release" /\ rlock[g] = <<>> /\ wlock[g] = <<>>
    /\ Return(g, "idle")
    /\ UNCHANGED <<readers, writers, rlock, wlock, granted>>

Call(g) ==
    \/ \E l \in Locks : WLockHeld(g, l) \/ WLock(g, l) \/ RLockHeld(g, l) \/ RLock(g, l)
    \/ Release(g)

Work(g) ==
    \/ WGranted(g) \/ RGranted(g) \/ Timeout(g)
    \/ ReleaseR(g) \/ ReleaseW(g) \/ ReleaseEnd(g)

Next == \E g \in Guards : Call(g) \/ Work(g)

(* A thread inside a call is scheduled; the loops of ywSpinLock are        *)
(* bounded, so that a call that waits ends by itself.                      *)
Fairness == \A g \in Guards : WF_vars(Work(g))

Spec == Init /\ [][Next]_vars /\ Fairness
-----------------------------------------------------------------------------
(* The arrays of a guard are exactly the locks its thread has, each once:  *)
(* nothing is acquired and forgotten, released twice or left locked after  *)
(* the destructor, whatever calls timed out in between.                    *)
GuardExact ==
    \A g \in Guards :
        /\ \A l \in Locks : /\ g \in readers[l] <=> Contains(rlock[g], l)
                            /\ g \in writers[l] <=> Contains(wlock[g], l)
        /\ IsInjective(rlock[g]) /\ IsInjective(wlock[g])

(* A caller that was told true may rely on it until it releases: it has    *)
(* the lock, and nobody else can write (or, for a write lock, even read)   *)
(* under it.                                                               *)
GrantHolds ==
    \A g \in Guards : \A l \in Locks :
        /\ <<"w", l>> \in granted[g] => writers[l] = {g} /\ readers[l] \subseteq {g}
        /\ <<"r", l>> \in granted[g] =>
               (g \in readers[l] /\ writers[l] = {}) \/ writers[l] = {g}

(* Guards that wait for each other in a circle, and a guard that wants to  *)
(* write what it has read-locked itself, all get an answer.                *)
CallsReturn == \A g \in Guards : pc[g] # "idle" ~> pc[g] = "idle"
=============================================================================
