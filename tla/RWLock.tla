------------------------------ MODULE RWLock ------------------------------
(***************************************************************************)
(* What ywSpinLock (include/ywspinlock.h) promises its clients: an         *)
(* acquisition or a release happens at one instant, any number of readers  *)
(* share the lock, and a writer has it alone.                              *)
(***************************************************************************)
CONSTANT Clients

VARIABLES readers, writers

rwVars == <<readers, writers>>

RWInit == readers = {} /\ writers = {}

(* RLock() or tryRLock() returns true.                                     *)
RAcquire(c) ==
    /\ c \notin readers /\ writers = {}
    /\ readers' = readers \cup {c}
    /\ UNCHANGED writers

(* WLock() or tryWLock() returns true.                                     *)
WAcquire(c) ==
    /\ readers = {} /\ writers = {}
    /\ writers' = {c}
    /\ UNCHANGED readers

(* release(): whatever the client holds.                                   *)
RWRelease(c) ==
    /\ c \in readers \cup writers
    /\ readers' = readers \ {c}
    /\ writers' = writers \ {c}

RWNext == \E c \in Clients : RAcquire(c) \/ WAcquire(c) \/ RWRelease(c)

RWSpec == RWInit /\ [][RWNext]_rwVars
=============================================================================
