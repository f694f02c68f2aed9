----------------------------- MODULE SpinLock -----------------------------
(***************************************************************************)
(* ywSpinLock (include/ywspinlock.h).  One 16-bit word, status, counts the *)
(* readers or holds WLOCK.  Every load and every compare-and-swap is a     *)
(* step.  A client is one use of the lock (acquire, then release); a       *)
(* thread that nests several read locks is several clients.  The retry     *)
(* loops of RLock() and WLock() may give up at any of their turns, which   *)
(* covers every timeout and the single attempt of tryRLock()/tryWLock();   *)
(* miss_count is a statistic and is left out.                              *)
(***************************************************************************)
EXTENDS Integers, FiniteSets

CONSTANT Clients

NONE == 0

WLOCK == -1234

INT16_MAX == 32767

(* The value a conversion to int16_t stores.                               *)
Int16(x) == ((x + INT16_MAX + 1) % (2 * (INT16_MAX + 1))) - (INT16_MAX + 1)

(* status can count all clients.                                           *)
ASSUME ClientsAssumption ==
    IsFiniteSet(Clients) /\ Cardinality(Clients) <= INT16_MAX

VARIABLES
    status,
    pc,
    prev      \* the local of tryRLock(), tryWLock() and release()

vars == <<status, pc, prev>>

PCs == {"idle", "r_load", "r_cas", "w_load", "w_cas", "reading", "writing",
        "r_rel_load", "r_rel_cas", "w_rel_cas", "abort"}

Readers == {c \in Clients : pc[c] \in {"reading", "r_rel_load", "r_rel_cas"}}

Writers == {c \in Clients : pc[c] \in {"writing", "w_rel_cas"}}

(* The types of the lock word, within 16 bits, and of what clients loaded. *)
TypeOK ==
    /\ status \in -(INT16_MAX + 1) .. INT16_MAX
    /\ pc \in [Clients -> PCs]
    /\ prev \in [Clients -> -(INT16_MAX + 1) .. INT16_MAX]

Init ==
    /\ status = NONE
    /\ pc = [c \in Clients |-> "idle"]
    /\ prev = [c \in Clients |-> 0]

Goto(c, label) == pc' = [pc EXCEPT ![c] = label]

(* The call of RLock() or tryRLock().                                      *)
RLock(c) ==
    /\ pc[c] = "idle"
    /\ Goto(c, "r_load")
    /\ UNCHANGED <<status, prev>>

(* The load of tryRLock(); it fails while a writer has the lock.           *)
RLoad(c) ==
    /\ pc[c] = "r_load" /\ status >= 0
    /\ prev' = [prev EXCEPT ![c] = status]
    /\ Goto(c, "r_cas")
    /\ UNCHANGED status

(* Fault: the count is stored without a comparison.                        *)
RCasPlainStore(c) ==
    /\ pc[c] = "r_cas"
    /\ status' = Int16(prev[c] + 1)
    /\ Goto(c, "reading")
    /\ UNCHANGED prev

(* Its compare-and-swap.                                                   *)
RCas(c) ==
    /\ pc[c] = "r_cas"
    /\ \/ /\ status = prev[c]
          /\ status' = Int16(prev[c] + 1)
          /\ Goto(c, "reading")
       \/ /\ status # prev[c]
          /\ Goto(c, "r_load")
          /\ UNCHANGED status
    /\ UNCHANGED prev

(* The call of WLock() or tryWLock().                                      *)
WLock(c) ==
    /\ pc[c] = "idle"
    /\ Goto(c, "w_load")
    /\ UNCHANGED <<status, prev>>

(* Fault: only another writer keeps a writer out.                          *)
WLoadOverReaders(c) ==
    /\ pc[c] = "w_load" /\ status >= 0
    /\ prev' = [prev EXCEPT ![c] = status]
    /\ Goto(c, "w_cas")
    /\ UNCHANGED status

(* The load of tryWLock(); it fails unless the lock is free.               *)
WLoad(c) ==
    /\ pc[c] = "w_load" /\ status = NONE
    /\ prev' = [prev EXCEPT ![c] = status]
    /\ Goto(c, "w_cas")
    /\ UNCHANGED status

(* Fault: the expected and the new value are swapped.                      *)
WCasSwapped(c) ==
    /\ pc[c] = "w_cas"
    /\ \/ /\ status = WLOCK
          /\ status' = prev[c]
          /\ Goto(c, "writing")
       \/ /\ status # WLOCK
          /\ Goto(c, "w_load")
          /\ UNCHANGED status
    /\ UNCHANGED prev

(* Its compare-and-swap.                                                   *)
WCas(c) ==
    /\ pc[c] = "w_cas"
    /\ \/ /\ status = prev[c]
          /\ status' = WLOCK
          /\ Goto(c, "writing")
       \/ /\ status # prev[c]
          /\ Goto(c, "w_load")
          /\ UNCHANGED status
    /\ UNCHANGED prev

(* An attempt has failed and the caller returns false.                     *)
GiveUp(c) ==
    /\ pc[c] \in {"r_load", "w_load"}
    /\ Goto(c, "idle")
    /\ UNCHANGED <<status, prev>>

(* release() branches on a first load of status, whoever calls it.         *)
Release(c) ==
    /\ pc[c] \in {"reading", "writing"}
    /\ Goto(c, IF status < 0 THEN "w_rel_cas" ELSE "r_rel_load")
    /\ UNCHANGED <<status, prev>>

(* The writer's branch: assert(compare-and-swap(WLOCK, NONE)).             *)
WRelCas(c) ==
    /\ pc[c] = "w_rel_cas"
    /\ status' = IF status = WLOCK THEN NONE ELSE status
    /\ Goto(c, IF status = WLOCK THEN "idle" ELSE "abort")
    /\ UNCHANGED prev

(* The reader's branch: load, assert(prev > 0) ...                         *)
RRelLoad(c) ==
    /\ pc[c] = "r_rel_load"
    /\ prev' = [prev EXCEPT ![c] = status]
    /\ Goto(c, IF status > 0 THEN "r_rel_cas" ELSE "abort")
    /\ UNCHANGED status

(* ... and compare-and-swap, repeated until it succeeds.                   *)
RRelCas(c) ==
    /\ pc[c] = "r_rel_cas"
    /\ \/ /\ status = prev[c]
          /\ status' = prev[c] - 1
          /\ Goto(c, "idle")
       \/ /\ status # prev[c]
          /\ Goto(c, "r_rel_load")
          /\ UNCHANGED status
    /\ UNCHANGED prev

Acquiring(c) == RLoad(c) \/ RCas(c) \/ WLoad(c) \/ WCas(c)

Releasing(c) == Release(c) \/ WRelCas(c) \/ RRelLoad(c) \/ RRelCas(c)

Step(c) == RLock(c) \/ WLock(c) \/ GiveUp(c) \/ Acquiring(c) \/ Releasing(c)

Next == \E c \in Clients : Step(c)

Spec == Init /\ [][Next]_vars

(* A client that is inside RLock(), WLock() or release() is scheduled;     *)
(* nobody has to call them, to give up, or to end its critical section.    *)
Fairness ==
    \A c \in Clients : /\ WF_vars(Acquiring(c))
                       /\ WF_vars(WRelCas(c) \/ RRelLoad(c) \/ RRelCas(c))

FairSpec == Spec /\ Fairness
-----------------------------------------------------------------------------
(* status is exact at every step: WLOCK while one client has the lock for  *)
(* writing, and otherwise the number of readers, although every client     *)
(* changes it from a value it has loaded earlier.                          *)
StatusExact ==
    \/ /\ Writers = {}
       /\ status = Cardinality(Readers)
    \/ /\ Readers = {} /\ status = WLOCK
       /\ \E c \in Clients : Writers = {c}

(* None of the assertions of release() (lines 48, 53 and 54) can fail: a   *)
(* holder always finds the branch, and the count, that belong to it.       *)
NoAbort == \A c \in Clients : pc[c] # "abort"

(* ywSpinLock implements the abstract lock.                                *)
Abstract == INSTANCE RWLock WITH readers <- Readers, writers <- Writers

ImplementsRWLock == Abstract!RWSpec

(* Clients that race for a free lock do not make each other fail for ever: *)
(* while one of them is trying, the lock does not stay free.               *)
Trying(c) == pc[c] \in {"r_load", "r_cas", "w_load", "w_cas"}

FreeLockIsTaken ==
    \A c \in Clients : (status = NONE /\ Trying(c)) ~> (status # NONE \/ ~Trying(c))
=============================================================================
