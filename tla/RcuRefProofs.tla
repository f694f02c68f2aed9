--------------------------- MODULE RcuRefProofs ---------------------------
(***************************************************************************)
(* Proofs about RcuRef, for every number of slots, set of objects, set of  *)
(* rings and bound, when a thread's fixtime store is visible before its    *)
(* next load (StoreBuffer = FALSE).                                        *)
(***************************************************************************)
EXTENDS RcuRef, TLAPS

(* Every time a thread has read is at most the current one.                *)
TimeBounds ==
    /\ reusable_time <= global_time
    /\ \A t \in Threads : /\ fixtime[t] <= global_time
                          /\ loaded[t] <= global_time
                          /\ cur_time[t] <= global_time

(* A thread that is publishing owns an object, one that is looking for a   *)
(* reusable item owns none.                                                *)
WriterInv ==
    \A t \in Threads : /\ pc[t] \in {"locked", "retired"} => nval[t] # NULL
                       /\ pc[t] \in {"get", "pop_again"} => nval[t] = NULL

(* fix() stores only into a slot that is not fixed.                        *)
FixInv ==
    \A t \in Threads : loaded[t] # NIL_TIME => fixtime[t] = NIL_TIME

(* Why a held object is not reusable: the ring it is in was closed at or   *)
(* after the time its reader fixed, so neither reusable_time nor a scan    *)
(* that has passed the reader's slot can exceed the ring's remove_time.    *)
Protected ==
    \A r \in Threads : val[r] # NULL =>
        /\ fixtime[r] # NIL_TIME
        /\ \A q \in Rings : val[r] \in sub_list[q] =>
              /\ fixtime[r] <= remove_time[q]
              /\ reusable_time <= remove_time[q]
              /\ \A t \in Threads : pc[t] = "scan" /\ r < idx[t]
                                       => cur_time[t] <= remove_time[q]

IInv == /\ TypeOK
        /\ TimeBounds
        /\ LockExclusion
        /\ WriterInv
        /\ FixInv
        /\ SingleOwner
        /\ Protected
        /\ NoReuseWhileHeld
-----------------------------------------------------------------------------
(* A loop index that is not at the end of the scan is a slot number.       *)
LEMMA IndexIsSlot ==
    ASSUME NEW i \in 0 .. SLOT_COUNT, i < SLOT_COUNT
    PROVE  i \in Threads /\ i + 1 \in 0 .. SLOT_COUNT
BY SlotCountAssumption DEF Threads

(* Every action keeps the variables in their types.                        *)
LEMMA TypeStep ==
    ASSUME TypeOK, WriterInv, [Next]_vars
    PROVE  TypeOK'
<1> USE NullAssumption
        DEF TypeOK, PCs, Goto, Idle, Drained, Fixed, NIL_TIME,
            timeVars, slotVars, ringVars, clientVars, scanVars
<1>1. CASE UNCHANGED vars
  BY <1>1 DEF vars
<1>2. ASSUME NEW t \in Threads, Step(t)
      PROVE  TypeOK'
  <2>1. CASE FixLoad(t)  BY <2>1 DEF FixLoad
  <2>2. CASE FixStore(t)  BY <2>2 DEF FixStore
  <2>3. CASE FixNested(t)  BY <2>3 DEF FixNested
  <2>4. CASE LoadPtr(t)  BY <2>4 DEF LoadPtr
  <2>5. CASE Unfix(t)  BY <2>5 DEF Unfix
  <2>6. CASE AllocFresh(t)  BY <2>6 DEF AllocFresh
  <2>7. CASE WriteLock(t)  BY <2>7 DEF WriteLock, Acquire
  <2>8. CASE Retire(t)  BY <2>8 DEF Retire
  <2>9. CASE Publish(t)  BY <2>9 DEF Publish, WriterInv
  <2>10. CASE Release(t)  BY <2>10 DEF Release
  <2>11. CASE GetBegin(t)  BY <2>11 DEF GetBegin
  <2>12. CASE GetPop(t)  BY <2>12 DEF GetPop, PopRing
  <2>13. CASE GetChangeRing(t)  BY <2>13 DEF GetChangeRing, ChangeRing, FreeRings
  <2>14. CASE GetPopAgain(t)  BY <2>14 DEF GetPopAgain, PopRing
  <2>15. CASE GetNoRing(t)  BY <2>15 DEF GetNoRing
  <2>16. CASE GetNotReusable(t)  BY <2>16 DEF GetNotReusable
  <2>17. CASE GetItem(t)  BY <2>17 DEF GetItem
  <2>18. CASE GetEmptyRing(t)  BY <2>18 DEF GetEmptyRing
  <2>19. CASE TimerUpdate(t)  BY <2>19 DEF TimerUpdate
  <2>20. CASE Aging(t)  BY <2>20 DEF Aging, ChangeRing, FreeRings
  <2>21. CASE UpdateLock(t)  BY <2>21, SlotCountAssumption DEF UpdateLock, Acquire
  <2>22. CASE UpdateTimeout(t)  BY <2>22 DEF UpdateTimeout
  <2>23. CASE ScanSlot(t)
    <3>1. idx[t] \in Threads /\ idx[t] + 1 \in 0 .. SLOT_COUNT
      BY <2>23, IndexIsSlot DEF ScanSlot
    <3>2. fixtime[idx[t]] \in Nat
      BY <3>1
    <3>3. QED
      BY <2>23, <3>1, <3>2 DEF ScanSlot
  <2>24. CASE ScanEnd(t)  BY <2>24 DEF ScanEnd
  <2>25. QED
    BY <1>2, <2>1, <2>2, <2>3, <2>4, <2>5, <2>6, <2>7, <2>8, <2>9, <2>10,
       <2>11, <2>12, <2>13, <2>14, <2>15, <2>16, <2>17, <2>18, <2>19, <2>20,
       <2>21, <2>22, <2>23, <2>24 DEF Step
<1>3. QED
  BY <1>1, <1>2 DEF Next

(* global_time never decreases, so times read earlier stay below it.        *)
LEMMA TimeStep ==
    ASSUME TypeOK, TimeBounds, [Next]_vars
    PROVE  TimeBounds'
<1> USE DEF TypeOK, TimeBounds, NIL_TIME, timeVars, slotVars, ringVars, clientVars, scanVars
<1>1. CASE UNCHANGED vars
  BY <1>1 DEF vars
<1>2. ASSUME NEW t \in Threads, Step(t)
      PROVE  TimeBounds'
  <2>1. CASE FixLoad(t)  BY <2>1 DEF FixLoad
  <2>2. CASE FixStore(t)  BY <2>2 DEF FixStore
  <2>3. CASE Unfix(t)  BY <2>3 DEF Unfix
  <2>4. CASE WriteLock(t)  BY <2>4 DEF WriteLock, Acquire
  <2>5. CASE Release(t)  BY <2>5 DEF Release
  <2>6. CASE UpdateLock(t)  BY <2>6 DEF UpdateLock, Acquire
  <2>7. CASE ScanSlot(t)
    <3>1. idx[t] \in Threads
      BY <2>7, IndexIsSlot DEF ScanSlot
    <3>2. QED
      BY <2>7, <3>1 DEF ScanSlot
  <2>8. CASE ScanEnd(t)  BY <2>8 DEF ScanEnd
  <2>9. CASE UNCHANGED <<timeVars, fixtime, loaded, cur_time>>
    BY <2>9
  <2>10. QED
    BY <1>2, <2>1, <2>2, <2>3, <2>4, <2>5, <2>6, <2>7, <2>8, <2>9
    DEF Step, FixNested, LoadPtr, AllocFresh, Retire, Publish, GetBegin,
        GetPop, GetChangeRing, GetPopAgain, GetNoRing, GetNotReusable,
        GetItem, GetEmptyRing, TimerUpdate, Aging, UpdateTimeout,
        ChangeRing, PopRing
<1>3. QED
  BY <1>1, <1>2 DEF Next

(* The lock bit changes only under compare-and-swap, by its holder.         *)
LEMMA LockStep ==
    ASSUME TypeOK, LockExclusion, [Next]_vars
    PROVE  LockExclusion'
<1> USE DEF TypeOK, LockExclusion, Holding, Unlocked, PCs, Goto, Idle, Drained,
            timeVars, slotVars, ringVars, clientVars, scanVars
<1>1. CASE UNCHANGED vars
  BY <1>1 DEF vars
<1>2. ASSUME NEW t \in Threads, Step(t)
      PROVE  LockExclusion'
  <2>1. CASE WriteLock(t)  BY <2>1 DEF WriteLock, Acquire
  <2>2. CASE Retire(t)  BY <2>2 DEF Retire
  <2>3. CASE Publish(t)  BY <2>3 DEF Publish
  <2>4. CASE Release(t)  BY <2>4 DEF Release
  <2>5. CASE GetBegin(t)  BY <2>5 DEF GetBegin
  <2>6. CASE GetChangeRing(t)  BY <2>6 DEF GetChangeRing, ChangeRing
  <2>7. CASE GetPopAgain(t)  BY <2>7 DEF GetPopAgain, PopRing
  <2>8. CASE GetNoRing(t)  BY <2>8 DEF GetNoRing
  <2>9. CASE GetNotReusable(t)  BY <2>9 DEF GetNotReusable
  <2>10. CASE GetItem(t)  BY <2>10 DEF GetItem
  <2>11. CASE TimerUpdate(t)  BY <2>11 DEF TimerUpdate
  <2>12. CASE Aging(t)  BY <2>12 DEF Aging, ChangeRing
  <2>13. CASE UpdateLock(t)  BY <2>13 DEF UpdateLock, Acquire
  <2>14. CASE UpdateTimeout(t)  BY <2>14 DEF UpdateTimeout
  <2>15. CASE ScanEnd(t)  BY <2>15 DEF ScanEnd
  <2>16. CASE UNCHANGED <<global_time, pc>>
    BY <2>16
  <2>17. QED
    BY <1>2, <2>1, <2>2, <2>3, <2>4, <2>5, <2>6, <2>7, <2>8, <2>9, <2>10,
       <2>11, <2>12, <2>13, <2>14, <2>15, <2>16
    DEF Step, FixLoad, FixStore, FixNested, LoadPtr, Unfix, AllocFresh,
        GetPop, GetEmptyRing, ScanSlot, PopRing
<1>3. QED
  BY <1>1, <1>2 DEF Next

(* A thread acquires and gives up its object where WriterInv says.          *)
LEMMA WriterStep ==
    ASSUME TypeOK, WriterInv, [Next]_vars
    PROVE  WriterInv'
<1> USE NullAssumption DEF TypeOK, WriterInv, PCs, Goto, Drained,
            timeVars, slotVars, ringVars, clientVars, scanVars
<1>1. CASE UNCHANGED vars
  BY <1>1 DEF vars
<1>2. ASSUME NEW t \in Threads, Step(t)
      PROVE  WriterInv'
  <2>1. CASE AllocFresh(t)  BY <2>1 DEF AllocFresh
  <2>2. CASE WriteLock(t)  BY <2>2 DEF WriteLock, Acquire
  <2>3. CASE Retire(t)  BY <2>3 DEF Retire
  <2>4. CASE Publish(t)  BY <2>4 DEF Publish
  <2>5. CASE Release(t)  BY <2>5 DEF Release
  <2>6. CASE GetBegin(t)  BY <2>6 DEF GetBegin
  <2>7. CASE GetChangeRing(t)  BY <2>7 DEF GetChangeRing, ChangeRing
  <2>8. CASE GetPopAgain(t)  BY <2>8 DEF GetPopAgain, PopRing
  <2>9. CASE GetNoRing(t)  BY <2>9 DEF GetNoRing
  <2>10. CASE GetNotReusable(t)  BY <2>10 DEF GetNotReusable
  <2>11. CASE GetItem(t)  BY <2>11 DEF GetItem
  <2>12. CASE TimerUpdate(t)  BY <2>12 DEF TimerUpdate
  <2>13. CASE Aging(t)  BY <2>13 DEF Aging, ChangeRing
  <2>14. CASE UpdateLock(t)  BY <2>14 DEF UpdateLock, Acquire
  <2>15. CASE UpdateTimeout(t)  BY <2>15 DEF UpdateTimeout
  <2>16. CASE ScanEnd(t)  BY <2>16 DEF ScanEnd
  <2>17. CASE UNCHANGED <<nval, pc>>
    BY <2>17
  <2>18. QED
    BY <1>2, <2>1, <2>2, <2>3, <2>4, <2>5, <2>6, <2>7, <2>8, <2>9, <2>10,
       <2>11, <2>12, <2>13, <2>14, <2>15, <2>16, <2>17
    DEF Step, FixLoad, FixStore, FixNested, LoadPtr, Unfix, GetPop,
        GetEmptyRing, ScanSlot, PopRing
<1>3. QED
  BY <1>1, <1>2 DEF Next

(* change_ring() moves the objects of a latest ring into a ring of their own. *)
LEMMA OwnerChangeRing ==
    ASSUME TypeOK, SingleOwner, NEW t \in Threads, ChangeRing(t),
           pc[t] # "retired", UNCHANGED <<fresh, ptr, nval>>,
           \A u \in Threads : u # t => pc'[u] = pc[u]
    PROVE  SingleOwner'
<1>1. CASE latest_ring[t] = {}
  <2>1. UNCHANGED <<latest_ring, sub_list>>
    BY <1>1 DEF ChangeRing, ringVars
  <2>2. QED
    BY <1>1, <2>1 DEF SingleOwner
<1>2. CASE latest_ring[t] # {}
  <2>1. PICK r \in Rings :
          /\ sub_list' = [sub_list EXCEPT ![r] = latest_ring[t]]
          /\ latest_ring' = [latest_ring EXCEPT ![t] = {}]
    BY <1>2 DEF ChangeRing, FreeRings
  <2>2. /\ sub_list'[r] = latest_ring[t]
        /\ \A q \in Rings : q # r => sub_list'[q] = sub_list[q]
        /\ latest_ring'[t] = {}
        /\ \A u \in Threads : u # t => latest_ring'[u] = latest_ring[u]
    BY <2>1 DEF TypeOK
  <2>3. \A o \in fresh : /\ \A u \in Threads : o \notin latest_ring'[u]
                         /\ \A q \in Rings : o \notin sub_list'[q]
    BY <2>2 DEF SingleOwner
  <2>4. \A u \in Threads : nval[u] # NULL =>
          /\ \A v \in Threads : nval[u] \notin latest_ring'[v]
          /\ \A q \in Rings : nval[u] \notin sub_list'[q]
    BY <2>2 DEF SingleOwner
  <2>5. \A u \in Threads : \A o \in latest_ring'[u] :
          /\ o = ptr => pc'[u] = "retired"
          /\ \A v \in Threads : v # u => o \notin latest_ring'[v]
          /\ \A q \in Rings : o \notin sub_list'[q]
    BY <2>2 DEF SingleOwner
  <2>6. \A q \in Rings : \A o \in sub_list'[q] :
          /\ o # ptr
          /\ \A p \in Rings : p # q => o \notin sub_list'[p]
    BY <2>2 DEF SingleOwner
  <2>7. QED
    BY <2>3, <2>4, <2>5, <2>6 DEF SingleOwner
<1>3. QED
  BY <1>1, <1>2

(* Objects move from one place to another, and never into two.              *)
LEMMA OwnerStep ==
    ASSUME TypeOK, WriterInv, LockExclusion, SingleOwner, [Next]_vars
    PROVE  SingleOwner'
<1> USE NullAssumption DEF TypeOK, SingleOwner, PCs, Goto, Drained,
            timeVars, slotVars, ringVars, clientVars, scanVars
<1>1. CASE UNCHANGED vars
  BY <1>1 DEF vars
<1>2. ASSUME NEW t \in Threads, Step(t)
      PROVE  SingleOwner'
  <2>1. CASE AllocFresh(t)  BY <2>1 DEF AllocFresh
  <2>2. CASE WriteLock(t)  BY <2>2 DEF WriteLock, Acquire
  <2>3. CASE Retire(t)  BY <2>3 DEF Retire, LockExclusion, Holding
  <2>4. CASE Publish(t)  BY <2>4 DEF Publish, LockExclusion, Holding, WriterInv
  <2>5. CASE Release(t)  BY <2>5 DEF Release
  <2>6. CASE GetBegin(t)  BY <2>6 DEF GetBegin
  <2>7. CASE GetPop(t)  BY <2>7 DEF GetPop, PopRing
  <2>8. CASE GetChangeRing(t)  BY <2>8, OwnerChangeRing DEF GetChangeRing
  <2>9. CASE GetPopAgain(t)
    <3>1. /\ UNCHANGED <<latest_ring, sub_list, fresh, ptr, nval>>
          /\ \A u \in Threads : pc[u] = "retired" => pc'[u] = "retired"
      BY <2>9 DEF GetPopAgain, PopRing
    <3>2. QED
      BY <3>1
  <2>10. CASE GetNoRing(t)  BY <2>10 DEF GetNoRing
  <2>11. CASE GetNotReusable(t)  BY <2>11 DEF GetNotReusable
  <2>12. CASE GetItem(t)  BY <2>12 DEF GetItem, WriterInv
  <2>13. CASE GetEmptyRing(t)  BY <2>13 DEF GetEmptyRing
  <2>14. CASE TimerUpdate(t)  BY <2>14 DEF TimerUpdate
  <2>15. CASE Aging(t)  BY <2>15, OwnerChangeRing DEF Aging
  <2>16. CASE UpdateLock(t)  BY <2>16 DEF UpdateLock, Acquire
  <2>17. CASE UpdateTimeout(t)  BY <2>17 DEF UpdateTimeout
  <2>18. CASE ScanEnd(t)  BY <2>18 DEF ScanEnd
  <2>19. CASE UNCHANGED <<fresh, ptr, nval, latest_ring, sub_list, pc>>
    BY <2>19
  <2>20. QED
    BY <1>2, <2>1, <2>2, <2>3, <2>4, <2>5, <2>6, <2>7, <2>8, <2>9, <2>10,
       <2>11, <2>12, <2>13, <2>14, <2>15, <2>16, <2>17, <2>18, <2>19
    DEF Step, FixLoad, FixStore, FixNested, LoadPtr, Unfix, ScanSlot
<1>3. QED
  BY <1>1, <1>2 DEF Next

(* fix() loads global_time only when the slot is free.                      *)
LEMMA FixStep ==
    ASSUME TypeOK, FixInv, [Next]_vars
    PROVE  FixInv'
<1> USE DEF TypeOK, FixInv, Fixed, NIL_TIME,
            timeVars, slotVars, ringVars, clientVars, scanVars
<1>1. CASE UNCHANGED vars
  BY <1>1 DEF vars
<1>2. ASSUME NEW t \in Threads, Step(t)
      PROVE  FixInv'
  <2>1. CASE FixLoad(t)  BY <2>1 DEF FixLoad
  <2>2. CASE FixStore(t)  BY <2>2 DEF FixStore
  <2>3. CASE Unfix(t)  BY <2>3 DEF Unfix
  <2>4. CASE UNCHANGED <<fixtime, loaded>>
    BY <2>4
  <2>5. QED
    BY <1>2, <2>1, <2>2, <2>3, <2>4
    DEF Step, FixNested, LoadPtr, AllocFresh, WriteLock, Retire,
        Publish, Release, GetBegin, GetPop, GetChangeRing, GetPopAgain,
        GetNoRing, GetNotReusable, GetItem, GetEmptyRing, TimerUpdate,
        Aging, UpdateLock, UpdateTimeout, ScanSlot, ScanEnd, Acquire,
        ChangeRing, PopRing
<1>3. QED
  BY <1>1, <1>2 DEF Next

(* The heart of the matter: closing a ring stamps it with the current time,  *)
(* and a scan cannot pass a reader without lowering cur_time to its fixtime. *)
LEMMA ProtectedStep ==
    ASSUME ~StoreBuffer, TypeOK, TimeBounds, FixInv, SingleOwner, Protected, [Next]_vars
    PROVE  Protected'
<1> USE NullAssumption
        DEF TypeOK, Protected, PCs, Goto, Idle, Drained, Fixed, NIL_TIME,
            timeVars, slotVars, ringVars, clientVars, scanVars
<1>1. CASE UNCHANGED vars
  BY <1>1 DEF vars
<1>2. ASSUME NEW t \in Threads, Step(t)
      PROVE  Protected'
  <2>1. CASE FixLoad(t)  BY <2>1 DEF FixLoad
  <2>2. CASE FixStore(t)  BY <2>2 DEF FixStore, FixInv
  <2>3. CASE LoadPtr(t)  BY <2>3 DEF LoadPtr, SingleOwner
  <2>4. CASE Unfix(t)  BY <2>4 DEF Unfix
  <2>5. CASE WriteLock(t)  BY <2>5 DEF WriteLock, Acquire
  <2>6. CASE Retire(t)  BY <2>6 DEF Retire
  <2>7. CASE Publish(t)  BY <2>7 DEF Publish
  <2>8. CASE Release(t)  BY <2>8 DEF Release
  <2>9. CASE GetBegin(t)  BY <2>9 DEF GetBegin
  <2>10. CASE GetChangeRing(t)
    BY <2>10 DEF GetChangeRing, ChangeRing, FreeRings, TimeBounds
  <2>11. CASE GetPopAgain(t)  BY <2>11 DEF GetPopAgain, PopRing
  <2>12. CASE GetNoRing(t)  BY <2>12 DEF GetNoRing
  <2>13. CASE GetNotReusable(t)  BY <2>13 DEF GetNotReusable
  <2>14. CASE GetItem(t)  BY <2>14 DEF GetItem
  <2>15. CASE GetEmptyRing(t)  BY <2>15 DEF GetEmptyRing
  <2>16. CASE TimerUpdate(t)  BY <2>16 DEF TimerUpdate
  <2>17. CASE Aging(t)  BY <2>17 DEF Aging, ChangeRing, FreeRings, TimeBounds
  <2>18. CASE UpdateLock(t)
    <3>1. \A r \in Threads : ~(r < 0)
      BY DEF Threads
    <3>2. QED
      BY <2>18, <3>1 DEF UpdateLock, Acquire
  <2>19. CASE UpdateTimeout(t)  BY <2>19 DEF UpdateTimeout
  <2>20. CASE ScanSlot(t)
    <3>1. idx[t] \in Threads /\ idx[t] + 1 \in 0 .. SLOT_COUNT
      BY <2>20, IndexIsSlot DEF ScanSlot
    <3>2. \A r \in Threads : r < idx[t] + 1 => r < idx[t] \/ r = idx[t]
      BY <3>1 DEF Threads
    <3>3. QED
      BY <2>20, <3>1, <3>2 DEF ScanSlot
  <2>21. CASE ScanEnd(t)
    <3>1. \A r \in Threads : r < idx[t]
      BY <2>21, SlotCountAssumption DEF ScanEnd, Threads
    <3>2. QED
      BY <2>21, <3>1 DEF ScanEnd
  <2>22. CASE UNCHANGED <<val, fixtime, sub_list, remove_time, reusable_time, pc, idx,
                       cur_time>>
    BY <2>22
  <2>23. QED
    BY <1>2, <2>1, <2>2, <2>3, <2>4, <2>5, <2>6, <2>7, <2>8, <2>9, <2>10,
       <2>11, <2>12, <2>13, <2>14, <2>15, <2>16, <2>17, <2>18, <2>19, <2>20,
       <2>21, <2>22
    DEF Step, FixNested, AllocFresh, GetPop, PopRing
<1>3. QED
  BY <1>1, <1>2 DEF Next

(* An object taken from a reusable ring has no reader left.                  *)
LEMMA NoReuseStep ==
    ASSUME TypeOK, SingleOwner, Protected, NoReuseWhileHeld, [Next]_vars
    PROVE  NoReuseWhileHeld'
<1> USE NullAssumption
        DEF TypeOK, NoReuseWhileHeld, Goto, NIL_TIME,
            timeVars, slotVars, ringVars, clientVars, scanVars
<1>1. CASE UNCHANGED vars
  BY <1>1 DEF vars
<1>2. ASSUME NEW t \in Threads, Step(t)
      PROVE  NoReuseWhileHeld'
  <2>1. CASE LoadPtr(t)  BY <2>1 DEF LoadPtr, SingleOwner
  <2>2. CASE Unfix(t)  BY <2>2 DEF Unfix
  <2>3. CASE AllocFresh(t)  BY <2>3 DEF AllocFresh
  <2>4. CASE Publish(t)  BY <2>4 DEF Publish
  <2>5. CASE GetItem(t)  BY <2>5 DEF GetItem, Protected, is_reusable
  <2>6. CASE UNCHANGED <<val, nval, fresh>>
    BY <2>6
  <2>7. QED
    BY <1>2, <2>1, <2>2, <2>3, <2>4, <2>5, <2>6
    DEF Step, FixLoad, FixStore, FixNested, WriteLock, Retire, Release,
        GetBegin, GetPop, GetChangeRing, GetPopAgain, GetNoRing,
        GetNotReusable, GetEmptyRing, TimerUpdate, Aging, UpdateLock,
        UpdateTimeout, ScanSlot, ScanEnd, Acquire, ChangeRing, PopRing
<1>3. QED
  BY <1>1, <1>2 DEF Next

(* The initial states satisfy the invariant.                               *)
LEMMA InitIInv ==
    ASSUME Init
    PROVE  IInv
<1> USE SlotCountAssumption, NullAssumption DEF Init, INIT_TIME, NIL_TIME
<1>1. TypeOK
  BY DEF TypeOK, PCs
<1>2. TimeBounds /\ WriterInv /\ FixInv /\ SingleOwner /\ Protected
      /\ NoReuseWhileHeld
  BY DEF TimeBounds, WriterInv, FixInv, SingleOwner, Protected, NoReuseWhileHeld
<1>3. LockExclusion
  BY DEF LockExclusion, Holding, Unlocked
<1>4. QED
  BY <1>1, <1>2, <1>3 DEF IInv

(* Type correctness, with the lock and ownership invariants it needs, under *)
(* either memory model.                                                    *)
THEOREM OwnershipAndLock == Spec => [](TypeOK /\ LockExclusion /\ SingleOwner)
<1> DEFINE Inv == TypeOK /\ WriterInv /\ LockExclusion /\ SingleOwner
<1>1. Init => Inv
  BY InitIInv DEF IInv
<1>2. Inv /\ [Next]_vars => Inv'
  BY TypeStep, WriterStep, LockStep, OwnerStep
<1>3. QED
  BY <1>1, <1>2, PTL DEF Spec

(* Safe reclamation: when the fixtime store of fix() is visible before the *)
(* reader's next load, no object is handed out for reuse while a reader    *)
(* between fix() and unfix() holds it, for any number of threads, nested   *)
(* fixes, interleaving of scans and any bound on time.                     *)
THEOREM SafeReclamation ==
    ASSUME ~StoreBuffer
    PROVE  Spec => []NoReuseWhileHeld
<1>1. Init => IInv
  BY InitIInv
<1>2. IInv /\ [Next]_vars => IInv'
  BY TypeStep, TimeStep, LockStep, WriterStep, FixStep, OwnerStep, ProtectedStep,
     NoReuseStep DEF IInv
<1>3. IInv => NoReuseWhileHeld
  BY DEF IInv
<1>4. QED
  BY <1>1, <1>2, <1>3, PTL DEF Spec

(* Between regist_free_obj() and the switch of the pointer the current     *)
(* object is already on the writer's latest ring.                          *)
RetiredInv ==
    \A t \in Threads : pc[t] = "retired" => ptr \in latest_ring[t]

(* Only the holder of the lock changes ptr, and not while it is retiring.    *)
LEMMA RetiredStep ==
    ASSUME TypeOK, LockExclusion, RetiredInv, [Next]_vars
    PROVE  RetiredInv'
<1> USE DEF TypeOK, RetiredInv, PCs, Goto, Drained,
            timeVars, slotVars, ringVars, clientVars, scanVars
<1>1. CASE UNCHANGED vars
  BY <1>1 DEF vars
<1>2. ASSUME NEW t \in Threads, Step(t)
      PROVE  RetiredInv'
  <2>1. CASE Retire(t)  BY <2>1 DEF Retire
  <2>2. CASE Publish(t)  BY <2>2 DEF Publish, LockExclusion, Holding
  <2>3. CASE Release(t)  BY <2>3 DEF Release
  <2>4. CASE WriteLock(t)  BY <2>4 DEF WriteLock, Acquire
  <2>5. CASE GetBegin(t)  BY <2>5 DEF GetBegin
  <2>6. CASE GetChangeRing(t)  BY <2>6 DEF GetChangeRing, ChangeRing
  <2>7. CASE GetPopAgain(t)  BY <2>7 DEF GetPopAgain, PopRing
  <2>8. CASE GetItem(t)  BY <2>8 DEF GetItem
  <2>9. CASE Aging(t)  BY <2>9 DEF Aging, ChangeRing
  <2>10. CASE GetNoRing(t)  BY <2>10 DEF GetNoRing
  <2>11. CASE GetNotReusable(t)  BY <2>11 DEF GetNotReusable
  <2>12. CASE TimerUpdate(t)  BY <2>12 DEF TimerUpdate
  <2>13. CASE UpdateLock(t)  BY <2>13 DEF UpdateLock, Acquire
  <2>14. CASE UpdateTimeout(t)  BY <2>14 DEF UpdateTimeout
  <2>15. CASE ScanEnd(t)  BY <2>15 DEF ScanEnd
  <2>16. CASE UNCHANGED <<ptr, latest_ring, pc>>
    BY <2>16
  <2>17. QED
    BY <1>2, <2>1, <2>2, <2>3, <2>4, <2>5, <2>6, <2>7, <2>8, <2>9, <2>10,
       <2>11, <2>12, <2>13, <2>14, <2>15, <2>16
    DEF Step, FixLoad, FixStore, FixNested, LoadPtr, Unfix, AllocFresh,
        GetPop, GetEmptyRing, ScanSlot, PopRing
<1>3. QED
  BY <1>1, <1>2 DEF Next

(* An object leaves a list only for another list, a writer or the pointer.   *)
LEMMA LeakStep ==
    ASSUME TypeOK, WriterInv, RetiredInv, NoLeak, [Next]_vars
    PROVE  NoLeak'
<1> USE NullAssumption DEF TypeOK, NoLeak, FreeRings, Drained,
            timeVars, slotVars, ringVars, clientVars, scanVars
<1>1. CASE UNCHANGED vars
  BY <1>1 DEF vars
<1>2. ASSUME NEW t \in Threads, Step(t)
      PROVE  NoLeak'
  <2>1. CASE AllocFresh(t)  BY <2>1 DEF AllocFresh
  <2>2. CASE Retire(t)  BY <2>2 DEF Retire
  <2>3. CASE Publish(t)  BY <2>3 DEF Publish, RetiredInv, WriterInv
  <2>4. CASE GetPop(t)  BY <2>4 DEF GetPop, PopRing
  <2>5. CASE GetChangeRing(t)  BY <2>5 DEF GetChangeRing, ChangeRing
  <2>6. CASE GetPopAgain(t)  BY <2>6 DEF GetPopAgain, PopRing
  <2>7. CASE GetItem(t)  BY <2>7 DEF GetItem, WriterInv
  <2>8. CASE GetEmptyRing(t)  BY <2>8 DEF GetEmptyRing
  <2>9. CASE Aging(t)  BY <2>9 DEF Aging, ChangeRing
  <2>10. CASE UNCHANGED <<ptr, fresh, nval, latest_ring, oldest_ring, free_ring_pool,
                       sub_list>>
    BY <2>10
  <2>11. QED
    BY <1>2, <2>1, <2>2, <2>3, <2>4, <2>5, <2>6, <2>7, <2>8, <2>9, <2>10
    DEF Step, FixLoad, FixStore, FixNested, LoadPtr, Unfix, WriteLock,
        Release, GetBegin, GetNoRing, GetNotReusable, TimerUpdate,
        UpdateLock, UpdateTimeout, ScanSlot, ScanEnd, Acquire
<1>3. QED
  BY <1>1, <1>2 DEF Next

(* No retired object is ever lost by the hand-over from a slot to a ring,  *)
(* to the pool and to another slot, under either memory model.             *)
THEOREM NothingLost == Spec => []NoLeak
<1> DEFINE Inv == /\ TypeOK /\ WriterInv /\ LockExclusion /\ RetiredInv
                  /\ NoLeak
<1>1. Init => Inv
  <2>1. Init => NoLeak /\ RetiredInv
    BY DEF Init, NoLeak, RetiredInv
  <2>2. QED
    BY <2>1, InitIInv DEF IInv
<1>2. Inv /\ [Next]_vars => Inv'
  BY TypeStep, WriterStep, LockStep, RetiredStep, LeakStep
<1>3. QED
  BY <1>1, <1>2, PTL DEF Spec
=============================================================================
