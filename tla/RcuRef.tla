------------------------------ MODULE RcuRef ------------------------------
(***************************************************************************)
(* ywRcuRef (include/ywrcuref.h): read-copy-update reference management.   *)
(*                                                                         *)
(* Readers announce themselves with fix(), which publishes the global time *)
(* in their slot; writers replace the object a shared pointer designates   *)
(* and hand the old object to regist_free_obj(); update_reusable_time()    *)
(* computes, from the fixtimes of all slots, the time up to which retired  *)
(* objects may be reused; get_reusable_item() hands them out again.        *)
(*                                                                         *)
(* The clients are the worker loop ywRcuTestClass::run() (src/ywrcuref.cc),*)
(* nested ywRcuGuards, and the timer that calls update_reusable_time()     *)
(* through ywRcuRefManager::_update().  Any thread may play any role.      *)
(*                                                                         *)
(* Every shared load and store is a step of its own.  The intrusive lists  *)
(* are sets, since no property depends on their order; free_ring_pool is a *)
(* set whose pop() may return any ring or none, which covers every answer  *)
(* of ywPool (its rings sit in per-thread lists, and its try-lock may      *)
(* fail).  Registration with ywRcuRefManager (line 120) is not part of     *)
(* this module.                                                            *)
(***************************************************************************)
EXTENDS Integers

CONSTANTS
    SLOT_COUNT,    \* number of slots, one per thread
    Objects,       \* the objects the shared pointer can designate
    Rings,         \* ywrcu_free_ring blocks of the manager's memory pool
    NULL,          \* the null pointer
    StoreBuffer,   \* TRUE: a fixtime store may be delayed past later loads
    MaxTime,       \* bound on global_time
    MaxRef         \* bound on the depth of nested fixes

ASSUME SlotCountAssumption == SLOT_COUNT \in Nat \ {0}
ASSUME NullAssumption == NULL \notin Objects /\ NULL \notin Rings
ASSUME StoreBufferAssumption == StoreBuffer \in BOOLEAN
ASSUME BoundAssumption == MaxTime \in Nat /\ MaxRef \in Nat

Threads == 0 .. SLOT_COUNT - 1

NIL_TIME == 0

INIT_TIME == 2

VARIABLES
    global_time,     \* odd while the lock is held
    reusable_time,
    fixtime,         \* slot[t].fixtime, as the other threads see it
    loaded,          \* the time fix() has loaded and not yet made visible
    ref,             \* slot[t].ref
    latest_ring,     \* slot[t].latest_ring.sub_list
    oldest_ring,     \* slot[t].oldest_ring
    free_ring_pool,
    remove_time,     \* of each ring
    sub_list,        \* of each ring
    fresh,           \* objects never published: tc->slot, or the mem_pool
    ptr,             \* the shared pointer
    val,             \* the object a reader has loaded from ptr
    nval,            \* the object a writer is about to publish
    pc,
    cur_time,        \* update_reusable_time's local
    idx              \* its loop counter

timeVars == <<global_time, reusable_time>>
slotVars == <<fixtime, loaded, ref>>
ringVars == <<latest_ring, oldest_ring, free_ring_pool, remove_time, sub_list>>
clientVars == <<fresh, ptr, val, nval>>
scanVars == <<cur_time, idx>>
vars == <<timeVars, slotVars, ringVars, clientVars, scanVars, pc>>

PCs == {"idle", "get", "pop_again", "locked", "retired", "update", "scan",
        "release"}

(* The types of the slots, rings and times of ywRcuRef.                    *)
TypeOK ==
    /\ global_time \in Nat
    /\ reusable_time \in Nat
    /\ fixtime \in [Threads -> Nat]
    /\ loaded \in [Threads -> Nat]
    /\ ref \in [Threads -> Nat]
    /\ latest_ring \in [Threads -> SUBSET Objects]
    /\ oldest_ring \in [Threads -> Rings \cup {NULL}]
    /\ free_ring_pool \in SUBSET Rings
    /\ remove_time \in [Rings -> Nat]
    /\ sub_list \in [Rings -> SUBSET Objects]
    /\ fresh \in SUBSET Objects
    /\ ptr \in Objects
    /\ val \in [Threads -> Objects \cup {NULL}]
    /\ nval \in [Threads -> Objects \cup {NULL}]
    /\ pc \in [Threads -> PCs]
    /\ cur_time \in [Threads -> Nat]
    /\ idx \in [Threads -> 0 .. SLOT_COUNT]

(* The constructor; ptr designates one object and the others are fresh.    *)
Init ==
    /\ global_time = INIT_TIME
    /\ reusable_time = INIT_TIME
    /\ fixtime = [t \in Threads |-> NIL_TIME]
    /\ loaded = [t \in Threads |-> NIL_TIME]
    /\ ref = [t \in Threads |-> 0]
    /\ latest_ring = [t \in Threads |-> {}]
    /\ oldest_ring = [t \in Threads |-> NULL]
    /\ free_ring_pool = {}
    /\ remove_time = [r \in Rings |-> 0]
    /\ sub_list = [r \in Rings |-> {}]
    /\ ptr \in Objects
    /\ fresh = Objects \ {ptr}
    /\ val = [t \in Threads |-> NULL]
    /\ nval = [t \in Threads |-> NULL]
    /\ pc = [t \in Threads |-> "idle"]
    /\ cur_time = [t \in Threads |-> 0]
    /\ idx = [t \in Threads |-> 0]

Goto(t, label) == pc' = [pc EXCEPT ![t] = label]

(* A thread between two operations.  Without a store buffer its fixtime    *)
(* store is visible before its next instruction.                           *)
Idle(t) == pc[t] = "idle" /\ (StoreBuffer \/ loaded[t] = NIL_TIME)

(* A thread between two operations whose store buffer is empty: what an    *)
(* atomic read-modify-write instruction waits for.                         *)
Drained(t) == pc[t] = "idle" /\ loaded[t] = NIL_TIME

Fixed(t) == fixtime[t] # NIL_TIME \/ loaded[t] # NIL_TIME

Unlocked == global_time % 2 = 0
-----------------------------------------------------------------------------
(* Readers                                                                 *)

(* fix() of a thread that is not fixed: the load of global_time ...        *)
FixLoad(t) ==
    /\ Idle(t) /\ ~Fixed(t)
    /\ loaded' = [loaded EXCEPT ![t] = global_time]
    /\ UNCHANGED <<timeVars, fixtime, ref, ringVars, clientVars, scanVars, pc>>

(* ... and its store into the slot.                                        *)
FixStore(t) ==
    /\ loaded[t] # NIL_TIME
    /\ fixtime' = [fixtime EXCEPT ![t] = loaded[t]]
    /\ loaded' = [loaded EXCEPT ![t] = NIL_TIME]
    /\ UNCHANGED <<timeVars, ref, ringVars, clientVars, scanVars, pc>>

(* fix() of a thread that is already fixed.                                *)
FixNested(t) ==
    /\ Idle(t) /\ Fixed(t) /\ ref[t] < MaxRef
    /\ ref' = [ref EXCEPT ![t] = @ + 1]
    /\ UNCHANGED <<timeVars, fixtime, loaded, ringVars, clientVars, scanVars, pc>>

(* val = *ptr, between fix() and unfix().                                  *)
LoadPtr(t) ==
    /\ Idle(t) /\ Fixed(t)
    /\ val' = [val EXCEPT ![t] = ptr]
    /\ UNCHANGED <<timeVars, slotVars, ringVars, fresh, ptr, nval, scanVars, pc>>

(* unfix(); the reader has dropped its object before the outermost one.    *)
Unfix(t) ==
    /\ Drained(t) /\ Fixed(t)
    /\ \/ /\ ref[t] = 0
          /\ fixtime' = [fixtime EXCEPT ![t] = NIL_TIME]
          /\ val' = [val EXCEPT ![t] = NULL]
          /\ UNCHANGED ref
       \/ /\ ref[t] # 0
          /\ ref' = [ref EXCEPT ![t] = @ - 1]
          /\ UNCHANGED <<fixtime, val>>
    /\ UNCHANGED <<timeVars, loaded, ringVars, fresh, ptr, nval, scanVars, pc>>
-----------------------------------------------------------------------------
(* Writers                                                                 *)

(* nval = &slot[i], or ywRcuPool::alloc()'s mem_pool.alloc().              *)
AllocFresh(t) ==
    /\ Drained(t) /\ nval[t] = NULL
    /\ \E o \in fresh :
          /\ nval' = [nval EXCEPT ![t] = o]
          /\ fresh' = fresh \ {o}
    /\ UNCHANGED <<timeVars, slotVars, ringVars, ptr, val, scanVars, pc>>

(* Fault: the lock bit is set without a test that it is clear.             *)
AcquireUntested ==
    /\ global_time + 2 <= MaxTime
    /\ global_time' = IF Unlocked THEN global_time + 1 ELSE global_time

(* lock(): the compare-and-swap that sets LOCK_BIT.                        *)
Acquire ==
    /\ Unlocked /\ global_time + 2 <= MaxTime
    /\ global_time' = global_time + 1

WriteLock(t) ==
    /\ Drained(t) /\ nval[t] # NULL
    /\ Acquire
    /\ Goto(t, "locked")
    /\ UNCHANGED <<reusable_time, slotVars, ringVars, clientVars, scanVars>>

(* regist_free_obj(oval).  latest_ring.remove_time is always the (-1) of   *)
(* init_ring(), the largest uint64_t, so the test that would call          *)
(* change_ring() here never succeeds.                                      *)
Retire(t) ==
    /\ pc[t] = "locked"
    /\ latest_ring' = [latest_ring EXCEPT ![t] = @ \cup {ptr}]
    /\ Goto(t, "retired")
    /\ UNCHANGED <<timeVars, slotVars, oldest_ring, free_ring_pool,
                   remove_time, sub_list, clientVars, scanVars>>

(* The shared pointer is switched to nval.                                 *)
Publish(t) ==
    /\ pc[t] = "retired"
    /\ ptr' = nval[t]
    /\ nval' = [nval EXCEPT ![t] = NULL]
    /\ Goto(t, "release")
    /\ UNCHANGED <<timeVars, slotVars, ringVars, fresh, val, scanVars>>

Release(t) ==
    /\ pc[t] = "release"
    /\ global_time' = global_time + 1
    /\ Goto(t, "idle")
    /\ UNCHANGED <<reusable_time, slotVars, ringVars, clientVars, scanVars>>
-----------------------------------------------------------------------------
(* Reuse                                                                   *)

FreeRings == {r \in Rings : r \notin free_ring_pool
                            /\ \A t \in Threads : oldest_ring[t] # r}

(* Fault: the closed ring is not pushed into the pool.                     *)
ChangeRingNoPush(t) ==
    \/ /\ latest_ring[t] = {}
       /\ UNCHANGED ringVars
    \/ /\ latest_ring[t] # {}
       /\ \E r \in FreeRings :
             /\ remove_time' = [remove_time EXCEPT ![r] = global_time]
             /\ sub_list' = [sub_list EXCEPT ![r] = latest_ring[t]]
       /\ latest_ring' = [latest_ring EXCEPT ![t] = {}]
       /\ UNCHANGED <<oldest_ring, free_ring_pool>>

(* change_ring(): close the latest ring, if it holds anything.             *)
ChangeRing(t) ==
    \/ /\ latest_ring[t] = {}
       /\ UNCHANGED ringVars
    \/ /\ latest_ring[t] # {}
       /\ \E r \in FreeRings :
             /\ remove_time' = [remove_time EXCEPT ![r] = global_time]
             /\ sub_list' = [sub_list EXCEPT ![r] = latest_ring[t]]
             /\ free_ring_pool' = free_ring_pool \cup {r}
       /\ latest_ring' = [latest_ring EXCEPT ![t] = {}]
       /\ UNCHANGED oldest_ring

is_reusable(r) == reusable_time > remove_time[r]

(* oldest_ring = free_ring_pool.pop(), when it returns a ring.             *)
PopRing(t) ==
    /\ oldest_ring[t] = NULL
    /\ \E r \in free_ring_pool :
          /\ oldest_ring' = [oldest_ring EXCEPT ![t] = r]
          /\ free_ring_pool' = free_ring_pool \ {r}
    /\ UNCHANGED <<latest_ring, remove_time, sub_list>>

(* get_reusable_item(): the call, ...                                      *)
GetBegin(t) ==
    /\ Drained(t) /\ nval[t] = NULL
    /\ Goto(t, "get")
    /\ UNCHANGED <<timeVars, slotVars, ringVars, clientVars, scanVars>>

(* ... the first pop() returns a ring, ...                                 *)
GetPop(t) ==
    /\ pc[t] = "get"
    /\ PopRing(t)
    /\ UNCHANGED <<timeVars, slotVars, clientVars, scanVars, pc>>

(* ... or none, and the slot's own latest ring is closed, ...              *)
GetChangeRing(t) ==
    /\ pc[t] = "get" /\ oldest_ring[t] = NULL
    /\ ChangeRing(t)
    /\ Goto(t, "pop_again")
    /\ UNCHANGED <<timeVars, slotVars, clientVars, scanVars>>

(* ... the second pop() returns a ring ...                                 *)
GetPopAgain(t) ==
    /\ pc[t] = "pop_again"
    /\ PopRing(t)
    /\ Goto(t, "get")
    /\ UNCHANGED <<timeVars, slotVars, clientVars, scanVars>>

(* ... or none: return NULL.                                               *)
GetNoRing(t) ==
    /\ pc[t] = "pop_again"
    /\ Goto(t, "idle")
    /\ UNCHANGED <<timeVars, slotVars, ringVars, clientVars, scanVars>>

(* The oldest ring is not reusable yet: return NULL.                       *)
GetNotReusable(t) ==
    /\ pc[t] = "get" /\ oldest_ring[t] # NULL
    /\ ~is_reusable(oldest_ring[t])
    /\ Goto(t, "idle")
    /\ UNCHANGED <<timeVars, slotVars, ringVars, clientVars, scanVars>>

(* Fault: the object is read from the list and not unlinked.               *)
GetItemNoPop(t) ==
    /\ pc[t] = "get" /\ oldest_ring[t] # NULL
    /\ is_reusable(oldest_ring[t])
    /\ \E o \in sub_list[oldest_ring[t]] : nval' = [nval EXCEPT ![t] = o]
    /\ Goto(t, "idle")
    /\ UNCHANGED <<timeVars, slotVars, ringVars, fresh, ptr, val, scanVars>>

(* It is: return one of its objects.                                       *)
GetItem(t) ==
    /\ pc[t] = "get" /\ oldest_ring[t] # NULL
    /\ is_reusable(oldest_ring[t])
    /\ \E o \in sub_list[oldest_ring[t]] :
          /\ nval' = [nval EXCEPT ![t] = o]
          /\ sub_list' = [sub_list EXCEPT ![oldest_ring[t]] = @ \ {o}]
    /\ Goto(t, "idle")
    /\ UNCHANGED <<timeVars, slotVars, latest_ring, oldest_ring,
                   free_ring_pool, remove_time, fresh, ptr, val, scanVars>>

(* It is, but it is empty: free the ring (its content is dead) and try the *)
(* next one.                                                               *)
GetEmptyRing(t) ==
    /\ pc[t] = "get" /\ oldest_ring[t] # NULL
    /\ is_reusable(oldest_ring[t])
    /\ sub_list[oldest_ring[t]] = {}
    /\ oldest_ring' = [oldest_ring EXCEPT ![t] = NULL]
    /\ remove_time' = [remove_time EXCEPT ![oldest_ring[t]] = 0]
    /\ UNCHANGED <<timeVars, slotVars, latest_ring, free_ring_pool, sub_list,
                   clientVars, scanVars, pc>>
-----------------------------------------------------------------------------
(* Updates of reusable_time                                                *)

(* The timer reaches this ywRcuRef.                                        *)
TimerUpdate(t) ==
    /\ Drained(t)
    /\ Goto(t, "update")
    /\ UNCHANGED <<timeVars, slotVars, ringVars, clientVars, scanVars>>

(* aging(): change_ring(), then update_reusable_time(); the closing        *)
(* free_ring_pool.reclaim() moves rings between lists of the same pool.    *)
Aging(t) ==
    /\ Drained(t)
    /\ ChangeRing(t)
    /\ Goto(t, "update")
    /\ UNCHANGED <<timeVars, slotVars, clientVars, scanVars>>

(* Fault: the loop over the slots starts at slot 1.                        *)
UpdateLockFromOne(t) ==
    /\ pc[t] = "update"
    /\ Acquire
    /\ cur_time' = [cur_time EXCEPT ![t] = global_time']
    /\ idx' = [idx EXCEPT ![t] = 1]
    /\ Goto(t, "scan")
    /\ UNCHANGED <<reusable_time, slotVars, ringVars, clientVars>>

(* update_reusable_time(): lock() succeeds; cur_time = global_time.        *)
UpdateLock(t) ==
    /\ pc[t] = "update"
    /\ Acquire
    /\ cur_time' = [cur_time EXCEPT ![t] = global_time']
    /\ idx' = [idx EXCEPT ![t] = 0]
    /\ Goto(t, "scan")
    /\ UNCHANGED <<reusable_time, slotVars, ringVars, clientVars>>

(* lock() gives up after its timeout: nothing is updated.  The lock may    *)
(* have been released since lock() last looked at it.                      *)
UpdateTimeout(t) ==
    /\ pc[t] = "update"
    /\ Goto(t, "idle")
    /\ UNCHANGED <<timeVars, slotVars, ringVars, clientVars, scanVars>>

(* One iteration of the loop over the slots.                               *)
ScanSlot(t) ==
    /\ pc[t] = "scan" /\ idx[t] < SLOT_COUNT
    /\ LET fix_time == fixtime[idx[t]] IN
          cur_time' = [cur_time EXCEPT ![t] =
                         IF fix_time # NIL_TIME /\ fix_time < @
                         THEN fix_time ELSE @]
    /\ idx' = [idx EXCEPT ![t] = @ + 1]
    /\ UNCHANGED <<timeVars, slotVars, ringVars, clientVars, pc>>

(* reusable_time = cur_time; the locals are dead from here on.             *)
ScanEnd(t) ==
    /\ pc[t] = "scan" /\ idx[t] = SLOT_COUNT
    /\ reusable_time' = cur_time[t]
    /\ cur_time' = [cur_time EXCEPT ![t] = 0]
    /\ idx' = [idx EXCEPT ![t] = 0]
    /\ Goto(t, "release")
    /\ UNCHANGED <<global_time, slotVars, ringVars, clientVars>>
-----------------------------------------------------------------------------
Step(t) ==
    \/ FixLoad(t) \/ FixStore(t) \/ FixNested(t) \/ LoadPtr(t) \/ Unfix(t)
    \/ AllocFresh(t) \/ WriteLock(t) \/ Retire(t) \/ Publish(t) \/ Release(t)
    \/ GetBegin(t) \/ GetPop(t) \/ GetChangeRing(t) \/ GetPopAgain(t)
    \/ GetNoRing(t) \/ GetNotReusable(t) \/ GetItem(t) \/ GetEmptyRing(t)
    \/ TimerUpdate(t) \/ Aging(t) \/ UpdateLock(t) \/ UpdateTimeout(t)
    \/ ScanSlot(t) \/ ScanEnd(t)

Next == \E t \in Threads : Step(t)

Spec == Init /\ [][Next]_vars
-----------------------------------------------------------------------------
(* Properties                                                              *)

(* What the whole scheme is for: get_reusable_item() and the allocators    *)
(* never hand out an object that a reader between fix() and unfix() has    *)
(* loaded from the shared pointer.                                         *)
NoReuseWhileHeld ==
    \A r \in Threads : val[r] # NULL =>
        /\ val[r] \notin fresh
        /\ \A w \in Threads : nval[w] # val[r]

(* An object is in one place only: designated by ptr, owned by one writer, *)
(* fresh, in one slot's latest ring or in one closed ring.  Two writers    *)
(* are never given the same object, and no object is retired twice.  Only  *)
(* between regist_free_obj() and the switch of the pointer is an object    *)
(* both current and retired.                                               *)
SingleOwner ==
    /\ \A o \in fresh : /\ o # ptr
                        /\ \A t \in Threads : o # nval[t] /\ o \notin latest_ring[t]
                        /\ \A r \in Rings : o \notin sub_list[r]
    /\ \A t \in Threads : nval[t] # NULL =>
           /\ nval[t] # ptr
           /\ \A u \in Threads : /\ u # t => nval[u] # nval[t]
                                /\ nval[t] \notin latest_ring[u]
           /\ \A r \in Rings : nval[t] \notin sub_list[r]
    /\ \A t \in Threads : \A o \in latest_ring[t] :
           /\ o = ptr => pc[t] = "retired"
           /\ \A u \in Threads : u # t => o \notin latest_ring[u]
           /\ \A r \in Rings : o \notin sub_list[r]
    /\ \A r \in Rings : \A o \in sub_list[r] :
           /\ o # ptr
           /\ \A q \in Rings : q # r => o \notin sub_list[q]

(* Nothing is lost: an object that is neither current nor owned by a       *)
(* writer is still on a list from which a later get_reusable_item() can    *)
(* take it.                                                                *)
NoLeak ==
    \A o \in Objects :
        \/ o = ptr \/ o \in fresh
        \/ \E t \in Threads : o = nval[t] \/ o \in latest_ring[t]
        \/ \E r \in Rings \ FreeRings : o \in sub_list[r]

(* The lock bit of global_time is a mutual exclusion lock between writers  *)
(* and updaters.                                                           *)
Holding(t) == pc[t] \in {"locked", "retired", "release", "scan"}

LockExclusion ==
    /\ \A t, u \in Threads : Holding(t) /\ Holding(u) => t = u
    /\ Unlocked <=> \A t \in Threads : ~Holding(t)
=============================================================================
