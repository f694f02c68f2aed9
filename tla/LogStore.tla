----------------------------- MODULE LogStore -----------------------------
(***************************************************************************)
(* ywLogStore (include/ywlogstore.h, src/ywlogstore.cc) with the parts it  *)
(* is made of: ywPos (the two positions), ywChunkMgr, ywBuffCache (the     *)
(* buffers of the chunks) and a ywAccumulator (the views of the appenders).*)
(*                                                                         *)
(* Appenders reserve a place in the log with compare-and-swaps on          *)
(* append_pos and copy their record into the buffer of the chunk.  The     *)
(* flusher thread prepares chunks ahead of them, writes complete flush     *)
(* units to the file and gives the buffers of completed chunks back.       *)
(*                                                                         *)
(* A unit of the log is the model's byte.  What a unit contains is the run *)
(* of the program (epoch) that wrote it and its position.  The hash table  *)
(* of ywBuffCache is the relation "this buffer holds that chunk".          *)
(***************************************************************************)
EXTENDS Integers, FiniteSets, FiniteSetsExt

CONSTANTS
    Appenders,
    Sizes,                    \* of the records
    CHUNK_SIZE, FLUSH_UNIT, FLUSH_COUNT,
    MAX_PREPARE_LOG_CNK_CNT,  \* also the number of buffers
    CHUNK_MAP_MAX,
    EarlyFlusher,             \* TRUE: the thread may run before STATUS_ACTIVE
    WriteErrors,              \* TRUE: pwritev() may fail
    MaxAppends, MaxCrashes    \* bounds

ASSUME SizeAssumption ==
    /\ FLUSH_UNIT \in Nat \ {0} /\ CHUNK_SIZE \in Nat \ {0}
    /\ CHUNK_SIZE % FLUSH_UNIT = 0
    /\ Sizes \subseteq 1 .. CHUNK_SIZE
    /\ FLUSH_COUNT \in Nat \ {0}
ASSUME CacheAssumption ==
    MAX_PREPARE_LOG_CNK_CNT \in Nat /\ MAX_PREPARE_LOG_CNK_CNT > 2
ASSUME MapAssumption == CHUNK_MAP_MAX \in Nat /\ CHUNK_MAP_MAX > 2
ASSUME SwitchAssumption == EarlyFlusher \in BOOLEAN /\ WriteErrors \in BOOLEAN
ASSUME BoundAssumption == MaxAppends \in Nat /\ MaxCrashes \in Nat

VARIABLES
    status, mpc, flusher_enable,
    append_pos, write_pos,
    prepare_log_cnk_cnt, last_id, used_cnk_loc, chunk_map, \* ywChunkMgr
    con_id, hwm, body,          \* ywBuffCache
    view,                       \* appender_view_pos
    apc, size, prev, pos, ptr,  \* append(): control, argument, locals
    fpc, old_val, cnt, free_cnk_id, viewed,  \* flush(): control, locals
    file, master,               \* the log chunks and the master chunk on disk
    epoch, budget,              \* run of the program; appends still to make
    appended, durable           \* units appended; units of completed chunks

lifeVars == <<status, mpc, flusher_enable>>
mgrVars == <<prepare_log_cnk_cnt, last_id, used_cnk_loc, chunk_map>>
bufVars == <<con_id, hwm, body>>
appVars == <<view, apc, size, prev, pos, ptr>>
flushVars == <<fpc, old_val, cnt, free_cnk_id, viewed>>
diskVars == <<file, master>>
logVars == <<epoch, budget, appended, durable>>
vars == <<lifeVars, append_pos, write_pos, mgrVars, bufVars, appVars,
          flushVars, diskVars, logVars>>

Buffers == 0 .. MAX_PREPARE_LOG_CNK_CNT - 1
ChunkIds == 0 .. CHUNK_MAP_MAX - 1
NULL_BCID == -1

MASTER_CNK_ID == 0
NULL_BUFFER == 0     \* con_id of a buffer that holds no log chunk

Units == 0 .. CHUNK_MAP_MAX * CHUNK_SIZE - 1                \* of the file
Memory == 0 .. MAX_PREPARE_LOG_CNK_CNT * CHUNK_SIZE - 1     \* the array _body

Blank == <<0, 0>>    \* an empty unit: memset, or a fresh file
Contents == {Blank} \cup (1 .. MaxCrashes + 1) \X Nat

(* A value larger than every chunk id, for INT64_MAX.                      *)
VIEW_DEFAULT == CHUNK_MAP_MAX + 2 * MaxAppends

(* The memory of a new run: the constructors and init().                   *)
FreshMap == [i \in ChunkIds |-> 0]
FreshBody == [m \in Memory |-> Blank]
Idle == [a \in Appenders |-> "idle"]
Zeros == [a \in Appenders |-> 0]

Init ==
    /\ status = "PREACTIVE" /\ mpc = "setup" /\ flusher_enable = FALSE
    /\ append_pos = 0 /\ write_pos = 0
    /\ prepare_log_cnk_cnt = 0 /\ last_id = 0 /\ used_cnk_loc = 0
    /\ chunk_map = FreshMap
    /\ con_id = [b \in Buffers |-> NULL_BUFFER] /\ hwm = 0 /\ body = FreshBody
    /\ view = [a \in Appenders |-> VIEW_DEFAULT]
    /\ apc = Idle /\ size = Zeros /\ prev = Zeros /\ pos = Zeros /\ ptr = Zeros
    /\ fpc = "none" /\ old_val = 0 /\ cnt = 0 /\ free_cnk_id = {} /\ viewed = {}
    /\ file = [u \in Units |-> Blank]
    /\ master = [last_id |-> 0, used_cnk_loc |-> 0, chunk_map |-> FreshMap]
    /\ epoch = 1 /\ budget = MaxAppends
    /\ appended = {} /\ durable = {}
-----------------------------------------------------------------------------
get_cnk_id(p) == p \div CHUNK_SIZE
get_offset(p) == p % CHUNK_SIZE

(* ywBuffCache.  alloc_cache() takes a buffer never used before, else the  *)
(* first unused one after buffer 0; with none it would search for ever.    *)
Unused == {b \in Buffers : b < hwm /\ con_id[b] = NULL_BUFFER}
CanAlloc == hwm < MAX_PREPARE_LOG_CNK_CNT \/ Unused # {}
alloc_cache ==
    IF hwm < MAX_PREPARE_LOG_CNK_CNT THEN hwm
    ELSE IF Unused \ {0} # {} THEN Min(Unused \ {0}) ELSE 0
HwmAfterAlloc == IF hwm < MAX_PREPARE_LOG_CNK_CNT THEN hwm + 1 ELSE hwm

find_cache(id) ==
    IF \E b \in Buffers : con_id[b] = id
    THEN CHOOSE b \in Buffers : con_id[b] = id
    ELSE NULL_BCID
Address(p) == find_cache(get_cnk_id(p)) * CHUNK_SIZE + get_offset(p)

(* ywChunkMgr: alloc_chunk() takes the next id and the next place in the   *)
(* file; a full map gives both back.                                       *)
alloc_chunk ==
    \/ /\ last_id < CHUNK_MAP_MAX
       /\ last_id' = last_id + 1
       /\ used_cnk_loc' = used_cnk_loc + 1
       /\ chunk_map' = [chunk_map EXCEPT ![last_id] = used_cnk_loc]
    \/ /\ last_id = CHUNK_MAP_MAX
       /\ UNCHANGED <<last_id, used_cnk_loc, chunk_map>>

(* A buffer becomes findable as that of chunk id.                          *)
ht_regist(bcid, id) == con_id' = [con_id EXCEPT ![bcid] = id]

(* create_chunk(LOG_CNK): a buffer, then an id; the buffer is cleared and  *)
(* registered, or given back if there is no id.                            *)
create_chunk ==
    /\ CanAlloc
    /\ hwm' = HwmAfterAlloc
    /\ alloc_chunk
    /\ \/ /\ last_id < CHUNK_MAP_MAX
          /\ body' = [m \in Memory |->
                        IF m \div CHUNK_SIZE = alloc_cache THEN Blank ELSE body[m]]
          /\ ht_regist(alloc_cache, last_id)
          /\ prepare_log_cnk_cnt' = prepare_log_cnk_cnt + 1
       \/ /\ last_id = CHUNK_MAP_MAX
          /\ UNCHANGED <<con_id, body, prepare_log_cnk_cnt>>
-----------------------------------------------------------------------------
(* The thread that owns the store                                          *)

(* create_master(): chunk 0 is the master chunk, chunk 1 the first of the  *)
(* log; the master chunk is written and the flusher thread created.        *)
create_master ==
    /\ mpc = "setup" /\ epoch = 1
    /\ last_id' = 2 /\ used_cnk_loc' = 2
    /\ chunk_map' = [chunk_map EXCEPT ![MASTER_CNK_ID] = 0, ![1] = 1]
    /\ con_id' = [con_id EXCEPT ![0] = 1]
    /\ hwm' = 2
    /\ prepare_log_cnk_cnt' = 1
    /\ append_pos' = CHUNK_SIZE /\ write_pos' = CHUNK_SIZE
    /\ master' = [last_id |-> 2, used_cnk_loc |-> 2, chunk_map |-> chunk_map']
    /\ fpc' = "start"
    /\ mpc' = "activate"
    /\ UNCHANGED <<status, flusher_enable, body, appVars, old_val, cnt,
                   free_cnk_id, viewed, file, logVars>>

(* reload_master(): the log goes on after the last chunk the master chunk  *)
(* knows of; reading it takes a buffer and gives it back.                  *)
reload_master ==
    /\ mpc = "setup" /\ epoch > 1
    /\ last_id' = master.last_id /\ used_cnk_loc' = master.used_cnk_loc
    /\ chunk_map' = master.chunk_map
    /\ hwm' = 1
    /\ append_pos' = master.last_id * CHUNK_SIZE
    /\ write_pos' = master.last_id * CHUNK_SIZE
    /\ fpc' = "start"
    /\ mpc' = "activate"
    /\ UNCHANGED <<status, flusher_enable, prepare_log_cnk_cnt, con_id, body,
                   appVars, old_val, cnt, free_cnk_id, viewed, diskVars, logVars>>

(* change_status(), by the thread that owns the store.                     *)
change_status(new_status, label) ==
    /\ status' = new_status /\ mpc' = label
    /\ UNCHANGED <<flusher_enable, append_pos, write_pos, mgrVars, bufVars,
                   appVars, flushVars, diskVars, logVars>>

(* create_master() and reload_master() end with STATUS_ACTIVE.             *)
Activate == mpc = "activate" /\ change_status("ACTIVE", "open")

(* The destructor, called when no append is running, waits for the flusher.*)
Close == mpc = "open" /\ apc = Idle /\ change_status("AFTERACTIVE", "closing")
Closed == mpc = "closing" /\ ~flusher_enable /\ change_status("NONE", "closed")

(* The program ends, at any moment, and is started again: only the file is *)
(* left.                                                                   *)
Restart ==
    /\ mpc # "setup" /\ epoch <= MaxCrashes
    /\ epoch' = epoch + 1
    /\ status' = "PREACTIVE" /\ mpc' = "setup" /\ flusher_enable' = FALSE
    /\ append_pos' = 0 /\ write_pos' = 0
    /\ prepare_log_cnk_cnt' = 0 /\ last_id' = 0 /\ used_cnk_loc' = 0
    /\ chunk_map' = FreshMap
    /\ con_id' = [b \in Buffers |-> NULL_BUFFER] /\ hwm' = 0 /\ body' = FreshBody
    /\ view' = [a \in Appenders |-> VIEW_DEFAULT]
    /\ apc' = Idle /\ size' = Zeros /\ prev' = Zeros /\ pos' = Zeros /\ ptr' = Zeros
    /\ fpc' = "none" /\ old_val' = 0 /\ cnt' = 0
    /\ free_cnk_id' = {} /\ viewed' = {}
    /\ appended' = {}
    /\ UNCHANGED <<diskVars, budget, durable>>

Owner == create_master \/ reload_master \/ Activate \/ Close \/ Closed
-----------------------------------------------------------------------------
(* append()                                                                *)

AGoto(a, label) == apc' = [apc EXCEPT ![a] = label]

(* What no step of an appender touches, and what few of them do.           *)
NotAppend == UNCHANGED <<lifeVars, write_pos, mgrVars, con_id, hwm, flushVars,
                         diskVars, epoch, durable>>
AppendKeeps == UNCHANGED <<body, view, size, ptr, budget, appended>> /\ NotAppend

(* The call; the chunk of append_pos is read ...                           *)
Append(a) ==
    /\ apc[a] = "idle" /\ mpc = "open" /\ budget > 0
    /\ \E s \in Sizes : size' = [size EXCEPT ![a] = s]
    /\ budget' = budget - 1
    /\ prev' = [prev EXCEPT ![a] = get_cnk_id(append_pos)]
    /\ AGoto(a, "view")
    /\ UNCHANGED <<append_pos, body, view, pos, ptr, appended>> /\ NotAppend

(* ... and published as the view.                                          *)
SetView(a) ==
    /\ apc[a] = "view"
    /\ view' = [view EXCEPT ![a] = prev[a]]
    /\ AGoto(a, "load")
    /\ UNCHANGED <<append_pos, body, size, prev, pos, ptr, budget, appended>>
    /\ NotAppend

(* prev = _val; a record that does not fit in the chunk is aligned first.  *)
ReadPos(a, fits) ==
    /\ prev' = [prev EXCEPT ![a] = append_pos]
    /\ AGoto(a, IF fits THEN "cas" ELSE "align")
    /\ UNCHANGED <<append_pos, pos>> /\ AppendKeeps


(* go_forward(), at the start and after a failed compare-and-swap.         *)
GoForward(a) ==
    apc[a] = "load" /\ ReadPos(a, get_offset(append_pos) + size[a] <= CHUNK_SIZE)

(* _cas_next_align(): skip the rest of the chunk.                          *)
CasNextAlign(a) ==
    /\ apc[a] = "align"
    /\ \/ /\ append_pos = prev[a]
          /\ append_pos' = (get_cnk_id(prev[a]) + 1) * CHUNK_SIZE
          /\ AGoto(a, "aligned")
       \/ /\ append_pos # prev[a]
          /\ AGoto(a, "load")
          /\ UNCHANGED append_pos
    /\ UNCHANGED <<prev, pos>> /\ AppendKeeps

(* prev = _val once more; the offset is not looked at again.               *)
Aligned(a) == apc[a] = "aligned" /\ ReadPos(a, TRUE)

(* The place of the record is reserved if the compare-and-swap succeeds.   *)
Reserve(a, success) ==
    /\ apc[a] = "cas"
    /\ \/ /\ success
          /\ append_pos' = prev[a] + size[a]
          /\ pos' = [pos EXCEPT ![a] = prev[a]]
          /\ AGoto(a, "find")
       \/ /\ ~success
          /\ AGoto(a, "load")
          /\ UNCHANGED <<append_pos, pos>>
    /\ UNCHANGED prev /\ AppendKeeps

(* Fault: the position is advanced with a plain store.                     *)
CasForwardPlainStore(a) == Reserve(a, TRUE)

CasForward(a) == Reserve(a, append_pos = prev[a])

(* _get_chunk_ptr(), which waits until the chunk has a buffer.             *)
GetChunkPtr(a) ==
    /\ apc[a] = "find"
    /\ find_cache(get_cnk_id(pos[a])) # NULL_BCID
    /\ ptr' = [ptr EXCEPT ![a] = Address(pos[a])]
    /\ AGoto(a, "write")
    /\ UNCHANGED <<append_pos, body, view, size, prev, pos, budget, appended>>
    /\ NotAppend

Record(a) == {<<epoch, pos[a] + i>> : i \in 0 .. size[a] - 1}

(* value->write(ptr).  A record that does not end in its chunk runs on in  *)
(* the array _body.                                                        *)
Write(a) ==
    /\ apc[a] = "write"
    /\ body' = [m \in Memory |-> IF m \in ptr[a] .. ptr[a] + size[a] - 1
                                 THEN <<epoch, pos[a] + m - ptr[a]>> ELSE body[m]]
    /\ AGoto(a, "unview")
    /\ UNCHANGED <<append_pos, view, size, prev, pos, ptr, budget, appended>>
    /\ NotAppend

(* The view is withdrawn and append() returns; the locals are dead.        *)
Return(a) ==
    /\ apc[a] = "unview"
    /\ view' = [view EXCEPT ![a] = VIEW_DEFAULT]
    /\ appended' = appended \cup Record(a)
    /\ AGoto(a, "idle")
    /\ size' = [size EXCEPT ![a] = 0] /\ prev' = [prev EXCEPT ![a] = 0]
    /\ pos' = [pos EXCEPT ![a] = 0] /\ ptr' = [ptr EXCEPT ![a] = 0]
    /\ UNCHANGED <<append_pos, body, budget>> /\ NotAppend

(* wait_flush(), called between appends, polls the two positions.          *)
WaitStep(a, from, to) ==
    /\ apc[a] = from /\ AGoto(a, to)
    /\ UNCHANGED <<append_pos, prev, pos>> /\ AppendKeeps

WaitFlush(a) == mpc = "open" /\ WaitStep(a, "idle", "flush")
Flushed(a) == write_pos + FLUSH_UNIT > append_pos /\ WaitStep(a, "flush", "idle")

InAppend(a) ==
    \/ SetView(a) \/ GoForward(a) \/ CasNextAlign(a) \/ Aligned(a)
    \/ CasForward(a) \/ GetChunkPtr(a) \/ Write(a) \/ Return(a)
    \/ Flushed(a)
-----------------------------------------------------------------------------
(* log_flusher()                                                           *)

(* What no step of the flusher touches, and what few of them do.           *)
NotFlusher == UNCHANGED <<status, mpc, append_pos, appVars, epoch, budget, appended>>
FlusherKeeps == UNCHANGED <<mgrVars, bufVars, diskVars, durable>> /\ NotFlusher

(* A step that only moves the thread on; flusher_enable is its flag.       *)
FlusherStep(from, to, enable) ==
    /\ fpc = from /\ fpc' = to
    /\ flusher_enable' = enable
    /\ UNCHANGED <<write_pos, old_val, cnt, free_cnk_id, viewed>> /\ FlusherKeeps

FlusherStart ==
    (EarlyFlusher \/ status # "PREACTIVE") /\ FlusherStep("start", "loop", TRUE)

FlusherLoop ==
    FlusherStep("loop", IF status = "ACTIVE" THEN "reserve" ELSE "stop", flusher_enable)

FlusherStop == FlusherStep("stop", "done", FALSE)

reserve_space ==
    /\ fpc = "reserve"
    /\ \/ prepare_log_cnk_cnt < MAX_PREPARE_LOG_CNK_CNT - 1 /\ create_chunk
       \/ /\ prepare_log_cnk_cnt >= MAX_PREPARE_LOG_CNK_CNT - 1
          /\ UNCHANGED <<mgrVars, bufVars>>
    /\ fpc' = "flush"
    /\ UNCHANGED <<flusher_enable, write_pos, old_val, cnt, free_cnk_id, viewed,
                   diskVars, durable>>
    /\ NotFlusher

(* flush() begins; old_val is where a failed write goes back to.           *)
flush ==
    /\ fpc = "flush"
    /\ old_val' = write_pos /\ cnt' = 0 /\ free_cnk_id' = {}
    /\ fpc' = "append"
    /\ UNCHANGED <<flusher_enable, write_pos, viewed>> /\ FlusherKeeps

(* The loop ends unless the next unit has been reserved and has a buffer.  *)
FlushAppend ==
    /\ fpc = "append"
    /\ viewed' = {}
    /\ fpc' = IF /\ write_pos + FLUSH_UNIT <= append_pos
                 /\ find_cache(get_cnk_id(write_pos)) # NULL_BCID
              THEN "view" ELSE "write"
    /\ UNCHANGED <<flusher_enable, write_pos, old_val, cnt, free_cnk_id>>
    /\ FlusherKeeps

(* appender_view_pos.min(), cell by cell: the loop ends if an appender may *)
(* still write to a chunk with an id up to this one.                       *)
FlushViewUpTo(id) ==
    /\ fpc = "view"
    /\ \E a \in Appenders \ viewed :
          /\ viewed' = viewed \cup {a}
          /\ fpc' = IF view[a] <= id THEN "write"
                    ELSE IF viewed' = Appenders THEN "take" ELSE "view"
    /\ UNCHANGED <<flusher_enable, write_pos, old_val, cnt, free_cnk_id>>
    /\ FlusherKeeps

(* Fault: a view of the chunk itself does not count.                       *)
FlushViewBelow == FlushViewUpTo(get_cnk_id(write_pos) - 1)

FlushView == FlushViewUpTo(get_cnk_id(write_pos))

(* The unit joins the batch.  A new element of iov is used for the first   *)
(* unit and at the start of a chunk; write_pos moves on.                   *)
FlushTake ==
    LET offset == get_offset(write_pos)
        iovs == IF write_pos = old_val \/ offset = 0 THEN cnt + 1 ELSE cnt
    IN  /\ fpc = "take"
        /\ cnt' = iovs
        /\ free_cnk_id' = IF offset + FLUSH_UNIT = CHUNK_SIZE
                          THEN free_cnk_id \cup {get_cnk_id(write_pos)}
                          ELSE free_cnk_id
        /\ write_pos' = write_pos + FLUSH_UNIT
        /\ viewed' = {}
        /\ fpc' = IF iovs < FLUSH_COUNT THEN "append" ELSE "write"
        /\ UNCHANGED <<flusher_enable, old_val>> /\ FlusherKeeps

(* The file after n units of the batch have been written: iov is written   *)
(* in one piece from the place of its first unit.                          *)
Written(n) ==
    LET start == chunk_map[get_cnk_id(old_val)] * CHUNK_SIZE + get_offset(old_val)
    IN  [u \in Units |-> IF u \in start .. start + n - 1
                         THEN body[Address(old_val + u - start)] ELSE file[u]]

(* pwritev(): all of the batch, or an error after a part of it, which      *)
(* takes write_pos back.                                                   *)
WriteOr(rewound) ==
    /\ fpc = "write"
    /\ viewed' = {}
    /\ \/ /\ cnt = 0
          /\ fpc' = "loop"
          /\ UNCHANGED <<write_pos, file>>
       \/ /\ cnt > 0
          /\ file' = Written(write_pos - old_val)
          /\ fpc' = "victim"
          /\ UNCHANGED write_pos
       \/ /\ cnt > 0 /\ WriteErrors
          /\ \E n \in 0 .. write_pos - old_val - 1 : file' = Written(n)
          /\ write_pos' = rewound
          /\ fpc' = "loop"
    /\ UNCHANGED <<flusher_enable, mgrVars, bufVars, old_val, cnt, free_cnk_id,
                   master, durable>>
    /\ NotFlusher

(* Fault: an error leaves write_pos behind the batch.                      *)
FlushWriteNoRewind == WriteOr(write_pos)

FlushWrite == WriteOr(old_val)

(* set_victim() for the completed chunks: the chunks of victims lose their *)
(* buffers and n chunks less are prepared.                                 *)
Victims(victims, n) ==
    /\ fpc = "victim"
    /\ con_id' = [b \in Buffers |->
                    IF con_id[b] \in victims THEN NULL_BUFFER ELSE con_id[b]]
    /\ prepare_log_cnk_cnt' = prepare_log_cnk_cnt - n
    /\ fpc' = IF free_cnk_id = {} THEN "loop" ELSE "master"
    /\ UNCHANGED <<flusher_enable, write_pos, last_id, used_cnk_loc, chunk_map,
                   hwm, body, old_val, cnt, free_cnk_id, viewed, diskVars, durable>>
    /\ NotFlusher


(* Fault: the chunks are not found; set_victim()'s result is ignored.      *)
FlushVictimNotFound == Victims({}, Cardinality(free_cnk_id))

FlushVictim == Victims(free_cnk_id, Cardinality(free_cnk_id))

(* write_master_chunk(), with a buffer taken and given back; flush()       *)
(* returns true.                                                           *)
WriteMaster(image) ==
    /\ fpc = "master" /\ CanAlloc
    /\ hwm' = HwmAfterAlloc
    /\ master' = image
    /\ durable' = durable \cup
                  ({file[u] : u \in {v \in Units : get_cnk_id(v) \in free_cnk_id}}
                   \ {Blank})
    /\ fpc' = "loop"
    /\ UNCHANGED <<flusher_enable, write_pos, mgrVars, con_id, body, old_val,
                   cnt, free_cnk_id, viewed, file>>
    /\ NotFlusher


write_master_chunk ==
    WriteMaster([last_id |-> last_id, used_cnk_loc |-> used_cnk_loc,
                 chunk_map |-> chunk_map])

Flusher ==
    \/ FlusherStart \/ FlusherLoop \/ FlusherStop \/ reserve_space \/ flush
    \/ FlushAppend \/ FlushView \/ FlushTake \/ FlushWrite \/ FlushVictim
    \/ write_master_chunk
-----------------------------------------------------------------------------
Next ==
    \/ Owner \/ Restart \/ Flusher
    \/ \E a \in Appenders : Append(a) \/ WaitFlush(a) \/ InAppend(a)

Spec == Init /\ [][Next]_vars

(* Every thread that can run does so; nobody has to call append() again.   *)
FairSpec ==
    /\ Spec
    /\ WF_vars(create_master \/ reload_master \/ Activate \/ Closed)
    /\ WF_vars(Flusher)
    /\ \A a \in Appenders : WF_vars(InAppend(a))
-----------------------------------------------------------------------------
(* Units below this position have been written by pwritev().               *)
Flushing == fpc \in {"append", "view", "take", "write"}
FlushedPos == IF Flushing THEN old_val ELSE write_pos

(* append() never loses a record: what a finished append wrote is in the   *)
(* file once the flusher has passed it, and in the buffer of its chunk     *)
(* before.  The flusher may not overtake an appender that has reserved its *)
(* place and not written yet.                                              *)
NoLostAppend ==
    \A c \in appended :
        IF c[2] < FlushedPos THEN file[c[2]] = c
        ELSE /\ find_cache(get_cnk_id(c[2])) # NULL_BCID
             /\ body[Address(c[2])] = c

(* go_forward() gives every place of the log away once, also while other   *)
(* appenders skip the rest of a chunk: no unit of a record that is being   *)
(* appended belongs to another one.                                        *)
ReservedOnce ==
    LET Reserved(a) == IF apc[a] \in {"find", "write", "unview"}
                       THEN Record(a) ELSE {}
    IN  \A a \in Appenders :
            /\ Reserved(a) \cap appended = {}
            /\ \A b \in Appenders \ {a} : Reserved(a) \cap Reserved(b) = {}
            /\ \A c \in Reserved(a) : c[2] < append_pos

(* A record is written into the buffer of its own chunk: between           *)
(* _get_chunk_ptr() and the end of the write the buffer is not given to    *)
(* another chunk, and the record ends before the chunk does.               *)
WritesOwnBuffer ==
    \A a \in Appenders : apc[a] = "write" =>
        /\ con_id[ptr[a] \div CHUNK_SIZE] = get_cnk_id(pos[a])
        /\ get_offset(pos[a]) + size[a] <= CHUNK_SIZE


(* alloc_cache() always finds a buffer, for the next chunk and for the     *)
(* master chunk: the count of prepared chunks and the buffers that hold    *)
(* them stay in step.  Otherwise its search does not end.                  *)
CacheSuffices ==
    (\/ fpc = "reserve" /\ prepare_log_cnk_cnt < MAX_PREPARE_LOG_CNK_CNT - 1
     \/ fpc = "master") => CanAlloc


(* Every call returns: append() and wait_flush() while the store is open,  *)
(* and the destructor, which waits for the flusher to stop.                *)
CallsReturn ==
    /\ \A a \in Appenders : apc[a] = "view" ~> apc[a] = "idle"
    /\ \A a \in Appenders : apc[a] = "flush" ~> apc[a] = "idle"
    /\ mpc = "closing" ~> mpc = "closed"
=============================================================================
