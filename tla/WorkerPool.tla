---------------------------- MODULE WorkerPool ----------------------------
(***************************************************************************)
(* ywWorkerPool (include/ywworker.h, src/ywworker.cc): a ring of tasks     *)
(* without a lock.  Producers reserve a slot by moving queue_end and then  *)
(* fill funcs and args; workers claim a slot by emptying args, then empty  *)
(* funcs and move queue_begin.  Every shared load, store and               *)
(* compare-and-swap is a step.  Tasks may share functions and arguments.   *)
(* The destructor's done flag (process exit) is left out.                  *)
(***************************************************************************)
EXTENDS Naturals, FiniteSets, FiniteSetsExt

CONSTANTS
    Workers, Producers,
    Tasks,             \* numbered in the order in which they are added
    Funcs, Args,
    FuncOf, ArgOf,     \* what each task is added with
    MAX_QUEUE_SIZE,
    null_func, NULL_ARG

ASSUME QueueSizeAssumption == MAX_QUEUE_SIZE \in Nat \ {0, 1}
ASSUME TaskAssumption ==
    /\ Tasks \subseteq Nat
    /\ FuncOf \in [Tasks -> Funcs] /\ ArgOf \in [Tasks -> Args]
    /\ null_func \notin Funcs /\ NULL_ARG \notin Args

Slots == 0 .. MAX_QUEUE_SIZE - 1

VARIABLES
    queue_begin, queue_end, funcs, args, running, block,
    pc,              \* of workers and producers
    prev,            \* local slot index of get_task() and add_task()
    func, arg,       \* locals of get_task(); the parameters of add_task()
    end, seen, busy, \* locals of is_idle(): queue_end, flags read, one was set
    task,            \* the task a producer is adding
    todo,            \* tasks not added yet
    accepted,        \* tasks whose slot has been filled
    executed         \* how often each func(arg) was called

ringVars == <<queue_begin, queue_end, funcs, args>>
idleVars == <<end, seen, busy>>
logVars == <<task, todo, accepted, executed>>
vars == <<ringVars, running, block, pc, prev, func, arg, idleVars, logVars>>

Threads == Workers \cup Producers

(* The constructor and init().                                             *)
Init ==
    /\ queue_begin = 0 /\ queue_end = 0
    /\ funcs = [s \in Slots |-> null_func]
    /\ args = [s \in Slots |-> NULL_ARG]
    /\ running = [w \in Workers |-> FALSE] /\ block = FALSE
    /\ pc = [t \in Threads |-> "idle"]
    /\ prev = [t \in Threads |-> 0]
    /\ func = [t \in Threads |-> null_func]
    /\ arg = [t \in Threads |-> NULL_ARG]
    /\ end = [p \in Producers |-> 0]
    /\ seen = [p \in Producers |-> {}] /\ busy = [p \in Producers |-> FALSE]
    /\ task = [p \in Producers |-> 0] /\ todo = Tasks /\ accepted = {}
    /\ executed = [c \in Funcs \X Args |-> 0]

Goto(t, label) == pc' = [pc EXCEPT ![t] = label]

NextSlot(s) == (s + 1) % MAX_QUEUE_SIZE
-----------------------------------------------------------------------------
(* get_task() and work()                                                   *)

(* What the loads leave alone, and what the compare-and-swaps do.          *)
Loads == UNCHANGED <<ringVars, running, block, idleVars, logVars>>
Swaps == UNCHANGED <<queue_end, running, block, prev, func, arg, idleVars, logVars>>

(* prev = queue_begin.                                                     *)
GetBegin(w) ==
    /\ pc[w] = "idle"
    /\ prev' = [prev EXCEPT ![w] = queue_begin]
    /\ Goto(w, "get_arg")
    /\ UNCHANGED <<func, arg>> /\ Loads

(* arg = args[prev]; an empty slot ends get_task().                        *)
GetArg(w) ==
    /\ pc[w] = "get_arg"
    /\ arg' = [arg EXCEPT ![w] = args[prev[w]]]
    /\ Goto(w, IF args[prev[w]] = NULL_ARG THEN "idle" ELSE "get_func")
    /\ UNCHANGED <<prev, func>> /\ Loads

GetFunc(w) ==
    /\ pc[w] = "get_func"
    /\ func' = [func EXCEPT ![w] = funcs[prev[w]]]
    /\ Goto(w, "get_cas")
    /\ UNCHANGED <<prev, arg>> /\ Loads

(* The compare-and-swap that claims the task.  If it fails, queue_begin    *)
(* becomes begin.                                                          *)
Claim(w, success, begin) ==
    /\ pc[w] = "get_cas"
    /\ \/ /\ success
          /\ args' = [args EXCEPT ![prev[w]] = NULL_ARG]
          /\ Goto(w, "clear_func")
          /\ UNCHANGED queue_begin
       \/ /\ ~success
          /\ queue_begin' = begin
          /\ Goto(w, "idle")
          /\ UNCHANGED args
    /\ UNCHANGED funcs /\ Swaps

(* Fault: the task is claimed with a plain store.                          *)
GetCasPlainStore(w) == Claim(w, TRUE, queue_begin)

(* Fault: a worker that loses the race moves queue_begin on all the same.  *)
GetCasSkips(w) == Claim(w, args[prev[w]] = arg[w], NextSlot(prev[w]))

GetCas(w) == Claim(w, args[prev[w]] = arg[w], queue_begin)

(* Fault: funcs[prev] is left as it is.                                    *)
ClearFuncSkipped(w) ==
    /\ pc[w] = "clear_func"
    /\ Goto(w, "advance")
    /\ UNCHANGED <<queue_begin, funcs, args>> /\ Swaps

(* funcs[prev] is emptied; repeated until the compare-and-swap succeeds.   *)
ClearFunc(w) ==
    /\ pc[w] = "clear_func" /\ funcs[prev[w]] = func[w]
    /\ funcs' = [funcs EXCEPT ![prev[w]] = null_func]
    /\ Goto(w, "advance")
    /\ UNCHANGED <<queue_begin, args>> /\ Swaps

(* queue_begin moves on; likewise repeated.                                *)
Advance(w) ==
    /\ pc[w] = "advance" /\ queue_begin = prev[w]
    /\ queue_begin' = NextSlot(prev[w])
    /\ Goto(w, "start")
    /\ UNCHANGED <<funcs, args>> /\ Swaps

(* work(): running[tid] = true, ...                                        *)
Start(w) ==
    /\ pc[w] = "start"
    /\ running' = [running EXCEPT ![w] = TRUE]
    /\ Goto(w, "run")
    /\ UNCHANGED <<ringVars, block, prev, func, arg, idleVars, logVars>>

(* ... func(arg) ...                                                       *)
Run(w) ==
    /\ pc[w] = "run"
    /\ executed' = [executed EXCEPT ![<<func[w], arg[w]>>] = @ + 1]
    /\ Goto(w, "finish")
    /\ UNCHANGED <<ringVars, running, block, prev, func, arg, idleVars, task,
                   todo, accepted>>

(* ... and running[tid] = false; the locals are dead.                      *)
Finish(w) ==
    /\ pc[w] = "finish"
    /\ running' = [running EXCEPT ![w] = FALSE]
    /\ arg' = [arg EXCEPT ![w] = NULL_ARG]
    /\ func' = [func EXCEPT ![w] = null_func]
    /\ Goto(w, "idle")
    /\ UNCHANGED <<ringVars, block, prev, idleVars, logVars>>

Worker(w) ==
    \/ GetBegin(w) \/ GetArg(w) \/ GetFunc(w) \/ GetCas(w) \/ ClearFunc(w)
    \/ Advance(w) \/ Start(w) \/ Run(w) \/ Finish(w)
-----------------------------------------------------------------------------
(* add_task()                                                              *)

(* The call; a blocked pool returns false and nothing changes.             *)
AddTask(p) ==
    /\ pc[p] = "idle" /\ ~block
    /\ todo # {}
    /\ LET t == Min(todo) IN /\ todo' = todo \ {t}
                             /\ task' = [task EXCEPT ![p] = t]
                             /\ arg' = [arg EXCEPT ![p] = ArgOf[t]]
                             /\ func' = [func EXCEPT ![p] = FuncOf[t]]
    /\ Goto(p, "add_end")
    /\ UNCHANGED <<ringVars, running, block, prev, idleVars, accepted, executed>>

(* prev = queue_end.                                                       *)
AddEnd(p) ==
    /\ pc[p] = "add_end"
    /\ prev' = [prev EXCEPT ![p] = queue_end]
    /\ Goto(p, "add_full")
    /\ UNCHANGED <<func, arg>> /\ Loads

(* A full ring returns false; the caller may try again.                    *)
AddFull(p) ==
    /\ pc[p] = "add_full"
    /\ \/ /\ NextSlot(prev[p]) = queue_begin
          /\ todo' = todo \cup {task[p]}
          /\ Goto(p, "idle")
       \/ /\ NextSlot(prev[p]) # queue_begin
          /\ Goto(p, "add_cas")
          /\ UNCHANGED todo
    /\ UNCHANGED <<ringVars, running, block, prev, func, arg, idleVars, task,
                   accepted, executed>>

(* The compare-and-swap that reserves the slot.                            *)
ReserveSlot(p, success) ==
    /\ pc[p] = "add_cas"
    /\ \/ /\ success
          /\ queue_end' = NextSlot(prev[p])
          /\ Goto(p, "add_func")
       \/ /\ ~success
          /\ Goto(p, "add_end")
          /\ UNCHANGED queue_end
    /\ UNCHANGED <<queue_begin, funcs, args, running, block, prev, func, arg,
                   idleVars, logVars>>


AddCas(p) == ReserveSlot(p, queue_end = prev[p])

(* The two compare-and-swaps that fill it, each repeated until it succeeds.*)
AddFunc(p) ==
    /\ pc[p] = "add_func" /\ funcs[prev[p]] = null_func
    /\ funcs' = [funcs EXCEPT ![prev[p]] = func[p]]
    /\ Goto(p, "add_arg")
    /\ UNCHANGED <<queue_begin, args>> /\ Swaps

AddArg(p) ==
    /\ pc[p] = "add_arg" /\ args[prev[p]] = NULL_ARG
    /\ args' = [args EXCEPT ![prev[p]] = arg[p]]
    /\ accepted' = accepted \cup {task[p]}
    /\ Goto(p, "idle")
    /\ UNCHANGED <<queue_begin, queue_end, funcs, running, block, prev, func,
                   arg, idleVars, task, todo, executed>>
-----------------------------------------------------------------------------
(* wait_to_idle()                                                          *)

(* The call: block_add_task(true).                                         *)
WaitToIdle(p) ==
    /\ pc[p] = "idle"
    /\ block' = TRUE
    /\ Goto(p, "wait")
    /\ UNCHANGED <<ringVars, running, prev, func, arg, idleVars, logVars>>

(* is_idle(): queue_end ...                                                *)
IdleEnd(p) ==
    /\ pc[p] = "wait"
    /\ end' = [end EXCEPT ![p] = queue_end]
    /\ Goto(p, "wait_begin")
    /\ UNCHANGED <<ringVars, running, block, prev, func, arg, seen, busy, logVars>>

(* ... == queue_begin, ...                                                 *)
TestQueue(p, empty) ==
    /\ pc[p] = "wait_begin"
    /\ seen' = [seen EXCEPT ![p] = {}]
    /\ busy' = [busy EXCEPT ![p] = FALSE]
    /\ Goto(p, IF empty THEN "wait_scan" ELSE "wait")
    /\ UNCHANGED <<ringVars, running, block, prev, func, arg, end, logVars>>

(* Fault: only the flags of the threads are looked at.                     *)
IdleBeginIgnored(p) == TestQueue(p, TRUE)

IdleBegin(p) == TestQueue(p, end[p] = queue_begin)

(* ... the loop of get_running_thread_count(), in the order of the ids the *)
(* workers happen to have, ...                                             *)
IdleScan(p) ==
    /\ pc[p] = "wait_scan"
    /\ \E w \in Workers \ seen[p] :
          /\ seen' = [seen EXCEPT ![p] = @ \cup {w}]
          /\ busy' = [busy EXCEPT ![p] = @ \/ running[w]]
    /\ UNCHANGED <<ringVars, running, block, pc, prev, func, arg, end, logVars>>

(* ... and its comparison with 0.                                          *)
IdleTest(p) ==
    /\ pc[p] = "wait_scan" /\ seen[p] = Workers
    /\ Goto(p, IF busy[p] THEN "wait" ELSE "wait_assert")
    /\ UNCHANGED <<ringVars, running, block, prev, func, arg, idleVars, logVars>>

(* assert(queue_end == queue_begin), block_add_task(false), return.        *)
WaitReturn(p) ==
    /\ pc[p] = "wait_assert"
    /\ block' = FALSE
    /\ Goto(p, IF queue_end = queue_begin THEN "returned" ELSE "abort")
    /\ UNCHANGED <<ringVars, running, prev, func, arg, idleVars, logVars>>

(* The caller goes on.                                                     *)
Resume(p) ==
    /\ pc[p] = "returned"
    /\ Goto(p, "idle")
    /\ UNCHANGED <<ringVars, running, block, prev, func, arg, idleVars, logVars>>

Adding(p) == AddEnd(p) \/ AddFull(p) \/ AddCas(p) \/ AddFunc(p) \/ AddArg(p)

Waiting(p) ==
    \/ IdleEnd(p) \/ IdleBegin(p) \/ IdleScan(p) \/ IdleTest(p) \/ WaitReturn(p)

Next ==
    \/ \E w \in Workers : Worker(w)
    \/ \E p \in Producers : AddTask(p) \/ Adding(p) \/ WaitToIdle(p) \/ Waiting(p)
                            \/ Resume(p)

(* Every thread that is inside a function of the pool is scheduled.        *)
Fairness ==
    /\ \A w \in Workers : WF_vars(Worker(w))
    /\ \A p \in Producers : WF_vars(Adding(p)) /\ WF_vars(Waiting(p))

Spec == Init /\ [][Next]_vars /\ Fairness
-----------------------------------------------------------------------------
(* A task in the hands of a worker.                                        *)
Claimed(w) == pc[w] \in {"clear_func", "advance", "start", "run"}

Added(c) == Cardinality({t \in accepted : <<FuncOf[t], ArgOf[t]>> = c})

(* Each task is run at most once, only after it was added, and with the    *)
(* function it was added with, although a worker reads arg and func from a *)
(* slot that may be emptied and refilled in between, and from an index     *)
(* that may be a whole turn of the ring old.                               *)
RunsOnceAsAdded ==
    \A c \in Funcs \X Args :
        executed[c] + Cardinality({w \in Workers : Claimed(w) /\ <<func[w], arg[w]>> = c})
            <= Added(c)

(* A slot holds at most one task: a producer that has reserved a slot is   *)
(* the only one to fill it until a worker empties it.                      *)
Filling(p) == pc[p] \in {"add_func", "add_arg"}

SlotsExclusive ==
    \A p, q \in Producers :
        Filling(p) /\ Filling(q) /\ prev[p] = prev[q] => p = q


(* No accepted task is lost, however stale the indices of the workers are: *)
(* the n-th func(arg) to be added is the n-th to be called.                *)
AcceptedRuns ==
    \A t \in Tasks :
        LET same == {u \in Tasks : u <= t /\ FuncOf[u] = FuncOf[t] /\ ArgOf[u] = ArgOf[t]}
        IN  t \in accepted ~> executed[<<FuncOf[t], ArgOf[t]>>] >= Cardinality(same)

(* add_task() and wait_to_idle() come back, although a task that was       *)
(* claimed a turn of the ring too early holds up its slot.                 *)
CallsReturn == \A p \in Producers : pc[p] \notin {"idle", "returned"}
                                        ~> pc[p] \in {"idle", "returned"}

(* The assertion of wait_to_idle(), src/ywworker.cc line 47.               *)
QueueEmptyAtReturn == \A p \in Producers : pc[p] # "abort"
=============================================================================
