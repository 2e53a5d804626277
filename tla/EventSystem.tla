---------------------------- MODULE EventSystem ----------------------------
(***************************************************************************)
(* The event sub-system, src/src/event/event.c: any thread triggers events *)
(* or registers event types and listeners under one mutex, and the thread  *)
(* that runs event_handle (the main thread) sleeps on a condition variable *)
(* and empties the queue.  One step per access to shared state, so that a  *)
(* thread can be preempted between any two of them; in particular between  *)
(* the unlock and the cond_signal of event_trigger.                        *)
(*                                                                         *)
(* The payload of an event, the handlers (the repository registers none)   *)
(* and the bytes of the registry's dictionary are abstracted away.         *)
(***************************************************************************)
EXTENDS Integers, Sequences

CONSTANTS Threads,       (* the threads that call the event sub-system         *)
          Main,          (* the thread that runs event_handle                  *)
          NoThread,      (* the owner of a free mutex                          *)
          Codes,         (* the event codes the threads use                    *)
          STOP,          (* BEVENT_STOP                                        *)
          QueueCapacity, (* MAX_TRIGGERED_EVENTS                               *)
          MaxCalls       (* bound of the model on the calls of each thread     *)

ASSUME EventAssumption ==
    /\ Main \notin Threads
    /\ NoThread \notin Threads \union {Main}
    /\ STOP \in Codes
    /\ QueueCapacity \in Nat \ {0}
    /\ MaxCalls \in Nat

VARIABLES mutex,      (* ctx.mutex: its owner, or NoThread                    *)
          waiting,    (* Main is blocked in pthread_cond_wait                 *)
          capacity,   (* ctx.queue.capacity: 0 until event_system_init        *)
          queue,      (* ctx.queue: the codes of the triggered events         *)
          registered, (* the keys of ctx.event_registry                       *)
          listeners,  (* the <<thread, code>> listeners of the registry       *)
          running,    (* ctx.running                                          *)
          stopEvent,  (* stop_event, the local of process_event_queue         *)
          crashed,    (* a NULL entry was dereferenced: the process is gone   *)
          pc,         (* where each thread is                                 *)
          arg,        (* the code each thread called with                     *)
          calls       (* how many calls each thread has made                  *)

registryVars == <<registered, listeners, crashed>>
handlerVars == <<running, stopEvent>>
callVars == <<arg, calls>>
vars == <<mutex, waiting, capacity, queue, registryVars, handlerVars, pc, callVars>>

(* rqueue_enqueue, rqueue_peek and rqueue_dequeue, as RingQueue implements *)
(* them: event.c ignores what they return.                                 *)
Fifo == INSTANCE BoundedQueue
            WITH Values <- Codes, Capacity <- QueueCapacity, result <- <<>>

(* pthread_mutex_lock and pthread_mutex_unlock *)
Acquire(t) == mutex = NoThread /\ mutex' = t
Release == mutex' = NoThread

Goto(t, label) == pc' = [pc EXCEPT ![t] = label]

(* The registry is a dictionary without collisions: default_hash and the   *)
(* capacity of 256 send STOP to slot 37; other codes go elsewhere.  For an *)
(* absent code get_elem returns FALSE, that is slot 0, which is empty, so  *)
(* dict_get returns -1 only when the dictionary is empty.                  *)
SlotOf(code) == IF code = STOP THEN 37 ELSE 38
get_elem(code) == IF code \in registered THEN SlotOf(code) ELSE 0
dict_get(code) == IF registered = {} THEN -1 ELSE get_elem(code)
dict_ref_isNull(idx) == \A code \in registered : SlotOf(code) # idx
-----------------------------------------------------------------------------
(* event_system_init, run by Main before any call, leaves this state. *)
InitializedQueue == capacity = QueueCapacity /\ queue = <<>> /\ registered = {STOP}

Init ==
    /\ InitializedQueue
    /\ mutex = NoThread
    /\ waiting = FALSE
    /\ listeners = {}
    /\ running = TRUE
    /\ stopEvent = FALSE
    /\ crashed = FALSE
    /\ pc = [t \in Threads \union {Main} |-> IF t = Main THEN "handle_test" ELSE "idle"]
    /\ arg = [t \in Threads |-> STOP]
    /\ calls = [t \in Threads |-> 0]

(* A thread calls one of the three operations.  event_register_listener    *)
(* refuses to listen to STOP before it takes the mutex.                    *)
Call(t, op, code) ==
    /\ pc[t] = "idle"
    /\ calls[t] < MaxCalls
    /\ ~(op = "listener_lock" /\ code = STOP)
    /\ arg' = [arg EXCEPT ![t] = code]
    /\ calls' = [calls EXCEPT ![t] = @ + 1]
    /\ Goto(t, op)
    /\ UNCHANGED <<mutex, waiting, capacity, queue, registryVars, handlerVars>>

Operations == {"trigger_lock", "event_lock", "listener_lock"}
AfterLock == [trigger_lock |-> "enqueue", event_lock |-> "put", listener_lock |-> "add"]

LockForCall(t) ==
    /\ pc[t] \in Operations
    /\ Acquire(t)
    /\ Goto(t, AfterLock[pc[t]])
    /\ UNCHANGED <<waiting, capacity, queue, registryVars, handlerVars, callVars>>

(* Mutant: the test for a full queue is missing. *)
trigger_enqueue_NoLimit(t) ==
    /\ pc[t] = "enqueue"
    /\ queue' = Append(queue, arg[t])
    /\ Goto(t, "trigger_unlock")
    /\ UNCHANGED <<mutex, waiting, capacity, registryVars, handlerVars, callVars>>

(* event_trigger: the value returned by rqueue_enqueue is ignored. *)
trigger_enqueue(t) ==
    /\ pc[t] = "enqueue"
    /\ queue' = Fifo!Enqueued(queue, arg[t], capacity)
    /\ Goto(t, "trigger_unlock")
    /\ UNCHANGED <<mutex, waiting, capacity, registryVars, handlerVars, callVars>>

trigger_unlock(t) ==
    /\ pc[t] = "trigger_unlock"
    /\ Release
    /\ Goto(t, "signal")
    /\ UNCHANGED <<waiting, capacity, queue, registryVars, handlerVars, callVars>>

(* Mutant: the condition variable is not signalled. *)
trigger_signal_Forgotten(t) ==
    /\ pc[t] = "signal"
    /\ Goto(t, "idle")
    /\ UNCHANGED <<mutex, waiting, capacity, queue, registryVars, handlerVars, callVars>>

(* pthread_cond_signal, after the mutex was released *)
trigger_signal(t) ==
    /\ pc[t] = "signal"
    /\ waiting' = FALSE
    /\ Goto(t, "idle")
    /\ UNCHANGED <<mutex, capacity, queue, registryVars, handlerVars, callVars>>

event_register_event(t) ==
    /\ pc[t] = "put"
    /\ registered' = IF dict_get(arg[t]) >= 0 THEN registered ELSE registered \union {arg[t]}
    /\ Goto(t, "unlock")
    /\ UNCHANGED <<mutex, waiting, capacity, queue, listeners, crashed, handlerVars, callVars>>

(* The entry dict_ref returned is used without a test for NULL. *)
event_register_listener(t) ==
    /\ pc[t] = "add"
    /\ LET idx == dict_get(arg[t])
           found == idx # -1 /\ ~dict_ref_isNull(idx)
       IN  /\ crashed' = (idx # -1 /\ dict_ref_isNull(idx))
           /\ listeners' = IF found THEN listeners \union {<<t, arg[t]>>} ELSE listeners
    /\ Goto(t, "unlock")
    /\ UNCHANGED <<mutex, waiting, capacity, queue, registered, handlerVars, callVars>>

UnlockAfterCall(t) ==
    /\ pc[t] = "unlock"
    /\ Release
    /\ Goto(t, "idle")
    /\ UNCHANGED <<waiting, capacity, queue, registryVars, handlerVars, callVars>>
-----------------------------------------------------------------------------
(* event_handle, in the main thread *)
handle_test ==
    /\ pc[Main] = "handle_test"
    /\ Goto(Main, IF running THEN "handle_lock" ELSE "handle_done")
    /\ UNCHANGED <<mutex, waiting, capacity, queue, registryVars, handlerVars, callVars>>

handle_lock ==
    /\ pc[Main] = "handle_lock"
    /\ Acquire(Main)
    /\ Goto(Main, "handle_check")
    /\ UNCHANGED <<waiting, capacity, queue, registryVars, handlerVars, callVars>>

(* pthread_cond_wait releases the mutex and goes to sleep in one step. *)
handle_check ==
    /\ pc[Main] = "handle_check"
    /\ \/ /\ queue = <<>>
          /\ Release
          /\ waiting' = TRUE
          /\ Goto(Main, "handle_wait")
       \/ /\ queue # <<>>
          /\ Goto(Main, "process")
          /\ UNCHANGED <<mutex, waiting>>
    /\ UNCHANGED <<capacity, queue, registryVars, handlerVars, callVars>>

SpuriousWakeup ==
    /\ waiting
    /\ waiting' = FALSE
    /\ UNCHANGED <<mutex, capacity, queue, registryVars, handlerVars, pc, callVars>>

(* The queue is not tested again: an empty one is processed as such. *)
handle_wakeup ==
    /\ pc[Main] = "handle_wait"
    /\ ~waiting
    /\ Acquire(Main)
    /\ Goto(Main, "process")
    /\ UNCHANGED <<waiting, capacity, queue, registryVars, handlerVars, callVars>>

(* One turn of the loop of process_event_queue: peek, look up, notify the  *)
(* listeners of the entry (a NULL entry is dereferenced), dequeue.  With   *)
(* idx = -1 the loop would spin on the same event, but the registry always *)
(* holds STOP.                                                             *)
process_event ==
    /\ pc[Main] = "process"
    /\ queue # <<>>
    /\ dict_get(Head(queue)) # -1
    /\ crashed' = dict_ref_isNull(dict_get(Head(queue)))
    /\ stopEvent' = (stopEvent \/ Head(queue) = STOP)
    /\ queue' = Tail(queue)
    /\ UNCHANGED <<mutex, waiting, capacity, registered, listeners, running, pc, callVars>>

process_return ==
    /\ pc[Main] = "process"
    /\ queue = <<>>
    /\ running' = ~stopEvent
    /\ stopEvent' = FALSE
    /\ Goto(Main, "handle_unlock")
    /\ UNCHANGED <<mutex, waiting, capacity, queue, registryVars, callVars>>

handle_unlock ==
    /\ pc[Main] = "handle_unlock"
    /\ Release
    /\ Goto(Main, "handle_test")
    /\ UNCHANGED <<waiting, capacity, queue, registryVars, handlerVars, callVars>>
-----------------------------------------------------------------------------
(* The steps of a call a thread has begun, and those of the event handler *)
CallStep(t) ==
    \/ LockForCall(t)
    \/ trigger_enqueue(t)
    \/ trigger_unlock(t)
    \/ trigger_signal(t)
    \/ event_register_event(t)
    \/ event_register_listener(t)
    \/ UnlockAfterCall(t)

HandlerStep ==
    \/ handle_test
    \/ handle_lock
    \/ handle_check
    \/ handle_wakeup
    \/ process_event
    \/ process_return
    \/ handle_unlock

Next ==
    /\ ~crashed
    /\ \/ \E t \in Threads, op \in Operations, code \in Codes : Call(t, op, code)
       \/ \E t \in Threads : CallStep(t)
       \/ HandlerStep
       \/ SpuriousWakeup

(* A thread keeps running once it called; whether it calls is its choice.  *)
(* A pthread mutex is not fair, but the callers make finitely many calls   *)
(* and spurious wakeups, which nothing can count on, do not go on forever. *)
Fairness ==
    /\ \A t \in Threads : WF_vars(~crashed /\ CallStep(t))
    /\ WF_vars(~crashed /\ HandlerStep)
    /\ <>[][~SpuriousWakeup]_vars

Spec == Init /\ [][Next]_vars
FairSpec == Spec /\ Fairness
-----------------------------------------------------------------------------
Labels ==
    Operations \union {"idle", "enqueue", "trigger_unlock", "signal", "put", "add", "unlock"}
HandlerLabels ==
    {"handle_test", "handle_lock", "handle_check", "handle_wait", "process",
     "handle_unlock", "handle_done"}

(* The type of the state; in particular the queue never holds more than its capacity. *)
TypeOK ==
    /\ mutex \in Threads \union {Main, NoThread}
    /\ waiting \in BOOLEAN
    /\ capacity = QueueCapacity
    /\ queue \in Seq(Codes) /\ Len(queue) <= capacity
    /\ registered \subseteq Codes /\ STOP \in registered
    /\ listeners \subseteq Threads \X Codes
    /\ running \in BOOLEAN /\ stopEvent \in BOOLEAN /\ crashed \in BOOLEAN
    /\ pc \in [Threads \union {Main} -> Labels \union HandlerLabels]
    /\ \A t \in Threads : pc[t] \in Labels
    /\ pc[Main] \in HandlerLabels
    /\ arg \in [Threads -> Codes]
    /\ calls \in [Threads -> 0 .. MaxCalls]

(* The steps that touch the queue or the registry run under ctx.mutex: the *)
(* owner of the mutex is the thread between its lock and its unlock.       *)
Critical == {"enqueue", "trigger_unlock", "put", "add", "unlock"}
HandlerCritical == {"handle_check", "process", "handle_unlock"}
MutexProtects ==
    /\ \A t \in Threads : pc[t] \in Critical <=> mutex = t
    /\ pc[Main] \in HandlerCritical <=> mutex = Main

(* No lost wakeup: while event_handle sleeps on a queue that is not empty, *)
(* a thread that triggered an event has yet to signal the condition        *)
(* variable, although it does so after it released the mutex.              *)
SleepCovered ==
    waiting /\ queue # <<>> => \E t \in Threads : pc[t] \in {"trigger_unlock", "signal"}

IsQueued(code) == \E i \in 1 .. Len(queue) : queue[i] = code

(* Once a STOP is in the queue the main thread leaves event_handle, unless *)
(* another event in the queue crashes the process.                         *)
StopEndsHandler == IsQueued(STOP) ~> pc[Main] = "handle_done" \/ crashed

=============================================================================
