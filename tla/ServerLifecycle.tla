-------------------------- MODULE ServerLifecycle --------------------------
(***************************************************************************)
(* The life of the server process, from main to its exit: the main thread  *)
(* (src/src/main.c) starts the sub-systems, runs event_handle and cleans   *)
(* up; the signal thread (signal-handler.c) turns the first SIGINT or      *)
(* SIGTERM into a STOP event; the network thread (network_linux.c) runs    *)
(* until its eventfd is written.  The steps on the event queue are those   *)
(* of EventSystem, with main's own program counter around event_handle.    *)
(*                                                                         *)
(* A signal that arrives before platform_init kills the process and is     *)
(* left out.  What the network thread does for its connections is in       *)
(* ConnectionIO; here it only runs and stops.                              *)
(***************************************************************************)
EXTENDS EventSystem

CONSTANTS SignalThread, (* the thread of signal_system_init                  *)
          Signals,      (* SIGINT and SIGTERM                                *)
          SignalFrom    (* the program counters of Main at which a signal    *)
                        (* may arrive                                        *)

ASSUME LifecycleAssumption == Threads = {SignalThread} /\ Codes = {STOP}

VARIABLES pending,    (* the blocked signals waiting for sigwaitinfo         *)
          taken,      (* the signals handle_signals has taken                *)
          network,    (* the network thread: none, polling, finishing, done  *)
          eventfd,    (* platform_ctx.eventfd was written                    *)
          mutexState, (* ctx.mutex: zero, live or destroyed                  *)
          condState   (* ctx.cond_var: zero, live or destroyed               *)

signalVars == <<pending, taken>>
platformVars == <<signalVars, network, eventfd>>
syncVars == <<mutexState, condState>>
allVars == <<vars, platformVars, syncVars>>

(* The program counters of Main after event_handle *)
StopLabels ==
    {"network_stop", "network_join", "registry_cleanup", "event_cleanup", "mutex_destroy",
     "cond_destroy", "signal_join"}

(* A step of Main that changes nothing of the event sub-system *)
MainGoes(from, to) ==
    /\ pc[Main] = from
    /\ Goto(Main, to)
    /\ UNCHANGED <<mutex, waiting, capacity, queue, registryVars, handlerVars, callVars>>

(* The static EventContext is zeroed: a queue of no slots, a dictionary    *)
(* without a key, a mutex and a condition variable that work unattended.   *)
LifeInit ==
    /\ mutex = NoThread /\ waiting = FALSE
    /\ capacity = 0 /\ queue = <<>>
    /\ registered = {} /\ listeners = {}
    /\ running = FALSE /\ stopEvent = FALSE /\ crashed = FALSE
    /\ pc = [t \in Threads \union {Main} |-> IF t = Main THEN "platform_init" ELSE "unborn"]
    /\ arg = [t \in Threads |-> STOP]
    /\ calls = [t \in Threads |-> 0]
    /\ pending = {} /\ taken = {}
    /\ network = "none" /\ eventfd = FALSE
    /\ mutexState = "zero" /\ condState = "zero"
-----------------------------------------------------------------------------
(* main.c: init.  platform_init blocks the signals and starts the signal   *)
(* thread, before event_system_init has set up what that thread calls.     *)
platform_init ==
    /\ pc[Main] = "platform_init"
    /\ pc' = [pc EXCEPT ![Main] = "queue_init", ![SignalThread] = "sigwaitinfo"]
    /\ UNCHANGED <<mutex, waiting, capacity, queue, registryVars, handlerVars, callVars,
                   platformVars, syncVars>>

(* event_system_init, one step per piece of the context it sets: the queue, *)
(* the mutex, the condition variable, the registry, ctx.running             *)
event_init_queue ==
    /\ pc[Main] = "queue_init"
    /\ capacity' = QueueCapacity
    /\ queue' = <<>>
    /\ Goto(Main, "mutex_init")
    /\ UNCHANGED <<mutex, waiting, registryVars, handlerVars, callVars, platformVars, syncVars>>

(* Mutant: pthread_mutex_init is missing. *)
event_init_mutex_Missing ==
    /\ pc[Main] = "mutex_init"
    /\ Goto(Main, "cond_init")
    /\ UNCHANGED <<mutex, waiting, capacity, queue, registryVars, handlerVars, callVars,
                   platformVars, syncVars>>

event_init_mutex ==
    /\ pc[Main] = "mutex_init"
    /\ Release
    /\ mutexState' = "live"
    /\ Goto(Main, "cond_init")
    /\ UNCHANGED <<waiting, capacity, queue, registryVars, handlerVars, callVars,
                   platformVars, condState>>

event_init_cond ==
    /\ pc[Main] = "cond_init"
    /\ condState' = "live"
    /\ Goto(Main, "register_builtin")
    /\ UNCHANGED <<mutex, waiting, capacity, queue, registryVars, handlerVars, callVars,
                   platformVars, mutexState>>

(* register_builtin_events: lock, dict_put in the empty registry, unlock *)
register_builtin_events ==
    /\ pc[Main] = "register_builtin"
    /\ mutex = NoThread
    /\ registered' = registered \union {STOP}
    /\ Goto(Main, "set_running")
    /\ UNCHANGED <<mutex, waiting, capacity, queue, listeners, crashed, handlerVars, callVars,
                   platformVars, syncVars>>

(* Mutant: ctx.running is left at zero. *)
event_init_running_Missing ==
    /\ MainGoes("set_running", "network_init")
    /\ UNCHANGED <<platformVars, syncVars>>

event_init_running ==
    /\ pc[Main] = "set_running"
    /\ running' = TRUE
    /\ Goto(Main, "network_init")
    /\ UNCHANGED <<mutex, waiting, capacity, queue, registryVars, stopEvent, callVars,
                   platformVars, syncVars>>

(* registry_system_init and network_init, which fails when a socket, the   *)
(* epoll instance or the keys can not be had: main then returns at once.   *)
network_init ==
    /\ pc[Main] = "network_init"
    /\ \/ Goto(Main, "handle_test") /\ network' = "polling"
       \/ Goto(Main, "exited") /\ UNCHANGED network
    /\ UNCHANGED <<mutex, waiting, capacity, queue, registryVars, handlerVars, callVars,
                   signalVars, eventfd, syncVars>>
-----------------------------------------------------------------------------
(* main.c: cleanup, entered when event_handle returns *)
cleanup_begin == MainGoes("handle_done", "network_stop") /\ UNCHANGED <<platformVars, syncVars>>

(* platform_network_stop, then mcthread_join *)
network_stop ==
    /\ MainGoes("network_stop", "network_join")
    /\ eventfd' = TRUE
    /\ UNCHANGED <<signalVars, network, syncVars>>

network_join ==
    /\ network = "done"
    /\ MainGoes("network_join", "registry_cleanup")
    /\ UNCHANGED <<platformVars, syncVars>>

registry_system_cleanup ==
    /\ MainGoes("registry_cleanup", "event_cleanup")
    /\ UNCHANGED <<platformVars, syncVars>>

(* event_system_cleanup: broadcast_stop_event finds no listener, and the   *)
(* arena of the queue and the registry is destroyed without the mutex.     *)
event_cleanup_arena ==
    /\ MainGoes("event_cleanup", "mutex_destroy")
    /\ UNCHANGED <<platformVars, syncVars>>

event_cleanup_mutex ==
    /\ MainGoes("mutex_destroy", "cond_destroy")
    /\ mutexState' = "destroyed"
    /\ UNCHANGED <<platformVars, condState>>

event_cleanup_cond ==
    /\ MainGoes("cond_destroy", "signal_join")
    /\ condState' = "destroyed"
    /\ UNCHANGED <<platformVars, mutexState>>

(* platform_cleanup joins the signal thread, the last thing that is done. *)
signal_system_cleanup ==
    /\ pc[SignalThread] = "idle"
    /\ MainGoes("signal_join", "exited")
    /\ UNCHANGED <<platformVars, syncVars>>
-----------------------------------------------------------------------------
(* The environment sends a SIGINT or a SIGTERM. *)
SendSignal(signal) ==
    /\ signal \notin pending \union taken
    /\ pc[Main] \in SignalFrom
    /\ pending' = pending \union {signal}
    /\ UNCHANGED <<vars, taken, network, eventfd, syncVars>>

(* handle_signals: the thread triggers STOP for the first signal it gets,  *)
(* and is then over ("idle"); later signals stay pending for ever.         *)
handle_signals(signal) ==
    /\ pc[SignalThread] = "sigwaitinfo"
    /\ signal \in pending
    /\ pending' = pending \ {signal}
    /\ taken' = taken \union {signal}
    /\ Goto(SignalThread, "trigger_lock")
    /\ UNCHANGED <<mutex, waiting, capacity, queue, registryVars, handlerVars, callVars,
                   network, eventfd, syncVars>>

(* network_handle leaves its loop for the eventfd only; network_finish     *)
(* closes the connections, the descriptors and the arena of the network.   *)
network_handle ==
    /\ network = "polling"
    /\ eventfd
    /\ network' = "finishing"
    /\ UNCHANGED <<vars, signalVars, eventfd, syncVars>>

network_finish ==
    /\ network = "finishing"
    /\ network' = "done"
    /\ UNCHANGED <<vars, signalVars, eventfd, syncVars>>
-----------------------------------------------------------------------------
MainStep ==
    \/ platform_init
    \/ event_init_queue
    \/ event_init_mutex
    \/ event_init_cond
    \/ register_builtin_events
    \/ event_init_running
    \/ network_init
    \/ HandlerStep /\ UNCHANGED <<platformVars, syncVars>>
    \/ cleanup_begin
    \/ network_stop
    \/ network_join
    \/ registry_system_cleanup
    \/ event_cleanup_arena
    \/ event_cleanup_mutex
    \/ event_cleanup_cond
    \/ signal_system_cleanup

(* The steps of event_trigger in the signal thread *)
TriggerStep ==
    /\ \/ LockForCall(SignalThread)
       \/ trigger_enqueue(SignalThread)
       \/ trigger_unlock(SignalThread)
       \/ trigger_signal(SignalThread)
    /\ UNCHANGED <<platformVars, syncVars>>

SignalStep == (\E signal \in Signals : handle_signals(signal)) \/ TriggerStep
NetworkStep == network_handle \/ network_finish

(* When main returns, the process and its threads are gone. *)
Alive == pc[Main] # "exited" /\ ~crashed

LifeNext ==
    /\ Alive
    /\ \/ MainStep
       \/ SignalStep
       \/ NetworkStep
       \/ \E signal \in Signals : SendSignal(signal)
       \/ SpuriousWakeup /\ UNCHANGED <<platformVars, syncVars>>

(* The three threads keep running; nobody has to send a signal. *)
LifeFairness ==
    /\ WF_allVars(Alive /\ MainStep)
    /\ WF_allVars(Alive /\ SignalStep)
    /\ WF_allVars(Alive /\ NetworkStep)
    /\ <>[][~SpuriousWakeup]_allVars

LifeSpec == LifeInit /\ [][LifeNext]_allVars
LifeFairSpec == LifeSpec /\ LifeFairness
-----------------------------------------------------------------------------
(* Main leaves event_handle because of a signal and of nothing else:       *)
(* neither a spurious wakeup nor an empty queue stops the server.          *)
StopsOnlyForSignal == pc[Main] \in StopLabels => taken # {}

(* ctx.mutex is locked and unlocked between its init and its destroy only: *)
(* the signal thread has unlocked it when the STOP it triggered ends the   *)
(* server, so that none is destroyed that is locked.                       *)
MutexUsedWhileLive == [][mutex' # mutex => mutexState = "live"]_allVars

(* todo.org:14: "FIXED Properly handle termination signals (SIGINT)": a    *)
(* signal ends the process.                                                *)
SignalStopsServer == pending # {} ~> pc[Main] = "exited"
=============================================================================
