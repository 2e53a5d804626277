------------------------ MODULE ServerLifecycleProofs ------------------------
(***************************************************************************)
(* What holds of EventSystem for any number of threads, any set of codes   *)
(* and any capacity of the queue: the queue and the registry are touched   *)
(* under the mutex only, no wakeup of event_handle is lost although the    *)
(* condition is signalled outside of the mutex, and a STOP that was read   *)
(* from the queue ends event_handle.                                       *)
(*                                                                         *)
(* Then of ServerLifecycle for any set of signals and any capacity of the  *)
(* queue, when no signal comes before the event system is up: the server   *)
(* stops for a signal only, and the mutex of the event system is taken     *)
(* between its init and its destroy only.                                  *)
(***************************************************************************)
EXTENDS ServerLifecycle, TLAPS

(* SleepCovered is inductive on its own: Main falls asleep with the mutex  *)
(* and an empty queue, and whoever fills it has a signal to give.  That    *)
(* stop_event survives needs Main to be the only thread in "process".      *)
EventInv == TypeOK /\ MutexProtects /\ SleepCovered

LEMMA InitEventInv == Init => EventInv
<1> SUFFICES ASSUME Init PROVE EventInv
  OBVIOUS
<1> USE EventAssumption DEF Init, InitializedQueue
<1>1. pc \in [Threads \union {Main} -> Labels \union HandlerLabels]
  BY DEF Labels, HandlerLabels
<1>2. /\ \A t \in Threads : pc[t] = "idle"
      /\ pc[Main] = "handle_test"
  OBVIOUS
<1>3. queue \in Seq(Codes) /\ Len(queue) <= capacity
  OBVIOUS
<1>4. arg \in [Threads -> Codes] /\ calls \in [Threads -> 0 .. MaxCalls]
  OBVIOUS
<1>5. TypeOK
  BY <1>1, <1>2, <1>3, <1>4 DEF TypeOK, Labels, HandlerLabels
<1>6. MutexProtects
  BY <1>2 DEF MutexProtects, Critical, HandlerCritical
<1>7. SleepCovered
  BY DEF SleepCovered
<1>8. QED BY <1>5, <1>6, <1>7 DEF EventInv

(* Every step of a call is made by a thread other than Main, which it      *)
(* leaves where it is.                                                     *)
LEMMA CallType ==
  ASSUME NEW t \in Threads, NEW op \in Operations, NEW code \in Codes,
         EventInv, Call(t, op, code)
  PROVE  EventInv'
  BY EventAssumption
  DEF EventInv, TypeOK, MutexProtects, SleepCovered, Call, Goto, Labels, HandlerLabels, Operations,
      Critical, HandlerCritical, registryVars, handlerVars

LEMMA EnqueueType ==
  ASSUME NEW code \in Codes, queue \in Seq(Codes), Len(queue) <= capacity, capacity \in Nat
  PROVE  /\ Fifo!Enqueued(queue, code, capacity) \in Seq(Codes)
         /\ Len(Fifo!Enqueued(queue, code, capacity)) <= capacity
  BY DEF Fifo!Enqueued

LEMMA CallStepEventInv ==
  ASSUME NEW t \in Threads, EventInv, CallStep(t)
  PROVE  EventInv'
<1> USE EventAssumption
    DEF EventInv, TypeOK, MutexProtects, SleepCovered, Goto, Labels, HandlerLabels, Operations,
        Critical, HandlerCritical, registryVars, handlerVars, callVars
<1>1. CASE LockForCall(t)
  BY <1>1 DEF LockForCall, Acquire, AfterLock
<1>2. CASE trigger_enqueue(t)
  BY <1>2, EnqueueType DEF trigger_enqueue
<1>3. CASE trigger_unlock(t)
  BY <1>3 DEF trigger_unlock, Release
<1>4. CASE trigger_signal(t)
  BY <1>4 DEF trigger_signal
<1>5. CASE event_register_event(t)
  BY <1>5 DEF event_register_event
<1>6. CASE event_register_listener(t)
  BY <1>6 DEF event_register_listener
<1>7. CASE UnlockAfterCall(t)
  BY <1>7 DEF UnlockAfterCall, Release
<1>8. QED
  BY <1>1, <1>2, <1>3, <1>4, <1>5, <1>6, <1>7 DEF CallStep

LEMMA HandlerStepEventInv ==
  ASSUME EventInv, HandlerStep
  PROVE  EventInv'
<1> USE EventAssumption
    DEF EventInv, TypeOK, MutexProtects, SleepCovered, Goto, Labels, HandlerLabels, Operations,
        Critical, HandlerCritical, registryVars, handlerVars, callVars
<1>1. CASE handle_test
  BY <1>1 DEF handle_test
<1>2. CASE handle_lock
  BY <1>2 DEF handle_lock, Acquire
<1>3. CASE handle_check
  <2>1. CASE queue = <<>>
    <3>1. /\ pc' = [pc EXCEPT ![Main] = "handle_wait"] /\ pc[Main] = "handle_check"
          /\ mutex' = NoThread /\ waiting' = TRUE
      BY <1>3, <2>1 DEF handle_check, Release
    <3>2. TypeOK'
      BY <1>3, <3>1 DEF handle_check
    <3>3. MutexProtects'
      BY <3>1
    <3>4. SleepCovered'
      BY <1>3, <2>1 DEF handle_check
    <3>5. QED BY <3>2, <3>3, <3>4
  <2>2. CASE queue # <<>>
    BY <1>3, <2>2 DEF handle_check
  <2>3. QED BY <2>1, <2>2
<1>4. CASE handle_wakeup
  BY <1>4 DEF handle_wakeup, Acquire
<1>5. CASE process_event
  <2>1. Tail(queue) \in Seq(Codes) /\ Len(Tail(queue)) <= capacity
    BY <1>5 DEF process_event
  <2>2. TypeOK'
    BY <1>5, <2>1 DEF process_event, dict_ref_isNull
  <2>3. ~waiting' \/ \E t \in Threads : pc[t] \in {"trigger_unlock", "signal"}
    BY <1>5 DEF process_event
  <2>4. MutexProtects' /\ SleepCovered'
    BY <1>5, <2>3 DEF process_event
  <2>5. QED BY <2>2, <2>4
<1>6. CASE process_return
  BY <1>6 DEF process_return
<1>7. CASE handle_unlock
  BY <1>7 DEF handle_unlock, Release
<1>8. QED
  BY <1>1, <1>2, <1>3, <1>4, <1>5, <1>6, <1>7 DEF HandlerStep

LEMMA NextEventInv == EventInv /\ [Next]_vars => EventInv'
<1> SUFFICES ASSUME EventInv, [Next]_vars PROVE EventInv'
  OBVIOUS
<1>1. CASE SpuriousWakeup
  BY <1>1 DEF SpuriousWakeup, EventInv, TypeOK, MutexProtects, SleepCovered, registryVars,
              handlerVars, callVars
<1>2. CASE UNCHANGED vars
  BY <1>2 DEF vars, EventInv, TypeOK, MutexProtects, SleepCovered, registryVars, handlerVars,
              callVars
<1>3. QED
  BY <1>1, <1>2, CallType, CallStepEventInv, HandlerStepEventInv DEF Next

LEMMA EventInvHolds == Spec => []EventInv
  BY InitEventInv, NextEventInv, PTL DEF Spec

(* TypeOK, with the bound on the queue. *)
THEOREM TypeCorrect == Spec => []TypeOK
<1>1. EventInv => TypeOK
  BY DEF EventInv
<1>2. QED BY <1>1, EventInvHolds, PTL

(* MutexProtects: whatever the threads do, a thread that touches the queue *)
(* or the registry owns ctx.mutex, so it is alone.                         *)
THEOREM MutexDiscipline == Spec => []MutexProtects
<1>1. EventInv => MutexProtects
  BY DEF EventInv
<1>2. QED BY <1>1, EventInvHolds, PTL

(* SleepCovered: signalling after the unlock loses no wakeup.              *)
THEOREM NoLostWakeup == Spec => []SleepCovered
<1>1. EventInv => SleepCovered
  BY DEF EventInv
<1>2. QED BY <1>1, EventInvHolds, PTL
-----------------------------------------------------------------------------
(* Where Main is before the event system is up.  A signal then finds the   *)
(* context unset: the theorems are about those that come later.            *)
StartLabels ==
    {"platform_init", "queue_init", "mutex_init", "cond_init", "register_builtin", "set_running"}
MainLabels == StartLabels \union {"network_init", "exited"} \union HandlerLabels \union StopLabels

(* The signal thread before and after it has enqueued its one STOP         *)
Unsent == {"unborn", "sigwaitinfo", "trigger_lock", "enqueue"}
Sent == {"trigger_unlock", "signal", "idle"}

TypeInv ==
    /\ pc \in [Threads \union {Main} -> MainLabels \union Unsent \union Sent]
    /\ pc[Main] \in MainLabels
    /\ pc[SignalThread] \in Unsent \union Sent

SignalInv ==
    /\ pc[Main] \in StartLabels => pending = {} /\ taken = {}
    /\ taken = {} <=> pc[SignalThread] \in {"unborn", "sigwaitinfo"}

(* Until the STOP is in the queue, and the queue is not locked any more,   *)
(* nothing tells event_handle to return.                                   *)
StopInv ==
    /\ pc[SignalThread] \in Unsent => queue = <<>>
    /\ pc[SignalThread] \in Unsent \union {"trigger_unlock"} =>
           /\ stopEvent = FALSE
           /\ pc[Main] \notin StopLabels \union {"handle_done"}
           /\ pc[Main] \in HandlerLabels \union {"network_init"} => running = TRUE

(* Who holds ctx.mutex                                                     *)
LockInv ==
    /\ mutex \in {NoThread, Main, SignalThread}
    /\ pc[SignalThread] \in {"enqueue", "trigger_unlock"} <=> mutex = SignalThread
    /\ pc[Main] \in HandlerCritical <=> mutex = Main

MutexLive == MainLabels \ {"platform_init", "queue_init", "mutex_init", "cond_destroy",
                           "signal_join", "exited"}
MutexInv == pc[Main] \in MutexLive => mutexState = "live"

IInv == TypeInv /\ SignalInv /\ StopInv /\ MutexInv /\ LockInv

LEMMA TwoThreads ==
  /\ Main # SignalThread /\ Threads \union {Main} = {SignalThread, Main}
  /\ NoThread # Main /\ NoThread # SignalThread
  BY EventAssumption, LifecycleAssumption

LEMMA InitIInv == LifeInit => IInv
<1> SUFFICES ASSUME LifeInit PROVE IInv
  OBVIOUS
<1>1. pc[Main] = "platform_init" /\ pc[SignalThread] = "unborn"
  BY TwoThreads DEF LifeInit
<1>2. TypeInv
  BY <1>1 DEF LifeInit, TypeInv, MainLabels, StartLabels, Unsent
<1>3. SignalInv /\ StopInv /\ MutexInv
  BY <1>1 DEF LifeInit, SignalInv, StopInv, MutexInv, MutexLive, StartLabels, HandlerLabels,
              StopLabels
<1>4. LockInv
  BY <1>1, TwoThreads DEF LifeInit, LockInv, HandlerCritical
<1>5. QED BY <1>2, <1>3, <1>4 DEF IInv

(* A step of the main thread leaves the signal thread where it is.         *)
LEMMA MainMoves ==
  ASSUME TypeInv, NEW to \in MainLabels, Goto(Main, to)
  PROVE  TypeInv' /\ pc'[Main] = to /\ pc'[SignalThread] = pc[SignalThread]
  BY TwoThreads DEF TypeInv, Goto

LEMMA SignalMoves ==
  ASSUME TypeInv, NEW to \in Unsent \union Sent, Goto(SignalThread, to)
  PROVE  TypeInv' /\ pc'[SignalThread] = to /\ pc'[Main] = pc[Main]
  BY TwoThreads DEF TypeInv, Goto

(* A thread that neither locks nor unlocks                                 *)
LEMMA LockKept ==
  ASSUME LockInv, mutex' = mutex,
         pc'[SignalThread] \in {"enqueue", "trigger_unlock"} <=>
             pc[SignalThread] \in {"enqueue", "trigger_unlock"},
         pc'[Main] \in HandlerCritical <=> pc[Main] \in HandlerCritical
  PROVE  LockInv'
  BY DEF LockInv
-----------------------------------------------------------------------------
LEMMA StartIInv ==
  ASSUME IInv,
         \/ platform_init \/ event_init_queue \/ event_init_mutex \/ event_init_cond
         \/ register_builtin_events \/ event_init_running \/ network_init
  PROVE  IInv'
<1>1. pc[Main] \in StartLabels \union {"network_init"} /\ pc[Main] \notin HandlerCritical
  BY DEF platform_init, event_init_queue, event_init_mutex, event_init_cond,
         register_builtin_events, event_init_running, network_init, StartLabels, HandlerCritical
<1>2. /\ TypeInv'
      /\ \/ /\ pc[Main] = "platform_init" /\ pc'[Main] = "queue_init"
            /\ pc'[SignalThread] = "sigwaitinfo"
         \/ /\ pc'[SignalThread] = pc[SignalThread]
            /\ \/ pc[Main] = "queue_init" /\ pc'[Main] = "mutex_init" /\ queue' = <<>>
               \/ pc[Main] = "mutex_init" /\ pc'[Main] = "cond_init" /\ mutexState' = "live"
               \/ pc[Main] = "cond_init" /\ pc'[Main] = "register_builtin"
               \/ pc[Main] = "register_builtin" /\ pc'[Main] = "set_running"
               \/ pc[Main] = "set_running" /\ pc'[Main] = "network_init" /\ running' = TRUE
               \/ pc[Main] = "network_init" /\ pc'[Main] \in {"handle_test", "exited"}
  <2>1. CASE platform_init
    <3>1. TypeInv'
      BY <2>1, TwoThreads
      DEF platform_init, IInv, TypeInv, MainLabels, StartLabels, Unsent
    <3>2. QED BY <2>1, <3>1, TwoThreads DEF platform_init, IInv, TypeInv
  <2>2. CASE event_init_queue
    BY <2>2, MainMoves DEF event_init_queue, IInv, MainLabels, StartLabels
  <2>3. CASE event_init_mutex
    BY <2>3, MainMoves DEF event_init_mutex, IInv, MainLabels, StartLabels
  <2>4. CASE event_init_cond
    BY <2>4, MainMoves DEF event_init_cond, IInv, MainLabels, StartLabels
  <2>5. CASE register_builtin_events
    BY <2>5, MainMoves DEF register_builtin_events, IInv, MainLabels, StartLabels
  <2>6. CASE event_init_running
    BY <2>6, MainMoves DEF event_init_running, IInv, MainLabels, StartLabels
  <2>7. CASE network_init
    BY <2>7, MainMoves DEF network_init, IInv, MainLabels, HandlerLabels
  <2>8. QED BY <2>1, <2>2, <2>3, <2>4, <2>5, <2>6, <2>7
<1>3. /\ UNCHANGED <<stopEvent, pending, taken>>
      /\ queue' \in {queue, <<>>}
      /\ running' = running \/ pc[Main] = "set_running"
      /\ mutex' = mutex \/ mutex' = NoThread
      /\ mutexState' = mutexState \/ mutexState' = "live"
  BY DEF platform_init, event_init_queue, event_init_mutex, event_init_cond,
         register_builtin_events, event_init_running, network_init, Release, handlerVars,
         platformVars, signalVars, syncVars
<1>4. pc[Main] \in StartLabels => /\ pc[SignalThread] \in {"unborn", "sigwaitinfo"}
                                  /\ pending = {} /\ taken = {}
  BY DEF IInv, SignalInv
<1>5. mutex' = mutex
  <2>1. CASE event_init_mutex
    BY <1>1, <1>4, <2>1 DEF event_init_mutex, Release, IInv, LockInv, StartLabels
  <2>2. QED
    BY <2>1 DEF platform_init, event_init_queue, event_init_cond, register_builtin_events,
                event_init_running, network_init
<1>6. SignalInv'
  BY <1>1, <1>2, <1>3, <1>4 DEF IInv, SignalInv, StartLabels
<1>7. StopInv'
  BY <1>1, <1>2, <1>3, <1>4
  DEF IInv, StopInv, StartLabels, HandlerLabels, StopLabels, Unsent
<1>8. MutexInv'
  BY <1>1, <1>2, <1>3
  DEF IInv, MutexInv, MutexLive, MainLabels, StartLabels, HandlerLabels, StopLabels
<1>9. LockInv'
  BY <1>1, <1>2, <1>4, <1>5, LockKept DEF IInv, HandlerCritical, StartLabels
<1>10. QED BY <1>2, <1>6, <1>7, <1>8, <1>9 DEF IInv

LEMMA HandlerIInv ==
  ASSUME IInv, HandlerStep, UNCHANGED <<platformVars, syncVars>>
  PROVE  IInv'
<1>1. UNCHANGED <<pending, taken, mutexState>>
  BY DEF platformVars, signalVars, syncVars
<1>2. pc'[SignalThread] = pc[SignalThread] /\ TypeInv'
      /\ pc[Main] \in HandlerLabels \ {"handle_done"} /\ pc'[Main] \in HandlerLabels
  <2>1. CASE process_event
    BY <2>1 DEF process_event, IInv, TypeInv, HandlerLabels
  <2>2. CASE process_return
    BY <2>2, MainMoves DEF process_return, IInv, MainLabels, HandlerLabels
  <2>3. CASE handle_check
    BY <2>3, MainMoves DEF handle_check, IInv, MainLabels, HandlerLabels
  <2>4. CASE handle_test
    BY <2>4, MainMoves DEF handle_test, IInv, MainLabels, HandlerLabels
  <2>5. CASE handle_lock \/ handle_wakeup \/ handle_unlock
    BY <2>5, MainMoves DEF handle_lock, handle_wakeup, handle_unlock, IInv, MainLabels,
                           HandlerLabels
  <2>6. QED BY <2>1, <2>2, <2>3, <2>4, <2>5 DEF HandlerStep
<1>3. SignalInv' /\ MutexInv'
  BY <1>1, <1>2 DEF IInv, SignalInv, MutexInv, MutexLive, MainLabels, StartLabels, HandlerLabels,
                    StopLabels
<1>4. LockInv'
  <2> USE TwoThreads DEF IInv, LockInv, HandlerCritical
  <2>1. CASE handle_test
    BY <1>2, <2>1, MainMoves, LockKept DEF handle_test, MainLabels, HandlerLabels
  <2>2. CASE handle_lock
    BY <1>2, <2>2, MainMoves DEF handle_lock, Acquire, MainLabels, HandlerLabels
  <2>3. CASE handle_check
    BY <1>2, <2>3, MainMoves DEF handle_check, Release, MainLabels, HandlerLabels
  <2>4. CASE handle_wakeup
    BY <1>2, <2>4, MainMoves DEF handle_wakeup, Acquire, MainLabels, HandlerLabels
  <2>5. CASE process_event
    BY <2>5 DEF process_event
  <2>6. CASE process_return
    BY <1>2, <2>6, MainMoves, LockKept DEF process_return, MainLabels, HandlerLabels
  <2>7. CASE handle_unlock
    BY <1>2, <2>7, MainMoves DEF handle_unlock, Release, MainLabels, HandlerLabels
  <2>8. QED BY <2>1, <2>2, <2>3, <2>4, <2>5, <2>6, <2>7 DEF HandlerStep
<1>5. StopInv'
  <2> SUFFICES ASSUME pc[SignalThread] \in Unsent \union {"trigger_unlock"}
               PROVE  /\ pc[SignalThread] \in Unsent => queue' = <<>>
                      /\ stopEvent' = FALSE /\ running' = TRUE
                      /\ pc'[Main] # "handle_done"
    BY <1>2 DEF StopInv, HandlerLabels, StopLabels
  <2>1. /\ pc[SignalThread] \in Unsent => queue = <<>>
        /\ stopEvent = FALSE /\ running = TRUE
    BY <1>2 DEF IInv, StopInv
  <2>2. CASE handle_test
    BY <2>1, <2>2, MainMoves
    DEF handle_test, handlerVars, IInv, MainLabels, HandlerLabels
  <2>3. CASE process_event
    <3>1. mutex = Main /\ queue # <<>>
      BY <2>3 DEF process_event, IInv, LockInv, HandlerCritical
    <3>2. pc[SignalThread] = "trigger_unlock"
      BY <2>1, <3>1
    <3>3. mutex = SignalThread
      BY <3>2 DEF IInv, LockInv
    <3>4. QED BY <3>1, <3>3, TwoThreads
  <2>4. CASE process_return
    <3>1. pc'[Main] = "handle_unlock"
      BY <2>4, MainMoves DEF process_return, IInv, MainLabels, HandlerLabels
    <3>2. running' = ~stopEvent /\ stopEvent' = FALSE /\ queue' = queue
      BY <2>4 DEF process_return
    <3>3. running' = TRUE
      BY <2>1, <3>2, Zenon
    <3>4. QED BY <2>1, <3>1, <3>2, <3>3
  <2>5. CASE handle_lock \/ handle_check \/ handle_wakeup \/ handle_unlock
    <3>1. UNCHANGED <<queue, stopEvent, running>>
      BY <2>5 DEF handle_lock, handle_check, handle_wakeup, handle_unlock, handlerVars
    <3>2. pc'[Main] # "handle_done"
      BY <2>5, MainMoves DEF handle_lock, handle_check, handle_wakeup, handle_unlock, IInv,
                             MainLabels, HandlerLabels
    <3>3. QED BY <2>1, <3>1, <3>2
  <2>6. QED BY <2>2, <2>3, <2>4, <2>5 DEF HandlerStep
<1>6. QED BY <1>2, <1>3, <1>4, <1>5 DEF IInv

LEMMA CleanupIInv ==
  ASSUME IInv,
         \/ cleanup_begin \/ network_stop \/ network_join \/ registry_system_cleanup
         \/ event_cleanup_arena \/ event_cleanup_mutex \/ event_cleanup_cond
         \/ signal_system_cleanup
  PROVE  IInv'
<1>1. PICK from \in StopLabels \union {"handle_done"}, to \in StopLabels \union {"exited"} :
        /\ MainGoes(from, to)
        /\ to \in MutexLive => UNCHANGED mutexState /\ from \in MutexLive
        /\ UNCHANGED <<pending, taken>>
  BY DEF cleanup_begin, network_stop, network_join, registry_system_cleanup, event_cleanup_arena,
         event_cleanup_mutex, event_cleanup_cond, signal_system_cleanup, StopLabels, MutexLive,
         MainLabels, HandlerLabels, StartLabels, platformVars, signalVars, syncVars
<1>2. /\ pc[Main] = from /\ pc'[Main] = to /\ pc'[SignalThread] = pc[SignalThread] /\ TypeInv'
      /\ UNCHANGED <<mutex, queue, running, stopEvent>>
  BY <1>1, MainMoves DEF MainGoes, IInv, MainLabels, handlerVars
<1>3. pc[SignalThread] \notin Unsent \union {"trigger_unlock"}
  BY <1>2 DEF IInv, StopInv
<1>4. LockInv'
  BY <1>2, LockKept DEF IInv, HandlerCritical, StopLabels
<1>5. QED
  BY <1>1, <1>2, <1>3, <1>4 DEF IInv, SignalInv, StopInv, MutexInv, StartLabels, StopLabels

LEMMA SignalStepIInv ==
  ASSUME IInv, SignalStep
  PROVE  IInv'
<1> USE DEF IInv, SignalInv, StopInv, MutexInv, Unsent, Sent, registryVars, handlerVars,
            platformVars, signalVars, syncVars
<1>1. ASSUME NEW signal \in Signals, handle_signals(signal)
      PROVE  IInv'
  <2>1. pc'[SignalThread] = "trigger_lock" /\ pc'[Main] = pc[Main] /\ TypeInv'
    BY <1>1, SignalMoves DEF handle_signals
  <2>2. pc[Main] \notin StartLabels /\ taken' # {} /\ pc[SignalThread] = "sigwaitinfo"
    BY <1>1 DEF handle_signals
  <2>3. UNCHANGED <<mutex, queue, running, stopEvent, mutexState>>
    BY <1>1 DEF handle_signals
  <2>4. LockInv'
    BY <2>1, <2>2, <2>3, LockKept
  <2>5. QED BY <2>1, <2>2, <2>3, <2>4
<1>2. CASE LockForCall(SignalThread) /\ UNCHANGED <<platformVars, syncVars>>
  <2>1. pc[SignalThread] = "trigger_lock" /\ Goto(SignalThread, "enqueue")
    BY <1>2 DEF LockForCall, AfterLock, Operations, TypeInv
  <2>2. pc'[SignalThread] = "enqueue" /\ pc'[Main] = pc[Main] /\ TypeInv'
    BY <2>1, SignalMoves
  <2>3. LockInv'
    BY <1>2, <2>2, TwoThreads DEF LockForCall, Acquire, LockInv
  <2>4. QED BY <1>2, <2>1, <2>2, <2>3 DEF LockForCall
<1>3. CASE trigger_enqueue(SignalThread) /\ UNCHANGED <<platformVars, syncVars>>
  <2>1. pc'[SignalThread] = "trigger_unlock" /\ pc'[Main] = pc[Main] /\ TypeInv'
    BY <1>3, SignalMoves DEF trigger_enqueue
  <2>2. LockInv'
    BY <1>3, <2>1, LockKept DEF trigger_enqueue
  <2>3. QED BY <1>3, <2>1, <2>2 DEF trigger_enqueue
<1>4. CASE trigger_unlock(SignalThread) /\ UNCHANGED <<platformVars, syncVars>>
  <2>1. pc'[SignalThread] = "signal" /\ pc'[Main] = pc[Main] /\ TypeInv'
    BY <1>4, SignalMoves DEF trigger_unlock
  <2>2. LockInv'
    BY <1>4, <2>1, TwoThreads DEF trigger_unlock, Release, LockInv
  <2>3. QED BY <1>4, <2>1, <2>2 DEF trigger_unlock
<1>5. CASE trigger_signal(SignalThread) /\ UNCHANGED <<platformVars, syncVars>>
  <2>1. pc'[SignalThread] = "idle" /\ pc'[Main] = pc[Main] /\ TypeInv'
    BY <1>5, SignalMoves DEF trigger_signal
  <2>2. LockInv'
    BY <1>5, <2>1, LockKept DEF trigger_signal
  <2>3. QED BY <1>5, <2>1, <2>2 DEF trigger_signal
<1>6. QED BY <1>1, <1>2, <1>3, <1>4, <1>5 DEF SignalStep, TriggerStep

LEMMA NextIInv ==
  ASSUME SignalFrom \intersect StartLabels = {}
  PROVE  IInv /\ [LifeNext]_allVars => IInv'
<1> SUFFICES ASSUME IInv, [LifeNext]_allVars PROVE IInv'
  OBVIOUS
<1>1. CASE MainStep
  BY <1>1, StartIInv, HandlerIInv, CleanupIInv DEF MainStep
<1>2. CASE SignalStep
  BY <1>2, SignalStepIInv
<1>3. ASSUME UNCHANGED <<mutex, pc, queue, running, stopEvent, taken, mutexState>>,
             pending' = pending \/ pc[Main] \notin StartLabels
      PROVE  IInv'
  BY <1>3 DEF IInv, TypeInv, SignalInv, StopInv, MutexInv, LockInv
<1>4. CASE NetworkStep
  BY <1>3, <1>4 DEF NetworkStep, network_handle, network_finish, vars, handlerVars, signalVars,
                    syncVars
<1>5. ASSUME NEW signal \in Signals, SendSignal(signal)
      PROVE  IInv'
  BY <1>3, <1>5 DEF SendSignal, vars, handlerVars, syncVars
<1>6. CASE SpuriousWakeup /\ UNCHANGED <<platformVars, syncVars>>
  BY <1>3, <1>6 DEF SpuriousWakeup, handlerVars, platformVars, signalVars, syncVars
<1>7. CASE UNCHANGED allVars
  BY <1>3, <1>7 DEF allVars, vars, handlerVars, platformVars, signalVars, syncVars
<1>8. QED BY <1>1, <1>2, <1>4, <1>5, <1>6, <1>7 DEF LifeNext

LEMMA IInvHolds ==
  ASSUME SignalFrom \intersect StartLabels = {}
  PROVE  LifeSpec => []IInv
  BY InitIInv, NextIInv, PTL DEF LifeSpec
-----------------------------------------------------------------------------
(* StopsOnlyForSignal: main goes on to its cleanup only when the signal    *)
(* thread has taken a signal, however often event_handle wakes up.         *)
THEOREM StopNeedsSignal ==
  ASSUME SignalFrom \intersect StartLabels = {}
  PROVE  LifeSpec => []StopsOnlyForSignal
<1>1. IInv => StopsOnlyForSignal
  BY DEF IInv, SignalInv, StopInv, StopsOnlyForSignal, Unsent
<1>2. QED BY <1>1, IInvHolds, PTL

(* MutexUsedWhileLive: the cleanup destroys ctx.mutex without asking, yet  *)
(* the signal thread, whose STOP brought it about, has unlocked it by then *)
(* and locks it no more.                                                   *)
THEOREM MutexOutlivesItsUsers ==
  ASSUME SignalFrom \intersect StartLabels = {}
  PROVE  LifeSpec => MutexUsedWhileLive
<1>1. IInv /\ [LifeNext]_allVars => [mutex' # mutex => mutexState = "live"]_allVars
  <2> SUFFICES ASSUME IInv, LifeNext, mutex' # mutex
               PROVE  pc[Main] \in MutexLive
    BY DEF IInv, MutexInv, allVars, vars
  <2>1. CASE HandlerStep
    BY <2>1 DEF HandlerStep, handle_test, handle_lock, handle_check, handle_wakeup, process_event,
                process_return, handle_unlock, MutexLive, MainLabels, HandlerLabels
  <2>2. CASE LockForCall(SignalThread) \/ trigger_unlock(SignalThread)
    <3>1. pc[SignalThread] \in {"trigger_lock", "trigger_unlock"}
      BY <2>2 DEF LockForCall, trigger_unlock, Operations, IInv, TypeInv, Unsent, Sent
    <3>2. pc[Main] \notin StartLabels \union StopLabels \union {"exited"}
      BY <3>1 DEF IInv, SignalInv, StopInv, Unsent, LifeNext, Alive
    <3>3. QED BY <3>2 DEF IInv, TypeInv, MutexLive, MainLabels, StartLabels, StopLabels
  <2>3. CASE event_init_mutex
    <3>1. pc[Main] = "mutex_init" /\ mutex' = NoThread
      BY <2>3 DEF event_init_mutex, Release
    <3>2. pc[SignalThread] \in {"unborn", "sigwaitinfo"}
      BY <3>1 DEF IInv, SignalInv, StartLabels
    <3>3. mutex = NoThread
      BY <3>1, <3>2 DEF IInv, LockInv, HandlerCritical
    <3>4. QED BY <3>1, <3>3
  <2>4. CASE MainStep /\ ~HandlerStep /\ ~event_init_mutex
    BY <2>4
    DEF MainStep, platform_init, event_init_queue, event_init_cond, register_builtin_events,
        event_init_running, network_init, cleanup_begin, network_stop, network_join,
        registry_system_cleanup, event_cleanup_arena, event_cleanup_mutex, event_cleanup_cond,
        signal_system_cleanup, MainGoes
  <2>5. CASE SignalStep /\ ~LockForCall(SignalThread) /\ ~trigger_unlock(SignalThread)
    BY <2>5 DEF SignalStep, TriggerStep, handle_signals, trigger_enqueue, trigger_signal
  <2>6. CASE NetworkStep \/ \E signal \in Signals : SendSignal(signal)
    BY <2>6 DEF NetworkStep, network_handle, network_finish, SendSignal, vars
  <2>7. QED BY <2>1, <2>2, <2>3, <2>4, <2>5, <2>6 DEF LifeNext, SpuriousWakeup
<1>2. QED BY <1>1, IInvHolds, PTL DEF LifeSpec, MutexUsedWhileLive
=============================================================================
