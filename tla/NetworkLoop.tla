---------------------------- MODULE NetworkLoop ----------------------------
(***************************************************************************)
(* The network thread with all its connections (src/src/platform/linux/    *)
(* network_linux.c): it takes batches of edge-triggered events from epoll, *)
(* accepts one connection per event of the listening socket, finds the     *)
(* connection of any other event through the index it registered with the  *)
(* socket, and closes everything when its eventfd is written.  Peers, the  *)
(* kernel and the main thread act between any two events of a batch.       *)
(*                                                                         *)
(* The table of connections is the pool of ObjectPool.  What the thread    *)
(* does for one event of one connection is in ConnectionIO; here it keeps  *)
(* or closes the connection.                                               *)
(***************************************************************************)
EXTENDS Integers, Sequences, SequencesExt, FiniteSets

CONSTANTS Sockets,   (* the connections that peers open, each at most once   *)
          Invalid,   (* SOCKFD_INVALID                                       *)
          Garbage,   (* the peer_socket of a slot that was never written     *)
          Server,    (* the listening socket, registered with the data -1    *)
          EventFd,   (* platform_ctx.eventfd, registered with the data -2    *)
          Capacity,  (* max_connections                                      *)
          BatchSize, (* the length of the array given to epoll_wait          *)
          MaxLive    (* how many connections the peers have open at a time   *)

ASSUME LoopAssumption ==
    /\ IsFiniteSet(Sockets)
    /\ Cardinality({Invalid, Garbage, Server, EventFd}) = 4
    /\ Sockets \cap ({Invalid, Garbage, Server, EventFd} \union Int) = {}
    /\ {Server, EventFd} \cap Int = {}
    /\ Capacity \in Nat \ {0} /\ BatchSize \in Nat \ {0} /\ MaxLive \in Nat

VARIABLES
    pc,             (* where the thread is                                   *)
    batch,          (* the data of the events that are still to be handled   *)
    shouldContinue, (* ctx->should_continue                                  *)
    conn,           (* the peer_socket in each slot of ctx->connections      *)
    allocated, next, size, wasFull, (* the pool ctx->connections             *)
    open,           (* the sockets of the server that are open               *)
    data,           (* the index registered with each socket                 *)
    ready,          (* the ready list of the epoll instance                  *)
    backlog,        (* the connections that wait for accept                  *)
    peer,           (* what each peer did: new, up, hungup                   *)
    stopped,        (* platform_network_stop wrote the eventfd               *)
    failed          (* history: the system calls that failed in accept_connection *)

poolVars == <<allocated, next, size, wasFull>>
tableVars == <<conn, poolVars>>
kernelVars == <<open, data, ready, backlog>>
envVars == <<peer, stopped>>
vars == <<pc, batch, shouldContinue, tableVars, kernelVars, envVars, failed>>

Pool == INSTANCE ObjectPool
            WITH PoolCapacity <- Capacity, StaleFlags <- {}, MaxSize <- Cardinality(Sockets)

Slots == 0 .. Capacity - 1
Unregistered == -1
Registered == {s \in open : data[s] # Unregistered}

(* The queue of sock_listen(server_socket, 0) holds one connection: Linux  *)
(* refuses the next one when there are more than the 0 asked for, and the  *)
(* peer tries again.                                                       *)
Backlog_Two == 2  (* Mutant: a queue of two. *)
Backlog == 1

Init ==
    /\ pc = "epoll_wait" /\ batch = <<>> /\ shouldContinue = TRUE
    /\ conn = [i \in Slots |-> Garbage]
    /\ Pool!PoolInit
    /\ open = {} /\ data = [s \in Sockets |-> Unregistered]
    /\ ready = <<>> /\ backlog = <<>>
    /\ peer = [s \in Sockets |-> "new"]
    /\ stopped = FALSE
    /\ failed = {}

(* An edge puts a descriptor on the ready list, where it is at most once. *)
Woken(x) == IF Contains(ready, x) THEN ready ELSE Append(ready, x)
-----------------------------------------------------------------------------
(* The peers and the main thread *)
Live == {s \in Sockets : peer[s] = "up" \/ s \in open \/ Contains(backlog, s)}

Connect(s) ==
    /\ pc # "done"
    /\ peer[s] = "new" /\ Cardinality(Live) < MaxLive
    /\ Len(backlog) < Backlog
    /\ peer' = [peer EXCEPT ![s] = "up"]
    /\ backlog' = Append(backlog, s)
    /\ ready' = Woken(Server)
    /\ UNCHANGED <<pc, batch, shouldContinue, tableVars, open, data, stopped, failed>>

Speak(s) ==
    /\ peer[s] = "up" /\ s \in Registered /\ ~Contains(ready, s)
    /\ ready' = Woken(s)
    /\ UNCHANGED <<pc, batch, shouldContinue, tableVars, open, data, backlog, envVars, failed>>

HangUp(s) ==
    /\ peer[s] = "up"
    /\ peer' = [peer EXCEPT ![s] = "hungup"]
    /\ ready' = IF s \in Registered THEN Woken(s) ELSE ready
    /\ UNCHANGED <<pc, batch, shouldContinue, tableVars, open, data, backlog, stopped, failed>>

platform_network_stop ==
    /\ ~stopped
    /\ stopped' = TRUE
    /\ ready' = Woken(EventFd)
    /\ UNCHANGED <<pc, batch, shouldContinue, tableVars, open, data, backlog, peer, failed>>
-----------------------------------------------------------------------------
(* The data that comes with an event: the index of a connection, or the    *)
(* descriptor itself for -1 and -2.                                        *)
DataOf(x) == IF x \in Sockets THEN data[x] ELSE x

epoll_wait ==
    /\ pc = "epoll_wait"
    /\ ready # <<>>
    /\ LET n == IF Len(ready) < BatchSize THEN Len(ready) ELSE BatchSize
       IN  /\ batch' = [i \in 1 .. n |-> DataOf(ready[i])]
           /\ ready' = SubSeq(ready, n + 1, Len(ready))
    /\ pc' = "event"
    /\ UNCHANGED <<shouldContinue, tableVars, open, data, backlog, envVars, failed>>

NextEvent(continue) ==
    /\ shouldContinue' = continue
    /\ batch' = Tail(batch)
    /\ \/ Len(batch) > 1 /\ UNCHANGED pc
       \/ Len(batch) = 1 /\ continue /\ pc' = "epoll_wait"
       \/ Len(batch) = 1 /\ ~continue /\ pc' = "network_finish"

IsEvent(x) == pc = "event" /\ Head(batch) = x

(* sock_accept fails: accept finds no free descriptor and leaves the peer  *)
(* in the queue, or the socket can not be made non-blocking and is closed. *)
accept_fails ==
    /\ IsEvent(Server)
    /\ backlog # <<>>
    /\ \/ failed' = failed \union {"accept"} /\ UNCHANGED backlog
       \/ failed' = failed \union {"fcntl"} /\ backlog' = Tail(backlog)
    /\ NextEvent(shouldContinue)
    /\ UNCHANGED <<tableVars, open, data, ready, envVars>>

(* epoll_ctl fails: the slot stays taken and unwritten, the socket open. *)
accept_unregistered ==
    /\ IsEvent(Server)
    /\ backlog # <<>>
    /\ Pool!objpool_add
    /\ open' = open \union {Head(backlog)}
    /\ backlog' = Tail(backlog)
    /\ failed' = failed \union {"epoll_ctl"}
    /\ NextEvent(shouldContinue)
    /\ UNCHANGED <<conn, data, ready, envVars>>

(* Mutant: the index is the number of connections, not the slot. *)
accept_connection_BySize ==
    /\ IsEvent(Server)
    /\ backlog # <<>>
    /\ Pool!objpool_add
    /\ LET s == Head(backlog)
       IN  /\ data' = [data EXCEPT ![s] = size]
           /\ conn' = [conn EXCEPT ![next] = s]
           /\ open' = open \union {s}
           /\ ready' = Woken(s)
    /\ backlog' = Tail(backlog)
    /\ NextEvent(shouldContinue)
    /\ UNCHANGED <<envVars, failed>>

(* accept_connection: the socket is registered with the index of the slot; *)
(* it is writable, so that its first event is there at once.               *)
accept_connection ==
    /\ IsEvent(Server)
    /\ backlog # <<>>
    /\ Pool!objpool_add
    /\ LET s == Head(backlog)
       IN  /\ data' = [data EXCEPT ![s] = next]
           /\ conn' = [conn EXCEPT ![next] = s]
           /\ open' = open \union {s}
           /\ ready' = Woken(s)
    /\ backlog' = Tail(backlog)
    /\ NextEvent(shouldContinue)
    /\ UNCHANGED <<envVars, failed>>

(* Mutant: the flag is not cleared. *)
handle_stop_Ignored ==
    /\ IsEvent(EventFd)
    /\ NextEvent(shouldContinue)
    /\ UNCHANGED <<tableVars, kernelVars, envVars, failed>>

handle_stop ==
    /\ IsEvent(EventFd)
    /\ NextEvent(FALSE)
    /\ UNCHANGED <<tableVars, kernelVars, envVars, failed>>

(* Mutant: the slot of the connection is not given back. *)
close_connection_KeepSlot(i) ==
    /\ open' = open \ {conn[i]}
    /\ ready' = RemoveFirst(ready, conn[i])
    /\ conn' = [conn EXCEPT ![i] = Invalid]
    /\ UNCHANGED <<poolVars, data, backlog>>

(* close_connection: closing the socket takes it off the epoll instance,   *)
(* whose ready list holds a descriptor at most once.                       *)
close_connection(i) ==
    /\ open' = open \ {conn[i]}
    /\ ready' = RemoveFirst(ready, conn[i])
    /\ conn' = [conn EXCEPT ![i] = Invalid]
    /\ Pool!objpool_remove(i)
    /\ UNCHANGED <<data, backlog>>

(* handle_connection_io ends with the connection closed when the peer hung *)
(* up, and maybe after an error.                                           *)
MayStay_Always(i) == TRUE  (* Mutant: a hangup is not looked for. *)
MayStay(i) == peer[conn[i]] # "hungup"

(* For an index that is not allocated objpool_get returns NULL, which is   *)
(* dereferenced: EventsReachTheirConnection says that this is never met.   *)
handle_connection_io(i) ==
    /\ IsEvent(i)
    /\ i \in allocated
    /\ \/ MayStay(i) /\ UNCHANGED <<tableVars, kernelVars>>
       \/ close_connection(i)
    /\ NextEvent(shouldContinue)
    /\ UNCHANGED <<envVars, failed>>

(* network_finish closes what the table holds, then the listening socket   *)
(* and its queue.  A slot that was not written after its socket could not  *)
(* be registered is closed like the others: what becomes of the open       *)
(* sockets then is open.                                                   *)
network_finish ==
    /\ pc = "network_finish"
    /\ LET held == {conn[i] : i \in allocated}
       IN  open' \in IF held \subseteq Sockets THEN {open \ held} ELSE SUBSET open
    /\ backlog' = <<>>
    /\ ready' = <<>>
    /\ pc' = "done"
    /\ UNCHANGED <<batch, shouldContinue, tableVars, data, envVars, failed>>
-----------------------------------------------------------------------------
ThreadStep ==
    \/ epoll_wait
    \/ accept_fails
    \/ accept_unregistered
    \/ accept_connection
    \/ handle_stop
    \/ \E i \in Slots : handle_connection_io(i)
    \/ network_finish

Next ==
    \/ ThreadStep
    \/ \E s \in Sockets : Connect(s) \/ Speak(s) \/ HangUp(s)
    \/ platform_network_stop

Spec == Init /\ [][Next]_vars

(* The network thread keeps running; nobody has to do anything else. *)
FairSpec == Spec /\ WF_vars(ThreadStep)
-----------------------------------------------------------------------------
(* The index an event brings leads to the connection it is about: slots    *)
(* are given back and handed out again, also in the middle of a batch, but *)
(* never one that a socket or an event still refers to.                    *)
EventsReachTheirConnection ==
    /\ \A s \in Registered : pc # "done" => data[s] \in allocated /\ conn[data[s]] = s
    /\ \A k \in 1 .. Len(batch) :
          batch[k] \in Slots => batch[k] \in allocated /\ conn[batch[k]] \in Registered

(* No slot of the table and no socket is lost, up to the last one when the *)
(* thread ends, unless epoll_ctl failed for a new connection.              *)
NothingLeaks ==
    "epoll_ctl" \notin failed =>
        /\ pc # "done" => allocated = {data[s] : s \in open}
        /\ pc = "done" => open = {}

(* One accept per event is enough: no peer is left in the queue of the     *)
(* listening socket for want of an event, unless accept failed for it.     *)
PeersAreAccepted ==
    \A s \in Sockets :
        Contains(backlog, s) ~> ~Contains(backlog, s) \/ "accept" \in failed

(* A connection whose peer hung up is closed, whatever the other events of *)
(* its batch are.                                                          *)
HangupsAreNoticed ==
    \A s \in Sockets : peer[s] = "hungup" /\ s \in Registered ~> s \notin Registered \/ pc = "done"

(* The network thread ends after platform_network_stop, however busy its   *)
(* connections are: main waits for it.                                     *)
StopEndsThread == stopped ~> pc = "done"
=============================================================================
