-------------------------- MODULE ExecutorDispatch --------------------------
(***************************************************************************)
(* The dispatch side of the asio Executor (src/src/core/dbus/asio/        *)
(* executor.cpp) and the Bus calls that drive it (src/src/core/dbus/       *)
(* bus.cpp): libdbus queues each message it reads and calls the wakeup     *)
(* function, which posts a drain onto the executor's io_service; a thread  *)
(* inside Bus::run() (io_service::run) runs posted drains, each of which   *)
(* calls dbus_connection_dispatch while data remains.  Bus::stop() stops   *)
(* the io_service.                                                         *)
(*                                                                         *)
(* make_executor(bus) gives every executor the same static io_service;     *)
(* make_executor(bus, io) the one the caller passes, here one per bus.     *)
(* A thread is named after the bus whose run() it called.                 *)
(***************************************************************************)
EXTENDS Naturals

CONSTANTS
    Buses,      \* the Bus objects, each with at most one run() thread
    IoKinds,    \* which make_executor overloads are used: "static", "own"
    MaxMsgs     \* messages libdbus reads per bus

ASSUME BusesAssumption == Buses # {} /\ "static" \notin Buses /\ "none" \notin Buses
ASSUME IoKindsAssumption == IoKinds \subseteq {"static", "own"} /\ IoKinds # {}
ASSUME MaxMsgsAssumption == MaxMsgs \in Nat \ {0}

\* The io_services: the static one of make_executor(bus), and one per bus.
Services == {"static"} \cup Buses
ThreadStates == {"idle", "running", "returned"}
NoBus == "none"

VARIABLES
    ioOf,       \* the io_service of the bus's installed executor, or none
    stopped,    \* io_service::stopped()
    posted,     \* drains of the bus posted and not yet run
    thread,     \* the bus's run() thread: not called, inside, returned
    busy,       \* the bus whose drain the thread is running, or none
    incoming,   \* messages libdbus has queued and not dispatched
    received,   \* messages libdbus has read so far (bounds the runs)
    stopCalled  \* history: Bus::stop() was called on this bus

dvars == <<ioOf, stopped, posted, thread, busy, incoming, received, stopCalled>>

\* The thread inside io_service::run of t's executor runs b's handlers:
\* both executors post to that io_service.
ServedBy(t, b) == ioOf[t] = ioOf[b]

\* Mutant: the drain returns after one dbus_connection_dispatch.
DrainOnce(b) == TRUE

\* The drain's loop ends: dbus_connection_get_dispatch_status reports
\* that no data remains.
DrainDone(b) == incoming[b] = 0

\* Mutant: the drain is a do-while loop, dispatching before it checks.
DataRemainsUnchecked(b) == TRUE

\* dbus_connection_get_dispatch_status is DBUS_DISPATCH_DATA_REMAINS.
DataRemains(b) == incoming[b] > 0

\* Mutant: the Executor holds no io_service::work, so run() also returns
\* when no handler is queued.
RunReturnsOutOfWork(t) ==
    stopped[ioOf[t]] \/ \A b \in Buses : ServedBy(t, b) => posted[b] = 0

\* io_service::run returns: the io_service was stopped (the Executor's
\* io_service::work keeps it from running out of work).
RunReturns(t) == stopped[ioOf[t]]

DTypeOK ==
    /\ ioOf \in [Buses -> Services \cup {NoBus}]
    /\ stopped \in [Services -> BOOLEAN]
    /\ posted \in [Buses -> Nat]
    /\ thread \in [Buses -> ThreadStates]
    /\ busy \in [Buses -> Buses \cup {NoBus}]
    /\ incoming \in [Buses -> Nat]
    /\ received \in [Buses -> 0..MaxMsgs]
    /\ stopCalled \in [Buses -> BOOLEAN]

DInit ==
    /\ ioOf = [b \in Buses |-> NoBus]
    /\ stopped = [s \in Services |-> FALSE]
    /\ posted = [b \in Buses |-> 0]
    /\ thread = [b \in Buses |-> "idle"]
    /\ busy = [b \in Buses |-> NoBus]
    /\ incoming = [b \in Buses |-> 0]
    /\ received = [b \in Buses |-> 0]
    /\ stopCalled = [b \in Buses |-> FALSE]

-----------------------------------------------------------------------------
(* make_executor and Bus::install_executor: the Executor's constructor     *)
(* installs the watch, timeout and wakeup functions on the connection.     *)
(* Installing the wakeup function does not call it.                        *)
InstallExecutor(b, k) ==
    /\ ioOf[b] = NoBus
    /\ ioOf' = [ioOf EXCEPT ![b] = IF k = "static" THEN "static" ELSE b]
    /\ UNCHANGED <<stopped, posted, thread, busy, incoming, received, stopCalled>>

(* libdbus reads a message (dbus_watch_handle, or a blocking call such as  *)
(* the Hello handshake) and queues it; with a wakeup function installed    *)
(* it calls on_dbus_wakeup_event_loop, which posts one drain.             *)
Receive(b) ==
    /\ received[b] < MaxMsgs
    /\ received' = [received EXCEPT ![b] = @ + 1]
    /\ incoming' = [incoming EXCEPT ![b] = @ + 1]
    /\ posted' = IF ioOf[b] # NoBus THEN [posted EXCEPT ![b] = @ + 1] ELSE posted
    /\ UNCHANGED <<ioOf, stopped, thread, busy, stopCalled>>

(* Bus::run: Executor::run calls io_service::run, which returns at once   *)
(* on a stopped io_service (nothing calls reset()).  Without an executor   *)
(* Bus::run throws.                                                       *)
Run(b) ==
    /\ ioOf[b] # NoBus
    /\ thread[b] \in {"idle", "returned"}
    /\ thread' = [thread EXCEPT ![b] = IF stopped[ioOf[b]] THEN "returned" ELSE "running"]
    /\ UNCHANGED <<ioOf, stopped, posted, busy, incoming, received, stopCalled>>

(* Thread t's io_service runs a posted drain of bus b.                     *)
StartDrain(t, b) ==
    /\ thread[t] = "running"
    /\ busy[t] = NoBus
    /\ ~stopped[ioOf[t]]
    /\ posted[b] > 0
    /\ ServedBy(t, b)
    /\ posted' = [posted EXCEPT ![b] = @ - 1]
    /\ busy' = [busy EXCEPT ![t] = b]
    /\ UNCHANGED <<ioOf, stopped, thread, incoming, received, stopCalled>>

(* One turn of the drain's loop: data remains, dbus_connection_dispatch.  *)
DispatchOne(t) ==
    /\ busy[t] # NoBus
    /\ DataRemains(busy[t])
    /\ incoming' = [incoming EXCEPT ![busy[t]] = @ - 1]
    /\ UNCHANGED <<ioOf, stopped, posted, thread, busy, received, stopCalled>>

(* The drain returns once no data remains.                                 *)
EndDrain(t) ==
    /\ busy[t] # NoBus
    /\ DrainDone(busy[t])
    /\ busy' = [busy EXCEPT ![t] = NoBus]
    /\ UNCHANGED <<ioOf, stopped, posted, thread, incoming, received, stopCalled>>

(* Bus::stop: Executor::stop calls io_service::stop.  Without an executor *)
(* Bus::stop throws.                                                       *)
Stop(b) ==
    /\ ioOf[b] # NoBus
    /\ stopped' = [stopped EXCEPT ![ioOf[b]] = TRUE]
    /\ stopCalled' = [stopCalled EXCEPT ![b] = TRUE]
    /\ UNCHANGED <<ioOf, posted, thread, busy, incoming, received>>

(* io_service::run returns in a thread of a stopped io_service once its   *)
(* current handler has returned.                                          *)
ThreadReturn(t) ==
    /\ thread[t] = "running"
    /\ busy[t] = NoBus
    /\ RunReturns(t)
    /\ thread' = [thread EXCEPT ![t] = "returned"]
    /\ UNCHANGED <<ioOf, stopped, posted, busy, incoming, received, stopCalled>>

DNext ==
    \/ \E b \in Buses, k \in IoKinds : InstallExecutor(b, k)
    \/ \E b \in Buses : Receive(b) \/ Run(b) \/ Stop(b)
    \/ \E t, b \in Buses : StartDrain(t, b)
    \/ \E t \in Buses : DispatchOne(t) \/ EndDrain(t) \/ ThreadReturn(t)

(* io_service::run keeps running the handlers queued on its io_service,    *)
(* and returns after a stop: the steps of a thread inside run() are       *)
(* weakly fair.  Nothing is assumed of the application's calls.           *)
DFairness ==
    \A t \in Buses :
        /\ WF_dvars(\E b \in Buses : StartDrain(t, b))
        /\ WF_dvars(DispatchOne(t))
        /\ WF_dvars(EndDrain(t))
        /\ WF_dvars(ThreadReturn(t))

DSpec == DInit /\ [][DNext]_dvars

DFairSpec == DSpec /\ DFairness

-----------------------------------------------------------------------------
(* The spec (4.1): the drain runs on the reactor's thread and is never    *)
(* re-entered.  No two threads run drains of the same bus at once, which  *)
(* would run its filter and object handlers on two threads.               *)
DrainNotReentered ==
    \A t1, t2 \in Buses :
        (t1 # t2 /\ busy[t1] # NoBus) => busy[t1] # busy[t2]

(* The spec (5): each Bus is run by its own reactor.  Bus::run() returns  *)
(* only after Bus::stop() was called on that bus.                         *)
RunIsolated == \A b \in Buses : thread[b] = "returned" => stopCalled[b]

(* A wakeup is answered: once a drain of a bus is posted while its run()  *)
(* thread runs, libdbus's queue of that bus is emptied, unless run()      *)
(* returns first.                                                         *)
WakeupDrains ==
    \A b \in Buses :
        (posted[b] > 0 /\ thread[b] = "running")
            ~> (incoming[b] = 0 \/ thread[b] = "returned")
=============================================================================
