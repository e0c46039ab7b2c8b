---------------------------- MODULE ExecutorWatch ----------------------------
(***************************************************************************)
(* The watch half of the boost::asio executor (src/src/core/dbus/asio/     *)
(* executor.cpp).  libdbus announces DBusWatch objects through the         *)
(* add / remove / toggled callbacks; the executor wraps each enabled watch *)
(* in an adapter object Watch<> that owns a stream_descriptor, keeps       *)
(* async_read_some / async_write_some operations outstanding on it, and    *)
(* calls dbus_watch_handle from the completion handler, which then         *)
(* re-arms (restart).  Completion handlers capture only a weak_ptr to the  *)
(* adapter.                                                                *)
(*                                                                         *)
(* The libdbus side is the environment: it adds, removes, toggles and      *)
(* finally frees its watches at any time, including from inside            *)
(* dbus_watch_handle.  The asio side is one reactor thread: a pending      *)
(* operation completes into the handler queue (ok, error, or aborted once  *)
(* cancelled), and the queued handlers run one at a time, in any order.    *)
(*                                                                         *)
(* An adapter object is identified by <<watch, generation>>: every         *)
(* on_dbus_add_watch of an enabled watch makes a new one.                  *)
(***************************************************************************)
EXTENDS Naturals

CONSTANTS
    Watches,     \* the DBusWatch objects of one connection
    Flags,       \* dbus_watch_get_flags: the directions each watch monitors
    MaxGen,      \* bound: adapter objects created per watch
    MaxPending   \* bound: outstanding operations per adapter and direction

Dirs == {"read", "write"}

ASSUME WatchesAssumption == Watches # {}
ASSUME FlagsAssumption == Flags \in [Watches -> SUBSET Dirs]
ASSUME MaxGenAssumption == MaxGen \in Nat \ {0}
ASSUME MaxPendingAssumption == MaxPending \in Nat \ {0}

Gens == 1..MaxGen
Objs == Watches \X Gens
ECs == {"ok", "error"}        \* boost::system::error_code outcomes that do work
Keys == Objs \X Dirs \X ECs             \* a queued completion handler
WatchStates == {"new", "added", "removed", "freed"}
NoObj == <<"none", 0>>
NoAccess == [w |-> "none", op |-> "none"]
Accesses == [w : Watches, op : {"handle", "flags"}] \cup {NoAccess}

VARIABLES
    wstate,    \* libdbus: lifecycle of each DBusWatch
    enabled,   \* libdbus: dbus_watch_get_enabled
    data,      \* dbus_watch_get_data: generation of the Holder's adapter, 0 = NULL
    gen,       \* adapters created so far per watch
    pending,   \* async operations outstanding on each adapter's stream_descriptor
    queued,    \* completion handlers waiting in the io_service queue (a bag)
    strong,    \* the adapter kept alive by `sp` in the running handler
    running,   \* io_service::run has not been left by an exception
    access,    \* the DBusWatch the adapter passed to libdbus in this step, and how
    failed     \* history: <<adapter, direction>> pairs that handled an error event

vars == <<wstate, enabled, data, gen, pending, queued, strong, running, access, failed>>

NoOps == [d \in Dirs |-> 0]

(* Mutant: a completion handler that dereferences a raw pointer instead   *)
(* of locking its weak_ptr.                                                *)
AliveUnchecked(o) == TRUE

(* weak_ptr::lock succeeds: the Holder still owns the adapter, or the     *)
(* running handler holds a shared_ptr to it.                              *)
Alive(o) == data[o[1]] = o[2] \/ strong = o

Outstanding(o, d) == pending[o][d] + queued[<<o, d, "ok">>] + queued[<<o, d, "error">>]

(* The model's cap on restart(): at most MaxPending operations of a       *)
(* direction in flight for one adapter.                                   *)
CanArm(o) == \A d \in Flags[o[1]] : Outstanding(o, d) < MaxPending

(* Mutant: restart() that forgets the writable branch.                    *)
RestartedReadOnly(p, o) ==
    [p EXCEPT ![o] = [d \in Dirs |-> IF d = "read" /\ d \in Flags[o[1]] THEN @[d] + 1 ELSE @[d]]]

(* Watch::restart: one async operation per direction in the watch flags.  *)
Restarted(p, o) ==
    [p EXCEPT ![o] = [d \in Dirs |-> IF d \in Flags[o[1]] THEN @[d] + 1 ELSE @[d]]]

(* Watch::cancel (stream_descriptor.cancel): every outstanding operation  *)
(* completes with operation_aborted, whose handler returns at once        *)
(* (on_stream_descriptor_event's first test), so it is dropped here;      *)
(* handlers already queued with success or error are kept.               *)
(* Mutant: cancel() that aborts a single operation per direction.         *)
CancelledOne(p, o) == [p EXCEPT ![o] = [d \in Dirs |-> @[d] - 1]]

Cancelled(p, o) == [p EXCEPT ![o] = NoOps]

(* Dropping the last shared_ptr of an adapter runs ~Watch, which cancels  *)
(* the descriptor; handlers that run later fail their weak_ptr::lock.     *)
Destroy(p, o) == IF o[2] # 0 /\ strong # o THEN Cancelled(p, o) ELSE p

-----------------------------------------------------------------------------
TypeOK ==
    /\ wstate \in [Watches -> WatchStates]
    /\ enabled \in [Watches -> BOOLEAN]
    /\ data \in [Watches -> 0..MaxGen]
    /\ gen \in [Watches -> 0..MaxGen]
    /\ pending \in [Objs -> [Dirs -> Nat]]
    /\ queued \in [Keys -> Nat]
    /\ strong \in Objs \cup {NoObj}
    /\ running \in BOOLEAN
    /\ access \in Accesses
    /\ failed \subseteq Objs \X Dirs

Init ==
    /\ wstate = [w \in Watches |-> "new"]
    /\ enabled \in [Watches -> BOOLEAN]
    /\ data = [w \in Watches |-> 0]
    /\ gen = [w \in Watches |-> 0]
    /\ pending = [o \in Objs |-> NoOps]
    /\ queued = [k \in Keys |-> 0]
    /\ strong = NoObj
    /\ running = TRUE
    /\ access = NoAccess
    /\ failed = {}

-----------------------------------------------------------------------------
(* libdbus calls on_dbus_add_watch with the watch's current enabled flag. *)
(* A disabled watch is ignored.  An enabled one gets a new adapter, the   *)
(* Holder replaces (and frees) the previous one, and start() arms it.     *)
AddWatch(w) ==
    /\ wstate[w] \in {"new", "removed"}
    /\ wstate' = [wstate EXCEPT ![w] = "added"]
    /\ \E en \in BOOLEAN :
        /\ enabled' = [enabled EXCEPT ![w] = en]
        /\ IF en
           THEN /\ gen[w] < MaxGen
                /\ gen' = [gen EXCEPT ![w] = @ + 1]
                /\ data' = [data EXCEPT ![w] = gen[w] + 1]
                /\ pending' = Restarted(Destroy(pending, <<w, data[w]>>), <<w, gen[w] + 1>>)
           ELSE UNCHANGED <<data, gen, pending>>
    /\ access' = NoAccess
    /\ UNCHANGED <<queued, strong, running, failed>>

(* on_dbus_remove_watch: cancel the adapter if there is one; the Holder   *)
(* stays attached to the watch.                                           *)
RemoveWatch(w) ==
    /\ wstate[w] = "added"
    /\ wstate' = [wstate EXCEPT ![w] = "removed"]
    /\ pending' = IF data[w] # 0 THEN Cancelled(pending, <<w, data[w]>>) ELSE pending
    /\ access' = NoAccess
    /\ UNCHANGED <<enabled, data, gen, queued, strong, running, failed>>

(* on_dbus_watch_toggled: libdbus flips the enabled flag and calls back;  *)
(* without a Holder nothing happens, else restart() or cancel().          *)
ToggleWatch(w) ==
    /\ wstate[w] = "added"
    /\ enabled' = [enabled EXCEPT ![w] = ~@]
    /\ LET o == <<w, data[w]>> IN
       \/ data[w] = 0 /\ UNCHANGED pending
       \/ data[w] # 0 /\ ~enabled[w] /\ CanArm(o) /\ pending' = Restarted(pending, o)
       \/ data[w] # 0 /\ enabled[w] /\ pending' = Cancelled(pending, o)
    /\ access' = NoAccess
    /\ UNCHANGED <<wstate, data, gen, queued, strong, running, failed>>

(* libdbus drops its last reference to a removed watch: the free-data     *)
(* function Holder::ptr_delete releases the adapter.                      *)
FreeWatch(w) ==
    /\ wstate[w] = "removed"
    /\ wstate' = [wstate EXCEPT ![w] = "freed"]
    /\ data' = [data EXCEPT ![w] = 0]
    /\ pending' = Destroy(pending, <<w, data[w]>>)
    /\ access' = NoAccess
    /\ UNCHANGED <<enabled, gen, queued, strong, running, failed>>

-----------------------------------------------------------------------------
(* The reactor finds the descriptor ready (or failed) and queues the      *)
(* completion handler of one outstanding operation.                       *)
Complete(o, d, ec) ==
    /\ running
    /\ strong = NoObj
    /\ pending[o][d] > 0
    /\ pending' = [pending EXCEPT ![o][d] = @ - 1]
    /\ queued' = [queued EXCEPT ![<<o, d, ec>>] = @ + 1]
    /\ access' = NoAccess
    /\ UNCHANGED <<wstate, enabled, data, gen, strong, running, failed>>

(* A queued completion handler runs: wp.lock(), then                      *)
(* on_stream_descriptor_event.  An error calls dbus_watch_handle with the *)
(* error event and stops; success calls dbus_watch_handle with the event  *)
(* while `sp` keeps the adapter alive until HandlerReturn.                *)
RunHandler(o, d, ec) ==
    /\ running
    /\ strong = NoObj
    /\ queued[<<o, d, ec>>] > 0
    /\ queued' = [queued EXCEPT ![<<o, d, ec>>] = @ - 1]
    /\ IF Alive(o)
       THEN /\ access' = [w |-> o[1], op |-> "handle"]
            /\ strong' = IF ec = "ok" THEN o ELSE NoObj
            /\ failed' = IF ec = "error" THEN failed \cup {<<o, d>>} ELSE failed
       ELSE /\ access' = NoAccess
            /\ UNCHANGED <<strong, failed>>
    /\ UNCHANGED <<wstate, enabled, data, gen, pending, running>>

(* dbus_watch_handle returns.  FALSE throws "Insufficient memory" out of  *)
(* io_service::run; TRUE re-arms through restart(), which reads the       *)
(* watch flags.  Then `sp` goes out of scope, and if the Holder no longer *)
(* owns the adapter, ~Watch cancels what restart() armed.                 *)
HandlerReturn ==
    /\ strong # NoObj
    /\ strong' = NoObj
    /\ LET o == strong
           dead == data[o[1]] # o[2]
       IN \/ /\ running' = FALSE
             /\ access' = NoAccess
             /\ pending' = IF dead THEN Cancelled(pending, o) ELSE pending
          \/ /\ dead \/ CanArm(o)
             /\ access' = [w |-> o[1], op |-> "flags"]
             /\ pending' = IF dead THEN Cancelled(pending, o) ELSE Restarted(pending, o)
             /\ UNCHANGED running
    /\ UNCHANGED <<wstate, enabled, data, gen, queued, failed>>

Next ==
    \/ \E w \in Watches : AddWatch(w) \/ RemoveWatch(w) \/ ToggleWatch(w) \/ FreeWatch(w)
    \/ \E o \in Objs, d \in Dirs, ec \in ECs : Complete(o, d, ec)
    \/ \E k \in Keys : RunHandler(k[1], k[2], k[3])
    \/ HandlerReturn

Spec == Init /\ [][Next]_vars

-----------------------------------------------------------------------------
(* The weak_ptr in every completion handler: dbus_watch_handle is never   *)
(* called on a DBusWatch that libdbus has freed, although handlers queued *)
(* before the free still run afterwards.                                  *)
HandleOnLiveWatch ==
    access.op = "handle" => wstate[access.w] # "freed"

(* restart() after dbus_watch_handle reads the flags of a watch that is   *)
(* still allocated (dbus_watch_handle may free it by disconnecting).      *)
FlagsReadOnLiveWatch ==
    access.op = "flags" => wstate[access.w] # "freed"

(* Interest is never lost: while the reactor is idle and running, an      *)
(* added and enabled watch with an adapter has, per monitored direction,  *)
(* an outstanding operation or a queued handler that will re-arm it,      *)
(* unless that direction's adapter has handled an error event (the code   *)
(* does not re-arm after an error and leaves the reaction to libdbus).    *)
InterestKept ==
    \A w \in Watches :
        LET o == <<w, data[w]>> IN
        running /\ strong = NoObj /\ wstate[w] = "added" /\ enabled[w] /\ data[w] # 0
            => \A d \in Flags[w] :
                   \/ <<o, d>> \in failed
                   \/ pending[o][d] + queued[<<o, d, "ok">>] + queued[<<o, d, "error">>] > 0

(* No interest is armed for a watch that libdbus has disabled or removed: *)
(* the reactor never reads from or writes to the connection on its own.   *)
DisabledWatchNotMonitored ==
    \A o \in Objs, d \in Dirs :
        pending[o][d] > 0 /\ Alive(o) =>
            wstate[o[1]] = "added" /\ enabled[o[1]]
=============================================================================
