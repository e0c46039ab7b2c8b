--------------------------- MODULE ExecutorTimeout ---------------------------
(***************************************************************************)
(* The timeout side of the asio Executor (src/src/core/dbus/asio/         *)
(* executor.cpp): libdbus announces DBusTimeouts through                   *)
(* on_dbus_add_timeout, on_dbus_remove_timeout and                         *)
(* on_dbus_timeout_toggled; each added timeout gets a Timeout<> adapter    *)
(* owning a deadline_timer, kept alive by a Holder in the timeout's data.  *)
(*                                                                         *)
(* An adapter is the pair <<t, g>> of its DBusTimeout and a generation g   *)
(* (a fresh adapter per on_dbus_add_timeout).  armed[o] counts the         *)
(* async_wait operations outstanding on its timer, tqueued[o] the expired  *)
(* waits whose handler is queued with a success code.  Aborted waits are   *)
(* dropped at once: their handler returns at the operation_aborted check.  *)
(***************************************************************************)
EXTENDS Naturals

CONSTANTS
    Timeouts,       \* the DBusTimeouts libdbus creates
    MaxGen,         \* adapters per timeout (bounds add/remove cycles)
    MaxPending      \* bound on waits outstanding per adapter

ASSUME TimeoutsAssumption == Timeouts # {}
ASSUME TMaxGenAssumption == MaxGen \in Nat \ {0}
ASSUME TMaxPendingAssumption == MaxPending \in Nat \ {0}

TGens == 1..MaxGen
TObjs == Timeouts \X TGens
TimeoutStates == {"new", "added", "removed", "freed"}
\* No dbus_timeout_handle call in this step.
NoFire == "none"

VARIABLES
    tstate,     \* libdbus's view: in the connection's timeout list or not
    tenabled,   \* dbus_timeout_get_enabled
    tdata,      \* generation of the adapter the Holder owns, 0 if none
    tgen,       \* adapters created so far per timeout
    armed,      \* async_wait operations outstanding per adapter
    tqueued,    \* expired waits with a queued handler per adapter
    fired,      \* the timeout dbus_timeout_handle ran on in this step
    owed        \* history: timeouts armed since their last handle call

tvars == <<tstate, tenabled, tdata, tgen, armed, tqueued, fired, owed>>

\* Mutant: the weak_ptr is not checked.
TAliveUnchecked(o) == TRUE

\* wp.lock() succeeds: the Holder still owns this adapter.
TAlive(o) == tdata[o[1]] = o[2]

\* Mutant: start() sets the expiry but never calls async_wait.
ArmedLost(a, o) == a

\* Timeout::start on an enabled timeout: expires_from_now cancels every
\* outstanding wait (they complete as aborted), then one async_wait.
Armed(a, o) == [a EXCEPT ![o] = 1]

\* Mutant: destruction aborts one wait, whether there is one or not.
DisarmedOne(a, o) == IF o[2] # 0 THEN [a EXCEPT ![o] = @ - 1] ELSE a

\* Destroying an adapter destroys its deadline_timer, which aborts its waits.
Disarmed(a, o) == IF o[2] # 0 THEN [a EXCEPT ![o] = 0] ELSE a

TTypeOK ==
    /\ tstate \in [Timeouts -> TimeoutStates]
    /\ tenabled \in [Timeouts -> BOOLEAN]
    /\ tdata \in [Timeouts -> 0..MaxGen]
    /\ tgen \in [Timeouts -> 0..MaxGen]
    /\ armed \in [TObjs -> Nat]
    /\ tqueued \in [TObjs -> Nat]
    /\ fired \in Timeouts \cup {NoFire}
    /\ owed \subseteq Timeouts

TInit ==
    /\ tstate = [t \in Timeouts |-> "new"]
    /\ tenabled \in [Timeouts -> BOOLEAN]
    /\ tdata = [t \in Timeouts |-> 0]
    /\ tgen = [t \in Timeouts |-> 0]
    /\ armed = [o \in TObjs |-> 0]
    /\ tqueued = [o \in TObjs |-> 0]
    /\ fired = NoFire
    /\ owed = {}

-----------------------------------------------------------------------------
(* on_dbus_add_timeout: a new adapter whatever the enabled flag; the       *)
(* Holder replaces (and destroys) a previous one; start() arms the timer   *)
(* only if the timeout is enabled.                                         *)
AddTimeout(t) ==
    /\ tstate[t] \in {"new", "removed"}
    /\ tgen[t] < MaxGen
    /\ tstate' = [tstate EXCEPT ![t] = "added"]
    /\ tgen' = [tgen EXCEPT ![t] = @ + 1]
    /\ tdata' = [tdata EXCEPT ![t] = tgen[t] + 1]
    /\ \E en \in BOOLEAN :
        /\ tenabled' = [tenabled EXCEPT ![t] = en]
        /\ LET a == Disarmed(armed, <<t, tdata[t]>>)
           IN armed' = IF en THEN Armed(a, <<t, tgen[t] + 1>>) ELSE a
        /\ owed' = IF en THEN owed \cup {t} ELSE owed
    /\ fired' = NoFire
    /\ UNCHANGED tqueued

(* on_dbus_remove_timeout: cancel() aborts the outstanding waits; an       *)
(* expired wait whose handler is already queued is not recalled.           *)
RemoveTimeout(t) ==
    /\ tstate[t] = "added"
    /\ tstate' = [tstate EXCEPT ![t] = "removed"]
    /\ armed' = [armed EXCEPT ![<<t, tdata[t]>>] = 0]
    /\ fired' = NoFire
    /\ UNCHANGED <<tenabled, tdata, tgen, tqueued, owed>>

(* on_dbus_timeout_toggled: libdbus flips the flag and calls back, and the *)
(* adapter calls start(), which re-arms an enabled timeout and returns     *)
(* early on a disabled one.                                                *)
ToggleTimeout(t) ==
    /\ tstate[t] = "added"
    /\ tenabled' = [tenabled EXCEPT ![t] = ~@]
    /\ LET o == <<t, tdata[t]>> IN
       \/ /\ ~tenabled[t]
          /\ tqueued[o] < MaxPending
          /\ armed' = Armed(armed, o)
          /\ owed' = owed \cup {t}
       \/ tenabled[t] /\ UNCHANGED <<armed, owed>>
    /\ fired' = NoFire
    /\ UNCHANGED <<tstate, tdata, tgen, tqueued>>

(* libdbus drops its last reference to a removed timeout: ptr_delete      *)
(* destroys the adapter and its timer.                                    *)
FreeTimeout(t) ==
    /\ tstate[t] = "removed"
    /\ tstate' = [tstate EXCEPT ![t] = "freed"]
    /\ tdata' = [tdata EXCEPT ![t] = 0]
    /\ armed' = Disarmed(armed, <<t, tdata[t]>>)
    /\ fired' = NoFire
    /\ UNCHANGED <<tenabled, tgen, tqueued, owed>>

(* The deadline passes: one outstanding wait completes with success and   *)
(* its handler is queued.                                                 *)
Expire(o) ==
    /\ armed[o] > 0
    /\ armed' = [armed EXCEPT ![o] = @ - 1]
    /\ tqueued' = [tqueued EXCEPT ![o] = @ + 1]
    /\ fired' = NoFire
    /\ UNCHANGED <<tstate, tenabled, tdata, tgen, owed>>

(* A queued expiry handler runs: wp.lock(), then on_timeout, which calls  *)
(* dbus_timeout_handle.  Nothing after it touches the timeout.            *)
RunTimeoutHandler(o) ==
    /\ tqueued[o] > 0
    /\ tqueued' = [tqueued EXCEPT ![o] = @ - 1]
    /\ fired' = IF TAlive(o) THEN o[1] ELSE NoFire
    /\ owed' = IF TAlive(o) THEN owed \ {o[1]} ELSE owed
    /\ UNCHANGED <<tstate, tenabled, tdata, tgen, armed>>

TNext ==
    \/ \E t \in Timeouts :
          AddTimeout(t) \/ RemoveTimeout(t) \/ ToggleTimeout(t) \/ FreeTimeout(t)
    \/ \E o \in TObjs : Expire(o) \/ RunTimeoutHandler(o)

(* The io_service runs the expiry and the queued handler of an armed      *)
(* timer: both are steps of the reactor, which keeps running (a timeout   *)
(* handler never throws).                                                  *)
TFairness == \A o \in TObjs : WF_tvars(Expire(o)) /\ WF_tvars(RunTimeoutHandler(o))

TSpec == TInit /\ [][TNext]_tvars

TFairSpec == TSpec /\ TFairness

-----------------------------------------------------------------------------
(* The weak_ptr guard and the timer's destructor: dbus_timeout_handle is  *)
(* never called on a DBusTimeout libdbus has freed.                       *)
TimeoutHandleOnLive == fired # NoFire => tstate[fired] # "freed"

(* The spec (4.1): toggle disarms and remove cancels.  dbus_timeout_handle *)
(* runs only on a timeout that is in the connection's list and enabled,   *)
(* whatever the order of toggles, removes and expiries.                   *)
HandledOnlyWhenArmed ==
    fired # NoFire => tstate[fired] = "added" /\ tenabled[fired]

(* A timeout that is added enabled, or toggled to enabled, has its        *)
(* handler called afterwards unless it is first disabled or removed: the  *)
(* adapter arms the timer in on_dbus_add_timeout and on each enabling     *)
(* toggle, and the wait completes.                                        *)
EnabledTimeoutFires ==
    \A t \in Timeouts :
        (t \in owed /\ tstate[t] = "added" /\ tenabled[t])
            ~> (fired = t \/ tstate[t] # "added" \/ ~tenabled[t])
=============================================================================
