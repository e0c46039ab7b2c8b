----------------------------- MODULE BusObjects -----------------------------
(***************************************************************************)
(* The Bus's connection and its object paths (src/src/core/dbus/bus.cpp): *)
(* the constructor opens a private connection, installs the filter and     *)
(* says Hello; register_object_for_path allocates a DBusObjectPathVTable   *)
(* and a VTable holding a weak_ptr to the Object and hands both to         *)
(* dbus_connection_try_register_object_path; libdbus calls                 *)
(* VTable::on_new_message for messages to the path and                     *)
(* VTable::unregister_object_path when the path is unregistered or the     *)
(* connection is finalised by ~Bus.                                       *)
(*                                                                         *)
(* Heap blocks are numbered by allocation.  libdbus copies the two         *)
(* function pointers out of the DBusObjectPathVTable and keeps only the    *)
(* VTable pointer, as user data of the path.                               *)
(***************************************************************************)
EXTENDS Naturals

CONSTANTS
    Paths,      \* object paths the application registers
    Objects,    \* Objects the application owns through shared_ptrs
    MaxAllocs   \* bound on register_object_for_path calls

ASSUME PathsAssumption == Paths # {}
ASSUME ObjectsAssumption == Objects # {} /\ 0 \notin Objects
ASSUME MaxAllocsAssumption == MaxAllocs \in Nat \ {0}

VIds == 1..MaxAllocs
\* No VTable: a free path, or no VTable read in this step.
NoV == 0
\* The null shared_ptr.
NoObj == 0
Phases == {"init", "opened", "wkopened", "filtered", "up", "threw", "destroyed"}
Idle == [stage |-> "idle", v |-> NoV, o |-> NoObj]

VARIABLES
    phase,      \* how far the constructor got, or the Bus destroyed
    conn,       \* the private connection: "none", "open", "closed"
    filter,     \* static_handle_message is installed with this Bus
    tree,       \* libdbus's object tree: the VTable of each path
    heap,       \* VTables allocated and not deleted
    vobj,       \* the Object each VTable's weak_ptr names
    pvt,        \* DBusObjectPathVTables allocated and not deleted
    nalloc,     \* register_object_for_path calls so far
    extref,     \* the application holds a shared_ptr to the Object
    disp,       \* on_new_message in progress: its VTable and locked Object
    touched     \* the VTable on_new_message reads in this step, or NoV

bvars == <<phase, conn, filter, tree, heap, vobj, pvt, nalloc, extref, disp, touched>>

\* Mutant: the VTable keeps a plain pointer to the Object, not a weak_ptr.
LockUnchecked(v) == vobj[v]

\* thiz->object.lock(): the Object, if a shared_ptr to it is still held.
Lock(v) == IF extref[vobj[v]] THEN vobj[v] ELSE NoObj

\* Mutant: the null check on sp is dropped.
SpUnchecked(sp) == TRUE

\* if (not sp) return DBUS_HANDLER_RESULT_NOT_YET_HANDLED.
SpChecked(sp) == sp # NoObj

\* Mutant: on_new_message reads thiz->object again after the handler.
TouchesAfterCallAgain == TRUE

\* on_new_message touches thiz only before it calls the Object.
TouchesAfterCall == FALSE

BTypeOK ==
    /\ phase \in Phases
    /\ conn \in {"none", "open", "closed"}
    /\ filter \in BOOLEAN
    /\ tree \in [Paths -> VIds \cup {NoV}]
    /\ heap \subseteq VIds
    /\ vobj \in [VIds -> Objects \cup {NoObj}]
    /\ pvt \in Nat
    /\ nalloc \in 0..MaxAllocs
    /\ extref \in [Objects -> BOOLEAN]
    /\ disp \in {Idle} \cup [stage : {"called"}, v : VIds, o : Objects]
    /\ touched \in VIds \cup {NoV}

BInit ==
    /\ phase = "init"
    /\ conn = "none"
    /\ filter = FALSE
    /\ tree = [p \in Paths |-> NoV]
    /\ heap = {}
    /\ vobj = [v \in VIds |-> NoObj]
    /\ pvt = 0
    /\ nalloc = 0
    /\ extref = [o \in Objects |-> TRUE]
    /\ disp = Idle
    /\ touched = NoV

-----------------------------------------------------------------------------
(* Bus::Bus(address): dbus_connection_open_private; a null connection     *)
(* throws.                                                                *)
Open ==
    /\ phase = "init"
    /\ \/ phase' = "opened" /\ conn' = "open"
       \/ phase' = "threw" /\ UNCHANGED conn
    /\ UNCHANGED <<filter, tree, heap, vobj, pvt, nalloc, extref, disp>>
    /\ touched' = NoV

(* dbus_connection_add_filter(static_handle_message, this).               *)
AddFilter ==
    /\ phase = "opened"
    /\ phase' = "filtered"
    /\ filter' = TRUE
    /\ UNCHANGED <<conn, tree, heap, vobj, pvt, nalloc, extref, disp>>
    /\ touched' = NoV

(* The Hello call of the address constructor: an error reply or a failed call throws, leaving the filter with  *)
(* this installed and the connection open, as the connection's deleter    *)
(* does nothing.                                                          *)
Hello ==
    /\ phase = "filtered"
    /\ phase' \in {"up", "threw"}
    /\ UNCHANGED <<conn, filter, tree, heap, vobj, pvt, nalloc, extref, disp>>
    /\ touched' = NoV

(* Bus::Bus(WellKnownBus): dbus_bus_get_private, which registers with the *)
(* daemon itself; a null connection throws.                               *)
OpenWellKnown ==
    /\ phase = "init"
    /\ \/ phase' = "wkopened" /\ conn' = "open"
       \/ phase' = "threw" /\ UNCHANGED conn
    /\ UNCHANGED <<filter, tree, heap, vobj, pvt, nalloc, extref, disp>>
    /\ touched' = NoV

(* The WellKnownBus constructor installs the filter and returns: no Hello.*)
AddFilterWellKnown ==
    /\ phase = "wkopened"
    /\ phase' = "up"
    /\ filter' = TRUE
    /\ UNCHANGED <<conn, tree, heap, vobj, pvt, nalloc, extref, disp>>
    /\ touched' = NoV

(* register_object_for_path: new DBusObjectPathVTable, new VTable{object},*)
(* dbus_connection_try_register_object_path; on failure (the path is      *)
(* taken) the DBusObjectPathVTable is deleted and the call throws.        *)
Register(p, o) ==
    /\ phase = "up"
    /\ nalloc < MaxAllocs
    /\ extref[o]
    /\ LET v == nalloc + 1 IN
       /\ nalloc' = v
       /\ heap' = heap \cup {v}
       /\ vobj' = [vobj EXCEPT ![v] = o]
       /\ IF tree[p] = NoV
          THEN tree' = [tree EXCEPT ![p] = v] /\ pvt' = pvt + 1
          ELSE UNCHANGED <<tree, pvt>>
    /\ UNCHANGED <<phase, conn, filter, extref, disp>>
    /\ touched' = NoV

(* unregister_object_path: libdbus removes the path and calls             *)
(* VTable::unregister_object_path, which deletes the VTable.              *)
Unregister(p) ==
    /\ phase = "up"
    /\ tree[p] # NoV
    /\ tree' = [tree EXCEPT ![p] = NoV]
    /\ heap' = heap \ {tree[p]}
    /\ UNCHANGED <<phase, conn, filter, vobj, pvt, nalloc, extref, disp>>
    /\ touched' = NoV

(* The application drops its last shared_ptr to an Object; a running      *)
(* handler's sp keeps it alive until on_new_message returns.              *)
DropObject(o) ==
    /\ extref[o]
    /\ extref' = [extref EXCEPT ![o] = FALSE]
    /\ UNCHANGED <<phase, conn, filter, tree, heap, vobj, pvt, nalloc, disp>>
    /\ touched' = NoV

(* libdbus dispatches a method call to p: the filter forwards it to the   *)
(* router and returns not_yet_handled, then the object tree calls          *)
(* on_new_message with the path's VTable, which locks the weak_ptr and     *)
(* calls the Object, or returns at once when it is gone.                   *)
Deliver(p) ==
    /\ phase = "up"
    /\ disp = Idle
    /\ tree[p] # NoV
    /\ LET v == tree[p] IN
       /\ touched' = v
       /\ disp' = IF SpChecked(Lock(v))
                  THEN [stage |-> "called", v |-> v, o |-> Lock(v)]
                  ELSE Idle
    /\ UNCHANGED <<phase, conn, filter, tree, heap, vobj, pvt, nalloc, extref>>

(* The Object's on_new_message returns (its handler may have registered,  *)
(* unregistered or dropped Objects in between), then sp is released.      *)
HandlerReturn ==
    /\ disp.stage = "called"
    /\ touched' = IF TouchesAfterCall THEN disp.v ELSE NoV
    /\ disp' = Idle
    /\ UNCHANGED <<phase, conn, filter, tree, heap, vobj, pvt, nalloc, extref>>

(* Bus::~Bus: remove the filter, dbus_connection_close and                 *)
(* dbus_connection_unref; finalising the connection unregisters every     *)
(* path, deleting its VTable.  No handler runs: the drain holds the Bus.   *)
Destroy ==
    /\ phase = "up"
    /\ disp = Idle
    /\ phase' = "destroyed"
    /\ conn' = "closed"
    /\ filter' = FALSE
    /\ tree' = [p \in Paths |-> NoV]
    /\ heap' = heap \ {tree[p] : p \in Paths}
    /\ UNCHANGED <<vobj, pvt, nalloc, extref, disp>>
    /\ touched' = NoV

BNext ==
    \/ Open \/ AddFilter \/ Hello \/ HandlerReturn \/ Destroy
    \/ OpenWellKnown \/ AddFilterWellKnown
    \/ \E p \in Paths, o \in Objects : Register(p, o)
    \/ \E p \in Paths : Unregister(p) \/ Deliver(p)
    \/ \E o \in Objects : DropObject(o)

BSpec == BInit /\ [][BNext]_bvars

-----------------------------------------------------------------------------
(* on_new_message reads its VTable only while the VTable is allocated,    *)
(* although the Object's handler may unregister the path (deleting the    *)
(* VTable) or drop the Object while it runs.                              *)
VTableReadLive == touched # NoV => touched \in heap

(* Every block register_object_for_path allocates is owned: each VTable   *)
(* by the path it is registered on, and no DBusObjectPathVTable outlives  *)
(* the call (libdbus copies it).  After ~Bus nothing is left.             *)
RegistrationOwned ==
    /\ \A v \in heap : \E p \in Paths : tree[p] = v
    /\ pvt = 0

-----------------------------------------------------------------------------
(* The refinement mapping: the Object a path serves is the one its VTable *)
(* names; the Object a running handler belongs to is the one              *)
(* on_new_message locked.                                                 *)
RegisteredObject(p) == IF tree[p] = NoV THEN NoObj ELSE vobj[tree[p]]

Registry == INSTANCE BusObjectRegistry
                WITH None <- NoObj, open <- (phase = "up"),
                     reg <- [p \in Paths |-> RegisteredObject(p)],
                     alive <- extref, calling <- disp.o

(* The object-path machinery (VTables, the object tree, the weak_ptr and  *)
(* ~Bus) implements the registry the spec describes: a method call        *)
(* reaches only the live Object registered on its path, a registration    *)
(* on a taken path changes nothing, and unregistering one path leaves     *)
(* every other path's Object in place.                                    *)
ObjectsServedAsRegistered == Registry!ASpec
=============================================================================
