-------------------------- MODULE BusObjectsProofs --------------------------
(***************************************************************************)
(* Proofs about the Bus's object paths (BusObjects), for every set of      *)
(* paths and Objects and every allocation bound.                           *)
(***************************************************************************)
EXTENDS BusObjects, TLAPS

USE PathsAssumption, ObjectsAssumption, MaxAllocsAssumption
USE DEF VIds, NoV, NoObj, Phases, Idle

(* Every step keeps the state well typed.                                 *)
LEMMA BTypeStep == BTypeOK /\ [BNext]_bvars => BTypeOK'
  <2> SUFFICES ASSUME BTypeOK, [BNext]_bvars PROVE BTypeOK'
    OBVIOUS
  <2>1. CASE Open \/ OpenWellKnown
    BY <2>1 DEF Open, OpenWellKnown, BTypeOK
  <2>2. CASE AddFilter \/ AddFilterWellKnown
    BY <2>2 DEF AddFilter, AddFilterWellKnown, BTypeOK
  <2>3. CASE Hello
    BY <2>3 DEF Hello, BTypeOK
  <2>4. CASE HandlerReturn
    BY <2>4 DEF HandlerReturn, TouchesAfterCall, BTypeOK
  <2>5. CASE Destroy
    BY <2>5 DEF Destroy, BTypeOK
  <2>6. ASSUME NEW p \in Paths, NEW o \in Objects, Register(p, o) PROVE BTypeOK'
    <3> DEFINE v == nalloc + 1
    <3>1. v \in VIds /\ nalloc' = v
      BY <2>6 DEF Register, BTypeOK
    <3>2. heap' \subseteq VIds /\ vobj' \in [VIds -> Objects \cup {NoObj}]
      BY <2>6, <3>1 DEF Register, BTypeOK
    <3>3. tree' \in [Paths -> VIds \cup {NoV}] /\ pvt' \in Nat
      <4>1. CASE tree[p] = NoV
        <5>1. tree' = [tree EXCEPT ![p] = v] /\ pvt' = pvt + 1
          BY <2>6, <4>1 DEF Register
        <5> QED
          BY <5>1, <3>1 DEF BTypeOK
      <4>2. CASE tree[p] # NoV
        <5>1. tree' = tree /\ pvt' = pvt
          BY <2>6, <4>2 DEF Register
        <5> QED
          BY <5>1 DEF BTypeOK
      <4> QED
        BY <4>1, <4>2
    <3>4. QED
      BY <2>6, <3>1, <3>2, <3>3 DEF Register, BTypeOK
  <2>7. ASSUME NEW p \in Paths, Unregister(p) PROVE BTypeOK'
    BY <2>7 DEF Unregister, BTypeOK
  <2>8. ASSUME NEW p \in Paths, Deliver(p) PROVE BTypeOK'
    <3> DEFINE v == tree[p]
    <3>1. v \in VIds
      BY <2>8 DEF Deliver, BTypeOK
    <3>2. \/ disp' = [stage |-> "called", v |-> v, o |-> Lock(v)] /\ Lock(v) # NoObj
          \/ disp' = Idle
      BY <2>8 DEF Deliver, SpChecked
    <3>3. Lock(v) # NoObj => Lock(v) \in Objects
      BY <3>1 DEF Lock, BTypeOK
    <3>4. disp' \in {Idle} \cup [stage : {"called"}, v : VIds, o : Objects]
      BY <3>1, <3>2, <3>3
    <3>5. QED
      BY <2>8, <3>1, <3>4 DEF Deliver, BTypeOK
  <2>9. ASSUME NEW o \in Objects, DropObject(o) PROVE BTypeOK'
    BY <2>9 DEF DropObject, BTypeOK
  <2>10. CASE UNCHANGED bvars
    BY <2>10 DEF bvars, BTypeOK
  <2>11. QED
    BY <2>1, <2>2, <2>3, <2>4, <2>5, <2>6, <2>7, <2>8, <2>9, <2>10 DEF BNext

LEMMA BTypeCorrectInit == BInit => BTypeOK
  <2> SUFFICES ASSUME BInit PROVE BTypeOK
    OBVIOUS
  <2>1. tree \in [Paths -> VIds \cup {NoV}] /\ vobj \in [VIds -> Objects \cup {NoObj}]
    BY DEF BInit
  <2>2. disp \in {Idle} \cup [stage : {"called"}, v : VIds, o : Objects]
    BY DEF BInit
  <2>3. pvt \in Nat /\ nalloc \in 0..MaxAllocs /\ touched \in VIds \cup {NoV}
    BY DEF BInit
  <2>4. QED
    BY <2>1, <2>2, <2>3 DEF BInit, BTypeOK

(* Type correctness of the object-path model.                             *)
THEOREM BTypeCorrect == BSpec => []BTypeOK
BY BTypeCorrectInit, BTypeStep, PTL DEF BSpec

-----------------------------------------------------------------------------
(* The invariant behind VTableReadLive: libdbus's object tree names only  *)
(* allocated VTables, because unregistering a path and finalising the     *)
(* connection delete exactly the VTables they remove from the tree.  That *)
(* needs every path to hold a VTable of its own, which holds because each *)
(* registration allocates a fresh one: every allocated id is at most the  *)
(* number of registrations so far.                                        *)
HeapBelow == \A v \in heap : v <= nalloc
TreeInHeap == \A p \in Paths : tree[p] # NoV => tree[p] \in heap
TreeInjective == \A p, q \in Paths : p # q /\ tree[p] # NoV => tree[p] # tree[q]
\* Every registered VTable names an Object (the refinement needs it).
TreeNamesObject == \A p \in Paths : tree[p] # NoV => vobj[tree[p]] \in Objects

BIInv == /\ BTypeOK /\ HeapBelow /\ TreeInHeap /\ TreeInjective /\ TreeNamesObject
         /\ VTableReadLive

LEMMA BIInvInit == BInit => BIInv
<1>1. BInit => BTypeOK
  BY BTypeCorrectInit
<1>2. QED
  BY <1>1 DEF BInit, BIInv, HeapBelow, TreeInHeap, TreeInjective, TreeNamesObject, VTableReadLive

LEMMA BIInvStep == BIInv /\ [BNext]_bvars => BIInv'
  <2> SUFFICES ASSUME BIInv, [BNext]_bvars PROVE BIInv'
    OBVIOUS
  <2> DEFINE Rest == HeapBelow /\ TreeInHeap /\ TreeInjective /\ TreeNamesObject
                     /\ VTableReadLive
  <2>0. BTypeOK'
    BY BTypeStep DEF BIInv
  <2>1. ASSUME Open \/ AddFilter \/ Hello \/ OpenWellKnown \/ AddFilterWellKnown PROVE Rest'
    BY <2>1 DEF Open, AddFilter, Hello, OpenWellKnown, AddFilterWellKnown, BIInv, HeapBelow, TreeInHeap, TreeInjective,
                TreeNamesObject, VTableReadLive
  <2>2. ASSUME HandlerReturn PROVE Rest'
    BY <2>2 DEF HandlerReturn, TouchesAfterCall, BIInv, HeapBelow, TreeInHeap,
                TreeInjective, TreeNamesObject, VTableReadLive
  <2>3. ASSUME Destroy PROVE Rest'
    BY <2>3 DEF Destroy, BIInv, BTypeOK, HeapBelow, TreeInHeap, TreeInjective,
                TreeNamesObject, VTableReadLive
  <2>4. ASSUME NEW p \in Paths, NEW o \in Objects, Register(p, o) PROVE Rest'
    (* The new VTable's id is above every allocated one, so it is in no  *)
    (* path of the tree.                                                  *)
    <3> DEFINE v == nalloc + 1
    <3>1. \A q \in Paths : tree[q] # v
      BY DEF BIInv, BTypeOK, HeapBelow, TreeInHeap
    <3>2. heap' = heap \cup {v} /\ nalloc' = v
      BY <2>4 DEF Register
    <3>3. tree' = [tree EXCEPT ![p] = v] \/ tree' = tree
      BY <2>4 DEF Register
    <3>4. HeapBelow'
      BY <3>2 DEF BIInv, BTypeOK, HeapBelow
    <3>5. TreeInHeap'
      BY <3>2, <3>3 DEF BIInv, BTypeOK, TreeInHeap
    <3>6. TreeInjective'
      BY <3>1, <3>3 DEF BIInv, BTypeOK, TreeInjective
    <3>7. VTableReadLive'
      BY <2>4 DEF Register, VTableReadLive
    <3>8. TreeNamesObject'
      BY <2>4, <3>1, <3>3 DEF Register, BIInv, BTypeOK, TreeNamesObject
    <3>9. QED
      BY <3>4, <3>5, <3>6, <3>7, <3>8
  <2>5. ASSUME NEW p \in Paths, Unregister(p) PROVE Rest'
    BY <2>5 DEF Unregister, BIInv, BTypeOK, HeapBelow, TreeInHeap, TreeInjective,
                TreeNamesObject, VTableReadLive
  <2>6. ASSUME NEW p \in Paths, Deliver(p) PROVE Rest'
    BY <2>6 DEF Deliver, BIInv, HeapBelow, TreeInHeap, TreeInjective, TreeNamesObject, VTableReadLive
  <2>7. ASSUME NEW o \in Objects, DropObject(o) PROVE Rest'
    BY <2>7 DEF DropObject, BIInv, HeapBelow, TreeInHeap, TreeInjective, TreeNamesObject, VTableReadLive
  <2>8. ASSUME UNCHANGED bvars PROVE Rest'
    BY <2>8 DEF bvars, BIInv, HeapBelow, TreeInHeap, TreeInjective, TreeNamesObject, VTableReadLive
  <2>9. Rest'
    BY <2>1, <2>2, <2>3, <2>4, <2>5, <2>6, <2>7, <2>8 DEF BNext
  <2>10. QED
    BY <2>0, <2>9 DEF BIInv

(* on_new_message never reads a deleted VTable, for any paths, Objects   *)
(* and handlers that unregister paths or drop Objects while they run.     *)
THEOREM VTableSafe == BSpec => []VTableReadLive
<1>1. BIInv => VTableReadLive
  BY DEF BIInv
<1>2. QED
  BY BIInvInit, BIInvStep, <1>1, PTL DEF BSpec
-----------------------------------------------------------------------------
(* The refinement.  Each step of the Bus maps to a step of the registry   *)
(* or leaves the mapped state alone; BIInv supplies what the mapping      *)
(* needs: a fresh VTable is in no path, and a registered one names an      *)
(* Object.                                                                *)
RegOf == [p \in Paths |-> RegisteredObject(p)]

LEMMA RefineInit == BInit => Registry!AInit
BY DEF BInit, Registry!AInit, RegisteredObject

LEMMA RefineStep == BIInv /\ [BNext]_bvars => [Registry!ANext]_Registry!avars
  <2> SUFFICES ASSUME BIInv, [BNext]_bvars PROVE [Registry!ANext]_Registry!avars
    OBVIOUS
  <2> USE DEF Registry!avars
  <2>1. ASSUME Open \/ AddFilter \/ OpenWellKnown PROVE UNCHANGED Registry!avars
    BY <2>1 DEF Open, AddFilter, OpenWellKnown, RegisteredObject
  (* The WellKnownBus constructor returns once the filter is installed.   *)
  <2>12. ASSUME AddFilterWellKnown PROVE Registry!AOpen
    BY <2>12 DEF AddFilterWellKnown, Registry!AOpen, RegisteredObject
  <2>2. ASSUME Hello PROVE [Registry!ANext]_Registry!avars
    <3>1. CASE phase' = "up"
      BY <2>2, <3>1 DEF Hello, Registry!ANext, Registry!AOpen, RegisteredObject
    <3>2. CASE phase' = "threw"
      BY <2>2, <3>2 DEF Hello, RegisteredObject
    <3>3. QED
      BY <2>2, <3>1, <3>2 DEF Hello
  <2>3. ASSUME HandlerReturn PROVE Registry!AReturn
    <3>1. disp.o \in Objects
      BY <2>3 DEF HandlerReturn, BIInv, BTypeOK
    <3>2. QED
      BY <2>3, <3>1 DEF HandlerReturn, Registry!AReturn, RegisteredObject
  <2>4. ASSUME Destroy PROVE Registry!AClose
    BY <2>4 DEF Destroy, Registry!AClose, RegisteredObject
  <2>5. ASSUME NEW p \in Paths, NEW o \in Objects, Register(p, o)
        PROVE [Registry!ANext]_Registry!avars
    <3> DEFINE v == nalloc + 1
    <3>1. \A q \in Paths : tree[q] # v
      BY DEF BIInv, BTypeOK, HeapBelow, TreeInHeap
    <3>2. \A q \in Paths : tree[q] # NoV => vobj'[tree[q]] = vobj[tree[q]]
      BY <2>5, <3>1 DEF Register, BIInv, BTypeOK
    <3>3. CASE tree[p] = NoV
      <4>1. tree' = [tree EXCEPT ![p] = v] /\ vobj'[v] = o
        BY <2>5, <3>3 DEF Register, BIInv, BTypeOK
      <4>2. RegOf'[p] = o
        BY <4>1 DEF RegOf, RegisteredObject, BIInv, BTypeOK
      <4>3. \A q \in Paths \ {p} : RegOf'[q] = RegOf[q]
        BY <3>2, <4>1 DEF RegOf, RegisteredObject, BIInv, BTypeOK
      <4>4. RegOf' = [RegOf EXCEPT ![p] = o]
        BY <4>2, <4>3 DEF RegOf
      <4>5. Registry!ARegister(p, o)
        BY <2>5, <3>3, <4>4 DEF Register, Registry!ARegister, RegOf, RegisteredObject
      <4>6. QED
        BY <4>5 DEF Registry!ANext
    <3>4. CASE tree[p] # NoV
      <4>1. tree' = tree
        BY <2>5, <3>4 DEF Register
      <4>2. RegOf' = RegOf
        BY <3>2, <4>1 DEF RegOf, RegisteredObject
      <4>3. QED
        BY <2>5, <4>2 DEF Register, RegOf
    <3>5. QED
      BY <3>3, <3>4
  <2>6. ASSUME NEW p \in Paths, Unregister(p) PROVE Registry!AUnregister(p)
    BY <2>6 DEF Unregister, Registry!AUnregister, RegisteredObject, BIInv,
                TreeNamesObject, BTypeOK
  <2>7. ASSUME NEW o \in Objects, DropObject(o) PROVE Registry!ADrop(o)
    BY <2>7 DEF DropObject, Registry!ADrop, RegisteredObject
  <2>8. ASSUME NEW p \in Paths, Deliver(p) PROVE [Registry!ANext]_Registry!avars
    <3> DEFINE v == tree[p]
    <3>1. vobj[v] \in Objects
      BY <2>8 DEF Deliver, BIInv, TreeNamesObject
    <3>2. CASE SpChecked(Lock(v))
      <4>1. Lock(v) = vobj[v] /\ extref[vobj[v]]
        BY <3>1, <3>2 DEF SpChecked, Lock
      <4>2. /\ disp'.o = vobj[v] /\ disp.o = NoObj
            /\ UNCHANGED <<phase, tree, vobj, extref>> /\ phase = "up" /\ v # NoV
        BY <2>8, <3>2, <4>1 DEF Deliver
      <4>3. Registry!ACall(p)
        BY <3>1, <4>1, <4>2 DEF Registry!ACall, RegisteredObject
      <4>4. QED
        BY <4>3 DEF Registry!ANext
    <3>3. CASE ~SpChecked(Lock(v))
      BY <2>8, <3>3 DEF Deliver, RegisteredObject
    <3>4. QED
      BY <3>2, <3>3
  <2>9. ASSUME UNCHANGED bvars PROVE UNCHANGED Registry!avars
    BY <2>9 DEF bvars, RegisteredObject
  <2>10. QED
    BY <2>1, <2>2, <2>3, <2>4, <2>5, <2>6, <2>7, <2>8, <2>9, <2>12 DEF BNext, Registry!ANext

(* The Bus's object paths implement the object registry of the spec, for *)
(* any paths, Objects and allocation bound: register_object_for_path,     *)
(* unregister_object_path, on_new_message and ~Bus only ever do what the  *)
(* registry allows.                                                       *)
THEOREM Refinement == BSpec => ObjectsServedAsRegistered
<1>1. BIInv /\ [BNext]_bvars => BIInv'
  BY BIInvStep
<1>2. QED
  BY BIInvInit, <1>1, RefineInit, RefineStep, PTL
     DEF BSpec, ObjectsServedAsRegistered, Registry!ASpec
=============================================================================
