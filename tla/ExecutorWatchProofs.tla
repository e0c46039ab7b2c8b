------------------------- MODULE ExecutorWatchProofs -------------------------
(***************************************************************************)
(* Proofs about the watch adapter of the asio executor (ExecutorWatch),   *)
(* for every set of watches, every flag assignment and every bound.       *)
(***************************************************************************)
EXTENDS ExecutorWatch, TLAPS

USE WatchesAssumption, FlagsAssumption, MaxGenAssumption, MaxPendingAssumption
(* The constant sets of the model are expanded everywhere.               *)
USE DEF Dirs, Gens, Objs, ECs, Keys, WatchStates, NoObj, NoAccess, Accesses, NoOps

(* NoObj, the "no handler running" marker, is no adapter object.          *)
LEMMA NoObjNotObj == NoObj \notin Objs
BY DEF NoObj, Objs, Gens

(* restart() and cancel() keep the operation counts natural numbers.      *)
LEMMA RestartedType ==
    ASSUME NEW p \in [Objs -> [Dirs -> Nat]], NEW o
    PROVE  Restarted(p, o) \in [Objs -> [Dirs -> Nat]]
<1> DEFINE armed == [d \in Dirs |-> IF d \in Flags[o[1]] THEN p[o][d] + 1 ELSE p[o][d]]
<1>1. CASE o \in Objs
  <2>1. armed \in [Dirs -> Nat]
    BY <1>1
  <2>2. Restarted(p, o) = [p EXCEPT ![o] = armed]
    BY DEF Restarted
  <2>3. QED
    BY <2>1, <2>2
<1>2. CASE o \notin Objs
  BY <1>2 DEF Restarted
<1>3. QED
  BY <1>1, <1>2

LEMMA CancelledType ==
    ASSUME NEW p \in [Objs -> [Dirs -> Nat]], NEW o
    PROVE  /\ Cancelled(p, o) \in [Objs -> [Dirs -> Nat]]
           /\ Destroy(p, o) \in [Objs -> [Dirs -> Nat]]
BY DEF Cancelled, Destroy, NoOps

-----------------------------------------------------------------------------
(* Every step of the adapter and of libdbus keeps the state well typed.   *)
LEMMA TypeStep == TypeOK /\ [Next]_vars => TypeOK'
  <2> SUFFICES ASSUME TypeOK, [Next]_vars PROVE TypeOK'
    OBVIOUS
  <2>1. ASSUME NEW w \in Watches, AddWatch(w) PROVE TypeOK'
    <3>1. PICK en \in BOOLEAN :
            /\ enabled' = [enabled EXCEPT ![w] = en]
            /\ IF en
               THEN /\ gen[w] < MaxGen
                    /\ gen' = [gen EXCEPT ![w] = @ + 1]
                    /\ data' = [data EXCEPT ![w] = gen[w] + 1]
                    /\ pending' = Restarted(Destroy(pending, <<w, data[w]>>), <<w, gen[w] + 1>>)
               ELSE UNCHANGED <<data, gen, pending>>
      BY <2>1 DEF AddWatch
    <3>2. CASE en
      <4>1. pending' = Restarted(Destroy(pending, <<w, data[w]>>), <<w, gen[w] + 1>>)
        BY <3>1, <3>2
      <4>2. Destroy(pending, <<w, data[w]>>) \in [Objs -> [Dirs -> Nat]]
        BY CancelledType DEF TypeOK
      <4>3. pending' \in [Objs -> [Dirs -> Nat]]
        BY <4>1, <4>2, RestartedType
      <4>4. gen[w] < MaxGen /\ gen' = [gen EXCEPT ![w] = @ + 1]
                            /\ data' = [data EXCEPT ![w] = gen[w] + 1]
        BY <3>1, <3>2
      <4>5. gen' \in [Watches -> 0..MaxGen] /\ data' \in [Watches -> 0..MaxGen]
        BY <4>4 DEF TypeOK
      <4>6. QED
        BY <2>1, <3>1, <4>3, <4>5 DEF AddWatch, TypeOK
    <3>3. CASE ~en
      <4>1. UNCHANGED <<data, gen, pending>>
        BY <3>1, <3>3
      <4>2. QED
        BY <2>1, <3>1, <4>1 DEF AddWatch, TypeOK
    <3>4. QED
      BY <3>2, <3>3
  <2>2. ASSUME NEW w \in Watches, RemoveWatch(w) PROVE TypeOK'
    BY <2>2, CancelledType DEF RemoveWatch, TypeOK
  <2>3. ASSUME NEW w \in Watches, ToggleWatch(w) PROVE TypeOK'
    <3> DEFINE o == <<w, data[w]>>
    <3>1. \/ pending' = pending
          \/ pending' = Restarted(pending, o)
          \/ pending' = Cancelled(pending, o)
      BY <2>3 DEF ToggleWatch
    <3>2. pending' \in [Objs -> [Dirs -> Nat]]
      <4>1. Restarted(pending, o) \in [Objs -> [Dirs -> Nat]]
        BY RestartedType DEF TypeOK
      <4>2. Cancelled(pending, o) \in [Objs -> [Dirs -> Nat]]
        BY CancelledType DEF TypeOK
      <4>3. QED
        BY <3>1, <4>1, <4>2 DEF TypeOK
    <3>3. enabled' \in [Watches -> BOOLEAN]
      BY <2>3 DEF ToggleWatch, TypeOK
    <3>4. access' \in Accesses /\ UNCHANGED <<wstate, data, gen, queued, strong, running, failed>>
      BY <2>3 DEF ToggleWatch
    <3>5. QED
      BY <3>2, <3>3, <3>4 DEF TypeOK
  <2>4. ASSUME NEW w \in Watches, FreeWatch(w) PROVE TypeOK'
    <3>1. pending' = Destroy(pending, <<w, data[w]>>)
      BY <2>4 DEF FreeWatch
    <3>2. pending' \in [Objs -> [Dirs -> Nat]]
      BY <3>1, CancelledType DEF TypeOK
    <3>3. wstate' \in [Watches -> WatchStates]
      BY <2>4 DEF FreeWatch, TypeOK
    <3>4. data' \in [Watches -> 0..MaxGen]
      BY <2>4 DEF FreeWatch, TypeOK
    <3>5. access' \in Accesses
      BY <2>4 DEF FreeWatch
    <3>6. UNCHANGED <<enabled, gen, queued, strong, running, failed>>
      BY <2>4 DEF FreeWatch
    <3>7. QED
      BY <3>2, <3>3, <3>4, <3>5, <3>6 DEF TypeOK
  <2>5. ASSUME NEW o \in Objs, NEW d \in Dirs, NEW ec \in ECs, Complete(o, d, ec)
        PROVE TypeOK'
    BY <2>5 DEF Complete, TypeOK, Keys, NoAccess, Accesses
  <2>6. ASSUME NEW k \in Keys, RunHandler(k[1], k[2], k[3]) PROVE TypeOK'
    <3>1. k[1] \in Objs /\ k[2] \in Dirs /\ k = <<k[1], k[2], k[3]>>
      BY DEF Keys
    <3>2. QED
      BY <2>6, <3>1 DEF RunHandler, TypeOK, NoAccess, Accesses, Objs
  <2>7. ASSUME HandlerReturn PROVE TypeOK'
    <3>1. strong \in Objs
      BY <2>7, NoObjNotObj DEF HandlerReturn, TypeOK
    <3>2. \/ pending' = pending
          \/ pending' = Restarted(pending, strong)
          \/ pending' = Cancelled(pending, strong)
      BY <2>7 DEF HandlerReturn
    <3>3. pending' \in [Objs -> [Dirs -> Nat]]
      <4>1. Restarted(pending, strong) \in [Objs -> [Dirs -> Nat]]
        BY RestartedType DEF TypeOK
      <4>2. Cancelled(pending, strong) \in [Objs -> [Dirs -> Nat]]
        BY CancelledType DEF TypeOK
      <4>3. QED
        BY <3>2, <4>1, <4>2 DEF TypeOK
    <3>4. access' \in Accesses
      BY <2>7, <3>1 DEF HandlerReturn, TypeOK
    <3>5. running' \in BOOLEAN /\ strong' = NoObj
      BY <2>7 DEF HandlerReturn, TypeOK
    <3>6. UNCHANGED <<wstate, enabled, data, gen, queued, failed>>
      BY <2>7 DEF HandlerReturn
    <3>7. QED
      BY <3>3, <3>4, <3>5, <3>6 DEF TypeOK
  <2>8. CASE UNCHANGED vars
    BY <2>8 DEF vars, TypeOK
  <2>9. QED
    BY <2>1, <2>2, <2>3, <2>4, <2>5, <2>6, <2>7, <2>8 DEF Next

(* Type correctness: every reachable state of the adapter is well typed.  *)
THEOREM TypeCorrect == Spec => []TypeOK
<1>1. Init => TypeOK
  BY DEF Init, TypeOK, NoObj, NoAccess, Accesses, NoOps, Objs, Gens
<1>2. QED
  BY <1>1, TypeStep, PTL DEF Spec

-----------------------------------------------------------------------------
(* The inductive invariant behind HandleOnLiveWatch: a watch whose data   *)
(* names an adapter has not been freed (libdbus frees the data with the   *)
(* watch, and on_dbus_add_watch only sees live watches).                  *)
DataOnLiveWatch == \A w \in Watches : data[w] # 0 => wstate[w] # "freed"

IInv == TypeOK /\ DataOnLiveWatch /\ HandleOnLiveWatch

(* The weak_ptr guard: dbus_watch_handle is never called on a freed       *)
(* DBusWatch, for any number of watches, adapters and queued handlers.    *)
THEOREM HandleSafe == Spec => []HandleOnLiveWatch
<1>1. Init => IInv
  BY DEF Init, IInv, TypeOK, DataOnLiveWatch, HandleOnLiveWatch,
         NoObj, NoAccess, Accesses, NoOps, Objs, Gens
<1>2. IInv /\ [Next]_vars => IInv'
  <2> SUFFICES ASSUME IInv, [Next]_vars PROVE IInv'
    OBVIOUS
  <2>0. TypeOK'
    BY TypeStep DEF IInv
  <2>1. ASSUME NEW w \in Watches, AddWatch(w) PROVE DataOnLiveWatch' /\ HandleOnLiveWatch'
    BY <2>1 DEF AddWatch, IInv, TypeOK, DataOnLiveWatch, HandleOnLiveWatch, NoAccess
  <2>2. ASSUME NEW w \in Watches, RemoveWatch(w) PROVE DataOnLiveWatch' /\ HandleOnLiveWatch'
    BY <2>2 DEF RemoveWatch, IInv, TypeOK, DataOnLiveWatch, HandleOnLiveWatch, NoAccess
  <2>3. ASSUME NEW w \in Watches, ToggleWatch(w) PROVE DataOnLiveWatch' /\ HandleOnLiveWatch'
    BY <2>3 DEF ToggleWatch, IInv, TypeOK, DataOnLiveWatch, HandleOnLiveWatch, NoAccess
  <2>4. ASSUME NEW w \in Watches, FreeWatch(w) PROVE DataOnLiveWatch' /\ HandleOnLiveWatch'
    BY <2>4 DEF FreeWatch, IInv, TypeOK, DataOnLiveWatch, HandleOnLiveWatch, NoAccess
  <2>5. ASSUME NEW o \in Objs, NEW d \in Dirs, NEW ec \in ECs, Complete(o, d, ec)
        PROVE DataOnLiveWatch' /\ HandleOnLiveWatch'
    BY <2>5 DEF Complete, IInv, DataOnLiveWatch, HandleOnLiveWatch, NoAccess
  <2>6. ASSUME NEW k \in Keys, RunHandler(k[1], k[2], k[3])
        PROVE DataOnLiveWatch' /\ HandleOnLiveWatch'
    <3>1. k[1] \in Objs
      BY DEF Keys
    <3>2. CASE Alive(k[1])
      (* No handler is running, so the lock succeeded through the Holder. *)
      <4>1. data[k[1][1]] = k[1][2] /\ k[1][2] # 0
        BY <2>6, <3>1, <3>2, NoObjNotObj DEF RunHandler, Alive, Objs, Gens
      <4>2. wstate[k[1][1]] # "freed"
        BY <4>1, <3>1 DEF IInv, DataOnLiveWatch, Objs
      <4>3. QED
        BY <2>6, <3>2, <4>2 DEF RunHandler, IInv, DataOnLiveWatch, HandleOnLiveWatch
    <3>3. CASE ~Alive(k[1])
      BY <2>6, <3>3 DEF RunHandler, IInv, DataOnLiveWatch, HandleOnLiveWatch, NoAccess
    <3>4. QED
      BY <3>2, <3>3
  <2>7. ASSUME HandlerReturn PROVE DataOnLiveWatch' /\ HandleOnLiveWatch'
    BY <2>7 DEF HandlerReturn, IInv, DataOnLiveWatch, HandleOnLiveWatch, NoAccess
  <2>8. CASE UNCHANGED vars
    BY <2>8 DEF vars, IInv, TypeOK, DataOnLiveWatch, HandleOnLiveWatch
  <2>9. QED
    BY <2>0, <2>1, <2>2, <2>3, <2>4, <2>5, <2>6, <2>7, <2>8 DEF Next, IInv
<1>3. IInv => HandleOnLiveWatch
  BY DEF IInv
<1>4. QED
  BY <1>1, <1>2, <1>3, PTL DEF Spec
-----------------------------------------------------------------------------
(* The inductive invariant behind InterestKept.  While a success handler *)
(* of a watch's current adapter runs, the operation it completed is gone  *)
(* and not yet re-armed: restart() in HandlerReturn re-arms it.  So the   *)
(* invariant also admits "that adapter's handler is running", and it      *)
(* needs every watch's adapter to be older than the next one              *)
(* on_dbus_add_watch creates.                                             *)
Current(w) == <<w, data[w]>>
Watched(w) == running /\ wstate[w] = "added" /\ enabled[w] /\ data[w] # 0
Kept(w, d) ==
    \/ <<Current(w), d>> \in failed
    \/ Outstanding(Current(w), d) > 0
    \/ strong = Current(w)
InterestOrHandling == \A w \in Watches : Watched(w) => \A d \in Flags[w] : Kept(w, d)
DataBelowGen == \A w \in Watches : data[w] <= gen[w]

KInv == TypeOK /\ DataBelowGen /\ InterestOrHandling

(* restart() arms one more operation in each direction of the flags.     *)
LEMMA RestartedArmed ==
    ASSUME NEW p \in [Objs -> [Dirs -> Nat]], NEW o \in Objs, NEW d \in Dirs,
           d \in Flags[o[1]]
    PROVE  Restarted(p, o)[o][d] = p[o][d] + 1
BY DEF Restarted

LEMMA KInvInit == Init => KInv
BY DEF Init, KInv, TypeOK, DataBelowGen, InterestOrHandling, Watched,
       NoObj, NoAccess, Accesses, NoOps, Objs, Gens

(* A step that leaves the current adapter's counts, failed, strong and    *)
(* running alone keeps a watch's interest.                                *)
LEMMA KeptFrame ==
    ASSUME NEW w \in Watches, NEW d \in Dirs, Kept(w, d),
           Current(w)' = Current(w), failed' = failed, strong' = strong,
           Outstanding(Current(w), d)' = Outstanding(Current(w), d)
    PROVE  Kept(w, d)'
BY DEF Kept

(* The same when the interest did not rest on the running handler, which *)
(* may return in the step.                                                 *)
LEMMA KeptUnstrong ==
    ASSUME NEW w \in Watches, NEW d \in Dirs, Kept(w, d), strong # Current(w),
           Current(w)' = Current(w), failed \subseteq failed',
           Outstanding(Current(w), d)' = Outstanding(Current(w), d)
    PROVE  Kept(w, d)'
BY DEF Kept

LEMMA KInvStep == KInv /\ [Next]_vars => KInv'
  <2> SUFFICES ASSUME KInv, [Next]_vars PROVE KInv'
    OBVIOUS
  <2> USE DEF KInv
  <2>0. TypeOK'
    BY TypeStep
  <2>1. ASSUME NEW w \in Watches, AddWatch(w) PROVE DataBelowGen' /\ InterestOrHandling'
    <3>1. PICK en \in BOOLEAN :
            /\ enabled' = [enabled EXCEPT ![w] = en]
            /\ IF en
               THEN /\ gen[w] < MaxGen
                    /\ gen' = [gen EXCEPT ![w] = @ + 1]
                    /\ data' = [data EXCEPT ![w] = gen[w] + 1]
                    /\ pending' = Restarted(Destroy(pending, <<w, data[w]>>), <<w, gen[w] + 1>>)
               ELSE UNCHANGED <<data, gen, pending>>
      BY <2>1 DEF AddWatch
    <3>2. CASE ~en
      BY <2>1, <3>1, <3>2 DEF AddWatch, TypeOK, DataBelowGen, InterestOrHandling, Watched,
                              Kept, Current, Outstanding
    <3>3. CASE en
      <4>1. DataBelowGen'
        BY <3>1, <3>3 DEF TypeOK, DataBelowGen
      <4>2. SUFFICES ASSUME NEW x \in Watches, Watched(x)', NEW d \in Flags[x]
                     PROVE Kept(x, d)'
        BY <4>1 DEF InterestOrHandling
      <4>3. Destroy(pending, <<w, data[w]>>) \in [Objs -> [Dirs -> Nat]]
        BY CancelledType DEF TypeOK
      <4>4. CASE x = w
        (* The new adapter is armed in every direction of the flags.     *)
        <5>1. Current(x)' = <<w, gen[w] + 1>> /\ <<w, gen[w] + 1>> \in Objs
          BY <3>1, <3>3, <4>4 DEF Current, TypeOK
        <5>2. pending'[<<w, gen[w] + 1>>][d] > 0
          <6> DEFINE D == Destroy(pending, <<w, data[w]>>)
                     n == <<w, gen[w] + 1>>
          <6>1. d \in Flags[n[1]] /\ d \in Dirs
            BY <4>4
          <6>2. pending' = Restarted(D, n)
            BY <3>1, <3>3
          <6>3. Restarted(D, n)[n][d] = D[n][d] + 1
            BY <4>3, <5>1, <6>1, RestartedArmed
          <6>4. D[n][d] \in Nat
            BY <4>3, <5>1, <6>1
          <6>5. QED
            BY <6>2, <6>3, <6>4
        <5>3. QED
          BY <2>0, <5>1, <5>2 DEF Kept, Outstanding, TypeOK
      <4>5. CASE x # w
        <5>0. /\ data'[x] = data[x] /\ wstate'[x] = wstate[x] /\ enabled'[x] = enabled[x]
              /\ running' = running
          BY <2>1, <3>1, <3>3, <4>5 DEF AddWatch, TypeOK
        <5>1. Current(x)' = Current(x) /\ Current(x)[1] # w
          BY <5>0, <4>5 DEF Current
        <5>3. Watched(x) /\ d \in Dirs
          BY <4>2, <5>0 DEF Watched
        <5>2. pending'[Current(x)] = pending[Current(x)]
          <6> DEFINE D == Destroy(pending, <<w, data[w]>>)
                     n == <<w, gen[w] + 1>>
                     c == Current(x)
          <6>1. c \in Objs /\ c # <<w, data[w]>> /\ c # n /\ n \in Objs
            BY <5>3, <4>5, <3>1, <3>3 DEF Current, Watched, TypeOK
          <6>2. pending' = Restarted(D, n)
            BY <3>1, <3>3
          <6>3. Restarted(D, n)[c] = D[c]
            BY <4>3, <6>1 DEF Restarted
          <6>4. D[c] = pending[c]
            BY <6>1 DEF Destroy, Cancelled, TypeOK
          <6>5. QED
            BY <6>2, <6>3, <6>4
        <5>4. Kept(x, d)
          BY <5>3 DEF InterestOrHandling
        <5>5. QED
          BY <2>1, <5>1, <5>2, <5>4, KeptFrame DEF AddWatch, Outstanding
      <4>6. QED
        BY <4>4, <4>5
    <3>4. QED
      BY <3>2, <3>3
  <2>2. ASSUME NEW w \in Watches, RemoveWatch(w) PROVE DataBelowGen' /\ InterestOrHandling'
    <3>1. DataBelowGen'
      BY <2>2 DEF RemoveWatch, DataBelowGen
    <3>2. SUFFICES ASSUME NEW x \in Watches, Watched(x)', NEW d \in Flags[x]
                   PROVE Kept(x, d)'
      BY <3>1 DEF InterestOrHandling
    <3>3. x # w /\ Watched(x) /\ d \in Dirs /\ Current(x)' = Current(x)
      BY <2>2, <3>2 DEF RemoveWatch, Watched, Current, TypeOK
    <3>4. Current(x) \in Objs /\ Current(x) # <<w, data[w]>>
      BY <3>3 DEF Watched, Current, TypeOK
    <3>5. pending'[Current(x)] = pending[Current(x)]
      BY <2>2, <3>4 DEF RemoveWatch, Cancelled, TypeOK
    <3>6. Kept(x, d)
      BY <3>3 DEF InterestOrHandling
    <3>7. QED
      BY <2>2, <3>3, <3>5, <3>6, KeptFrame DEF RemoveWatch, Outstanding
  <2>3. ASSUME NEW w \in Watches, ToggleWatch(w) PROVE DataBelowGen' /\ InterestOrHandling'
    <3> DEFINE o == <<w, data[w]>>
    <3>1. DataBelowGen'
      BY <2>3 DEF ToggleWatch, DataBelowGen
    <3>2. SUFFICES ASSUME NEW x \in Watches, Watched(x)', NEW d \in Flags[x]
                   PROVE Kept(x, d)'
      BY <3>1 DEF InterestOrHandling
    <3>3. Current(x)' = Current(x) /\ running' = running
      BY <2>3 DEF ToggleWatch, Current
    <3>4. CASE x = w
      (* Re-enabling a watch with an adapter re-arms it (restart()).      *)
      <4>1. ~enabled[w] /\ data[w] # 0 /\ d \in Dirs /\ d \in Flags[o[1]]
        BY <2>3, <3>2, <3>4 DEF ToggleWatch, Watched, TypeOK
      <4>2. pending' = Restarted(pending, o)
        BY <2>3, <4>1 DEF ToggleWatch
      <4>3. o \in Objs
        BY <4>1 DEF TypeOK
      <4>4. pending'[o][d] = pending[o][d] + 1
        BY <4>1, <4>2, <4>3 DEF Restarted, TypeOK
      <4>5. QED
        BY <2>3, <3>3, <3>4, <4>3, <4>4 DEF ToggleWatch, Kept, Outstanding, Current, TypeOK
    <3>5. CASE x # w
      <4>1. Watched(x) /\ d \in Dirs
        BY <2>3, <3>2, <3>5 DEF ToggleWatch, Watched, TypeOK
      <4>2. Current(x) \in Objs /\ Current(x) # o
        BY <4>1, <3>5 DEF Watched, Current, TypeOK
      <4>3. pending'[Current(x)] = pending[Current(x)]
        BY <2>3, <4>2 DEF ToggleWatch, Restarted, Cancelled, TypeOK
      <4>4. Kept(x, d)
        BY <4>1 DEF InterestOrHandling
      <4>5. QED
        BY <2>3, <3>3, <4>1, <4>3, <4>4, KeptFrame DEF ToggleWatch, Outstanding
    <3>6. QED
      BY <3>4, <3>5
  <2>4. ASSUME NEW w \in Watches, FreeWatch(w) PROVE DataBelowGen' /\ InterestOrHandling'
    <3>1. DataBelowGen'
      BY <2>4 DEF FreeWatch, DataBelowGen, TypeOK
    <3>2. SUFFICES ASSUME NEW x \in Watches, Watched(x)', NEW d \in Flags[x]
                   PROVE Kept(x, d)'
      BY <3>1 DEF InterestOrHandling
    <3>3. x # w /\ Watched(x) /\ d \in Dirs /\ Current(x)' = Current(x)
      BY <2>4, <3>2 DEF FreeWatch, Watched, Current, TypeOK
    <3>4. Current(x) \in Objs /\ Current(x) # <<w, data[w]>>
      BY <3>3 DEF Watched, Current, TypeOK
    <3>5. pending'[Current(x)] = pending[Current(x)]
      BY <2>4, <3>4 DEF FreeWatch, Destroy, Cancelled, TypeOK
    <3>6. Kept(x, d)
      BY <3>3 DEF InterestOrHandling
    <3>7. QED
      BY <2>4, <3>3, <3>5, <3>6, KeptFrame DEF FreeWatch, Outstanding
  <2>5. ASSUME NEW o \in Objs, NEW d0 \in Dirs, NEW ec \in ECs, Complete(o, d0, ec)
        PROVE DataBelowGen' /\ InterestOrHandling'
    (* Completion moves an operation into the handler queue.               *)
    <3>1. DataBelowGen'
      BY <2>5 DEF Complete, DataBelowGen
    <3>2. SUFFICES ASSUME NEW x \in Watches, Watched(x)', NEW d \in Flags[x]
                   PROVE Kept(x, d)'
      BY <3>1 DEF InterestOrHandling
    <3>3. Watched(x) /\ d \in Dirs /\ Current(x)' = Current(x)
      BY <2>5, <3>2 DEF Complete, Watched, Current
    <3>4. Current(x) \in Objs
      BY <3>3 DEF Watched, Current, TypeOK
    <3>5. Outstanding(Current(x), d)' = Outstanding(Current(x), d)
      <4> DEFINE c == Current(x)
      <4>1. CASE c = o /\ d = d0 /\ ec = "ok"
        <5>1. pending'[c][d] = pending[c][d] - 1 /\ pending[c][d] > 0
          BY <2>5, <3>3, <4>1 DEF Complete, TypeOK
        <5>2. queued'[<<c, d, "ok">>] = queued[<<c, d, "ok">>] + 1
              /\ queued'[<<c, d, "error">>] = queued[<<c, d, "error">>]
          BY <2>5, <3>4, <4>1 DEF Complete, TypeOK
        <5>3. QED
          BY <3>3, <3>4, <5>1, <5>2 DEF Outstanding, TypeOK
      <4>2. CASE c = o /\ d = d0 /\ ec = "error"
        <5>1. pending'[c][d] = pending[c][d] - 1 /\ pending[c][d] > 0
          BY <2>5, <3>3, <4>2 DEF Complete, TypeOK
        <5>2. queued'[<<c, d, "error">>] = queued[<<c, d, "error">>] + 1
              /\ queued'[<<c, d, "ok">>] = queued[<<c, d, "ok">>]
          BY <2>5, <3>4, <4>2 DEF Complete, TypeOK
        <5>3. QED
          BY <3>3, <3>4, <5>1, <5>2 DEF Outstanding, TypeOK
      <4>3. CASE ~(c = o /\ d = d0)
        <5>1. pending'[c][d] = pending[c][d]
          BY <2>5, <3>3, <3>4, <4>3 DEF Complete, TypeOK
        <5>2. queued'[<<c, d, "ok">>] = queued[<<c, d, "ok">>]
              /\ queued'[<<c, d, "error">>] = queued[<<c, d, "error">>]
          BY <2>5, <3>3, <3>4, <4>3 DEF Complete, TypeOK
        <5>3. QED
          BY <3>3, <5>1, <5>2 DEF Outstanding
      <4>4. QED
        BY <4>1, <4>2, <4>3 DEF ECs
    <3>6. Kept(x, d)
      BY <3>3 DEF InterestOrHandling
    <3>7. QED
      BY <2>5, <3>3, <3>5, <3>6, KeptFrame DEF Complete
  <2>6. ASSUME NEW k \in Keys, RunHandler(k[1], k[2], k[3])
        PROVE DataBelowGen' /\ InterestOrHandling'
    <3> DEFINE o == k[1]
               d0 == k[2]
               ec == k[3]
    <3>0. o \in Objs /\ d0 \in Dirs /\ ec \in ECs /\ k = <<o, d0, ec>>
      BY DEF Keys
    <3>1. DataBelowGen'
      BY <2>6 DEF RunHandler, DataBelowGen
    <3>2. SUFFICES ASSUME NEW x \in Watches, Watched(x)', NEW d \in Flags[x]
                   PROVE Kept(x, d)'
      BY <3>1 DEF InterestOrHandling
    <3>3. Watched(x) /\ d \in Dirs /\ Current(x)' = Current(x) /\ strong = NoObj
      BY <2>6, <3>2 DEF RunHandler, Watched, Current
    <3>4. Current(x) \in Objs /\ Current(x) # NoObj
      BY <3>3, NoObjNotObj DEF Watched, Current, TypeOK
    <3>5. Kept(x, d)
      BY <3>3 DEF InterestOrHandling
    <3>6. failed \subseteq failed'
      BY <2>6 DEF RunHandler
    <3>7. CASE Current(x) = o /\ d = d0 /\ Alive(o)
      (* The handler of the watch's own operation: a success holds the    *)
      (* adapter in `sp`, an error is recorded.                            *)
      <4>1. CASE ec = "ok"
        BY <2>6, <3>3, <3>7, <4>1 DEF RunHandler, Kept
      <4>2. CASE ec = "error"
        BY <2>6, <3>3, <3>7, <4>2 DEF RunHandler, Kept
      <4>3. QED
        BY <3>0, <4>1, <4>2
    <3>8. CASE ~(Current(x) = o /\ d = d0 /\ Alive(o))
      <4>1. <<Current(x), d, "ok">> # k /\ <<Current(x), d, "error">> # k
        BY <3>0, <3>8 DEF Alive, Current
      <4>2. Outstanding(Current(x), d)' = Outstanding(Current(x), d)
        BY <2>6, <3>0, <3>3, <3>4, <4>1 DEF RunHandler, Outstanding, TypeOK
      <4>3. QED
        BY <3>3, <3>4, <3>5, <3>6, <4>2, KeptUnstrong
    <3>9. QED
      BY <3>7, <3>8
  <2>7. ASSUME HandlerReturn PROVE DataBelowGen' /\ InterestOrHandling'
    <3> DEFINE s == strong
               dead == data[s[1]] # s[2]
    <3>0. s \in Objs /\ strong' = NoObj /\ UNCHANGED <<wstate, enabled, data, gen, queued, failed>>
      BY <2>7, NoObjNotObj DEF HandlerReturn, TypeOK
    <3>1. DataBelowGen'
      BY <3>0 DEF DataBelowGen
    <3>2. SUFFICES ASSUME NEW x \in Watches, Watched(x)', NEW d \in Flags[x]
                   PROVE Kept(x, d)'
      BY <3>1 DEF InterestOrHandling
    <3>3. running' = running
          /\ pending' = IF dead THEN Cancelled(pending, s) ELSE Restarted(pending, s)
      BY <2>7, <3>2 DEF HandlerReturn, Watched
    <3>4. Watched(x) /\ d \in Dirs /\ Current(x)' = Current(x) /\ Current(x) \in Objs
      BY <3>0, <3>2, <3>3 DEF Watched, Current, TypeOK
    <3>5. Kept(x, d)
      BY <3>4 DEF InterestOrHandling
    <3>6. CASE s = Current(x)
      (* The handler of the current adapter returns: restart() re-arms.   *)
      <4>1. ~dead /\ d \in Flags[s[1]]
        BY <3>6 DEF Current
      <4>2. pending'[s][d] = pending[s][d] + 1
        BY <3>0, <3>3, <3>4, <4>1 DEF Restarted, TypeOK
      <4>3. QED
        BY <3>0, <3>4, <3>6, <4>2 DEF Kept, Outstanding, TypeOK
    <3>7. CASE s # Current(x)
      <4>1. pending'[Current(x)] = pending[Current(x)]
        BY <3>0, <3>3, <3>4, <3>7 DEF Restarted, Cancelled, TypeOK
      <4>2. QED
        BY <3>0, <3>4, <3>5, <3>7, <4>1, KeptUnstrong DEF Outstanding
    <3>8. QED
      BY <3>6, <3>7
  <2>8. CASE UNCHANGED vars
    <3>1. DataBelowGen' /\ InterestOrHandling'
      BY <2>8 DEF vars, DataBelowGen, InterestOrHandling, Watched, Kept, Current, Outstanding
    <3>2. QED
      BY <2>0, <3>1
  <2>9. QED
    BY <2>0, <2>1, <2>2, <2>3, <2>4, <2>5, <2>6, <2>7, <2>8 DEF Next

(* The watch adapter never loses interest (InterestKept): while the       *)
(* reactor is idle, every monitored direction of an added, enabled watch  *)
(* with an adapter has an outstanding async operation or a queued         *)
(* handler, or has handled an error, for any watches, flags and bounds.   *)
THEOREM InterestSafe == Spec => []InterestKept
<1>1. KInv => InterestKept
  <2> SUFFICES ASSUME KInv, NEW w \in Watches,
                      running, strong = NoObj, wstate[w] = "added", enabled[w], data[w] # 0,
                      NEW d \in Flags[w]
               PROVE  \/ <<<<w, data[w]>>, d>> \in failed
                      \/ Outstanding(<<w, data[w]>>, d) > 0
    BY DEF InterestKept, Outstanding
  <2>1. Kept(w, d)
    BY DEF KInv, InterestOrHandling, Watched
  <2>2. Current(w) # NoObj
    BY NoObjNotObj DEF KInv, TypeOK, Current
  <2>3. QED
    BY <2>1, <2>2 DEF Kept, Current
<1>2. QED
  BY KInvInit, KInvStep, <1>1, PTL DEF Spec
=============================================================================
