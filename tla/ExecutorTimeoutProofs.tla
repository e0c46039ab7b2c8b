------------------------ MODULE ExecutorTimeoutProofs ------------------------
(***************************************************************************)
(* Proofs about the timeout adapter of the asio executor (ExecutorTimeout),*)
(* for every set of timeouts and every bound.                             *)
(***************************************************************************)
EXTENDS ExecutorTimeout, TLAPS

USE TimeoutsAssumption, TMaxGenAssumption, TMaxPendingAssumption
USE DEF TGens, TObjs, TimeoutStates, NoFire

(* Timer::start and the timer's destruction keep the wait counts natural. *)
LEMMA ArmedType ==
    ASSUME NEW a \in [TObjs -> Nat], NEW o
    PROVE  /\ Armed(a, o) \in [TObjs -> Nat]
           /\ Disarmed(a, o) \in [TObjs -> Nat]
BY DEF Armed, Disarmed

-----------------------------------------------------------------------------
(* Every step of the adapter and of libdbus keeps the state well typed.   *)
LEMMA TTypeStep == TTypeOK /\ [TNext]_tvars => TTypeOK'
  <2> SUFFICES ASSUME TTypeOK, [TNext]_tvars PROVE TTypeOK'
    OBVIOUS
  <2>1. ASSUME NEW t \in Timeouts, AddTimeout(t) PROVE TTypeOK'
    <3>1. PICK en \in BOOLEAN :
            /\ tenabled' = [tenabled EXCEPT ![t] = en]
            /\ armed' = IF en THEN Armed(Disarmed(armed, <<t, tdata[t]>>), <<t, tgen[t] + 1>>)
                              ELSE Disarmed(armed, <<t, tdata[t]>>)
            /\ owed' = IF en THEN owed \cup {t} ELSE owed
      BY <2>1 DEF AddTimeout
    <3>2. Disarmed(armed, <<t, tdata[t]>>) \in [TObjs -> Nat]
      BY ArmedType DEF TTypeOK
    <3>3. armed' \in [TObjs -> Nat]
      BY <3>1, <3>2, ArmedType
    <3>4. tgen' \in [Timeouts -> 0..MaxGen] /\ tdata' \in [Timeouts -> 0..MaxGen]
      BY <2>1 DEF AddTimeout, TTypeOK
    <3>5. QED
      BY <2>1, <3>1, <3>3, <3>4 DEF AddTimeout, TTypeOK
  <2>2. ASSUME NEW t \in Timeouts, RemoveTimeout(t) PROVE TTypeOK'
    BY <2>2 DEF RemoveTimeout, TTypeOK
  <2>3. ASSUME NEW t \in Timeouts, ToggleTimeout(t) PROVE TTypeOK'
    <3> DEFINE o == <<t, tdata[t]>>
    <3>1. \/ armed' = Armed(armed, o) /\ owed' = owed \cup {t}
          \/ armed' = armed /\ owed' = owed
      BY <2>3 DEF ToggleTimeout
    <3>2. Armed(armed, o) \in [TObjs -> Nat]
      BY ArmedType DEF TTypeOK
    <3>3. armed' \in [TObjs -> Nat] /\ owed' \subseteq Timeouts
      BY <3>1, <3>2 DEF TTypeOK
    <3>4. tenabled' \in [Timeouts -> BOOLEAN]
      BY <2>3 DEF ToggleTimeout, TTypeOK
    <3>5. fired' \in Timeouts \cup {NoFire} /\ UNCHANGED <<tstate, tdata, tgen, tqueued>>
      BY <2>3 DEF ToggleTimeout
    <3>6. QED
      BY <3>3, <3>4, <3>5 DEF TTypeOK
  <2>4. ASSUME NEW t \in Timeouts, FreeTimeout(t) PROVE TTypeOK'
    <3>1. armed' = Disarmed(armed, <<t, tdata[t]>>)
      BY <2>4 DEF FreeTimeout
    <3>2. armed' \in [TObjs -> Nat]
      BY <3>1, ArmedType DEF TTypeOK
    <3>3. tstate' \in [Timeouts -> TimeoutStates] /\ tdata' \in [Timeouts -> 0..MaxGen]
      BY <2>4 DEF FreeTimeout, TTypeOK
    <3>4. fired' \in Timeouts \cup {NoFire} /\ UNCHANGED <<tenabled, tgen, tqueued, owed>>
      BY <2>4 DEF FreeTimeout
    <3>5. QED
      BY <3>2, <3>3, <3>4 DEF TTypeOK
  <2>5. ASSUME NEW o \in TObjs, Expire(o) PROVE TTypeOK'
    BY <2>5 DEF Expire, TTypeOK
  <2>6. ASSUME NEW o \in TObjs, RunTimeoutHandler(o) PROVE TTypeOK'
    BY <2>6 DEF RunTimeoutHandler, TAlive, TTypeOK
  <2>7. CASE UNCHANGED tvars
    BY <2>7 DEF tvars, TTypeOK
  <2>8. QED
    BY <2>1, <2>2, <2>3, <2>4, <2>5, <2>6, <2>7 DEF TNext

(* Type correctness of the timeout adapter.                               *)
THEOREM TTypeCorrect == TSpec => []TTypeOK
<1>1. TInit => TTypeOK
  BY DEF TInit, TTypeOK
<1>2. QED
  BY <1>1, TTypeStep, PTL DEF TSpec

-----------------------------------------------------------------------------
(* The inductive invariant behind TimeoutHandleOnLive: a timeout whose    *)
(* data names an adapter has not been freed, since ptr_delete runs when    *)
(* libdbus frees the timeout.                                              *)
TDataOnLive == \A t \in Timeouts : tdata[t] # 0 => tstate[t] # "freed"

TIInv == TTypeOK /\ TDataOnLive /\ TimeoutHandleOnLive

LEMMA TIInvStep == TIInv /\ [TNext]_tvars => TIInv'
  <2> SUFFICES ASSUME TIInv, [TNext]_tvars PROVE TIInv'
    OBVIOUS
  <2>0. TTypeOK'
    BY TTypeStep DEF TIInv
  <2>1. ASSUME NEW t \in Timeouts, AddTimeout(t)
        PROVE TDataOnLive' /\ TimeoutHandleOnLive'
    BY <2>1 DEF AddTimeout, TIInv, TTypeOK, TDataOnLive, TimeoutHandleOnLive
  <2>2. ASSUME NEW t \in Timeouts, RemoveTimeout(t)
        PROVE TDataOnLive' /\ TimeoutHandleOnLive'
    BY <2>2 DEF RemoveTimeout, TIInv, TTypeOK, TDataOnLive, TimeoutHandleOnLive
  <2>3. ASSUME NEW t \in Timeouts, ToggleTimeout(t)
        PROVE TDataOnLive' /\ TimeoutHandleOnLive'
    <3>1. fired' = NoFire /\ UNCHANGED <<tstate, tdata>>
      BY <2>3 DEF ToggleTimeout
    <3>2. QED
      BY <3>1 DEF TIInv, TDataOnLive, TimeoutHandleOnLive
  <2>4. ASSUME NEW t \in Timeouts, FreeTimeout(t)
        PROVE TDataOnLive' /\ TimeoutHandleOnLive'
    BY <2>4 DEF FreeTimeout, TIInv, TTypeOK, TDataOnLive, TimeoutHandleOnLive
  <2>5. ASSUME NEW o \in TObjs, Expire(o)
        PROVE TDataOnLive' /\ TimeoutHandleOnLive'
    BY <2>5 DEF Expire, TIInv, TTypeOK, TDataOnLive, TimeoutHandleOnLive
  <2>6. ASSUME NEW o \in TObjs, RunTimeoutHandler(o)
        PROVE TDataOnLive' /\ TimeoutHandleOnLive'
    <3>1. CASE TAlive(o)
      (* The Holder owns the adapter, so the timeout is not freed.        *)
      <4>1. fired' = o[1] /\ tdata[o[1]] = o[2] /\ o[2] # 0
        BY <2>6, <3>1 DEF RunTimeoutHandler, TAlive
      <4>2. tstate[o[1]] # "freed"
        BY <4>1 DEF TIInv, TDataOnLive
      <4>3. QED
        BY <2>6, <4>1, <4>2 DEF RunTimeoutHandler, TIInv, TDataOnLive,
                                TimeoutHandleOnLive
    <3>2. CASE ~TAlive(o)
      BY <2>6, <3>2 DEF RunTimeoutHandler, TIInv, TDataOnLive, TimeoutHandleOnLive
    <3>3. QED
      BY <3>1, <3>2
  <2>7. CASE UNCHANGED tvars
    BY <2>7 DEF tvars, TIInv, TTypeOK, TDataOnLive, TimeoutHandleOnLive
  <2>8. TDataOnLive' /\ TimeoutHandleOnLive'
    BY <2>1, <2>2, <2>3, <2>4, <2>5, <2>6, <2>7 DEF TNext, TIInv
  <2>9. QED
    BY <2>0, <2>8 DEF TIInv

LEMMA TIInvInit == TInit => TIInv
BY DEF TInit, TIInv, TTypeOK, TDataOnLive, TimeoutHandleOnLive

(* The weak_ptr guard and the timer's destruction: dbus_timeout_handle is *)
(* never called on a freed DBusTimeout, for any timeouts and bounds.      *)
THEOREM TimeoutHandleSafe == TSpec => []TimeoutHandleOnLive
<1>1. TIInv => TimeoutHandleOnLive
  BY DEF TIInv
<1>2. QED
  BY TIInvInit, TIInvStep, <1>1, PTL DEF TSpec

=============================================================================
