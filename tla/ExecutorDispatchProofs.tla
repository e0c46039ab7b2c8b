----------------------- MODULE ExecutorDispatchProofs -----------------------
(***************************************************************************)
(* Proofs about the wakeup drain and run/stop of the asio executor         *)
(* (ExecutorDispatch), for every set of buses and every bound.  The       *)
(* isolation theorems hold when every executor comes from                 *)
(* make_executor(bus, io) with an io_service of its own.                  *)
(***************************************************************************)
EXTENDS ExecutorDispatch, TLAPS

USE BusesAssumption, IoKindsAssumption, MaxMsgsAssumption
USE DEF Services, ThreadStates, NoBus

(* Every step keeps the state well typed.                                 *)
LEMMA DTypeStep == DTypeOK /\ [DNext]_dvars => DTypeOK'
  <2> SUFFICES ASSUME DTypeOK, [DNext]_dvars PROVE DTypeOK'
    OBVIOUS
  <2>1. ASSUME NEW b \in Buses, NEW k \in IoKinds, InstallExecutor(b, k) PROVE DTypeOK'
    BY <2>1 DEF InstallExecutor, DTypeOK
  <2>2. ASSUME NEW b \in Buses, Receive(b) PROVE DTypeOK'
    BY <2>2 DEF Receive, DTypeOK
  <2>3. ASSUME NEW b \in Buses, Run(b) PROVE DTypeOK'
    BY <2>3 DEF Run, DTypeOK
  <2>4. ASSUME NEW b \in Buses, Stop(b) PROVE DTypeOK'
    BY <2>4 DEF Stop, DTypeOK
  <2>5. ASSUME NEW t \in Buses, NEW b \in Buses, StartDrain(t, b) PROVE DTypeOK'
    BY <2>5 DEF StartDrain, DTypeOK
  <2>6. ASSUME NEW t \in Buses, DispatchOne(t) PROVE DTypeOK'
    BY <2>6 DEF DispatchOne, DataRemains, DTypeOK
  <2>7. ASSUME NEW t \in Buses, EndDrain(t) PROVE DTypeOK'
    BY <2>7 DEF EndDrain, DTypeOK
  <2>8. ASSUME NEW t \in Buses, ThreadReturn(t) PROVE DTypeOK'
    BY <2>8 DEF ThreadReturn, DTypeOK
  <2>9. CASE UNCHANGED dvars
    BY <2>9 DEF dvars, DTypeOK
  <2>10. QED
    BY <2>1, <2>2, <2>3, <2>4, <2>5, <2>6, <2>7, <2>8, <2>9 DEF DNext

(* Type correctness of the dispatch model.                                *)
THEOREM DTypeCorrect == DSpec => []DTypeOK
<1>1. DInit => DTypeOK
  BY DEF DInit, DTypeOK
<1>2. QED
  BY <1>1, DTypeStep, PTL DEF DSpec

-----------------------------------------------------------------------------
(* With io_services of their own, the invariant behind both isolation     *)
(* properties: a bus's executor serves only that bus, a thread runs only   *)
(* its own bus's drains, run() needs an executor, and an io_service is     *)
(* stopped only by its bus's stop().                                      *)
OwnService == \A b \in Buses : ioOf[b] \in {NoBus, b}
RunHasExecutor == \A b \in Buses : thread[b] # "idle" => ioOf[b] # NoBus
OwnDrain == \A t \in Buses : busy[t] \in {NoBus, t}
StoppedByOwner == \A b \in Buses : stopped[b] => stopCalled[b]

DIInv == /\ DTypeOK /\ OwnService /\ RunHasExecutor /\ OwnDrain
         /\ StoppedByOwner /\ RunIsolated

LEMMA DIInvInit == DInit => DIInv
BY DEF DInit, DIInv, DTypeOK, OwnService, RunHasExecutor, OwnDrain,
       StoppedByOwner, RunIsolated

LEMMA DIInvStep ==
    ASSUME IoKinds = {"own"}
    PROVE  DIInv /\ [DNext]_dvars => DIInv'
  <2> SUFFICES ASSUME DIInv, [DNext]_dvars PROVE DIInv'
    OBVIOUS
  <2> DEFINE Rest == OwnService /\ RunHasExecutor /\ OwnDrain /\ StoppedByOwner
                     /\ RunIsolated
  <2>0. DTypeOK'
    BY DTypeStep DEF DIInv
  <2>1. ASSUME NEW b \in Buses, NEW k \in IoKinds, InstallExecutor(b, k) PROVE Rest'
    <3>1. ioOf' = [ioOf EXCEPT ![b] = b]
      BY <2>1 DEF InstallExecutor
    <3>2. QED
      BY <2>1, <3>1 DEF InstallExecutor, DIInv, DTypeOK, OwnService, RunHasExecutor,
                        OwnDrain, StoppedByOwner, RunIsolated
  <2>2. ASSUME NEW b \in Buses, Receive(b) PROVE Rest'
    BY <2>2 DEF Receive, DIInv, OwnService, RunHasExecutor, OwnDrain, StoppedByOwner,
                RunIsolated
  <2>3. ASSUME NEW b \in Buses, Run(b) PROVE Rest'
    <3>1. ioOf[b] = b
      BY <2>3 DEF Run, DIInv, OwnService
    <3>2. thread'[b] = "returned" => stopCalled[b]
      BY <2>3, <3>1 DEF Run, DIInv, DTypeOK, StoppedByOwner
    <3>3. QED
      BY <2>3, <3>2 DEF Run, DIInv, DTypeOK, OwnService, RunHasExecutor, OwnDrain,
                        StoppedByOwner, RunIsolated
  <2>4. ASSUME NEW b \in Buses, Stop(b) PROVE Rest'
    <3>1. ioOf[b] = b
      BY <2>4 DEF Stop, DIInv, OwnService
    <3>2. stopped' = [stopped EXCEPT ![b] = TRUE]
      BY <2>4, <3>1 DEF Stop
    <3>3. QED
      BY <2>4, <3>2 DEF Stop, DIInv, DTypeOK, OwnService, RunHasExecutor, OwnDrain,
                        StoppedByOwner, RunIsolated
  <2>5. ASSUME NEW t \in Buses, NEW b \in Buses, StartDrain(t, b) PROVE Rest'
    (* ServedBy: t's executor and b's post to the same io_service, t's own. *)
    <3>1. ioOf[t] = t
      BY <2>5 DEF StartDrain, DIInv, RunHasExecutor, OwnService
    <3>2. b = t
      BY <2>5, <3>1 DEF StartDrain, ServedBy, DIInv, OwnService
    <3>3. QED
      BY <2>5, <3>2 DEF StartDrain, DIInv, DTypeOK, OwnService, RunHasExecutor,
                        OwnDrain, StoppedByOwner, RunIsolated
  <2>6. ASSUME NEW t \in Buses, DispatchOne(t) PROVE Rest'
    BY <2>6 DEF DispatchOne, DIInv, OwnService, RunHasExecutor, OwnDrain,
                StoppedByOwner, RunIsolated
  <2>7. ASSUME NEW t \in Buses, EndDrain(t) PROVE Rest'
    BY <2>7 DEF EndDrain, DIInv, DTypeOK, OwnService, RunHasExecutor, OwnDrain,
                StoppedByOwner, RunIsolated
  <2>8. ASSUME NEW t \in Buses, ThreadReturn(t) PROVE Rest'
    <3>1. ioOf[t] = t
      BY <2>8 DEF ThreadReturn, DIInv, RunHasExecutor, OwnService
    <3>2. stopCalled[t]
      BY <2>8, <3>1 DEF ThreadReturn, RunReturns, DIInv, DTypeOK, StoppedByOwner
    <3>3. QED
      BY <2>8, <3>2 DEF ThreadReturn, DIInv, DTypeOK, OwnService, RunHasExecutor,
                        OwnDrain, StoppedByOwner, RunIsolated
  <2>9. ASSUME UNCHANGED dvars PROVE Rest'
    BY <2>9 DEF dvars, DIInv, OwnService, RunHasExecutor, OwnDrain, StoppedByOwner,
                RunIsolated
  <2>10. Rest'
    BY <2>1, <2>2, <2>3, <2>4, <2>5, <2>6, <2>7, <2>8, <2>9 DEF DNext
  <2>11. QED
    BY <2>0, <2>10 DEF DIInv

(* make_executor(bus, io) with an io_service per bus: Bus::run() returns  *)
(* only after Bus::stop() on the same bus.                                *)
THEOREM OwnIoRunIsolated ==
    ASSUME IoKinds = {"own"}
    PROVE  DSpec => []RunIsolated
<1>1. DIInv /\ [DNext]_dvars => DIInv'
  BY DIInvStep
<1>2. DIInv => RunIsolated
  BY DEF DIInv
<1>3. QED
  BY DIInvInit, <1>1, <1>2, PTL DEF DSpec
=============================================================================
