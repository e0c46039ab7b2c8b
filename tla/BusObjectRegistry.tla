-------------------------- MODULE BusObjectRegistry --------------------------
(***************************************************************************)
(* What the Bus promises about the Objects it serves (spec 3, Object):    *)
(* an Object is reachable on a path from its registration until the path   *)
(* is unregistered or the Bus is destroyed, and a method call to a path    *)
(* reaches the Object registered there, and only while the application    *)
(* still holds it.  Nothing here says how: no VTables, no object tree.     *)
(***************************************************************************)
CONSTANTS
    Paths,      \* object paths
    Objects,    \* Objects of the application
    None        \* no Object

VARIABLES
    open,       \* the Bus is constructed and not destroyed
    reg,        \* the Object registered on each path, or None
    alive,      \* the application still holds the Object
    calling     \* the Object whose method handler runs, or None

avars == <<open, reg, alive, calling>>

AInit ==
    /\ open = FALSE
    /\ reg = [p \in Paths |-> None]
    /\ alive = [o \in Objects |-> TRUE]
    /\ calling = None

(* The constructor returns.                                               *)
AOpen ==
    /\ ~open
    /\ open' = TRUE
    /\ UNCHANGED <<reg, alive, calling>>

(* A free path takes a live Object.                                       *)
ARegister(p, o) ==
    /\ open
    /\ alive[o]
    /\ reg[p] = None
    /\ reg' = [reg EXCEPT ![p] = o]
    /\ UNCHANGED <<open, alive, calling>>

AUnregister(p) ==
    /\ open
    /\ reg[p] # None
    /\ reg' = [reg EXCEPT ![p] = None]
    /\ UNCHANGED <<open, alive, calling>>

ADrop(o) ==
    /\ alive[o]
    /\ alive' = [alive EXCEPT ![o] = FALSE]
    /\ UNCHANGED <<open, reg, calling>>

(* A method call to p runs the handler of the live Object on p.           *)
ACall(p) ==
    /\ open
    /\ calling = None
    /\ reg[p] # None
    /\ alive[reg[p]]
    /\ calling' = reg[p]
    /\ UNCHANGED <<open, reg, alive>>

AReturn ==
    /\ calling # None
    /\ calling' = None
    /\ UNCHANGED <<open, reg, alive>>

(* Destruction, with no handler running, frees every path.                *)
AClose ==
    /\ open
    /\ calling = None
    /\ open' = FALSE
    /\ reg' = [p \in Paths |-> None]
    /\ UNCHANGED <<alive, calling>>

ANext ==
    \/ AOpen \/ AReturn \/ AClose
    \/ \E p \in Paths : AUnregister(p) \/ ACall(p)
    \/ \E p \in Paths, o \in Objects : ARegister(p, o)
    \/ \E o \in Objects : ADrop(o)

ASpec == AInit /\ [][ANext]_avars
=============================================================================
