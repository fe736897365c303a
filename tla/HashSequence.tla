---------------------------- MODULE HashSequence ----------------------------
(***************************************************************************)
(* What the hash functions of randomx.h promise.  A machine is attached to *)
(* a configuration (a key and a version).  It can be asked for the hash of *)
(* an input at once, or given inputs one call ahead: "first" begins an     *)
(* input, "next" returns the hash of the input begun before and begins     *)
(* another, "last" returns the hash of the input begun before.             *)
(***************************************************************************)

CONSTANTS
    VMs,      \* virtual machines
    Inputs,   \* messages to be hashed
    Configs,  \* key and version of a machine
    None

VARIABLES
    attached,  \* the configuration of each machine
    begun,     \* the input each machine has begun, or None
    output     \* the last hash each machine returned: <<configuration, input>>

sequenceVars == <<attached, begun, output>>

Init ==
    /\ attached \in [VMs -> Configs]
    /\ begun = [v \in VMs |-> None]
    /\ output = [v \in VMs |-> None]

Attach(v, k) ==
    /\ attached' = [attached EXCEPT ![v] = k]
    /\ UNCHANGED <<begun, output>>

Begin(v, x) ==
    /\ begun' = [begun EXCEPT ![v] = x]
    /\ UNCHANGED <<attached, output>>

\* A hash at once starts by giving up the input begun before.
Abandon(v) ==
    /\ begun' = [begun EXCEPT ![v] = None]
    /\ UNCHANGED <<attached, output>>

AtOnce(v, x) ==
    /\ begun[v] = None
    /\ output' = [output EXCEPT ![v] = <<attached[v], x>>]
    /\ UNCHANGED <<attached, begun>>

\* y is the next input begun, None for "last".
Deliver(v, y) ==
    /\ begun[v] # None
    /\ output' = [output EXCEPT ![v] = <<attached[v], begun[v]>>]
    /\ begun' = [begun EXCEPT ![v] = y]
    /\ UNCHANGED attached

Next ==
    \E v \in VMs :
        \/ \E k \in Configs : Attach(v, k)
        \/ Abandon(v)
        \/ \E x \in Inputs : Begin(v, x) \/ AtOnce(v, x)
        \/ \E y \in Inputs \cup {None} : Deliver(v, y)

Spec == Init /\ [][Next]_sequenceVars
=============================================================================
