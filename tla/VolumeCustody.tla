----------------------------- MODULE VolumeCustody -----------------------------
(***************************************************************************)
(* What the storage syncer promises about ONE volume, whatever its passes  *)
(* list, lose or retry: which VM holds the disk, and what the tenant's     *)
(* cluster has been told about it.  StorageSync implements it, claim by    *)
(* claim; NodePlugin is written against it.                                *)
(*                                                                         *)
(* A node's lease is its VolumeAttachment as the syncer has answered it:   *)
(* asked for, held (pinned by our finalizer), attached (reported to the    *)
(* guest), ending (deleted by the guest, still pinned).                    *)
(***************************************************************************)
CONSTANTS
    Nodes,      \* guest nodes, each backed by the VM of its name
    Mortal      \* nodes whose VM may be deleted and created again

VARIABLES
    disk,       \* VMs that carry the volume, or have been asked to
    ready,      \* VMs in which the disk is plugged in and visible
    lease,      \* what each node has been granted
    contract    \* "live"; "lapsed" once the claim is gone or the tenant leaves;
                \* "over" once nothing in the guest names the volume any more

custody == <<disk, ready, lease, contract>>

Leases == {"none", "asked", "held", "attached", "ending"}
Bound  == {"held", "attached", "ending"}

CustodyTypeOK ==
    /\ disk \subseteq Nodes
    /\ ready \subseteq disk
    /\ lease \in [Nodes -> Leases]
    /\ contract \in {"live", "lapsed", "over"}

Init ==
    /\ disk = {}
    /\ ready = {}
    /\ lease = [n \in Nodes |-> "none"]
    /\ contract = "live"

(* The promise of an attached node lapses with its VM and with the contract. *)
Firm(n) == n \notin Mortal /\ contract = "live"

Lease(n, from, to) ==
    /\ lease[n] \in from
    /\ lease' = [lease EXCEPT ![n] = to]
    /\ UNCHANGED <<disk, ready, contract>>

(* The guest attaches a volume to one node at a time. *)
Ask(n)      == (\A m \in Nodes : lease[m] = "none") /\ Lease(n, {"none"}, "asked")
Withdraw(n) == Lease(n, {"asked"}, "none")
Hold(n)     == Lease(n, {"asked"}, "held")
End(n)      == Lease(n, {"held", "attached"}, "ending")

(* The guest is told of a disk that is there, unless its VM may be gone again. *)
Tell(n)     == (Firm(n) => n \in ready) /\ Lease(n, {"held"}, "attached")
Retract(n)  == n \in Mortal /\ Lease(n, {"attached"}, "held")

(* A lease ends only once the disk is out of its VM.                           *)
Return(n)   == (contract # "over" => n \notin disk) /\ Lease(n, {"ending"}, "none")

(* The disk goes into one VM, out of none, for a node that holds a lease.      *)
Plug(n) ==
    /\ disk = {} /\ lease[n] \in Bound
    /\ disk' = {n}
    /\ UNCHANGED <<ready, lease, contract>>

Appear(n) ==
    /\ n \in disk \ ready
    /\ ready' = ready \cup {n}
    /\ UNCHANGED <<disk, lease, contract>>

(* It leaves, but not from under a node that was told it is attached.          *)
Unplug(n) ==
    /\ n \in disk
    /\ lease[n] = "attached" => ~Firm(n)
    /\ disk' = {} /\ ready' = {}
    /\ UNCHANGED <<lease, contract>>

(* The contract lapses for good.  A PV made late, for a claim that is gone,    *)
(* may name the volume once more, while no VM has it.                          *)
Lapse ==
    /\ contract' \in {"lapsed", "over"}
    /\ contract = "over" => disk = {}
    /\ UNCHANGED <<disk, ready, lease>>

(* The tenant leaves with every VM clean; guest finalizers may come off.       *)
Depart ==
    /\ disk = {}
    /\ contract' = "over"
    /\ lease' = [n \in Nodes |-> CASE lease[n] \in {"none", "ending"} -> "none"
                                   [] OTHER -> "asked"]
    /\ UNCHANGED <<disk, ready>>

Next ==
    \/ \E n \in Nodes :
          \/ Ask(n) \/ Withdraw(n) \/ Hold(n) \/ End(n) \/ Tell(n) \/ Retract(n)
          \/ Return(n) \/ Plug(n) \/ Appear(n) \/ Unplug(n)
    \/ Lapse \/ Depart

Spec == Init /\ [][Next]_custody

--------------------------------------------------------------------------------
(* What the promise amounts to: the disk is in one VM at most; a VM that has   *)
(* it has a lease, while the guest still names the volume; and a node that was *)
(* told "attached" has the disk before it.                                     *)
InOneVM    == \A m, n \in disk : m = n
LeaseKept  == contract # "over" => \A n \in disk : lease[n] \in Bound
DiskThere  == \A n \in Nodes : lease[n] = "attached" /\ Firm(n) => n \in ready
================================================================================
