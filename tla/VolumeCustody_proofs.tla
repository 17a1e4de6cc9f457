------------------------- MODULE VolumeCustody_proofs -------------------------
(***************************************************************************)
(* What VolumeCustody promises of every volume, for any nodes.             *)
(***************************************************************************)
EXTENDS VolumeCustody, TLAPS

(* Each part needs the others: a disk leaves one VM, and so every VM, because  *)
(* it is in one; and it leaves no attached node, because that node has it.     *)
CustodyInv == CustodyTypeOK /\ InOneVM /\ LeaseKept /\ DiskThere

USE DEF Leases, Bound

(* A step that changes the lease of one node keeps the invariant, if a node    *)
(* that has the disk stays bound and one told "attached" has it ready.         *)
LEMMA LeaseStep ==
  ASSUME CustodyInv, NEW n \in Nodes, NEW from, NEW to \in Leases,
         Lease(n, from, to),
         contract # "over" /\ n \in disk => to \in Bound,
         to = "attached" /\ Firm(n) => n \in ready
  PROVE  CustodyInv'
<1>1. CustodyTypeOK'
  BY DEF CustodyInv, CustodyTypeOK, Lease
<1>2. InOneVM'
  BY DEF CustodyInv, InOneVM, Lease
<1>3. LeaseKept'
  BY DEF CustodyInv, CustodyTypeOK, LeaseKept, Lease
<1>4. DiskThere'
  BY DEF CustodyInv, CustodyTypeOK, DiskThere, Lease, Firm
<1> QED
  BY <1>1, <1>2, <1>3, <1>4 DEF CustodyInv

(* Asking, holding, telling, ending and returning a lease.                     *)
LEMMA LeaseSteps ==
  ASSUME CustodyInv, NEW n \in Nodes,
         \/ Ask(n) \/ Withdraw(n) \/ Hold(n) \/ End(n) \/ Tell(n) \/ Retract(n)
         \/ Return(n)
  PROVE  CustodyInv'
<1> USE DEF CustodyInv, CustodyTypeOK, LeaseKept
<1>1. CASE Ask(n)
  BY <1>1, LeaseStep DEF Ask, Lease
<1>2. CASE Withdraw(n)
  BY <1>2, LeaseStep DEF Withdraw, Lease
<1>3. CASE Hold(n)
  BY <1>3, LeaseStep DEF Hold
<1>4. CASE End(n)
  BY <1>4, LeaseStep DEF End
<1>5. CASE Tell(n)
  BY <1>5, LeaseStep DEF Tell
<1>6. CASE Retract(n)
  BY <1>6, LeaseStep DEF Retract
<1>7. CASE Return(n)
  BY <1>7, LeaseStep DEF Return, Lease
<1> QED
  BY <1>1, <1>2, <1>3, <1>4, <1>5, <1>6, <1>7

(* The disk moves, and the contract runs out.                                  *)
LEMMA DiskSteps ==
  ASSUME CustodyInv, NEW n \in Nodes, Plug(n) \/ Appear(n) \/ Unplug(n)
  PROVE  CustodyInv'
<1> USE DEF CustodyInv, CustodyTypeOK, InOneVM, LeaseKept, DiskThere, Firm
<1>1. CASE Plug(n)
  BY <1>1 DEF Plug
<1>2. CASE Appear(n)
  BY <1>2 DEF Appear
<1>3. CASE Unplug(n)
  BY <1>3 DEF Unplug
<1> QED
  BY <1>1, <1>2, <1>3

LEMMA ContractSteps ==
  ASSUME CustodyInv, Lapse \/ Depart
  PROVE  CustodyInv'
<1> USE DEF CustodyInv, CustodyTypeOK, InOneVM, LeaseKept, DiskThere, Firm
<1>1. CASE Lapse
  BY <1>1 DEF Lapse
<1>2. CASE Depart
  BY <1>2 DEF Depart
<1> QED
  BY <1>1, <1>2

(* The disk is in one VM at most, a VM that has it has a lease, and a node     *)
(* that was told "attached" has the disk: what the storage pass undertakes,    *)
(* and what NodePlugin relies on.                                              *)
THEOREM CustodyPromise == Spec => [](InOneVM /\ LeaseKept /\ DiskThere)
<1>1. Init => CustodyInv
  BY DEF Init, CustodyInv, CustodyTypeOK, InOneVM, LeaseKept, DiskThere
<1>2. CustodyInv /\ [Next]_custody => CustodyInv'
  <2> SUFFICES ASSUME CustodyInv, [Next]_custody PROVE CustodyInv'
    OBVIOUS
  <2>1. CASE UNCHANGED custody
    BY <2>1 DEF custody, CustodyInv, CustodyTypeOK, InOneVM, LeaseKept, DiskThere, Firm
  <2>2. CASE Next
    BY <2>2, LeaseSteps, DiskSteps, ContractSteps DEF Next
  <2> QED
    BY <2>1, <2>2
<1>3. CustodyInv => InOneVM /\ LeaseKept /\ DiskThere
  BY DEF CustodyInv
<1> QED
  BY <1>1, <1>2, <1>3, PTL DEF Spec
================================================================================
