-------------------------- MODULE StorageSync_proofs --------------------------
(***************************************************************************)
(* Proofs about StorageSync, for any sets of claims and nodes and any      *)
(* number of faults: the types, the truth of a pass's snapshot about what  *)
(* VMs carry, and the unplug-before-delete order that rests on it.         *)
(***************************************************************************)
EXTENDS StorageSync, TLAPS

SnapType ==
    [pvc : [Claims -> PVCStates], pin : SUBSET Claims,
     pv : SUBSET Claims, va : [Slots -> VAStates],
     offered : BOOLEAN, host : SUBSET Claims, vms : SUBSET Nodes,
     spec : SUBSET Slots, phase : [Slots -> Phases]]

LEMMA EmptySnapTyped == EmptySnap \in SnapType
<1>1. [c \in Claims |-> "absent"] \in [Claims -> PVCStates] BY DEF PVCStates
<1>2. [s \in Slots |-> "none"] \in [Slots -> VAStates] BY DEF VAStates
<1>3. [s \in Slots |-> ""] \in [Slots -> Phases] BY DEF Phases
<1>4. QED BY <1>1, <1>2, <1>3 DEF EmptySnap, SnapType

LEMMA FaultBoundNat == MaxFaults \in Nat
  BY StorageAssumption

(* A call, failing or not, keeps the count of faults within its bound. *)
LEMMA FaultTyped ==
    ASSUME faults \in 0..MaxFaults, NEW failed \in BOOLEAN, Fault(failed)
    PROVE  faults' \in 0..MaxFaults
  BY FaultBoundNat DEF Fault

LEMMA InitTypeOK == Init => TypeOK
<1> SUFFICES ASSUME Init PROVE TypeOK OBVIOUS
<1>1. snap \in SnapType BY EmptySnapTyped DEF Init
<1>2. pvc \in [Claims -> PVCStates] /\ pv \in [Claims -> PVStates]
      BY DEF Init, PVCStates, PVStates
<1>3. va \in [Slots -> VAStates] /\ phase \in [Slots -> Phases]
      BY DEF Init, VAStates, Phases
<1>4. hostPVC \in [Claims -> HostStates] BY DEF Init, HostStates
<1>5. queue \in [Slots -> {"none", "add", "remove"}] BY DEF Init
<1>6. pc \in PCs BY DEF Init, PCs
<1>7. faults \in 0..MaxFaults
  <2>1. faults = 0 BY DEF Init
  <2>2. QED BY <2>1, FaultBoundNat
<1>8. QED BY <1>1, <1>2, <1>3, <1>4, <1>5, <1>6, <1>7 DEF Init, TypeOK, SnapType

LEMMA SeenPhaseTyped == TypeOK => SeenPhase \in [Slots -> Phases]
  BY DEF TypeOK, SeenPhase, Phases

(* A list step keeps every variable typed. *)
LEMMA ListTypeOK ==
    ASSUME TypeOK,
           ListPVCs \/ ListPVs \/ ListVAs \/ ListHost \/ ListVMs \/ ListVMIs
           \/ LeaveListPVCs \/ LeaveListVMIs
    PROVE  TypeOK'
<1> USE DEF TypeOK, PCs, ListPCs, LoopPCs, LeavePCs
<1>1. CASE ListPVCs BY <1>1 DEF ListPVCs, guest, host
<1>2. CASE ListPVs BY <1>2 DEF ListPVs, guest, host
<1>3. CASE ListVAs BY <1>3 DEF ListVAs, guest, host
<1>4. CASE ListHost BY <1>4 DEF ListHost, Labelled, guest, host
<1>5. CASE ListVMs BY <1>5 DEF ListVMs, SeenSpec, guest, host
<1>6. CASE ListVMIs
  <2>1. Provisionable(snap) \subseteq Claims BY DEF Provisionable
  <2>2. QED BY <1>6, <2>1, SeenPhaseTyped DEF ListVMIs, guest, host
<1>7. CASE LeaveListPVCs BY <1>7 DEF LeaveListPVCs, Labelled, guest, host
<1>8. CASE LeaveListVMIs BY <1>8, SeenPhaseTyped DEF LeaveListVMIs, guest, host
<1>9. QED BY <1>1, <1>2, <1>3, <1>4, <1>5, <1>6, <1>7, <1>8

LEMMA StageTypeOK ==
    ASSUME TypeOK, NextStage \/ SkipApply \/ EndPass \/ Requeue \/ Abort \/ Leave
    PROVE  TypeOK'
<1> USE DEF TypeOK, PCs, ListPCs, LoopPCs, LeavePCs
<1>0. Provisionable(snap) \subseteq Claims /\ Deleting \subseteq Claims
      /\ Orphaned \subseteq Claims /\ Listed \subseteq Slots /\ Reported \subseteq Slots
      BY DEF Provisionable, Deleting, Orphaned, Listed, Reported
<1>1. CASE NextStage
  <2>1. pc' \in PCs /\ claims' \subseteq Claims /\ slots' \subseteq Slots
        BY <1>0, <1>1 DEF NextStage, Stage
  <2>2. QED BY <1>1, <2>1 DEF NextStage, Stage, guest, host
<1>2. CASE SkipApply
  <2>1. faults' \in 0..MaxFaults BY <1>2, FaultTyped DEF SkipApply
  <2>2. QED BY <1>0, <1>2, <2>1 DEF SkipApply, Stage, guest, host
<1>3. CASE EndPass \/ Requeue
  BY <1>3, EmptySnapTyped DEF EndPass, Requeue, Idle, SnapType, guest, host
<1>4. CASE Abort
  <2>1. faults' \in 0..MaxFaults BY <1>4, FaultTyped DEF Abort
  <2>2. QED BY <1>4, <2>1, EmptySnapTyped DEF Abort, Idle, SnapType, guest, host
<1>5. CASE Leave
  <2>1. va' \in [Slots -> VAStates] BY <1>5 DEF Leave, CleanupGuestStorage, VAStates, guest
  <2>2. pv' \in [Claims -> PVStates] BY <1>5 DEF Leave, CleanupGuestStorage, PVStates, guest
  <2>3. QED BY <1>5, <2>1, <2>2, EmptySnapTyped DEF Leave, CleanupGuestStorage, Idle, SnapType, guest, host
<1>6. QED BY <1>1, <1>2, <1>3, <1>4, <1>5

LEMMA RemoveVolumesTyped ==
    ASSUME TypeOK, NEW ss, NEW lost, RemoveVolumes(ss, lost)
    PROVE  /\ queue' \in [Slots -> {"none", "add", "remove"}]
           /\ faults' \in 0..MaxFaults
           /\ UNCHANGED <<hostPVC, vm, spec, phase>>
<1>1. queue' \in [Slots -> {"none", "add", "remove"}] BY DEF RemoveVolumes, TypeOK
<1>2. faults' \in 0..MaxFaults BY FaultTyped DEF RemoveVolumes, TypeOK
<1>3. QED BY <1>1, <1>2 DEF RemoveVolumes

LEMMA DeleteHostPVCTyped ==
    ASSUME TypeOK, NEW c \in Claims, NEW failed \in BOOLEAN, DeleteHostPVC(c, failed)
    PROVE  /\ hostPVC' \in [Claims -> HostStates]
           /\ faults' \in 0..MaxFaults
           /\ UNCHANGED <<vm, spec, queue, phase>>
<1>1. hostPVC' \in [Claims -> HostStates] BY DEF DeleteHostPVC, TypeOK, HostStates
<1>2. faults' \in 0..MaxFaults BY FaultTyped DEF DeleteHostPVC, TypeOK
<1>3. QED BY <1>1, <1>2 DEF DeleteHostPVC

(* A step for one claim of a loop keeps every variable typed. *)
LEMMA ClaimStepTypeOK ==
    ASSUME TypeOK, NEW c \in Claims, ClaimStep(c)
    PROVE  TypeOK'
<1> USE DEF TypeOK, guest, host, ClaimDone
<1>1. CASE PinPVC(c)
  <2>1. faults' \in 0..MaxFaults BY <1>1, FaultTyped DEF PinPVC
  <2>2. pinned' \subseteq Claims BY <1>1 DEF PinPVC
  <2>3. QED BY <1>1, <2>1, <2>2 DEF PinPVC
<1>2. CASE NotTriggered(c) BY <1>2 DEF NotTriggered
<1>3. CASE CreateHostPVC(c)
  <2>1. faults' \in 0..MaxFaults BY <1>3, FaultTyped DEF CreateHostPVC
  <2>2. hostPVC' \in [Claims -> HostStates] BY <1>3 DEF CreateHostPVC, HostStates
  <2>3. snap' = snap \/ snap' = [snap EXCEPT !.host = @ \cup {c}] BY <1>3 DEF CreateHostPVC
  <2>4. blocked' \in BOOLEAN /\ claims' \subseteq Claims BY <1>3 DEF CreateHostPVC
  <2>5. QED BY <1>3, <2>1, <2>2, <2>3, <2>4 DEF CreateHostPVC
<1>4. CASE CreatePV(c)
  <2>1. faults' \in 0..MaxFaults BY <1>4, FaultTyped DEF CreatePV
  <2>2. pv' \in [Claims -> PVStates] BY <1>4 DEF CreatePV, PVStates
  <2>3. snap' = snap \/ snap' = [snap EXCEPT !.pv = @ \cup {c}] BY <1>4 DEF CreatePV
  <2>4. QED BY <1>4, <2>1, <2>2, <2>3 DEF CreatePV
<1>5. CASE AwaitAttachments(c) BY <1>5 DEF AwaitAttachments
<1>6. CASE AwaitUnplug(c) BY <1>6, RemoveVolumesTyped DEF AwaitUnplug, SomeFailed
<1>7. CASE TeardownHostPVC(c)
  <2>1. PICK failed \in BOOLEAN : DeleteHostPVC(c, failed) /\ blocked' = (blocked \/ failed)
        BY <1>7 DEF TeardownHostPVC
  <2>2. snap' = snap \/ snap' = [snap EXCEPT !.host = @ \ {c}] BY <1>7 DEF TeardownHostPVC
  <2>3. want' \subseteq Claims /\ claims' \subseteq Claims /\ UNCHANGED <<pc, slots>>
        BY <1>7 DEF TeardownHostPVC
  <2>4. QED BY <1>7, <2>1, <2>2, <2>3, DeleteHostPVCTyped DEF TeardownHostPVC
<1>8. CASE TeardownPV(c)
  <2>1. faults' \in 0..MaxFaults BY <1>8, FaultTyped DEF TeardownPV
  <2>2. pv' \in [Claims -> PVStates] BY <1>8 DEF TeardownPV, PVStates
  <2>3. want' \subseteq Claims BY <1>8 DEF TeardownPV
  <2>4. QED BY <1>8, <2>1, <2>2, <2>3 DEF TeardownPV
<1>9. CASE UnplugOrphan(c) BY <1>9, RemoveVolumesTyped DEF UnplugOrphan, SomeFailed
<1>10. CASE DeleteOrphan(c) BY <1>10, DeleteHostPVCTyped DEF DeleteOrphan
<1>11. CASE ReleasePVC(c)
  <2>1. faults' \in 0..MaxFaults BY <1>11, FaultTyped DEF ReleasePVC
  <2>2. pinned' \subseteq Claims BY <1>11 DEF ReleasePVC
  <2>3. QED BY <1>11, <2>1, <2>2 DEF ReleasePVC
<1>12. CASE LeaveUnplug(c) BY <1>12, RemoveVolumesTyped DEF LeaveUnplug
<1>13. CASE LeaveDelete(c) BY <1>13, DeleteHostPVCTyped DEF LeaveDelete
<1>14. QED BY <1>1, <1>2, <1>3, <1>4, <1>5, <1>6, <1>7, <1>8, <1>9, <1>10, <1>11,
              <1>12, <1>13 DEF ClaimStep

(* So does a step for one slot of a loop, ... *)
LEMMA SlotStepTypeOK ==
    ASSUME TypeOK, NEW s \in Slots, SlotStep(s)
    PROVE  TypeOK'
<1> USE DEF TypeOK, guest, host, SlotDone
<1>1. CASE ReleaseVA(s)
  <2>1. faults' \in 0..MaxFaults BY <1>1, FaultTyped DEF ReleaseVA
  <2>2. va' \in [Slots -> VAStates] BY <1>1 DEF ReleaseVA, VAStates
  <2>3. QED BY <1>1, <2>1, <2>2 DEF ReleaseVA
<1>2. CASE UnplugVA(s) BY <1>2, RemoveVolumesTyped DEF UnplugVA, SomeFailed
<1>3. CASE PinVA(s)
  <2>1. faults' \in 0..MaxFaults BY <1>3, FaultTyped DEF PinVA
  <2>2. va' \in [Slots -> VAStates] BY <1>3 DEF PinVA, VAStates
  <2>3. snap' = snap \/ snap' = [snap EXCEPT !.va[s] = "pinned"] BY <1>3 DEF PinVA
  <2>4. "pinned" \in VAStates BY DEF VAStates
  <2>5. slots' \subseteq Slots BY <1>3 DEF PinVA
  <2>6. QED BY <1>3, <2>1, <2>2, <2>3, <2>4, <2>5 DEF PinVA
<1>4. CASE PlugVA(s)
  <2>1. faults' \in 0..MaxFaults BY <1>4, FaultTyped DEF PlugVA
  <2>2. queue' \in [Slots -> {"none", "add", "remove"}] BY <1>4 DEF PlugVA
  <2>3. blocked' \in BOOLEAN BY <1>4 DEF PlugVA
  <2>4. QED BY <1>4, <2>1, <2>2, <2>3 DEF PlugVA
<1>5. CASE PassOverVA(s) BY <1>5 DEF PassOverVA
<1>6. CASE Sweep(s) BY <1>6, RemoveVolumesTyped DEF Sweep
<1>7. CASE WriteVAStatus(s)
  <2>1. faults' \in 0..MaxFaults BY <1>7, FaultTyped DEF WriteVAStatus
  <2>2. va' \in [Slots -> VAStates] BY <1>7 DEF WriteVAStatus, VAStates
  <2>3. QED BY <1>7, <2>1, <2>2 DEF WriteVAStatus
<1>8. QED BY <1>1, <1>2, <1>3, <1>4, <1>5, <1>6, <1>7 DEF SlotStep

(* ... and whatever the tenant, the operator, KubeVirt and the host do. *)
LEMMA TenantTypeOK == ASSUME TypeOK, Tenant PROVE TypeOK'
<1> USE DEF TypeOK, guest, host, pass, PVCStates, PVStates, VAStates
<1>1. ASSUME NEW c \in Claims,
             CreatePVC(c) \/ SelectNode(c) \/ DeletePVC(c) \/ PVCVanish(c) \/ ForceDelete(c)
      PROVE  TypeOK'
  <2>1. PICK st \in PVCStates : SetPVC(c, st)
        BY <1>1 DEF CreatePVC, SelectNode, DeletePVC, PVCVanish, ForceDelete
  <2>2. pinned' \subseteq Claims
        BY <1>1 DEF CreatePVC, SelectNode, DeletePVC, PVCVanish, ForceDelete
  <2>3. QED BY <2>1, <2>2 DEF SetPVC
<1>2. ASSUME NEW c \in Claims, PVVanish(c) PROVE TypeOK'
      BY <1>2 DEF PVVanish
<1>3. ASSUME NEW s \in Slots, CreateVA(s) \/ DeleteVA(s) \/ ForceVA(s) PROVE TypeOK'
      BY <1>3 DEF CreateVA, DeleteVA, ForceVA
<1>4. QED BY <1>1, <1>2, <1>3 DEF Tenant

LEMMA HostTypeOK == ASSUME TypeOK, KubeVirt \/ Operator PROVE TypeOK'
<1> USE DEF TypeOK, guest, host, pass
<1>1. ASSUME NEW s \in Slots, ApplyRequest(s) PROVE TypeOK'
      BY <1>1 DEF ApplyRequest
<1>2. ASSUME NEW s \in Slots, Plugging(s) \/ Ready(s) \/ LetGo(s) PROVE TypeOK'
      BY <1>2 DEF Plugging, Ready, LetGo, SetPhase, Phases
<1>3. CASE ToggleOffer \/ DeleteTenant BY <1>3 DEF ToggleOffer, DeleteTenant
<1>4. ASSUME NEW c \in Claims, HostPVCVanish(c) PROVE TypeOK'
      BY <1>4 DEF HostPVCVanish, HostStates
<1>5. ASSUME NEW n \in Nodes, DeleteVM(n) PROVE TypeOK'
  <2>1. phase' \in [Slots -> Phases] BY <1>5 DEF DeleteVM, Phases
  <2>2. QED BY <1>5, <2>1 DEF DeleteVM
<1>6. ASSUME NEW n \in Nodes, CreateVM(n) PROVE TypeOK'
      BY <1>6 DEF CreateVM
<1>7. QED BY <1>1, <1>2, <1>3, <1>4, <1>5, <1>6 DEF KubeVirt, Operator

(* Every state of every behaviour is typed: the program counter, the snapshot  *)
(* and the loops of a pass, and the state of guest and host it works on.       *)
THEOREM TypeCorrect == Spec => []TypeOK
<1>1. TypeOK /\ [Next]_vars => TypeOK'
  <2> SUFFICES ASSUME TypeOK, [Next]_vars PROVE TypeOK' OBVIOUS
  <2>1. CASE Syncer
        BY <2>1, ListTypeOK, StageTypeOK, ClaimStepTypeOK, SlotStepTypeOK DEF Syncer
  <2>2. CASE UNCHANGED vars BY <2>2 DEF TypeOK, vars, guest, host, pass
  <2>3. QED BY <2>1, <2>2, StageTypeOK, TenantTypeOK, HostTypeOK DEF Next
<1>2. QED BY <1>1, InitTypeOK, PTL DEF Spec

--------------------------------------------------------------------------------
(* SnapshotTruth.  Only PlugVA puts a volume into a VM; every other step can   *)
(* only take volumes out, so a snapshot that overstates goes on overstating.   *)

Shrinks == \A s \in Slots : (InSpec(s)' => InSpec(s)) /\ (Carried(s)' => Carried(s))

KeepsSnap ==
    /\ pc' = pc
    /\ snap'.vms = snap.vms /\ snap'.spec = snap.spec /\ snap'.phase = snap.phase
    /\ \A s \in Slots : Active(s) => Active(s)'

LEMMA UnchangedShrinks == UNCHANGED host => Shrinks /\ vm' = vm
  BY DEF host, Shrinks, InSpec, Carried

LEMMA RemoveShrinks ==
    ASSUME TypeOK, NEW ss, NEW lost, RemoveVolumes(ss, lost)
    PROVE  Shrinks /\ vm' = vm
<1> SUFFICES ASSUME NEW s \in Slots
             PROVE  (InSpec(s)' => InSpec(s)) /\ (Carried(s)' => Carried(s))
    BY DEF RemoveVolumes, Shrinks
<1>1. queue'[s] = queue[s] \/ queue'[s] = "remove" BY DEF RemoveVolumes
<1>2. QED BY <1>1 DEF RemoveVolumes, InSpec, Carried

LEMMA DeleteShrinks ==
    ASSUME NEW c \in Claims, NEW failed \in BOOLEAN, DeleteHostPVC(c, failed)
    PROVE  Shrinks /\ vm' = vm
  BY DEF DeleteHostPVC, Shrinks, InSpec, Carried

LEMMA ClaimStepKeeps ==
    ASSUME TypeOK, NEW c \in Claims, ClaimStep(c)
    PROVE  KeepsSnap /\ Shrinks /\ vm' = vm
<1>1. CASE PinPVC(c) \/ NotTriggered(c) \/ ReleasePVC(c) \/ AwaitAttachments(c)
  BY <1>1, UnchangedShrinks
     DEF PinPVC, NotTriggered, ReleasePVC, AwaitAttachments, ClaimDone, KeepsSnap, Active
<1>2. CASE CreateHostPVC(c)
  <2>1. snap' = snap \/ snap' = [snap EXCEPT !.host = @ \cup {c}] BY <1>2 DEF CreateHostPVC
  <2>2. KeepsSnap BY <1>2, <2>1 DEF CreateHostPVC, KeepsSnap, Active, TypeOK
  <2>3. QED BY <1>2, <2>2 DEF CreateHostPVC, Shrinks, InSpec, Carried
<1>3. CASE CreatePV(c)
  <2>1. snap' = snap \/ snap' = [snap EXCEPT !.pv = @ \cup {c}] BY <1>3 DEF CreatePV
  <2>2. KeepsSnap BY <1>3, <2>1 DEF CreatePV, ClaimDone, KeepsSnap, Active, TypeOK
  <2>3. QED BY <1>3, <2>2, UnchangedShrinks DEF CreatePV
<1>4. CASE AwaitUnplug(c) \/ UnplugOrphan(c) \/ LeaveUnplug(c)
  <2>1. KeepsSnap
        BY <1>4 DEF AwaitUnplug, UnplugOrphan, LeaveUnplug, ClaimDone, KeepsSnap, Active
  <2>2. QED BY <1>4, <2>1, RemoveShrinks DEF AwaitUnplug, UnplugOrphan, LeaveUnplug
<1>5. CASE TeardownHostPVC(c)
  <2>1. snap' = snap \/ snap' = [snap EXCEPT !.host = @ \ {c}] BY <1>5 DEF TeardownHostPVC
  <2>2. KeepsSnap BY <1>5, <2>1 DEF TeardownHostPVC, ClaimDone, KeepsSnap, Active, TypeOK
  <2>3. QED BY <1>5, <2>2, DeleteShrinks DEF TeardownHostPVC
<1>6. CASE TeardownPV(c)
  BY <1>6, UnchangedShrinks DEF TeardownPV, ClaimDone, KeepsSnap, Active
<1>7. CASE DeleteOrphan(c) \/ LeaveDelete(c)
  <2>1. KeepsSnap BY <1>7 DEF DeleteOrphan, LeaveDelete, ClaimDone, KeepsSnap, Active
  <2>2. QED BY <1>7, <2>1, DeleteShrinks DEF DeleteOrphan, LeaveDelete
<1>8. QED BY <1>1, <1>2, <1>3, <1>4, <1>5, <1>6, <1>7 DEF ClaimStep

LEMMA SlotStepKeeps ==
    ASSUME TypeOK, NEW s \in Slots, SlotStep(s), ~PlugVA(s)
    PROVE  KeepsSnap /\ Shrinks /\ vm' = vm
<1>1. CASE ReleaseVA(s) \/ PassOverVA(s) \/ WriteVAStatus(s)
  BY <1>1, UnchangedShrinks
     DEF ReleaseVA, PassOverVA, WriteVAStatus, SlotDone, KeepsSnap, Active
<1>2. CASE UnplugVA(s) \/ Sweep(s)
  <2>1. KeepsSnap BY <1>2 DEF UnplugVA, Sweep, SlotDone, KeepsSnap, Active
  <2>2. QED BY <1>2, <2>1, RemoveShrinks DEF UnplugVA, Sweep
<1>3. CASE PinVA(s)
  <2>1. snap' = snap \/ snap' = [snap EXCEPT !.va[s] = "pinned"] BY <1>3 DEF PinVA
  <2>2. KeepsSnap BY <1>3, <2>1 DEF PinVA, KeepsSnap, Active, TypeOK
  <2>3. QED BY <1>3, <2>2, UnchangedShrinks DEF PinVA
<1>4. QED BY <1>1, <1>2, <1>3 DEF SlotStep

(* What the guest, the operator, KubeVirt and the host do leaves the pass      *)
(* alone and puts no volume into a VM.                                         *)
LEMMA TenantKeeps ==
    ASSUME Tenant PROVE UNCHANGED pass /\ UNCHANGED host
<1>1. ASSUME NEW c \in Claims,
             CreatePVC(c) \/ SelectNode(c) \/ DeletePVC(c) \/ PVCVanish(c)
             \/ ForceDelete(c) \/ PVVanish(c)
      PROVE  UNCHANGED pass /\ UNCHANGED host
      BY <1>1 DEF CreatePVC, SelectNode, DeletePVC, PVCVanish, ForceDelete, PVVanish, SetPVC
<1>2. ASSUME NEW s \in Slots, CreateVA(s) \/ DeleteVA(s) \/ ForceVA(s)
      PROVE  UNCHANGED pass /\ UNCHANGED host
      BY <1>2 DEF CreateVA, DeleteVA, ForceVA
<1>3. QED BY <1>1, <1>2 DEF Tenant

LEMMA HostKeeps ==
    ASSUME TypeOK, NoVMNoVolume, KubeVirt \/ Operator
    PROVE  UNCHANGED pass /\ Shrinks /\ NoVMNoVolume'
<1> USE DEF TypeOK, Shrinks, NoVMNoVolume, InSpec, Carried
<1>1. ASSUME NEW s \in Slots, ApplyRequest(s)
      PROVE  UNCHANGED pass /\ Shrinks /\ NoVMNoVolume'
      BY <1>1 DEF ApplyRequest
<1>2. ASSUME NEW s \in Slots, Plugging(s) \/ Ready(s) \/ LetGo(s)
      PROVE  UNCHANGED pass /\ Shrinks /\ NoVMNoVolume'
      BY <1>2 DEF Plugging, Ready, LetGo, SetPhase
<1>3. CASE ToggleOffer \/ DeleteTenant BY <1>3 DEF ToggleOffer, DeleteTenant, host
<1>4. ASSUME NEW c \in Claims, HostPVCVanish(c)
      PROVE  UNCHANGED pass /\ Shrinks /\ NoVMNoVolume'
      BY <1>4 DEF HostPVCVanish
<1>5. ASSUME NEW n \in Nodes, DeleteVM(n)
      PROVE  UNCHANGED pass /\ Shrinks /\ NoVMNoVolume'
      BY <1>5 DEF DeleteVM
<1>6. ASSUME NEW n \in Nodes, CreateVM(n)
      PROVE  UNCHANGED pass /\ Shrinks /\ NoVMNoVolume'
      BY <1>6 DEF CreateVM
<1>7. QED BY <1>1, <1>2, <1>3, <1>4, <1>5, <1>6 DEF KubeVirt, Operator

(* A step that keeps the snapshot and puts no volume in keeps its truth. *)
LEMMA KeptTruth ==
    ASSUME SnapshotTruth, KeepsSnap, Shrinks, NoVMNoVolume'
    PROVE  SnapshotTruth'
<1>1. ListTruth' BY DEF SnapshotTruth, ListTruth, KeepsSnap, Shrinks
<1>2. PassTruth'
      BY DEF SnapshotTruth, PassTruth, Gathered, SeenCarried, KeepsSnap, Shrinks
<1>3. QED BY <1>1, <1>2 DEF SnapshotTruth

LEMMA KeptNoVM ==
    ASSUME NoVMNoVolume, Shrinks, vm' = vm PROVE NoVMNoVolume'
  BY DEF NoVMNoVolume, Shrinks

(* The one step that adds: it serves an active VA, in a VM that exists. *)
LEMMA PlugVATruth ==
    ASSUME TypeOK, SnapshotTruth, NEW s \in Slots, PlugVA(s)
    PROVE  SnapshotTruth'
<1>1. /\ pc = "attach" /\ pc' = pc /\ Active(s) /\ vm' = vm /\ snap' = snap
      /\ spec' = spec /\ phase' = phase
      BY DEF PlugVA, SlotDone
<1>2. queue' = queue \/ (AddAccepted(s) /\ queue' = [queue EXCEPT ![s] = "add"])
      BY DEF PlugVA
<1>3. ASSUME NEW t \in Slots, t # s PROVE Carried(t)' = Carried(t)
      BY <1>1, <1>2, <1>3 DEF Carried, InSpec, TypeOK
<1>4. Carried(s)' => Carried(s) \/ s[1] \in vm
      BY <1>1, <1>2 DEF Carried, InSpec, AddAccepted
<1>5. NoVMNoVolume' BY <1>1, <1>3, <1>4 DEF SnapshotTruth, NoVMNoVolume
<1>6. ListTruth' BY <1>1 DEF ListTruth
<1>7. PassTruth'
      BY <1>1, <1>3 DEF SnapshotTruth, PassTruth, Gathered, LoopPCs, SeenCarried, Active
<1>8. QED BY <1>5, <1>6, <1>7 DEF SnapshotTruth

(* The lists themselves. *)
LEMMA ListVMsTruth ==
    ASSUME TypeOK, SnapshotTruth, ListVMs PROVE SnapshotTruth'
<1>1. UNCHANGED host BY DEF ListVMs
<1>2. snap'.vms = vm /\ snap'.spec = {s \in Slots : InSpec(s)} BY DEF ListVMs, SeenSpec, TypeOK
<1>3. NoVMNoVolume' BY <1>1, UnchangedShrinks, KeptNoVM DEF SnapshotTruth
<1>4. ListTruth'
      BY <1>1, <1>2, UnchangedShrinks DEF SnapshotTruth, NoVMNoVolume, ListTruth, Shrinks
<1>5. PassTruth' BY DEF ListVMs, PassTruth, Gathered, LoopPCs
<1>6. QED BY <1>3, <1>4, <1>5 DEF SnapshotTruth

LEMMA ListVMIsTruth ==
    ASSUME TypeOK, SnapshotTruth, ListVMIs \/ LeaveListVMIs PROVE SnapshotTruth'
<1>1. UNCHANGED host BY DEF ListVMIs, LeaveListVMIs
<1>2. snap'.phase = SeenPhase /\ snap'.spec = snap.spec
      BY DEF ListVMIs, LeaveListVMIs, TypeOK
<1>3. NoVMNoVolume' BY <1>1, UnchangedShrinks, KeptNoVM DEF SnapshotTruth
<1>4. ListTruth' BY DEF ListVMIs, LeaveListVMIs, ListTruth
<1>5. ASSUME NEW s \in Slots, Carried(s)' PROVE SeenCarried(s)'
  <2>1. Carried(s) BY <1>1, <1>5, UnchangedShrinks DEF Shrinks
  <2>2. (InSpec(s) => s \in snap.spec) /\ s[1] \in snap.vms
        BY <2>1 DEF SnapshotTruth, ListTruth, ListVMIs, LeaveListVMIs
  <2>3. SeenPhase[s] = phase[s] BY <2>2 DEF SeenPhase
  <2>4. QED BY <1>2, <2>1, <2>2, <2>3 DEF SeenCarried, Carried
<1>6. PassTruth' BY <1>5 DEF PassTruth
<1>7. QED BY <1>3, <1>4, <1>6 DEF SnapshotTruth

(* Steps that begin or end a pass, or move it on. *)
LEMMA StepTruth ==
    ASSUME TypeOK, SnapshotTruth,
           ListPVCs \/ ListPVs \/ ListVAs \/ ListHost \/ LeaveListPVCs
           \/ NextStage \/ SkipApply \/ EndPass \/ Requeue \/ Leave \/ Abort
    PROVE  SnapshotTruth'
<1>1. UNCHANGED host
      BY DEF ListPVCs, ListPVs, ListVAs, ListHost, LeaveListPVCs, NextStage, SkipApply,
             Stage, EndPass, Requeue, Leave, Abort
<1>2. NoVMNoVolume' BY <1>1, UnchangedShrinks, KeptNoVM DEF SnapshotTruth
<1>3. CASE NextStage \/ SkipApply
  <2>1. Gathered /\ Gathered' /\ UNCHANGED snap
        BY <1>3 DEF NextStage, SkipApply, Stage, Gathered, LoopPCs
  <2>2. PassTruth'
        BY <1>1, <2>1, UnchangedShrinks
           DEF SnapshotTruth, PassTruth, Shrinks, SeenCarried, Active
  <2>3. ListTruth' BY <1>3 DEF NextStage, SkipApply, Stage, ListTruth
  <2>4. QED BY <1>2, <2>2, <2>3 DEF SnapshotTruth
<1>4. CASE ~(NextStage \/ SkipApply)
  <2>1. pc' \in {"idle", "listPVs", "listVAs", "listHost", "listVMs", "leaveVMs"}
        BY <1>4 DEF ListPVCs, ListPVs, ListVAs, ListHost, LeaveListPVCs, EndPass,
                    Requeue, Leave, Abort, Idle
  <2>2. QED BY <1>2, <2>1 DEF SnapshotTruth, ListTruth, PassTruth, Gathered, LoopPCs
<1>5. QED BY <1>3, <1>4

(* A pass never overlooks a volume: in every state, what the VMs carry is what *)
(* the pass saw, or what it asked for through a VA it pinned.                  *)
THEOREM SnapshotTruthHolds == Spec => []SnapshotTruth
<1>1. Init => SnapshotTruth
  <2> SUFFICES ASSUME Init PROVE SnapshotTruth OBVIOUS
  <2>1. \A s \in Slots : ~Carried(s) BY DEF Init, Carried, InSpec
  <2>2. pc = "idle" BY DEF Init
  <2>3. QED BY <2>1, <2>2
            DEF SnapshotTruth, NoVMNoVolume, ListTruth, PassTruth, Gathered, LoopPCs
<1>2. TypeOK /\ SnapshotTruth /\ [Next]_vars => SnapshotTruth'
  <2> SUFFICES ASSUME TypeOK, SnapshotTruth, [Next]_vars PROVE SnapshotTruth' OBVIOUS
  <2>1. ASSUME NEW c \in Claims, ClaimStep(c) PROVE SnapshotTruth'
        BY <2>1, ClaimStepKeeps, KeptNoVM, KeptTruth DEF SnapshotTruth
  <2>2. ASSUME NEW s \in Slots, SlotStep(s) PROVE SnapshotTruth'
    <3>1. CASE PlugVA(s) BY <3>1, PlugVATruth
    <3>2. CASE ~PlugVA(s)
          BY <2>2, <3>2, SlotStepKeeps, KeptNoVM, KeptTruth DEF SnapshotTruth
    <3>3. QED BY <3>1, <3>2
  <2>3. CASE Tenant \/ UNCHANGED vars
    <3>1. UNCHANGED pass /\ UNCHANGED host BY <2>3, TenantKeeps DEF vars
    <3>2. KeepsSnap BY <3>1 DEF pass, KeepsSnap, Active
    <3>3. QED BY <3>1, <3>2, UnchangedShrinks, KeptNoVM, KeptTruth DEF SnapshotTruth
  <2>4. CASE KubeVirt \/ Operator
    <3>1. UNCHANGED pass /\ Shrinks /\ NoVMNoVolume'
          BY <2>4, HostKeeps DEF SnapshotTruth
    <3>2. KeepsSnap BY <3>1 DEF pass, KeepsSnap, Active
    <3>3. QED BY <3>1, <3>2, KeptTruth
  <2>5. QED BY <2>1, <2>2, <2>3, <2>4, ListVMsTruth, ListVMIsTruth, StepTruth DEF Next, Syncer
<1>3. QED BY <1>1, <1>2, TypeCorrect, PTL DEF Spec

(* Only three steps delete a host PVC, each after the pass saw its volume out. *)
LEMMA DeletingSteps ==
    ASSUME TypeOK, [Next]_vars, NEW c \in Claims, DeletesHostPVC(c)
    PROVE  Gathered /\ SeenOut(c)
<1> USE DEF DeletesHostPVC
<1>1. ASSUME NEW d \in Claims, ClaimStep(d) PROVE Gathered /\ SeenOut(c)
  <2>1. CASE TeardownHostPVC(d) \/ DeleteOrphan(d) \/ LeaveDelete(d)
    <3>1. d = c
          BY <2>1 DEF TeardownHostPVC, DeleteOrphan, LeaveDelete, DeleteHostPVC, TypeOK
    <3>2. QED BY <2>1, <3>1 DEF TeardownHostPVC, DeleteOrphan, LeaveDelete, Gathered, LoopPCs
  <2>2. CASE CreateHostPVC(d) BY <2>2 DEF CreateHostPVC, TypeOK
  <2>3. CASE AwaitUnplug(d) \/ UnplugOrphan(d) \/ LeaveUnplug(d)
        BY <2>3 DEF AwaitUnplug, UnplugOrphan, LeaveUnplug, RemoveVolumes
  <2>4. QED BY <1>1, <2>1, <2>2, <2>3
            DEF ClaimStep, PinPVC, NotTriggered, CreatePV, AwaitAttachments, TeardownPV,
                ReleasePVC, host
<1>2. ASSUME NEW s \in Slots, SlotStep(s) PROVE FALSE
  <2>1. hostPVC' = hostPVC
        BY <1>2 DEF SlotStep, ReleaseVA, UnplugVA, PinVA, PlugVA, PassOverVA, Sweep,
                    WriteVAStatus, RemoveVolumes, host
  <2>2. QED BY <2>1
<1>3. CASE KubeVirt \/ Operator
  <2>1. hostPVC'[c] = hostPVC[c] \/ hostPVC[c] = "terminating"
        BY <1>3 DEF KubeVirt, Operator, ApplyRequest, Plugging, Ready, LetGo, SetPhase,
                    ToggleOffer, DeleteTenant, HostPVCVanish, DeleteVM, CreateVM, host, TypeOK
  <2>2. QED BY <2>1
<1>4. CASE Tenant \/ UNCHANGED vars BY <1>4, TenantKeeps DEF vars, host
<1>5. CASE \/ ListPVCs \/ ListPVs \/ ListVAs \/ ListHost \/ ListVMs \/ ListVMIs
           \/ NextStage \/ SkipApply \/ EndPass \/ LeaveListPVCs \/ LeaveListVMIs
           \/ Requeue \/ Leave \/ Abort
  <2>1. hostPVC' = hostPVC
        BY <1>5 DEF ListPVCs, ListPVs, ListVAs, ListHost, ListVMs, ListVMIs, NextStage,
             SkipApply, Stage, EndPass, LeaveListPVCs, LeaveListVMIs, Requeue, Leave, Abort, host
  <2>2. QED BY <2>1
<1>6. QED BY <1>1, <1>2, <1>3, <1>4, <1>5 DEF Next, Syncer

(* Whatever fails, crashes or is raced, a host PVC is deleted only when its    *)
(* volume is out of every VM, unless the pass itself served an active VA of it.*)
THEOREM UnplugBeforeDeleteHolds == Spec => UnplugBeforeDelete
<1>1. ASSUME TypeOK, SnapshotTruth, [Next]_vars, NEW c \in Claims, DeletesHostPVC(c),
             \A s \in Slots : s[2] = c => ~Active(s)
      PROVE  Out(c)
  <2>1. Gathered /\ SeenOut(c) BY <1>1, DeletingSteps
  <2>2. QED BY <1>1, <2>1 DEF SnapshotTruth, PassTruth, SeenOut, Out
<1>2. TypeOK /\ SnapshotTruth /\ [Next]_vars
      => [\A c \in Claims :
            DeletesHostPVC(c) /\ (\A s \in Slots : s[2] = c => ~Active(s)) => Out(c)]_vars
      BY <1>1
<1>3. QED BY <1>2, TypeCorrect, SnapshotTruthHolds, PTL DEF Spec, UnplugBeforeDelete
===============================================================================
