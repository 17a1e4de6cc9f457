-------------------------- MODULE StoragePass_proofs --------------------------
(***************************************************************************)
(* More proofs about StorageSync, for any claims, nodes and faults and     *)
(* whatever the tenant forces: which step writes what, the shape of a      *)
(* pass, and on these that foreign host PVCs are left alone, that a tenant *)
(* leaves nothing on the host, and that a PVC is let go only torn down.    *)
(***************************************************************************)
EXTENDS StorageSync_proofs

(* The steps that only read, or only move the pass on. *)
Lists  == \/ ListPVCs \/ ListPVs \/ ListVAs \/ ListHost \/ ListVMs \/ ListVMIs
          \/ LeaveListPVCs \/ LeaveListVMIs
Stages == NextStage \/ SkipApply
Ends   == EndPass \/ Requeue \/ Abort

LEMMA ReadersChangeNothing ==
    ASSUME Lists \/ Stages \/ Ends PROVE UNCHANGED <<guest, tc, host>>
  BY DEF Lists, Stages, Ends, ListPVCs, ListPVs, ListVAs, ListHost, ListVMs, ListVMIs,
         LeaveListPVCs, LeaveListVMIs, NextStage, SkipApply, Stage, EndPass, Requeue, Abort

LEMMA StepKinds ==
    ASSUME [Next]_vars
    PROVE  \/ Lists \/ Stages \/ Ends \/ Leave \/ Tenant \/ KubeVirt \/ Operator
           \/ UNCHANGED vars
           \/ \E c \in Claims : ClaimStep(c)
           \/ \E s \in Slots : SlotStep(s)
  BY DEF Next, Syncer, Lists, Stages, Ends

LEMMA ClaimStepFrame ==
    ASSUME TypeOK, NEW c \in Claims, ClaimStep(c)
    PROVE  UNCHANGED <<pvc, va, tc, vm, spec, phase, pc>>
<1>1. CASE AwaitUnplug(c) \/ UnplugOrphan(c) \/ LeaveUnplug(c)
  BY <1>1 DEF AwaitUnplug, UnplugOrphan, LeaveUnplug, RemoveVolumes, ClaimDone, guest
<1>2. CASE TeardownHostPVC(c) \/ DeleteOrphan(c) \/ LeaveDelete(c)
  BY <1>2 DEF TeardownHostPVC, DeleteOrphan, LeaveDelete, DeleteHostPVC, ClaimDone, guest
<1>3. QED
  BY <1>1, <1>2 DEF ClaimStep, PinPVC, NotTriggered, CreateHostPVC, CreatePV, AwaitAttachments,
        TeardownPV, ReleasePVC, ClaimDone, guest, host

LEMMA SlotStepFrame ==
    ASSUME TypeOK, NEW s \in Slots, SlotStep(s)
    PROVE  UNCHANGED <<pvc, pinned, pv, tc, hostPVC, vm, spec, phase, pc, claims, want>>
<1>1. CASE UnplugVA(s) \/ Sweep(s)
  BY <1>1 DEF UnplugVA, Sweep, RemoveVolumes, SlotDone, guest
<1>2. QED
  BY <1>1 DEF SlotStep, ReleaseVA, PinVA, PlugVA, PassOverVA, WriteVAStatus, SlotDone, guest, host

LEMMA KubeVirtFrame == ASSUME KubeVirt PROVE UNCHANGED <<guest, tc, hostPVC, vm, pass>>
  BY DEF KubeVirt, ApplyRequest, Plugging, Ready, LetGo, SetPhase

LEMMA OperatorFrame == ASSUME Operator PROVE UNCHANGED <<guest, pass>>
  BY DEF Operator, ToggleOffer, DeleteTenant, HostPVCVanish, DeleteVM, CreateVM

LEMMA TenantFrame == ASSUME Tenant PROVE UNCHANGED <<offered, tc, host, pass>>
<1>1. ASSUME NEW c \in Claims,
             CreatePVC(c) \/ SelectNode(c) \/ DeletePVC(c) \/ PVCVanish(c)
             \/ ForceDelete(c) \/ PVVanish(c)
      PROVE  UNCHANGED <<offered, tc, host, pass>>
      BY <1>1 DEF CreatePVC, SelectNode, DeletePVC, PVCVanish, ForceDelete, PVVanish, SetPVC
<1>2. ASSUME NEW s \in Slots, CreateVA(s) \/ DeleteVA(s) \/ ForceVA(s)
      PROVE  UNCHANGED <<offered, tc, host, pass>>
      BY <1>2 DEF CreateVA, DeleteVA, ForceVA
<1>3. QED BY <1>1, <1>2 DEF Tenant

--------------------------------------------------------------------------------
(* Who writes what.  Each lemma names the steps that can change one piece of   *)
(* the state; the invariants below are then argued from those steps alone.     *)

LEMMA PVCWriters ==
    ASSUME TypeOK, [Next]_vars, NEW c \in Claims, pvc'[c] # pvc[c]
    PROVE  /\ UNCHANGED <<pv, va, tc, host, pass>>
           /\ pvc[c] # "gone" /\ pvc'[c] # "absent"
           /\ pvc[c] = "deleting" => pvc'[c] = "gone"
           /\ pvc'[c] \in {"pending", "refused"} => pvc[c] = "absent"
           /\ pvc'[c] = "selected" => pvc[c] = "pending"
<1>1. Tenant
      BY StepKinds, ReadersChangeNothing, ClaimStepFrame, SlotStepFrame, KubeVirtFrame,
         OperatorFrame DEF Leave, CleanupGuestStorage, guest, vars
<1>2. ASSUME NEW d \in Claims, PVVanish(d) PROVE FALSE BY <1>2 DEF PVVanish
<1>3. ASSUME NEW s \in Slots, CreateVA(s) \/ DeleteVA(s) \/ ForceVA(s) PROVE FALSE
      BY <1>3 DEF CreateVA, DeleteVA, ForceVA
<1>4. PICK d \in Claims : \/ CreatePVC(d) \/ SelectNode(d) \/ DeletePVC(d)
                          \/ PVCVanish(d) \/ ForceDelete(d)
      BY <1>1, <1>2, <1>3 DEF Tenant
<1>5. d = c
      BY <1>4 DEF CreatePVC, SelectNode, DeletePVC, PVCVanish, ForceDelete, SetPVC, TypeOK
<1>6. QED BY <1>4, <1>5 DEF CreatePVC, SelectNode, DeletePVC, PVCVanish, ForceDelete,
                            SetPVC, Live, TypeOK

LEMMA PVWriters ==
    ASSUME TypeOK, [Next]_vars, NEW c \in Claims, pv'[c] # pv[c]
    PROVE  CreatePV(c) \/ TeardownPV(c) \/ PVVanish(c) \/ Leave
<1>1. ASSUME NEW d \in Claims, ClaimStep(d) PROVE CreatePV(c) \/ TeardownPV(c)
  <2>1. CASE CreatePV(d) BY <2>1 DEF CreatePV, TypeOK
  <2>2. CASE TeardownPV(d) BY <2>2 DEF TeardownPV, TypeOK
  <2>3. CASE ~CreatePV(d) /\ ~TeardownPV(d)
        BY <1>1, <2>3 DEF ClaimStep, PinPVC, NotTriggered, CreateHostPVC, AwaitAttachments,
           AwaitUnplug, TeardownHostPVC, UnplugOrphan, DeleteOrphan, ReleasePVC,
           LeaveUnplug, LeaveDelete, guest
  <2>4. QED BY <2>1, <2>2, <2>3
<1>2. CASE Tenant
  <2>1. ASSUME NEW d \in Claims, \/ CreatePVC(d) \/ SelectNode(d) \/ DeletePVC(d)
                                 \/ PVCVanish(d) \/ ForceDelete(d)
        PROVE FALSE
        BY <2>1 DEF CreatePVC, SelectNode, DeletePVC, PVCVanish, ForceDelete, SetPVC
  <2>2. ASSUME NEW s \in Slots, CreateVA(s) \/ DeleteVA(s) \/ ForceVA(s) PROVE FALSE
        BY <2>2 DEF CreateVA, DeleteVA, ForceVA
  <2>3. PICK d \in Claims : PVVanish(d) BY <1>2, <2>1, <2>2 DEF Tenant
  <2>4. QED BY <2>3 DEF PVVanish, TypeOK
<1>3. QED BY <1>1, <1>2, StepKinds, ReadersChangeNothing, SlotStepFrame, KubeVirtFrame,
             OperatorFrame DEF guest, vars

LEMMA VAWriters ==
    ASSUME TypeOK, [Next]_vars, NEW s \in Slots, va'[s] # va[s]
    PROVE  \/ ReleaseVA(s) \/ PinVA(s) \/ WriteVAStatus(s) \/ Leave
           \/ CreateVA(s) \/ DeleteVA(s) \/ ForceVA(s)
<1>1. ASSUME NEW t \in Slots, SlotStep(t)
      PROVE  ReleaseVA(s) \/ PinVA(s) \/ WriteVAStatus(s)
  <2>1. CASE ReleaseVA(t) BY <2>1 DEF ReleaseVA, TypeOK
  <2>2. CASE PinVA(t) BY <2>2 DEF PinVA, TypeOK
  <2>3. CASE WriteVAStatus(t) BY <2>3 DEF WriteVAStatus, TypeOK
  <2>4. QED BY <1>1, <2>1, <2>2, <2>3
            DEF SlotStep, UnplugVA, PlugVA, PassOverVA, Sweep, guest
<1>2. CASE Tenant
  <2>1. ASSUME NEW d \in Claims, \/ CreatePVC(d) \/ SelectNode(d) \/ DeletePVC(d)
                                 \/ PVCVanish(d) \/ ForceDelete(d) \/ PVVanish(d)
        PROVE FALSE
        BY <2>1 DEF CreatePVC, SelectNode, DeletePVC, PVCVanish, ForceDelete, SetPVC, PVVanish
  <2>2. PICK t \in Slots : CreateVA(t) \/ DeleteVA(t) \/ ForceVA(t)
        BY <1>2, <2>1 DEF Tenant
  <2>3. s = t BY <2>2 DEF CreateVA, DeleteVA, ForceVA, TypeOK
  <2>4. QED BY <2>2, <2>3
<1>3. QED BY <1>1, <1>2, StepKinds, ReadersChangeNothing, ClaimStepFrame, KubeVirtFrame,
             OperatorFrame DEF guest, vars

LEMMA HostPVCWriters ==
    ASSUME TypeOK, [Next]_vars, NEW c \in Claims, hostPVC'[c] # hostPVC[c]
    PROVE  \/ CreateHostPVC(c) \/ TeardownHostPVC(c) \/ DeleteOrphan(c)
           \/ LeaveDelete(c) \/ HostPVCVanish(c)
<1>1. ASSUME NEW d \in Claims, ClaimStep(d)
      PROVE  CreateHostPVC(c) \/ TeardownHostPVC(c) \/ DeleteOrphan(c) \/ LeaveDelete(c)
  <2>1. CASE CreateHostPVC(d) BY <2>1 DEF CreateHostPVC, TypeOK
  <2>2. CASE TeardownHostPVC(d) \/ DeleteOrphan(d) \/ LeaveDelete(d)
    <3>1. d = c BY <2>2 DEF TeardownHostPVC, DeleteOrphan, LeaveDelete, DeleteHostPVC, TypeOK
    <3>2. QED BY <2>2, <3>1
  <2>3. QED BY <1>1, <2>1, <2>2
            DEF ClaimStep, PinPVC, NotTriggered, CreatePV, AwaitAttachments, AwaitUnplug,
                TeardownPV, UnplugOrphan, ReleasePVC, LeaveUnplug, RemoveVolumes, host
<1>2. CASE Operator
  <2>1. PICK d \in Claims : HostPVCVanish(d)
        BY <1>2 DEF Operator, ToggleOffer, DeleteTenant, DeleteVM, CreateVM, host
  <2>2. QED BY <2>1 DEF HostPVCVanish, TypeOK
<1>3. QED BY <1>1, <1>2, StepKinds, ReadersChangeNothing, SlotStepFrame, KubeVirtFrame,
             TenantFrame DEF host, vars, Leave

LEMMA TCWriters ==
    ASSUME TypeOK, [Next]_vars, tc' # tc PROVE DeleteTenant \/ Leave
<1>1. CASE Operator
      BY <1>1 DEF Operator, ToggleOffer, HostPVCVanish, DeleteVM, CreateVM
<1>2. QED BY <1>1, StepKinds, ReadersChangeNothing, ClaimStepFrame, SlotStepFrame,
             KubeVirtFrame, TenantFrame DEF vars

(* The snapshot: each list is written by the step that takes it, by the steps  *)
(* that create, delete or pin what it holds, and by the end of the pass.       *)
LEMMA SnapWriters ==
    ASSUME TypeOK, [Next]_vars, snap' # snap
    PROVE  \/ Lists \/ Idle
           \/ \E c \in Claims : CreateHostPVC(c) \/ CreatePV(c) \/ TeardownHostPVC(c)
           \/ \E s \in Slots : PinVA(s)
<1>1. ASSUME NEW c \in Claims, ClaimStep(c)
      PROVE  CreateHostPVC(c) \/ CreatePV(c) \/ TeardownHostPVC(c)
      BY <1>1 DEF ClaimStep, PinPVC, NotTriggered, AwaitAttachments, AwaitUnplug, TeardownPV,
                  UnplugOrphan, DeleteOrphan, ReleasePVC, LeaveUnplug, LeaveDelete
<1>2. ASSUME NEW s \in Slots, SlotStep(s) PROVE PinVA(s)
      BY <1>2 DEF SlotStep, ReleaseVA, UnplugVA, PlugVA, PassOverVA, Sweep, WriteVAStatus
<1>3. ASSUME Stages PROVE FALSE BY <1>3 DEF Stages, NextStage, SkipApply, Stage
<1>4. ASSUME Ends \/ Leave PROVE Idle
      BY <1>4 DEF Ends, EndPass, Requeue, Abort, Leave
<1>5. QED BY <1>1, <1>2, <1>3, <1>4, StepKinds, KubeVirtFrame, OperatorFrame, TenantFrame
          DEF vars, pass

LEMMA SnapLists ==
    ASSUME TypeOK, [Next]_vars, ~Idle
    PROVE  /\ ~ListPVCs => snap'.pvc = snap.pvc /\ snap'.pin = snap.pin
           /\ ~ListHost => snap'.offered = snap.offered
           /\ ~ListVMs => snap'.vms = snap.vms /\ snap'.spec = snap.spec
           /\ ~ListVMIs /\ ~LeaveListVMIs => snap'.phase = snap.phase
<1>1. CASE Lists
      BY <1>1 DEF Lists, ListPVCs, ListPVs, ListVAs, ListHost, ListVMs, ListVMIs,
                  LeaveListPVCs, LeaveListVMIs, TypeOK
<1>2. ASSUME NEW c \in Claims, CreateHostPVC(c) \/ CreatePV(c) \/ TeardownHostPVC(c)
      PROVE  /\ snap'.pvc = snap.pvc /\ snap'.pin = snap.pin /\ snap'.offered = snap.offered
             /\ snap'.vms = snap.vms /\ snap'.spec = snap.spec /\ snap'.phase = snap.phase
  <2>1. \/ snap' = snap
        \/ snap' = [snap EXCEPT !.host = @ \cup {c}]
        \/ snap' = [snap EXCEPT !.pv = @ \cup {c}]
        \/ snap' = [snap EXCEPT !.host = @ \ {c}]
        BY <1>2 DEF CreateHostPVC, CreatePV, TeardownHostPVC
  <2>2. QED BY <2>1 DEF TypeOK
<1>3. ASSUME NEW s \in Slots, PinVA(s)
      PROVE  /\ snap'.pvc = snap.pvc /\ snap'.pin = snap.pin /\ snap'.offered = snap.offered
             /\ snap'.vms = snap.vms /\ snap'.spec = snap.spec /\ snap'.phase = snap.phase
  <2>1. snap' = snap \/ snap' = [snap EXCEPT !.va[s] = "pinned"] BY <1>3 DEF PinVA
  <2>2. QED BY <2>1 DEF TypeOK
<1>4. QED BY <1>1, <1>2, <1>3, SnapWriters

LEMMA SnapPVWriters ==
    ASSUME TypeOK, [Next]_vars, NEW c \in Claims, ~(c \in snap'.pv <=> c \in snap.pv)
    PROVE  ListPVs \/ Idle \/ CreatePV(c)
<1>1. CASE Lists
      BY <1>1 DEF Lists, ListPVCs, ListPVs, ListVAs, ListHost, ListVMs, ListVMIs,
                  LeaveListPVCs, LeaveListVMIs, TypeOK
<1>2. ASSUME NEW d \in Claims, CreatePV(d) PROVE CreatePV(c)
  <2>1. snap' = snap \/ snap' = [snap EXCEPT !.pv = @ \cup {d}] BY <1>2 DEF CreatePV
  <2>2. c = d BY <2>1 DEF TypeOK
  <2>3. QED BY <1>2, <2>2
<1>3. ASSUME NEW d \in Claims, CreateHostPVC(d) \/ TeardownHostPVC(d) PROVE FALSE
  <2>1. \/ snap' = snap
        \/ snap' = [snap EXCEPT !.host = @ \cup {d}]
        \/ snap' = [snap EXCEPT !.host = @ \ {d}]
        BY <1>3 DEF CreateHostPVC, TeardownHostPVC
  <2>2. QED BY <2>1 DEF TypeOK
<1>4. ASSUME NEW s \in Slots, PinVA(s) PROVE FALSE
  <2>1. snap' = snap \/ snap' = [snap EXCEPT !.va[s] = "pinned"] BY <1>4 DEF PinVA
  <2>2. QED BY <2>1 DEF TypeOK
<1>5. QED BY <1>1, <1>2, <1>3, <1>4, SnapWriters

LEMMA SnapVAWriters ==
    ASSUME TypeOK, [Next]_vars, NEW s \in Slots, snap'.va[s] # snap.va[s]
    PROVE  \/ ListVAs \/ Idle
           \/ PinVA(s) /\ snap.va[s] = "new" /\ snap'.va[s] = "pinned" /\ va'[s] = "pinned"
<1>1. CASE Lists
      BY <1>1 DEF Lists, ListPVCs, ListPVs, ListVAs, ListHost, ListVMs, ListVMIs,
                  LeaveListPVCs, LeaveListVMIs, TypeOK
<1>2. ASSUME NEW t \in Slots, PinVA(t)
      PROVE  PinVA(s) /\ snap.va[s] = "new" /\ snap'.va[s] = "pinned" /\ va'[s] = "pinned"
  <2>1. snap' = [snap EXCEPT !.va[t] = "pinned"] /\ va' = [va EXCEPT ![t] = "pinned"]
        BY <1>2 DEF PinVA
  <2>2. s = t BY <2>1 DEF TypeOK
  <2>3. QED BY <1>2, <2>1, <2>2 DEF PinVA, TypeOK
<1>3. ASSUME NEW d \in Claims, CreateHostPVC(d) \/ TeardownHostPVC(d) \/ CreatePV(d)
      PROVE FALSE
  <2>1. \/ snap' = snap
        \/ snap' = [snap EXCEPT !.host = @ \cup {d}]
        \/ snap' = [snap EXCEPT !.pv = @ \cup {d}]
        \/ snap' = [snap EXCEPT !.host = @ \ {d}]
        BY <1>3 DEF CreateHostPVC, CreatePV, TeardownHostPVC
  <2>2. QED BY <2>1 DEF TypeOK
<1>4. QED BY <1>1, <1>2, <1>3, SnapWriters

LEMMA SnapHostWriters ==
    ASSUME TypeOK, [Next]_vars, NEW c \in Claims, ~(c \in snap'.host <=> c \in snap.host)
    PROVE  \/ ListHost \/ LeaveListPVCs \/ Idle
           \/ CreateHostPVC(c) \/ TeardownHostPVC(c)
<1>1. CASE Lists
      BY <1>1 DEF Lists, ListPVCs, ListPVs, ListVAs, ListHost, ListVMs, ListVMIs,
                  LeaveListPVCs, LeaveListVMIs, TypeOK
<1>2. ASSUME NEW d \in Claims, CreateHostPVC(d) \/ TeardownHostPVC(d)
      PROVE  CreateHostPVC(c) \/ TeardownHostPVC(c)
  <2>1. \/ snap' = snap
        \/ snap' = [snap EXCEPT !.host = @ \cup {d}]
        \/ snap' = [snap EXCEPT !.host = @ \ {d}]
        BY <1>2 DEF CreateHostPVC, TeardownHostPVC
  <2>2. c = d BY <2>1 DEF TypeOK
  <2>3. QED BY <1>2, <2>2
<1>3. ASSUME NEW d \in Claims, CreatePV(d) PROVE FALSE
  <2>1. snap' = snap \/ snap' = [snap EXCEPT !.pv = @ \cup {d}] BY <1>3 DEF CreatePV
  <2>2. QED BY <2>1 DEF TypeOK
<1>4. ASSUME NEW s \in Slots, PinVA(s) PROVE FALSE
  <2>1. snap' = snap \/ snap' = [snap EXCEPT !.va[s] = "pinned"] BY <1>4 DEF PinVA
  <2>2. QED BY <2>1 DEF TypeOK
<1>5. QED BY <1>1, <1>2, <1>3, <1>4, SnapWriters

LEMMA PCWriters ==
    ASSUME TypeOK, [Next]_vars, pc' # pc PROVE Lists \/ Stages \/ Idle
<1>1. ASSUME Ends \/ Leave PROVE Idle
      BY <1>1 DEF Ends, EndPass, Requeue, Abort, Leave
<1>2. QED BY <1>1, StepKinds, ClaimStepFrame, SlotStepFrame, KubeVirtFrame, OperatorFrame,
             TenantFrame DEF vars, pass

(* The VMs.  A volume gets into one by PlugVA alone, ... *)
LEMMA CarriedWriters ==
    ASSUME TypeOK, NoVMNoVolume, [Next]_vars, NEW s \in Slots, Carried(s)', ~Carried(s)
    PROVE  PlugVA(s)
<1>1. ASSUME NEW t \in Slots, SlotStep(t) PROVE PlugVA(s)
  <2>1. PlugVA(t) BY <1>1, SlotStepKeeps DEF Shrinks
  <2>2. /\ spec' = spec /\ phase' = phase
        /\ queue' = queue \/ queue' = [queue EXCEPT ![t] = "add"]
        BY <2>1 DEF PlugVA
  <2>3. s = t BY <2>2 DEF Carried, InSpec, TypeOK
  <2>4. QED BY <2>1, <2>3
<1>2. ASSUME UNCHANGED host PROVE FALSE BY <1>2, UnchangedShrinks DEF Shrinks
<1>3. ASSUME KubeVirt \/ Operator PROVE FALSE BY <1>3, HostKeeps DEF Shrinks
<1>4. ASSUME NEW c \in Claims, ClaimStep(c) PROVE FALSE BY <1>4, ClaimStepKeeps DEF Shrinks
<1>5. QED BY <1>1, <1>2, <1>3, <1>4, StepKinds, ReadersChangeNothing, TenantFrame
          DEF Leave, vars

(* ... the VMI's status of it by KubeVirt or with its VM, ... *)
LEMMA PhaseWriters ==
    ASSUME TypeOK, [Next]_vars, NEW s \in Slots, phase'[s] # phase[s]
    PROVE  Plugging(s) \/ Ready(s) \/ LetGo(s) \/ DeleteVM(s[1])
<1>1. CASE KubeVirt
  <2>1. PICK t \in Slots : Plugging(t) \/ Ready(t) \/ LetGo(t)
        BY <1>1 DEF KubeVirt, ApplyRequest
  <2>2. s = t BY <2>1 DEF Plugging, Ready, LetGo, SetPhase, TypeOK
  <2>3. QED BY <2>1, <2>2
<1>2. CASE Operator
  <2>1. PICK n \in Nodes : DeleteVM(n)
        BY <1>2 DEF Operator, ToggleOffer, DeleteTenant, HostPVCVanish, CreateVM, host
  <2>2. n = s[1] BY <2>1 DEF DeleteVM, TypeOK
  <2>3. QED BY <2>1, <2>2
<1>3. QED BY <1>1, <1>2, StepKinds, ReadersChangeNothing, ClaimStepFrame, SlotStepFrame,
             TenantFrame DEF host, vars, Leave

(* ... its place in a template spec by an applied request or with the VM, ... *)
LEMMA SpecWriters ==
    ASSUME TypeOK, [Next]_vars, NEW s \in Slots, ~(s \in spec' <=> s \in spec)
    PROVE  ApplyRequest(s) \/ DeleteVM(s[1])
<1>1. CASE KubeVirt
  <2>1. PICK t \in Slots : ApplyRequest(t)
        BY <1>1 DEF KubeVirt, Plugging, Ready, LetGo, SetPhase
  <2>2. s = t BY <2>1 DEF ApplyRequest
  <2>3. QED BY <2>1, <2>2
<1>2. CASE Operator
  <2>1. PICK n \in Nodes : DeleteVM(n)
        BY <1>2 DEF Operator, ToggleOffer, DeleteTenant, HostPVCVanish, CreateVM, host
  <2>2. n = s[1] BY <2>1 DEF DeleteVM
  <2>3. QED BY <2>1, <2>2
<1>3. QED BY <1>1, <1>2, StepKinds, ReadersChangeNothing, ClaimStepFrame, SlotStepFrame,
             TenantFrame DEF host, vars, Leave

(* ... and its unapplied request by those and by the pass. *)
Unplugs(s) ==
    /\ queue[s] = "none" /\ queue'[s] = "remove" /\ s \in spec
    /\ \/ UnplugVA(s) \/ AwaitUnplug(s[2]) \/ UnplugOrphan(s[2]) \/ LeaveUnplug(s[2])
       \/ Sweep(s) /\ hostPVC[s[2]] = "none"

LEMMA RemoveWrites ==
    ASSUME TypeOK, NEW ss, NEW lost, RemoveVolumes(ss, lost),
           NEW s \in Slots, queue'[s] # queue[s]
    PROVE  s \in ss /\ queue[s] = "none" /\ queue'[s] = "remove" /\ s \in spec
  BY DEF RemoveVolumes, RemoveAccepted, TypeOK

LEMMA QueueWriters ==
    ASSUME TypeOK, [Next]_vars, NEW s \in Slots, queue'[s] # queue[s]
    PROVE  Unplugs(s) \/ PlugVA(s) \/ ApplyRequest(s) \/ DeleteVM(s[1])
<1>1. ASSUME NEW c \in Claims, ClaimStep(c) PROVE Unplugs(s)
  <2>1. AwaitUnplug(c) \/ UnplugOrphan(c) \/ LeaveUnplug(c)
        BY <1>1 DEF ClaimStep, PinPVC, NotTriggered, CreateHostPVC, CreatePV, AwaitAttachments,
                    TeardownHostPVC, TeardownPV, DeleteOrphan, ReleasePVC, LeaveDelete,
                    DeleteHostPVC, host
  <2>2. PICK lost : RemoveVolumes(Plugs(c), lost)
        BY <2>1 DEF AwaitUnplug, UnplugOrphan, LeaveUnplug
  <2>3. s \in Plugs(c) /\ queue[s] = "none" /\ queue'[s] = "remove" /\ s \in spec
        BY <2>2, RemoveWrites
  <2>4. s[2] = c BY <2>3 DEF Plugs
  <2>5. QED BY <2>1, <2>3, <2>4 DEF Unplugs
<1>2. ASSUME NEW t \in Slots, SlotStep(t) PROVE Unplugs(s) \/ PlugVA(s)
  <2>1. CASE UnplugVA(t)
    <3>1. PICK lost : RemoveVolumes({t}, lost) BY <2>1 DEF UnplugVA
    <3>2. s \in {t} /\ queue[s] = "none" /\ queue'[s] = "remove" /\ s \in spec
          BY <3>1, RemoveWrites
    <3>3. QED BY <2>1, <3>2 DEF Unplugs
  <2>2. CASE Sweep(t)
    <3>1. PICK lost : RemoveVolumes(IF hostPVC[t[2]] = "none" THEN {t} ELSE {}, lost)
          BY <2>2 DEF Sweep
    <3>2. /\ s \in IF hostPVC[t[2]] = "none" THEN {t} ELSE {}
          /\ queue[s] = "none" /\ queue'[s] = "remove" /\ s \in spec
          BY <3>1, RemoveWrites
    <3>3. s = t /\ hostPVC[s[2]] = "none" BY <3>2
    <3>4. QED BY <2>2, <3>2, <3>3 DEF Unplugs
  <2>3. CASE PlugVA(t) BY <2>3 DEF PlugVA, TypeOK
  <2>4. QED BY <1>2, <2>1, <2>2, <2>3
            DEF SlotStep, ReleaseVA, PinVA, PassOverVA, WriteVAStatus, host
<1>3. CASE KubeVirt
  <2>1. PICK t \in Slots : ApplyRequest(t)
        BY <1>3 DEF KubeVirt, Plugging, Ready, LetGo, SetPhase
  <2>2. s = t BY <2>1 DEF ApplyRequest, TypeOK
  <2>3. QED BY <2>1, <2>2
<1>4. CASE Operator
  <2>1. PICK n \in Nodes : DeleteVM(n)
        BY <1>4 DEF Operator, ToggleOffer, DeleteTenant, HostPVCVanish, CreateVM, host
  <2>2. n = s[1] BY <2>1 DEF DeleteVM, TypeOK
  <2>3. QED BY <2>1, <2>2
<1>5. QED BY <1>1, <1>2, <1>3, <1>4, StepKinds, ReadersChangeNothing, TenantFrame
          DEF host, vars, Leave

--------------------------------------------------------------------------------
(* The shape of a pass: what it has not listed yet is empty in its snapshot,   *)
(* and each loop runs over what its stage set out to handle.                   *)

Unread ==
    /\ pc \in {"idle", "listPVs"} \cup LeavePCs => snap.pv = {}
    /\ pc \in {"idle", "listPVs", "listVAs"} \cup LeavePCs
          => \A s \in Slots : snap.va[s] = "none"
    /\ pc \in {"idle"} \cup LeavePCs => \A c \in Claims : snap.pvc[c] = "absent"
    /\ pc \in {"idle", "listPVs", "listVAs", "listHost"} => snap.host = {}
    /\ pc \in {"idle", "listPVs", "listVAs", "listHost", "listVMs", "leaveVMs"}
          => snap.spec = {}
    /\ pc \in {"idle", "leaveVMs", "leaveVMIs"} \cup ListPCs
          => \A s \in Slots : snap.phase[s] = ""

Loops ==
    /\ pc = "provision" => claims \subseteq Provisionable(snap)
    /\ pc = "attach" => slots \subseteq Listed
    /\ pc = "teardown" => claims \subseteq Deleting
    /\ pc = "orphans" => claims \subseteq Orphaned
    /\ pc = "release" => claims \subseteq snap.pin \ want
    /\ pc = "writeback" => slots \subseteq Reported
    /\ pc = "leaveSweep" => slots \subseteq snap.spec /\ claims = {}

LEMMA EmptySnapFields ==
    /\ EmptySnap.pv = {} /\ EmptySnap.host = {} /\ EmptySnap.spec = {}
    /\ EmptySnap.vms = {} /\ EmptySnap.pin = {}
    /\ \A s \in Slots : EmptySnap.va[s] = "none" /\ EmptySnap.phase[s] = ""
    /\ \A c \in Claims : EmptySnap.pvc[c] = "absent"
  BY DEF EmptySnap

LEMMA UnreadInit == Init => Unread
<1>1. Init => snap = EmptySnap BY DEF Init
<1>2. QED BY <1>1, EmptySnapFields DEF Unread

LEMMA UnreadKept ==
    ASSUME TypeOK, Unread, [Next]_vars PROVE Unread'
<1>1. CASE Idle BY <1>1, EmptySnapFields DEF Idle, Unread, ListPCs, LeavePCs
<1>2. CASE Lists
  <2> USE DEF Unread, TypeOK, ListPCs, LeavePCs
  <2>1. CASE ListPVCs BY <2>1 DEF ListPVCs
  <2>2. CASE ListPVs BY <2>2 DEF ListPVs
  <2>3. CASE ListVAs BY <2>3 DEF ListVAs
  <2>4. CASE ListHost BY <2>4 DEF ListHost
  <2>5. CASE ListVMs BY <2>5 DEF ListVMs
  <2>6. CASE ListVMIs BY <2>6 DEF ListVMIs
  <2>7. CASE LeaveListPVCs BY <2>7 DEF LeaveListPVCs
  <2>8. CASE LeaveListVMIs BY <2>8 DEF LeaveListVMIs
  <2>9. QED BY <1>2, <2>1, <2>2, <2>3, <2>4, <2>5, <2>6, <2>7, <2>8 DEF Lists
<1>3. CASE Stages
  <2>1. /\ snap' = snap
        /\ \/ pc' \in LoopPCs
           \/ pc = "leavePVCs" /\ pc' = "leaveSweep"
        BY <1>3 DEF Stages, NextStage, SkipApply, Stage, LoopPCs
  <2>2. QED BY <2>1 DEF Unread, LoopPCs, ListPCs, LeavePCs
<1>4. CASE ~Lists /\ ~Stages /\ ~Idle
  <2>1. pc' = pc BY <1>4, PCWriters
  <2>2. CASE snap' = snap BY <2>1, <2>2 DEF Unread
  <2>3. CASE snap' # snap
    <3>1. pc \in {"provision", "teardown", "attach"}
          BY <1>4, <2>3, SnapWriters DEF CreateHostPVC, CreatePV, TeardownHostPVC, PinVA
    <3>2. QED BY <2>1, <3>1 DEF Unread, ListPCs, LeavePCs
  <2>4. QED BY <2>2, <2>3
<1>5. QED BY <1>1, <1>2, <1>3, <1>4

LEMMA LoopsInit == Init => Loops
  BY DEF Init, Loops

(* Every loop step takes one element out and leaves the rest of the loop, or   *)
(* the whole of it, to the steps that follow.                                  *)
LEMMA LoopsShrink ==
    ASSUME TypeOK, [Next]_vars, ~Lists, ~Stages, ~Idle
    PROVE  claims' \subseteq claims /\ slots' \subseteq slots
<1>1. ASSUME NEW c \in Claims, ClaimStep(c)
      PROVE  claims' \subseteq claims /\ slots' \subseteq slots
      BY <1>1 DEF ClaimStep, PinPVC, NotTriggered, CreateHostPVC, CreatePV, AwaitAttachments,
                  AwaitUnplug, TeardownHostPVC, TeardownPV, UnplugOrphan, DeleteOrphan,
                  ReleasePVC, LeaveUnplug, LeaveDelete, ClaimDone
<1>2. ASSUME NEW s \in Slots, SlotStep(s)
      PROVE  claims' \subseteq claims /\ slots' \subseteq slots
      BY <1>2 DEF SlotStep, ReleaseVA, UnplugVA, PinVA, PlugVA, PassOverVA, Sweep,
                  WriteVAStatus, SlotDone
<1>3. ~Ends /\ ~Leave BY DEF Ends, EndPass, Requeue, Abort, Leave
<1>4. QED BY <1>1, <1>2, <1>3, StepKinds, KubeVirtFrame, OperatorFrame, TenantFrame
          DEF vars, pass

LEMMA LoopsKept ==
    ASSUME TypeOK, Loops, [Next]_vars PROVE Loops'
<1>1. CASE Idle BY <1>1 DEF Idle, Loops
<1>2. CASE Lists
  <2>1. pc' \in ListPCs \cup {"pin", "leaveVMs", "leaveVMIs", "leavePVCs"}
        BY <1>2 DEF Lists, ListPVCs, ListPVs, ListVAs, ListHost, ListVMs, ListVMIs,
                    LeaveListPVCs, LeaveListVMIs, ListPCs
  <2>2. QED BY <2>1 DEF Loops, ListPCs
<1>3. CASE Stages
  <2>1. snap' = snap /\ want' = want BY <1>3 DEF Stages, NextStage, SkipApply, Stage
  <2>2. QED BY <1>3, <2>1 DEF Stages, NextStage, SkipApply, Stage, Loops, Deleting, Orphaned,
                              Listed, Reported, Provisionable
<1>4. CASE ~Lists /\ ~Stages /\ ~Idle
  <2>1. pc' = pc /\ claims' \subseteq claims /\ slots' \subseteq slots
        BY <1>4, PCWriters, LoopsShrink
  <2>2. /\ snap'.pvc = snap.pvc /\ snap'.pin = snap.pin /\ snap'.offered = snap.offered
        /\ snap'.vms = snap.vms /\ snap'.spec = snap.spec /\ snap'.phase = snap.phase
        BY <1>4, SnapLists DEF Lists
  <2>3. pc \in {"orphans", "writeback", "release", "leaveSweep"} => snap' = snap
        BY <1>4, SnapWriters DEF CreateHostPVC, CreatePV, TeardownHostPVC, PinVA
  <2>4. pc = "attach" => \A s \in Slots : snap.va[s] # "none" => snap'.va[s] # "none"
        BY <1>4, SnapVAWriters DEF Lists
  <2>5. pc = "release" => want' = want
    <3>1. ASSUME NEW c \in Claims, ClaimStep(c), pc = "release" PROVE want' = want
          BY <3>1 DEF ClaimStep, PinPVC, NotTriggered, CreateHostPVC, CreatePV,
                  AwaitAttachments, AwaitUnplug, TeardownHostPVC, TeardownPV, UnplugOrphan,
                  DeleteOrphan, ReleasePVC, LeaveUnplug, LeaveDelete
    <3>2. ~Ends /\ ~Leave BY <1>4 DEF Ends, EndPass, Requeue, Abort, Leave
    <3>3. QED BY <1>4, <3>1, <3>2, StepKinds, SlotStepFrame, KubeVirtFrame, OperatorFrame,
                 TenantFrame DEF vars, pass
  <2>6. QED BY <2>1, <2>2, <2>3, <2>4, <2>5
            DEF Loops, Deleting, Orphaned, Listed, Reported, Provisionable
<1>5. QED BY <1>1, <1>2, <1>3, <1>4

LEMMA PassShapeHolds == Spec => [](Unread /\ Loops)
<1>1. Init => Unread /\ Loops BY UnreadInit, LoopsInit
<1>2. TypeOK /\ Unread /\ Loops /\ [Next]_vars => (Unread /\ Loops)'
      BY UnreadKept, LoopsKept
<1>3. QED BY <1>1, <1>2, TypeCorrect, PTL DEF Spec

--------------------------------------------------------------------------------
(* A host PVC that is not ours.  Its claim gets no PV, so no VA, so no volume, *)
(* and no pass ever lists any of these.                                        *)
Foreign ==
    \A c \in Claims : hostPVC[c] = "foreign" =>
        /\ pv[c] = "none" /\ c \notin snap.host /\ c \notin snap.pv
        /\ \A s \in Slots : s[2] = c => /\ va[s] = "none" /\ snap.va[s] = "none"
                                        /\ ~Carried(s) /\ ~SeenCarried(s)

LEMMA ForeignStays ==
    ASSUME TypeOK, [Next]_vars, NEW c \in Claims
    PROVE  hostPVC'[c] = "foreign" <=> hostPVC[c] = "foreign"
<1> SUFFICES ASSUME hostPVC'[c] # hostPVC[c]
             PROVE  hostPVC'[c] # "foreign" /\ hostPVC[c] # "foreign"
    OBVIOUS
<1>1. CASE TeardownHostPVC(c) \/ DeleteOrphan(c) \/ LeaveDelete(c)
      BY <1>1 DEF TeardownHostPVC, DeleteOrphan, LeaveDelete, DeleteHostPVC, TypeOK
<1>2. QED BY <1>1, HostPVCWriters DEF CreateHostPVC, HostPVCVanish, TypeOK

LEMMA ForeignKept ==
    ASSUME TypeOK, NoVMNoVolume, Loops, Foreign, [Next]_vars PROVE Foreign'
<1> SUFFICES ASSUME NEW c \in Claims, hostPVC'[c] = "foreign"
             PROVE  /\ pv'[c] = "none" /\ c \notin snap'.host /\ c \notin snap'.pv
                    /\ \A s \in Slots : s[2] = c => /\ va'[s] = "none" /\ snap'.va[s] = "none"
                                                    /\ ~Carried(s)' /\ ~SeenCarried(s)'
    BY DEF Foreign
<1>0. hostPVC[c] = "foreign" BY ForeignStays
<1>1. /\ pv[c] = "none" /\ c \notin snap.host /\ c \notin snap.pv
      /\ \A s \in Slots : s[2] = c => /\ va[s] = "none" /\ snap.va[s] = "none"
                                      /\ ~Carried(s) /\ ~SeenCarried(s)
      BY <1>0 DEF Foreign
<1>2. pv'[c] = "none"
      BY <1>1, PVWriters DEF CreatePV, TeardownPV, PVVanish, Leave, CleanupGuestStorage, guest
<1>3. c \notin snap'.host
  <2>1. c \notin Labelled BY <1>0 DEF Labelled
  <2>2. ListHost \/ LeaveListPVCs => snap'.host = Labelled
        BY DEF ListHost, LeaveListPVCs, TypeOK
  <2>3. Idle => snap'.host = {} BY EmptySnapFields DEF Idle
  <2>4. ~CreateHostPVC(c) BY <1>0 DEF CreateHostPVC, Squatted
  <2>5. ~TeardownHostPVC(c) BY <1>1 DEF TeardownHostPVC
  <2>6. QED BY <1>1, <2>1, <2>2, <2>3, <2>4, <2>5, SnapHostWriters
<1>4. c \notin snap'.pv
  <2>1. ListPVs => snap'.pv = {d \in Claims : pv[d] # "none"} BY DEF ListPVs, TypeOK
  <2>2. Idle => snap'.pv = {} BY EmptySnapFields DEF Idle
  <2>3. ~CreatePV(c) BY <1>1 DEF CreatePV
  <2>4. QED BY <1>1, <2>1, <2>2, <2>3, SnapPVWriters
<1>5. ASSUME NEW s \in Slots, s[2] = c
      PROVE  va'[s] = "none" /\ snap'.va[s] = "none" /\ ~Carried(s)' /\ ~SeenCarried(s)'
  <2>0. va[s] = "none" /\ snap.va[s] = "none" /\ ~Carried(s) /\ ~SeenCarried(s) BY <1>1, <1>5
  <2>1. va'[s] = "none"
    <3>1. CASE Leave BY <2>0, <3>1 DEF Leave, CleanupGuestStorage, guest
    <3>2. ~WriteVAStatus(s) BY <2>0 DEF WriteVAStatus, Loops, Reported
    <3>3. QED BY <1>1, <1>5, <2>0, <3>1, <3>2, VAWriters
              DEF ReleaseVA, PinVA, CreateVA, DeleteVA, ForceVA
  <2>2. snap'.va[s] = "none"
    <3>1. ListVAs => snap'.va = va BY DEF ListVAs, TypeOK
    <3>2. Idle => snap'.va[s] = "none" BY EmptySnapFields DEF Idle
    <3>3. QED BY <2>0, <3>1, <3>2, SnapVAWriters
  <2>3. ~Carried(s)' BY <2>0, CarriedWriters DEF PlugVA, Active
  <2>4. s \notin snap'.spec
    <3>1. ListVMs => s \notin snap'.spec
          BY <2>0 DEF ListVMs, SeenSpec, Carried, TypeOK
    <3>2. Idle => s \notin snap'.spec BY EmptySnapFields DEF Idle
    <3>3. QED BY <2>0, <3>1, <3>2, SnapLists DEF SeenCarried
  <2>5. snap'.phase[s] = ""
    <3>1. ListVMIs \/ LeaveListVMIs => snap'.phase = SeenPhase
          BY DEF ListVMIs, LeaveListVMIs, TypeOK
    <3>2. SeenPhase[s] = "" BY <2>0 DEF SeenPhase, Carried
    <3>3. Idle => snap'.phase[s] = "" BY EmptySnapFields DEF Idle
    <3>4. QED BY <2>0, <3>1, <3>2, <3>3, SnapLists DEF SeenCarried
  <2>6. QED BY <2>1, <2>2, <2>3, <2>4, <2>5 DEF SeenCarried
<1>6. QED BY <1>2, <1>3, <1>4, <1>5

LEMMA ForeignHolds == Spec => []Foreign
<1>1. Init => Foreign
  <2> SUFFICES ASSUME Init PROVE Foreign OBVIOUS
  <2>1. snap = EmptySnap /\ pv = [c \in Claims |-> "none"] /\ va = [s \in Slots |-> "none"]
        /\ \A s \in Slots : ~Carried(s)
        BY DEF Init, Carried, InSpec
  <2>2. QED BY <2>1, EmptySnapFields DEF Foreign, SeenCarried
<1>2. TypeOK /\ SnapshotTruth /\ Loops /\ Foreign /\ [Next]_vars => Foreign'
      BY ForeignKept DEF SnapshotTruth
<1>3. QED BY <1>1, <1>2, TypeCorrect, SnapshotTruthHolds, PassShapeHolds, PTL DEF Spec

(* A host PVC the syncer did not make, squatting on a derived name: the create *)
(* is refused in every pass, and nothing is deleted, mapped or plugged for it. *)
THEOREM ForeignUntouchedHolds == Spec => ForeignUntouched
<1>1. ASSUME TypeOK, Foreign', [Next]_vars, NEW c \in Claims, hostPVC[c] = "foreign"
      PROVE  hostPVC'[c] = "foreign" /\ pv'[c] = "none" /\ Out(c)'
  <2>1. hostPVC'[c] = "foreign" BY <1>1, ForeignStays
  <2>2. QED BY <1>1, <2>1 DEF Foreign, Out
<1>2. TypeOK /\ Foreign' /\ [Next]_vars
      => [\A c \in Claims : hostPVC[c] = "foreign"
             => hostPVC'[c] = "foreign" /\ pv'[c] = "none" /\ Out(c)']_vars
      BY <1>1
<1>3. QED BY <1>2, TypeCorrect, ForeignHolds, PTL DEF Spec, ForeignUntouched

--------------------------------------------------------------------------------
(* The teardown of a tenant.  A VMI reports a volume only while its host PVC   *)
(* is there; a teardown lists every host PVC of ours and makes no new one; and *)
(* as long as nothing kept it from being done, what its loops have handled is  *)
(* deleted and was seen out.                                                   *)

PhaseBacked == \A s \in Slots : phase[s] # "" => hostPVC[s[2]] \in {"ours", "terminating"}

LeaveLists ==
    /\ pc \in LeavePCs => tc = "deleting" /\ Labelled \subseteq snap.host
    /\ tc = "gone" => pc = "idle"

LeaveLoops ==
    /\ pc \in {"leavePVCs", "leaveSweep"} =>
          /\ \A s \in Slots : snap.phase[s] # "" => s[2] \in snap.host
          /\ ~blocked => \A c \in snap.host \ claims : SeenOut(c) /\ hostPVC[c] # "ours"
    /\ pc = "leaveSweep" /\ ~blocked => snap.spec \subseteq slots

LEMMA SlotClaim == \A s \in Slots : s[1] \in Nodes /\ s[2] \in Claims
  BY DEF Slots

LEMMA PhaseBackedKept ==
    ASSUME TypeOK, PhaseBacked, [Next]_vars PROVE PhaseBacked'
<1> SUFFICES ASSUME NEW s \in Slots, phase'[s] # ""
             PROVE  hostPVC'[s[2]] \in {"ours", "terminating"}
    BY DEF PhaseBacked
<1>0. s[2] \in Claims BY SlotClaim
<1>1. CASE phase'[s] # phase[s]
  <2>1. Plugging(s) \/ Ready(s) BY <1>1, PhaseWriters DEF LetGo, SetPhase, DeleteVM, TypeOK
  <2>2. hostPVC' = hostPVC BY <2>1 DEF Plugging, Ready, SetPhase
  <2>3. hostPVC[s[2]] \in {"ours", "terminating"}
        BY <2>1 DEF Plugging, Ready, PhaseBacked
  <2>4. QED BY <2>2, <2>3
<1>2. CASE phase'[s] = phase[s]
  <2>1. hostPVC[s[2]] \in {"ours", "terminating"} BY <1>2 DEF PhaseBacked
  <2>2. CASE TeardownHostPVC(s[2]) \/ DeleteOrphan(s[2]) \/ LeaveDelete(s[2])
    <3>1. PICK failed \in BOOLEAN : DeleteHostPVC(s[2], failed)
          BY <2>2 DEF TeardownHostPVC, DeleteOrphan, LeaveDelete
    <3>2. \E t \in Slots : t[2] = s[2] /\ phase[t] # "" BY <1>2
    <3>3. hostPVC'[s[2]] = hostPVC[s[2]] \/ hostPVC'[s[2]] = "terminating"
          BY <1>0, <3>1, <3>2 DEF DeleteHostPVC, TypeOK
    <3>4. QED BY <2>1, <3>3
  <2>3. ~HostPVCVanish(s[2]) BY <1>2 DEF HostPVCVanish
  <2>4. CreateHostPVC(s[2]) => hostPVC'[s[2]] = hostPVC[s[2]]
        BY <1>0, <2>1 DEF CreateHostPVC, TypeOK
  <2>5. QED BY <1>0, <2>1, <2>2, <2>3, <2>4, HostPVCWriters
<1>3. QED BY <1>1, <1>2

LEMMA LeaveListsKept ==
    ASSUME TypeOK, LeaveLists, [Next]_vars PROVE LeaveLists'
<1>1. tc' = "gone" => pc' = "idle"
  <2>1. CASE tc = "gone"
    <3>1. pc = "idle" BY <2>1 DEF LeaveLists
    <3>2. ~Lists /\ ~Stages
          BY <2>1, <3>1 DEF Lists, ListPVCs, ListPVs, ListVAs, ListHost, ListVMs, ListVMIs,
             LeaveListPVCs, LeaveListVMIs, Stages, NextStage, SkipApply, Stage
    <3>3. QED BY <3>1, <3>2, PCWriters DEF Idle
  <2>2. CASE tc # "gone" BY <2>2, TCWriters DEF DeleteTenant, Leave, Idle
  <2>3. QED BY <2>1, <2>2
<1>2. ASSUME pc' \in LeavePCs PROVE tc' = "deleting" /\ Labelled' \subseteq snap'.host
  <2>0. ~Idle BY <1>2 DEF Idle, LeavePCs
  <2>1. CASE LeaveListPVCs
        BY <2>1 DEF LeaveListPVCs, Labelled, host, TypeOK
  <2>2. CASE ~LeaveListPVCs
    <3>1. pc \in LeavePCs
      <4>1. CASE pc' = pc BY <1>2, <4>1
      <4>2. CASE Lists
            BY <1>2, <2>2, <4>2 DEF Lists, ListPVCs, ListPVs, ListVAs, ListHost, ListVMs,
               ListVMIs, LeaveListVMIs, LeavePCs
      <4>3. CASE Stages
            BY <1>2, <4>3 DEF Stages, NextStage, SkipApply, Stage, LeavePCs
      <4>4. QED BY <2>0, <4>1, <4>2, <4>3, PCWriters
    <3>2. tc = "deleting" /\ Labelled \subseteq snap.host BY <3>1 DEF LeaveLists
    <3>3. tc' = "deleting"
          BY <2>0, <3>2, TCWriters DEF DeleteTenant, Leave
    <3>4. ASSUME NEW c \in Claims, hostPVC'[c] \in {"ours", "terminating"}
          PROVE  c \in snap'.host
      <4>1. ~CreateHostPVC(c) /\ ~TeardownHostPVC(c) /\ ~ListHost
            BY <3>1 DEF CreateHostPVC, TeardownHostPVC, ListHost, LeavePCs
      <4>2. hostPVC[c] \in {"ours", "terminating"}
        <5>1. CASE LeaveDelete(c) \/ DeleteOrphan(c)
              BY <3>4, <5>1 DEF LeaveDelete, DeleteOrphan, DeleteHostPVC, TypeOK
        <5>2. CASE HostPVCVanish(c) BY <3>4, <5>2 DEF HostPVCVanish, TypeOK
        <5>3. QED BY <3>4, <4>1, <5>1, <5>2, HostPVCWriters
      <4>3. c \in snap.host BY <3>2, <4>2 DEF Labelled
      <4>4. QED BY <2>0, <2>2, <4>1, <4>3, SnapHostWriters
    <3>5. QED BY <3>3, <3>4 DEF Labelled
  <2>3. QED BY <2>1, <2>2
<1>3. QED BY <1>1, <1>2 DEF LeaveLists

(* The steps of a teardown's two loops; every other step leaves them alone. *)
LEMMA LeaveLoopSteps ==
    ASSUME TypeOK, [Next]_vars, pc \in {"leavePVCs", "leaveSweep"}, pc' = pc
    PROVE  /\ snap' = snap
           /\ \/ \E c \in Claims : LeaveUnplug(c) \/ LeaveDelete(c)
              \/ \E s \in Slots : Sweep(s)
              \/ UNCHANGED <<claims, slots, blocked>>
<1>1. ~Lists /\ ~Stages /\ ~Idle /\ ~Ends /\ ~Leave
      BY DEF Lists, ListPVCs, ListPVs, ListVAs, ListHost, ListVMs, ListVMIs, LeaveListPVCs,
             LeaveListVMIs, Stages, NextStage, SkipApply, Stage, Idle, Ends, EndPass, Requeue,
             Abort, Leave
<1>2. snap' = snap
      BY <1>1, SnapWriters DEF CreateHostPVC, CreatePV, TeardownHostPVC, PinVA
<1>3. ASSUME NEW c \in Claims, ClaimStep(c) PROVE LeaveUnplug(c) \/ LeaveDelete(c)
      BY <1>3 DEF ClaimStep, PinPVC, NotTriggered, CreateHostPVC, CreatePV, AwaitAttachments,
         AwaitUnplug, TeardownHostPVC, TeardownPV, UnplugOrphan, DeleteOrphan, ReleasePVC
<1>4. ASSUME NEW s \in Slots, SlotStep(s) PROVE Sweep(s)
      BY <1>4 DEF SlotStep, ReleaseVA, UnplugVA, PinVA, PlugVA, PassOverVA, WriteVAStatus
<1>5. QED BY <1>1, <1>2, <1>3, <1>4, StepKinds, KubeVirtFrame, OperatorFrame, TenantFrame
          DEF vars, pass

(* What the sweep of a teardown finds in a spec is either of a claim without a *)
(* host PVC, or of one the loop before was not done with: it blocks.           *)
LEMMA SweepBlocks ==
    ASSUME TypeOK, Loops, Foreign, LeaveLists, LeaveLoops,
           NEW s \in Slots, Sweep(s), pc = "leaveSweep"
    PROVE  blocked'
<1> SUFFICES ASSUME ~blocked PROVE blocked' BY DEF Sweep, TypeOK
<1>1. s \in snap.spec /\ claims = {} BY DEF Loops, Sweep
<1>2. s[2] \in Claims BY SlotClaim
<1>3. s[2] \notin snap.host BY <1>1, <1>2 DEF LeaveLoops, SeenOut, SeenCarried
<1>4. hostPVC[s[2]] # "foreign" BY <1>1, <1>2 DEF Foreign, SeenCarried
<1>5. hostPVC[s[2]] \notin {"ours", "terminating"}
      BY <1>2, <1>3 DEF LeaveLists, LeavePCs, Labelled
<1>6. hostPVC[s[2]] = "none" BY <1>2, <1>4, <1>5 DEF TypeOK, HostStates
<1>7. QED BY <1>6 DEF Sweep

LEMMA LeaveLoopsKept ==
    ASSUME TypeOK, Loops, Foreign, PhaseBacked, LeaveLists, LeaveLoops, [Next]_vars
    PROVE  LeaveLoops'
<1> SUFFICES ASSUME pc' \in {"leavePVCs", "leaveSweep"} PROVE LeaveLoops'
    BY DEF LeaveLoops
<1>1. CASE LeaveListVMIs
  <2>1. /\ pc' = "leavePVCs" /\ claims' = snap.host
        /\ snap'.phase = SeenPhase /\ snap'.host = snap.host
        BY <1>1 DEF LeaveListVMIs, TypeOK
  <2>2. ASSUME NEW s \in Slots, snap'.phase[s] # "" PROVE s[2] \in snap'.host
    <3>1. phase[s] # "" BY <2>1, <2>2 DEF SeenPhase
    <3>2. s[2] \in Labelled BY <3>1, SlotClaim DEF PhaseBacked, Labelled
    <3>3. QED BY <1>1, <2>1, <3>2 DEF LeaveLists, LeaveListVMIs, LeavePCs
  <2>3. QED BY <2>1, <2>2 DEF LeaveLoops
<1>2. CASE Stages
  <2>1. /\ pc = "leavePVCs" /\ pc' = "leaveSweep" /\ claims = {} /\ claims' = {}
        /\ slots' = snap.spec /\ snap' = snap /\ blocked' = blocked /\ hostPVC' = hostPVC
        BY <1>2 DEF Stages, NextStage, SkipApply, Stage, host
  <2>2. \A c \in Claims : SeenOut(c)' = SeenOut(c) BY <2>1 DEF SeenOut, SeenCarried
  <2>3. QED BY <2>1, <2>2 DEF LeaveLoops, TypeOK
<1>3. CASE ~LeaveListVMIs /\ ~Stages
  <2>1. pc' = pc
    <3>1. ~Idle BY DEF Idle
    <3>2. ~Lists
          BY <1>3 DEF Lists, ListPVCs, ListPVs, ListVAs, ListHost, ListVMs, ListVMIs,
                      LeaveListPVCs
    <3>3. QED BY <1>3, <3>1, <3>2, PCWriters
  <2>2. /\ snap' = snap
        /\ \/ \E c \in Claims : LeaveUnplug(c) \/ LeaveDelete(c)
           \/ \E s \in Slots : Sweep(s)
           \/ UNCHANGED <<claims, slots, blocked>>
        BY <2>1, LeaveLoopSteps
  <2>3. \A c \in Claims : SeenOut(c)' = SeenOut(c) BY <2>2 DEF SeenOut, SeenCarried
  <2>4. \A c \in Claims : hostPVC[c] # "ours" => hostPVC'[c] # "ours"
    <3> SUFFICES ASSUME NEW c \in Claims, hostPVC[c] # "ours", hostPVC'[c] = "ours"
                 PROVE  FALSE
        OBVIOUS
    <3>1. CASE TeardownHostPVC(c) \/ DeleteOrphan(c) \/ LeaveDelete(c)
          BY <3>1 DEF TeardownHostPVC, DeleteOrphan, LeaveDelete, DeleteHostPVC
    <3>2. ~CreateHostPVC(c) BY <2>1 DEF CreateHostPVC
    <3>3. QED BY <3>1, <3>2, HostPVCWriters DEF HostPVCVanish, TypeOK
  <2>5. CASE \E c \in Claims : LeaveUnplug(c)
        BY <2>1, <2>2, <2>5 DEF LeaveLoops, LeaveUnplug
  <2>6. CASE \E c \in Claims : LeaveDelete(c)
    <3>1. PICK d \in Claims : LeaveDelete(d) BY <2>6
    <3>2. PICK failed \in BOOLEAN : DeleteHostPVC(d, failed) /\ blocked' = (blocked \/ failed)
          BY <3>1 DEF LeaveDelete
    <3>3. SeenOut(d) /\ claims' = claims \ {d} /\ pc = "leavePVCs"
          BY <3>1 DEF LeaveDelete, ClaimDone
    <3>4. ~failed => hostPVC'[d] # "ours" BY <3>2 DEF DeleteHostPVC, TypeOK
    <3>5. ASSUME ~blocked', NEW c \in snap.host \ claims'
          PROVE  SeenOut(c) /\ hostPVC'[c] # "ours"
      <4>1. c \in Claims BY DEF TypeOK
      <4>2. CASE c = d BY <3>2, <3>3, <3>4, <3>5, <4>2
      <4>3. CASE c # d BY <2>1, <2>4, <3>2, <3>3, <3>5, <4>1, <4>3 DEF LeaveLoops
      <4>4. QED BY <4>2, <4>3
    <3>6. snap.host \subseteq Claims BY DEF TypeOK
    <3>7. QED BY <2>1, <2>2, <2>3, <3>3, <3>5, <3>6 DEF LeaveLoops
  <2>7. CASE \E s \in Slots : Sweep(s)
    <3>1. PICK s \in Slots : Sweep(s) BY <2>7
    <3>2. pc = "leaveSweep" BY <2>1, <3>1 DEF Sweep
    <3>3. blocked' BY <3>1, <3>2, SweepBlocks
    <3>4. QED BY <2>1, <2>2, <3>3 DEF LeaveLoops
  <2>8. CASE UNCHANGED <<claims, slots, blocked>>
    <3>1. snap.host \subseteq Claims BY DEF TypeOK
    <3>2. QED BY <2>1, <2>2, <2>3, <2>4, <2>8, <3>1 DEF LeaveLoops
  <2>9. QED BY <2>2, <2>5, <2>6, <2>7, <2>8
<1>4. QED BY <1>1, <1>2, <1>3

(* What Leave finds: no host PVC of ours and no volume in a VM. *)
LEMMA LeaveIsClean ==
    ASSUME TypeOK, SnapshotTruth, Unread, LeaveLists, LeaveLoops, Loops, Leave
    PROVE  (\A c \in Claims : hostPVC[c] # "ours") /\ (\A s \in Slots : ~Carried(s))
<1>1. pc = "leaveSweep" /\ slots = {} /\ ~blocked /\ claims = {} BY DEF Leave, Loops
<1>2. snap.spec = {} BY <1>1 DEF LeaveLoops
<1>3. \A c \in Claims : hostPVC[c] # "ours"
      BY <1>1 DEF LeaveLoops, LeaveLists, LeavePCs, Labelled
<1>4. ASSUME NEW s \in Slots PROVE ~Carried(s)
  <2>1. snap.phase[s] = ""
        BY <1>1 DEF LeaveLoops, SeenOut, SeenCarried
  <2>2. ~Active(s) BY <1>1 DEF Unread, LeavePCs, Active
  <2>3. QED BY <1>1, <1>2, <2>1, <2>2 DEF SnapshotTruth, PassTruth, Gathered, SeenCarried
<1>5. QED BY <1>3, <1>4

LeaveInv == PhaseBacked /\ LeaveLists /\ LeaveLoops /\ GoneMeansClean

LEMMA GoneKept ==
    ASSUME TypeOK, SnapshotTruth, Unread, Loops, LeaveInv, [Next]_vars
    PROVE  GoneMeansClean'
<1> SUFFICES ASSUME tc' = "gone"
             PROVE  (\A c \in Claims : hostPVC'[c] # "ours") /\ (\A s \in Slots : ~Carried(s)')
    BY DEF GoneMeansClean
<1>1. CASE tc = "gone"
  <2>1. pc = "idle" BY <1>1 DEF LeaveInv, LeaveLists
  <2>2. ASSUME NEW s \in Slots PROVE ~Carried(s)'
    <3>1. ~Carried(s) BY <1>1 DEF LeaveInv, GoneMeansClean
    <3>2. QED BY <2>1, <3>1, CarriedWriters DEF PlugVA, SnapshotTruth
  <2>3. ASSUME NEW c \in Claims PROVE hostPVC'[c] # "ours"
    <3>1. hostPVC[c] # "ours" BY <1>1 DEF LeaveInv, GoneMeansClean
    <3>2. QED BY <2>1, <3>1, HostPVCWriters
              DEF CreateHostPVC, TeardownHostPVC, DeleteOrphan, LeaveDelete, HostPVCVanish,
                  TypeOK
  <2>4. QED BY <2>2, <2>3
<1>2. CASE tc # "gone"
  <2>1. Leave BY <1>2, TCWriters DEF DeleteTenant
  <2>2. UNCHANGED host BY <2>1 DEF Leave
  <2>3. QED BY <2>1, <2>2, LeaveIsClean, UnchangedShrinks DEF host, LeaveInv, Shrinks
<1>3. QED BY <1>1, <1>2

LEMMA LeaveInvHolds == Spec => []LeaveInv
<1>1. Init => LeaveInv
      BY DEF Init, LeaveInv, PhaseBacked, LeaveLists, LeaveLoops, GoneMeansClean, LeavePCs
<1>2. TypeOK /\ SnapshotTruth /\ Unread /\ Loops /\ Foreign /\ LeaveInv /\ [Next]_vars
      => LeaveInv'
      BY PhaseBackedKept, LeaveListsKept, LeaveLoopsKept, GoneKept DEF LeaveInv
<1>3. QED BY <1>1, <1>2, TypeCorrect, SnapshotTruthHolds, PassShapeHolds, ForeignHolds, PTL
          DEF Spec

(* However a tenant's teardown is cut short, retried or raced by the tenant    *)
(* and by KubeVirt, its finalizer drops only with nothing of it left on the    *)
(* host: no host PVC of ours, no volume in a VM or on its way into one.        *)
THEOREM GoneMeansCleanHolds == Spec => []GoneMeansClean
  BY LeaveInvHolds, PTL DEF LeaveInv

--------------------------------------------------------------------------------
(* The teardown of a claim.  A pass that has listed the PVs knows every one    *)
(* there is, a pass that has listed the host knows every host PVC of a         *)
(* deleting claim, and a claim its teardown is through with and did not put    *)
(* back among the wanted ones has left no trace.                               *)

PVListed ==
    pc \in {"listVAs", "listHost", "listVMs", "listVMIs"} \cup LoopPCs
        => \A c \in Claims \ snap.pv : pv[c] = "none"

HostListed ==
    pc \in {"listVMs", "listVMIs"} \cup LoopPCs
        => \A c \in Claims \ snap.host : snap.pvc[c] = "deleting" => hostPVC[c] # "ours"

TearPCs == {"teardown", "orphans", "sweep", "release"}

TornDown(c) == hostPVC[c] # "ours" /\ pv[c] # "exists" /\ Out(c)

Torn ==
    pc \in TearPCs => \A c \in Deleting :
        c \notin want /\ (pc = "teardown" => c \notin claims) => TornDown(c)

(* Where a pass is comes from where it was. *)
LEMMA PCOrder ==
    ASSUME TypeOK, [Next]_vars
    PROVE  /\ pc' \in LoopPCs => pc \in LoopPCs \/ ListVMIs
           /\ pc' \in {"listVAs", "listHost", "listVMs", "listVMIs"}
                => pc' = pc \/ (Lists /\ pc \in ListPCs)
           /\ pc' \in TearPCs => \/ pc' = pc
                                 \/ Stages /\ (pc \in TearPCs \/ pc' = "teardown")
<1>1. CASE pc' = pc BY <1>1
<1>2. CASE Lists
      BY <1>2 DEF Lists, ListPVCs, ListPVs, ListVAs, ListHost, ListVMs, ListVMIs,
         LeaveListPVCs, LeaveListVMIs, LoopPCs, ListPCs, TearPCs
<1>3. CASE Stages
      BY <1>3 DEF Stages, NextStage, SkipApply, Stage, LoopPCs, TearPCs
<1>4. CASE Idle BY <1>4 DEF Idle, LoopPCs, TearPCs
<1>5. QED BY <1>1, <1>2, <1>3, <1>4, PCWriters

LEMMA PVListedKept ==
    ASSUME TypeOK, PVListed, [Next]_vars PROVE PVListed'
<1> SUFFICES ASSUME pc' \in {"listVAs", "listHost", "listVMs", "listVMIs"} \cup LoopPCs,
                    NEW c \in Claims, c \notin snap'.pv
             PROVE  pv'[c] = "none"
    BY DEF PVListed
<1>0. ~Idle /\ ~Leave BY DEF Idle, Leave, LoopPCs
<1>1. CASE ListPVs BY <1>1 DEF ListPVs, guest, TypeOK
<1>2. CASE ~ListPVs
  <2>1. pc \in {"listVAs", "listHost", "listVMs", "listVMIs"} \cup LoopPCs
    <3>1. CASE Lists
          BY <1>2, <3>1 DEF Lists, ListPVCs, ListPVs, ListVAs, ListHost, ListVMs, ListVMIs,
             LeaveListPVCs, LeaveListVMIs, LoopPCs
    <3>2. CASE ~Lists BY <3>2, PCOrder DEF Lists
    <3>3. QED BY <3>1, <3>2
  <2>2. CASE CreatePV(c)
    <3>1. PICK failed \in BOOLEAN :
             /\ pv' = IF ~failed /\ pv[c] = "none" /\ c \notin snap.pv
                      THEN [pv EXCEPT ![c] = "exists"] ELSE pv
             /\ snap' = IF failed THEN snap ELSE [snap EXCEPT !.pv = @ \cup {c}]
          BY <2>2 DEF CreatePV
    <3>2. failed BY <3>1 DEF TypeOK
    <3>3. QED BY <2>1, <3>1, <3>2 DEF PVListed
  <2>3. CASE ~CreatePV(c)
    <3>1. c \notin snap.pv BY <1>0, <1>2, <2>3, SnapPVWriters
    <3>2. pv[c] = "none" BY <2>1, <3>1 DEF PVListed
    <3>3. QED BY <1>0, <2>3, <3>1, <3>2, PVWriters DEF TeardownPV, PVVanish
  <2>4. QED BY <2>2, <2>3
<1>3. QED BY <1>1, <1>2

LEMMA HostListedKept ==
    ASSUME TypeOK, HostListed, [Next]_vars PROVE HostListed'
<1> SUFFICES ASSUME pc' \in {"listVMs", "listVMIs"} \cup LoopPCs,
                    NEW c \in Claims, c \notin snap'.host, snap'.pvc[c] = "deleting"
             PROVE  hostPVC'[c] # "ours"
    BY DEF HostListed
<1>0. ~Idle BY DEF Idle, LoopPCs
<1>1. CASE ListHost BY <1>1 DEF ListHost, Labelled, host, TypeOK
<1>2. CASE ~ListHost
  <2>1. pc \in {"listVMs", "listVMIs"} \cup LoopPCs
    <3>1. CASE Lists
          BY <1>2, <3>1 DEF Lists, ListPVCs, ListPVs, ListVAs, ListHost, ListVMs, ListVMIs,
             LeaveListPVCs, LeaveListVMIs, LoopPCs
    <3>2. CASE ~Lists BY <3>2, PCOrder DEF Lists
    <3>3. QED BY <3>1, <3>2
  <2>2. ~ListPVCs /\ ~LeaveListPVCs BY <2>1 DEF ListPVCs, LeaveListPVCs, LoopPCs
  <2>3. snap.pvc[c] = "deleting" BY <1>0, <2>2, SnapLists
  <2>4. ~CreateHostPVC(c) BY <2>3 DEF CreateHostPVC
  <2>5. CASE TeardownHostPVC(c)
    <3>1. PICK failed \in BOOLEAN : DeleteHostPVC(c, failed) /\ blocked' = (blocked \/ failed)
          BY <2>5 DEF TeardownHostPVC
    <3>2. ~blocked' BY <2>5 DEF TeardownHostPVC, TypeOK
    <3>3. QED BY <3>1, <3>2 DEF DeleteHostPVC, TypeOK
  <2>6. CASE ~TeardownHostPVC(c)
    <3>1. c \notin snap.host BY <1>0, <1>2, <2>2, <2>4, <2>6, SnapHostWriters
    <3>2. hostPVC[c] # "ours" BY <2>1, <2>3, <3>1 DEF HostListed
    <3>3. QED BY <2>4, <2>6, <3>2, HostPVCWriters
              DEF DeleteOrphan, LeaveDelete, DeleteHostPVC, HostPVCVanish, TypeOK
  <2>7. QED BY <2>5, <2>6
<1>3. QED BY <1>1, <1>2

LEMMA WantGrows ==
    ASSUME TypeOK, [Next]_vars, ~Idle, pc \in LoopPCs PROVE want \subseteq want'
<1>1. ASSUME NEW c \in Claims, ClaimStep(c) PROVE want \subseteq want'
      BY <1>1 DEF ClaimStep, PinPVC, NotTriggered, CreateHostPVC, CreatePV, AwaitAttachments,
         AwaitUnplug, TeardownHostPVC, TeardownPV, UnplugOrphan, DeleteOrphan, ReleasePVC,
         LeaveUnplug, LeaveDelete
<1>2. CASE Lists
      BY <1>2 DEF Lists, ListPVCs, ListPVs, ListVAs, ListHost, ListVMs, ListVMIs,
         LeaveListPVCs, LeaveListVMIs, LoopPCs
<1>3. CASE Stages BY <1>3 DEF Stages, NextStage, SkipApply, Stage
<1>4. ~Ends /\ ~Leave BY DEF Ends, EndPass, Requeue, Abort, Leave
<1>5. QED BY <1>1, <1>2, <1>3, <1>4, StepKinds, SlotStepFrame, KubeVirtFrame, OperatorFrame,
             TenantFrame DEF vars, pass

(* The step that is through with a claim: nothing listed attaches it, nothing  *)
(* listed carries it, its host PVC is deleted, and now its PV goes.            *)
LEMMA TeardownTears ==
    ASSUME TypeOK, SnapshotTruth, PVListed, HostListed, Loops, [Next]_vars,
           pc = "teardown", pc' = pc,
           NEW c \in Claims, c \in claims, c \notin claims', c \notin want'
    PROVE  TornDown(c)'
<1>1. c \in Deleting BY DEF Loops
<1>2. TeardownPV(c)
  <2>1. ASSUME NEW d \in Claims, ClaimStep(d) PROVE TeardownPV(c)
    <3>1. claims' = claims \/ claims' = claims \ {d}
          BY <2>1 DEF ClaimStep, PinPVC, NotTriggered, CreateHostPVC, CreatePV,
             AwaitAttachments, AwaitUnplug, TeardownHostPVC, TeardownPV, UnplugOrphan,
             DeleteOrphan, ReleasePVC, LeaveUnplug, LeaveDelete, ClaimDone
    <3>2. c = d BY <3>1
    <3>3. ~AwaitAttachments(c) /\ ~AwaitUnplug(c) /\ ~TeardownHostPVC(c)
          BY DEF AwaitAttachments, AwaitUnplug, TeardownHostPVC
    <3>4. QED BY <2>1, <3>2, <3>3
              DEF ClaimStep, PinPVC, NotTriggered, CreateHostPVC, CreatePV, UnplugOrphan,
                  DeleteOrphan, ReleasePVC, LeaveUnplug, LeaveDelete
  <2>2. ~Lists /\ ~Stages /\ ~Ends /\ ~Leave
        BY DEF Lists, ListPVCs, ListPVs, ListVAs, ListHost, ListVMs, ListVMIs, LeaveListPVCs,
               LeaveListVMIs, Stages, NextStage, SkipApply, Stage, Ends, EndPass, Requeue,
               Abort, Leave, Idle
  <2>3. QED BY <2>1, <2>2, StepKinds, SlotStepFrame, KubeVirtFrame, OperatorFrame, TenantFrame
            DEF vars, pass
<1>3. c \notin snap.host /\ Attachments(c) = {} /\ SeenOut(c) /\ UNCHANGED host
      BY <1>2 DEF TeardownPV
<1>4. hostPVC'[c] # "ours"
      BY <1>1, <1>3 DEF HostListed, LoopPCs, Deleting, host
<1>5. pv'[c] # "exists"
  <2>1. c \notin snap.pv => pv[c] = "none" BY DEF PVListed, LoopPCs
  <2>2. PICK failed \in BOOLEAN :
           /\ pv' = IF ~failed /\ c \in snap.pv /\ pv[c] = "exists"
                    THEN [pv EXCEPT ![c] = IF pvc[c] = "gone" THEN "none" ELSE "terminating"]
                    ELSE pv
           /\ want' = IF failed THEN want \cup {c} ELSE want
        BY <1>2 DEF TeardownPV
  <2>3. ~failed BY <2>2
  <2>4. QED BY <2>1, <2>2, <2>3 DEF TypeOK
<1>6. Out(c)'
  <2>1. ASSUME NEW s \in Slots, s[2] = c PROVE ~Carried(s)
    <3>1. ~Active(s) BY <1>3, <2>1 DEF Attachments, Listed, Active
    <3>2. ~SeenCarried(s) BY <1>3, <2>1 DEF SeenOut
    <3>3. QED BY <3>1, <3>2 DEF SnapshotTruth, PassTruth, Gathered, LoopPCs
  <2>2. QED BY <1>3, <2>1, UnchangedShrinks DEF Shrinks, Out
<1>7. QED BY <1>4, <1>5, <1>6 DEF TornDown

(* And from then on, to the end of the pass, nothing of it comes back. *)
LEMMA TornStays ==
    ASSUME TypeOK, SnapshotTruth, [Next]_vars, pc \in TearPCs,
           NEW c \in Claims, TornDown(c)
    PROVE  TornDown(c)'
<1>1. hostPVC'[c] # "ours"
  <2>1. ~CreateHostPVC(c) BY DEF CreateHostPVC, TearPCs
  <2>2. QED BY <2>1, HostPVCWriters
            DEF TornDown, TeardownHostPVC, DeleteOrphan, LeaveDelete, DeleteHostPVC,
                HostPVCVanish, TypeOK
<1>2. pv'[c] # "exists"
  <2>1. ~CreatePV(c) /\ ~Leave BY DEF CreatePV, Leave, TearPCs
  <2>2. QED BY <2>1, PVWriters DEF TornDown, TeardownPV, PVVanish, TypeOK
<1>3. Out(c)'
  <2>1. ASSUME NEW s \in Slots PROVE ~PlugVA(s) BY DEF PlugVA, TearPCs
  <2>2. QED BY <2>1, CarriedWriters DEF TornDown, Out, SnapshotTruth
<1>4. QED BY <1>1, <1>2, <1>3 DEF TornDown

LEMMA TornKept ==
    ASSUME TypeOK, SnapshotTruth, PVListed, HostListed, Loops, Torn, [Next]_vars
    PROVE  Torn'
<1> SUFFICES ASSUME pc' \in TearPCs, NEW c \in Claims, c \in Deleting', c \notin want',
                    pc' = "teardown" => c \notin claims'
             PROVE  TornDown(c)'
    BY DEF Torn, Deleting
<1>0. ~Idle BY DEF Idle, TearPCs
<1>1. CASE Stages
  <2>1. /\ snap' = snap /\ want' = want /\ claims = {}
        /\ pc' = "teardown" => claims' = Deleting
        BY <1>1 DEF Stages, NextStage, SkipApply, Stage
  <2>2. c \in Deleting BY <2>1 DEF Deleting
  <2>3. pc \in TearPCs BY <1>1, <2>1, <2>2 DEF Stages, NextStage, SkipApply, Stage, TearPCs
  <2>4. TornDown(c) BY <2>1, <2>2, <2>3 DEF Torn
  <2>5. QED BY <2>3, <2>4, TornStays
<1>2. CASE ~Stages
  <2>1. pc' = pc BY <1>2, PCOrder
  <2>2. c \in Deleting
        BY <1>0, <2>1, SnapLists DEF ListPVCs, TearPCs, Deleting
  <2>3. c \notin want BY <1>0, <2>1, WantGrows DEF TearPCs, LoopPCs
  <2>4. CASE pc = "teardown" /\ c \in claims BY <2>1, <2>4, TeardownTears
  <2>5. CASE ~(pc = "teardown" /\ c \in claims)
        BY <2>1, <2>2, <2>3, <2>5, TornStays DEF Torn
  <2>6. QED BY <2>4, <2>5
<1>3. QED BY <1>1, <1>2

TeardownInv == PVListed /\ HostListed /\ Torn

LEMMA TeardownInvHolds == Spec => []TeardownInv
<1>1. Init => TeardownInv
      BY DEF Init, TeardownInv, PVListed, HostListed, Torn, LoopPCs, TearPCs
<1>2. TypeOK /\ SnapshotTruth /\ Loops /\ TeardownInv /\ [Next]_vars => TeardownInv'
      BY PVListedKept, HostListedKept, TornKept DEF TeardownInv
<1>3. QED BY <1>1, <1>2, TypeCorrect, SnapshotTruthHolds, PassShapeHolds, PTL DEF Spec

LEMMA PinReleasers ==
    ASSUME TypeOK, [Next]_vars, NEW c \in Claims, ReleasesPin(c)
    PROVE  c \in claims
<1>1. pc = "release" /\ c \in pinned /\ c \notin pinned' /\ pvc'[c] = pvc[c]
      BY DEF ReleasesPin
<1>2. ASSUME NEW d \in Claims, ClaimStep(d) PROVE c \in claims
  <2>1. ReleasePVC(d)
        BY <1>1, <1>2 DEF ClaimStep, PinPVC, NotTriggered, CreateHostPVC, CreatePV,
           AwaitAttachments, AwaitUnplug, TeardownHostPVC, TeardownPV, UnplugOrphan,
           DeleteOrphan, LeaveUnplug, LeaveDelete
  <2>2. QED BY <1>1, <2>1 DEF ReleasePVC
<1>3. ~Leave BY <1>1 DEF Leave
<1>4. CASE Tenant
  <2>1. ASSUME NEW d \in Claims, ForceDelete(d) PROVE FALSE
        BY <1>1, <2>1 DEF ForceDelete, Live, SetPVC, TypeOK
  <2>2. ASSUME NEW d \in Claims, \/ CreatePVC(d) \/ SelectNode(d) \/ DeletePVC(d)
                                 \/ PVCVanish(d) \/ PVVanish(d)
        PROVE  FALSE
        BY <1>1, <2>2 DEF CreatePVC, SelectNode, DeletePVC, PVCVanish, PVVanish
  <2>3. ASSUME NEW s \in Slots, CreateVA(s) \/ DeleteVA(s) \/ ForceVA(s) PROVE FALSE
        BY <1>1, <2>3 DEF CreateVA, DeleteVA, ForceVA
  <2>4. QED BY <1>4, <2>1, <2>2, <2>3 DEF Tenant
<1>5. QED BY <1>1, <1>2, <1>3, <1>4, StepKinds, ReadersChangeNothing, SlotStepFrame,
             KubeVirtFrame, OperatorFrame DEF guest, vars

(* A pass takes its finalizer off a deleting PVC only when its own teardown    *)
(* went through: host PVC deleted, PV deleted, volume out of every VM, whatever*)
(* failed in between and whatever the tenant forced.                           *)
THEOREM ReleaseAfterTeardownHolds == Spec => ReleaseAfterTeardown
<1>1. ASSUME TypeOK, Loops, TeardownInv, [Next]_vars,
             NEW c \in Claims, ReleasesPin(c), snap.pvc[c] = "deleting"
      PROVE  hostPVC[c] # "ours" /\ pv[c] # "exists" /\ Out(c)
  <2>1. pc = "release" /\ c \in claims BY <1>1, PinReleasers DEF ReleasesPin
  <2>2. c \in snap.pin /\ c \notin want BY <1>1, <2>1 DEF Loops
  <2>3. c \in Deleting BY <1>1, <2>2 DEF Deleting
  <2>4. QED BY <1>1, <2>1, <2>2, <2>3 DEF TeardownInv, Torn, TearPCs, TornDown
<1>2. TypeOK /\ Loops /\ TeardownInv /\ [Next]_vars
      => [\A c \in Claims : ReleasesPin(c) /\ snap.pvc[c] = "deleting"
              => hostPVC[c] # "ours" /\ pv[c] # "exists" /\ Out(c)]_vars
      BY <1>1
<1>3. QED BY <1>2, TypeCorrect, PassShapeHolds, TeardownInvHolds, PTL
          DEF Spec, ReleaseAfterTeardown
===============================================================================
