------------------------------ MODULE StorageSync ------------------------------
(***************************************************************************)
(* Tenant block storage: one syncer pass after another over one            *)
(* TenantCluster (internal/syncer/storage_pass.go, with the parts of       *)
(* pass.go and writeback.go that decide about PVCs), the KubeVirt hotplug  *)
(* API it drives (internal/kubevirt/hotplug.go), the tenant's cluster and  *)
(* the host around it.                                                     *)
(*                                                                         *)
(* A claim stands for one guest PVC UID, so it is created at most once:    *)
(* the host PVC, the guest PV and the volume's name in a VM are all        *)
(* derived from that UID.  A slot <<n, c>> is the place of claim c's       *)
(* volume in the VM that backs node n; it is also the key of the guest     *)
(* VolumeAttachment for (n, c).                                            *)
(*                                                                         *)
(* Every API call that changes something is a step of its own, so the      *)
(* tenant, the scheduler, KubeVirt and a crash may act between any two.    *)
(***************************************************************************)
EXTENDS Naturals, FiniteSets

CONSTANTS
    Claims,         \* guest PVC UIDs
    Nodes,          \* guest nodes, each the name of the VM that backs it
    Mortal,         \* nodes whose VM may be deleted and created again
    MaxFaults,      \* bound on failed calls and crashes, together
    OperatorUnoffers,  \* may the operator withdraw the storage class
    TenantForces,   \* kinds of which the tenant may strip our finalizer: "PVC", "VA"
    TenantLeaves    \* may the TenantCluster be deleted

ASSUME StorageAssumption ==
    /\ Mortal \subseteq Nodes
    /\ MaxFaults \in Nat
    /\ TenantForces \subseteq {"PVC", "VA"}
    /\ {OperatorUnoffers, TenantLeaves} \subseteq BOOLEAN

Slots == Nodes \X Claims

PVCStates == {"absent", "refused", "pending", "selected", "deleting", "gone"}
PVStates == {"none", "exists", "terminating"}
VAStates == {"none", "new", "pinned", "attached", "deleting"}
HostStates == {"none", "ours", "terminating", "foreign"}
Phases == {"", "plugging", "Ready"}

VARIABLES
    pvc,        \* guest PVC of each claim: "refused" is one mapPVC refuses,
                \* "selected" one the scheduler has picked a node for
    pinned,     \* claims whose guest PVC carries our finalizer
    pv,         \* guest PersistentVolume of each claim
    va,         \* guest VolumeAttachment of each slot; "new" is not pinned yet
    offered,    \* the host storage class is tenant-offerable
    tc,         \* the TenantCluster: "live", "deleting", "gone"
    hostPVC,    \* host PVC of each claim; "foreign" squats on its name, unlabelled
    vm,         \* nodes whose VirtualMachine exists
    spec,       \* slots in the VM's template spec
    queue,      \* the unapplied volumeRequest of a slot
    phase,      \* the VMI's volumeStatus phase of a slot
    pc,         \* what the syncer does next
    snap,       \* what this pass has listed
    claims,     \* claims left in the current loop
    slots,      \* slots left in the current loop
    want,       \* wantFinalizer, for PVCs
    blocked,    \* pruneFailed in a pass, ~done in a teardown
    faults      \* failures and crashes so far

guest == <<pvc, pinned, pv, va>>
host  == <<hostPVC, vm, spec, queue, phase>>
pass  == <<pc, snap, claims, slots, want, blocked>>
vars  == <<guest, offered, tc, host, pass, faults>>

ListPCs  == {"listPVs", "listVAs", "listHost", "listVMs", "listVMIs"}
LoopPCs  == {"pin", "provision", "attach", "teardown", "orphans", "sweep",
             "release", "writeback"}
LeavePCs == {"leaveVMs", "leaveVMIs", "leavePVCs", "leaveSweep"}
PCs      == {"idle"} \cup ListPCs \cup LoopPCs \cup LeavePCs

EmptySnap == [pvc |-> [c \in Claims |-> "absent"], pin |-> {}, pv |-> {},
              va |-> [s \in Slots |-> "none"], offered |-> FALSE, host |-> {},
              vms |-> {}, spec |-> {}, phase |-> [s \in Slots |-> ""]]

TypeOK ==
    /\ pvc \in [Claims -> PVCStates]
    /\ pinned \subseteq Claims
    /\ pv \in [Claims -> PVStates]
    /\ va \in [Slots -> VAStates]
    /\ offered \in BOOLEAN
    /\ tc \in {"live", "deleting", "gone"}
    /\ hostPVC \in [Claims -> HostStates]
    /\ vm \subseteq Nodes
    /\ spec \subseteq Slots
    /\ queue \in [Slots -> {"none", "add", "remove"}]
    /\ phase \in [Slots -> Phases]
    /\ pc \in PCs
    /\ snap \in [pvc : [Claims -> PVCStates], pin : SUBSET Claims,
                 pv : SUBSET Claims, va : [Slots -> VAStates],
                 offered : BOOLEAN, host : SUBSET Claims, vms : SUBSET Nodes,
                 spec : SUBSET Slots, phase : [Slots -> Phases]]
    /\ claims \subseteq Claims
    /\ slots \subseteq Slots
    /\ want \subseteq Claims
    /\ blocked \in BOOLEAN
    /\ faults \in 0..MaxFaults

Init ==
    /\ pvc = [c \in Claims |-> "absent"]
    /\ pinned = {}
    /\ pv = [c \in Claims |-> "none"]
    /\ va = [s \in Slots |-> "none"]
    /\ offered = TRUE
    /\ tc = "live"
    /\ hostPVC \in [Claims -> {"none", "foreign"}]
    /\ vm = Nodes
    /\ spec = {}
    /\ queue = [s \in Slots |-> "none"]
    /\ phase = [s \in Slots |-> ""]
    /\ pc = "idle"
    /\ snap = EmptySnap
    /\ claims = {}
    /\ slots = {}
    /\ want = {}
    /\ blocked = FALSE
    /\ faults = 0

--------------------------------------------------------------------------------
(* What VMs() makes of the host: InSpec counts a queued add, a queued remove   *)
(* counts for nothing, and a volume still in the VMI's status stays visible.   *)

InSpec(s)  == s \in spec \/ queue[s] = "add"
Carried(s) == InSpec(s) \/ phase[s] # ""

(* The same, as this pass read it. *)
SeenCarried(s) == s \in snap.spec \/ snap.phase[s] # ""
OutOfSpec(c)   == \A s \in Slots : s[2] = c => s \notin snap.spec
OutOfAllVMs(c) == \A s \in Slots : s[2] = c => s[1] \in snap.vms /\ ~SeenCarried(s)
SeenOut(c)     == \A s \in Slots : s[2] = c => ~SeenCarried(s)

(* A call that fails costs one fault; one that succeeds costs none. *)
Fault(failed) ==
    /\ failed => faults < MaxFaults
    /\ faults' = IF failed THEN faults + 1 ELSE faults

(* KubeVirt's addvolume and removevolume append to status.volumeRequests.  A   *)
(* slot holds one unapplied request: a second add, a second remove, or a       *)
(* remove while an add is queued is rejected, as is a volume not in the spec.  *)
AddAccepted(s)    == s[1] \in vm /\ s \notin spec /\ queue[s] = "none"
RemoveAccepted(s) == s[1] \in vm /\ s \in spec /\ queue[s] = "none"

(* RemoveVolume for each slot of ss; the calls of lost never arrive. *)
RemoveVolumes(ss, lost) ==
    /\ queue' = [s \in Slots |-> IF s \in ss \ lost /\ RemoveAccepted(s)
                                 THEN "remove" ELSE queue[s]]
    /\ Fault(lost # {})
    /\ UNCHANGED <<hostPVC, vm, spec, phase>>

SomeFailed(ss, lost) == lost # {} \/ \E s \in ss : ~RemoveAccepted(s)

(* deleteOwned: the object stays, terminating, while a VMI still uses it. *)
DeleteHostPVC(c, failed) ==
    /\ Fault(failed)
    /\ hostPVC' = IF failed \/ hostPVC[c] # "ours" THEN hostPVC
                  ELSE [hostPVC EXCEPT ![c] =
                          IF \E s \in Slots : s[2] = c /\ phase[s] # ""
                          THEN "terminating" ELSE "none"]
    /\ UNCHANGED <<vm, spec, queue, phase>>

Idle ==
    /\ pc' = "idle"
    /\ snap' = EmptySnap
    /\ claims' = {}
    /\ slots' = {}
    /\ want' = {}
    /\ blocked' = FALSE
--------------------------------------------------------------------------------
(* Gather (gatherStorage): guest lists first, then the host's, then the VMs.   *)

ListPVCs ==
    /\ pc = "idle" /\ tc = "live"
    /\ snap' = [snap EXCEPT !.pvc = pvc, !.pin = pinned]
    /\ pc' = "listPVs"
    /\ UNCHANGED <<guest, offered, tc, host, claims, slots, want, blocked, faults>>

ListPVs ==
    /\ pc = "listPVs"
    /\ snap' = [snap EXCEPT !.pv = {c \in Claims : pv[c] # "none"}]
    /\ pc' = "listVAs"
    /\ UNCHANGED <<guest, offered, tc, host, claims, slots, want, blocked, faults>>

ListVAs ==
    /\ pc = "listVAs"
    /\ snap' = [snap EXCEPT !.va = va]
    /\ pc' = "listHost"
    /\ UNCHANGED <<guest, offered, tc, host, claims, slots, want, blocked, faults>>

(* The offerable classes and the labelled host PVCs.  Only this syncer adds or *)
(* deletes labelled host PVCs, so the two lists are one step.                  *)
Labelled == {c \in Claims : hostPVC[c] \in {"ours", "terminating"}}

ListHost ==
    /\ pc = "listHost"
    /\ snap' = [snap EXCEPT !.offered = offered, !.host = Labelled]
    /\ pc' = "listVMs"
    /\ UNCHANGED <<guest, offered, tc, host, claims, slots, want, blocked, faults>>

(* VMs() reads the VirtualMachines first ... *)
SpecOnly == spec
SeenSpec == {s \in Slots : InSpec(s)}

ListVMs ==
    /\ pc \in {"listVMs", "leaveVMs"}
    /\ snap' = [snap EXCEPT !.vms = vm, !.spec = SeenSpec]
    /\ pc' = IF pc = "listVMs" THEN "listVMIs" ELSE "leaveVMIs"
    /\ UNCHANGED <<guest, offered, tc, host, claims, slots, want, blocked, faults>>

(* ... and merges the VMIs' volumeStatus in: a VMI without a listed VM is      *)
(* skipped.                                                                    *)
PhaseInventsVM == [s \in Slots |-> IF s[1] \in snap.vms THEN phase[s] ELSE "unknown"]
PhaseInSpec == [s \in Slots |-> IF s \in snap.spec THEN phase[s] ELSE ""]
SeenPhase == [s \in Slots |-> IF s[1] \in snap.vms THEN phase[s] ELSE ""]

(* PVCs of an offerable class that mapPVC accepts and that are not deleting.   *)
Provisionable(sn) ==
    {c \in Claims : sn.offered /\ sn.pvc[c] \in {"pending", "selected"}}

ListVMIs ==
    /\ pc = "listVMIs"
    /\ snap' = [snap EXCEPT !.phase = SeenPhase]
    /\ want' = Provisionable(snap)
    /\ claims' = Provisionable(snap) \ snap.pin
    /\ pc' = "pin"
    /\ UNCHANGED <<guest, offered, tc, host, slots, blocked, faults>>

(* A List that fails ends the storage slice of the pass before it changed      *)
(* anything; a crash ends it anywhere.  Both lose all the pass knew.           *)
Abort ==
    /\ pc # "idle"
    /\ Fault(TRUE)
    /\ Idle
    /\ UNCHANGED <<guest, offered, tc, host>>

--------------------------------------------------------------------------------
(* One stage of the pass after another (pass.run, applyStorage, pruneStorage). *)

Deleting  == {c \in Claims : snap.pvc[c] = "deleting" /\ c \in snap.pin}
Orphaned  == {c \in snap.host : snap.pvc[c] \in {"absent", "gone"}}
Listed    == {s \in Slots : snap.va[s] # "none"}

ReportedPlugging == {s \in Slots : /\ s[2] \in snap.pv
                                   /\ snap.va[s] = "pinned" /\ snap.phase[s] = "plugging"}

(* vaStatus: what reconcileAttachment found to report of a pinned, active VA.  *)
Reported == {s \in Slots : /\ s[2] \in snap.pv
                           /\ \/ snap.va[s] = "pinned" /\ snap.phase[s] = "Ready"
                              \/ snap.va[s] = "attached" /\ s[1] \notin snap.vms}

Stage(from, to, cs, ss) ==
    /\ pc = from /\ claims = {} /\ slots = {}
    /\ pc' = to
    /\ claims' = cs
    /\ slots' = ss
    /\ UNCHANGED <<guest, offered, tc, host, snap, want, blocked>>

NextStage ==
  /\ UNCHANGED faults
  /\ \/ Stage("pin", "provision", Provisionable(snap), {})
     \/ Stage("provision", "attach", {}, Listed)
     \/ Stage("attach", "teardown", Deleting, {})
     \/ Stage("teardown", "orphans", Orphaned, {})
     \/ Stage("orphans", "sweep", {}, snap.spec)
     \/ Stage("sweep", "release", IF blocked THEN {} ELSE snap.pin \ want, {})
     \/ Stage("release", "writeback", {}, Reported)
     \/ Stage("leavePVCs", "leaveSweep", {}, snap.spec)

(* ensureHostNamespace failed: apply is skipped, prune is not. *)
SkipApply == Stage("pin", "teardown", Deleting, {}) /\ Fault(TRUE)

EndPass ==
    /\ pc = "writeback" /\ slots = {}
    /\ Idle
    /\ UNCHANGED <<guest, offered, tc, host, faults>>

(* Where a step of a loop over claims, or over slots, leaves the pass. *)
ClaimDone(c) == claims' = claims \ {c} /\ UNCHANGED <<pc, slots>>
SlotDone(s)  == slots' = slots \ {s} /\ UNCHANGED <<pc, claims>>

(* ensureGuestFinalizers: the Update is refused when the PVC is not the one    *)
(* this pass listed.  Either way the pass goes on.                             *)
PinPVC(c) ==
    /\ pc = "pin" /\ c \in claims
    /\ \E failed \in BOOLEAN :
          /\ Fault(failed)
          /\ pinned' = IF ~failed /\ pvc[c] = snap.pvc[c] THEN pinned \cup {c} ELSE pinned
    /\ ClaimDone(c)
    /\ UNCHANGED <<pvc, pv, va, offered, tc, host, snap, want, blocked>>

(* provisionPVC, host half.  Without a selected node there is nothing to do;   *)
(* a foreign PVC on the name is left alone; an answer may be lost after the    *)
(* create took effect.                                                         *)
NeverSquatted(c) == FALSE
Squatted(c)      == hostPVC[c] = "foreign"

NotTriggered(c) ==
    /\ pc = "provision" /\ c \in claims \ snap.host
    /\ snap.pvc[c] = "pending" \/ Squatted(c)
    /\ ClaimDone(c)
    /\ UNCHANGED <<guest, offered, tc, host, snap, want, blocked, faults>>

CreateHostPVC(c) ==
    /\ pc = "provision" /\ c \in claims \ snap.host
    /\ snap.pvc[c] = "selected" /\ ~Squatted(c)
    /\ \E failed, applied \in BOOLEAN :
          /\ ~failed => applied
          /\ Fault(failed)
          /\ hostPVC' = IF applied /\ hostPVC[c] = "none"
                        THEN [hostPVC EXCEPT ![c] = "ours"] ELSE hostPVC
          /\ blocked' = (blocked \/ failed)
          /\ claims' = IF failed THEN claims \ {c} ELSE claims
          /\ snap' = IF failed THEN snap ELSE [snap EXCEPT !.host = @ \cup {c}]
    /\ UNCHANGED <<guest, offered, tc, vm, spec, queue, phase, pc, slots, want>>

(* provisionPVC, guest half, once the host PVC is known to exist. *)
CreatePV(c) ==
    /\ pc = "provision" /\ c \in claims \cap snap.host
    /\ \E failed \in BOOLEAN :
          /\ failed => c \notin snap.pv
          /\ Fault(failed)
          /\ pv' = IF ~failed /\ pv[c] = "none" /\ c \notin snap.pv
                   THEN [pv EXCEPT ![c] = "exists"] ELSE pv
          /\ snap' = IF failed THEN snap ELSE [snap EXCEPT !.pv = @ \cup {c}]
    /\ ClaimDone(c)
    /\ UNCHANGED <<pvc, pinned, va, offered, tc, host, want, blocked>>

--------------------------------------------------------------------------------
(* reconcileAttachment, one guest VolumeAttachment after another. *)

VANamed(s) == s[2] \in snap.pv

OutOfSpecOnly(s) == s \notin snap.spec
OutOfLiveVM(s)   == s[1] \in snap.vms /\ ~SeenCarried(s)
SeenDetached(s)  == s[1] \notin snap.vms \/ ~SeenCarried(s)

(* The VA is deleting and nothing the pass read holds its volume in the VM:    *)
(* its PV is gone, its VM is gone, or the volume is out.                       *)
ReleaseVA(s) ==
    /\ pc = "attach" /\ s \in slots
    /\ snap.va[s] = "deleting"
    /\ VANamed(s) => SeenDetached(s)
    /\ \E failed \in BOOLEAN :
          /\ Fault(failed)
          /\ va' = IF ~failed /\ va[s] = "deleting" THEN [va EXCEPT ![s] = "none"] ELSE va
    /\ SlotDone(s)
    /\ UNCHANGED <<pvc, pinned, pv, offered, tc, host, snap, want, blocked>>

(* The VA is deleting and its volume is in the VM's spec: unplug, and wait for *)
(* a later pass to see it gone.                                                *)
UnplugVA(s) ==
    /\ pc = "attach" /\ s \in slots
    /\ snap.va[s] = "deleting" /\ VANamed(s)
    /\ s[1] \in snap.vms /\ s \in snap.spec
    /\ \E lost \in SUBSET {s} :
          /\ RemoveVolumes({s}, lost)
          /\ blocked' = (blocked \/ SomeFailed({s}, lost))
    /\ SlotDone(s)
    /\ UNCHANGED <<guest, offered, tc, snap, want>>

(* An active VA is pinned first; if the Update is refused it is left for the   *)
(* next pass.                                                                  *)
PinVA(s) ==
    /\ pc = "attach" /\ s \in slots
    /\ snap.va[s] = "new" /\ VANamed(s)
    /\ \E failed \in BOOLEAN :
          /\ Fault(failed)
          /\ IF ~failed /\ va[s] = "new"
             THEN /\ va' = [va EXCEPT ![s] = "pinned"]
                  /\ snap' = [snap EXCEPT !.va[s] = "pinned"]
                  /\ UNCHANGED slots
             ELSE slots' = slots \ {s} /\ UNCHANGED <<va, snap>>
    /\ UNCHANGED <<pvc, pinned, pv, offered, tc, host, pc, claims, want, blocked>>

ActiveUnpinned(s) == snap.va[s] \in {"new", "pinned", "attached"}
Active(s) == snap.va[s] \in {"pinned", "attached"}

(* A pinned, active VA whose volume is nowhere in the VM: hotplug it. *)
PlugVA(s) ==
    /\ pc = "attach" /\ s \in slots
    /\ Active(s) /\ VANamed(s)
    /\ s[1] \in snap.vms /\ ~SeenCarried(s)
    /\ \E failed, applied \in BOOLEAN :
          /\ ~failed => applied
          /\ Fault(failed)
          /\ queue' = IF applied /\ AddAccepted(s) THEN [queue EXCEPT ![s] = "add"] ELSE queue
          /\ blocked' = (blocked \/ failed \/ ~AddAccepted(s))
    /\ SlotDone(s)
    /\ UNCHANGED <<guest, offered, tc, hostPVC, vm, spec, phase, snap, want>>

(* Nothing to do, or nothing to do but wait. *)
PassOverVA(s) ==
    /\ pc = "attach" /\ s \in slots
    /\ \/ ~VANamed(s) /\ snap.va[s] # "deleting"
       \/ /\ VANamed(s) /\ snap.va[s] = "deleting"
          /\ s[1] \in snap.vms /\ s \notin snap.spec /\ snap.phase[s] # ""
       \/ VANamed(s) /\ Active(s) /\ (s[1] \notin snap.vms \/ SeenCarried(s))
    /\ SlotDone(s)
    /\ UNCHANGED <<guest, offered, tc, host, snap, want, blocked, faults>>
--------------------------------------------------------------------------------
(* pruneStorage. *)

Attachments(c) == {s \in Listed : s[2] = c}
NoPlugs(c)     == {}
Plugs(c)       == {s \in snap.spec : s[2] = c}

(* teardownGuestPVC waits: for the VAs it listed, which own the unplug, and    *)
(* then for every VM to let go, asking where a volume is still in a spec.      *)
AwaitAttachments(c) ==
    /\ pc = "teardown" /\ c \in claims
    /\ Attachments(c) # {}
    /\ want' = want \cup {c}
    /\ ClaimDone(c)
    /\ UNCHANGED <<guest, offered, tc, host, snap, blocked, faults>>

AwaitUnplug(c) ==
    /\ pc = "teardown" /\ c \in claims
    /\ Attachments(c) = {} /\ ~SeenOut(c)
    /\ want' = want \cup {c}
    /\ \E lost \in SUBSET Plugs(c) :
          /\ RemoveVolumes(Plugs(c), lost)
          /\ blocked' = (blocked \/ SomeFailed(Plugs(c), lost))
    /\ ClaimDone(c)
    /\ UNCHANGED <<guest, offered, tc, snap>>

(* Then the host PVC.  Any earlier failure of the pass ends the teardown here. *)
TeardownHostPVC(c) ==
    /\ pc = "teardown" /\ c \in claims \cap snap.host
    /\ Attachments(c) = {} /\ SeenOut(c)
    /\ \E failed \in BOOLEAN :
          /\ DeleteHostPVC(c, failed)
          /\ blocked' = (blocked \/ failed)
    /\ IF blocked'
       THEN want' = want \cup {c} /\ ClaimDone(c) /\ UNCHANGED snap
       ELSE snap' = [snap EXCEPT !.host = @ \ {c}] /\ UNCHANGED <<want, pc, claims, slots>>
    /\ UNCHANGED <<guest, offered, tc>>

(* Then the guest PV.  The guest keeps a bound PV, terminating, until its      *)
(* claim is gone.                                                              *)
TeardownPV(c) ==
    /\ pc = "teardown" /\ c \in claims \ snap.host
    /\ Attachments(c) = {} /\ SeenOut(c)
    /\ \E failed \in BOOLEAN :
          /\ failed => c \in snap.pv
          /\ Fault(failed)
          /\ pv' = IF ~failed /\ c \in snap.pv /\ pv[c] = "exists"
                   THEN [pv EXCEPT ![c] = IF pvc[c] = "gone" THEN "none" ELSE "terminating"]
                   ELSE pv
          /\ want' = IF failed THEN want \cup {c} ELSE want
    /\ ClaimDone(c)
    /\ UNCHANGED <<pvc, pinned, va, offered, tc, host, snap, blocked>>

(* A labelled host PVC without a guest PVC of its UID: unplug first, delete    *)
(* when this pass saw no VM carry it.                                          *)
UnplugOrphan(c) ==
    /\ pc = "orphans" /\ c \in claims
    /\ ~SeenOut(c)
    /\ \E lost \in SUBSET Plugs(c) :
          /\ RemoveVolumes(Plugs(c), lost)
          /\ blocked' = (blocked \/ SomeFailed(Plugs(c), lost))
    /\ ClaimDone(c)
    /\ UNCHANGED <<guest, offered, tc, snap, want>>

DeleteOrphan(c) ==
    /\ pc = "orphans" /\ c \in claims
    /\ SeenOut(c)
    /\ \E failed \in BOOLEAN :
          /\ DeleteHostPVC(c, failed)
          /\ blocked' = (blocked \/ failed)
    /\ ClaimDone(c)
    /\ UNCHANGED <<guest, offered, tc, snap, want>>

(* removeOrphanVMVolumes: a volume whose claim is gone, read uncached, is      *)
(* unplugged.  The claim is known only of a volume in a spec or queued for it: *)
(* VMs() gives a volume that only the VMI still reports no claim, and it is    *)
(* passed over.  What is found here only holds up a TenantCluster's teardown.  *)
Sweep(s) ==
    /\ pc \in {"sweep", "leaveSweep"} /\ s \in slots
    /\ LET gone == IF hostPVC[s[2]] = "none" THEN {s} ELSE {}
       IN  \E lost \in SUBSET {s} :
              /\ RemoveVolumes(gone, lost)
              /\ blocked' = (blocked \/ (pc = "leaveSweep" /\ (gone \cup lost) # {}))
    /\ SlotDone(s)
    /\ UNCHANGED <<guest, offered, tc, snap, want>>

--------------------------------------------------------------------------------
(* releaseGuestFinalizers and writeBackStorage: guest writes, refused when the *)
(* object is not the one this pass listed.                                     *)

ReleasePVC(c) ==
    /\ pc = "release" /\ c \in claims
    /\ \E failed \in BOOLEAN :
          /\ Fault(failed)
          /\ pinned' = IF ~failed /\ pvc[c] = snap.pvc[c] THEN pinned \ {c} ELSE pinned
    /\ ClaimDone(c)
    /\ UNCHANGED <<pvc, pv, va, offered, tc, host, snap, want, blocked>>

WriteVAStatus(s) ==
    /\ pc = "writeback" /\ s \in slots
    /\ \E failed \in BOOLEAN :
          /\ Fault(failed)
          /\ va' = IF failed \/ va[s] # snap.va[s] THEN va
                   ELSE [va EXCEPT ![s] = IF s[1] \in snap.vms THEN "attached" ELSE "pinned"]
    /\ SlotDone(s)
    /\ UNCHANGED <<pvc, pinned, pv, offered, tc, host, snap, want, blocked>>

--------------------------------------------------------------------------------
(* reconcileDelete: storageTeardown, and the guest cleanup once it is done.    *)

LeaveListPVCs ==
    /\ pc = "idle" /\ tc = "deleting"
    /\ snap' = [snap EXCEPT !.host = Labelled]
    /\ pc' = "leaveVMs"
    /\ UNCHANGED <<guest, offered, tc, host, claims, slots, want, blocked, faults>>

LeaveListVMIs ==
    /\ pc = "leaveVMIs"
    /\ snap' = [snap EXCEPT !.phase = SeenPhase]
    /\ claims' = snap.host
    /\ pc' = "leavePVCs"
    /\ UNCHANGED <<guest, offered, tc, host, slots, want, blocked, faults>>

LeaveUnplug(c) ==
    /\ pc = "leavePVCs" /\ c \in claims
    /\ ~SeenOut(c)
    /\ \E lost \in SUBSET Plugs(c) : RemoveVolumes(Plugs(c), lost)
    /\ blocked' = TRUE
    /\ ClaimDone(c)
    /\ UNCHANGED <<guest, offered, tc, snap, want>>

LeaveDelete(c) ==
    /\ pc = "leavePVCs" /\ c \in claims
    /\ SeenOut(c)
    /\ \E failed \in BOOLEAN :
          /\ DeleteHostPVC(c, failed)
          /\ blocked' = (blocked \/ failed)
    /\ ClaimDone(c)
    /\ UNCHANGED <<guest, offered, tc, snap, want>>

(* Not done: requeue.  Done: drop the TenantCluster's finalizer, after a guest *)
(* cleanup that an unreachable guest does not hold up.  A cleanup cut short is *)
(* abstracted to none or all of it.                                            *)
CleanupDropsVAs ==
    /\ pinned' = {} /\ va' = [s \in Slots |-> "none"]
    /\ UNCHANGED <<pvc, pv>>

CleanupGuestStorage ==
    /\ pinned' = {}
    /\ va' = [s \in Slots |-> CASE va[s] \in {"none", "deleting"} -> "none"
                                 [] OTHER -> "new"]
    /\ pv' = [c \in Claims |-> IF pv[c] = "none" \/ pvc[c] = "gone"
                               THEN "none" ELSE "terminating"]
    /\ UNCHANGED pvc

Requeue ==
    /\ pc = "leaveSweep" /\ slots = {} /\ blocked
    /\ Idle
    /\ UNCHANGED <<guest, offered, tc, host, faults>>

Leave ==
    /\ pc = "leaveSweep" /\ slots = {} /\ ~blocked
    /\ tc' = "gone"
    /\ UNCHANGED guest \/ CleanupGuestStorage
    /\ Idle
    /\ UNCHANGED <<offered, host, faults>>
--------------------------------------------------------------------------------
(* The tenant's cluster, external: users, the scheduler, the attach/detach     *)
(* controller with its multi-attach guard, and the API server's finalizers.    *)

Live(c) == pvc[c] \in {"refused", "pending", "selected"}

SetPVC(c, state) ==
    /\ pvc' = [pvc EXCEPT ![c] = state]
    /\ UNCHANGED <<pv, va, offered, tc, host, pass, faults>>

CreatePVC(c)  == /\ pvc[c] = "absent"
                 /\ \E state \in {"pending", "refused"} : SetPVC(c, state)
                 /\ UNCHANGED pinned
SelectNode(c) == pvc[c] = "pending" /\ SetPVC(c, "selected") /\ UNCHANGED pinned
DeletePVC(c)  == Live(c) /\ SetPVC(c, "deleting") /\ UNCHANGED pinned
PVCVanish(c)  == /\ pvc[c] = "deleting" /\ c \notin pinned
                 /\ SetPVC(c, "gone") /\ UNCHANGED pinned
ForceDelete(c) == /\ "PVC" \in TenantForces
                  /\ Live(c) \/ pvc[c] = "deleting"
                  /\ SetPVC(c, "gone") /\ pinned' = pinned \ {c}

PVVanish(c) ==
    /\ pv[c] = "terminating" /\ pvc[c] = "gone"
    /\ pv' = [pv EXCEPT ![c] = "none"]
    /\ UNCHANGED <<pvc, pinned, va, offered, tc, host, pass, faults>>

CreateVA(s) ==
    /\ pv[s[2]] # "none" /\ pvc[s[2]] \in {"selected", "deleting"}
    /\ \A t \in Slots : t[2] = s[2] => va[t] = "none"
    /\ va' = [va EXCEPT ![s] = "new"]
    /\ UNCHANGED <<pvc, pinned, pv, offered, tc, host, pass, faults>>

DeleteVA(s) ==
    /\ va[s] \in {"new", "pinned", "attached"}
    /\ va' = [va EXCEPT ![s] = IF va[s] = "new" THEN "none" ELSE "deleting"]
    /\ UNCHANGED <<pvc, pinned, pv, offered, tc, host, pass, faults>>

(* A VA recreated under its name during a pass is pinned as if that pass had   *)
(* listed it; the code would pin it one pass later.                            *)
ForceVA(s) ==
    /\ "VA" \in TenantForces
    /\ va[s] \in {"pinned", "attached", "deleting"}
    /\ va' = [va EXCEPT ![s] = "none"]
    /\ UNCHANGED <<pvc, pinned, pv, offered, tc, host, pass, faults>>

(* The operator: the class's offer, and the TenantCluster. *)
ToggleOffer ==
    /\ OperatorUnoffers
    /\ offered' = ~offered
    /\ UNCHANGED <<guest, tc, host, pass, faults>>

DeleteTenant ==
    /\ TenantLeaves /\ tc = "live"
    /\ tc' = "deleting"
    /\ UNCHANGED <<guest, offered, host, pass, faults>>

(* KubeVirt and the host, external: virt-controller applies a request, the VMI *)
(* follows the spec, VMs come and go with their nodes.                         *)
ApplyRequest(s) ==
    /\ queue[s] # "none"
    /\ spec' = IF queue[s] = "add" THEN spec \cup {s} ELSE spec \ {s}
    /\ queue' = [queue EXCEPT ![s] = "none"]
    /\ UNCHANGED <<guest, offered, tc, hostPVC, vm, phase, pass, faults>>

SetPhase(s, p) ==
    /\ phase' = [phase EXCEPT ![s] = p]
    /\ UNCHANGED <<guest, offered, tc, hostPVC, vm, spec, queue, pass, faults>>

Plugging(s) == /\ s \in spec /\ phase[s] = "" /\ hostPVC[s[2]] = "ours"
               /\ SetPhase(s, "plugging")
Ready(s)    == s \in spec /\ phase[s] = "plugging" /\ SetPhase(s, "Ready")
LetGo(s)    == s \notin spec /\ phase[s] # "" /\ SetPhase(s, "")

HostPVCVanish(c) ==
    /\ hostPVC[c] = "terminating"
    /\ \A s \in Slots : s[2] = c => phase[s] = ""
    /\ hostPVC' = [hostPVC EXCEPT ![c] = "none"]
    /\ UNCHANGED <<guest, offered, tc, vm, spec, queue, phase, pass, faults>>

DeleteVM(n) ==
    /\ n \in vm \cap Mortal
    /\ vm' = vm \ {n}
    /\ spec' = {s \in spec : s[1] # n}
    /\ queue' = [s \in Slots |-> IF s[1] = n THEN "none" ELSE queue[s]]
    /\ phase' = [s \in Slots |-> IF s[1] = n THEN "" ELSE phase[s]]
    /\ UNCHANGED <<guest, offered, tc, hostPVC, pass, faults>>

CreateVM(n) ==
    /\ n \notin vm
    /\ vm' = vm \cup {n}
    /\ UNCHANGED <<guest, offered, tc, hostPVC, spec, queue, phase, pass, faults>>

--------------------------------------------------------------------------------
ClaimStep(c) ==
    \/ PinPVC(c) \/ NotTriggered(c) \/ CreateHostPVC(c) \/ CreatePV(c)
    \/ AwaitAttachments(c) \/ AwaitUnplug(c) \/ TeardownHostPVC(c) \/ TeardownPV(c)
    \/ UnplugOrphan(c) \/ DeleteOrphan(c) \/ ReleasePVC(c)
    \/ LeaveUnplug(c) \/ LeaveDelete(c)

SlotStep(s) ==
    \/ ReleaseVA(s) \/ UnplugVA(s) \/ PinVA(s) \/ PlugVA(s) \/ PassOverVA(s)
    \/ Sweep(s) \/ WriteVAStatus(s)

Syncer ==
    \/ ListPVCs \/ ListPVs \/ ListVAs \/ ListHost \/ ListVMs \/ ListVMIs
    \/ NextStage \/ SkipApply \/ EndPass
    \/ LeaveListPVCs \/ LeaveListVMIs \/ Requeue \/ Leave
    \/ \E c \in Claims : ClaimStep(c)
    \/ \E s \in Slots : SlotStep(s)

Tenant ==
    \/ \E c \in Claims : \/ CreatePVC(c) \/ SelectNode(c) \/ DeletePVC(c)
                          \/ PVCVanish(c) \/ ForceDelete(c) \/ PVVanish(c)
    \/ \E s \in Slots : CreateVA(s) \/ DeleteVA(s) \/ ForceVA(s)

KubeVirt == \E s \in Slots : ApplyRequest(s) \/ Plugging(s) \/ Ready(s) \/ LetGo(s)

Operator ==
    \/ ToggleOffer \/ DeleteTenant
    \/ \E c \in Claims : HostPVCVanish(c)
    \/ \E n \in Nodes : DeleteVM(n) \/ CreateVM(n)

Next == Syncer \/ Abort \/ Tenant \/ KubeVirt \/ Operator

Spec == Init /\ [][Next]_vars

(* The controller runs and requeues, so the syncer's next step is taken; the   *)
(* virt-controller works its queue and VMIs follow their spec.  Users,         *)
(* operators, faults and crashes owe nothing.                                  *)
Fairness ==
    /\ WF_vars(Syncer)
    /\ \A s \in Slots : /\ WF_vars(ApplyRequest(s)) /\ WF_vars(LetGo(s))
                         /\ WF_vars(Plugging(s)) /\ WF_vars(Ready(s))

FairSpec == Spec /\ Fairness

--------------------------------------------------------------------------------
Out(c) == \A s \in Slots : s[2] = c => ~Carried(s)

(* The snapshot the destructive steps decide on errs only towards "attached".  *)
(* No VM, no volume; between VMs()'s two lists, whatever is in a spec or       *)
(* queued for one was seen; and once both are read, whatever a VM carries the  *)
(* pass either saw or asked for itself, through a VolumeAttachment it pinned.  *)
Gathered == pc \in LoopPCs \cup {"leavePVCs", "leaveSweep"}

NoVMNoVolume == \A s \in Slots : s[1] \notin vm => ~Carried(s)

ListTruth ==
    pc \in {"listVMIs", "leaveVMIs"} =>
        \A s \in Slots : /\ InSpec(s) => s \in snap.spec
                         /\ s[1] \notin snap.vms => ~Carried(s)

PassTruth ==
    Gathered => \A s \in Slots : Carried(s) => SeenCarried(s) \/ Active(s)

SnapshotTruth == NoVMNoVolume /\ ListTruth /\ PassTruth

(* A volume is in at most one VM, whatever moves, dies or fails on the way.    *)
OneVM == \A s, t \in Slots : s[2] = t[2] /\ Carried(s) /\ Carried(t) => s = t

(* reconcileAttachment pins before it plugs and releases after it saw the      *)
(* volume out, so a VA cannot vanish while its volume is in its VM.            *)
HeldWhileCarried ==
    \A s \in Slots : Carried(s) /\ pv[s[2]] # "none" /\ tc # "gone"
                       => va[s] \in {"pinned", "attached", "deleting"}

(* The guest is told "attached" of a volume that is Ready in the VM, and it    *)
(* stays so while the VA does, unless the VM, the claim or the tenant goes.    *)
AttachedMeansReady ==
    \A s \in Slots : /\ va[s] = "attached" /\ s[1] \notin Mortal
                     /\ pvc[s[2]] # "gone" /\ tc = "live"
                     => s \in spec /\ phase[s] = "Ready"

DeletesHostPVC(c) == hostPVC[c] = "ours" /\ hostPVC'[c] # "ours"

(* A host PVC is deleted only once its volume is out of every VM, on every     *)
(* path, when the pass listed no active VA that it may just have served.       *)
UnplugBeforeDelete ==
    [][\A c \in Claims :
          DeletesHostPVC(c) /\ (\A s \in Slots : s[2] = c => ~Active(s)) => Out(c)]_vars

ReleasesPin(c) == pc = "release" /\ c \in pinned \ pinned' /\ pvc'[c] = pvc[c]

(* The pass lets a deleting PVC go only after every trace of it is gone.       *)
ReleaseAfterTeardown ==
    [][\A c \in Claims : ReleasesPin(c) /\ snap.pvc[c] = "deleting"
                            => hostPVC[c] # "ours" /\ pv[c] # "exists" /\ Out(c)]_vars

(* When the TenantCluster's finalizer drops, no host PVC of the tenant is left *)
(* and no VM carries a volume or will be given one.                               *)
GoneMeansClean ==
    tc = "gone" => (\A c \in Claims : hostPVC[c] # "ours") /\ (\A s \in Slots : ~Carried(s))

(* An unlabelled host PVC on a derived name stays, and its claim gets nothing. *)
ForeignUntouched ==
    [][\A c \in Claims : hostPVC[c] = "foreign"
            => hostPVC'[c] = "foreign" /\ pv'[c] = "none" /\ Out(c)']_vars

(* A deleting VA is let go, however the VM, the queue and the passes mesh.     *)
VAReleased == \A s \in Slots : va[s] = "deleting" ~> va[s] # "deleting" \/ tc # "live"

(* A deleting PVC whose volume nobody attaches any more is let go.             *)
TeardownCompletes ==
    \A c \in Claims :
        pvc[c] = "deleting" /\ (\A s \in Slots : s[2] = c => va[s] = "none")
            ~> c \notin pinned \/ (\E s \in Slots : s[2] = c /\ va[s] # "none")
               \/ tc # "live"

(* A volume that nobody claims or attaches any more leaves the VM, however it  *)
(* came to be in one still (the orphan loop, the sweep).                       *)
StrayUnplugged ==
    \A s \in Slots : Carried(s) /\ pvc[s[2]] = "gone" /\ va[s] = "none"
                          ~> ~Carried(s) \/ tc # "live"

(* A VA that stays is served.                                                  *)
AttachCompletes ==
    \A s \in Slots : va[s] = "new"
        ~> va[s] \in {"none", "deleting", "attached"} \/ s[1] \notin vm
           \/ pvc[s[2]] \in {"deleting", "gone"} \/ tc # "live"

(* A TenantCluster under deletion goes.                                        *)
TenantGoes == tc = "deleting" ~> tc = "gone"
--------------------------------------------------------------------------------
(* What a claim's volume amounts to for the guest and the VMs, pass or no pass *)
(* in between: VolumeCustody.                                                  *)
LeaseOf(state) == CASE state = "none" -> "none" [] state = "new" -> "asked"
                    [] state = "pinned" -> "held" [] state = "attached" -> "attached"
                    [] state = "deleting" -> "ending"

ContractOf(c) == CASE tc = "gone" \/ (pvc[c] = "gone" /\ pv[c] = "none") -> "over"
                   [] tc = "live" /\ pvc[c] # "gone" -> "live"
                   [] OTHER -> "lapsed"

Custody(c) == INSTANCE VolumeCustody WITH
    disk     <- {n \in Nodes : Carried(<<n, c>>)},
    ready    <- {n \in Nodes : phase[<<n, c>>] = "Ready"},
    lease    <- [n \in Nodes |-> LeaseOf(va[<<n, c>>])],
    contract <- ContractOf(c)

(* Passes that list, crash, retry and race nevertheless keep, claim by claim,  *)
(* the custody of one volume: one VM at a time, out before it is let go of,    *)
(* and not out from under a node that was told it is attached.                 *)
CustodyKept == [][\A c \in Claims : [Custody(c)!Next]_(Custody(c)!custody)]_vars
================================================================================
