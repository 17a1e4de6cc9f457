------------------------- MODULE StorageCustody_proofs -------------------------
(***************************************************************************)
(* StorageSync implements VolumeCustody, claim by claim, for any claims,   *)
(* nodes and faults, as long as the tenant strips no finalizer of ours off *)
(* a VolumeAttachment: one VM per volume, held by its VA while a VM        *)
(* carries it, Ready while the guest was told so, and every step a step of *)
(* the promise.                                                            *)
(*                                                                         *)
(* The invariant behind it, in the order of the sections: what a snapshot  *)
(* still says when it is used (GuestOrder); what the attach loop has not   *)
(* come to yet it has seen (PassOrder); one VA per claim, and a carried    *)
(* volume held by it or its claim over (CustodyInv); nothing unplugged or  *)
(* unready behind a VA that stays (ReadyInv).                              *)
(***************************************************************************)
EXTENDS StoragePass_proofs

--------------------------------------------------------------------------------
(* What a snapshot still says of the guest and of the host when it is used.    *)

(* A PVC only moves on from where the pass saw it, and a PV is terminating     *)
(* only when its claim is on its way out.                                      *)
PVCOrder ==
    \A c \in Claims :
        /\ snap.pvc[c] = "selected" => pvc[c] \in {"selected", "deleting", "gone"}
        /\ snap.pvc[c] = "deleting" => pvc[c] \in {"deleting", "gone"}
        /\ snap.pvc[c] = "gone" => pvc[c] = "gone"
        /\ snap.pvc[c] \in {"pending", "selected"} => pv[c] # "terminating"
        /\ tc # "gone" /\ pvc[c] \notin {"deleting", "gone"} => pv[c] # "terminating"

LEMMA PVCOrderKept ==
    ASSUME TypeOK, TypeOK', Loops, PVCOrder, [Next]_vars PROVE PVCOrder'
<1> SUFFICES ASSUME NEW c \in Claims
             PROVE
        /\ snap'.pvc[c] = "selected" => pvc'[c] \in {"selected", "deleting", "gone"}
        /\ snap'.pvc[c] = "deleting" => pvc'[c] \in {"deleting", "gone"}
        /\ snap'.pvc[c] = "gone" => pvc'[c] = "gone"
        /\ snap'.pvc[c] \in {"pending", "selected"} => pv'[c] # "terminating"
        /\ tc' # "gone" /\ pvc'[c] \notin {"deleting", "gone"} => pv'[c] # "terminating"
    BY DEF PVCOrder
<1>1. pvc[c] \in PVCStates /\ pvc'[c] \in PVCStates BY DEF TypeOK
<1>2. CASE pvc'[c] # pvc[c]
      BY <1>1, <1>2, PVCWriters DEF PVCOrder, PVCStates, pass
<1>3. CASE pvc'[c] = pvc[c]
  <2>1. tc' # "gone" => tc # "gone" BY TCWriters DEF DeleteTenant, Leave
  <2>2. CASE Leave
        BY <2>2, EmptySnapFields DEF Leave, Idle
  <2>3. CASE ~Leave
    <3>1. CASE ListPVCs
          BY <1>3, <3>1 DEF ListPVCs, PVCOrder, guest, TypeOK
    <3>2. CASE ~ListPVCs
      <4>1. snap'.pvc[c] = snap.pvc[c] \/ snap'.pvc[c] = "absent"
            BY <3>2, SnapLists, EmptySnapFields DEF Idle
      <4>2. CASE TeardownPV(c)
        <5>1. snap.pvc[c] = "deleting" BY <4>2 DEF TeardownPV, Loops, Deleting
        <5>2. QED BY <1>3, <4>1, <5>1 DEF PVCOrder
      <4>3. CASE ~TeardownPV(c)
        <5>1. pv'[c] = "terminating" => pv[c] = "terminating"
              BY <2>3, <4>3, PVWriters DEF CreatePV, PVVanish, TypeOK
        <5>2. QED BY <1>3, <2>1, <4>1, <5>1 DEF PVCOrder
      <4>4. QED BY <4>2, <4>3
    <3>3. QED BY <3>1, <3>2
  <2>4. QED BY <2>2, <2>3
<1>4. QED BY <1>2, <1>3

(* A PV the pass has listed, or made, goes only with its claim; and while the  *)
(* pass takes the claim for a live one, nothing has deleted it.                *)
PVStale ==
    \A c \in Claims : c \in snap.pv =>
        /\ pv[c] # "none" \/ pvc[c] = "gone"
        /\ snap.pvc[c] \in {"pending", "selected"} => pv[c] = "exists"

LEMMA PVStaleKept ==
    ASSUME TypeOK, TypeOK', Unread, Loops, PVCOrder, PVStale, [Next]_vars PROVE PVStale'
<1> SUFFICES ASSUME NEW c \in Claims, c \in snap'.pv
             PROVE  /\ pv'[c] # "none" \/ pvc'[c] = "gone"
                    /\ snap'.pvc[c] \in {"pending", "selected"} => pv'[c] = "exists"
    BY DEF PVStale
<1>0. ~Idle BY EmptySnapFields DEF Idle
<1>1. ~Leave BY <1>0 DEF Leave
<1>2. pvc[c] = "gone" => pvc'[c] = "gone" BY PVCWriters
<1>3. pv[c] \in PVStates BY DEF TypeOK
<1>4. CASE ListPVs
  <2>1. pv'[c] = pv[c] /\ pv[c] # "none" /\ snap'.pvc = snap.pvc
        BY <1>4 DEF ListPVs, guest, TypeOK
  <2>2. QED BY <1>3, <2>1 DEF PVCOrder, PVStates
<1>5. CASE CreatePV(c)
  <2>1. PICK failed \in BOOLEAN :
             /\ pv' = IF ~failed /\ pv[c] = "none" /\ c \notin snap.pv
                      THEN [pv EXCEPT ![c] = "exists"] ELSE pv
             /\ snap' = IF failed THEN snap ELSE [snap EXCEPT !.pv = @ \cup {c}]
        BY <1>5 DEF CreatePV
  <2>2. snap'.pvc = snap.pvc /\ pvc' = pvc BY <1>5, <2>1 DEF CreatePV, TypeOK
  <2>3. CASE c \in snap.pv
    <3>1. pv' = pv BY <2>1, <2>3
    <3>2. QED BY <2>2, <2>3, <3>1 DEF PVStale
  <2>4. CASE c \notin snap.pv
    <3>1. ~failed BY <2>1, <2>4 DEF TypeOK
    <3>2. pv[c] # "none" => pv'[c] = pv[c] BY <2>1
    <3>3. pv[c] = "none" => pv'[c] = "exists" BY <2>1, <2>4, <3>1 DEF TypeOK
    <3>4. QED BY <1>3, <2>2, <3>2, <3>3 DEF PVCOrder, PVStates
  <2>5. QED BY <2>3, <2>4
<1>6. CASE ~ListPVs /\ ~CreatePV(c)
  <2>1. c \in snap.pv BY <1>0, <1>6, SnapPVWriters
  <2>2. ~ListPVCs BY <2>1 DEF ListPVCs, Unread
  <2>3. snap'.pvc = snap.pvc BY <1>0, <2>2, SnapLists
  <2>4. CASE pv'[c] = pv[c] BY <1>2, <2>1, <2>3, <2>4 DEF PVStale
  <2>5. CASE TeardownPV(c)
    <3>1. snap.pvc[c] = "deleting" BY <2>5 DEF TeardownPV, Loops, Deleting
    <3>2. pv'[c] = "none" => pvc[c] = "gone" \/ pv[c] = "none"
          BY <2>5 DEF TeardownPV, TypeOK
    <3>3. QED BY <1>2, <2>1, <2>3, <3>1, <3>2 DEF PVStale
  <2>6. CASE PVVanish(c)
    <3>1. pvc[c] = "gone" /\ pv[c] = "terminating" BY <2>6 DEF PVVanish
    <3>2. QED BY <1>2, <2>3, <3>1 DEF PVCOrder
  <2>7. QED BY <1>1, <1>6, <2>4, <2>5, <2>6, PVWriters
<1>7. QED BY <1>4, <1>5, <1>6

(* A VM that carries a volume without a PV has it of a claim that is gone, and *)
(* no pass takes that claim for one to provision.                              *)
CarriedNamed ==
    \A s \in Slots : Carried(s) /\ pv[s[2]] = "none"
        => pvc[s[2]] = "gone" /\ snap.pvc[s[2]] \notin {"pending", "selected"}

LEMMA CarriedNamedKept ==
    ASSUME TypeOK, TypeOK', NoVMNoVolume, Loops, PVCOrder, PVStale, CarriedNamed,
           GoneMeansClean', [Next]_vars
    PROVE  CarriedNamed'
<1> SUFFICES ASSUME NEW s \in Slots, NEW c \in Claims, c = s[2], Carried(s)', pv'[c] = "none"
             PROVE  pvc'[c] = "gone" /\ snap'.pvc[c] \notin {"pending", "selected"}
    BY SlotClaim DEF CarriedNamed
<1>1. ~Leave BY DEF Leave, GoneMeansClean
<1>2. pvc[c] = "gone" => pvc'[c] = "gone" BY PVCWriters
<1>3. pvc[c] = "gone" /\ snap.pvc[c] \notin {"pending", "selected"}
  <2>1. CASE pv[c] = "none" /\ Carried(s) BY <2>1 DEF CarriedNamed
  <2>2. CASE pv[c] = "none" /\ ~Carried(s)
    <3>1. PlugVA(s) BY <2>2, CarriedWriters
    <3>2. c \in snap.pv BY <3>1 DEF PlugVA, VANamed
    <3>3. QED BY <2>2, <3>2 DEF PVStale
  <2>3. CASE TeardownPV(c) /\ pv[c] # "none"
    <3>1. snap.pvc[c] = "deleting" BY <2>3 DEF TeardownPV, Loops, Deleting
    <3>2. pvc[c] = "gone" BY <2>3 DEF TeardownPV, TypeOK
    <3>3. QED BY <3>1, <3>2
  <2>4. CASE PVVanish(c) /\ pv[c] # "none"
        BY <2>4 DEF PVVanish, PVCOrder
  <2>5. CreatePV(c) => pv'[c] = pv[c] BY DEF CreatePV, TypeOK
  <2>6. QED BY <1>1, <2>1, <2>2, <2>3, <2>4, <2>5, PVWriters
<1>4. snap'.pvc[c] \notin {"pending", "selected"}
  <2>1. ListPVCs => snap'.pvc = pvc BY DEF ListPVCs, TypeOK
  <2>2. Idle => snap'.pvc[c] = "absent" BY EmptySnapFields DEF Idle
  <2>3. QED BY <1>3, <2>1, <2>2, SnapLists
<1>5. QED BY <1>2, <1>3, <1>4

--------------------------------------------------------------------------------
(* The pass and the volumes it is about to handle.  Until the attach loop has  *)
(* come to a slot, what the VM carries in it the pass has seen, and a VA it    *)
(* listed as deleting is still there.                                          *)

Unserved(s) ==
    \/ pc \in {"listHost", "listVMs", "listVMIs", "pin", "provision"}
    \/ pc = "attach" /\ s \in slots

SeenVM == \A s \in Slots : SeenCarried(s) => s[1] \in snap.vms

UnservedSeen ==
    \A s \in Slots : Unserved(s) /\ pc \in LoopPCs /\ Carried(s) => SeenCarried(s)

QueueShape ==
    \A s \in Slots : /\ queue[s] = "add" => s \notin spec /\ phase[s] = ""
                     /\ queue[s] = "remove" => s \in spec

LEMMA SeenVMKept ==
    ASSUME TypeOK, NoVMNoVolume, Unread, SeenVM, [Next]_vars PROVE SeenVM'
<1> SUFFICES ASSUME NEW s \in Slots, SeenCarried(s)' PROVE s[1] \in snap'.vms
    BY DEF SeenVM
<1>1. ~Idle BY EmptySnapFields DEF Idle, SeenCarried
<1>2. CASE ListVMs
  <2>1. snap'.vms = vm /\ snap'.spec = SeenSpec /\ snap'.phase = snap.phase
        BY <1>2 DEF ListVMs, TypeOK
  <2>2. snap.phase[s] = "" BY <1>2 DEF ListVMs, Unread, ListPCs
  <2>3. Carried(s) BY <2>1, <2>2 DEF SeenCarried, SeenSpec, Carried
  <2>4. QED BY <2>1, <2>3 DEF NoVMNoVolume
<1>3. CASE ListVMIs \/ LeaveListVMIs
  <2>1. snap'.vms = snap.vms /\ snap'.spec = snap.spec /\ snap'.phase = SeenPhase
        BY <1>3 DEF ListVMIs, LeaveListVMIs, TypeOK
  <2>2. QED BY <2>1 DEF SeenCarried, SeenPhase, SeenVM
<1>4. CASE ~ListVMs /\ ~ListVMIs /\ ~LeaveListVMIs
      BY <1>1, <1>4, SnapLists DEF SeenCarried, SeenVM
<1>5. QED BY <1>2, <1>3, <1>4

LEMMA UnservedBefore ==
    ASSUME TypeOK, [Next]_vars, NEW s \in Slots, Unserved(s)', ~ListVAs
    PROVE  /\ Unserved(s) /\ ~Idle /\ ~Leave
           /\ pc' \in LoopPCs => pc \in LoopPCs \/ ListVMIs
<1>1. ~Idle BY DEF Idle, Unserved
<1>2. ~Leave BY <1>1 DEF Leave
<1>3. Unserved(s)
  <2>1. CASE Lists
        BY <2>1 DEF Lists, ListPVCs, ListPVs, ListVAs, ListHost, ListVMs, ListVMIs,
           LeaveListPVCs, LeaveListVMIs, Unserved
  <2>2. CASE Stages BY <2>2 DEF Stages, NextStage, SkipApply, Stage, Unserved
  <2>3. CASE ~Lists /\ ~Stages
        BY <1>1, <2>3, PCWriters, LoopsShrink DEF Unserved
  <2>4. QED BY <2>1, <2>2, <2>3
<1>4. QED BY <1>1, <1>2, <1>3, PCOrder

LEMMA UnservedSeenKept ==
    ASSUME TypeOK, SnapshotTruth, UnservedSeen, [Next]_vars PROVE UnservedSeen'
<1> SUFFICES ASSUME NEW s \in Slots, Unserved(s)', pc' \in LoopPCs, Carried(s)'
             PROVE  SeenCarried(s)'
    BY DEF UnservedSeen
<1>0. ~ListVAs BY DEF ListVAs, LoopPCs
<1>1. Unserved(s) /\ ~Idle BY <1>0, UnservedBefore
<1>2. Carried(s)
  <2>1. PlugVA(s) => ~Unserved(s)' BY DEF PlugVA, SlotDone, Unserved
  <2>2. QED BY <2>1, CarriedWriters DEF SnapshotTruth
<1>3. CASE ListVMIs
  <2>1. snap'.spec = snap.spec /\ snap'.phase = SeenPhase BY <1>3 DEF ListVMIs, TypeOK
  <2>2. (InSpec(s) => s \in snap.spec) /\ s[1] \in snap.vms
        BY <1>2, <1>3 DEF SnapshotTruth, ListTruth, ListVMIs
  <2>3. QED BY <1>2, <2>1, <2>2 DEF SeenPhase, SeenCarried, Carried
<1>4. CASE ~ListVMIs
  <2>1. pc \in LoopPCs BY <1>0, <1>4, UnservedBefore
  <2>2. ~ListVMs /\ ~LeaveListVMIs BY <2>1 DEF ListVMs, LeaveListVMIs, LoopPCs
  <2>3. QED BY <1>1, <1>2, <1>4, <2>1, <2>2, SnapLists DEF UnservedSeen, SeenCarried
<1>5. QED BY <1>3, <1>4

(* So a volume is plugged only when it is not in the VM in any way. *)
LEMMA PlugsOut ==
    ASSUME UnservedSeen, NEW s \in Slots, PlugVA(s) PROVE ~Carried(s)
  BY DEF UnservedSeen, PlugVA, Unserved, LoopPCs

LEMMA QueueShapeKept ==
    ASSUME TypeOK, UnservedSeen, QueueShape, [Next]_vars PROVE QueueShape'
<1> SUFFICES ASSUME NEW s \in Slots
             PROVE  /\ queue'[s] = "add" => s \notin spec' /\ phase'[s] = ""
                    /\ queue'[s] = "remove" => s \in spec'
    BY DEF QueueShape
<1>1. CASE Unplugs(s)
  <2>1. spec' = spec
        BY <1>1 DEF Unplugs, UnplugVA, AwaitUnplug, UnplugOrphan, LeaveUnplug, Sweep,
                    RemoveVolumes
  <2>2. QED BY <1>1, <2>1 DEF Unplugs
<1>2. CASE PlugVA(s)
  <2>1. ~Carried(s) BY <1>2, PlugsOut
  <2>2. spec' = spec /\ phase' = phase BY <1>2 DEF PlugVA
  <2>3. queue'[s] \in {queue[s], "add"} BY <1>2 DEF PlugVA, TypeOK
  <2>4. QED BY <2>1, <2>2, <2>3 DEF QueueShape, Carried, InSpec
<1>3. CASE ApplyRequest(s) \/ DeleteVM(s[1])
  <2>1. queue'[s] = "none" BY <1>3 DEF ApplyRequest, DeleteVM, TypeOK
  <2>2. QED BY <2>1
<1>4. CASE ~Unplugs(s) /\ ~PlugVA(s) /\ ~ApplyRequest(s) /\ ~DeleteVM(s[1])
  <2>1. queue'[s] = queue[s] BY <1>4, QueueWriters
  <2>2. s \in spec' <=> s \in spec BY <1>4, SpecWriters
  <2>3. phase[s] = "" /\ queue[s] = "add" => phase'[s] = ""
        BY <1>4, PhaseWriters DEF Plugging, Ready, LetGo, QueueShape
  <2>4. QED BY <2>1, <2>2, <2>3 DEF QueueShape
<1>5. QED BY <1>1, <1>2, <1>3, <1>4

--------------------------------------------------------------------------------
(* One VolumeAttachment per claim, in the guest and in every snapshot of it.   *)

OneVA == \A s, t \in Slots : s[2] = t[2] /\ va[s] # "none" /\ va[t] # "none" => s = t

OneListed ==
    \A s, t \in Slots : s[2] = t[2] /\ snap.va[s] # "none" /\ snap.va[t] # "none" => s = t

LEMMA VAGrows ==
    ASSUME TypeOK, Loops, [Next]_vars, NEW s \in Slots, va[s] = "none", va'[s] # "none"
    PROVE  CreateVA(s)
<1>1. ~WriteVAStatus(s) BY DEF WriteVAStatus, Loops, Reported
<1>2. ~Leave BY DEF Leave, CleanupGuestStorage, guest
<1>3. QED BY <1>1, <1>2, VAWriters DEF ReleaseVA, PinVA, DeleteVA, ForceVA

LEMMA OneVAKept ==
    ASSUME TypeOK, Loops, OneVA, [Next]_vars PROVE OneVA'
<1> SUFFICES ASSUME NEW s \in Slots, NEW t \in Slots, s[2] = t[2], s # t,
                    va'[s] # "none", va'[t] # "none"
             PROVE  FALSE
    BY DEF OneVA
<1>1. ASSUME NEW r \in Slots, NEW q \in Slots, r[2] = q[2], r # q, CreateVA(r)
      PROVE  va'[q] = "none"
      BY <1>1 DEF CreateVA, TypeOK
<1>2. ~CreateVA(s) /\ ~CreateVA(t) BY <1>1
<1>3. QED BY <1>2, VAGrows DEF OneVA

LEMMA ListedBefore ==
    ASSUME TypeOK, [Next]_vars, ~ListVAs, NEW s \in Slots, snap'.va[s] # "none"
    PROVE  snap.va[s] # "none" /\ ~Idle
<1>1. ~Idle BY EmptySnapFields DEF Idle
<1>2. QED BY <1>1, SnapVAWriters

LEMMA OneListedKept ==
    ASSUME TypeOK, OneVA, OneListed, [Next]_vars PROVE OneListed'
<1>1. CASE ListVAs
  <2>1. snap'.va = va BY <1>1 DEF ListVAs, TypeOK
  <2>2. QED BY <2>1 DEF OneVA, OneListed
<1>2. CASE ~ListVAs BY <1>2, ListedBefore DEF OneListed
<1>3. QED BY <1>1, <1>2

--------------------------------------------------------------------------------
(* Custody.  As long as the tenant strips no finalizer of ours from a          *)
(* VolumeAttachment, a volume in a VM is held by the VA of its slot, or        *)
(* nothing in the guest names it any more and never will.                      *)

Bound == {"pinned", "attached", "deleting"}

VAsKept == "VA" \notin TenantForces

ActiveHeld == \A s \in Slots : Active(s) => va[s] \in Bound

EndingsStay ==
    \A s \in Slots : Unserved(s) /\ snap.va[s] = "deleting" => va[s] = "deleting"

Over(c) ==
    pv[c] = "none" /\ pvc[c] = "gone" /\ \A s \in Slots : s[2] = c => va[s] = "none"

HeldOrOver == \A s \in Slots : Carried(s) => va[s] \in Bound \/ Over(s[2])

ListedCarried ==
    \A s, t \in Slots : s[2] = t[2] /\ Carried(s) /\ snap.va[t] # "none" => s = t

LEMMA ActiveHeldKept ==
    ASSUME VAsKept, TypeOK, ActiveHeld, [Next]_vars PROVE ActiveHeld'
<1> SUFFICES ASSUME NEW s \in Slots, Active(s)' PROVE va'[s] \in Bound
    BY DEF ActiveHeld
<1>0. ~Idle BY EmptySnapFields DEF Idle, Active
<1>1. CASE ListVAs BY <1>1 DEF ListVAs, Active, Bound, guest, TypeOK
<1>2. CASE ~ListVAs
  <2>1. CASE snap'.va[s] # snap.va[s] BY <1>0, <1>2, <2>1, SnapVAWriters DEF Bound
  <2>2. CASE snap'.va[s] = snap.va[s]
    <3>1. Active(s) BY <2>2 DEF Active
    <3>2. va[s] \in Bound BY <3>1 DEF ActiveHeld
    <3>3. ~ReleaseVA(s) /\ ~PinVA(s) BY <3>1 DEF ReleaseVA, PinVA, Active
    <3>4. ~CreateVA(s) /\ ~ForceVA(s) BY <3>2 DEF CreateVA, ForceVA, Bound, VAsKept
    <3>5. WriteVAStatus(s) => va'[s] \in Bound
          BY <3>2 DEF WriteVAStatus, Bound, TypeOK
    <3>6. DeleteVA(s) => va'[s] \in Bound BY <3>2 DEF DeleteVA, Bound, TypeOK
    <3>7. QED BY <1>0, <3>2, <3>3, <3>4, <3>5, <3>6, VAWriters DEF Leave
  <2>3. QED BY <2>1, <2>2
<1>3. QED BY <1>1, <1>2

LEMMA EndingsStayKept ==
    ASSUME VAsKept, TypeOK, EndingsStay, [Next]_vars PROVE EndingsStay'
<1> SUFFICES ASSUME NEW s \in Slots, Unserved(s)', snap'.va[s] = "deleting"
             PROVE  va'[s] = "deleting"
    BY DEF EndingsStay
<1>1. CASE ListVAs BY <1>1 DEF ListVAs, guest, TypeOK
<1>2. CASE ~ListVAs
  <2>1. Unserved(s) /\ ~Idle /\ ~Leave BY <1>2, UnservedBefore
  <2>2. snap.va[s] = "deleting" BY <1>2, <2>1, SnapVAWriters
  <2>3. va[s] = "deleting" BY <2>1, <2>2 DEF EndingsStay
  <2>4. ~ReleaseVA(s) BY DEF ReleaseVA, SlotDone, Unserved
  <2>5. ~WriteVAStatus(s) BY <2>1 DEF WriteVAStatus, Unserved
  <2>6. QED BY <2>1, <2>2, <2>3, <2>4, <2>5, VAWriters
            DEF PinVA, CreateVA, DeleteVA, ForceVA, VAsKept
<1>3. QED BY <1>1, <1>2

(* A VA is released with its volume still in the VM only when the pass found   *)
(* no PV for it: the claim is gone for good.                                   *)
LEMMA ReleasedOut ==
    ASSUME SnapshotTruth, PVListed, SeenVM, CarriedNamed,
           NEW s \in Slots, ReleaseVA(s), Carried(s)
    PROVE  pv[s[2]] = "none" /\ pvc[s[2]] = "gone"
<1>1. ~Active(s) BY DEF ReleaseVA, Active
<1>2. SeenCarried(s) BY <1>1 DEF ReleaseVA, SnapshotTruth, PassTruth, Gathered, LoopPCs
<1>3. ~SeenDetached(s) BY <1>2 DEF SeenVM, SeenDetached
<1>4. s[2] \notin snap.pv BY <1>3 DEF ReleaseVA, VANamed
<1>5. pv[s[2]] = "none" BY <1>4, SlotClaim DEF ReleaseVA, PVListed, LoopPCs
<1>6. QED BY <1>5 DEF CarriedNamed

LEMMA HeldOrOverKept ==
    ASSUME VAsKept, TypeOK, SnapshotTruth, Loops, PVListed, SeenVM, CarriedNamed, OneVA,
           ActiveHeld, HeldOrOver, GoneMeansClean', [Next]_vars
    PROVE  HeldOrOver'
<1> SUFFICES ASSUME NEW s \in Slots, NEW c \in Claims, c = s[2], Carried(s)'
             PROVE  va'[s] \in Bound \/ Over(c)'
    BY SlotClaim DEF HeldOrOver
<1>1. ~Leave BY DEF Leave, GoneMeansClean
<1>2. CASE ~Carried(s)
  <2>1. PlugVA(s) BY <1>2, CarriedWriters DEF SnapshotTruth
  <2>2. va[s] \in Bound BY <2>1 DEF PlugVA, ActiveHeld
  <2>3. QED BY <2>1, <2>2 DEF PlugVA, guest
<1>3. CASE Carried(s) /\ va[s] \in Bound
  <2>1. CASE ReleaseVA(s) /\ va'[s] # va[s]
    <3>1. pv[c] = "none" /\ pvc[c] = "gone" BY <1>3, <2>1, ReleasedOut
    <3>2. va' = [va EXCEPT ![s] = "none"] /\ pv' = pv /\ pvc' = pvc
          BY <2>1 DEF ReleaseVA
    <3>3. ASSUME NEW t \in Slots, t[2] = c PROVE va'[t] = "none"
      <4>1. CASE t = s BY <3>2, <4>1 DEF TypeOK
      <4>2. CASE t # s
        <5>1. va[t] = "none" BY <1>3, <3>3, <4>2 DEF OneVA, Bound
        <5>2. QED BY <3>2, <4>2, <5>1 DEF TypeOK
      <4>3. QED BY <4>1, <4>2
    <3>4. QED BY <3>1, <3>2, <3>3 DEF Over
  <2>2. WriteVAStatus(s) => va'[s] \in Bound BY <1>3 DEF WriteVAStatus, Bound, TypeOK
  <2>3. DeleteVA(s) => va'[s] \in Bound BY <1>3 DEF DeleteVA, Bound, TypeOK
  <2>4. ~CreateVA(s) /\ ~ForceVA(s) BY <1>3 DEF CreateVA, ForceVA, Bound, VAsKept
  <2>5. PinVA(s) => va'[s] \in Bound BY <1>3 DEF PinVA, Bound, TypeOK
  <2>6. QED BY <1>1, <1>3, <2>1, <2>2, <2>3, <2>4, <2>5, VAWriters
<1>4. CASE Carried(s) /\ Over(c)
  <2>1. pvc'[c] = "gone" BY <1>4, PVCWriters DEF Over
  <2>2. pv'[c] = "none"
    <3>1. ~CreatePV(c)
          BY <1>4 DEF CreatePV, Loops, Provisionable, CarriedNamed, Over
    <3>2. QED BY <1>1, <1>4, <3>1, PVWriters DEF TeardownPV, PVVanish, Over
  <2>3. ASSUME NEW t \in Slots, t[2] = c PROVE va'[t] = "none"
        BY <1>4, <2>3, VAGrows DEF CreateVA, Over
  <2>4. QED BY <2>1, <2>2, <2>3 DEF Over
<1>5. QED BY <1>2, <1>3, <1>4 DEF HeldOrOver

LEMMA ListedCarriedKept ==
    ASSUME TypeOK, NoVMNoVolume, OneVA, OneListed, HeldOrOver, ListedCarried, [Next]_vars
    PROVE  ListedCarried'
<1> SUFFICES ASSUME NEW s \in Slots, NEW t \in Slots, s[2] = t[2], Carried(s)',
                    snap'.va[t] # "none"
             PROVE  s = t
    BY DEF ListedCarried
<1>1. CASE ListVAs
  <2>1. snap'.va = va /\ UNCHANGED host BY <1>1 DEF ListVAs, TypeOK
  <2>2. Carried(s) BY <2>1, UnchangedShrinks DEF Shrinks
  <2>3. va[s] \in Bound BY <2>1, <2>2 DEF HeldOrOver, Over
  <2>4. QED BY <2>1, <2>3 DEF OneVA, Bound
<1>2. CASE ~ListVAs
  <2>1. snap.va[t] # "none" BY <1>2, ListedBefore
  <2>2. CASE Carried(s) BY <2>1, <2>2 DEF ListedCarried
  <2>3. CASE ~Carried(s)
    <3>1. PlugVA(s) BY <2>3, CarriedWriters
    <3>2. snap.va[s] # "none" BY <3>1 DEF PlugVA, Active
    <3>3. QED BY <2>1, <3>2 DEF OneListed
  <2>4. QED BY <2>2, <2>3
<1>3. QED BY <1>1, <1>2

LEMMA OneVMKept ==
    ASSUME TypeOK, NoVMNoVolume, OneListed, ListedCarried, OneVM, [Next]_vars
    PROVE  OneVM'
<1> SUFFICES ASSUME NEW s \in Slots, NEW t \in Slots, s[2] = t[2], Carried(s)', Carried(t)'
             PROVE  s = t
    BY DEF OneVM
<1>1. Carried(s) \/ snap.va[s] # "none" BY CarriedWriters DEF PlugVA, Active
<1>2. Carried(t) \/ snap.va[t] # "none" BY CarriedWriters DEF PlugVA, Active
<1>3. QED BY <1>1, <1>2 DEF OneVM, ListedCarried, OneListed

GuestOrder == PVCOrder /\ PVStale /\ CarriedNamed
PassOrder  == SeenVM /\ UnservedSeen /\ QueueShape /\ OneVA /\ OneListed

(* What holds whatever the tenant forces. *)
LEMMA OrderHolds == Spec => [](GuestOrder /\ PassOrder)
<1>1. Init => GuestOrder /\ PassOrder
  <2> SUFFICES ASSUME Init PROVE GuestOrder /\ PassOrder OBVIOUS
  <2>1. /\ snap = EmptySnap /\ pc = "idle" /\ slots = {}
        /\ pv = [c \in Claims |-> "none"] /\ va = [s \in Slots |-> "none"]
        /\ queue = [s \in Slots |-> "none"] /\ \A s \in Slots : ~Carried(s)
        BY DEF Init, Carried, InSpec
  <2>2. GuestOrder
        BY <2>1, EmptySnapFields DEF GuestOrder, PVCOrder, PVStale, CarriedNamed
  <2>3. PassOrder
        BY <2>1, EmptySnapFields DEF PassOrder, SeenVM, UnservedSeen, Unserved, QueueShape,
           OneVA, OneListed, SeenCarried
  <2>4. QED BY <2>2, <2>3
<1>2. TypeOK /\ TypeOK' /\ SnapshotTruth /\ Unread /\ Loops /\ LeaveInv'
      /\ GuestOrder /\ PassOrder /\ [Next]_vars => (GuestOrder /\ PassOrder)'
  <2> SUFFICES ASSUME TypeOK, TypeOK', SnapshotTruth, Unread, Loops, LeaveInv',
                      GuestOrder, PassOrder, [Next]_vars
               PROVE  (GuestOrder /\ PassOrder)'
      OBVIOUS
  <2>1. GuestOrder'
        BY PVCOrderKept, PVStaleKept, CarriedNamedKept DEF GuestOrder, SnapshotTruth, LeaveInv
  <2>2. PassOrder'
        BY SeenVMKept, UnservedSeenKept, QueueShapeKept, OneVAKept, OneListedKept
           DEF PassOrder, SnapshotTruth
  <2>3. QED BY <2>1, <2>2
<1>3. QED BY <1>1, <1>2, TypeCorrect, SnapshotTruthHolds, PassShapeHolds, LeaveInvHolds, PTL
          DEF Spec

CustodyInv == ActiveHeld /\ EndingsStay /\ HeldOrOver /\ ListedCarried /\ OneVM

LEMMA CustodyInvHolds == ASSUME VAsKept PROVE Spec => []CustodyInv
<1>1. Init => CustodyInv
  <2> SUFFICES ASSUME Init PROVE CustodyInv OBVIOUS
  <2>1. snap = EmptySnap /\ \A s \in Slots : ~Carried(s) BY DEF Init, Carried, InSpec
  <2>2. QED BY <2>1, EmptySnapFields
            DEF CustodyInv, ActiveHeld, EndingsStay, HeldOrOver, ListedCarried, OneVM, Active
<1>2. TypeOK /\ SnapshotTruth /\ Loops /\ TeardownInv /\ GuestOrder /\ PassOrder /\ LeaveInv'
      /\ CustodyInv /\ [Next]_vars => CustodyInv'
  <2> SUFFICES ASSUME TypeOK, SnapshotTruth, Loops, TeardownInv, GuestOrder, PassOrder,
                      LeaveInv', CustodyInv, [Next]_vars
               PROVE  CustodyInv'
      OBVIOUS
  <2> USE DEF CustodyInv, GuestOrder, PassOrder
  <2>1. ActiveHeld' BY ActiveHeldKept
  <2>2. EndingsStay' BY EndingsStayKept
  <2>3. HeldOrOver' BY HeldOrOverKept DEF TeardownInv, LeaveInv
  <2>4. ListedCarried' BY ListedCarriedKept DEF SnapshotTruth
  <2>5. OneVM' BY OneVMKept DEF SnapshotTruth
  <2>6. QED BY <2>1, <2>2, <2>3, <2>4, <2>5
<1>3. QED BY <1>1, <1>2, TypeCorrect, SnapshotTruthHolds, PassShapeHolds, TeardownInvHolds,
             OrderHolds, LeaveInvHolds, PTL DEF Spec

(* A volume is in one VM at most, in every state of every pass: whatever fails,*)
(* whichever VM dies or comes back, whatever the guest deletes and asks anew,  *)
(* as long as nobody strips our finalizer off a VolumeAttachment.              *)
THEOREM OneVMHolds == ASSUME "VA" \notin TenantForces PROVE Spec => []OneVM
<1>1. VAsKept BY DEF VAsKept
<1>2. QED BY <1>1, CustodyInvHolds, PTL DEF CustodyInv

(* Under the same condition, a VM that carries the volume of a PV the guest    *)
(* still has carries it under a VolumeAttachment the guest cannot drop.        *)
THEOREM HeldWhileCarriedHolds ==
    ASSUME "VA" \notin TenantForces PROVE Spec => []HeldWhileCarried
<1>1. VAsKept BY DEF VAsKept
<1>2. CustodyInv => HeldWhileCarried
      BY DEF CustodyInv, HeldOrOver, Over, HeldWhileCarried, Bound
<1>3. QED BY <1>1, <1>2, CustodyInvHolds, PTL

--------------------------------------------------------------------------------
(* Readiness.  A host PVC is made for a claim the scheduler has placed, and    *)
(* stays as long as the pass, and the guest, take the claim for a live one.    *)

Early == {"absent", "refused", "pending"}

HostStale ==
    \A c \in Claims :
        /\ pc \notin {"idle"} \cup LeavePCs /\ snap.pvc[c] \in Early
              => hostPVC[c] \in {"none", "foreign"} /\ c \notin snap.host
        /\ snap.pvc[c] = "selected"
              => /\ hostPVC[c] # "terminating"
                 /\ c \in snap.host => hostPVC[c] = "ours"
                 /\ pv[c] # "none" => hostPVC[c] = "ours"

HostFresh ==
    \A c \in Claims :
        /\ pvc[c] \in Early => hostPVC[c] \in {"none", "foreign"} /\ pv[c] = "none"
        /\ tc = "live" /\ pvc[c] = "selected"
              => /\ hostPVC[c] # "terminating"
                 /\ pv[c] # "none" => hostPVC[c] = "ours"

(* A host PVC leaves "ours" only in a pass, or a teardown, that has given the  *)
(* claim up; nothing else makes it terminate.                                  *)
LEMMA HostPVCMoves ==
    ASSUME TypeOK, Unread, Loops, LeaveLists, PVCOrder, HostStale, [Next]_vars,
           NEW c \in Claims, hostPVC'[c] # hostPVC[c]
    PROVE  /\ pvc' = pvc /\ pv' = pv /\ tc' = tc
           /\ \/ /\ hostPVC[c] = "none" /\ hostPVC'[c] = "ours"
                 /\ snap.pvc[c] = "selected" /\ snap'.pvc[c] = "selected"
              \/ /\ hostPVC[c] = "ours" /\ pvc[c] \in {"deleting", "gone"}
                 /\ snap'.pvc[c] = snap.pvc[c] /\ snap.pvc[c] \in {"deleting", "gone"}
              \/ /\ hostPVC[c] = "ours" /\ tc # "live" /\ snap' = snap
                 /\ snap.pvc[c] = "absent" /\ pc' \in LeavePCs
              \/ hostPVC[c] = "terminating" /\ hostPVC'[c] = "none" /\ UNCHANGED pass
<1>1. CASE CreateHostPVC(c)
  <2>1. hostPVC[c] = "none" /\ hostPVC'[c] = "ours" /\ snap.pvc[c] = "selected"
        BY <1>1 DEF CreateHostPVC, TypeOK
  <2>2. snap'.pvc = snap.pvc
    <3>1. snap' = snap \/ snap' = [snap EXCEPT !.host = @ \cup {c}]
          BY <1>1 DEF CreateHostPVC
    <3>2. QED BY <3>1 DEF TypeOK
  <2>3. QED BY <1>1, <2>1, <2>2 DEF CreateHostPVC, guest
<1>2. CASE TeardownHostPVC(c)
  <2>1. hostPVC[c] = "ours" BY <1>2 DEF TeardownHostPVC, DeleteHostPVC, TypeOK
  <2>2. snap.pvc[c] = "deleting" BY <1>2 DEF TeardownHostPVC, Loops, Deleting
  <2>3. snap'.pvc = snap.pvc
    <3>1. snap' = snap \/ snap' = [snap EXCEPT !.host = @ \ {c}]
          BY <1>2 DEF TeardownHostPVC
    <3>2. QED BY <3>1 DEF TypeOK
  <2>4. QED BY <1>2, <2>1, <2>2, <2>3 DEF TeardownHostPVC, PVCOrder, guest
<1>3. CASE DeleteOrphan(c)
  <2>1. hostPVC[c] = "ours" BY <1>3 DEF DeleteOrphan, DeleteHostPVC, TypeOK
  <2>2. c \in snap.host /\ snap.pvc[c] \in {"absent", "gone"} /\ pc = "orphans"
        BY <1>3 DEF DeleteOrphan, Loops, Orphaned
  <2>3. snap.pvc[c] = "gone" BY <2>2 DEF HostStale, Early, LeavePCs
  <2>4. QED BY <1>3, <2>1, <2>3 DEF DeleteOrphan, PVCOrder, guest
<1>4. CASE LeaveDelete(c)
  <2>1. hostPVC[c] = "ours" BY <1>4 DEF LeaveDelete, DeleteHostPVC, TypeOK
  <2>2. pc = "leavePVCs" /\ pc' = pc BY <1>4 DEF LeaveDelete, ClaimDone
  <2>3. tc = "deleting" /\ snap.pvc[c] = "absent" BY <2>2 DEF LeaveLists, Unread, LeavePCs
  <2>4. QED BY <1>4, <2>1, <2>2, <2>3 DEF LeaveDelete, guest, LeavePCs
<1>5. CASE HostPVCVanish(c) BY <1>5 DEF HostPVCVanish, guest, TypeOK
<1>6. QED BY <1>1, <1>2, <1>3, <1>4, <1>5, HostPVCWriters

(* A PV comes only for a claim the pass took for a live one. *)
LEMMA PVComes ==
    ASSUME TypeOK, Loops, HostStale, PVCOrder, [Next]_vars,
           NEW c \in Claims, pv[c] = "none", pv'[c] # "none"
    PROVE  /\ snap.pvc[c] = "selected" /\ pvc[c] \notin Early
           /\ hostPVC[c] = "ours" /\ UNCHANGED <<pvc, tc, host>>
<1>1. CreatePV(c)
      BY PVWriters DEF TeardownPV, PVVanish, Leave, CleanupGuestStorage, guest
<1>2. c \in snap.host /\ snap.pvc[c] \in {"pending", "selected"} /\ pc = "provision"
      BY <1>1 DEF CreatePV, Loops, Provisionable
<1>3. snap.pvc[c] = "selected" BY <1>2 DEF HostStale, Early, LeavePCs
<1>4. QED BY <1>1, <1>2, <1>3 DEF HostStale, PVCOrder, Early, CreatePV

LEMMA HostFreshKept ==
    ASSUME TypeOK, TypeOK', Unread, Loops, LeaveLists, PVCOrder, HostStale, HostFresh,
           [Next]_vars
    PROVE  HostFresh'
<1> SUFFICES ASSUME NEW c \in Claims
             PROVE
        /\ pvc'[c] \in Early => hostPVC'[c] \in {"none", "foreign"} /\ pv'[c] = "none"
        /\ tc' = "live" /\ pvc'[c] = "selected"
              => /\ hostPVC'[c] # "terminating"
                 /\ pv'[c] # "none" => hostPVC'[c] = "ours"
    BY DEF HostFresh
<1>1. CASE pvc'[c] # pvc[c]
  <2>1. /\ hostPVC' = hostPVC /\ pv' = pv
        /\ pvc'[c] \in Early => pvc[c] = "absent"
        /\ pvc'[c] = "selected" => pvc[c] = "pending"
        BY <1>1, PVCWriters DEF host, Early
  <2>2. QED BY <2>1 DEF HostFresh, Early
<1>2. CASE pvc'[c] = pvc[c] /\ hostPVC'[c] # hostPVC[c]
      BY <1>2, HostPVCMoves DEF HostFresh, PVCOrder, Early
<1>3. CASE pvc'[c] = pvc[c] /\ hostPVC'[c] = hostPVC[c]
  <2>1. tc' = "live" => tc = "live" BY TCWriters DEF DeleteTenant, Leave
  <2>2. CASE pv[c] = "none" /\ pv'[c] # "none"
    <3>1. hostPVC[c] = "ours" /\ pvc[c] \notin Early BY <2>2, PVComes
    <3>2. QED BY <1>3, <3>1
  <2>3. CASE ~(pv[c] = "none" /\ pv'[c] # "none") BY <1>3, <2>1, <2>3 DEF HostFresh
  <2>4. QED BY <2>2, <2>3
<1>4. QED BY <1>1, <1>2, <1>3

LEMMA HostStaleKept ==
    ASSUME TypeOK, TypeOK', Unread, Loops, LeaveLists, PVCOrder, HostStale, HostFresh,
           [Next]_vars
    PROVE  HostStale'
<1> SUFFICES ASSUME NEW c \in Claims
             PROVE
        /\ pc' \notin {"idle"} \cup LeavePCs /\ snap'.pvc[c] \in Early
              => hostPVC'[c] \in {"none", "foreign"} /\ c \notin snap'.host
        /\ snap'.pvc[c] = "selected"
              => /\ hostPVC'[c] # "terminating"
                 /\ c \in snap'.host => hostPVC'[c] = "ours"
                 /\ pv'[c] # "none" => hostPVC'[c] = "ours"
    BY DEF HostStale
<1>1. CASE Idle BY <1>1, EmptySnapFields DEF Idle
<1>2. CASE ListPVCs
  <2>1. /\ snap'.pvc = pvc /\ snap'.host = {} /\ tc = "live"
        /\ hostPVC' = hostPVC /\ pv' = pv
        BY <1>2 DEF ListPVCs, Unread, host, guest, TypeOK
  <2>2. QED BY <2>1 DEF HostFresh
<1>3. CASE LeaveListPVCs
  <2>1. snap'.pvc[c] = "absent" /\ pc' = "leaveVMs"
        BY <1>3 DEF LeaveListPVCs, Unread, TypeOK
  <2>2. QED BY <2>1 DEF LeavePCs
<1>4. CASE ~Idle /\ ~ListPVCs /\ ~LeaveListPVCs
  <2>1. snap'.pvc = snap.pvc BY <1>4, SnapLists
  <2>2. pc' \notin {"idle"} \cup LeavePCs => pc \notin {"idle"} \cup LeavePCs
    <3>1. CASE Lists
          BY <1>4, <3>1 DEF Lists, ListPVs, ListVAs, ListHost, ListVMs, ListVMIs,
             LeaveListVMIs, LeavePCs
    <3>2. CASE Stages BY <3>2 DEF Stages, NextStage, SkipApply, Stage, LeavePCs
    <3>3. QED BY <1>4, <3>1, <3>2, PCWriters
  <2>3. CASE hostPVC'[c] # hostPVC[c]
    <3>1. c \in snap'.host => c \in snap.host \/ CreateHostPVC(c)
      <4>1. ListHost => hostPVC' = hostPVC BY DEF ListHost, host
      <4>2. TeardownHostPVC(c) => c \in snap.host BY DEF TeardownHostPVC
      <4>3. QED BY <1>4, <2>3, <4>1, <4>2, SnapHostWriters
    <3>2. QED BY <2>1, <2>2, <2>3, <3>1, HostPVCMoves
              DEF HostStale, Early, CreateHostPVC
  <2>4. CASE hostPVC'[c] = hostPVC[c]
    <3>1. ASSUME c \in snap'.host, c \notin snap.host
          PROVE  /\ snap.pvc[c] \in Early /\ pc \notin {"idle"} \cup LeavePCs => FALSE
                 /\ snap.pvc[c] = "selected" => hostPVC[c] = "ours"
      <4>1. CASE ListHost
        <5>1. hostPVC[c] \in {"ours", "terminating"}
              BY <3>1, <4>1 DEF ListHost, Labelled, TypeOK
        <5>2. QED BY <5>1 DEF HostStale
      <4>2. CASE CreateHostPVC(c)
        <5>1. snap.pvc[c] = "selected" /\ hostPVC[c] # "foreign"
              BY <4>2 DEF CreateHostPVC, Squatted
        <5>2. PICK failed, applied \in BOOLEAN :
                 /\ ~failed => applied
                 /\ hostPVC' = IF applied /\ hostPVC[c] = "none"
                               THEN [hostPVC EXCEPT ![c] = "ours"] ELSE hostPVC
                 /\ snap' = IF failed THEN snap ELSE [snap EXCEPT !.host = @ \cup {c}]
              BY <4>2 DEF CreateHostPVC
        <5>3. ~failed BY <3>1, <5>2
        <5>4. hostPVC[c] # "none" BY <2>4, <5>2, <5>3 DEF TypeOK
        <5>5. QED BY <5>1, <5>4 DEF HostStale, TypeOK, HostStates, Early
      <4>3. ~TeardownHostPVC(c) BY <3>1 DEF TeardownHostPVC
      <4>4. QED BY <1>4, <3>1, <4>1, <4>2, <4>3, SnapHostWriters
    <3>2. pv[c] = "none" /\ pv'[c] # "none" => hostPVC[c] = "ours" BY PVComes
    <3>3. QED BY <2>1, <2>2, <2>4, <3>1, <3>2 DEF HostStale
  <2>5. QED BY <2>3, <2>4
<1>5. QED BY <1>1, <1>2, <1>3, <1>4

(* VolumeAttachments, by what the pass listed of them. *)
VABacked == \A s \in Slots : va[s] # "none" => pv[s[2]] # "none" \/ pvc[s[2]] = "gone"

Unlisted ==
    pc \in {"listHost", "listVMs", "listVMIs"} \cup LoopPCs
        => \A s \in Slots : snap.va[s] = "none" => va[s] \in {"none", "new"}

NewlyListed == \A s \in Slots : snap.va[s] = "new" => ~Carried(s) /\ ~SeenCarried(s)

MortalOnly ==
    /\ Nodes \ Mortal \subseteq vm
    /\ pc \in {"listVMIs"} \cup LoopPCs => Nodes \ Mortal \subseteq snap.vms

LEMMA VABackedKept ==
    ASSUME TypeOK, Loops, VABacked, [Next]_vars PROVE VABacked'
<1> SUFFICES ASSUME NEW s \in Slots, NEW c \in Claims, c = s[2], va'[s] # "none",
                    pv'[c] = "none"
             PROVE  pvc'[c] = "gone"
    BY SlotClaim DEF VABacked
<1>1. pvc[c] = "gone" => pvc'[c] = "gone" BY PVCWriters
<1>2. CASE va[s] = "none"
  <2>1. CreateVA(s) BY <1>2, VAGrows
  <2>2. QED BY <2>1 DEF CreateVA
<1>3. CASE va[s] # "none" /\ pv[c] = "none" BY <1>1, <1>3 DEF VABacked
<1>4. CASE pv[c] # "none"
  <2>1. CASE TeardownPV(c) BY <1>1, <1>4, <2>1 DEF TeardownPV, TypeOK
  <2>2. CASE PVVanish(c) BY <1>1, <2>2 DEF PVVanish
  <2>3. CASE Leave
    <3>1. pvc[c] = "gone" BY <1>4, <2>3 DEF Leave, CleanupGuestStorage, guest
    <3>2. QED BY <1>1, <3>1
  <2>4. CreatePV(c) => pv'[c] # "none" BY <1>4 DEF CreatePV, TypeOK
  <2>5. QED BY <1>4, <2>1, <2>2, <2>3, <2>4, PVWriters
<1>5. QED BY <1>2, <1>3, <1>4

LEMMA UnlistedKept ==
    ASSUME TypeOK, Loops, Unlisted, [Next]_vars PROVE Unlisted'
<1> SUFFICES ASSUME pc' \in {"listHost", "listVMs", "listVMIs"} \cup LoopPCs,
                    NEW s \in Slots, snap'.va[s] = "none"
             PROVE  va'[s] \in {"none", "new"}
    BY DEF Unlisted
<1>0. ~Idle /\ ~Leave BY DEF Idle, Leave, LoopPCs
<1>1. CASE ListVAs BY <1>1 DEF ListVAs, guest, TypeOK
<1>2. CASE ~ListVAs
  <2>1. pc \in {"listHost", "listVMs", "listVMIs"} \cup LoopPCs
    <3>1. CASE Lists
          BY <1>2, <3>1 DEF Lists, ListPVCs, ListPVs, ListVAs, ListHost, ListVMs, ListVMIs,
             LeaveListPVCs, LeaveListVMIs, LoopPCs
    <3>2. CASE ~Lists BY <3>2, PCOrder DEF Lists
    <3>3. QED BY <3>1, <3>2
  <2>2. snap.va[s] = "none" BY <1>0, <1>2, SnapVAWriters
  <2>3. va[s] \in {"none", "new"} BY <2>1, <2>2 DEF Unlisted
  <2>4. ~ReleaseVA(s) /\ ~PinVA(s) /\ ~WriteVAStatus(s)
        BY <2>2 DEF ReleaseVA, PinVA, WriteVAStatus, Loops, Reported
  <2>5. CreateVA(s) \/ DeleteVA(s) \/ ForceVA(s) => va'[s] \in {"none", "new"}
        BY <2>3 DEF CreateVA, DeleteVA, ForceVA, TypeOK
  <2>6. QED BY <1>0, <2>3, <2>4, <2>5, VAWriters
<1>3. QED BY <1>1, <1>2

LEMMA NewlyListedKept ==
    ASSUME TypeOK, NoVMNoVolume, Unread, HeldOrOver, NewlyListed, [Next]_vars
    PROVE  NewlyListed'
<1> SUFFICES ASSUME NEW s \in Slots, snap'.va[s] = "new"
             PROVE  ~Carried(s)' /\ ~SeenCarried(s)'
    BY DEF NewlyListed
<1>0. ~Idle BY EmptySnapFields DEF Idle
<1>1. CASE ListVAs
  <2>1. /\ snap'.va = va /\ snap'.spec = snap.spec /\ snap'.phase = snap.phase
        /\ UNCHANGED host /\ pc = "listVAs"
        BY <1>1 DEF ListVAs, TypeOK
  <2>2. va[s] = "new" BY <2>1
  <2>3. ~Carried(s) BY <2>2 DEF HeldOrOver, Over, Bound
  <2>4. snap.spec = {} /\ snap.phase[s] = "" BY <2>1 DEF Unread, ListPCs
  <2>5. QED BY <2>1, <2>3, <2>4, UnchangedShrinks DEF Shrinks, SeenCarried
<1>2. CASE ~ListVAs
  <2>1. snap.va[s] = "new" BY <1>0, <1>2, SnapVAWriters
  <2>2. ~Carried(s) /\ ~SeenCarried(s) BY <2>1 DEF NewlyListed
  <2>3. ~Carried(s)' BY <2>1, <2>2, CarriedWriters DEF PlugVA, Active
  <2>4. ListVMs => s \notin snap'.spec
        BY <2>2 DEF ListVMs, SeenSpec, Carried, TypeOK
  <2>5. ListVMIs \/ LeaveListVMIs => snap'.phase[s] = ""
    <3>1. ListVMIs \/ LeaveListVMIs => snap'.phase = SeenPhase
          BY DEF ListVMIs, LeaveListVMIs, TypeOK
    <3>2. QED BY <2>2, <3>1 DEF SeenPhase, Carried
  <2>6. QED BY <1>0, <2>2, <2>3, <2>4, <2>5, SnapLists DEF SeenCarried
<1>3. QED BY <1>1, <1>2

LEMMA MortalOnlyKept ==
    ASSUME TypeOK, MortalOnly, [Next]_vars PROVE MortalOnly'
<1>1. Nodes \ Mortal \subseteq vm'
  <2>1. CASE Operator
    <3>1. \/ vm' = vm
          \/ \E n \in Nodes : DeleteVM(n) \/ CreateVM(n)
          BY <2>1 DEF Operator, ToggleOffer, DeleteTenant, HostPVCVanish, host
    <3>2. QED BY <3>1 DEF DeleteVM, CreateVM, MortalOnly
  <2>2. CASE ~Operator
        BY <2>2, StepKinds, ReadersChangeNothing, ClaimStepFrame, SlotStepFrame, KubeVirtFrame,
           TenantFrame DEF MortalOnly, host, vars, Leave
  <2>3. QED BY <2>1, <2>2
<1>2. ASSUME pc' \in {"listVMIs"} \cup LoopPCs PROVE Nodes \ Mortal \subseteq snap'.vms
  <2>0. ~Idle BY <1>2 DEF Idle, LoopPCs
  <2>1. CASE ListVMs BY <2>1 DEF ListVMs, MortalOnly, TypeOK
  <2>2. CASE ~ListVMs
    <3>1. pc \in {"listVMIs"} \cup LoopPCs
      <4>1. CASE Lists
            BY <1>2, <2>2, <4>1 DEF Lists, ListPVCs, ListPVs, ListVAs, ListHost, ListVMs,
               ListVMIs, LeaveListPVCs, LeaveListVMIs, LoopPCs
      <4>2. CASE ~Lists BY <1>2, <4>2, PCOrder DEF Lists
      <4>3. QED BY <4>1, <4>2
    <3>2. QED BY <2>0, <2>2, <3>1, SnapLists DEF MortalOnly
  <2>3. QED BY <2>1, <2>2
<1>3. QED BY <1>1, <1>2 DEF MortalOnly

(* While a VA is there to be served, its volume is not on its way out of a VM  *)
(* that has it, and what the pass saw of it as Ready is Ready.                 *)
Serving(s) ==
    /\ s[1] \notin Mortal /\ pvc[s[2]] # "gone" /\ tc = "live"
    /\ va[s] \in {"new", "pinned", "attached"}

Settled ==
    \A s \in Slots : Serving(s) =>
        /\ queue[s] = "remove" => hostPVC[s[2]] # "ours" /\ phase[s] = ""
        /\ phase[s] # "" => s \in spec

SeenReady ==
    \A s \in Slots : Serving(s) /\ Active(s) /\ snap.phase[s] = "Ready" => phase[s] = "Ready"

(* Nothing becomes served but a VA asked anew. *)
LEMMA ServingBefore ==
    ASSUME TypeOK, Loops, [Next]_vars, NEW s \in Slots, Serving(s)'
    PROVE  /\ s[1] \notin Mortal /\ pvc[s[2]] # "gone" /\ tc = "live"
           /\ ~DeleteVM(s[1]) /\ ~Leave
           /\ Serving(s) \/ (CreateVA(s) /\ va'[s] = "new")
<1>0. s[2] \in Claims BY SlotClaim
<1>1. s[1] \notin Mortal /\ pvc[s[2]] # "gone" BY <1>0, PVCWriters DEF Serving
<1>2. tc = "live" BY TCWriters DEF DeleteTenant, Leave, Serving
<1>3. ~DeleteVM(s[1]) BY <1>1 DEF DeleteVM
<1>4. ~Leave BY DEF Leave, Serving
<1>5. CASE va[s] \in {"new", "pinned", "attached"} BY <1>1, <1>2, <1>3, <1>4, <1>5 DEF Serving
<1>6. CASE va[s] \notin {"new", "pinned", "attached"}
  <2>1. va'[s] # va[s] BY <1>6 DEF Serving
  <2>2. ~WriteVAStatus(s) BY <1>6, <2>1 DEF WriteVAStatus, Loops, Reported
  <2>3. ~ReleaseVA(s)
    <3>1. va' = va \/ va' = [va EXCEPT ![s] = "none"] \/ ~ReleaseVA(s) BY DEF ReleaseVA
    <3>2. va'[s] # "none" BY DEF Serving
    <3>3. QED BY <2>1, <3>1, <3>2 DEF TypeOK
  <2>4. ~PinVA(s) BY <1>6, <2>1 DEF PinVA
  <2>5. CreateVA(s)
    <3>1. ~DeleteVA(s) BY <1>6 DEF DeleteVA
    <3>2. ~ForceVA(s) BY DEF ForceVA, Serving, TypeOK
    <3>3. QED BY <1>4, <2>1, <2>2, <2>3, <2>4, <3>1, <3>2, VAWriters
  <2>6. QED BY <1>1, <1>2, <1>3, <1>4, <2>5 DEF CreateVA, TypeOK
<1>7. QED BY <1>5, <1>6

(* A VA asked anew finds its slot empty. *)
LEMMA AskedOut ==
    ASSUME TypeOK, HeldOrOver, QueueShape, NEW s \in Slots, CreateVA(s)
    PROVE  /\ ~Carried(s) /\ s \notin spec /\ queue[s] = "none" /\ phase[s] = ""
           /\ UNCHANGED <<host, pass, tc>>
<1>1. va[s] = "none" /\ pvc[s[2]] # "gone" BY DEF CreateVA
<1>2. ~Carried(s) BY <1>1 DEF HeldOrOver, Over, Bound
<1>3. QED BY <1>2 DEF CreateVA, Carried, InSpec, QueueShape, TypeOK

(* No step of a pass unplugs from under a VA that is being served, unless the  *)
(* host PVC behind it is gone and the VMI never showed the volume.             *)
LEMMA UnplugsUnserved ==
    ASSUME TypeOK, Unread, Loops, PhaseBacked, LeaveLists, PVCOrder, HostStale, Unlisted,
           EndingsStay, HeldOrOver, NEW s \in Slots, Serving(s), Unplugs(s)
    PROVE  /\ phase[s] = "" /\ hostPVC[s[2]] # "ours"
           /\ UNCHANGED <<hostPVC, phase, spec>>
<1>0. s[2] \in Claims BY SlotClaim
<1>1. ~UnplugVA(s)
      BY DEF UnplugVA, EndingsStay, Unserved, Serving
<1>2. ~AwaitUnplug(s[2])
  <2> SUFFICES ASSUME AwaitUnplug(s[2]) PROVE FALSE OBVIOUS
  <2>1. snap.va[s] = "none" /\ pc = "teardown" BY DEF AwaitUnplug, Attachments, Listed
  <2>2. va[s] = "new" BY <2>1 DEF Unlisted, LoopPCs, Serving
  <2>3. ~Carried(s) BY <2>2 DEF HeldOrOver, Over, Bound
  <2>4. QED BY <2>3 DEF Unplugs, Carried, InSpec
<1>3. ~UnplugOrphan(s[2])
  <2> SUFFICES ASSUME UnplugOrphan(s[2]) PROVE FALSE OBVIOUS
  <2>1. pc = "orphans" /\ s[2] \in snap.host /\ snap.pvc[s[2]] \in {"absent", "gone"}
        BY DEF UnplugOrphan, Loops, Orphaned
  <2>2. snap.pvc[s[2]] = "gone" BY <1>0, <2>1 DEF HostStale, Early, LeavePCs
  <2>3. QED BY <1>0, <2>2 DEF PVCOrder, Serving
<1>4. ~LeaveUnplug(s[2]) BY DEF LeaveUnplug, LeaveLists, LeavePCs, Serving
<1>5. Sweep(s) /\ hostPVC[s[2]] = "none" BY <1>1, <1>2, <1>3, <1>4 DEF Unplugs
<1>6. phase[s] = "" BY <1>5 DEF PhaseBacked
<1>7. QED BY <1>5, <1>6 DEF Sweep, RemoveVolumes

LEMMA SettledKept ==
    ASSUME TypeOK, Unread, Loops, PhaseBacked, LeaveLists, PVCOrder, HostStale, Unlisted,
           VABacked, EndingsStay, HeldOrOver, QueueShape, Settled, [Next]_vars
    PROVE  Settled'
<1> SUFFICES ASSUME NEW s \in Slots, NEW c \in Claims, c = s[2], Serving(s)'
             PROVE  /\ queue'[s] = "remove" => hostPVC'[c] # "ours" /\ phase'[s] = ""
                    /\ phase'[s] # "" => s \in spec'
    BY SlotClaim DEF Settled
<1>1. CASE CreateVA(s) BY <1>1, AskedOut DEF host
<1>2. CASE Serving(s)
  <2>0. /\ queue[s] = "remove" => hostPVC[c] # "ours" /\ phase[s] = ""
        /\ phase[s] # "" => s \in spec
        BY <1>2 DEF Settled
  <2>1. CASE Unplugs(s) BY <1>2, <2>0, <2>1, UnplugsUnserved
  <2>2. CASE PlugVA(s)
    <3>1. queue'[s] \in {queue[s], "add"} /\ UNCHANGED <<hostPVC, phase, spec>>
          BY <2>2 DEF PlugVA, TypeOK
    <3>2. QED BY <2>0, <3>1
  <2>3. CASE ApplyRequest(s)
    <3>1. /\ queue'[s] = "none" /\ phase' = phase /\ hostPVC' = hostPVC
          /\ queue[s] = "remove" \/ s \in spec'
          BY <2>3 DEF ApplyRequest, TypeOK
    <3>2. QED BY <2>0, <3>1
  <2>4. CASE ~Unplugs(s) /\ ~PlugVA(s) /\ ~ApplyRequest(s)
    <3>1. ~DeleteVM(s[1]) BY ServingBefore
    <3>2. queue'[s] = queue[s] BY <2>4, <3>1, QueueWriters
    <3>3. s \in spec' <=> s \in spec BY <2>4, <3>1, SpecWriters
    <3>4. CASE phase'[s] # phase[s]
      <4>1. \/ Plugging(s) /\ hostPVC[c] = "ours" /\ s \in spec
            \/ Ready(s) /\ phase[s] # ""
            \/ phase'[s] = ""
            BY <3>1, <3>4, PhaseWriters DEF Plugging, Ready, LetGo, SetPhase, TypeOK
      <4>2. Plugging(s) \/ Ready(s) => hostPVC' = hostPVC
            BY DEF Plugging, Ready, SetPhase
      <4>3. Plugging(s) \/ Ready(s) \/ LetGo(s) => hostPVC' = hostPVC
            BY DEF Plugging, Ready, LetGo, SetPhase
      <4>4. hostPVC' = hostPVC BY <3>1, <3>4, <4>3, PhaseWriters
      <4>5. QED BY <2>0, <3>2, <3>3, <4>1, <4>4
    <3>5. CASE phase'[s] = phase[s]
      <4>1. hostPVC[c] # "ours" /\ queue[s] = "remove" => hostPVC'[c] # "ours"
        <5> SUFFICES ASSUME hostPVC[c] # "ours", hostPVC'[c] = "ours" PROVE FALSE
            OBVIOUS
        <5>1. hostPVC[c] = "none" /\ snap.pvc[c] = "selected" BY HostPVCMoves
        <5>2. pv[c] = "none" BY <5>1 DEF HostStale
        <5>3. QED BY <1>2, <5>2 DEF VABacked, Serving
      <4>2. QED BY <2>0, <3>2, <3>3, <3>5, <4>1
    <3>6. QED BY <3>4, <3>5
  <2>5. QED BY <2>1, <2>2, <2>3, <2>4
<1>3. QED BY <1>1, <1>2, ServingBefore

(* So what is Ready for a VA that stays stays Ready. *)
LEMMA ReadyStays ==
    ASSUME TypeOK, Loops, Settled, [Next]_vars, NEW s \in Slots, Serving(s), Serving(s)',
           phase[s] = "Ready"
    PROVE  phase'[s] = "Ready" /\ s \in spec /\ s \in spec'
<1>1. s \in spec /\ queue[s] # "remove" BY DEF Settled
<1>2. ~DeleteVM(s[1]) BY ServingBefore
<1>3. phase'[s] = "Ready" BY <1>1, <1>2, PhaseWriters DEF Plugging, Ready, LetGo
<1>4. s \in spec' BY <1>1, <1>2, SpecWriters DEF ApplyRequest, TypeOK
<1>5. QED BY <1>1, <1>3, <1>4

LEMMA SeenReadyKept ==
    ASSUME TypeOK, Unread, Loops, ActiveHeld, NewlyListed, Settled, SeenReady, [Next]_vars
    PROVE  SeenReady'
<1> SUFFICES ASSUME NEW s \in Slots, Serving(s)', Active(s)', snap'.phase[s] = "Ready"
             PROVE  phase'[s] = "Ready"
    BY DEF SeenReady
<1>0. ~Idle BY EmptySnapFields DEF Idle
<1>1. CASE ListVMIs \/ LeaveListVMIs
  <2>1. snap'.phase = SeenPhase /\ phase' = phase
        BY <1>1 DEF ListVMIs, LeaveListVMIs, host, TypeOK
  <2>2. QED BY <2>1 DEF SeenPhase
<1>2. CASE ~ListVMIs /\ ~LeaveListVMIs
  <2>1. snap.phase[s] = "Ready" BY <1>0, <1>2, SnapLists
  <2>2. ~ListVAs BY <2>1 DEF ListVAs, Unread, ListPCs
  <2>3. Active(s)
    <3>1. snap.va[s] # "new" BY <2>1 DEF NewlyListed, SeenCarried
    <3>2. QED BY <1>0, <2>2, <3>1, SnapVAWriters DEF Active
  <2>4. Serving(s) BY <2>3, ServingBefore DEF ActiveHeld, CreateVA, Bound
  <2>5. phase[s] = "Ready" BY <2>1, <2>3, <2>4 DEF SeenReady
  <2>6. QED BY <2>4, <2>5, ReadyStays
<1>3. QED BY <1>1, <1>2

(* The report itself is of a volume this pass saw Ready. *)
LEMMA ReportedReady ==
    ASSUME TypeOK, Loops, SeenReady, NEW s \in Slots, WriteVAStatus(s), Serving(s),
           va'[s] = "attached", va[s] # "attached"
    PROVE  phase[s] = "Ready" /\ UNCHANGED host
<1>1. va'[s] # va[s] OBVIOUS
<1>2. va[s] = snap.va[s] /\ s[1] \in snap.vms /\ s \in Reported
      BY <1>1 DEF WriteVAStatus, Loops, TypeOK
<1>3. snap.va[s] = "pinned" /\ snap.phase[s] = "Ready" BY <1>2 DEF Reported
<1>4. QED BY <1>3 DEF SeenReady, Active, WriteVAStatus

LEMMA AttachedMeansReadyKept ==
    ASSUME TypeOK, Loops, HeldOrOver, Settled, SeenReady, AttachedMeansReady, [Next]_vars
    PROVE  AttachedMeansReady'
<1> SUFFICES ASSUME NEW s \in Slots, Serving(s)', va'[s] = "attached"
             PROVE  s \in spec' /\ phase'[s] = "Ready"
    BY DEF AttachedMeansReady, Serving
<1>1. Serving(s) BY ServingBefore
<1>2. CASE va[s] = "attached"
  <2>1. phase[s] = "Ready" BY <1>1, <1>2 DEF AttachedMeansReady, Serving
  <2>2. QED BY <1>1, <2>1, ReadyStays
<1>3. CASE va[s] # "attached"
  <2>1. WriteVAStatus(s)
    <3>1. CreateVA(s) \/ DeleteVA(s) \/ ForceVA(s) \/ ReleaseVA(s) \/ PinVA(s) => FALSE
          BY <1>3 DEF CreateVA, DeleteVA, ForceVA, ReleaseVA, PinVA, TypeOK
    <3>2. QED BY <1>3, <3>1, VAWriters, ServingBefore
  <2>2. phase[s] = "Ready" BY <1>1, <1>3, <2>1, ReportedReady
  <2>3. QED BY <1>1, <2>2, ReadyStays
<1>4. QED BY <1>2, <1>3

ReadyInv ==
    /\ HostStale /\ HostFresh /\ VABacked /\ Unlisted /\ NewlyListed /\ MortalOnly
    /\ Settled /\ SeenReady /\ AttachedMeansReady

LEMMA ReadyInvInit == Init => ReadyInv
<1> SUFFICES ASSUME Init PROVE ReadyInv OBVIOUS
<1>1. /\ snap = EmptySnap /\ pc = "idle" /\ vm = Nodes
      /\ pvc = [c \in Claims |-> "absent"] /\ pv = [c \in Claims |-> "none"]
      /\ va = [s \in Slots |-> "none"] /\ hostPVC \in [Claims -> {"none", "foreign"}]
      BY DEF Init
<1>2. HostStale /\ HostFresh BY <1>1, EmptySnapFields DEF HostStale, HostFresh
<1>3. VABacked /\ Unlisted /\ NewlyListed
      BY <1>1, EmptySnapFields DEF VABacked, Unlisted, NewlyListed, LoopPCs
<1>4. MortalOnly BY <1>1 DEF MortalOnly, LoopPCs
<1>5. \A s \in Slots : ~Serving(s) /\ va[s] # "attached" BY <1>1 DEF Serving
<1>6. Settled /\ SeenReady /\ AttachedMeansReady
      BY <1>5 DEF Settled, SeenReady, AttachedMeansReady
<1>7. QED BY <1>2, <1>3, <1>4, <1>6 DEF ReadyInv

LEMMA ReadyInvHolds == ASSUME VAsKept PROVE Spec => []ReadyInv
<1>1. Init => ReadyInv BY ReadyInvInit
<1>2. TypeOK /\ TypeOK' /\ SnapshotTruth /\ Unread /\ Loops /\ LeaveInv /\ GuestOrder
      /\ PassOrder /\ CustodyInv /\ ReadyInv /\ [Next]_vars => ReadyInv'
  <2> SUFFICES ASSUME TypeOK, TypeOK', SnapshotTruth, Unread, Loops, LeaveInv, GuestOrder,
                      PassOrder, CustodyInv, ReadyInv, [Next]_vars
               PROVE  ReadyInv'
      OBVIOUS
  <2>0. /\ NoVMNoVolume /\ PhaseBacked /\ LeaveLists /\ PVCOrder /\ QueueShape
        /\ ActiveHeld /\ EndingsStay /\ HeldOrOver
        BY DEF SnapshotTruth, LeaveInv, GuestOrder, PassOrder, CustodyInv
  <2> USE DEF ReadyInv
  <2>1. HostStale' /\ HostFresh' BY <2>0, HostStaleKept, HostFreshKept
  <2>2. VABacked' BY VABackedKept
  <2>3. Unlisted' BY UnlistedKept
  <2>4. NewlyListed' BY <2>0, NewlyListedKept
  <2>5. MortalOnly' BY MortalOnlyKept
  <2>6. Settled' BY <2>0, SettledKept
  <2>7. SeenReady' BY <2>0, SeenReadyKept
  <2>8. AttachedMeansReady' BY <2>0, AttachedMeansReadyKept
  <2>9. QED BY <2>1, <2>2, <2>3, <2>4, <2>5, <2>6, <2>7, <2>8
<1>3. QED BY <1>1, <1>2, TypeCorrect, SnapshotTruthHolds, PassShapeHolds, LeaveInvHolds,
             OrderHolds, CustodyInvHolds, PTL DEF Spec

(* What the guest was told is attached is plugged in and Ready in the VM, and  *)
(* no step of the syncer, of KubeVirt or of the host takes it away while the   *)
(* VA, the claim and the tenant stay and the VM is not replaced.               *)
THEOREM AttachedMeansReadyHolds ==
    ASSUME "VA" \notin TenantForces PROVE Spec => []AttachedMeansReady
<1>1. VAsKept BY DEF VAsKept
<1>2. QED BY <1>1, ReadyInvHolds, PTL DEF ReadyInv

--------------------------------------------------------------------------------
(* The refinement.  VolumeCustody's variables for claim c, as Custody(c) takes *)
(* them from the state, and the steps of StorageSync as steps of the promise.  *)

Disk(c)      == {n \in Nodes : Carried(<<n, c>>)}
DiskReady(c) == {n \in Nodes : phase[<<n, c>>] = "Ready"}
LeaseMap(c)  == [n \in Nodes |-> LeaseOf(va[<<n, c>>])]

LEMMA SlotParts ==
    ASSUME NEW s \in Slots, NEW c \in Claims, s[2] = c
    PROVE  s[1] \in Nodes /\ s = <<s[1], c>>
  BY DEF Slots

LEMMA NodeSlot ==
    ASSUME NEW n \in Nodes, NEW c \in Claims
    PROVE  <<n, c>> \in Slots /\ <<n, c>>[1] = n /\ <<n, c>>[2] = c
  BY DEF Slots

LEMMA HostKeepsDisk ==
    ASSUME UNCHANGED host, NEW c \in Claims
    PROVE  Disk(c)' = Disk(c) /\ DiskReady(c)' = DiskReady(c)
  BY DEF host, Disk, DiskReady, Carried, InSpec

LEMMA LeaseValues ==
    /\ LeaseOf("none") = "none" /\ LeaseOf("new") = "asked" /\ LeaseOf("pinned") = "held"
    /\ LeaseOf("attached") = "attached" /\ LeaseOf("deleting") = "ending"
  BY DEF LeaseOf

(* A write to one VA is a step of one lease. *)
LEMMA LeaseStep ==
    ASSUME TypeOK, NEW s \in Slots, NEW c \in Claims, c = s[2], NEW x,
           va' = [va EXCEPT ![s] = x], UNCHANGED <<pvc, pv, tc, host>>,
           NEW from, LeaseOf(va[s]) \in from
    PROVE  Custody(c)!Lease(s[1], from, LeaseOf(x))
<1>0. s[1] \in Nodes /\ s = <<s[1], c>> BY SlotParts
<1>1. LeaseMap(c)' = [LeaseMap(c) EXCEPT ![s[1]] = LeaseOf(x)]
  <2>1. ASSUME NEW n \in Nodes
        PROVE  va'[<<n, c>>] = IF n = s[1] THEN x ELSE va[<<n, c>>]
        BY <1>0, NodeSlot DEF TypeOK
  <2>2. LeaseMap(c)' = [n \in Nodes |-> LeaseOf(va'[<<n, c>>])] BY DEF LeaseMap
  <2>3. ASSUME NEW n \in Nodes
        PROVE  LeaseOf(va'[<<n, c>>]) = IF n = s[1] THEN LeaseOf(x) ELSE LeaseOf(va[<<n, c>>])
        BY <2>1
  <2>4. LeaseMap(c)' = [n \in Nodes |-> IF n = s[1] THEN LeaseOf(x)
                                        ELSE LeaseOf(va[<<n, c>>])]
        BY <2>2, <2>3
  <2>5. LeaseMap(c) = [n \in Nodes |-> LeaseOf(va[<<n, c>>])] BY DEF LeaseMap
  <2>6. QED BY <1>0, <2>4, <2>5
<1>2. LeaseMap(c)[s[1]] \in from BY <1>0 DEF LeaseMap
<1>3. Disk(c)' = Disk(c) /\ DiskReady(c)' = DiskReady(c) BY HostKeepsDisk
<1>4. ContractOf(c)' = ContractOf(c) BY DEF ContractOf
<1>5. QED BY <1>1, <1>2, <1>3, <1>4 DEF Custody!Lease, LeaseMap, Disk, DiskReady

CustodyFacts ==
    /\ TypeOK /\ SnapshotTruth /\ Unread /\ Loops /\ Foreign /\ LeaveInv /\ TeardownInv
    /\ GuestOrder /\ PassOrder /\ CustodyInv /\ ReadyInv

LEMMA FirmServing ==
    ASSUME NEW s \in Slots, NEW c \in Claims, c = s[2], s[1] \notin Mortal,
           ContractOf(c) = "live", va[s] \in {"new", "pinned", "attached"}
    PROVE  Serving(s)
  BY DEF ContractOf, Serving

(* Every write to a VA, by either side, is one the promise has a name for. *)
LEMMA VAWriteIsStep ==
    ASSUME VAsKept, CustodyFacts, [Next]_vars, ~Leave,
           NEW s \in Slots, NEW c \in Claims, c = s[2], va'[s] # va[s]
    PROVE  Custody(c)!Next
<1>0. s[1] \in Nodes /\ s = <<s[1], c>> BY SlotParts
<1>1. TypeOK BY DEF CustodyFacts
<1>2. CASE CreateVA(s)
  <2>1. va' = [va EXCEPT ![s] = "new"] /\ UNCHANGED <<pvc, pv, tc, host>>
        BY <1>2 DEF CreateVA
  <2>2. \A n \in Nodes : va[<<n, c>>] = "none" BY <1>2, NodeSlot DEF CreateVA
  <2>3. va[s] = "none" BY <1>0, <2>2
  <2>4. LeaseOf(va[s]) \in {"none"} BY <2>3, LeaseValues
  <2>5. Custody(c)!Lease(s[1], {"none"}, "asked") BY <1>1, <2>1, <2>4, LeaseStep, LeaseValues
  <2>6. \A n \in Nodes : LeaseOf(va[<<n, c>>]) = "none" BY <2>2, LeaseValues
  <2>7. Custody(c)!Ask(s[1]) BY <2>5, <2>6 DEF Custody!Ask
  <2>8. QED BY <1>0, <2>7 DEF Custody!Next
<1>3. CASE DeleteVA(s)
  <2>1. UNCHANGED <<pvc, pv, tc, host>> BY <1>3 DEF DeleteVA
  <2>2. CASE va[s] = "new"
    <3>1. va' = [va EXCEPT ![s] = "none"] BY <1>3, <2>2 DEF DeleteVA
    <3>2. LeaseOf(va[s]) \in {"asked"} BY <2>2, LeaseValues
    <3>3. Custody(c)!Lease(s[1], {"asked"}, "none")
          BY <1>1, <2>1, <3>1, <3>2, LeaseStep, LeaseValues
    <3>4. Custody(c)!Withdraw(s[1]) BY <3>3 DEF Custody!Withdraw
    <3>5. QED BY <1>0, <3>4 DEF Custody!Next
  <2>3. CASE va[s] # "new"
    <3>1. va' = [va EXCEPT ![s] = "deleting"] BY <1>3, <2>3 DEF DeleteVA
    <3>2. LeaseOf(va[s]) \in {"held", "attached"} BY <1>3, <2>3, LeaseValues DEF DeleteVA
    <3>3. Custody(c)!Lease(s[1], {"held", "attached"}, "ending")
          BY <1>1, <2>1, <3>1, <3>2, LeaseStep, LeaseValues
    <3>4. Custody(c)!End(s[1]) BY <3>3 DEF Custody!End
    <3>5. QED BY <1>0, <3>4 DEF Custody!Next
  <2>4. QED BY <2>2, <2>3
<1>4. CASE PinVA(s)
  <2>1. va[s] = "new" /\ va' = [va EXCEPT ![s] = "pinned"] /\ UNCHANGED <<pvc, pv, tc, host>>
        BY <1>4 DEF PinVA
  <2>2. LeaseOf(va[s]) \in {"asked"} BY <2>1, LeaseValues
  <2>3. Custody(c)!Lease(s[1], {"asked"}, "held")
        BY <1>1, <2>1, <2>2, LeaseStep, LeaseValues
  <2>4. Custody(c)!Hold(s[1]) BY <2>3 DEF Custody!Hold
  <2>5. QED BY <1>0, <2>4 DEF Custody!Next
<1>5. CASE ReleaseVA(s)
  <2>1. va[s] = "deleting" /\ va' = [va EXCEPT ![s] = "none"]
        /\ UNCHANGED <<pvc, pv, tc, host>>
        BY <1>5 DEF ReleaseVA
  <2>2. LeaseOf(va[s]) \in {"ending"} BY <2>1, LeaseValues
  <2>3. Custody(c)!Lease(s[1], {"ending"}, "none")
        BY <1>1, <2>1, <2>2, LeaseStep, LeaseValues
  <2>4. ContractOf(c) # "over" => s[1] \notin Disk(c)
    <3>1. Carried(s) => pv[c] = "none" /\ pvc[c] = "gone"
          BY <1>5, ReleasedOut DEF CustodyFacts, TeardownInv, PassOrder, GuestOrder
    <3>2. s[1] \in Disk(c) => Carried(s) BY <1>0 DEF Disk
    <3>3. QED BY <3>1, <3>2 DEF ContractOf
  <2>5. Custody(c)!Return(s[1]) BY <2>3, <2>4 DEF Custody!Return, Disk
  <2>6. QED BY <1>0, <2>5 DEF Custody!Next
<1>6. CASE WriteVAStatus(s)
  <2>1. pc = "writeback" /\ s \in Reported /\ va[s] = snap.va[s]
        /\ va' = [va EXCEPT ![s] = IF s[1] \in snap.vms THEN "attached" ELSE "pinned"]
        BY <1>6 DEF WriteVAStatus, CustodyFacts, Loops
  <2>0. UNCHANGED <<pvc, pv, tc, host>> BY <1>6 DEF WriteVAStatus
  <2>2. CASE s[1] \in snap.vms
    <3>1. va[s] = "pinned" /\ snap.va[s] = "pinned" /\ snap.phase[s] = "Ready"
          BY <2>1, <2>2 DEF Reported
    <3>2. LeaseOf(va[s]) \in {"held"} BY <3>1, LeaseValues
    <3>3. va' = [va EXCEPT ![s] = "attached"] BY <2>1, <2>2
    <3>4. Custody(c)!Lease(s[1], {"held"}, "attached")
          BY <1>1, <2>0, <3>2, <3>3, LeaseStep, LeaseValues
    <3>5. s[1] \notin Mortal /\ ContractOf(c) = "live" => s[1] \in DiskReady(c)
      <4> SUFFICES ASSUME s[1] \notin Mortal, ContractOf(c) = "live"
                   PROVE  s[1] \in DiskReady(c)
          OBVIOUS
      <4>1. Serving(s) BY <3>1, FirmServing
      <4>2. phase[s] = "Ready"
            BY <3>1, <4>1 DEF CustodyFacts, ReadyInv, SeenReady, Active
      <4>3. QED BY <1>0, <4>2 DEF DiskReady
    <3>6. Custody(c)!Tell(s[1]) BY <3>4, <3>5 DEF Custody!Tell, Custody!Firm, DiskReady
    <3>7. QED BY <1>0, <3>6 DEF Custody!Next
  <2>3. CASE s[1] \notin snap.vms
    <3>1. ~SeenCarried(s) BY <2>3 DEF CustodyFacts, PassOrder, SeenVM
    <3>2. va[s] = "attached" BY <2>1, <3>1 DEF Reported, SeenCarried
    <3>3. LeaseOf(va[s]) \in {"attached"} BY <3>2, LeaseValues
    <3>4. va' = [va EXCEPT ![s] = "pinned"] BY <2>1, <2>3
    <3>5. Custody(c)!Lease(s[1], {"attached"}, "held")
          BY <1>1, <2>0, <3>3, <3>4, LeaseStep, LeaseValues
    <3>6. s[1] \in Mortal
          BY <1>0, <2>1, <2>3 DEF CustodyFacts, ReadyInv, MortalOnly, LoopPCs
    <3>7. Custody(c)!Retract(s[1]) BY <3>5, <3>6 DEF Custody!Retract
    <3>8. QED BY <1>0, <3>7 DEF Custody!Next
  <2>4. QED BY <2>2, <2>3
<1>7. ~ForceVA(s) BY DEF ForceVA, VAsKept
<1>8. QED BY <1>1, <1>2, <1>3, <1>4, <1>5, <1>6, <1>7, VAWriters

(* The tenant leaves: with every VM clean, and all, or none, of the guest      *)
(* cleanup done.                                                               *)
LEMMA LeaveIsStep ==
    ASSUME CustodyFacts, Leave, NEW c \in Claims
    PROVE  Custody(c)!Next
<1>1. UNCHANGED host /\ tc' = "gone" BY DEF Leave
<1>2. Disk(c) = {}
      BY LeaveIsClean, NodeSlot DEF CustodyFacts, LeaveInv, Disk
<1>3. Disk(c)' = Disk(c) /\ DiskReady(c)' = DiskReady(c) BY <1>1, HostKeepsDisk
<1>4. ContractOf(c)' = "over" BY <1>1 DEF ContractOf
<1>5. CASE UNCHANGED guest
  <2>1. LeaseMap(c)' = LeaseMap(c) BY <1>5 DEF guest, LeaseMap
  <2>2. Custody(c)!Lapse
        BY <1>2, <1>3, <1>4, <2>1 DEF Custody!Lapse, Disk, DiskReady, LeaseMap
  <2>3. QED BY <2>2 DEF Custody!Next
<1>6. CASE CleanupGuestStorage
  <2>1. va' = [s \in Slots |-> CASE va[s] \in {"none", "deleting"} -> "none"
                                 [] OTHER -> "new"]
        BY <1>6 DEF CleanupGuestStorage
  <2>2. ASSUME NEW n \in Nodes
        PROVE  LeaseOf(va'[<<n, c>>])
                 = CASE LeaseOf(va[<<n, c>>]) \in {"none", "ending"} -> "none"
                     [] OTHER -> "asked"
    <3>1. va[<<n, c>>] \in VAStates BY NodeSlot DEF CustodyFacts, TypeOK
    <3>2. va'[<<n, c>>] = IF va[<<n, c>>] \in {"none", "deleting"} THEN "none" ELSE "new"
          BY <2>1, NodeSlot
    <3>3. LeaseOf(va[<<n, c>>]) \in {"none", "ending"}
            <=> va[<<n, c>>] \in {"none", "deleting"}
          BY <3>1, LeaseValues DEF VAStates
    <3>4. QED BY <3>2, <3>3, LeaseValues
  <2>3. LeaseMap(c)' = [n \in Nodes |-> CASE LeaseMap(c)[n] \in {"none", "ending"} -> "none"
                                          [] OTHER -> "asked"]
    <3>1. LeaseMap(c)' = [n \in Nodes |-> LeaseOf(va'[<<n, c>>])] BY DEF LeaseMap
    <3>2. \A n \in Nodes : LeaseMap(c)[n] = LeaseOf(va[<<n, c>>]) BY DEF LeaseMap
    <3>3. QED BY <2>2, <3>1, <3>2
  <2>4. Custody(c)!Depart
        BY <1>2, <1>3, <1>4, <2>3 DEF Custody!Depart, Disk, DiskReady, LeaseMap
  <2>5. QED BY <2>4 DEF Custody!Next
<1>7. QED BY <1>5, <1>6 DEF Leave

(* What else moves the contract only ever ends it; a PV made late finds the    *)
(* volume in no VM.                                                            *)
LEMMA ContractMoveIsStep ==
    ASSUME CustodyFacts, [Next]_vars, ~Leave, NEW c \in Claims, ContractOf(c)' # ContractOf(c),
           \A s \in Slots : s[2] = c => va'[s] = va[s]
    PROVE  Custody(c)!Next
<1>0. TypeOK BY DEF CustodyFacts
<1>1. LeaseMap(c)' = LeaseMap(c)
  <2>1. \A n \in Nodes : va'[<<n, c>>] = va[<<n, c>>] BY NodeSlot
  <2>2. LeaseMap(c)' = [n \in Nodes |-> LeaseOf(va'[<<n, c>>])] BY DEF LeaseMap
  <2>3. QED BY <2>1, <2>2 DEF LeaseMap
<1>2. pvc'[c] # pvc[c] \/ pv'[c] # pv[c] \/ tc' # tc
  <2>1. ContractOf(c)' = CASE tc' = "gone" \/ (pvc'[c] = "gone" /\ pv'[c] = "none") -> "over"
                           [] tc' = "live" /\ pvc'[c] # "gone" -> "live"
                           [] OTHER -> "lapsed"
        BY DEF ContractOf
  <2>2. QED BY <2>1 DEF ContractOf
<1>3. UNCHANGED host
  <2>1. pvc'[c] # pvc[c] => UNCHANGED host BY <1>0, PVCWriters
  <2>2. CreatePV(c) \/ TeardownPV(c) \/ PVVanish(c) => UNCHANGED host
        BY DEF CreatePV, TeardownPV, PVVanish
  <2>3. DeleteTenant => UNCHANGED host BY DEF DeleteTenant
  <2>4. QED BY <1>0, <1>2, <2>1, <2>2, <2>3, PVWriters, TCWriters
<1>4. ContractOf(c)' \in {"lapsed", "over"}
  <2>1. pvc[c] = "gone" => pvc'[c] = "gone" BY <1>0, PVCWriters
  <2>2. tc' = "live" => tc = "live" BY <1>0, TCWriters DEF DeleteTenant
  <2>3. ContractOf(c)' \in {"live", "lapsed", "over"} BY DEF ContractOf
  <2>4. ContractOf(c)' = "live" => tc' = "live" /\ pvc'[c] # "gone" BY DEF ContractOf
  <2>5. tc = "live" /\ pvc[c] # "gone" => ContractOf(c) = "live" BY DEF ContractOf
  <2>6. QED BY <2>1, <2>2, <2>3, <2>4, <2>5
<1>5. ContractOf(c) = "over" => Disk(c) = {}
  <2> SUFFICES ASSUME ContractOf(c) = "over" PROVE Disk(c) = {} OBVIOUS
  <2>1. ContractOf(c)' # "over" BY <1>4
  <2>2. tc' # "gone" /\ (pvc'[c] # "gone" \/ pv'[c] # "none") BY <2>1 DEF ContractOf
  <2>3. tc # "gone"
    <3>1. tc = "gone" => tc' = "gone" BY <1>0, TCWriters DEF DeleteTenant
    <3>2. QED BY <2>2, <3>1
  <2>4. pvc[c] = "gone" /\ pv[c] = "none" BY <2>3 DEF ContractOf
  <2>5. pv'[c] # "none"
    <3>1. pvc'[c] = "gone" BY <1>0, <2>4, PVCWriters
    <3>2. QED BY <2>2, <3>1
  <2>6. snap.pvc[c] = "selected"
        BY <1>0, <2>4, <2>5, PVComes DEF CustodyFacts, ReadyInv, GuestOrder
  <2>7. ASSUME NEW n \in Nodes PROVE ~Carried(<<n, c>>)
        BY <2>4, <2>6, NodeSlot DEF CustodyFacts, GuestOrder, CarriedNamed
  <2>8. QED BY <2>7 DEF Disk
<1>6. Disk(c)' = Disk(c) /\ DiskReady(c)' = DiskReady(c) BY <1>3, HostKeepsDisk
<1>7. Custody(c)!Lapse
      BY <1>1, <1>4, <1>5, <1>6 DEF Custody!Lapse, Disk, DiskReady, LeaseMap
<1>8. QED BY <1>7 DEF Custody!Next

LEMMA GuestKeepsContract ==
    ASSUME UNCHANGED guest, UNCHANGED tc, NEW c \in Claims
    PROVE  LeaseMap(c)' = LeaseMap(c) /\ ContractOf(c)' = ContractOf(c)
  BY DEF guest, LeaseMap, ContractOf

(* A volume goes into a VM: it was in none, and its VA holds it. *)
LEMMA PlugIsStep ==
    ASSUME CustodyFacts, NEW s \in Slots, NEW c \in Claims, c = s[2], PlugVA(s),
           Carried(s)'
    PROVE  Custody(c)!Next
<1>0. s[1] \in Nodes /\ s = <<s[1], c>> BY SlotParts
<1>1. Active(s) /\ UNCHANGED guest /\ tc' = tc /\ spec' = spec /\ phase' = phase
      BY DEF PlugVA
<1>2. \A t \in Slots : t # s => queue'[t] = queue[t]
      BY DEF PlugVA, CustodyFacts, TypeOK
<1>3. ~Carried(s) BY PlugsOut DEF CustodyFacts, PassOrder
<1>4. ASSUME NEW t \in Slots, t[2] = c PROVE ~Carried(t)
      BY <1>1, <1>3, <1>4 DEF CustodyFacts, CustodyInv, ListedCarried, Active
<1>5. Disk(c) = {} BY <1>4, NodeSlot DEF Disk
<1>6. Disk(c)' = {s[1]}
  <2>1. ASSUME NEW n \in Nodes PROVE Carried(<<n, c>>)' <=> n = s[1]
    <3>1. CASE n = s[1] BY <1>0, <3>1
    <3>2. CASE n # s[1]
      <4>1. <<n, c>> # s BY <1>0, <3>2, NodeSlot
      <4>2. ~Carried(<<n, c>>) BY <1>4, NodeSlot
      <4>3. QED BY <1>1, <1>2, <3>2, <4>1, <4>2, NodeSlot DEF Carried, InSpec
    <3>3. QED BY <3>1, <3>2
  <2>2. Disk(c)' = {n \in Nodes : Carried(<<n, c>>)'} BY DEF Disk
  <2>3. QED BY <1>0, <2>1, <2>2
<1>7. DiskReady(c)' = DiskReady(c) BY <1>1 DEF DiskReady
<1>8. LeaseMap(c)[s[1]] \in {"held", "attached", "ending"}
  <2>1. va[s] \in Bound BY <1>1 DEF CustodyFacts, CustodyInv, ActiveHeld
  <2>2. LeaseMap(c)[s[1]] = LeaseOf(va[s]) BY <1>0 DEF LeaseMap
  <2>3. QED BY <2>1, <2>2, LeaseValues DEF Bound
<1>9. Custody(c)!Plug(s[1])
      BY <1>1, <1>5, <1>6, <1>7, <1>8, GuestKeepsContract
         DEF Custody!Plug, Custody!Bound, Disk, DiskReady, LeaseMap
<1>10. QED BY <1>0, <1>9 DEF Custody!Next

(* It becomes visible in the VM that carries it. *)
LEMMA AppearIsStep ==
    ASSUME CustodyFacts, NEW s \in Slots, NEW c \in Claims, c = s[2], Ready(s)
    PROVE  Custody(c)!Next
<1>0. s[1] \in Nodes /\ s = <<s[1], c>> BY SlotParts
<1>1. /\ s \in spec /\ phase[s] = "plugging" /\ phase' = [phase EXCEPT ![s] = "Ready"]
      /\ UNCHANGED <<guest, tc, spec, queue>>
      BY DEF Ready, SetPhase
<1>2. DiskReady(c)' = DiskReady(c) \cup {s[1]}
  <2>1. ASSUME NEW n \in Nodes
        PROVE  phase'[<<n, c>>] = IF n = s[1] THEN "Ready" ELSE phase[<<n, c>>]
        BY <1>0, <1>1, NodeSlot DEF CustodyFacts, TypeOK
  <2>2. DiskReady(c)' = {n \in Nodes : phase'[<<n, c>>] = "Ready"} BY DEF DiskReady
  <2>3. QED BY <1>0, <2>1, <2>2 DEF DiskReady
<1>3. Disk(c)' = Disk(c)
  <2>1. ASSUME NEW n \in Nodes PROVE Carried(<<n, c>>)' <=> Carried(<<n, c>>)
        BY <1>1, NodeSlot DEF Carried, InSpec, CustodyFacts, TypeOK
  <2>2. Disk(c)' = {n \in Nodes : Carried(<<n, c>>)'} BY DEF Disk
  <2>3. QED BY <2>1, <2>2 DEF Disk
<1>4. s[1] \in Disk(c) \ DiskReady(c)
      BY <1>0, <1>1 DEF Disk, DiskReady, Carried, InSpec
<1>5. Custody(c)!Appear(s[1])
      BY <1>1, <1>2, <1>3, <1>4, GuestKeepsContract
         DEF Custody!Appear, Disk, DiskReady, LeaseMap
<1>6. QED BY <1>0, <1>5 DEF Custody!Next

(* How a volume leaves a VM: let go by the VMI, a request applied before the   *)
(* VMI ever showed it, or with the VM.                                         *)
LEMMA OutWriters ==
    ASSUME CustodyFacts, [Next]_vars, NEW s \in Slots, Carried(s), ~Carried(s)'
    PROVE  \/ LetGo(s) /\ s \notin spec
           \/ ApplyRequest(s) /\ phase[s] = ""
           \/ DeleteVM(s[1]) /\ s[1] \in Mortal
<1>0. TypeOK BY DEF CustodyFacts
<1>1. CASE DeleteVM(s[1]) BY <1>1 DEF DeleteVM
<1>2. CASE ~DeleteVM(s[1]) /\ phase[s] # ""
  <2>1. phase'[s] = "" BY DEF Carried
  <2>2. LetGo(s)
        BY <1>0, <1>2, <2>1, PhaseWriters DEF Plugging, Ready, SetPhase, TypeOK
  <2>3. QED BY <2>2 DEF LetGo
<1>3. CASE ~DeleteVM(s[1]) /\ phase[s] = ""
  <2>1. CASE s \in spec
    <3>1. s \notin spec' BY DEF Carried, InSpec
    <3>2. QED BY <1>0, <1>3, <2>1, <3>1, SpecWriters
  <2>2. CASE queue[s] = "add"
    <3>1. queue'[s] # queue[s] BY <2>2 DEF Carried, InSpec
    <3>2. ~PlugVA(s) BY <3>1, <2>2 DEF PlugVA, AddAccepted
    <3>3. QED BY <1>0, <1>3, <2>2, <3>1, <3>2, QueueWriters DEF Unplugs
  <2>3. QED BY <1>3, <2>1, <2>2 DEF Carried, InSpec
<1>4. QED BY <1>1, <1>2, <1>3

(* It leaves the one VM that had it, and never one whose node was told         *)
(* "attached" and whose claim and tenant stay.                                 *)
LEMMA OutIsStep ==
    ASSUME CustodyFacts, [Next]_vars, NEW s \in Slots, NEW c \in Claims, c = s[2],
           Carried(s), ~Carried(s)'
    PROVE  Custody(c)!Next
<1>0. s[1] \in Nodes /\ s = <<s[1], c>> BY SlotParts
<1>1. \/ LetGo(s) /\ s \notin spec
      \/ ApplyRequest(s) /\ phase[s] = ""
      \/ DeleteVM(s[1]) /\ s[1] \in Mortal
      BY OutWriters
<1>2. UNCHANGED guest /\ tc' = tc
      BY <1>1 DEF LetGo, SetPhase, ApplyRequest, DeleteVM
<1>3. ASSUME NEW t \in Slots, t[2] = c PROVE ~Carried(t)'
  <2>1. ~PlugVA(t)
    <3>1. PlugVA(t) => spec' = spec /\ phase' = phase /\ \A r \in Slots :
                         queue'[r] \in {queue[r], "add"}
          BY DEF PlugVA, CustodyFacts, TypeOK
    <3>2. QED BY <3>1 DEF Carried, InSpec
  <2>2. Carried(t)' => Carried(t) BY <2>1, CarriedWriters DEF CustodyFacts, SnapshotTruth
  <2>3. QED BY <1>3, <2>2 DEF CustodyFacts, CustodyInv, OneVM
<1>4. Disk(c)' = {}
  <2>1. Disk(c)' = {n \in Nodes : Carried(<<n, c>>)'} BY DEF Disk
  <2>2. QED BY <1>3, <2>1, NodeSlot
<1>5. DiskReady(c)' = {}
  <2>1. DiskReady(c)' = {n \in Nodes : phase'[<<n, c>>] = "Ready"} BY DEF DiskReady
  <2>2. ASSUME NEW n \in Nodes PROVE phase'[<<n, c>>] # "Ready"
        BY <1>3, NodeSlot DEF Carried
  <2>3. QED BY <2>1, <2>2
<1>6. s[1] \in Disk(c) BY <1>0 DEF Disk
<1>7. LeaseMap(c)[s[1]] = "attached" => s[1] \in Mortal \/ ContractOf(c) # "live"
  <2> SUFFICES ASSUME LeaseMap(c)[s[1]] = "attached", s[1] \notin Mortal,
                      ContractOf(c) = "live"
               PROVE  FALSE
      OBVIOUS
  <2>1. LeaseOf(va[s]) = "attached" BY <1>0 DEF LeaseMap
  <2>2. va[s] = "attached"
        BY <2>1, LeaseValues DEF CustodyFacts, TypeOK, VAStates
  <2>3. tc = "live" /\ pvc[c] # "gone" BY DEF ContractOf
  <2>4. s \in spec /\ phase[s] = "Ready"
        BY <2>2, <2>3 DEF CustodyFacts, ReadyInv, AttachedMeansReady
  <2>5. QED BY <1>1, <2>4
<1>8. Custody(c)!Unplug(s[1])
      BY <1>2, <1>4, <1>5, <1>6, <1>7, GuestKeepsContract
         DEF Custody!Unplug, Custody!Firm, Disk, DiskReady, LeaseMap
<1>9. QED BY <1>0, <1>8 DEF Custody!Next

(* What was Ready and no longer is has left its VM altogether. *)
LEMMA UnreadyOut ==
    ASSUME CustodyFacts, [Next]_vars, NEW s \in Slots, phase[s] = "Ready", phase'[s] # "Ready"
    PROVE  Carried(s) /\ ~Carried(s)'
<1>0. TypeOK /\ Carried(s) BY DEF CustodyFacts, Carried
<1>1. queue[s] # "add" BY DEF CustodyFacts, PassOrder, QueueShape
<1>2. LetGo(s) \/ DeleteVM(s[1])
      BY <1>0, PhaseWriters DEF Plugging, Ready
<1>3. CASE LetGo(s)
      BY <1>0, <1>1, <1>3 DEF LetGo, SetPhase, Carried, InSpec, TypeOK
<1>4. CASE DeleteVM(s[1])
      BY <1>0, <1>4 DEF DeleteVM, Carried, InSpec, TypeOK
<1>5. QED BY <1>0, <1>2, <1>3, <1>4

LEMMA CustodyStep ==
    ASSUME VAsKept, CustodyFacts, [Next]_vars, NEW c \in Claims
    PROVE  [Custody(c)!Next]_(Custody(c)!custody)
<1>0. TypeOK BY DEF CustodyFacts
<1>1. CASE Leave BY <1>1, LeaveIsStep
<1>2. CASE ~Leave /\ \E s \in Slots : s[2] = c /\ va'[s] # va[s]
      BY <1>2, VAWriteIsStep
<1>3. CASE /\ ~Leave /\ \A s \in Slots : s[2] = c => va'[s] = va[s]
           /\ ContractOf(c)' # ContractOf(c)
      BY <1>3, ContractMoveIsStep
<1>4. CASE \E s \in Slots : s[2] = c /\ ~Carried(s) /\ Carried(s)'
  <2>1. PICK s \in Slots : s[2] = c /\ ~Carried(s) /\ Carried(s)' BY <1>4
  <2>2. PlugVA(s) BY <1>0, <2>1, CarriedWriters DEF CustodyFacts, SnapshotTruth
  <2>3. QED BY <2>1, <2>2, PlugIsStep
<1>5. CASE \E s \in Slots : s[2] = c /\ Carried(s) /\ ~Carried(s)' BY <1>5, OutIsStep
<1>6. CASE \E s \in Slots : s[2] = c /\ ~(phase'[s] = "Ready" <=> phase[s] = "Ready")
  <2>1. PICK s \in Slots : s[2] = c /\ ~(phase'[s] = "Ready" <=> phase[s] = "Ready")
        BY <1>6
  <2>2. CASE phase[s] = "Ready" BY <2>1, <2>2, UnreadyOut, OutIsStep
  <2>3. CASE phase'[s] = "Ready"
    <3>1. Ready(s)
          BY <1>0, <2>1, <2>3, PhaseWriters
             DEF Plugging, LetGo, DeleteVM, SetPhase, TypeOK
    <3>2. QED BY <2>1, <3>1, AppearIsStep
  <2>4. QED BY <2>1, <2>2, <2>3
<1>7. CASE /\ \A s \in Slots : s[2] = c =>
                 /\ va'[s] = va[s] /\ (Carried(s)' <=> Carried(s))
                 /\ phase'[s] = "Ready" <=> phase[s] = "Ready"
           /\ ContractOf(c)' = ContractOf(c)
  <2>1. LeaseMap(c)' = LeaseMap(c)
    <3>1. \A n \in Nodes : va'[<<n, c>>] = va[<<n, c>>] BY <1>7, NodeSlot
    <3>2. LeaseMap(c)' = [n \in Nodes |-> LeaseOf(va'[<<n, c>>])] BY DEF LeaseMap
    <3>3. QED BY <3>1, <3>2 DEF LeaseMap
  <2>2. Disk(c)' = Disk(c)
    <3>1. Disk(c)' = {n \in Nodes : Carried(<<n, c>>)'} BY DEF Disk
    <3>2. QED BY <1>7, <3>1, NodeSlot DEF Disk
  <2>3. DiskReady(c)' = DiskReady(c)
    <3>1. DiskReady(c)' = {n \in Nodes : phase'[<<n, c>>] = "Ready"} BY DEF DiskReady
    <3>2. QED BY <1>7, <3>1, NodeSlot DEF DiskReady
  <2>4. QED BY <1>7, <2>1, <2>2, <2>3 DEF Custody!custody, Disk, DiskReady, LeaseMap
<1>8. QED BY <1>1, <1>2, <1>3, <1>4, <1>5, <1>6, <1>7

LEMMA CustodyFactsHold == ASSUME VAsKept PROVE Spec => []CustodyFacts
  BY TypeCorrect, SnapshotTruthHolds, PassShapeHolds, ForeignHolds, LeaveInvHolds,
     TeardownInvHolds, OrderHolds, CustodyInvHolds, ReadyInvHolds, PTL DEF CustodyFacts

LEMMA CustodyInit == ASSUME Init, NEW c \in Claims PROVE Custody(c)!Init
<1>1. /\ tc = "live" /\ pvc[c] = "absent"
      /\ \A n \in Nodes : /\ va[<<n, c>>] = "none" /\ phase[<<n, c>>] = ""
                          /\ ~Carried(<<n, c>>)
      BY NodeSlot DEF Init, Carried, InSpec
<1>2. Disk(c) = {} /\ DiskReady(c) = {} BY <1>1 DEF Disk, DiskReady
<1>3. LeaseMap(c) = [n \in Nodes |-> "none"] BY <1>1, LeaseValues DEF LeaseMap
<1>4. ContractOf(c) = "live" BY <1>1 DEF ContractOf
<1>5. QED BY <1>2, <1>3, <1>4 DEF Custody!Init, Disk, DiskReady, LeaseMap

(* Every step of the passes, the tenant, KubeVirt and the host is, for every   *)
(* claim, a step of the custody promise or leaves it alone.                    *)
THEOREM CustodyKeptHolds == ASSUME "VA" \notin TenantForces PROVE Spec => CustodyKept
<1>1. VAsKept BY DEF VAsKept
<1>2. CustodyFacts /\ [Next]_vars
      => [\A c \in Claims : [Custody(c)!Next]_(Custody(c)!custody)]_vars
      BY <1>1, CustodyStep
<1>3. QED BY <1>1, <1>2, CustodyFactsHold, PTL DEF Spec, CustodyKept

(* So StorageSync implements VolumeCustody, for each of its claims.            *)
THEOREM CustodyImplemented ==
    ASSUME "VA" \notin TenantForces, NEW c \in Claims PROVE Spec => Custody(c)!Spec
<1>1. VAsKept BY DEF VAsKept
<1>2. Init => Custody(c)!Init BY CustodyInit
<1>3. CustodyFacts /\ [Next]_vars => [Custody(c)!Next]_(Custody(c)!custody)
      BY <1>1, CustodyStep
<1>4. QED BY <1>1, <1>2, <1>3, CustodyFactsHold, PTL DEF Spec, Custody!Spec
===============================================================================
