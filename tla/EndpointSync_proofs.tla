-------------------------- MODULE EndpointSync_proofs --------------------------
(***************************************************************************)
(* Proofs about EndpointSync, for any finite set of objects, any backends, *)
(* limits and shapes and any bounds: the types, what pruning, releasing    *)
(* and the address limit rest on, and what the limit's loop computes.      *)
(***************************************************************************)
EXTENDS EndpointSync, FiniteSetTheorems, WellFoundedInduction, TLAPS

GuestStates == {"absent", "live", "deleting"}
HostStates  == {"none", "published", "backend", "foreign"}

SnapType ==
    [obj : [Objects -> GuestStates], shape : [Objects -> Shapes \cup {"good"}],
     born : [Objects -> 0..MaxEdits], pin : SUBSET Objects, limit : Limits \cup {0},
     off : SUBSET Objects, hidden : SUBSET Objects]

LEMMA Bounds == MaxEdits \in Nat /\ MaxFaults \in Nat /\ MaxMisreads \in Nat
  BY EndpointAssumption

LEMMA EmptySnapTyped == EmptySnap \in SnapType
<1>1. [o \in Objects |-> "absent"] \in [Objects -> GuestStates] BY DEF GuestStates
<1>2. [o \in Objects |-> "good"] \in [Objects -> Shapes \cup {"good"}] OBVIOUS
<1>3. [o \in Objects |-> 0] \in [Objects -> 0..MaxEdits] BY Bounds
<1>4. QED BY <1>1, <1>2, <1>3 DEF EmptySnap, SnapType

LEMMA SnapTyped == TypeOK => snap \in SnapType
  BY DEF TypeOK, SnapType, GuestStates

(* A call, failing or not, keeps the count of faults within its bound. *)
LEMMA FaultTyped ==
    ASSUME TypeOK, NEW failed \in BOOLEAN, Fault(failed)
    PROVE  faults' \in 0..MaxFaults /\ misreads' \in 0..MaxMisreads
  BY Bounds DEF Fault, TypeOK

LEMMA InitTypeOK == Init => TypeOK
<1> SUFFICES ASSUME Init PROVE TypeOK OBVIOUS
<1>1. snap \in SnapType BY EmptySnapTyped DEF Init
<1>2. born \in [Objects -> 0..MaxEdits] BY Bounds DEF Init
<1>3. clock \in 0..MaxEdits /\ faults \in 0..MaxFaults /\ misreads \in 0..MaxMisreads
  <2>1. clock = 0 /\ faults = 0 /\ misreads = 0 BY DEF Init
  <2>2. QED BY <2>1, Bounds
<1>4. host \in [Objects -> {"none", "published", "backend", "foreign"}] BY DEF Init
<1>5. pc \in PCs BY DEF Init, PCs
<1>6. obj \in [Objects -> GuestStates] /\ shape \in [Objects -> Shapes \cup {"good"}]
      BY DEF Init, GuestStates
<1>7. QED BY <1>1, <1>2, <1>3, <1>4, <1>5, <1>6 DEF Init, TypeOK, SnapType, GuestStates

(* What a pass makes of its lists are objects. *)
LEMMA Derived ==
    /\ Claims \subseteq Endpoints /\ Endpoints \subseteq Objects
    /\ Needed \subseteq Objects /\ Routed \subseteq Objects /\ Owned \subseteq Objects
    /\ OverLimit \subseteq Claims /\ Unfit \subseteq Objects
<1>1. Claims \subseteq Endpoints /\ Endpoints \subseteq Objects
      BY DEF Claims, Endpoints, Objects
<1>2. Needed \subseteq Objects
  <2>1. \A r \in Routers : Backends[r] \subseteq Objects
        BY EndpointAssumption DEF Objects
  <2>2. QED BY <2>1 DEF Needed, Accepted, Routed
<1>3. QED BY <1>1, <1>2 DEF Routed, Owned, OverLimit, Unfit, Objects

LEMMA ListTyped ==
    ASSUME TypeOK, NEW kind \in SUBSET Objects, NEW from, NEW to, List(kind, from, to)
    PROVE  snap' \in SnapType /\ stale' \subseteq Objects
<1> DEFINE o1 == [o \in Objects |-> IF o \in kind THEN obj[o] ELSE snap.obj[o]]
           s1 == [o \in Objects |-> IF o \in kind THEN shape[o] ELSE snap.shape[o]]
           b1 == [o \in Objects |-> IF o \in kind THEN born[o] ELSE snap.born[o]]
<1>1. snap' = [snap EXCEPT !.obj = o1, !.shape = s1, !.born = b1,
                           !.pin = @ \cup (pinned \cap kind)]
      BY DEF List
<1>2. o1 \in [Objects -> GuestStates] BY DEF TypeOK, GuestStates
<1>3. s1 \in [Objects -> Shapes \cup {"good"}] BY DEF TypeOK
<1>4. b1 \in [Objects -> 0..MaxEdits] BY DEF TypeOK
<1>5. snap.pin \cup (pinned \cap kind) \subseteq Objects BY DEF TypeOK
<1>6. snap' \in SnapType
  <2> HIDE DEF o1, s1, b1
  <2>1. snap \in SnapType BY SnapTyped
  <2>2. QED BY <2>1, <1>1, <1>2, <1>3, <1>4, <1>5 DEF SnapType
<1>7. stale' \subseteq Objects BY DEF List, TypeOK
<1>8. QED BY <1>6, <1>7

LEMMA BeginTyped ==
    ASSUME TypeOK, Begin
    PROVE  snap' \in SnapType /\ faults' \in 0..MaxFaults /\ misreads' \in 0..MaxMisreads
<1>1. PICK failed \in BOOLEAN :
         /\ Fault(failed)
         /\ snap' = [snap EXCEPT !.limit = limit, !.off = off,
                                 !.hidden = IF failed THEN Gateways \cup Routes ELSE {}]
      BY DEF Begin
<1>2. limit \in Limits \cup {0} /\ off \subseteq Objects BY EndpointAssumption DEF TypeOK
<1>3. (IF failed THEN Gateways \cup Routes ELSE {}) \subseteq Objects
      BY EndpointAssumption DEF Objects
<1>4. snap \in SnapType BY SnapTyped
<1>5. snap' \in SnapType BY <1>1, <1>2, <1>3, <1>4 DEF SnapType
<1>6. QED BY <1>1, <1>5, FaultTyped

(* Steps that move a pass on keep every variable typed. *)
LEMMA StageTypeOK ==
    ASSUME TypeOK,
           \/ Begin \/ ListServices \/ ListRouters \/ ListGateways
           \/ Admit \/ Apply \/ SkipApply \/ Prune \/ Release \/ WriteBack \/ Refusals \/ EndPass \/ Abort
           \/ \E kind \in Kinds : PruneListFails(kind)
    PROVE  TypeOK'
<1> USE DEF TypeOK, PCs, guest, world, plan, counts
<1>1. CASE ListServices \/ ListRouters \/ ListGateways
  <2>1. PICK kind \in SUBSET Objects, from \in PCs, to \in PCs : List(kind, from, to)
        BY <1>1 DEF ListServices, ListRouters, ListGateways, Objects
  <2>2. snap' \in SnapType /\ stale' \subseteq Objects BY <2>1, ListTyped
  <2>3. left' \subseteq Objects
    <3>1. Claims' \subseteq Endpoints /\ Endpoints \subseteq Objects
          BY DEF Claims, Endpoints, Objects
    <3>2. QED BY <1>1, <3>1 DEF ListServices, ListRouters, ListGateways
  <2>4. pc' = "exists" => left' \subseteq Endpoints
    <3>1. Claims' \subseteq Endpoints BY DEF Claims
    <3>2. QED BY <1>1, <3>1 DEF ListServices, ListRouters, ListGateways, List
  <2>5. QED BY <2>1, <2>2, <2>3, <2>4 DEF List, SnapType, GuestStates
<1>2. CASE Admit
  <2>1. Claims \subseteq Objects /\ Needed \subseteq Objects /\ Routed \subseteq Objects
        /\ OverLimit \subseteq Objects /\ Unfit \subseteq Objects BY Derived
  <2>2. publish' \subseteq Objects /\ want' \subseteq Objects /\ refused' \subseteq Objects
        BY <1>2, <2>1 DEF Admit, BackendsLeft, Refused
  <2>3. desired' \subseteq Objects /\ left' \subseteq Objects BY <1>2, <2>2 DEF Admit
  <2>4. QED BY <1>2, <2>2, <2>3 DEF Admit
<1>3. CASE Apply BY <1>3 DEF Apply, Stage
<1>4. CASE SkipApply
  <2>1. faults' \in 0..MaxFaults /\ misreads' \in 0..MaxMisreads
        BY <1>4, FaultTyped DEF SkipApply
  <2>2. QED BY <1>4, <2>1, Derived DEF SkipApply, Stage, Surplus
<1>5. CASE Prune BY <1>5, Derived DEF Prune, Stage, Surplus
<1>6. CASE Release \/ WriteBack
      BY <1>6 DEF Release, WriteBack, Stage, Releasable, Seen
<1>7. CASE Refusals BY <1>7 DEF Refusals, Stage
<1>8. CASE EndPass
      BY <1>8, EmptySnapTyped DEF EndPass, EndOfPass, SnapType, GuestStates
<1>9. CASE Abort
  <2>1. faults' \in 0..MaxFaults /\ misreads' \in 0..MaxMisreads
        BY <1>9, FaultTyped DEF Abort
  <2>2. QED BY <1>9, <2>1, EmptySnapTyped DEF Abort, EndOfPass, SnapType, GuestStates
<1>10. ASSUME NEW kind \in Kinds, PruneListFails(kind) PROVE TypeOK'
  <2>1. faults' \in 0..MaxFaults /\ misreads' \in 0..MaxMisreads
        BY <1>10, FaultTyped DEF PruneListFails
  <2>2. QED BY <1>10, <2>1, Derived DEF PruneListFails, Stage, Surplus
<1>11. CASE Begin BY <1>11, BeginTyped DEF Begin, SnapType, GuestStates
<1>12. QED BY <1>1, <1>2, <1>3, <1>4, <1>5, <1>6, <1>7, <1>8, <1>9, <1>10, <1>11

(* So does a step for one object of a loop. *)
LEMMA ObjectStepTypeOK ==
    ASSUME TypeOK, NEW o \in Objects, ObjectStep(o)
    PROVE  TypeOK'
<1> USE DEF TypeOK, guest, world, plan, counts
<1>1. CASE ReadClaim(o)
  <2>1. misreads' \in 0..MaxMisreads BY <1>1, Bounds DEF ReadClaim
  <2>2. existing' \subseteq Endpoints /\ left' \subseteq left BY <1>1 DEF ReadClaim
  <2>3. QED BY <1>1, <2>1, <2>2 DEF ReadClaim
<1>2. CASE PinObject(o)
  <2>1. faults' \in 0..MaxFaults /\ misreads' \in 0..MaxMisreads
        BY <1>2, FaultTyped DEF PinObject
  <2>2. pinned' \subseteq Objects /\ left' \subseteq Objects BY <1>2 DEF PinObject
  <2>3. QED BY <1>2, <2>1, <2>2 DEF PinObject
<1>3. CASE ApplyCreate(o) \/ ApplyUpdate(o)
  <2>1. faults' \in 0..MaxFaults /\ misreads' \in 0..MaxMisreads
        BY <1>3, FaultTyped DEF ApplyCreate, ApplyUpdate
  <2>2. host' \in [Objects -> {"none", "published", "backend", "foreign"}]
        BY <1>3 DEF ApplyCreate, ApplyUpdate, Wanted
  <2>3. left' \subseteq Objects /\ read' \subseteq Objects /\ refused' \subseteq Objects
        /\ addr' \subseteq Objects
        BY <1>3 DEF ApplyCreate, ApplyUpdate, RefusedByHost
  <2>4. QED BY <1>3, <2>1, <2>2, <2>3 DEF ApplyCreate, ApplyUpdate
<1>4. CASE ApplyCollision(o) BY <1>4 DEF ApplyCollision
<1>5. CASE PruneObject(o)
  <2>1. faults' \in 0..MaxFaults /\ misreads' \in 0..MaxMisreads
        BY <1>5, FaultTyped DEF PruneObject
  <2>2. host' \in [Objects -> {"none", "published", "backend", "foreign"}]
        BY <1>5 DEF PruneObject
  <2>3. blocked' \in BOOLEAN BY <1>5 DEF PruneObject
  <2>4. QED BY <1>5, <2>1, <2>2, <2>3 DEF PruneObject
<1>6. CASE ReleaseObject(o)
  <2>1. faults' \in 0..MaxFaults /\ misreads' \in 0..MaxMisreads
        BY <1>6, FaultTyped DEF ReleaseObject
  <2>2. obj' \in [Objects -> {"absent", "live", "deleting"}]
        /\ pinned' \subseteq Objects /\ shown' \subseteq Objects /\ told' \subseteq Objects
        /\ shape' = shape /\ born' = born
        BY <1>6 DEF ReleaseObject, Unpin
  <2>3. QED BY <1>6, <2>1, <2>2 DEF ReleaseObject
<1>7. CASE WriteAddress(o)
  <2>1. faults' \in 0..MaxFaults /\ misreads' \in 0..MaxMisreads
        BY <1>7, FaultTyped DEF WriteAddress
  <2>2. shown' \subseteq Objects /\ told' \subseteq Objects BY <1>7 DEF WriteAddress
  <2>3. QED BY <1>7, <2>1, <2>2 DEF WriteAddress
<1>8. CASE WriteRefusal(o)
  <2>1. faults' \in 0..MaxFaults /\ misreads' \in 0..MaxMisreads
        BY <1>8, FaultTyped DEF WriteRefusal
  <2>2. told' \subseteq Objects BY <1>8 DEF WriteRefusal
  <2>3. QED BY <1>8, <2>1, <2>2 DEF WriteRefusal
<1>9. QED BY <1>1, <1>2, <1>3, <1>4, <1>5, <1>6, <1>7, <1>8 DEF ObjectStep

(* The tenant's writes, the operator's and the host's. *)
LEMMA OutsideTypeOK == TypeOK /\ (Tenant \/ Host) => TypeOK'
<1> SUFFICES ASSUME TypeOK, Tenant \/ Host PROVE TypeOK' OBVIOUS
<1> USE DEF TypeOK, guest, world, plan, pass, counts
<1>1. Tick => clock' \in 0..MaxEdits BY Bounds DEF Tick
<1>2. ASSUME NEW o \in Objects, Create(o) PROVE TypeOK'
  <2>1. clock' \in 0..MaxEdits /\ stale' \subseteq Objects BY <1>1, <1>2 DEF Create, Edit
  <2>2. shape' \in [Objects -> Shapes \cup {"good"}] BY <1>2 DEF Create, ShapesOf
  <2>3. QED BY <1>2, <2>1, <2>2 DEF Create, Edit
<1>3. ASSUME NEW o \in Objects, Reshape(o) PROVE TypeOK'
  <2>1. clock' \in 0..MaxEdits /\ stale' \subseteq Objects BY <1>1, <1>3 DEF Reshape, Edit
  <2>2. shape' \in [Objects -> Shapes \cup {"good"}] BY <1>3 DEF Reshape, ShapesOf
  <2>3. QED BY <1>3, <2>1, <2>2 DEF Reshape, Edit
<1>4. ASSUME NEW o \in Objects, Delete(o) \/ ForceDelete(o) PROVE TypeOK'
  <2>1. clock' \in 0..MaxEdits /\ stale' \subseteq Objects
        BY <1>1, <1>4 DEF Delete, ForceDelete, Edit
  <2>2. obj' \in [Objects -> {"absent", "live", "deleting"}]
        /\ pinned' \subseteq Objects /\ shown' \subseteq Objects /\ told' \subseteq Objects
        /\ shape' = shape /\ born' = born
        BY <1>4 DEF Delete, ForceDelete, Gone
  <2>3. QED BY <1>4, <2>1, <2>2 DEF Delete, ForceDelete, Edit
<1>5. CASE SetLimit \/ SetSync BY <1>1, <1>5 DEF SetLimit, SetSync
<1>6. ASSUME NEW o \in Objects, Allocate(o) PROVE TypeOK' BY <1>6 DEF Allocate
<1>7. QED BY <1>2, <1>3, <1>4, <1>5, <1>6 DEF Tenant, Host

(* The variables keep their types: what a pass plans and works through is      *)
(* always made of the tenant's objects.                                        *)
THEOREM TypeCorrect == Spec => []TypeOK
<1>1. TypeOK /\ [Next]_vars => TypeOK'
  <2> SUFFICES ASSUME TypeOK, [Next]_vars PROVE TypeOK' OBVIOUS
  <2>1. CASE Syncer \/ Abort BY <2>1, StageTypeOK, ObjectStepTypeOK DEF Syncer
  <2>2. CASE Tenant \/ Host BY <2>2, OutsideTypeOK
  <2>3. CASE UNCHANGED vars
        BY <2>3 DEF vars, guest, world, pass, plan, counts, TypeOK
  <2>4. QED BY <2>1, <2>2, <2>3 DEF Next
<1>2. QED BY InitTypeOK, <1>1, PTL DEF Spec

--------------------------------------------------------------------------------
(* What a pass knows while it works: the strengthening the properties rest on. *)
Planned == {"pin", "apply", "prune"}

(* What the pass may not see it has not listed either. *)
HiddenTruth ==
    /\ snap.hidden \subseteq Gateways \cup Routes
    /\ snap.pin \cap snap.hidden = {}
    /\ pc \in {"idle", "listServices"} => snap.pin = {}

(* Once the plan is made, what it wants is desired, but for the collisions. *)
PlanTruth ==
    /\ desired \subseteq want /\ publish \subseteq want
    /\ \A o \in read : host[o] # "foreign"
    /\ pc \in Planned => /\ Needed \subseteq want
                         /\ \A o \in want \ desired : host[o] = "foreign"

(* What pruning has left to delete is owned and unwanted, and all of it unless *)
(* a list failed; what is hidden it neither deletes nor releases.              *)
PruneTruth ==
    /\ pc = "prune" => /\ left \subseteq Owned /\ left \cap desired = {}
                       /\ ~blocked => Owned \subseteq desired \cup snap.hidden \cup left
    /\ PassClean
    /\ pc = "release" => /\ left \cap want = {} /\ left \cap snap.hidden = {}
                         /\ left # {} => ~blocked

PassInv == HiddenTruth /\ PlanTruth /\ PruneTruth

(* No claim published on the host is overlooked when the limit is applied. *)
LimitTruth ==
    /\ pc = "exists" => \A o \in Claims \ left : host[o] = "published" => o \in existing
    /\ pc \in Planned => \A o \in Claims : host[o] = "published" => o \in publish

LEMMA SnapFrame == snap' = snap => Needed' = Needed /\ Claims' = Claims
  BY DEF Needed, Routed, Accepted, Usable, Claims, Listed, InScope

LEMMA HostFrame == host' = host => Owned' = Owned
  BY DEF Owned

Quiet == UNCHANGED <<pc, snap, host, desired, want, publish, read, existing, blocked>>

(* A step that leaves the plan and the host alone keeps what the pass knows. *)
LEMMA QuietKeeps ==
    ASSUME PassInv, Quiet,
           left' = left \/ (pc \in {"exists", "pin", "apply", "status", "refusals"})
                        \/ (pc = "release" /\ left' \subseteq left)
    PROVE  PassInv'
<1> USE DEF Quiet
<1>1. Needed' = Needed /\ Owned' = Owned BY SnapFrame, HostFrame
<1>2. PlanTruth' BY <1>1 DEF PassInv, PlanTruth, Planned
<1>3. PruneTruth' BY <1>1 DEF PassInv, PruneTruth, PassClean
<1>4. HiddenTruth' BY DEF PassInv, HiddenTruth
<1>5. QED BY <1>2, <1>3, <1>4 DEF PassInv

LEMMA OutsideQuiet == Tenant \/ Host \/ UNCHANGED vars =>
    Quiet /\ left' = left /\ UNCHANGED misreads
  BY DEF Tenant, Host, Create, Reshape, Delete, ForceDelete, Edit, SetLimit, SetSync,
         Allocate, Quiet, vars, pass, plan, world, counts

(* A foreign host object is none that a pass may write to or delete. *)
LEMMA ApplyKeeps ==
    ASSUME TypeOK, PassInv, NEW o \in Objects,
           ApplyCreate(o) \/ ApplyUpdate(o) \/ ApplyCollision(o)
    PROVE  PassInv'
<1>1. pc = "apply" /\ UNCHANGED <<pc, snap, want, publish, blocked>>
      BY DEF ApplyCreate, ApplyUpdate, ApplyCollision, MayApply
<1>2. Needed' = Needed BY <1>1, SnapFrame
<1>3. PruneTruth' /\ HiddenTruth' BY <1>1 DEF PassInv, HiddenTruth, PruneTruth, PassClean
<1>4. CASE ApplyCreate(o) \/ ApplyUpdate(o)
  <2>1. /\ host[o] # "foreign" /\ UNCHANGED desired
        /\ host' = host \/ host' = [host EXCEPT ![o] = Wanted(o)]
        /\ read' \subseteq read \cup {o}
        BY <1>4 DEF ApplyCreate, ApplyUpdate, Foreign
  <2>2. host'[o] # "foreign" /\ \A p \in Objects \ {o} : host'[p] = host[p]
        BY <2>1 DEF TypeOK, Wanted
  <2>3. \A p \in want \ desired : host'[p] = "foreign"
        BY <1>1, <2>1, <2>2 DEF TypeOK, PassInv, PlanTruth, Planned
  <2>4. \A p \in read' : host'[p] # "foreign"
        BY <2>1, <2>2 DEF TypeOK, PassInv, PlanTruth
  <2>5. PlanTruth' BY <1>1, <1>2, <2>1, <2>3, <2>4 DEF PassInv, PlanTruth, Planned
  <2>6. QED BY <1>3, <2>5 DEF PassInv
<1>5. CASE ApplyCollision(o)
  <2>1. host[o] = "foreign" /\ desired' = desired \ {o} /\ UNCHANGED <<host, read>>
        BY <1>5 DEF ApplyCollision, Foreign, world, plan
  <2>2. PlanTruth' BY <1>1, <1>2, <2>1 DEF PassInv, PlanTruth, Planned
  <2>3. QED BY <1>3, <2>2 DEF PassInv
<1>6. QED BY <1>4, <1>5

LEMMA PruneKeeps ==
    ASSUME TypeOK, PassInv, NEW o \in Objects, PruneObject(o)
    PROVE  PassInv'
<1>1. /\ pc = "prune" /\ o \in left /\ left' = left \ {o}
      /\ UNCHANGED <<pc, snap, desired, want, publish, read>>
      BY DEF PruneObject, plan
<1>2. \/ host' = host /\ blocked'
      \/ host' = [host EXCEPT ![o] = "none"] /\ (blocked <=> blocked')
  <2>1. PICK failed \in BOOLEAN :
           /\ host' = IF failed THEN host ELSE [host EXCEPT ![o] = "none"]
           /\ blocked' = (blocked \/ failed)
        BY DEF PruneObject
  <2>2. CASE failed BY <2>1, <2>2
  <2>3. CASE ~failed BY <2>1, <2>3
  <2>4. QED BY <2>2, <2>3
<1>3. o \in Owned /\ o \notin desired BY <1>1 DEF PassInv, PruneTruth
<1>4. host[o] # "foreign" BY <1>3 DEF Owned
<1>5. Owned' = Owned \/ Owned' = Owned \ {o}
  <2>1. CASE host' = host BY <2>1, HostFrame
  <2>2. CASE host' = [host EXCEPT ![o] = "none"] BY <2>2 DEF TypeOK, Owned
  <2>3. QED BY <1>2, <2>1, <2>2
<1>6. ~blocked' => Owned' = Owned \ {o}
  <2>1. host' = [host EXCEPT ![o] = "none"] => Owned' = Owned \ {o} BY DEF TypeOK, Owned
  <2>2. QED BY <1>2, <2>1
<1>7. PlanTruth'
  <2>1. \A p \in Objects : host[p] = "foreign" => host'[p] = "foreign"
        BY <1>2, <1>4 DEF TypeOK
  <2>2. \A p \in Objects : host'[p] = "foreign" => host[p] = "foreign"
        BY <1>2 DEF TypeOK
  <2>3. Needed' = Needed BY <1>1, SnapFrame
  <2>4. QED BY <1>1, <2>1, <2>2, <2>3 DEF PassInv, PlanTruth, Planned, TypeOK
<1>8. PruneTruth'
  <2>1. left' \subseteq Owned' /\ left' \cap desired' = {}
        BY <1>1, <1>5 DEF PassInv, PruneTruth
  <2>2. ~blocked' => Owned' \subseteq desired' \cup snap'.hidden \cup left'
        BY <1>1, <1>2, <1>6 DEF PassInv, PruneTruth
  <2>3. QED BY <1>1, <2>1, <2>2 DEF PruneTruth, PassClean
<1>9. HiddenTruth' BY <1>1 DEF PassInv, HiddenTruth
<1>10. QED BY <1>7, <1>8, <1>9 DEF PassInv

(* The limit makes the plan; the stages after it carry it on. *)
LEMMA AdmitKeeps ==
    ASSUME TypeOK, PassInv, Admit PROVE PassInv'
<1>1. /\ pc' = "pin" /\ UNCHANGED <<snap, read, host, blocked>>
      /\ publish' = (Claims \ OverLimit) \cup Routed
      /\ want' = publish' \cup BackendsLeft /\ desired' = want'
      BY DEF Admit, world
<1>2. Needed \subseteq want' BY <1>1 DEF BackendsLeft
<1>3. Needed' = Needed BY <1>1, SnapFrame
<1>4. PlanTruth' BY <1>1, <1>2, <1>3 DEF PassInv, PlanTruth, Planned
<1>5. PruneTruth' /\ HiddenTruth' BY <1>1 DEF PassInv, HiddenTruth, PruneTruth, PassClean
<1>6. QED BY <1>4, <1>5 DEF PassInv

LEMMA StageKeeps ==
    ASSUME TypeOK, PassInv,
           \/ Apply \/ SkipApply \/ Prune \/ Release \/ WriteBack \/ Refusals
           \/ \E kind \in Kinds : PruneListFails(kind)
    PROVE  PassInv'
<1>1. UNCHANGED <<snap, desired, want, publish, read, host>>
      BY DEF Apply, SkipApply, Prune, Release, WriteBack, Refusals, PruneListFails, Stage,
             plan, world
<1>2. Needed' = Needed /\ Owned' = Owned BY <1>1, SnapFrame, HostFrame
<1>3. PlanTruth'
  <2>1. pc' \in Planned => pc \in Planned
        BY DEF Apply, SkipApply, Prune, Release, WriteBack, Refusals, PruneListFails, Stage,
               Planned
  <2>2. QED BY <1>1, <1>2, <2>1 DEF PassInv, PlanTruth
<1>4. PruneTruth'
  <2>1. CASE Apply BY <2>1 DEF Apply, Stage, PruneTruth, PassClean
  <2>2. CASE SkipApply \/ Prune
    <3>1. pc' = "prune" /\ left' = Owned \ (desired \cup snap.hidden)
          BY <2>2 DEF SkipApply, Prune, Stage, Surplus
    <3>2. QED BY <1>1, <1>2, <3>1 DEF PruneTruth, PassClean
  <2>3. ASSUME NEW kind \in Kinds, PruneListFails(kind) PROVE PruneTruth'
    <3>1. pc' = "prune" /\ left' \subseteq Owned \ desired /\ blocked' = TRUE
          BY <2>3 DEF PruneListFails, Stage, Surplus
    <3>2. QED BY <1>1, <1>2, <3>1 DEF PruneTruth, PassClean
  <2>4. CASE Release
    <3>1. /\ pc = "prune" /\ pc' = "release" /\ left = {} /\ blocked' = blocked
          /\ left' = IF blocked THEN {} ELSE Seen \ want
          BY <2>4 DEF Release, Stage, Releasable
    <3>2. ~blocked => Owned \subseteq desired \cup snap.hidden
          BY <3>1 DEF PassInv, PruneTruth
    <3>3. Seen \cap snap.hidden = {} BY DEF Seen, PassInv, HiddenTruth
    <3>4. QED BY <1>1, <1>2, <3>1, <3>2, <3>3 DEF PruneTruth, PassClean
  <2>5. CASE WriteBack \/ Refusals
    <3>1. /\ pc \in {"release", "status"} /\ pc' \in {"status", "refusals"}
          /\ blocked' = blocked
          BY <2>5 DEF WriteBack, Refusals, Stage
    <3>2. QED BY <1>1, <1>2, <3>1 DEF PassInv, PruneTruth, PassClean
  <2>6. QED BY <2>1, <2>2, <2>3, <2>4, <2>5
<1>5. HiddenTruth'
  <2>1. pc' \notin {"idle", "listServices"}
        BY DEF Apply, SkipApply, Prune, Release, WriteBack, Refusals, PruneListFails, Stage
  <2>2. QED BY <1>1, <2>1 DEF PassInv, HiddenTruth
<1>6. QED BY <1>3, <1>4, <1>5 DEF PassInv

(* Listing knows nothing yet, and the end of a pass forgets all. *)
LEMMA EndsKeep ==
    ASSUME TypeOK, PassInv,
           Begin \/ ListServices \/ ListRouters \/ ListGateways \/ EndPass \/ Abort
    PROVE  PassInv'
<1>1. pc' \in {"idle", "listServices", "listRouters", "listGateways", "exists"} /\ host' = host
      BY DEF Begin, ListServices, ListRouters, ListGateways, List, EndPass, Abort, EndOfPass, world
<1>2. \/ UNCHANGED <<desired, want, publish, read>>
      \/ desired' = {} /\ want' = {} /\ publish' = {} /\ read' = {}
      BY DEF Begin, ListServices, ListRouters, ListGateways, List, EndPass, Abort, EndOfPass, plan
<1>3. PlanTruth' BY <1>1, <1>2 DEF PassInv, PlanTruth, Planned
<1>4. PruneTruth' BY <1>1 DEF PruneTruth, PassClean
<1>5. HiddenTruth'
  <2>1. CASE Begin BY <2>1, SnapTyped DEF Begin, SnapType, PassInv, HiddenTruth
  <2>2. ASSUME NEW kind \in SUBSET Objects, NEW from, NEW to, List(kind, from, to),
               kind \cap snap.hidden = {}, to \notin {"idle", "listServices"}
        PROVE  HiddenTruth'
        BY <2>2, SnapTyped DEF List, SnapType, PassInv, HiddenTruth
  <2>3. CASE ListServices
    <3>1. Services \cap snap.hidden = {} BY EndpointAssumption DEF PassInv, HiddenTruth
    <3>2. QED BY <2>2, <2>3, <3>1 DEF ListServices, Objects
  <2>4. CASE ListRouters BY <2>2, <2>4 DEF ListRouters, Skipped, Objects
  <2>5. CASE ListGateways BY <2>2, <2>5 DEF ListGateways, Skipped, Objects
  <2>6. CASE EndPass \/ Abort
    <3>1. EmptySnap.pin = {} /\ EmptySnap.hidden = {} BY DEF EmptySnap
    <3>2. snap' = EmptySnap BY <2>6 DEF EndPass, Abort, EndOfPass
    <3>3. QED BY <3>1, <3>2 DEF HiddenTruth
  <2>7. QED BY <2>1, <2>3, <2>4, <2>5, <2>6
<1>6. QED BY <1>3, <1>4, <1>5 DEF PassInv

LEMMA PassInvariant == Spec => []PassInv
<1>1. Init => PassInv
      BY DEF Init, EmptySnap, PassInv, HiddenTruth, PlanTruth, PruneTruth, PassClean, Planned
<1>2. TypeOK /\ PassInv /\ [Next]_vars => PassInv'
  <2> SUFFICES ASSUME TypeOK, PassInv, [Next]_vars PROVE PassInv' OBVIOUS
  <2>1. CASE Tenant \/ Host \/ UNCHANGED vars BY <2>1, OutsideQuiet, QuietKeeps
  <2>2. ASSUME NEW o \in Objects, ObjectStep(o) PROVE PassInv'
    <3>1. CASE ApplyCreate(o) \/ ApplyUpdate(o) \/ ApplyCollision(o) BY <3>1, ApplyKeeps
    <3>2. CASE PruneObject(o) BY <3>2, PruneKeeps
    <3>3. CASE ReadClaim(o)
      <4>1. pc = "exists" /\ pc' = pc
            /\ UNCHANGED <<snap, host, desired, want, publish, read, blocked>>
            BY <3>3 DEF ReadClaim, world
      <4>2. Needed' = Needed /\ Owned' = Owned BY <4>1, SnapFrame, HostFrame
      <4>3. QED BY <4>1, <4>2
                DEF PassInv, HiddenTruth, PlanTruth, PruneTruth, PassClean, Planned
    <3>4. CASE PinObject(o) \/ ReleaseObject(o) \/ WriteAddress(o) \/ WriteRefusal(o)
      <4>1. /\ Quiet /\ left' \subseteq left
            /\ pc \in {"pin", "release", "status", "refusals"}
            BY <3>4 DEF PinObject, ReleaseObject, WriteAddress, WriteRefusal, Quiet, plan, world
      <4>2. QED BY <4>1, QuietKeeps
    <3>5. QED BY <2>2, <3>1, <3>2, <3>3, <3>4 DEF ObjectStep
  <2>3. QED BY <2>1, <2>2, AdmitKeeps, StageKeeps, EndsKeep DEF Next, Syncer
<1>3. QED BY <1>1, <1>2, TypeCorrect, PTL DEF Spec

--------------------------------------------------------------------------------
(* Only three steps change the host. *)
LEMMA HostSteps ==
    ASSUME [Next]_vars, host' # host
    PROVE  \E o \in Objects : ApplyCreate(o) \/ ApplyUpdate(o) \/ PruneObject(o)
<1>1. ASSUME \A o \in Objects : ~ApplyCreate(o) /\ ~ApplyUpdate(o) /\ ~PruneObject(o),
             NEW o \in Objects, ObjectStep(o)
      PROVE  FALSE
      BY <1>1 DEF ObjectStep, ReadClaim, PinObject, ApplyCollision, ReleaseObject,
             WriteAddress, WriteRefusal, world
<1>2. Tenant \/ Host \/ UNCHANGED vars => FALSE BY OutsideQuiet DEF Quiet
<1>3. Begin \/ ListServices \/ ListRouters \/ ListGateways \/ Admit \/ EndPass \/ Abort
      => FALSE
      BY DEF Begin, ListServices, ListRouters, ListGateways, List, Admit, EndPass, Abort, world
<1>4. \/ Apply \/ SkipApply \/ Prune \/ Release \/ WriteBack \/ Refusals
      \/ \E kind \in Kinds : PruneListFails(kind)
      => FALSE
      BY DEF Apply, SkipApply, Prune, Release, WriteBack, Refusals, PruneListFails, Stage,
             world
<1>5. QED BY <1>1, <1>2, <1>3, <1>4 DEF Next, Syncer

(* A pass that could list and delete everything it owns leaves nothing on the  *)
(* host that it does not want (pruneAll, pruneFailed).                         *)
THEOREM PassCleanHolds == Spec => []PassClean
<1>1. PassInv => PassClean BY DEF PassInv, PruneTruth
<1>2. QED BY <1>1, PassInvariant, PTL

(* Whatever fails in between, the controller takes its finalizer off an object *)
(* only when no host object made of it is left (releaseGuestFinalizers runs    *)
(* after pruneAll, and not when it failed).                                    *)
THEOREM ReleaseAfterPruneHolds == Spec => ReleaseAfterPrune
<1>1. ASSUME TypeOK, PassInv, [Next]_vars, NEW o \in Objects, o \in pinned \ pinned',
             clock' = clock
      PROVE  o \notin Owned
  <2>1. PICK p \in Objects : ReleaseObject(p)
    <3>1. ASSUME \A p \in Objects : ~ReleaseObject(p), NEW p \in Objects, ObjectStep(p)
          PROVE  FALSE
          BY <1>1, <3>1 DEF ObjectStep, ReadClaim, PinObject, ApplyCreate, ApplyUpdate,
                 ApplyCollision, PruneObject, WriteAddress, WriteRefusal, guest
    <3>2. ~Tenant
      <4>1. Tick => clock' # clock BY <1>1 DEF TypeOK, Tick
      <4>2. QED BY <1>1, <4>1 DEF Tenant, Create, Reshape, Delete, ForceDelete, Edit
    <3>3. Host \/ UNCHANGED vars => FALSE
          BY <1>1 DEF Host, SetLimit, SetSync, Allocate, vars, guest
    <3>4. Begin \/ ListServices \/ ListRouters \/ ListGateways \/ Admit \/ EndPass \/ Abort
          => FALSE
          BY <1>1 DEF Begin, ListServices, ListRouters, ListGateways, List, Admit, EndPass, Abort,
                 guest
    <3>5. \/ Apply \/ SkipApply \/ Prune \/ Release \/ WriteBack \/ Refusals
          \/ \E kind \in Kinds : PruneListFails(kind)
          => FALSE
          BY <1>1 DEF Apply, SkipApply, Prune, Release, WriteBack, Refusals,
                 PruneListFails, Stage, guest
    <3>6. QED BY <1>1, <3>1, <3>2, <3>3, <3>4, <3>5 DEF Next, Syncer
  <2>2. o = p BY <1>1, <2>1 DEF ReleaseObject, Unpin, guest
  <2>3. pc = "release" /\ o \in left BY <2>1, <2>2 DEF ReleaseObject
  <2>4. ~blocked /\ o \notin want /\ o \notin snap.hidden
        BY <1>1, <2>3 DEF PassInv, PruneTruth
  <2>5. Owned \subseteq desired \cup snap.hidden BY <1>1, <2>3, <2>4 DEF PassInv, PruneTruth, PassClean
  <2>6. QED BY <1>1, <2>4, <2>5 DEF PassInv, PlanTruth
<1>2. TypeOK /\ PassInv /\ [Next]_vars
      => [\A o \in Objects : o \in pinned \ pinned' /\ clock' = clock => o \notin Owned]_vars
      BY <1>1
<1>3. QED BY <1>2, TypeCorrect, PassInvariant, PTL DEF Spec, ReleaseAfterPrune

(* Pruning what the limit withdrew never takes a Service a router needs        *)
(* (withdrawClaim keeps its backend).                                          *)
THEOREM BackendsKeptHolds == Spec => BackendsKept
<1>1. ASSUME TypeOK, PassInv, [Next]_vars, NEW s \in Needed, pc = "prune", s \in Owned
      PROVE  host'[s] # "none"
  <2>1. s \in Objects /\ host[s] \in {"published", "backend"} BY <1>1 DEF Owned
  <2>2. s \in desired BY <1>1, <2>1 DEF PassInv, PlanTruth, Planned
  <2>3. CASE host' = host BY <2>1, <2>3
  <2>4. CASE host' # host
    <3>1. PICK o \in Objects : PruneObject(o)
          BY <1>1, <2>4, HostSteps DEF ApplyCreate, ApplyUpdate, MayApply
    <3>2. o # s BY <1>1, <2>2, <3>1 DEF PassInv, PruneTruth, PruneObject
    <3>3. host'[s] = host[s] BY <1>1, <2>1, <3>1, <3>2 DEF PruneObject, TypeOK
    <3>4. QED BY <2>1, <3>3
  <2>5. QED BY <2>3, <2>4
<1>2. TypeOK /\ PassInv /\ [Next]_vars
      => [\A s \in Needed : pc = "prune" /\ s \in Owned => host'[s] # "none"]_vars
      BY <1>1
<1>3. QED BY <1>2, TypeCorrect, PassInvariant, PTL DEF Spec, BackendsKept

(* A host object without our labels is neither changed nor deleted, and its    *)
(* address is shown to no tenant (mayTouch, forget).                           *)
THEOREM ForeignUntouchedHolds == Spec => ForeignUntouched
<1>1. ASSUME TypeOK, PassInv, [Next]_vars, NEW o \in Objects, host[o] = "foreign"
      PROVE  host'[o] = "foreign"
  <2>1. ASSUME host' # host PROVE host'[o] = host[o]
    <3>1. PICK p \in Objects : ApplyCreate(p) \/ ApplyUpdate(p) \/ PruneObject(p)
          BY <1>1, <2>1, HostSteps
    <3>2. host[p] # "foreign"
      <4>1. CASE ApplyCreate(p) \/ ApplyUpdate(p)
            BY <4>1 DEF ApplyCreate, ApplyUpdate, Foreign
      <4>2. CASE PruneObject(p)
        <5>1. p \in Owned BY <1>1, <4>2 DEF PruneObject, PassInv, PruneTruth
        <5>2. QED BY <5>1 DEF Owned
      <4>3. QED BY <3>1, <4>1, <4>2
    <3>3. QED BY <1>1, <3>1, <3>2 DEF ApplyCreate, ApplyUpdate, PruneObject, TypeOK
  <2>2. QED BY <1>1, <2>1
<1>2. ASSUME TypeOK, PassInv, [Next]_vars, NEW o \in Objects, o \in shown' \ shown
      PROVE  host[o] # "foreign"
  <2>1. PICK p \in Objects : WriteAddress(p)
    <3>1. ASSUME \A p \in Objects : ~WriteAddress(p), NEW p \in Objects, ObjectStep(p)
          PROVE  FALSE
          BY <1>2, <3>1 DEF ObjectStep, ReadClaim, PinObject, ApplyCreate, ApplyUpdate,
                 ApplyCollision, PruneObject, ReleaseObject, Unpin, WriteRefusal, guest
    <3>2. Tenant \/ Host \/ UNCHANGED vars => FALSE
          BY <1>2 DEF Tenant, Create, Reshape, Delete, ForceDelete, Gone, Host, SetLimit,
                 SetSync, Allocate, vars, guest
    <3>3. Begin \/ ListServices \/ ListRouters \/ ListGateways \/ Admit \/ EndPass \/ Abort
          => FALSE
          BY <1>2 DEF Begin, ListServices, ListRouters, ListGateways, List, Admit, EndPass, Abort,
                 guest
    <3>4. \/ Apply \/ SkipApply \/ Prune \/ Release \/ WriteBack \/ Refusals
          \/ \E kind \in Kinds : PruneListFails(kind)
          => FALSE
          BY <1>2 DEF Apply, SkipApply, Prune, Release, WriteBack, Refusals,
                 PruneListFails, Stage, guest
    <3>5. QED BY <1>2, <3>1, <3>2, <3>3, <3>4 DEF Next, Syncer
  <2>2. o \in read BY <1>2, <2>1 DEF WriteAddress
  <2>3. QED BY <1>2, <2>2 DEF PassInv, PlanTruth
<1>3. TypeOK /\ PassInv /\ [Next]_vars
      => [\A o \in Objects : host[o] = "foreign"
             => host'[o] = "foreign" /\ o \notin shown' \ shown]_vars
      BY <1>1, <1>2
<1>4. QED BY <1>3, TypeCorrect, PassInvariant, PTL DEF Spec, ForeignUntouched

--------------------------------------------------------------------------------
(* Where no read of existence fails, the limit finds every published claim.    *)
LEMMA LimitInvariant ==
    ASSUME MaxMisreads = 0
    PROVE  Spec => []LimitTruth
<1>1. Init => LimitTruth BY DEF Init, LimitTruth, Planned
<1>2. TypeOK /\ LimitTruth /\ [Next]_vars => LimitTruth'
  <2> SUFFICES ASSUME TypeOK, LimitTruth, [Next]_vars PROVE LimitTruth' OBVIOUS
  <2>1. ASSUME snap' = snap, host' = host, publish' = publish, pc' \in Planned,
               pc \in Planned
        PROVE  LimitTruth'
        BY <2>1, SnapFrame DEF LimitTruth, Planned
  <2>2. CASE Tenant \/ Host \/ UNCHANGED vars
        BY <2>2, OutsideQuiet, SnapFrame DEF Quiet, LimitTruth
  <2>3. ASSUME NEW o \in Objects, ObjectStep(o) PROVE LimitTruth'
    <3>1. CASE ReadClaim(o)
      <4>1. /\ pc = "exists" /\ pc' = pc /\ UNCHANGED <<snap, host>>
            /\ left' = left \ {o}
            /\ existing' = IF host[o] = "published" THEN existing \cup {o} ELSE existing
            BY <3>1 DEF ReadClaim, TypeOK, world
      <4>2. Claims' = Claims BY <4>1, SnapFrame
      <4>3. QED BY <4>1, <4>2 DEF LimitTruth, Planned
    <3>2. CASE ApplyCreate(o) \/ ApplyUpdate(o)
      <4>1. /\ pc = "apply" /\ UNCHANGED <<pc, snap, publish>>
            /\ host' = host \/ host' = [host EXCEPT ![o] = Wanted(o)]
            BY <3>2 DEF ApplyCreate, ApplyUpdate, MayApply
      <4>2. \A p \in Objects : host'[p] = "published" => host[p] = "published" \/ p \in publish
            BY <4>1 DEF TypeOK, Wanted
      <4>3. QED BY <4>1, <4>2, SnapFrame, Derived DEF LimitTruth, Planned
    <3>3. CASE PruneObject(o)
      <4>1. /\ pc = "prune" /\ UNCHANGED <<pc, snap, publish>>
            /\ host' = host \/ host' = [host EXCEPT ![o] = "none"]
            BY <3>3 DEF PruneObject, plan
      <4>2. \A p \in Objects : host'[p] = "published" => host[p] = "published"
            BY <4>1 DEF TypeOK
      <4>3. QED BY <4>1, <4>2, SnapFrame, Derived DEF LimitTruth, Planned
    <3>4. CASE PinObject(o) \/ ApplyCollision(o)
          BY <2>1, <3>4 DEF PinObject, ApplyCollision, MayApply, Planned, plan, world
    <3>5. CASE ReleaseObject(o) \/ WriteAddress(o) \/ WriteRefusal(o)
          BY <3>5 DEF ReleaseObject, WriteAddress, WriteRefusal, LimitTruth, Planned
    <3>6. QED BY <2>3, <3>1, <3>2, <3>3, <3>4, <3>5 DEF ObjectStep
  <2>4. CASE ListGateways
        BY <2>4 DEF ListGateways, List, LimitTruth, Planned
  <2>5. CASE Admit
    <3>1. /\ pc = "exists" /\ left = {} /\ pc' = "pin" /\ UNCHANGED <<snap, host>>
          /\ publish' = (Claims \ OverLimit) \cup Routed
          BY <2>5 DEF Admit, world
    <3>2. OverLimit \cap existing = {} BY DEF OverLimit
    <3>3. QED BY <3>1, <3>2, SnapFrame DEF LimitTruth, Planned
  <2>6. CASE \/ Apply \/ SkipApply \/ Prune
             \/ \E kind \in Kinds : PruneListFails(kind)
        BY <2>1, <2>6 DEF Apply, SkipApply, Prune, PruneListFails, Stage, Planned, plan, world
  <2>7. CASE \/ Begin \/ ListServices \/ ListRouters \/ Release \/ WriteBack \/ Refusals
             \/ EndPass \/ Abort
        BY <2>7 DEF Begin, ListServices, ListRouters, List, Release, WriteBack, Refusals, Stage,
               EndPass, Abort, EndOfPass, LimitTruth, Planned
  <2>8. QED BY <2>2, <2>3, <2>4, <2>5, <2>6, <2>7 DEF Next, Syncer
<1>3. QED BY <1>1, <1>2, TypeCorrect, PTL DEF Spec

(* Where no read of existence fails, no limit takes an address down: an        *)
(* endpoint published for a claim the pass listed stays published, whatever    *)
(* else the pass, its faults or the tenant do (applyAddressLimit, pruneAll).   *)
THEOREM LimitNeverTearsDownHolds ==
    ASSUME MaxMisreads = 0
    PROVE  Spec => LimitNeverTearsDown
<1>1. ASSUME TypeOK, PassInv, LimitTruth, [Next]_vars, NEW o \in Endpoints,
             host[o] = "published", host'[o] # "published"
      PROVE  o \notin Claims
  <2>1. o \in Objects BY Derived
  <2>2. PICK p \in Objects : ApplyCreate(p) \/ ApplyUpdate(p) \/ PruneObject(p)
        BY <1>1, HostSteps
  <2>3. p = o BY <1>1, <2>1, <2>2 DEF ApplyCreate, ApplyUpdate, PruneObject, TypeOK
  <2>4. CASE ApplyCreate(o) BY <1>1, <2>4 DEF ApplyCreate
  <2>5. CASE ApplyUpdate(o)
    <3>1. pc = "apply" /\ o \notin publish
          BY <1>1, <2>1, <2>5 DEF ApplyUpdate, MayApply, Wanted, TypeOK
    <3>2. QED BY <1>1, <3>1 DEF LimitTruth, Planned
  <2>6. CASE PruneObject(o)
    <3>1. pc = "prune" /\ o \notin desired
          BY <1>1, <2>6 DEF PruneObject, PassInv, PruneTruth
    <3>2. o \notin want BY <1>1, <3>1 DEF PassInv, PlanTruth, Planned
    <3>3. QED BY <1>1, <3>1, <3>2 DEF PassInv, PlanTruth, LimitTruth, Planned
  <2>7. QED BY <2>2, <2>3, <2>4, <2>5, <2>6
<1>2. TypeOK /\ PassInv /\ LimitTruth /\ [Next]_vars
      => [\A o \in Endpoints : host[o] = "published" /\ host'[o] # "published"
                                   => o \notin Claims]_vars
      BY <1>1
<1>3. QED BY <1>2, TypeCorrect, PassInvariant, LimitInvariant, PTL
          DEF Spec, LimitNeverTearsDown

--------------------------------------------------------------------------------
(* The limit's loop.  What it counts is a recursive function, so its facts are *)
(* proved by the least number at which they would fail.                        *)

LEMMA LeastOne ==
    ASSUME NEW T, T \subseteq Nat, T # {}
    PROVE  \E m \in T : \A n \in T : m <= n
<1>1. \E m \in T : \A n \in T : <<n, m>> \notin OpToRel(<, Nat)
      BY NatLessThanWellFounded, WFMin
<1>2. PICK m \in T : \A n \in T : <<n, m>> \notin OpToRel(<, Nat) BY <1>1
<1>3. ASSUME NEW n \in T PROVE m <= n
  <2>1. <<n, m>> \in Nat \X Nat OBVIOUS
  <2>2. ~(n < m) BY <1>2, <2>1 DEF OpToRel
  <2>3. QED BY <2>2
<1>4. QED BY <1>3

(* Claims are as many as a number says, and no claim has more older ones.      *)
LEMMA ClaimsCounted ==
    /\ Cardinality(Claims) \in Nat
    /\ \A o \in Claims : Cardinality(Older(o)) \in 0..Cardinality(Claims)
<1>1. IsFiniteSet(Claims)
  <2>1. Claims \subseteq Objects BY Derived
  <2>2. QED BY <2>1, EndpointAssumption, FS_Subset
<1>2. ASSUME NEW o \in Claims PROVE Cardinality(Older(o)) \in 0..Cardinality(Claims)
  <2>1. Older(o) \in SUBSET Claims BY DEF Older
  <2>2. IsFiniteSet(Older(o)) /\ Cardinality(Older(o)) <= Cardinality(Claims)
        BY <1>1, <2>1, FS_Subset
  <2>3. Cardinality(Older(o)) \in Nat /\ Cardinality(Claims) \in Nat
        BY <1>1, <2>2, FS_CardinalityType
  <2>4. QED BY <2>2, <2>3
<1>3. QED BY <1>1, <1>2, FS_CardinalityType

(* One turn of the loop, for the n-th oldest claim. *)
Turn(n, before) ==
    IF ByAge(n - 1) \in existing \/ Room(before) THEN before + 1 ELSE before

Unrolled(f, m) == f = [n \in 0..m |-> IF n = 0 THEN 0 ELSE Turn(n, f[n - 1])]

LEMMA LoopUnrolls == Unrolled(admittedBefore, Cardinality(Claims))
<1> DEFINE N == Cardinality(Claims)
           T == {m \in 0..N : ~\E f : Unrolled(f, m)}
<1>0. N \in Nat BY ClaimsCounted
<1>1. T = {}
  <2> SUFFICES ASSUME T # {} PROVE FALSE OBVIOUS
  <2>0. T \subseteq Nat BY <1>0
  <2>1. PICK m \in T : \A n \in T : m <= n
    <3> HIDE DEF T
    <3>1. QED BY <2>0, LeastOne
  <2>2. m \in 0..N /\ ~\E f : Unrolled(f, m) BY <2>1
  <2>3. CASE m = 0
    <3>1. Unrolled([n \in 0..0 |-> 0], 0) BY DEF Unrolled
    <3>2. QED BY <2>2, <2>3, <3>1
  <2>4. CASE m # 0
    <3>0. m \in Nat /\ m - 1 \in 0..N /\ ~(m <= m - 1) BY <1>0, <2>2, <2>4
    <3>1. m - 1 \notin T BY <2>1, <3>0
    <3>2. PICK f : Unrolled(f, m - 1) BY <3>0, <3>1
    <3> DEFINE g == [n \in 0..m |-> IF n = m THEN Turn(m, f[m - 1]) ELSE f[n]]
    <3>3. ASSUME NEW n \in 0..m
          PROVE  g[n] = IF n = 0 THEN 0 ELSE Turn(n, g[n - 1])
      <4>1. CASE n = m
        <5>1. g[n - 1] = f[m - 1] BY <2>4, <3>0, <4>1
        <5>2. g[n] = Turn(m, f[m - 1]) BY <4>1
        <5>3. QED BY <2>4, <4>1, <5>1, <5>2
      <4>2. CASE n # m
        <5>1. n \in 0..(m - 1) /\ g[n] = f[n] BY <3>0, <4>2
        <5>2. f[n] = IF n = 0 THEN 0 ELSE Turn(n, f[n - 1]) BY <3>2, <5>1 DEF Unrolled
        <5>3. n # 0 => g[n - 1] = f[n - 1] BY <3>0, <5>1
        <5>4. QED BY <5>1, <5>2, <5>3
      <4>3. QED BY <4>1, <4>2
    <3>4. g = [n \in 0..m |-> IF n = 0 THEN 0 ELSE Turn(n, g[n - 1])] BY <3>3
    <3>5. Unrolled(g, m) BY <3>4 DEF Unrolled
    <3>6. QED BY <2>2, <3>5
  <2>5. QED BY <2>3, <2>4
<1>2. \E f : Unrolled(f, N) BY <1>0, <1>1
<1>3. admittedBefore = CHOOSE f : Unrolled(f, N)
      BY DEF admittedBefore, Unrolled, Turn
<1>4. QED BY <1>2, <1>3

(* Up to the limit it admits one claim a turn; past it, however many of the    *)
(* claims exist already, it never counts back below the limit.                 *)
LEMMA LoopCounts ==
    ASSUME snap.limit \in Nat, NEW k \in 0..Cardinality(Claims)
    PROVE  /\ k <= snap.limit => admittedBefore[k] = k
           /\ k >= snap.limit => admittedBefore[k] \in Nat /\ admittedBefore[k] >= snap.limit
<1> DEFINE N == Cardinality(Claims)
           Good(n) == /\ n <= snap.limit => admittedBefore[n] = n
                      /\ n >= snap.limit => /\ admittedBefore[n] \in Nat
                                            /\ admittedBefore[n] >= snap.limit
           T == {n \in 0..N : ~Good(n)}
<1>0. N \in Nat BY ClaimsCounted
<1>1. \A n \in 0..N : admittedBefore[n] = IF n = 0 THEN 0 ELSE Turn(n, admittedBefore[n - 1])
      BY LoopUnrolls DEF Unrolled
<1>2. T = {}
  <2> SUFFICES ASSUME T # {} PROVE FALSE OBVIOUS
  <2>0. T \subseteq Nat BY <1>0
  <2>1. PICK m \in T : \A n \in T : m <= n
    <3> HIDE DEF T
    <3>1. QED BY <2>0, LeastOne
  <2>2. m \in 0..N /\ ~Good(m) BY <2>1
  <2>3. m # 0 BY <1>0, <1>1, <2>2
  <2>4. m \in Nat /\ m - 1 \in 0..N /\ ~(m <= m - 1) BY <1>0, <2>2, <2>3
  <2>5. Good(m - 1) BY <2>1, <2>4
  <2>6. admittedBefore[m] = Turn(m, admittedBefore[m - 1]) BY <1>1, <2>2, <2>3
  <2>7. CASE m <= snap.limit
    <3>1. admittedBefore[m - 1] = m - 1 BY <2>4, <2>5, <2>7
    <3>2. Room(admittedBefore[m - 1]) BY <2>4, <2>7, <3>1 DEF Room
    <3>3. admittedBefore[m] = m BY <2>4, <2>6, <3>1, <3>2 DEF Turn
    <3>4. QED BY <2>2, <2>4, <2>7, <3>3
  <2>8. CASE ~(m <= snap.limit)
    <3>1. m - 1 >= snap.limit BY <2>4, <2>8
    <3>2. admittedBefore[m - 1] \in Nat /\ admittedBefore[m - 1] >= snap.limit
          BY <2>5, <3>1
    <3>3. admittedBefore[m] \in {admittedBefore[m - 1], admittedBefore[m - 1] + 1}
          BY <2>6 DEF Turn
    <3>4. admittedBefore[m] \in Nat /\ admittedBefore[m] >= snap.limit BY <3>2, <3>3
    <3>5. QED BY <2>2, <2>8, <3>4
  <2>9. QED BY <2>7, <2>8
<1>3. QED BY <1>2

(* However many claims exist already and whichever they are, the loop refuses  *)
(* exactly the new claims that have as many older ones as the limit has room.  *)
THEOREM RefusalByAgeHolds == Spec => []RefusalByAge
<1>1. ASSUME TypeOK PROVE RefusalByAge
  <2>1. snap.limit \in Nat
    <3>1. snap.limit \in Limits \cup {0} BY <1>1, SnapTyped DEF SnapType
    <3>2. Limits \subseteq Nat BY EndpointAssumption
    <3>3. snap.limit \in Limits \/ snap.limit = 0 BY <3>1
    <3>4. CASE snap.limit \in Limits BY <3>2, <3>4, Zenon
    <3>5. CASE snap.limit = 0 BY <3>5
    <3>6. QED BY <3>3, <3>4, <3>5
  <2>2. ASSUME NEW o \in Claims
        PROVE  ~Room(admittedBefore[Cardinality(Older(o))])
                 <=> Cardinality(Older(o)) >= snap.limit
    <3>1. Cardinality(Older(o)) \in 0..Cardinality(Claims) BY ClaimsCounted
    <3>2. Cardinality(Older(o)) \in Nat BY <3>1, ClaimsCounted
    <3>3. CASE Cardinality(Older(o)) >= snap.limit
      <4>1. /\ admittedBefore[Cardinality(Older(o))] \in Nat
            /\ admittedBefore[Cardinality(Older(o))] >= snap.limit
            BY <2>1, <3>1, <3>3, LoopCounts
      <4>2. QED BY <2>1, <3>3, <4>1 DEF Room
    <3>4. CASE ~(Cardinality(Older(o)) >= snap.limit)
      <4>1. admittedBefore[Cardinality(Older(o))] = Cardinality(Older(o))
            BY <2>1, <3>1, <3>2, <3>4, LoopCounts
      <4>2. QED BY <2>1, <3>2, <3>4, <4>1 DEF Room
    <3>5. QED BY <3>3, <3>4
  <2>3. QED BY <2>2 DEF RefusalByAge, OverLimit
<1>2. QED BY <1>1, TypeCorrect, PTL
===============================================================================
