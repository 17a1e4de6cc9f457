------------------------ MODULE TenantLifecycle_proofs ------------------------
(***************************************************************************)
(* Theorems about TenantLifecycle, for any processes, namespaces, keys and *)
(* bounds.                                                                 *)
(***************************************************************************)
EXTENDS TenantLifecycle, TLAPS

LEMMA Bounds == MaxUID \in Nat /\ MaxEdits \in Nat /\ MaxFaults \in Nat
BY LifecycleAssumption

LEMMA NoCopyTyped == NoCopy \in Copies /\ NoCopy.life = "absent" /\ ~NoCopy.fin
BY LifecycleAssumption, Bounds DEF NoCopy, Copies

LEMMA NoCopyKey == NoCopy.key \in Keys
BY LifecycleAssumption DEF NoCopy

--------------------------------------------------------------------------------
(* A TenantCluster that is there, and the copy of one, has a UID; a Secret is  *)
(* rotated by an edit.                                                         *)
Numbered ==
    /\ secret <= edits
    /\ tc.life # "absent" => tc.uid # 0
    /\ \A p \in Procs : pc[p] # "idle" => mine[p].uid # 0

Typed == TypeOK /\ Numbered

LEMMA InitTyped == Init => Typed
<1> SUFFICES ASSUME Init PROVE Typed
  OBVIOUS
<1>1. TypeOK
  <2>1. tc \in Copies /\ mine \in [Procs -> Copies]
    BY NoCopyTyped DEF Init
  <2>2. host \in [Objects -> 0..MaxUID] /\ secret \in 0..MaxEdits
        /\ edits \in 0..MaxEdits /\ faults \in 0..MaxFaults
    BY Bounds DEF Init
  <2>3. guests \in [Procs -> [UIDs -> NoneOrOne]] /\ using \in [Procs -> NoneOrOne]
    BY DEF Init, NoneOrOne
  <2> QED
    BY <2>1, <2>2, <2>3 DEF Init, TypeOK, PCs
<1>2. Numbered
  BY NoCopyTyped DEF Init, Numbered
<1> QED
  BY <1>1, <1>2 DEF Typed

(* The types of what Fault, Goto and Return assign.                            *)
LEMMA FaultTyped ==
  ASSUME NEW failed, Fault(failed), faults \in 0..MaxFaults
  PROVE  faults' \in 0..MaxFaults
BY Bounds DEF Fault

LEMMA ReturnTyped ==
  ASSUME Typed, NEW p \in Procs, Return(p)
  PROVE  /\ pc' \in [Procs -> PCs] /\ mine' \in [Procs -> Copies]
         /\ using' \in [Procs -> NoneOrOne]
         /\ held' \subseteq Procs /\ skipped' \subseteq Procs
         /\ pc'[p] = "idle"
         /\ \A q \in Procs \ {p} : pc'[q] = pc[q] /\ mine'[q] = mine[q]
BY NoCopyTyped DEF Typed, TypeOK, Return, Goto, PCs, NoneOrOne

USE DEF Typed

LEMMA ClientTyped ==
  ASSUME Typed, NEW p \in Procs, pc[p] # "idle"
  PROVE  ClientFor(p) \in NoneOrOne /\ mine[p].uid \in UIDs
<1>1. mine[p] \in Copies /\ mine[p].uid # 0
  BY DEF TypeOK, Numbered
<1>2. mine[p].uid \in UIDs /\ mine[p].key \in Keys
  BY <1>1, Bounds DEF Copies, UIDs
<1>3. Cached(p) \in NoneOrOne
  BY <1>2 DEF TypeOK, Cached
<1>4. BuiltFor(p) \in Clients
  BY <1>2 DEF TypeOK, BuiltFor, Clients
<1> QED
  BY <1>2, <1>3, <1>4 DEF ClientFor, NoneOrOne

LEMMA ReconcileTyped ==
  ASSUME Typed, NEW p \in Procs, Reconcile(p)
  PROVE  Typed'
<1> USE DEF TypeOK, Numbered, Goto
<1>1. CASE Begin(p)
  <2>1. mine' = [mine EXCEPT ![p] = tc] /\ fresh' \subseteq Procs /\ pc' \in [Procs -> PCs]
        /\ \A q \in Procs \ {p} : pc'[q] = pc[q]
    BY <1>1 DEF Begin, Read, PCs
  <2>2. TypeOK'
    BY <1>1, <2>1 DEF Begin
  <2>3. Numbered'
    BY <1>1, <2>1 DEF Begin
  <2> QED
    BY <2>2, <2>3
<1>2. CASE AddFinalizer(p)
  BY <1>2 DEF AddFinalizer, Copies, PCs, Accepted
<1>3. CASE FinalizerRefused(p)
  BY <1>3, ReturnTyped DEF FinalizerRefused, world
<1>4. CASE Connect(p)
  BY <1>4, ClientTyped DEF Connect, world, PCs
<1>5. CASE Disconnected(p)
  BY <1>5 DEF Disconnected, world, PCs
<1>6. ASSUME NEW k \in Kinds, NEW next \in PCs, Sync(p, k, next), pc[p] # "idle"
      PROVE  Typed'
  <2>1. mine[p].ns \in Namespaces /\ mine[p].uid \in 0..MaxUID
    BY DEF Copies
  <2>2. faults' \in 0..MaxFaults
    BY <1>6, FaultTyped DEF Sync
  <2>3. host' \in [Objects -> 0..MaxUID] /\ excused' \subseteq Objects
    BY <1>6, <2>1 DEF Sync, Objects
  <2> QED
    BY <1>6, <2>2, <2>3 DEF Sync
<1>7. CASE SyncCore(p)
  BY <1>6, <1>7 DEF SyncCore, Kinds, PCs
<1>8. CASE SyncGateways(p)
  BY <1>6, <1>8 DEF SyncGateways, Kinds, PCs
<1>9. CASE UpdateStatus(p)
  BY <1>9, ReturnTyped DEF UpdateStatus, world
<1> QED
  BY <1>1, <1>2, <1>3, <1>4, <1>5, <1>7, <1>8, <1>9 DEF Reconcile

LEMMA TearDownTyped ==
  ASSUME Typed, NEW p \in Procs, NEW k \in Kinds, TearDown(p, k), pc[p] # "idle",
         NEW next \in PCs, Goto(p, next), skipped' \subseteq Procs
  PROVE  Typed'
<1>1. mine[p].ns \in Namespaces
  BY DEF TypeOK, Copies
<1>2. host' \in [Objects -> 0..MaxUID] /\ excused' \subseteq Objects /\ held' \subseteq Procs
  <2>1. CASE DeleteKind(p, k) /\ UNCHANGED held
    BY <1>1, <2>1, Bounds DEF TypeOK, DeleteKind, Objects
  <2>2. CASE held' = held \cup {p} /\ UNCHANGED <<host, excused>>
    BY <2>2 DEF TypeOK
  <2> QED
    BY <2>1, <2>2 DEF TearDown
<1>3. faults' \in 0..MaxFaults
  BY FaultTyped DEF TypeOK, TearDown
<1> QED
  BY <1>2, <1>3 DEF TypeOK, Numbered, TearDown, Goto

LEMMA ReconcileDeleteTyped ==
  ASSUME Typed, NEW p \in Procs, ReconcileDelete(p)
  PROVE  Typed'
<1> USE DEF TypeOK, Numbered, Goto
<1>1. CASE TearCore(p)
  BY <1>1, TearDownTyped DEF TearCore, Kinds, PCs
<1>2. CASE TearGateways(p)
  <2>1. CASE SkipGateways(p)
    BY <1>2, <2>1, FaultTyped DEF TearGateways, SkipGateways, world, PCs
  <2>2. CASE TearDown(p, "gateway") /\ UNCHANGED skipped
    BY <1>2, <2>2, TearDownTyped DEF TearGateways, Kinds, PCs
  <2> QED
    BY <1>2, <2>1, <2>2 DEF TearGateways
<1>3. CASE Requeue(p)
  BY <1>3, ReturnTyped DEF Requeue, world
<1>4. CASE Strip(p)
  BY <1>4, ClientTyped DEF Strip, world, PCs, NoneOrOne
<1>5. CASE DropFinalizer(p)
  <2>1. mine[p].ns \in Namespaces
    BY DEF Copies
  <2>2. excused' \subseteq Objects
    BY <1>5, <2>1 DEF DropFinalizer, Objects, Kinds
  <2>3. tc' \in Copies /\ tc'.life = "absent"
    BY <1>5 DEF DropFinalizer, Copies
  <2> QED
    BY <1>5, <2>2, <2>3, ReturnTyped DEF DropFinalizer
<1>6. CASE DropRefused(p)
  BY <1>6, ReturnTyped DEF DropRefused, world
<1> QED
  BY <1>1, <1>2, <1>3, <1>4, <1>5, <1>6 DEF ReconcileDelete

LEMMA FailureTyped ==
  ASSUME Typed, NEW p \in Procs, ListFails(p) \/ Crash(p)
  PROVE  Typed'
<1> USE DEF TypeOK, Numbered
<1>1. CASE ListFails(p)
  BY <1>1, ReturnTyped, FaultTyped DEF ListFails, world
<1>2. CASE Crash(p)
  BY <1>2, ReturnTyped, FaultTyped DEF Crash, world, NoneOrOne
<1> QED
  BY <1>1, <1>2

LEMMA OperatorTyped ==
  ASSUME Typed, Create \/ Delete \/ Move \/ Rekey \/ Rotate
  PROVE  Typed'
<1> USE DEF TypeOK, Numbered, proc
<1>1. CASE Create
  <2>1. PICK ns \in Namespaces :
          tc' = [NoCopy EXCEPT !.life = "live", !.uid = tc.uid + 1, !.ns = ns]
    BY <1>1 DEF Create
  <2>2. tc.uid \in 0..MaxUID /\ tc.uid < MaxUID
    BY <1>1 DEF Create, Copies
  <2>3. tc' = [life |-> "live", uid |-> tc.uid + 1, fin |-> FALSE, ns |-> ns,
               key |-> NoCopy.key]
    BY <2>1 DEF NoCopy
  <2>4. tc.uid + 1 \in 0..MaxUID /\ tc.uid + 1 # 0
    BY <2>2, Bounds
  <2>5. tc' \in Copies /\ tc'.uid # 0
    BY <2>3, <2>4, NoCopyKey DEF Copies
  <2> QED
    BY <1>1, <2>5 DEF Create
<1>2. CASE Delete
  BY <1>2 DEF Delete, Copies
<1>3. CASE Move
  BY <1>3, Bounds DEF Move, Edit, Copies, Labelled
<1>4. CASE Rekey
  <2>1. tc' \in Copies /\ tc'.uid = tc.uid /\ tc'.life = tc.life
    BY <1>4 DEF Rekey, Copies
  <2>2. tc.uid \in UIDs
    BY <1>4, Bounds DEF Rekey, Copies, UIDs
  <2> QED
    BY <1>4, <2>1, <2>2, Bounds DEF Rekey, Edit
<1>5. CASE Rotate
  <2>1. secret' \in 0..MaxEdits
    BY <1>5, Bounds DEF Rotate, Edit
  <2> QED
    BY <1>5, <2>1, Bounds DEF Rotate, Edit
<1> QED
  BY <1>1, <1>2, <1>3, <1>4, <1>5

LEMMA NextTyped == Typed /\ [Next]_vars => Typed'
<1> SUFFICES ASSUME Typed, [Next]_vars PROVE Typed'
  OBVIOUS
<1>1. CASE UNCHANGED vars
  BY <1>1 DEF vars, world, proc, TypeOK, Numbered
<1>2. CASE Next
  BY <1>2, ReconcileTyped, ReconcileDeleteTyped, FailureTyped, OperatorTyped DEF Next
<1> QED
  BY <1>1, <1>2

LEMMA AlwaysTyped == Spec => []Typed
BY InitTyped, NextTyped, PTL DEF Spec

(* Every state of every behaviour is typed, the client cache of a replaced     *)
(* TenantCluster and the copies of overlapping processes included.             *)
THEOREM TypeCorrect == Spec => []TypeOK
<1>1. Typed => TypeOK
  OBVIOUS
<1> QED
  BY <1>1, AlwaysTyped, PTL

--------------------------------------------------------------------------------
(* Why no host object is left without an owner.                                *)

Tearing == {"tearCore", "tearGateways", "strip", "drop"}

(* A copy with the current resourceVersion is the TenantCluster as it is; only *)
(* one that our finalizer holds is under deletion; and a teardown that was     *)
(* held up drops nothing.                                                      *)
Current == \A p \in fresh : pc[p] # "idle" => mine[p] = tc
Pinned  == tc.life = "deleting" => tc.fin
NotHeld == \A p \in Procs : pc[p] = "drop" => p \notin held

(* While no two processes had a deletion in hand at once: what is on the host  *)
(* is in the namespace that the pinned TenantCluster names, or excused; a      *)
(* process past the finalizer works for a TenantCluster that is there; one     *)
(* that tears down does so alone; and what it has been through is gone.        *)
Answered ==
    \A o \in Labelled \ excused : tc.life # "absent" /\ tc.fin /\ o[1] = tc.ns
InHand ==
    \A p \in Procs : pc[p] \notin {"idle", "finalize"} => tc.life # "absent" /\ tc.fin
Alone ==
    \A p \in Procs : pc[p] \in Tearing =>
        tc.life = "deleting" /\ \A q \in Procs \ {p} : pc[q] = "idle"
Emptied ==
    \A p \in fresh \ held :
        /\ pc[p] \in {"tearGateways", "strip", "drop"} => host[<<tc.ns, "core">>] = 0
        /\ pc[p] \in {"strip", "drop"} /\ p \notin skipped => host[<<tc.ns, "gateway">>] = 0

CoverInv ==
    /\ Current /\ Pinned /\ NotHeld
    /\ ~overlap => Answered /\ InHand /\ Alone /\ Emptied

USE DEF Tearing, Labelled

LEMMA InitCovers == Init => CoverInv
BY NoCopyTyped DEF Init, CoverInv, Current, Pinned, NotHeld, Answered, InHand, Alone, Emptied

(* A process that returns, in a step that leaves the world and the others      *)
(* alone, leaves less to say.                                                  *)
LEMMA ReturnCovers ==
  ASSUME Typed, CoverInv, NEW p \in Procs, Return(p),
         UNCHANGED world, fresh' \in {fresh, {p}}
  PROVE  CoverInv'
<1>1. /\ pc'[p] = "idle" /\ \A q \in Procs \ {p} : pc'[q] = pc[q] /\ mine'[q] = mine[q]
      /\ \A q \in Procs \ {p} : (q \in held' <=> q \in held) /\ (q \in skipped' <=> q \in skipped)
  BY ReturnTyped DEF Return
<1>2. fresh \subseteq Procs
  BY DEF TypeOK
<1> USE <1>1, <1>2 DEF CoverInv, world
<1>3. Current' /\ Pinned' /\ NotHeld'
  BY DEF Current, Pinned, NotHeld
<1>4. ASSUME ~overlap' PROVE Answered' /\ InHand'
  BY <1>4 DEF Answered, InHand
<1>5. ASSUME ~overlap' PROVE Alone' /\ Emptied'
  BY <1>5 DEF Alone, Emptied
<1> QED
  BY <1>3, <1>4, <1>5

(* A pass creates host objects only for the TenantCluster that holds it.       *)
LEMMA SyncCovers ==
  ASSUME Typed, CoverInv, NEW p \in Procs, NEW k \in Kinds, NEW next \in {"syncGateways", "status"},
         pc[p] \in {"syncCore", "syncGateways"}, Sync(p, k, next)
  PROVE  CoverInv'
<1>1. pc' = [pc EXCEPT ![p] = next] /\ pc \in [Procs -> PCs] /\ fresh \subseteq Procs
  BY DEF Sync, Goto, TypeOK
<1>2. Current' /\ Pinned' /\ NotHeld'
  BY <1>1 DEF CoverInv, Current, Pinned, NotHeld, Sync
<1>3. ASSUME ~overlap PROVE Answered'
  <2>1. tc.life # "absent" /\ tc.fin
    BY <1>3 DEF CoverInv, InHand
  <2>2. \A o \in Objects : host'[o] # host[o] => o[1] = tc.ns \/ o \in excused'
    BY DEF Sync, TypeOK
  <2>3. excused \subseteq excused' /\ tc' = tc
    BY DEF Sync
  <2> QED
    BY <1>3, <2>1, <2>2, <2>3 DEF CoverInv, Answered
<1>4. ASSUME ~overlap PROVE InHand' /\ Alone'
  BY <1>1, <1>4 DEF CoverInv, InHand, Alone, Sync
<1>5. ASSUME ~overlap PROVE Emptied'
  <2>1. \A q \in Procs : pc'[q] \notin Tearing
    BY <1>1, <1>5 DEF CoverInv, Alone
  <2> QED
    BY <1>1, <2>1 DEF Emptied, Sync
<1> QED
  BY <1>2, <1>3, <1>4, <1>5 DEF CoverInv, Sync

LEMMA ReconcileCovers ==
  ASSUME Typed, CoverInv, NEW p \in Procs, Reconcile(p)
  PROVE  CoverInv'
<1> USE DEF TypeOK, Goto
<1>1. CASE Begin(p)
  <2>1. /\ mine' = [mine EXCEPT ![p] = tc] /\ tc' = tc /\ host' = host /\ excused' = excused
        /\ fresh' = fresh \cup {p} /\ held' = held /\ skipped' = skipped
        /\ pc[p] = "idle" /\ tc.life # "absent"
        /\ pc' = [pc EXCEPT ![p] = IF tc.life = "deleting" THEN "tearCore"
                                   ELSE IF tc.fin THEN "client" ELSE "finalize"]
    BY <1>1 DEF Begin, Read
  <2>2. Current' /\ Pinned' /\ NotHeld'
    BY <2>1 DEF CoverInv, Current, Pinned, NotHeld
  <2>3. ASSUME ~overlap'
        PROVE  ~overlap /\ (tc.life = "deleting" => \A q \in Procs \ {p} : pc[q] = "idle")
    BY <1>1, <2>3 DEF Begin, Others
  <2>4. ASSUME ~overlap' PROVE Answered' /\ InHand'
    BY <2>1, <2>3, <2>4 DEF CoverInv, Answered, InHand, Pinned
  <2>5. ASSUME ~overlap' PROVE Alone'
    BY <2>1, <2>3, <2>5 DEF CoverInv, Alone
  <2>6. ASSUME ~overlap' PROVE Emptied'
    BY <2>1, <2>3, <2>6 DEF CoverInv, Emptied
  <2> QED
    BY <2>2, <2>4, <2>5, <2>6 DEF CoverInv
<1>2. CASE AddFinalizer(p)
  <2>1. /\ tc' = [tc EXCEPT !.fin = TRUE] /\ mine' = [mine EXCEPT ![p].fin = TRUE]
        /\ pc' = [pc EXCEPT ![p] = "client"] /\ fresh' = {p} /\ p \in fresh
        /\ pc[p] = "finalize" /\ tc.life # "absent"
        /\ UNCHANGED <<host, excused, overlap, held, skipped>>
    BY <1>2 DEF AddFinalizer, Accepted
  <2>2. mine[p] = tc /\ tc \in Copies
    BY <2>1 DEF CoverInv, Current
  <2>3. Current'
    BY <2>1, <2>2 DEF Current
  <2>4. tc'.life = tc.life /\ tc'.fin /\ tc'.ns = tc.ns
    BY <2>1, <2>2 DEF Copies
  <2>5. Pinned' /\ NotHeld'
    BY <2>1, <2>4 DEF CoverInv, Pinned, NotHeld
  <2>6. ASSUME ~overlap PROVE Answered' /\ InHand'
    BY <2>1, <2>4, <2>6 DEF CoverInv, Answered, InHand
  <2>7. ASSUME ~overlap PROVE Alone' /\ Emptied'
    BY <2>1, <2>4, <2>7 DEF CoverInv, Alone, Emptied
  <2> QED
    BY <2>1, <2>3, <2>5, <2>6, <2>7 DEF CoverInv
<1>3. CASE FinalizerRefused(p) \/ UpdateStatus(p)
  BY <1>3, ReturnCovers DEF FinalizerRefused, UpdateStatus
<1>4. CASE Connect(p) \/ Disconnected(p)
  <2>1. /\ pc[p] \in {"client", "syncCore"} /\ \E next \in {"syncCore", "status"} :
              pc' = [pc EXCEPT ![p] = next]
        /\ UNCHANGED <<tc, host, excused, overlap, mine, held, skipped, fresh>>
    BY <1>4 DEF Connect, Disconnected, world
  <2>2. Current' /\ Pinned' /\ NotHeld'
    BY <2>1 DEF CoverInv, Current, Pinned, NotHeld
  <2>3. ASSUME ~overlap PROVE Answered' /\ InHand'
    BY <2>1, <2>3 DEF CoverInv, Answered, InHand
  <2>4. ASSUME ~overlap PROVE Alone' /\ Emptied'
    BY <2>1, <2>4 DEF CoverInv, Alone, Emptied
  <2> QED
    BY <2>1, <2>2, <2>3, <2>4 DEF CoverInv
<1>5. CASE SyncCore(p) \/ SyncGateways(p)
  BY <1>5, SyncCovers DEF SyncCore, SyncGateways, Kinds
<1> QED
  BY <1>1, <1>2, <1>3, <1>4, <1>5 DEF Reconcile

(* A teardown takes what is in the namespace its copy names, which is the      *)
(* TenantCluster's own if the copy is current.                                 *)
LEMMA TearDownCovers ==
  ASSUME Typed, CoverInv, NEW p \in Procs,
         TearCore(p) \/ TearGateways(p)
  PROVE  CoverInv'
<1> USE DEF TypeOK, Goto
<1>1. /\ pc[p] \in {"tearCore", "tearGateways"}
      /\ pc' = [pc EXCEPT ![p] = IF pc[p] = "tearCore" THEN "tearGateways" ELSE "strip"]
      /\ UNCHANGED <<tc, mine, overlap, fresh>>
  BY DEF TearCore, TearGateways, TearDown, SkipGateways, world
<1>2. DEFINE k == IF pc[p] = "tearCore" THEN "core" ELSE "gateway"
<1>3. \/ DeleteKind(p, k) /\ UNCHANGED <<held, skipped>>
      \/ held' = held \cup {p} /\ UNCHANGED <<host, excused, skipped>>
      \/ k = "gateway" /\ skipped' = skipped \cup {p} /\ UNCHANGED <<host, excused, held>>
  BY DEF TearCore, TearGateways, TearDown, SkipGateways, world
<1> HIDE DEF k
<1>4. Current' /\ Pinned' /\ NotHeld'
  BY <1>1, <1>3 DEF CoverInv, Current, Pinned, NotHeld
<1>5. /\ \A o \in Labelled' \ excused' : o \in Labelled \ excused
      /\ \A o \in Objects : host[o] = 0 => host'[o] = 0
  <2>1. <<mine[p].ns, k>> \in Objects
    BY DEF Copies, Objects, Kinds, k
  <2> QED
    BY <1>3, <2>1 DEF DeleteKind
<1>6. ASSUME ~overlap PROVE Answered' /\ InHand' /\ Alone'
  BY <1>1, <1>5, <1>6 DEF CoverInv, Answered, InHand, Alone
<1>7. ASSUME ~overlap PROVE Emptied'
  <2> SUFFICES ASSUME p \in fresh', p \notin held'
               PROVE  /\ host'[<<tc.ns, "core">>] = 0
                      /\ pc[p] = "tearGateways" /\ p \notin skipped'
                            => host'[<<tc.ns, "gateway">>] = 0
    <3>1. \A q \in Procs \ {p} : pc'[q] = "idle"
      BY <1>1, <1>7 DEF CoverInv, Alone
    <3> QED
      BY <1>1, <3>1 DEF Emptied
  <2>1. mine[p] = tc /\ p \notin held
    BY <1>1, <1>3 DEF CoverInv, Current
  <2>2. <<tc.ns, "core">> \in Objects /\ <<tc.ns, "gateway">> \in Objects
    BY DEF Copies, Objects, Kinds
  <2>3. CASE DeleteKind(p, k) /\ UNCHANGED <<held, skipped>>
    <3>1. host'[<<tc.ns, k>>] = 0
      BY <2>1, <2>2, <2>3 DEF DeleteKind, k
    <3>2. CASE pc[p] = "tearCore"
      BY <3>1, <3>2 DEF k
    <3>3. CASE pc[p] = "tearGateways"
      <4>1. k = "gateway"
        BY <3>3 DEF k
      <4>2. host[<<tc.ns, "core">>] = 0
        BY <1>1, <1>7, <2>1, <3>3 DEF CoverInv, Emptied
      <4> QED
        BY <1>5, <2>2, <3>1, <4>1, <4>2
    <3> QED
      BY <1>1, <3>2, <3>3
  <2>4. CASE k = "gateway" /\ skipped' = skipped \cup {p} /\ UNCHANGED <<host, excused, held>>
    BY <1>1, <1>7, <2>1, <2>4 DEF CoverInv, Emptied, k
  <2> QED
    BY <1>3, <2>3, <2>4
<1> QED
  BY <1>1, <1>4, <1>6, <1>7 DEF CoverInv

LEMMA ReconcileDeleteCovers ==
  ASSUME Typed, CoverInv, NEW p \in Procs, ReconcileDelete(p)
  PROVE  CoverInv'
<1> USE DEF TypeOK, Goto
<1>1. CASE TearCore(p) \/ TearGateways(p)
  BY <1>1, TearDownCovers
<1>2. CASE Requeue(p) \/ DropRefused(p)
  BY <1>2, ReturnCovers DEF Requeue, DropRefused
<1>3. CASE Strip(p)
  <2>1. /\ pc[p] = "strip" /\ p \notin held /\ pc' = [pc EXCEPT ![p] = "drop"]
        /\ UNCHANGED <<tc, host, excused, overlap, mine, held, skipped, fresh>>
    BY <1>3 DEF Strip, Held, world
  <2>2. Current' /\ Pinned' /\ NotHeld'
    BY <2>1 DEF CoverInv, Current, Pinned, NotHeld
  <2>3. ASSUME ~overlap PROVE Answered' /\ InHand'
    BY <2>1, <2>3 DEF CoverInv, Answered, InHand
  <2>4. ASSUME ~overlap PROVE Alone' /\ Emptied'
    BY <2>1, <2>4 DEF CoverInv, Alone, Emptied
  <2> QED
    BY <2>1, <2>2, <2>3, <2>4 DEF CoverInv
<1>4. CASE DropFinalizer(p)
  <2>1. /\ pc[p] = "drop" /\ p \in fresh /\ fresh' = {} /\ UNCHANGED <<host, overlap>>
        /\ tc' = [tc EXCEPT !.life = "absent", !.fin = FALSE]
        /\ excused' = IF p \in skipped THEN excused \cup {<<mine[p].ns, "gateway">>} ELSE excused
    BY <1>4 DEF DropFinalizer, Accepted
  <2>2. /\ pc'[p] = "idle" /\ \A q \in Procs \ {p} : pc'[q] = pc[q]
        /\ \A q \in held' : q \in held
    BY <1>4, ReturnTyped DEF DropFinalizer, Return
  <2>3. mine[p] = tc /\ p \notin held /\ tc'.life = "absent"
    BY <2>1 DEF CoverInv, Current, NotHeld, Copies
  <2>4. Current' /\ Pinned' /\ NotHeld'
    BY <2>1, <2>2, <2>3 DEF CoverInv, Current, Pinned, NotHeld
  <2>5. ASSUME ~overlap PROVE InHand' /\ Alone' /\ Emptied'
    <3>1. \A q \in Procs : pc'[q] = "idle"
      BY <2>1, <2>2, <2>5 DEF CoverInv, Alone
    <3> QED
      BY <2>1, <3>1 DEF InHand, Alone, Emptied
  <2>6. ASSUME ~overlap PROVE Answered'
    <3> SUFFICES ASSUME NEW o \in Labelled' \ excused' PROVE FALSE
      BY DEF Answered
    <3>1. o \in Objects /\ host[o] # 0 /\ o \notin excused
      BY <2>1
    <3>2. o[1] = tc.ns
      BY <2>6, <3>1 DEF CoverInv, Answered
    <3>3. o = <<tc.ns, "core">> \/ o = <<tc.ns, "gateway">>
      BY <3>1, <3>2 DEF Objects, Kinds
    <3>4. host[<<tc.ns, "core">>] = 0 /\ (p \notin skipped => host[<<tc.ns, "gateway">>] = 0)
      BY <2>1, <2>3, <2>6 DEF CoverInv, Emptied
    <3> QED
      BY <2>1, <2>3, <3>1, <3>3, <3>4
  <2> QED
    BY <2>1, <2>4, <2>5, <2>6 DEF CoverInv
<1> QED
  BY <1>1, <1>2, <1>3, <1>4 DEF ReconcileDelete

LEMMA OperatorCovers ==
  ASSUME Typed, CoverInv, Create \/ Delete \/ Move \/ Rekey \/ Rotate
  PROVE  CoverInv'
<1> USE DEF TypeOK, proc
<1>1. CASE Create
  <2>1. /\ tc.life = "absent" /\ fresh' = {} /\ UNCHANGED <<host, excused, overlap, pc, held>>
        /\ tc'.life = "live"
    <3>1. PICK ns \in Namespaces :
            tc' = [NoCopy EXCEPT !.life = "live", !.uid = tc.uid + 1, !.ns = ns]
      BY <1>1 DEF Create
    <3> QED
      BY <1>1, <3>1 DEF Create, NoCopy
  <2>2. Current' /\ Pinned' /\ NotHeld'
    BY <2>1 DEF CoverInv, Current, Pinned, NotHeld
  <2>3. ASSUME ~overlap PROVE Answered' /\ InHand' /\ Alone' /\ Emptied'
    BY <2>1, <2>3 DEF CoverInv, Answered, InHand, Alone, Emptied
  <2> QED
    BY <2>1, <2>2, <2>3 DEF CoverInv
<1>2. CASE Delete
  <2>1. /\ tc.life = "live" /\ fresh' = {} /\ UNCHANGED <<host, excused, overlap, pc, held>>
        /\ tc'.life = (IF tc.fin THEN "deleting" ELSE "absent")
        /\ tc'.fin = tc.fin /\ tc'.ns = tc.ns
    BY <1>2 DEF Delete, Copies
  <2>2. Current' /\ Pinned' /\ NotHeld'
    BY <2>1 DEF CoverInv, Current, Pinned, NotHeld
  <2>3. ASSUME ~overlap PROVE Answered' /\ InHand' /\ Alone' /\ Emptied'
    BY <2>1, <2>3 DEF CoverInv, Answered, InHand, Alone, Emptied
  <2> QED
    BY <2>1, <2>2, <2>3 DEF CoverInv
<1>3. CASE Move
  <2>1. /\ fresh' = {} /\ UNCHANGED <<host, overlap, pc, held>>
        /\ tc.life # "absent" /\ tc'.life = tc.life /\ tc'.fin = tc.fin
        /\ excused' = {o \in excused \cup Labelled : o[1] # tc'.ns \/ ~tc.fin}
    BY <1>3 DEF Move, Copies
  <2>2. Current' /\ Pinned' /\ NotHeld'
    BY <2>1 DEF CoverInv, Current, Pinned, NotHeld
  <2>3. ASSUME ~overlap PROVE InHand' /\ Alone' /\ Emptied'
    BY <2>1, <2>3 DEF CoverInv, InHand, Alone, Emptied
  <2>4. Answered'
    BY <2>1 DEF Answered
  <2> QED
    BY <2>1, <2>2, <2>3, <2>4 DEF CoverInv
<1>4. CASE Rekey
  <2>1. /\ fresh' = {} /\ UNCHANGED <<host, excused, overlap, pc, held>>
        /\ tc'.life = tc.life /\ tc'.fin = tc.fin /\ tc'.ns = tc.ns
    BY <1>4 DEF Rekey, Copies
  <2>2. Current' /\ Pinned' /\ NotHeld'
    BY <2>1 DEF CoverInv, Current, Pinned, NotHeld
  <2>3. ASSUME ~overlap PROVE Answered' /\ InHand' /\ Alone' /\ Emptied'
    BY <2>1, <2>3 DEF CoverInv, Answered, InHand, Alone, Emptied
  <2> QED
    BY <2>1, <2>2, <2>3 DEF CoverInv
<1>5. CASE Rotate
  BY <1>5 DEF Rotate, CoverInv, Current, Pinned, NotHeld, Answered, InHand, Alone, Emptied
<1> QED
  BY <1>1, <1>2, <1>3, <1>4, <1>5

LEMMA NextCovers == Typed /\ CoverInv /\ [Next]_vars => CoverInv'
<1> SUFFICES ASSUME Typed, CoverInv, [Next]_vars PROVE CoverInv'
  OBVIOUS
<1>1. CASE UNCHANGED vars
  BY <1>1 DEF vars, world, proc, CoverInv, Current, Pinned, NotHeld, Answered, InHand,
              Alone, Emptied
<1>2. ASSUME NEW p \in Procs, ListFails(p) \/ Crash(p) PROVE CoverInv'
  BY <1>2, ReturnCovers DEF ListFails, Crash
<1>3. CASE Next
  BY <1>2, <1>3, ReconcileCovers, ReconcileDeleteCovers, OperatorCovers DEF Next
<1> QED
  BY <1>1, <1>3

LEMMA AlwaysCovers == Spec => []CoverInv
BY InitCovers, NextCovers, AlwaysTyped, PTL, InitTyped, NextTyped DEF Spec

(* No host object is left without a TenantCluster whose finalizer will see to  *)
(* it, however deletions, replacements, edits, failures and crashes fall, as   *)
(* long as no two processes have a deletion in hand at once.                   *)
THEOREM CoveredHolds == Spec => []Covered
<1>1. CoverInv => Covered
  BY DEF CoverInv, Answered, Covered
<1> QED
  BY <1>1, AlwaysCovers, PTL

(* A teardown deletes nothing of the TenantCluster that replaced its own.      *)
THEOREM ReplacementKeptHolds == Spec => ReplacementKept
<1>1. Typed /\ CoverInv /\ [Next]_vars =>
        \A o \in Objects : tc.life = "live" /\ host[o] = tc.uid /\ ~overlap
                               => host'[o] = host[o]
  <2> SUFFICES ASSUME Typed, CoverInv, [Next]_vars, tc.life = "live", ~overlap,
                      NEW o \in Objects, host[o] = tc.uid
               PROVE  host'[o] = host[o]
    OBVIOUS
  <2>1. host[o] # 0 /\ \A p \in Procs : pc[p] \notin Tearing
    BY DEF Numbered, CoverInv, Alone
  <2>2. ASSUME NEW p \in Procs, NEW k, NEW next, Sync(p, k, next) PROVE host'[o] = host[o]
    BY <2>1, <2>2 DEF Sync, TypeOK
  <2>3. ASSUME NEW p \in Procs, Reconcile(p) PROVE host'[o] = host[o]
    BY <2>2, <2>3 DEF Reconcile, Begin, AddFinalizer, FinalizerRefused, Connect, Disconnected,
                      SyncCore, SyncGateways, UpdateStatus, world
  <2>4. ASSUME NEW p \in Procs, ReconcileDelete(p) PROVE FALSE
    BY <2>1, <2>4 DEF ReconcileDelete, TearCore, TearGateways, Requeue, Strip, DropFinalizer,
                      DropRefused
  <2>5. ASSUME NEW p \in Procs, ListFails(p) \/ Crash(p) PROVE host'[o] = host[o]
    BY <2>5 DEF ListFails, Crash, world
  <2>6. ASSUME Create \/ Delete \/ Move \/ Rekey \/ Rotate PROVE host'[o] = host[o]
    BY <2>6 DEF Create, Delete, Move, Rekey, Rotate
  <2> QED
    BY <2>3, <2>4, <2>5, <2>6 DEF Next, vars, world
<1> QED
  BY <1>1, AlwaysTyped, AlwaysCovers, PTL DEF Spec, ReplacementKept

--------------------------------------------------------------------------------
(* Why a pass reaches the guest that its TenantCluster names: until its key is *)
(* edited, a TenantCluster, every copy of it and every client built for it     *)
(* have the key it was created with.                                           *)
KeyInv ==
    /\ tc.uid \notin rekeyed => tc.key = NoCopy.key
    /\ \A p \in Procs : mine[p].uid \notin rekeyed => mine[p].key = NoCopy.key
    /\ \A p \in Procs : \A u \in UIDs \ rekeyed :
          \A c \in guests[p][u] : c.key = NoCopy.key

LEMMA ClientKey ==
  ASSUME Typed, KeyInv, NEW p \in Procs, pc[p] # "idle", NEW c \in ClientFor(p)
  PROVE  c.rv = secret /\ (c.key = mine[p].key \/ mine[p].uid \in rekeyed)
<1>1. mine[p].uid \in UIDs
  BY ClientTyped
<1>2. CASE Hit(p)
  <2>1. Cached(p) \in NoneOrOne /\ c \in Cached(p)
    BY <1>1, <1>2 DEF ClientFor, Cached, TypeOK
  <2>2. c.rv = secret
    BY <1>2, <2>1 DEF Hit, NoneOrOne
  <2>3. mine[p].uid \notin rekeyed => c.key = mine[p].key
    BY <1>1, <2>1 DEF KeyInv, Cached
  <2> QED
    BY <2>2, <2>3
<1>3. CASE ~Hit(p)
  BY <1>3 DEF ClientFor, BuiltFor
<1> QED
  BY <1>2, <1>3

LEMMA NextKeys == Typed /\ KeyInv /\ [Next]_vars => KeyInv'
<1> SUFFICES ASSUME Typed, KeyInv, [Next]_vars PROVE KeyInv'
  OBVIOUS
<1> USE DEF KeyInv, TypeOK
<1>1. ASSUME NEW p \in Procs, Return(p), UNCHANGED <<tc, rekeyed, guests>> PROVE KeyInv'
  BY <1>1 DEF Return
<1>2. ASSUME NEW p \in Procs, Reconcile(p) PROVE KeyInv'
  <2>1. CASE Begin(p)
    BY <2>1 DEF Begin, Read
  <2>2. CASE AddFinalizer(p)
    BY <2>2 DEF AddFinalizer, Copies
  <2>3. CASE FinalizerRefused(p) \/ UpdateStatus(p)
    BY <1>1, <2>3 DEF FinalizerRefused, UpdateStatus, world
  <2>4. CASE Connect(p)
    <3>1. pc[p] # "idle" /\ UNCHANGED <<tc, rekeyed, mine>>
          /\ guests' = [guests EXCEPT ![p][mine[p].uid] = ClientFor(p)]
      BY <2>4 DEF Connect, world
    <3>2. mine[p].uid \in UIDs
      BY <3>1, ClientTyped
    <3>3. \A c \in ClientFor(p) : mine[p].uid \notin rekeyed => c.key = NoCopy.key
      BY <3>1, ClientKey
    <3> QED
      BY <3>1, <3>2, <3>3
  <2>5. CASE Disconnected(p) \/ SyncCore(p) \/ SyncGateways(p)
    BY <2>5 DEF Disconnected, SyncCore, SyncGateways, Sync, world
  <2> QED
    BY <1>2, <2>1, <2>2, <2>3, <2>4, <2>5 DEF Reconcile
<1>3. ASSUME NEW p \in Procs, ReconcileDelete(p) PROVE KeyInv'
  <2>1. CASE TearCore(p) \/ TearGateways(p)
    BY <2>1 DEF TearCore, TearGateways, TearDown, SkipGateways, world
  <2>2. CASE Requeue(p) \/ DropRefused(p)
    BY <1>1, <2>2 DEF Requeue, DropRefused, world
  <2>3. CASE Strip(p)
    BY <2>3, ClientTyped DEF Strip, world
  <2>4. CASE DropFinalizer(p)
    BY <2>4, NoCopyTyped DEF DropFinalizer, Return, Copies
  <2> QED
    BY <1>3, <2>1, <2>2, <2>3, <2>4 DEF ReconcileDelete
<1>4. ASSUME NEW p \in Procs, ListFails(p) \/ Crash(p) PROVE KeyInv'
  <2>1. CASE ListFails(p)
    BY <1>1, <2>1 DEF ListFails, world
  <2>2. CASE Crash(p)
    BY <2>2 DEF Crash, Return, world
  <2> QED
    BY <1>4, <2>1, <2>2
<1>5. ASSUME Create \/ Delete \/ Move \/ Rekey \/ Rotate PROVE KeyInv'
  <2>1. CASE Create
    <3>1. tc'.key = NoCopy.key
      <4>1. PICK ns \in Namespaces :
              tc' = [NoCopy EXCEPT !.life = "live", !.uid = tc.uid + 1, !.ns = ns]
        BY <2>1 DEF Create
      <4> QED
        BY <4>1 DEF NoCopy
    <3> QED
      BY <2>1, <3>1 DEF Create, proc
  <2>2. CASE Delete \/ Move \/ Rotate
    BY <2>2 DEF Delete, Move, Rotate, Copies, proc
  <2>3. CASE Rekey
    BY <2>3 DEF Rekey, Copies, proc
  <2> QED
    BY <1>5, <2>1, <2>2, <2>3
<1>6. CASE UNCHANGED vars
  BY <1>6 DEF vars, world, proc
<1> QED
  BY <1>2, <1>3, <1>4, <1>5, <1>6 DEF Next

(* A pass reaches the guest by the Secret as it reads it, however often that   *)
(* was rotated and the TenantCluster replaced, and under the key its           *)
(* TenantCluster names, unless that was edited.                                *)
THEOREM GuestAsNamedHolds == Spec => GuestAsNamed
<1>1. Init => KeyInv
  BY DEF Init, KeyInv
<1>2. Typed /\ KeyInv /\ [Next]_vars =>
        \A p \in Procs : \A c \in using'[p] \ using[p] :
          c.rv = secret /\ (c.key = mine[p].key \/ mine[p].uid \in rekeyed)
  <2> SUFFICES ASSUME Typed, KeyInv, [Next]_vars, NEW p \in Procs,
                      NEW c \in using'[p], c \notin using[p]
               PROVE  c.rv = secret /\ (c.key = mine[p].key \/ mine[p].uid \in rekeyed)
    OBVIOUS
  <2>1. ASSUME NEW q \in Procs, Return(q) PROVE FALSE
    BY <2>1 DEF Return, TypeOK
  <2>2. ASSUME NEW q \in Procs, Connect(q) PROVE p = q /\ c \in ClientFor(p) /\ pc[p] # "idle"
    BY <2>2 DEF Connect, TypeOK
  <2>3. ASSUME NEW q \in Procs, Reconcile(q) PROVE Connect(q)
    BY <2>1, <2>3 DEF Reconcile, Begin, AddFinalizer, FinalizerRefused, Disconnected,
                      SyncCore, SyncGateways, Sync, UpdateStatus
  <2>4. ASSUME NEW q \in Procs, ReconcileDelete(q) \/ ListFails(q) \/ Crash(q) PROVE FALSE
    BY <2>1, <2>4 DEF ReconcileDelete, TearCore, TearGateways, TearDown, SkipGateways, Requeue,
                      Strip, DropFinalizer, DropRefused, ListFails, Crash
  <2>5. ~(Create \/ Delete \/ Move \/ Rekey \/ Rotate) /\ ~UNCHANGED vars
    BY DEF Create, Delete, Move, Rekey, Rotate, proc, vars
  <2>6. PICK q \in Procs : Connect(q)
    BY <2>3, <2>4, <2>5 DEF Next
  <2> QED
    BY <2>2, <2>6, ClientKey
<1>3. Spec => []KeyInv
  BY <1>1, NextKeys, AlwaysTyped, PTL DEF Spec
<1> QED
  BY <1>2, <1>3, AlwaysTyped, PTL DEF Spec, GuestAsNamed
================================================================================
